-------------------------- MODULE ClearDeadMappers --------------------------
(***************************************************************************)
(* zuluCryptClearDeadMappers(): before it does anything else, each program *)
(* looks at the mappers of its user and takes away those whose device is   *)
(* gone, with the steps of CloseVolume.  With --clear-dead-mount-points it *)
(* goes on to remove unused folders and to unmount what is mounted from a  *)
(* device that is not in the list of partitions.                           *)
(***************************************************************************)
EXTENDS VolumeState

\* The mount list is read once, at the beginning, and used for every mapper
ListMappers(p) ==
    /\ pc[p] = "sweep"
    /\ Goto(p, "scan")
    /\ seen' = [seen EXCEPT ![p] = mounts]
    /\ todo' = [todo EXCEPT ![p] = {m \in SweptBy(job[p].user) : mapper[m] # "absent"}]
    /\ root' = [root EXCEPT ![p] = TRUE]
    /\ UNCHANGED <<kernel, refused, job, phase, left, cur, point, try, rc>>

\* crypt_init_by_name() fails without privileges and for a mapper that is no
\* longer there, and a mapper whose device is gone has no device name
LooksDead(p, m) == mapper[m] # "live" \/ ~root[p]

ExamineMapper(p) ==
    /\ pc[p] = "scan"
    /\ \E m \in todo[p] :
         \/ /\ LooksDead(p, m)
            /\ Goto(p, "unshare")
            /\ cur' = [cur EXCEPT ![p] = m]
            /\ UNCHANGED todo
         \/ /\ ~LooksDead(p, m)
            /\ todo' = [todo EXCEPT ![p] = @ \ {m}]
            /\ UNCHANGED <<pc, cur>>
    /\ UNCHANGED <<kernel, refused, job, phase, root, seen, left, point, try, rc>>

\* The sweep is over: what the command line asks for comes next
FirstStep == [open |-> "mkdir", close |-> "close", clear |-> "folders"]

EndSweep(p) ==
    /\ pc[p] = "scan"
    /\ todo[p] = {}
    /\ \/ job[p].op = "sweep" /\ Exit(p, 0)
       \/ /\ job[p].op # "sweep"
          /\ Goto(p, FirstStep[job[p].op])
          /\ phase' = [phase EXCEPT ![p] = IF job[p].op = "clear" THEN "dead" ELSE "main"]
          /\ root' = [root EXCEPT ![p] = TRUE]
          /\ cur' = [cur EXCEPT ![p] = IF job[p].op = "clear"
                                         THEN NoMapper
                                         ELSE <<job[p].user, job[p].device>>]
          /\ seen' = [seen EXCEPT ![p] = IF job[p].op = "clear" THEN @ ELSE NoMounts]
          /\ UNCHANGED <<job, todo, left, point, try, rc>>
    /\ UNCHANGED <<kernel, refused>>

-----------------------------------------------------------------------------
(* zuluCryptDeleteDeadMountPoints() *)

\* the folders of this user, and the shared ones, that the old list has not
ListFolders(p) ==
    /\ pc[p] = "folders"
    /\ Goto(p, "rmdirs")
    /\ left' = [left EXCEPT ![p] =
                  {pt \in dirs : /\ pt \in PublicPoints \/ pt.user = job[p].user
                                 /\ ~IsListed(pt, seen[p])}]
    /\ UNCHANGED <<kernel, refused, job, phase, root, seen, todo, cur, point, try, rc>>

RemoveFolder(p) ==
    /\ pc[p] = "rmdirs"
    /\ \E pt \in left[p] :
         /\ Rmdir(pt)
         /\ left' = [left EXCEPT ![p] = @ \ {pt}]
    /\ UNCHANGED <<mapper, present, mounts, refused>>
    /\ UNCHANGED <<pc, job, phase, root, seen, todo, cur, point, try, rc>>

\* _unmount_dead_mount_points() takes every mounted /dev path that is not in
\* the list of partitions; that list never has a mapper of a volume
ListMounted(p) ==
    /\ pc[p] = "rmdirs"
    /\ left[p] = {}
    /\ Goto(p, "dead")
    /\ seen' = [seen EXCEPT ![p] = NoMounts]
    /\ todo' = [todo EXCEPT ![p] = {m \in Mapper : EntriesOf(m, mounts) # {}}]
    /\ UNCHANGED <<kernel, refused, job, phase, root, left, cur, point, try, rc>>

NextMounted(p) ==
    /\ pc[p] = "dead"
    /\ \/ todo[p] = {} /\ Exit(p, 0)
       \/ \E m \in todo[p] :
            /\ Goto(p, "entries")
            /\ cur' = [cur EXCEPT ![p] = m]
            /\ UNCHANGED <<job, phase, root, seen, todo, left, point, try, rc>>
    /\ UNCHANGED <<kernel, refused>>

ClearStep(p) ==
    \/ ListMappers(p) \/ ExamineMapper(p) \/ EndSweep(p)
    \/ ListFolders(p) \/ RemoveFolder(p) \/ ListMounted(p) \/ NextMounted(p)
=============================================================================
