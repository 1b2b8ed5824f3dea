---------------------------- MODULE CloseVolume ----------------------------
(***************************************************************************)
(* zuluCryptEXECloseVolume() and the calls it is built from:               *)
(* zuluCryptBindUnmountVolume() takes the share away,                      *)
(* zuluCryptUnmountVolume() the mounts that are left, zuluCryptCloseMapper *)
(* locks the volume, and the mount point folder is removed last.  The      *)
(* sweep of dead mappers runs the same steps on each mapper it condemns    *)
(* (phase "sweep"), --clear-dead-mount-points runs the unmounting alone    *)
(* (phase "dead").                                                         *)
(***************************************************************************)
EXTENDS VolumeState

\* zuluCryptEXECloseVolume() : is the mapper there, and the mount list
Close(p) ==
    /\ pc[p] = "close"
    /\ \/ mapper[cur[p]] = "absent" /\ Exit(p, 1)
       \/ /\ mapper[cur[p]] # "absent"
          /\ Goto(p, "unshare")
          /\ seen' = [seen EXCEPT ![p] = mounts]
          /\ UNCHANGED <<job, phase, root, todo, left, cur, point, try, rc>>
    /\ UNCHANGED <<kernel, refused>>

-----------------------------------------------------------------------------
(* _zuluCryptBindUnmountVolume() *)

\* The first line of the list for the mapper; an open mounts the private
\* folder before it binds the shared one
FirstEntries(p) ==
    LET es == EntriesOf(cur[p], seen[p])
        private == es \cap PrivatePoints
    IN  IF private = {} THEN es ELSE private

\* a member of "zulumount", or the owner of the folder
AllowedUser(p, pt) ==
    job[p].user \in Group \/ (pt \in PrivatePoints /\ pt.user = job[p].user)

\* mutant: whatever is listed for the shared folder is taken for the volume's own
SharedByAnyone(p, pt) == IsListed(Public(pt.name), seen[p])

\* is the volume's own device the first one listed for the shared folder
IsShared(p, pt) ==
    LET pub == Public(pt.name) IN
    IsListed(pub, seen[p]) /\ FirstListed(pub, seen[p]) = cur[p]

\* Every path through _zuluCryptBindUnmountVolume() ends with
\* zuluCryptSecurityDropElevatedPrivileges(); closing a volume gains them
\* again before it goes on, the sweep does not
Proceed(p) ==
    /\ Goto(p, "entries")
    /\ root' = [root EXCEPT ![p] = phase[p] = "main" \/ DropsToRoot(p)]
    /\ UNCHANGED <<job, phase, seen, todo, left, cur, point, try, rc>>

\* codes 7 and 8 of zuluCryptEXECloseVolume(); the sweep skips the mapper
GiveUp(p, code) ==
    \/ phase[p] = "main" /\ Exit(p, code)
    \/ /\ phase[p] = "sweep"
       /\ Goto(p, "scan")
       /\ todo' = [todo EXCEPT ![p] = @ \ {cur[p]}]
       /\ root' = [root EXCEPT ![p] = DropsToRoot(p)]
       /\ UNCHANGED <<job, phase, seen, left, cur, point, try, rc>>

Unshare(p) ==
    /\ pc[p] = "unshare"
    /\ \/ /\ EntriesOf(cur[p], seen[p]) = {}
          /\ Proceed(p)
          /\ UNCHANGED mounts
       \/ \E pt \in FirstEntries(p) :
            \/ ~AllowedUser(p, pt) /\ GiveUp(p, 8) /\ UNCHANGED mounts
            \/ /\ AllowedUser(p, pt)
               /\ ~IsShared(p, pt)
               /\ Proceed(p)
               /\ UNCHANGED mounts
            \/ /\ AllowedUser(p, pt)
               /\ IsShared(p, pt)
               /\ UmountTop(Public(pt.name))
               /\ Goto(p, "rmshare")
               /\ point' = [point EXCEPT ![p] = Public(pt.name)]
               /\ UNCHANGED <<job, phase, root, seen, todo, left, cur, try, rc>>
            \/ /\ AllowedUser(p, pt)
               /\ IsShared(p, pt)
               /\ GiveUp(p, 7)
               /\ UNCHANGED mounts
    /\ UNCHANGED <<mapper, present, dirs, refused>>

RemoveShare(p) ==
    /\ pc[p] = "rmshare"
    /\ Rmdir(point[p])
    /\ Goto(p, "entries")
    /\ root' = [root EXCEPT ![p] = phase[p] = "main" \/ DropsToRoot(p)]
    /\ point' = [point EXCEPT ![p] = NoPoint]
    /\ UNCHANGED <<mapper, present, mounts, refused>>
    /\ UNCHANGED <<job, phase, seen, todo, left, cur, try, rc>>

-----------------------------------------------------------------------------
(* zuluCryptUnmountVolume() and zuluCryptCloseMapper() *)

\* The mount points of the mapper now; several of them need one that is ours
ListEntries(p) ==
    LET es == EntriesOf(cur[p], mounts) IN
    /\ pc[p] = "entries"
    /\ \/ /\ es = {}
          /\ phase[p] = "dead"
          /\ Leave(p, 3)
       \/ /\ es = {}
          /\ phase[p] # "dead"
          /\ Goto(p, "lock")
          /\ UNCHANGED <<job, phase, root, seen, todo, left, cur, point, try, rc>>
       \/ /\ es # {}
          /\ Cardinality(es) > 1
          /\ es \cap PrivatePoints = {}
          /\ Leave(p, 10)
       \/ /\ es # {}
          /\ Cardinality(es) = 1 \/ es \cap PrivatePoints # {}
          /\ Goto(p, "umount")
          /\ left' = [left EXCEPT ![p] = es]
          /\ UNCHANGED <<job, phase, root, seen, todo, cur, point, try, rc>>
    /\ UNCHANGED <<kernel, refused>>

\* A private mount point is kept for the end, the others are unmounted first
UnmountOther(p) ==
    /\ pc[p] = "umount"
    /\ \E pt \in left[p] :
         /\ (left[p] \ {pt}) \cap PrivatePoints # {}
         /\ \/ /\ root[p]
               /\ UmountTop(pt)
               /\ left' = [left EXCEPT ![p] = @ \ {pt}]
               /\ UNCHANGED <<pc, job, phase, root, seen, todo, cur, point, try, rc>>
            \/ Leave(p, 10) /\ UNCHANGED mounts
    /\ UNCHANGED <<mapper, present, dirs, refused>>

\* mutant: the folder is removed with the mount, and again at the end
UnmountAndRemoveLast(p) ==
    /\ pc[p] = "umount"
    /\ \E pt \in Points :
         /\ left[p] = {pt}
         /\ UmountTop(pt)
         /\ dirs' = dirs \ {pt}
         /\ left' = [left EXCEPT ![p] = {}]
         /\ point' = [point EXCEPT ![p] = pt]
    /\ Goto(p, "lock")
    /\ UNCHANGED <<mapper, present, refused, job, phase, root, seen, todo, cur, try, rc>>

\* The last one becomes m_point, the folder to remove at the end
UnmountLast(p) ==
    /\ pc[p] = "umount"
    /\ \E pt \in Points :
         /\ left[p] = {pt}
         /\ \/ /\ root[p]
               /\ UmountTop(pt)
               /\ Goto(p, IF phase[p] = "dead" THEN "rmpoint" ELSE "lock")
               /\ left' = [left EXCEPT ![p] = {}]
               /\ point' = [point EXCEPT ![p] = pt]
               /\ UNCHANGED <<job, phase, root, seen, todo, cur, try, rc>>
            \/ Leave(p, 2) /\ UNCHANGED mounts
    /\ UNCHANGED <<mapper, present, dirs, refused>>

\* Deactivation is refused while the mapper is in use, to a process without
\* privileges, and for as long as anybody else holds it
Lock(p) ==
    LET m == cur[p]
        closed == IF point[p] = NoPoint
                    THEN Leave(p, 0)
                    ELSE /\ Goto(p, "rmpoint")
                         /\ UNCHANGED <<job, phase, root, seen, todo, left, cur, point, try, rc>>
    IN
    /\ pc[p] = "lock"
    /\ \/ /\ mapper[m] = "absent"
          /\ closed
          /\ UNCHANGED <<mapper, refused>>
       \/ /\ mapper[m] # "absent"
          /\ root[p] /\ ~InUse(m)
          /\ mapper' = [mapper EXCEPT ![m] = "absent"]
          /\ refused' = refused \ {m}
          /\ closed
       \/ /\ mapper[m] # "absent"
          /\ refused' = refused \cup {m}
          /\ Leave(p, 5)
          /\ UNCHANGED mapper
    /\ UNCHANGED <<present, dirs, mounts>>

RemoveMountPoint(p) ==
    /\ pc[p] = "rmpoint"
    /\ Rmdir(point[p])
    /\ Leave(p, 0)
    /\ UNCHANGED <<mapper, present, mounts, refused>>

CloseStep(p) ==
    \/ Close(p) \/ Unshare(p) \/ RemoveShare(p) \/ ListEntries(p)
    \/ UnmountOther(p) \/ UnmountLast(p) \/ Lock(p) \/ RemoveMountPoint(p)
=============================================================================
