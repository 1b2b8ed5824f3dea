--------------------------- MODULE VolumeSessions ---------------------------
(***************************************************************************)
(* Several runs of zuluCrypt-cli and zuluMount-cli, started by several     *)
(* users, interleaved at their system calls, while devices are pulled out  *)
(* and plugged in and processes are killed.  A run sweeps dead mappers     *)
(* first and then opens a volume, closes one, or clears dead mount points. *)
(***************************************************************************)
EXTENDS OpenVolume, CloseVolume, ClearDeadMappers

\* what a command line says
OpenJobs == {j \in [op : {"open"} \cap Ops, front : Fronts, user : Users, device : Devices,
                    name : Names, share : Shares, type : Types] : j.name \in Labels[j.device]}
CloseJobs == [op : {"close"} \cap Ops, front : Fronts, user : Users, device : Devices]
OtherJobs == [op : {"sweep", "clear"} \cap Ops, front : Fronts, user : Users]
Jobs == OpenJobs \cup CloseJobs \cup OtherJobs
NoJob == [op |-> "none"]

Init ==
    /\ mapper = [m \in Mapper |-> "absent"]
    /\ present = Devices
    /\ dirs = {}
    /\ mounts = NoMounts
    /\ refused = {}
    /\ pc = [p \in Procs |-> "idle"]
    /\ job = [p \in Procs |-> NoJob]
    /\ phase = [p \in Procs |-> "sweep"]
    /\ root = [p \in Procs |-> FALSE]
    /\ seen = [p \in Procs |-> NoMounts]
    /\ todo = [p \in Procs |-> {}]
    /\ left = [p \in Procs |-> {}]
    /\ cur = [p \in Procs |-> NoMapper]
    /\ point = [p \in Procs |-> NoPoint]
    /\ try = [p \in Procs |-> 0]
    /\ rc = [p \in Procs |-> 0]

\* main() of either program, up to its call of zuluCryptClearDeadMappers()
Start(p) ==
    /\ pc[p] = "idle"
    /\ \E j \in Jobs : job' = [job EXCEPT ![p] = j]
    /\ Goto(p, "sweep")
    /\ UNCHANGED <<kernel, refused, phase, root, seen, todo, left, cur, point, try, rc>>

\* the process is gone, and with it everything it kept
Vanish(p) ==
    /\ Goto(p, "idle")
    /\ job' = [job EXCEPT ![p] = NoJob]
    /\ phase' = [phase EXCEPT ![p] = "sweep"]
    /\ root' = [root EXCEPT ![p] = FALSE]
    /\ seen' = [seen EXCEPT ![p] = NoMounts]
    /\ todo' = [todo EXCEPT ![p] = {}]
    /\ left' = [left EXCEPT ![p] = {}]
    /\ cur' = [cur EXCEPT ![p] = NoMapper]
    /\ point' = [point EXCEPT ![p] = NoPoint]
    /\ try' = [try EXCEPT ![p] = 0]
    /\ rc' = [rc EXCEPT ![p] = 0]

Return(p) == pc[p] = "done" /\ Vanish(p) /\ UNCHANGED <<kernel, refused>>

\* killed between two calls; what it was doing to its mapper stays undone
Kill(p) ==
    /\ "kill" \in Faults
    /\ pc[p] \notin {"idle", "done"}
    /\ Vanish(p)
    /\ refused' = refused \cup ({cur[p]} \cap Mapper)
    /\ UNCHANGED kernel

\* the device of some mappers goes away, and may come back without them; a
\* loop device goes when its mapper does
Unplug(d) ==
    /\ "unplug" \in Faults
    /\ d \in present \ Images
    /\ present' = present \ {d}
    /\ mapper' = [m \in Mapper |-> IF DeviceOf(m) = d /\ mapper[m] = "live"
                                     THEN "dead" ELSE mapper[m]]
    /\ UNCHANGED <<dirs, mounts, refused, locals>>

Plug(d) ==
    /\ d \in Devices \ present
    /\ present' = present \cup {d}
    /\ UNCHANGED <<mapper, dirs, mounts, refused, locals>>

Step(p) == OpenStep(p) \/ CloseStep(p) \/ ClearStep(p)

Next == \/ \E p \in Procs : Start(p) \/ Step(p) \/ Return(p) \/ Kill(p)
        \/ \E d \in Devices : Unplug(d) \/ Plug(d)

Spec == Init /\ [][Next]_vars

-----------------------------------------------------------------------------
Labels0 == {"idle", "sweep", "scan", "mkdir", "taken", "stat", "key", "unlock", "mount",
            "abort", "undo", "bind", "bindmount", "close", "unshare", "rmshare",
            "entries", "umount", "lock", "rmpoint", "folders", "rmdirs", "dead", "done"}

KernelOK ==
    /\ mapper \in [Mapper -> {"absent", "live", "dead"}]
    /\ present \in SUBSET Devices
    /\ dirs \in SUBSET Points
    /\ mounts \in [Points -> Seq(Mapper \cup {Bare})]
    /\ refused \in SUBSET Mapper

ProcsOK ==
    /\ pc \in [Procs -> Labels0]
    /\ job \in [Procs -> Jobs \cup {NoJob}]
    /\ phase \in [Procs -> {"sweep", "main", "dead"}]
    /\ root \in [Procs -> BOOLEAN]
    /\ seen \in [Procs -> [Points -> Seq(Mapper \cup {Bare})]]
    /\ todo \in [Procs -> SUBSET Mapper]
    /\ left \in [Procs -> SUBSET Points]
    /\ cur \in [Procs -> Mapper \cup {NoMapper}]
    /\ point \in [Procs -> Points \cup {NoPoint}]
    /\ try \in [Procs -> 0 .. 3]
    /\ rc \in [Procs -> Nat]

\* The type of every variable: no loop of a process runs past the formats it
\* has, and a mount point is a folder of the two trees
TypeOK == KernelOK /\ ProcsOK

\* p has created a private folder, or unmounted one, and has to remove it
Holds(p, pt) == point[p] = pt /\ pt \in PrivatePoints

(***************************************************************************)
(* A private mount point folder that a process has made and not mounted    *)
(* on, or has unmounted and not removed yet, exists, has nothing mounted   *)
(* on it and is nobody else's; and nothing is ever mounted twice on a      *)
(* private folder.  mkdir() in _create_path_0() is the only lock there is. *)
(***************************************************************************)
PrivatePointsExclusive ==
    /\ \A p \in Procs, pt \in PrivatePoints :
         Holds(p, pt) => /\ pt \in dirs
                         /\ mounts[pt] = <<>>
                         /\ \A q \in Procs \ {p} : ~Holds(q, pt)
    /\ \A pt \in PrivatePoints : Len(mounts[pt]) <= 1
    /\ \A pt \in PrivatePoints : mounts[pt] # <<>> => pt \in dirs

\* p has the mapper m open in its hands, to mount it or to lock it
Handles(p, m) ==
    cur[p] = m /\ pc[p] \in {"mount", "abort", "unshare", "rmshare", "entries", "umount", "lock"}

(***************************************************************************)
(* An unlocked volume that is mounted nowhere is in the hands of a         *)
(* process, or its mapper is one whose deactivation was refused, or whose  *)
(* process was killed: no path through a failed mount, a close or a sweep  *)
(* walks away from an open mapper.                                         *)
(***************************************************************************)
NoForgottenMapper ==
    \A m \in Mapper :
        mapper[m] # "absent" /\ ~InUse(m) /\ m \notin refused
            => \E p \in Procs : Handles(p, m)

\* The step is one of p's that may unmount something: all of them move p on
Unmounts(p) ==
    /\ pc[p] \in {"unshare", "umount"}
    /\ pc'[p] # pc[p] \/ left'[p] # left[p]
    /\ pc'[p] # "idle"

\* the mounts that the step takes away from view
Uncovered == {pt \in Points : mounts[pt] # <<>> /\ mounts'[pt] = Tail(mounts[pt])}

(***************************************************************************)
(* The sweep of dead mappers that precedes every command condemns a mapper *)
(* only when its device is gone: zuluCryptClearDeadMappers() decides by    *)
(* crypt_get_device_name(), which it can call only while it keeps the      *)
(* privileges that the removal of the mapper before it may have dropped.   *)
(***************************************************************************)
OnlyDeadCondemned ==
    [][\A p \in Procs : pc[p] = "scan" /\ pc'[p] = "unshare"
                          => mapper[cur'[p]] # "live"]_vars

(***************************************************************************)
(* A sweep takes down no mount of a live volume, neither the share nor the *)
(* private folder, although it works from a mount list it read before it   *)
(* looked at the first mapper.                                             *)
(***************************************************************************)
SweepSparesLive ==
    [][\A p \in Procs : Unmounts(p) /\ phase[p] = "sweep" =>
          \A pt \in Uncovered :
              Head(mounts[pt]) \in Mapper => mapper[Head(mounts[pt])] # "live"]_vars

(***************************************************************************)
(* --clear-dead-mount-points unmounts no volume whose device is there.     *)
(***************************************************************************)
ClearSparesLive ==
    [][\A p \in Procs : Unmounts(p) /\ phase[p] = "dead" =>
          \A pt \in Uncovered :
              Head(mounts[pt]) \in Mapper => mapper[Head(mounts[pt])] # "live"]_vars

(***************************************************************************)
(* Nobody's close or sweep takes down a mount of another user's volume:    *)
(* the mapper carries the user's uid, but the shared folder it is bound on *)
(* does not, and umount() takes whatever is on top there.                  *)
(***************************************************************************)
OthersMountsKept ==
    [][\A p \in Procs : Unmounts(p) /\ phase[p] # "dead" =>
          \A pt \in Uncovered :
              Head(mounts[pt]) \in Mapper => UserOf(Head(mounts[pt])) = job[p].user]_vars

-----------------------------------------------------------------------------
(* Who has a private folder: the processes implement the contract of names *)

OwnerOf(pt) ==
    IF pt \notin dirs THEN [kind |-> "free"]
    ELSE IF mounts[pt] # <<>> THEN [kind |-> "volume", vol |-> Head(mounts[pt])]
    ELSE IF \E p \in Procs : Holds(p, pt)
           THEN [kind |-> "process", proc |-> CHOOSE p \in Procs : Holds(p, pt)]
    ELSE [kind |-> "left"]

Owner == [pt \in PrivatePoints |-> OwnerOf(pt)]

Names0 == INSTANCE MountPoints WITH Points <- PrivatePoints, Volumes <- Mapper, owner <- Owner

\* Seen through the private folders alone, every run takes, gives and frees
\* names as MountPoints says
NamesContract == Names0!Spec
=============================================================================
