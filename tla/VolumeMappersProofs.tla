------------------------ MODULE VolumeMappersProofs ------------------------
(***************************************************************************)
(* No unlocked volume is forgotten, for every number of users, devices and *)
(* processes, as long as every device has one name of its own for its      *)
(* mount point.  FolderInv of VolumeSessionsProofs says who has which      *)
(* private folder; MapperInv adds which mapper a process works on, whose   *)
(* mounts the private folders carry, and where an open mapper is.          *)
(***************************************************************************)
EXTENDS VolumeSessionsProofs

\* what the programs choose for a device that is opened without -m
OwnNames ==
    \A d, e \in Devices : \A n \in Labels[d], k \in Labels[e] : n = k <=> d = e

\* m is the volume mounted on the private folder pt, and a volume that may be
Mounted(pt, m) == mounts[pt] # <<>> /\ Head(mounts[pt]) = m
MayUse(m, pt) == pt.user = UserOf(m) /\ pt.name \in Labels[DeviceOf(m)]

\* An open works on the mapper of its command line, in the folder it made for
\* it, and a close unmounts private folders of its own mapper alone
Working(p) ==
    /\ phase[p] # "dead"
    /\ pc[p] \in OpenLabels => cur[p] = <<job[p].user, job[p].device>>
    /\ pc[p] \in HoldLabels => point[p] = Folder(p)
    /\ pc[p] = "umount" => \A pt \in left[p] \cap PrivatePoints : MayUse(cur[p], pt)

WorkInv == \A p \in Procs : Working(p)

OwnedInv ==
    \A pt \in PrivatePoints, m \in Mapper : Mounted(pt, m) => MayUse(m, pt)

\* p has yet to mount m, or to deactivate it
InHands(p, m) == cur[p] = m /\ pc[p] \in {"mount", "abort", "lock"}

\* An open mapper is mounted on a private folder or in the hands of a process
HeldInv ==
    \A m \in Mapper :
        mapper[m] # "absent" /\ m \notin refused
            => \/ \E pt \in PrivatePoints : Mounted(pt, m)
               \/ \E p \in Procs : InHands(p, m)

MapperInv == FolderInv /\ WorkInv /\ OwnedInv /\ HeldInv

-----------------------------------------------------------------------------
(* What a process works on *)

\* A step of p changes nothing that another process keeps
Others(p) ==
    \A q \in Procs \ {p} :
        /\ pc'[q] = pc[q] /\ job'[q] = job[q] /\ phase'[q] = phase[q]
        /\ left'[q] = left[q] /\ cur'[q] = cur[q] /\ point'[q] = point[q]
        /\ todo'[q] = todo[q]

LEMMA OnlyItself ==
    ASSUME ProcsOK, NEW p \in Procs, Step(p) \/ Start(p) \/ Return(p) \/ Kill(p)
    PROVE  Others(p)
<1>1. CASE OpenStep(p)
  BY <1>1 DEF OpenStep, CreateMountPoint, CheckSharedPath, CheckMapper, GetKey, Unlock, Mount,
              CloseMapperAgain, Undo, Share, BindMount, Exit, Fail, NextAttempt, Goto,
              ProcsOK, Others
<1>2. CASE CloseStep(p)
  <2>1. CASE Close(p) \/ RemoveShare(p) \/ ListEntries(p) \/ RemoveMountPoint(p)
    BY <2>1 DEF Close, RemoveShare, ListEntries, RemoveMountPoint, Leave, Exit, Goto, ProcsOK, Others
  <2>2. CASE Unshare(p)
    BY <2>2 DEF Unshare, Proceed, GiveUp, Exit, Goto, ProcsOK, Others
  <2>3. CASE UnmountOther(p) \/ UnmountLast(p)
    BY <2>3 DEF UnmountOther, UnmountLast, Leave, Exit, Goto, ProcsOK, Others
  <2>4. CASE Lock(p)
    BY <2>4 DEF Lock, Leave, Exit, Goto, ProcsOK, Others
  <2> QED BY <1>2, <2>1, <2>2, <2>3, <2>4 DEF CloseStep
<1>3. CASE ClearStep(p)
  BY <1>3 DEF ClearStep, ListMappers, ExamineMapper, EndSweep, ListFolders, RemoveFolder,
              ListMounted, NextMounted, Exit, Goto, ProcsOK, Others
<1>4. CASE Start(p) \/ Return(p) \/ Kill(p)
  BY <1>4 DEF Start, Return, Kill, Vanish, Goto, ProcsOK, Others
<1> QED BY <1>1, <1>2, <1>3, <1>4 DEF Step

LEMMA OthersWork ==
    ASSUME WorkInv, NEW p \in Procs, Others(p), Working(p)'
    PROVE  WorkInv'
<1> SUFFICES ASSUME NEW q \in Procs \ {p} PROVE Working(q)'
  BY DEF WorkInv
<1>1. /\ pc'[q] = pc[q] /\ job'[q] = job[q] /\ phase'[q] = phase[q]
      /\ left'[q] = left[q] /\ cur'[q] = cur[q] /\ point'[q] = point[q]
  BY DEF Others
<1>2. Working(q)
  BY DEF WorkInv
<1> QED BY <1>1, <1>2 DEF Working, Folder, Private

\* A step to a place where nothing is asked of the process
LEMMA ElsewhereWorks ==
    ASSUME ProcsOK, NEW p \in Procs, NEW l, l \notin OpenLabels \cup {"umount"}, Goto(p, l),
           phase'[p] # "dead"
    PROVE  Working(p)'
BY DEF Goto, ProcsOK, Working, OpenLabels, HoldLabels

LEMMA LeaveWorks ==
    ASSUME ProcsOK, NEW p \in Procs, Working(p), NEW code, Leave(p, code) \/ Exit(p, code)
    PROVE  Working(p)'
<1>1. PICK l \in {"done", "scan", "dead"} : Goto(p, l)
  BY DEF Leave, Exit
<1>2. phase'[p] # "dead"
  BY DEF Leave, Exit, Working
<1> QED BY <1>1, <1>2, ElsewhereWorks DEF OpenLabels

\* An open goes on with what it has
LEMMA OpenGoesOn ==
    ASSUME ProcsOK, NEW p \in Procs, Working(p), pc[p] \in HoldLabels,
           NEW l \in HoldLabels, Goto(p, l), UNCHANGED <<job, phase, cur, point>>
    PROVE  Working(p)'
<1>1. pc'[p] = l
  BY DEF Goto, ProcsOK
<1>2. l # "umount" /\ HoldLabels \subseteq OpenLabels
  BY DEF HoldLabels, OpenLabels
<1> QED BY <1>1, <1>2 DEF Working, Folder, Private

LEMMA OpenWorks ==
    ASSUME ProcsOK, NEW p \in Procs, Working(p), OpenStep(p)
    PROVE  Working(p)'
<1>1. CASE CreateMountPoint(p)
  <2>1. CASE \E code : Exit(p, code)
    BY <2>1, LeaveWorks
  <2>2. CASE /\ point' = [point EXCEPT ![p] = Folder(p)]
             /\ \E l \in {"taken", "stat"} : Goto(p, l)
             /\ UNCHANGED <<job, phase, left, cur>>
    <3>1. pc'[p] \in {"taken", "stat"} /\ point'[p] = Folder(p) /\ Folder(p)' = Folder(p)
      BY <2>2 DEF Goto, ProcsOK, Folder, Private
    <3>2. pc[p] \in OpenLabels
      BY <1>1 DEF CreateMountPoint, OpenLabels
    <3> QED BY <2>2, <3>1, <3>2 DEF Working
  <2> QED BY <1>1, <2>1, <2>2 DEF CreateMountPoint
<1>2. CASE CheckSharedPath(p) \/ CheckMapper(p) \/ GetKey(p) \/ Unlock(p) \/ CloseMapperAgain(p)
  <2>1. PICK l \in HoldLabels : Goto(p, l)
    BY <1>2 DEF CheckSharedPath, CheckMapper, GetKey, Unlock, CloseMapperAgain, Fail,
                NextAttempt, HoldLabels
  <2>2. pc[p] \in HoldLabels /\ UNCHANGED <<job, phase, cur, point>>
    BY <1>2 DEF CheckSharedPath, CheckMapper, GetKey, Unlock, CloseMapperAgain, HoldLabels
  <2> QED BY <2>1, <2>2, OpenGoesOn
<1>3. CASE Mount(p)
  <2>1. CASE Goto(p, "bind") /\ UNCHANGED <<job, phase, cur>>
    <3>1. pc'[p] = "bind" /\ pc[p] \in OpenLabels
      BY <1>3, <2>1 DEF Mount, Goto, ProcsOK, OpenLabels
    <3> QED BY <2>1, <3>1 DEF Working, HoldLabels
  <2>2. CASE Exit(p, 0)
    BY <2>2, LeaveWorks
  <2>3. CASE Goto(p, "abort") /\ UNCHANGED <<job, phase, cur, point>>
    BY <1>3, <2>3, OpenGoesOn DEF Mount, HoldLabels
  <2> QED BY <1>3, <2>1, <2>2, <2>3 DEF Mount
<1>4. CASE Undo(p) \/ BindMount(p)
  BY <1>4, LeaveWorks DEF Undo, BindMount
<1>5. CASE Share(p)
  <2>1. CASE Exit(p, 0)
    BY <2>1, LeaveWorks
  <2>2. CASE Goto(p, "bindmount") /\ UNCHANGED <<job, phase, cur>>
    <3>1. pc'[p] = "bindmount" /\ pc[p] \in OpenLabels
      BY <1>5, <2>2 DEF Share, Goto, ProcsOK, OpenLabels
    <3> QED BY <2>2, <3>1 DEF Working, HoldLabels
  <2> QED BY <1>5, <2>1, <2>2 DEF Share
<1> QED BY <1>1, <1>2, <1>3, <1>4, <1>5 DEF OpenStep


\* What is listed for a private folder is the volume mounted on it
LEMMA OneMount ==
    ASSUME FolderInv, NEW pt \in PrivatePoints, NEW m, In(m, mounts[pt])
    PROVE  Mounted(pt, m)
<1>1. mounts[pt] \in Stacks /\ Len(mounts[pt]) <= 1
  BY DEF FolderInv, TypeOK, KernelOK, Stacks, Points, PrivatePointsExclusive
<1>2. PICK i \in DOMAIN mounts[pt] : mounts[pt][i] = m
  BY DEF In
<1>3. i = 1 /\ mounts[pt] # <<>>
  BY <1>1, <1>2 DEF Stacks
<1> QED BY <1>1, <1>2, <1>3 DEF Mounted, Stacks

LEMMA CloseWorks ==
    ASSUME FolderInv, OwnedInv, NEW p \in Procs, Working(p), CloseStep(p)
    PROVE  Working(p)'
<1>0. ProcsOK /\ cur[p] \in Mapper
  <2>1. pc[p] \in WorkLabels
    BY DEF CloseStep, Close, Unshare, RemoveShare, ListEntries, UnmountOther, UnmountLast,
           Lock, RemoveMountPoint, WorkLabels
  <2> QED BY <2>1 DEF FolderInv, TypeOK, JobInv
<1>1. ASSUME NEW l \in {"unshare", "rmshare", "entries", "lock", "rmpoint", "scan"},
             Goto(p, l), UNCHANGED phase
      PROVE  Working(p)'
  <2>1. phase'[p] # "dead" /\ l \notin OpenLabels \cup {"umount"}
    BY <1>1 DEF Working, OpenLabels
  <2> QED BY <1>0, <1>1, <2>1, ElsewhereWorks
<1>2. CASE Close(p)
  BY <1>0, <1>1, <1>2, LeaveWorks DEF Close
<1>3. CASE Unshare(p)
  BY <1>0, <1>1, <1>3, LeaveWorks DEF Unshare, Proceed, GiveUp
<1>4. CASE RemoveShare(p)
  BY <1>1, <1>4 DEF RemoveShare
<1>5. CASE ListEntries(p)
  <2>1. CASE \E code : Leave(p, code)
    BY <1>0, <2>1, LeaveWorks
  <2>2. CASE Goto(p, "lock") /\ UNCHANGED phase
    BY <1>1, <2>2
  <2>3. CASE /\ Goto(p, "umount")
             /\ left' = [left EXCEPT ![p] = EntriesOf(cur[p], mounts)]
             /\ UNCHANGED <<phase, cur>>
    <3>1. \A pt \in EntriesOf(cur[p], mounts) \cap PrivatePoints : MayUse(cur[p], pt)
      BY <1>0, OneMount DEF EntriesOf, OwnedInv
    <3>2. pc'[p] = "umount" /\ left'[p] = EntriesOf(cur[p], mounts)
      BY <1>0, <2>3 DEF Goto, ProcsOK
    <3> QED BY <2>3, <3>1, <3>2 DEF Working, OpenLabels, HoldLabels, MayUse
  <2> QED BY <1>5, <2>1, <2>2, <2>3 DEF ListEntries
<1>6. CASE UnmountOther(p)
  <2>1. CASE \E code : Leave(p, code)
    BY <1>0, <2>1, LeaveWorks
  <2>2. CASE \E pt \in left[p] : /\ left' = [left EXCEPT ![p] = @ \ {pt}]
                                 /\ UNCHANGED <<pc, phase, cur>>
    <3>1. pc[p] = "umount" /\ left'[p] \subseteq left[p]
      BY <1>0, <1>6, <2>2 DEF UnmountOther, ProcsOK
    <3> QED BY <2>2, <3>1 DEF Working, OpenLabels, HoldLabels, MayUse
  <2> QED BY <1>6, <2>1, <2>2 DEF UnmountOther
<1>7. CASE UnmountLast(p)
  BY <1>0, <1>1, <1>7, LeaveWorks DEF UnmountLast
<1>8. CASE Lock(p)
  BY <1>0, <1>1, <1>8, LeaveWorks DEF Lock
<1>9. CASE RemoveMountPoint(p)
  BY <1>0, <1>9, LeaveWorks DEF RemoveMountPoint
<1> QED BY <1>2, <1>3, <1>4, <1>5, <1>6, <1>7, <1>8, <1>9 DEF CloseStep

\* Nobody clears dead mount points, so a sweep ends with an open or a close
LEMMA ClearWorks ==
    ASSUME FolderInv, "clear" \notin Ops, NEW p \in Procs, Working(p), ClearStep(p)
    PROVE  Working(p)'
<1>0. ProcsOK /\ phase[p] # "dead"
  BY DEF FolderInv, TypeOK, Working
<1>1. CASE ListMappers(p)
  BY <1>0, <1>1, ElsewhereWorks DEF ListMappers, OpenLabels
<1>2. CASE ExamineMapper(p)
  <2>1. CASE Goto(p, "unshare")
    BY <1>0, <1>2, <2>1, ElsewhereWorks DEF ExamineMapper, OpenLabels
  <2>2. CASE UNCHANGED <<pc, cur>>
    <3>1. pc'[p] = "scan" /\ UNCHANGED phase
      BY <1>2, <2>2 DEF ExamineMapper
    <3> QED BY <1>0, <3>1 DEF Working, OpenLabels, HoldLabels
  <2> QED BY <1>2, <2>1, <2>2 DEF ExamineMapper
<1>3. CASE EndSweep(p)
  <2>1. job[p] \in Jobs /\ job[p].op \in {"open", "close", "sweep"}
    <3>1. job[p] \in Jobs
      BY <1>3 DEF EndSweep, FolderInv, JobInv
    <3> QED BY <3>1, JobsTyping
  <2>2. CASE Exit(p, 0)
    BY <1>0, <2>2, LeaveWorks
  <2>3. CASE job[p].op # "sweep" /\ ~Exit(p, 0)
    <3>1. /\ Goto(p, FirstStep[job[p].op])
          /\ phase' = [phase EXCEPT ![p] = "main"]
          /\ cur' = [cur EXCEPT ![p] = <<job[p].user, job[p].device>>]
          /\ UNCHANGED job
      BY <1>3, <2>1, <2>3 DEF EndSweep
    <3>2. FirstStep[job[p].op] \in {"mkdir", "close"}
      BY <2>1, <2>3 DEF FirstStep
    <3>3. pc'[p] \in {"mkdir", "close"} /\ phase'[p] = "main"
          /\ cur'[p] = <<job[p].user, job[p].device>>
      BY <1>0, <3>1, <3>2 DEF Goto, ProcsOK
    <3> QED BY <3>1, <3>3 DEF Working, HoldLabels
  <2> QED BY <1>3, <2>2, <2>3 DEF EndSweep
<1>4. ~(ListFolders(p) \/ RemoveFolder(p) \/ ListMounted(p))
  <2>1. pc[p] \notin {"folders", "rmdirs"}
    BY JobsTyping DEF FolderInv, JobInv
  <2> QED BY <2>1 DEF ListFolders, RemoveFolder, ListMounted
<1>5. CASE NextMounted(p)
  BY <1>0, <1>5, ElsewhereWorks DEF NextMounted, Exit, OpenLabels
<1> QED BY <1>1, <1>2, <1>3, <1>4, <1>5 DEF ClearStep

LEMMA NextWorks ==
    ASSUME FolderInv, WorkInv, OwnedInv, "clear" \notin Ops, [Next]_vars
    PROVE  WorkInv'
<1>0. ProcsOK
  BY DEF FolderInv, TypeOK
<1>1. ASSUME NEW p \in Procs, Step(p)
      PROVE  WorkInv'
  <2>1. Working(p)
    BY DEF WorkInv
  <2>2. Working(p)'
    BY <1>0, <1>1, <2>1, OpenWorks, CloseWorks, ClearWorks DEF Step
  <2> QED BY <1>0, <1>1, <2>2, OnlyItself, OthersWork
<1>2. ASSUME NEW p \in Procs, Start(p) \/ Return(p) \/ Kill(p)
      PROVE  WorkInv'
  <2>1. \E l \in {"idle", "sweep"} : Goto(p, l)
    BY <1>2 DEF Start, Return, Kill, Vanish
  <2>2. phase'[p] # "dead"
    BY <1>0, <1>2 DEF Start, Return, Kill, Vanish, WorkInv, Working, ProcsOK
  <2>3. Working(p)'
    BY <1>0, <2>1, <2>2, ElsewhereWorks DEF OpenLabels
  <2> QED BY <1>0, <1>2, <2>3, OnlyItself, OthersWork
<1>3. CASE (\E d \in Devices : Unplug(d) \/ Plug(d)) \/ UNCHANGED vars
  BY <1>3 DEF Unplug, Plug, locals, vars, WorkInv, Working, Folder, Private, MayUse
<1> QED BY <1>1, <1>2, <1>3 DEF Next


-----------------------------------------------------------------------------
(* Where the open mappers are *)

\* What a step of p may do that has no mapper in its hands and takes none
Aside(p) ==
    /\ pc[p] \notin {"mount", "abort", "lock"}
    /\ UNCHANGED <<mapper, refused>>
    /\ \A pt \in PrivatePoints : mounts'[pt] = mounts[pt]

LEMMA AsideKeeps ==
    ASSUME OwnedInv, HeldInv, NEW p \in Procs, Others(p), Aside(p)
    PROVE  OwnedInv' /\ HeldInv'
<1>1. \A pt \in PrivatePoints : \A m : Mounted(pt, m)' <=> Mounted(pt, m)
  BY DEF Aside, Mounted
<1>2. OwnedInv'
  BY <1>1 DEF OwnedInv, MayUse
<1>3. \A q \in Procs, m \in Mapper : InHands(q, m) => InHands(q, m)'
  BY DEF Aside, Others, InHands
<1>4. HeldInv'
  BY <1>1, <1>3 DEF Aside, HeldInv
<1> QED BY <1>2, <1>4

\* The mapper p worked on is closed, refused or in the hands of p afterwards
LeftInHands(p) ==
    mapper'[cur[p]] # "absent" /\ cur[p] \notin refused'
        => cur'[p] = cur[p] /\ pc'[p] \in {"mount", "abort", "lock"}

\* A step that mounts nothing and unmounts nothing, and leaves no mapper open
\* but the one it keeps in its hands
LEMMA HandsOn ==
    ASSUME OwnedInv, HeldInv, NEW p \in Procs, Others(p),
           \A pt \in PrivatePoints : mounts'[pt] = mounts[pt],
           cur[p] \in Mapper,
           \A m \in Mapper \ {cur[p]} : mapper'[m] # "absent" /\ m \notin refused'
                                          => mapper[m] # "absent" /\ m \notin refused,
           LeftInHands(p)
    PROVE  OwnedInv' /\ HeldInv'
<1> DEFINE c == cur[p]
<1>1. \A pt \in PrivatePoints : \A m : Mounted(pt, m)' <=> Mounted(pt, m)
  BY DEF Mounted
<1>2. OwnedInv'
  BY <1>1 DEF OwnedInv, MayUse
<1>3. \A q \in Procs, m \in Mapper \ {c} : InHands(q, m) => InHands(q, m)'
  BY DEF Others, InHands
<1>4. ASSUME NEW m \in Mapper, mapper'[m] # "absent", m \notin refused'
      PROVE  (\E pt \in PrivatePoints : Mounted(pt, m)') \/ \E q \in Procs : InHands(q, m)'
  <2>1. CASE m = c
    BY <1>4, <2>1 DEF LeftInHands, InHands
  <2>2. CASE m # c
    <3>1. mapper[m] # "absent" /\ m \notin refused
      BY <1>4, <2>2
    <3>2. CASE \E pt \in PrivatePoints : Mounted(pt, m)
      BY <1>1, <3>2
    <3>3. CASE \E q \in Procs : InHands(q, m)
      BY <1>3, <2>2, <3>3
    <3> QED BY <3>1, <3>2, <3>3 DEF HeldInv
  <2> QED BY <2>1, <2>2
<1>5. HeldInv'
  BY <1>4 DEF HeldInv
<1> QED BY <1>2, <1>5

\* A volume is mounted on the folder that was made for it, and is alone there
LEMMA MountPlaces ==
    ASSUME FolderInv, WorkInv, NEW p \in Procs, Mount(p), MountOn(point[p], cur[p])
    PROVE  \E pt \in PrivatePoints, c \in Mapper :
             /\ c = cur[p] /\ MayUse(c, pt) /\ mounts[pt] = <<>> /\ mounts'[pt] = <<c>>
             /\ mounts' = [mounts EXCEPT ![pt] = <<c>>]
             /\ \A r \in PrivatePoints \ {pt} : mounts'[r] = mounts[r]
<1>0. /\ KernelOK /\ ProcsOK /\ Working(p) /\ pc[p] = "mount" /\ pc[p] \in OpenLabels
      /\ cur[p] \in Mapper /\ job[p] \in OpenJobs
  BY DEF FolderInv, TypeOK, WorkInv, JobInv, Mount, OpenLabels, WorkLabels
<1>1. point[p] = Folder(p) /\ cur[p] = <<job[p].user, job[p].device>>
  BY <1>0 DEF Working, HoldLabels
<1>2. PICK pt \in PrivatePoints, c \in Mapper :
        /\ pt = Folder(p) /\ pt = point[p]
        /\ c = cur[p] /\ c = <<job[p].user, job[p].device>>
  BY <1>0, <1>1, OpenPaths DEF FolderInv
<1>3. mounts[pt] = <<>>
  BY <1>2 DEF FolderInv, PrivatePointsExclusive, Holds
<1>4. mounts' = [mounts EXCEPT ![pt] = <<c>>]
  BY <1>2, <1>3 DEF MountOn
<1>5. mounts'[pt] = <<c>> /\ \A r \in PrivatePoints \ {pt} : mounts'[r] = mounts[r]
  BY <1>0, <1>4 DEF KernelOK, Points
<1>6. MayUse(c, pt)
  BY <1>0, <1>2 DEF MayUse, Folder, Private, UserOf, DeviceOf, OpenJobs
<1> QED BY <1>2, <1>3, <1>4, <1>5, <1>6

LEMMA OpenHolds ==
    ASSUME MapperInv, NEW p \in Procs, OpenStep(p)
    PROVE  OwnedInv' /\ HeldInv'
<1>0. /\ KernelOK /\ ProcsOK /\ OwnedInv /\ HeldInv /\ Working(p) /\ Others(p)
      /\ pc[p] \in OpenLabels /\ cur[p] \in Mapper /\ job[p] \in OpenJobs
  <2>1. pc[p] \in OpenLabels
    BY DEF OpenStep, CreateMountPoint, CheckSharedPath, CheckMapper, GetKey, Unlock, Mount,
           CloseMapperAgain, Undo, Share, BindMount, OpenLabels
  <2>2. cur[p] \in Mapper /\ job[p] \in OpenJobs
    BY <2>1 DEF MapperInv, FolderInv, JobInv, WorkLabels
  <2> QED BY <2>1, <2>2, OnlyItself DEF MapperInv, FolderInv, TypeOK, WorkInv, Step
<1>1. CASE CreateMountPoint(p) \/ CheckSharedPath(p) \/ CheckMapper(p) \/ GetKey(p)
             \/ Undo(p) \/ Share(p)
  <2>1. Aside(p)
    BY <1>1 DEF Aside, CreateMountPoint, CheckSharedPath, CheckMapper, GetKey, Undo, Share, kernel
  <2> QED BY <1>0, <2>1, AsideKeeps
<1>2. CASE Unlock(p)
  <2>1. \A pt \in PrivatePoints : mounts'[pt] = mounts[pt]
    BY <1>2 DEF Unlock
  <2>2. CASE UNCHANGED mapper
    BY <1>0, <1>2, <2>1, <2>2, AsideKeeps DEF Aside, Unlock
  <2>3. CASE mapper' = [mapper EXCEPT ![cur[p]] = "live"] /\ Goto(p, "mount")
    <3>1. LeftInHands(p)
      BY <1>0, <1>2, <2>3 DEF Unlock, Goto, ProcsOK, LeftInHands
    <3>2. \A m \in Mapper \ {cur[p]} : mapper'[m] = mapper[m]
      BY <1>0, <2>3 DEF KernelOK
    <3>3. UNCHANGED refused
      BY <1>2 DEF Unlock
    <3> QED BY <1>0, <2>1, <3>1, <3>2, <3>3, HandsOn
  <2> QED BY <1>2, <2>2, <2>3 DEF Unlock
<1>3. CASE Mount(p)
  <2>1. CASE Goto(p, "abort") /\ UNCHANGED mounts
    <3>1. LeftInHands(p)
      BY <1>0, <1>3, <2>1 DEF Mount, Goto, ProcsOK, LeftInHands, Exit
    <3>2. UNCHANGED <<mapper, refused>>
      BY <1>3 DEF Mount
    <3> QED BY <1>0, <2>1, <3>1, <3>2, HandsOn
  <2>2. CASE MountOn(point[p], cur[p])
    <3>1. PICK pt \in PrivatePoints, c \in Mapper :
            /\ c = cur[p] /\ MayUse(c, pt) /\ mounts[pt] = <<>> /\ mounts'[pt] = <<c>>
            /\ \A r \in PrivatePoints \ {pt} : mounts'[r] = mounts[r]
      BY <1>3, <2>2, MountPlaces DEF MapperInv
    <3>2. \A m : Mounted(pt, m)' <=> m = c
      BY <3>1 DEF Mounted
    <3>3. \A r \in PrivatePoints \ {pt} : \A m : Mounted(r, m)' <=> Mounted(r, m)
      BY <3>1 DEF Mounted
    <3>4. OwnedInv'
      <4>1. ASSUME NEW r \in PrivatePoints, NEW m \in Mapper, Mounted(r, m)'
            PROVE  MayUse(m, r)
        BY <1>0, <3>1, <3>2, <3>3, <4>1 DEF OwnedInv
      <4> QED BY <4>1 DEF OwnedInv, MayUse
    <3>5. \A q \in Procs, m \in Mapper \ {c} : InHands(q, m) => InHands(q, m)'
      BY <1>0, <3>1 DEF Others, InHands
    <3>6. \A r \in PrivatePoints, m \in Mapper : Mounted(r, m) => Mounted(r, m)'
      BY <3>1, <3>3 DEF Mounted
    <3>7. UNCHANGED <<mapper, refused>>
      BY <1>3 DEF Mount
    <3>8. HeldInv'
      BY <1>0, <3>1, <3>2, <3>5, <3>6, <3>7 DEF HeldInv
    <3> QED BY <3>4, <3>8
  <2> QED BY <1>3, <2>1, <2>2 DEF Mount
<1>4. CASE CloseMapperAgain(p)
  <2>1. \A pt \in PrivatePoints : mounts'[pt] = mounts[pt]
    BY <1>4 DEF CloseMapperAgain
  <2>2. mapper'[cur[p]] = "absent" \/ cur[p] \in refused'
    BY <1>0, <1>4 DEF CloseMapperAgain, KernelOK
  <2>3. \A m \in Mapper \ {cur[p]} : mapper'[m] = mapper[m] /\ (m \in refused' <=> m \in refused)
    BY <1>0, <1>4 DEF CloseMapperAgain, KernelOK
  <2> QED BY <1>0, <2>1, <2>2, <2>3, HandsOn DEF LeftInHands
<1>5. CASE BindMount(p)
  <2>1. Public(job[p].name) \notin PrivatePoints
    BY <1>0, OpenPaths, PathsAreDistinct DEF MapperInv, FolderInv
  <2>2. \A pt \in PrivatePoints : mounts'[pt] = mounts[pt]
    BY <1>0, <1>5, <2>1 DEF BindMount, MountOn, KernelOK, Points
  <2>3. Aside(p)
    BY <1>5, <2>2 DEF Aside, BindMount
  <2> QED BY <1>0, <2>3, AsideKeeps
<1> QED BY <1>1, <1>2, <1>3, <1>4, <1>5 DEF OpenStep


\* With names of its own, a mapper is mounted on one private folder at most
LEMMA OneFolder ==
    ASSUME OwnNames, NEW m \in Mapper, NEW k \in Mapper,
           NEW pt \in PrivatePoints, NEW r \in PrivatePoints, MayUse(m, pt)
    PROVE  /\ MayUse(m, r) => r = pt
           /\ MayUse(k, pt) => k = m
<1>0. DeviceOf(m) \in Devices /\ DeviceOf(k) \in Devices
      /\ m = <<UserOf(m), DeviceOf(m)>> /\ k = <<UserOf(k), DeviceOf(k)>>
  BY DEF Mapper, UserOf, DeviceOf
<1>1. /\ pt = Private(pt.user, pt.name) /\ r = Private(r.user, r.name)
  BY DEF PrivatePoints, Private
<1>2. ASSUME MayUse(m, r) PROVE r = pt
  <2>1. r.name = pt.name
    BY <1>0, <1>2 DEF OwnNames, MayUse
  <2>2. r.user = pt.user
    BY <1>2 DEF MayUse
  <2> QED BY <1>1, <2>1, <2>2
<1>3. ASSUME MayUse(k, pt) PROVE k = m
  <2>1. DeviceOf(k) = DeviceOf(m)
    BY <1>0, <1>3 DEF OwnNames, MayUse
  <2>2. UserOf(k) = UserOf(m)
    BY <1>3 DEF MayUse
  <2> QED BY <1>0, <2>1, <2>2
<1> QED BY <1>2, <1>3

\* The last private mount of a mapper goes with the process at "lock"
LEMMA UnmountHolds ==
    ASSUME OwnNames, MapperInv, NEW p \in Procs, Others(p), pc[p] = "umount",
           NEW pt \in PrivatePoints, pt \in left[p], UmountTop(pt), Goto(p, "lock"),
           UNCHANGED <<mapper, refused, cur>>
    PROVE  OwnedInv' /\ HeldInv'
<1>1. PICK c \in Mapper : c = cur[p] /\ MayUse(c, pt)
  BY DEF MapperInv, WorkInv, Working, FolderInv, JobInv, WorkLabels
<1>2. mounts'[pt] = <<>> /\ \A r \in PrivatePoints \ {pt} : mounts'[r] = mounts[r]
  <2>1. /\ mounts' = [mounts EXCEPT ![pt] = Tail(@)] /\ mounts[pt] # <<>>
        /\ mounts \in [Points -> Stacks] /\ Len(mounts[pt]) <= 1
    BY DEF UmountTop, MapperInv, FolderInv, TypeOK, KernelOK, Stacks, PrivatePointsExclusive
  <2>2. Tail(mounts[pt]) = <<>>
    BY <2>1, ShortStacks DEF Points
  <2> QED BY <2>1, <2>2 DEF Points
<1>3. \A r \in PrivatePoints : \A m : Mounted(r, m)' <=> r # pt /\ Mounted(r, m)
  BY <1>2 DEF Mounted
<1>4. OwnedInv'
  BY <1>3 DEF OwnedInv, MayUse, MapperInv
<1>5. \A m \in Mapper : Mounted(pt, m) => m = c
  BY <1>1, OneFolder DEF OwnedInv, MapperInv
<1>6. InHands(p, c)'
  BY <1>1 DEF InHands, Goto, MapperInv, FolderInv, TypeOK, ProcsOK
<1>7. \A q \in Procs, m \in Mapper \ {c} : InHands(q, m) => InHands(q, m)'
  BY <1>1 DEF Others, InHands
<1>8. HeldInv'
  <2>1. ASSUME NEW m \in Mapper, mapper[m] # "absent", m \notin refused
        PROVE  (\E r \in PrivatePoints : Mounted(r, m)') \/ \E q \in Procs : InHands(q, m)'
    <3>1. CASE m = c
      BY <1>6, <3>1
    <3>2. CASE m # c
      <4>1. CASE \E r \in PrivatePoints : Mounted(r, m)
        BY <1>3, <1>5, <3>2, <4>1
      <4>2. CASE \E q \in Procs : InHands(q, m)
        BY <1>7, <3>2, <4>2
      <4> QED BY <2>1, <4>1, <4>2 DEF HeldInv, MapperInv
    <3> QED BY <3>1, <3>2
  <2> QED BY <2>1 DEF HeldInv
<1> QED BY <1>4, <1>8

LEMMA CloseHolds ==
    ASSUME OwnNames, MapperInv, NEW p \in Procs, CloseStep(p)
    PROVE  OwnedInv' /\ HeldInv'
<1>0. /\ KernelOK /\ ProcsOK /\ OwnedInv /\ HeldInv /\ Working(p) /\ Others(p)
      /\ cur[p] \in Mapper
  <2>1. pc[p] \in WorkLabels
    BY DEF CloseStep, Close, Unshare, RemoveShare, ListEntries, UnmountOther, UnmountLast,
           Lock, RemoveMountPoint, WorkLabels
  <2> QED BY <2>1, OnlyItself DEF MapperInv, FolderInv, TypeOK, JobInv, WorkInv, Step
<1>1. CASE Close(p) \/ RemoveShare(p) \/ ListEntries(p) \/ RemoveMountPoint(p)
  <2>1. Aside(p)
    BY <1>1 DEF Aside, Close, RemoveShare, ListEntries, RemoveMountPoint, kernel
  <2> QED BY <1>0, <2>1, AsideKeeps
<1>2. ASSUME NEW pt \in Points, pt \notin PrivatePoints, UmountTop(pt)
      PROVE  \A r \in PrivatePoints : mounts'[r] = mounts[r]
  BY <1>0, <1>2 DEF UmountTop, KernelOK, Points
<1>3. CASE Unshare(p)
  <2>1. \A n : Public(n) \notin PrivatePoints
    <3>1. \A pt \in PrivatePoints : pt.kind = "private"
      BY DEF PrivatePoints, Private
    <3> QED BY <3>1 DEF Public
  <2>2. \A r \in PrivatePoints : mounts'[r] = mounts[r]
    BY <1>0, <1>3, <2>1 DEF Unshare, UmountTop, KernelOK, Points
  <2>3. Aside(p)
    BY <1>3, <2>2 DEF Aside, Unshare
  <2> QED BY <1>0, <2>3, AsideKeeps
<1>4. CASE UnmountOther(p)
  <2>1. pc[p] = "umount" /\ UNCHANGED <<mapper, refused>>
    BY <1>4 DEF UnmountOther
  <2>2. CASE UNCHANGED mounts
    BY <1>0, <2>1, <2>2, AsideKeeps DEF Aside
  <2>3. CASE mounts' # mounts
    <3>1. PICK pt \in left[p] : (left[p] \ {pt}) \cap PrivatePoints # {} /\ UmountTop(pt)
      BY <1>4, <2>3 DEF UnmountOther
    <3>2. PICK r \in PrivatePoints : r \in left[p] /\ r # pt
      BY <3>1
    <3>3. pt \notin PrivatePoints
      BY <1>0, <2>1, <3>1, <3>2, OneFolder DEF Working
    <3>4. pt \in Points
      BY <1>0, <3>1 DEF ProcsOK
    <3>5. Aside(p)
      BY <1>2, <2>1, <3>1, <3>3, <3>4 DEF Aside
    <3> QED BY <1>0, <3>5, AsideKeeps
  <2> QED BY <2>2, <2>3
<1>5. CASE UnmountLast(p)
  <2>1. pc[p] = "umount" /\ UNCHANGED <<mapper, refused>> /\ phase[p] # "dead"
    BY <1>0, <1>5 DEF UnmountLast, Working
  <2>2. CASE UNCHANGED mounts
    BY <1>0, <2>1, <2>2, AsideKeeps DEF Aside
  <2>3. CASE mounts' # mounts
    <3>1. PICK pt \in Points : left[p] = {pt} /\ UmountTop(pt) /\ Goto(p, "lock") /\ UNCHANGED cur
      BY <1>5, <2>1, <2>3 DEF UnmountLast
    <3>2. CASE pt \in PrivatePoints
      BY <1>0, <2>1, <3>1, <3>2, UnmountHolds
    <3>3. CASE pt \notin PrivatePoints
      BY <1>0, <1>2, <2>1, <3>1, <3>3, AsideKeeps DEF Aside
    <3> QED BY <3>2, <3>3
  <2> QED BY <2>2, <2>3
<1>6. CASE Lock(p)
  <2>1. \A pt \in PrivatePoints : mounts'[pt] = mounts[pt]
    BY <1>6 DEF Lock
  <2>2. mapper'[cur[p]] = "absent" \/ cur[p] \in refused'
    BY <1>0, <1>6 DEF Lock, KernelOK
  <2>3. \A m \in Mapper \ {cur[p]} : mapper'[m] = mapper[m] /\ (m \in refused' <=> m \in refused)
    BY <1>0, <1>6 DEF Lock, KernelOK
  <2>4. LeftInHands(p)
    BY <2>2 DEF LeftInHands
  <2> QED BY <1>0, <2>1, <2>3, <2>4, HandsOn
<1> QED BY <1>1, <1>3, <1>4, <1>5, <1>6 DEF CloseStep


\* A killed process leaves its mapper among the refused ones
LEMMA NextHolds ==
    ASSUME OwnNames, MapperInv, "clear" \notin Ops, [Next]_vars
    PROVE  OwnedInv' /\ HeldInv'
<1>0. KernelOK /\ ProcsOK /\ OwnedInv /\ HeldInv /\ WorkInv
  BY DEF MapperInv, FolderInv, TypeOK
<1>1. ASSUME NEW p \in Procs, ClearStep(p)
      PROVE  OwnedInv' /\ HeldInv'
  <2>1. pc[p] \notin {"folders", "rmdirs"}
    BY JobsTyping DEF MapperInv, FolderInv, JobInv
  <2>2. Aside(p)
    BY <1>1, <2>1 DEF Aside, ClearStep, ListMappers, ExamineMapper, EndSweep, ListFolders,
                      RemoveFolder, ListMounted, NextMounted, kernel
  <2> QED BY <1>0, <1>1, <2>2, OnlyItself, AsideKeeps DEF Step
<1>2. ASSUME NEW p \in Procs, Start(p) \/ Return(p)
      PROVE  OwnedInv' /\ HeldInv'
  <2>1. Aside(p)
    BY <1>2 DEF Aside, Start, Return, kernel
  <2> QED BY <1>0, <1>2, <2>1, OnlyItself, AsideKeeps
<1>3. ASSUME NEW p \in Procs, Kill(p)
      PROVE  OwnedInv' /\ HeldInv'
  <2>1. Others(p) /\ UNCHANGED <<mapper, mounts>> /\ refused' = refused \cup ({cur[p]} \cap Mapper)
    BY <1>0, <1>3, OnlyItself DEF Kill, kernel
  <2>2. \A pt \in PrivatePoints : \A m : Mounted(pt, m)' <=> Mounted(pt, m)
    BY <2>1 DEF Mounted
  <2>3. OwnedInv'
    BY <1>0, <2>2 DEF OwnedInv, MayUse
  <2>4. \A q \in Procs, m \in Mapper : m \notin refused' /\ InHands(q, m) => InHands(q, m)'
    BY <2>1 DEF Others, InHands
  <2>5. HeldInv'
    BY <1>0, <2>1, <2>2, <2>4 DEF HeldInv
  <2> QED BY <2>3, <2>5
<1>4. CASE (\E d \in Devices : Unplug(d) \/ Plug(d)) \/ UNCHANGED vars
  <2>1. UNCHANGED <<mounts, refused, pc, cur>>
    BY <1>4 DEF Unplug, Plug, locals, vars
  <2>2. \A m \in Mapper : mapper'[m] # "absent" => mapper[m] # "absent"
    BY <1>4 DEF Unplug, Plug, vars
  <2> QED BY <1>0, <2>1, <2>2 DEF OwnedInv, HeldInv, Mounted, MayUse, InHands
<1> QED BY <1>1, <1>2, <1>3, <1>4, OpenHolds, CloseHolds DEF Next, Step

LEMMA InitHolds == Init => MapperInv
<1> SUFFICES ASSUME Init PROVE MapperInv
  OBVIOUS
<1>1. FolderInv
  BY InitTyping, InitFolders DEF FolderInv
<1>2. WorkInv
  BY DEF Init, WorkInv, Working, OpenLabels, HoldLabels
<1>3. OwnedInv
  BY DEF Init, NoMounts, OwnedInv, Mounted, Points
<1>4. HeldInv
  BY DEF Init, HeldInv
<1> QED BY <1>1, <1>2, <1>3, <1>4 DEF MapperInv

\* A volume mounted on a private folder is in use, so an open mapper that is
\* not is in somebody's hands
LEMMA HeldIsHandled == MapperInv => NoForgottenMapper
<1> SUFFICES ASSUME MapperInv, NEW m \in Mapper, mapper[m] # "absent", ~InUse(m), m \notin refused
             PROVE  \E p \in Procs : Handles(p, m)
  BY DEF NoForgottenMapper
<1>1. ASSUME NEW pt \in PrivatePoints, Mounted(pt, m)
      PROVE  FALSE
  <2>1. mounts[pt] \in Stacks /\ mounts[pt] # <<>> /\ Head(mounts[pt]) = m
    BY <1>1 DEF MapperInv, FolderInv, TypeOK, KernelOK, Stacks, Points, Mounted
  <2>2. 1 \in DOMAIN mounts[pt] /\ mounts[pt][1] = m
    BY <2>1 DEF Stacks
  <2> QED BY <2>2 DEF InUse, In, Points
<1>2. \E p \in Procs : InHands(p, m)
  BY <1>1 DEF MapperInv, HeldInv
<1> QED BY <1>2 DEF InHands, Handles

\* No open, close or sweep walks away from an open mapper, however many run at
\* once, are killed or lose their device, when every device has its own name
THEOREM NoneForgotten ==
    ASSUME OwnNames, "clear" \notin Ops
    PROVE  Spec => []NoForgottenMapper
<1>1. MapperInv /\ [Next]_vars => MapperInv'
  <2> SUFFICES ASSUME MapperInv, [Next]_vars PROVE MapperInv'
    OBVIOUS
  <2>1. FolderInv'
    BY NextFolders DEF MapperInv
  <2> QED BY <2>1, NextWorks, NextHolds DEF MapperInv
<1> QED BY <1>1, InitHolds, HeldIsHandled, PTL DEF Spec
=============================================================================
