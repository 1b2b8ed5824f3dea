------------------------ MODULE SeparateUsersProofs ------------------------
(***************************************************************************)
(* Without shared folders nobody's close or sweep takes down a mount of    *)
(* another user's volume, for every number of processes, users, devices    *)
(* and names.  It is FolderInv and the invariants of VolumeMappersProofs   *)
(* on what a process works on that say so; TaskInv adds whose mapper that  *)
(* is, and Unshared that the public folders carry nothing.                 *)
(***************************************************************************)
EXTENDS VolumeMappersProofs

\* A sweep visits mappers its prefix matches, an open or a close has its own
Tasked(p) ==
    /\ pc[p] \in {"idle", "sweep", "scan"} => phase[p] = "sweep"
    /\ pc[p] = "dead" => phase[p] = "dead"
    /\ phase[p] = "sweep" /\ pc[p] \in WorkLabels \cup {"scan"}
         => todo[p] \subseteq SweptBy(job[p].user)
    /\ phase[p] = "sweep" /\ pc[p] \in WorkLabels => cur[p] \in SweptBy(job[p].user)
    /\ phase[p] = "main" /\ pc[p] \in WorkLabels => cur[p] = <<job[p].user, job[p].device>>

TaskInv == \A p \in Procs : Tasked(p)

\* Nobody shares, so nobody gets to the steps that do
Unshared ==
    /\ \A pt \in PublicPoints : mounts[pt] = <<>>
    /\ \A p \in Procs : pc[p] \notin {"bind", "bindmount"}

UserInv == FolderInv /\ WorkInv /\ OwnedInv /\ TaskInv /\ Unshared

-----------------------------------------------------------------------------
(* Whose mapper a process works on *)

\* A step of an open or of a close keeps the mapper, or ends the work on it
LEMMA TaskGoesOn ==
    ASSUME NEW p \in Procs, Tasked(p), pc[p] \in WorkLabels,
           \/ pc'[p] \in WorkLabels \cup {"done"}
           \/ pc'[p] = "scan" /\ phase[p] = "sweep"
           \/ pc'[p] = "dead" /\ phase[p] = "dead",
           todo'[p] \subseteq todo[p],
           UNCHANGED <<job, phase, cur>>
    PROVE  Tasked(p)'
BY DEF Tasked, WorkLabels, OpenLabels

LEMMA OpenTask ==
    ASSUME ProcsOK, NEW p \in Procs, Tasked(p), OpenStep(p)
    PROVE  Tasked(p)'
<1>1. pc[p] \in WorkLabels /\ UNCHANGED <<job, phase, cur>>
  BY DEF OpenStep, CreateMountPoint, CheckSharedPath, CheckMapper, GetKey, Unlock, Mount,
         CloseMapperAgain, Undo, Share, BindMount, Exit, WorkLabels, OpenLabels
<1>2. todo'[p] \subseteq todo[p]
  BY DEF OpenStep, CreateMountPoint, CheckSharedPath, CheckMapper, GetKey, Unlock, Mount,
         CloseMapperAgain, Undo, Share, BindMount, Exit, ProcsOK
<1>3. \E l \in OpenLabels \cup {"done"} : Goto(p, l)
  BY DEF OpenStep, CreateMountPoint, CheckSharedPath, CheckMapper, GetKey, Unlock, Mount,
         CloseMapperAgain, Undo, Share, BindMount, Exit, Fail, NextAttempt, OpenLabels
<1>4. pc'[p] \in WorkLabels \cup {"done"}
  BY <1>3 DEF Goto, ProcsOK, WorkLabels
<1> QED BY <1>1, <1>2, <1>4, TaskGoesOn

LEMMA CloseTask ==
    ASSUME ProcsOK, NEW p \in Procs, Tasked(p), CloseStep(p)
    PROVE  Tasked(p)'
<1>1. pc[p] \in WorkLabels /\ UNCHANGED <<job, phase, cur>>
  BY DEF CloseStep, Close, Unshare, RemoveShare, ListEntries, UnmountOther, UnmountLast, Lock,
         RemoveMountPoint, Proceed, GiveUp, Leave, Exit, WorkLabels
<1>2. todo'[p] \subseteq todo[p]
  BY DEF CloseStep, Close, Unshare, RemoveShare, ListEntries, UnmountOther, UnmountLast, Lock,
         RemoveMountPoint, Proceed, GiveUp, Leave, Exit, ProcsOK
<1>3. \/ UNCHANGED pc
      \/ \E l \in {"unshare", "rmshare", "entries", "umount", "lock", "rmpoint", "done"} : Goto(p, l)
      \/ Goto(p, "scan") /\ phase[p] = "sweep"
      \/ Goto(p, "dead") /\ phase[p] = "dead"
  BY DEF CloseStep, Close, Unshare, RemoveShare, ListEntries, UnmountOther, UnmountLast, Lock,
         RemoveMountPoint, Proceed, GiveUp, Leave, Exit
<1>4. \/ pc'[p] \in WorkLabels \cup {"done"}
      \/ pc'[p] = "scan" /\ phase[p] = "sweep"
      \/ pc'[p] = "dead" /\ phase[p] = "dead"
  BY <1>1, <1>3 DEF Goto, ProcsOK, WorkLabels
<1> QED BY <1>1, <1>2, <1>4, TaskGoesOn

\* The sweep chooses its mappers by the prefix, the command line says the other
LEMMA ClearTask ==
    ASSUME FolderInv, "clear" \notin Ops, NEW p \in Procs, Tasked(p), Working(p), ClearStep(p)
    PROVE  Tasked(p)'
<1>0. ProcsOK
  BY DEF FolderInv, TypeOK
<1>1. CASE ListMappers(p)
  <2>1. /\ pc'[p] = "scan" /\ phase'[p] = "sweep" /\ UNCHANGED job
        /\ todo'[p] \subseteq SweptBy(job[p].user)
    BY <1>0, <1>1 DEF ListMappers, Goto, ProcsOK, Tasked
  <2> QED BY <2>1 DEF Tasked, WorkLabels, OpenLabels
<1>2. CASE ExamineMapper(p)
  <2>1. /\ pc[p] = "scan" /\ phase[p] = "sweep" /\ UNCHANGED <<job, phase>>
        /\ todo[p] \subseteq SweptBy(job[p].user)
    BY <1>2 DEF ExamineMapper, Tasked
  <2>2. \/ pc'[p] = "unshare" /\ cur'[p] \in todo[p] /\ todo'[p] = todo[p]
        \/ pc'[p] = "scan" /\ todo'[p] \subseteq todo[p]
    BY <1>0, <1>2, <2>1 DEF ExamineMapper, Goto, ProcsOK
  <2> QED BY <2>1, <2>2 DEF Tasked, WorkLabels, OpenLabels
<1>3. CASE EndSweep(p)
  <2>1. job[p] \in Jobs /\ job[p].op \in {"open", "close", "sweep"}
    <3>1. job[p] \in Jobs
      BY <1>3 DEF EndSweep, FolderInv, JobInv
    <3> QED BY <3>1, JobsTyping
  <2>2. CASE Exit(p, 0)
    BY <1>0, <2>2 DEF Exit, Goto, ProcsOK, Tasked, WorkLabels, OpenLabels
  <2>3. CASE job[p].op # "sweep" /\ ~Exit(p, 0)
    <3>1. /\ Goto(p, FirstStep[job[p].op])
          /\ phase' = [phase EXCEPT ![p] = "main"]
          /\ cur' = [cur EXCEPT ![p] = <<job[p].user, job[p].device>>]
          /\ UNCHANGED job
      BY <1>3, <2>1, <2>3 DEF EndSweep
    <3>2. FirstStep[job[p].op] \in {"mkdir", "close"}
      BY <2>1, <2>3 DEF FirstStep
    <3>3. pc'[p] \in {"mkdir", "close"} /\ phase'[p] = "main"
          /\ cur'[p] = <<job[p].user, job[p].device>>
      BY <1>0, <3>1, <3>2 DEF Goto, ProcsOK
    <3> QED BY <3>1, <3>3 DEF Tasked
  <2> QED BY <1>3, <2>2, <2>3 DEF EndSweep
<1>4. ~(ListFolders(p) \/ RemoveFolder(p) \/ ListMounted(p))
  <2>1. pc[p] \notin {"folders", "rmdirs"}
    BY JobsTyping DEF FolderInv, JobInv
  <2> QED BY <2>1 DEF ListFolders, RemoveFolder, ListMounted
<1>5. ~NextMounted(p)
  BY DEF NextMounted, Tasked, Working
<1> QED BY <1>1, <1>2, <1>3, <1>4, <1>5 DEF ClearStep

LEMMA NextTask ==
    ASSUME UserInv, "clear" \notin Ops, [Next]_vars
    PROVE  TaskInv'
<1>0. ProcsOK /\ FolderInv /\ TaskInv /\ WorkInv
  BY DEF UserInv, FolderInv, TypeOK
<1>1. ASSUME NEW p \in Procs, Others(p), Tasked(p)'
      PROVE  TaskInv'
  <2> SUFFICES ASSUME NEW q \in Procs \ {p} PROVE Tasked(q)'
    BY <1>1 DEF TaskInv
  <2>1. /\ pc'[q] = pc[q] /\ job'[q] = job[q] /\ phase'[q] = phase[q]
        /\ cur'[q] = cur[q] /\ todo'[q] = todo[q]
    BY <1>1 DEF Others
  <2>2. Tasked(q)
    BY <1>0 DEF TaskInv
  <2> QED BY <2>1, <2>2 DEF Tasked
<1>2. ASSUME NEW p \in Procs, Step(p)
      PROVE  TaskInv'
  <2>1. Tasked(p) /\ Working(p)
    BY <1>0 DEF TaskInv, WorkInv
  <2>2. Tasked(p)'
    BY <1>0, <1>2, <2>1, OpenTask, CloseTask, ClearTask DEF Step
  <2> QED BY <1>0, <1>1, <1>2, <2>2, OnlyItself
<1>3. ASSUME NEW p \in Procs, Start(p) \/ Return(p) \/ Kill(p)
      PROVE  TaskInv'
  <2>1. pc'[p] \in {"idle", "sweep"}
    BY <1>0, <1>3 DEF Start, Return, Kill, Vanish, Goto, ProcsOK
  <2>2. phase'[p] = "sweep"
    BY <1>0, <1>3 DEF Start, Return, Kill, Vanish, ProcsOK, TaskInv, Tasked
  <2>3. Tasked(p)'
    BY <2>1, <2>2 DEF Tasked, WorkLabels, OpenLabels
  <2> QED BY <1>0, <1>1, <1>3, <2>3, OnlyItself
<1>4. CASE (\E d \in Devices : Unplug(d) \/ Plug(d)) \/ UNCHANGED vars
  BY <1>0, <1>4 DEF Unplug, Plug, locals, vars, TaskInv, Tasked
<1> QED BY <1>2, <1>3, <1>4 DEF Next

-----------------------------------------------------------------------------
(* What becomes of the mounts *)

\* p takes the one mount of a private folder away that it has listed
TakesAway(p, pt) ==
    pc[p] = "umount" /\ pt \in left[p] /\ mounts' = [mounts EXCEPT ![pt] = <<>>]

\* p mounts its own volume where nothing was mounted
PutsOn(p, pt) ==
    /\ pc[p] = "mount" /\ mounts[pt] = <<>>
    /\ \E c \in Mapper : MayUse(c, pt) /\ mounts' = [mounts EXCEPT ![pt] = <<c>>]

\* No mount lies on a public folder, and one at most on a private one
LEMMA UnmountsPrivate ==
    ASSUME UserInv, NEW p \in Procs, pc[p] = "umount", NEW pt \in left[p], UmountTop(pt)
    PROVE  pt \in PrivatePoints /\ TakesAway(p, pt)
<1>1. pt \in Points /\ mounts \in [Points -> Stacks] /\ mounts[pt] # <<>>
  BY DEF UserInv, FolderInv, TypeOK, KernelOK, ProcsOK, Stacks, UmountTop
<1>2. pt \in PrivatePoints
  BY <1>1 DEF UserInv, Unshared, Points
<1>3. Tail(mounts[pt]) = <<>>
  BY <1>1, <1>2, ShortStacks DEF UserInv, FolderInv, PrivatePointsExclusive
<1>4. mounts' = [mounts EXCEPT ![pt] = <<>>]
  BY <1>3 DEF UmountTop
<1> QED BY <1>2, <1>4 DEF TakesAway

LEMMA MountsChange ==
    ASSUME Shares \subseteq {FALSE}, "clear" \notin Ops, UserInv, NEW p \in Procs, Step(p)
    PROVE  \/ UNCHANGED mounts
           \/ \E pt \in PrivatePoints : TakesAway(p, pt) \/ PutsOn(p, pt)
<1>0. FolderInv /\ WorkInv /\ Unshared /\ ProcsOK
  BY DEF UserInv, FolderInv, TypeOK
<1>1. CASE OpenStep(p)
  <2>1. CASE Mount(p)
    <3>1. CASE UNCHANGED mounts
      BY <3>1
    <3>2. CASE MountOn(point[p], cur[p])
      BY <1>0, <2>1, <3>2, MountPlaces DEF PutsOn, Mount
    <3> QED BY <2>1, <3>1, <3>2 DEF Mount
  <2>2. ~BindMount(p) /\ ~Share(p)
    BY <1>0 DEF BindMount, Share, Unshared
  <2> QED BY <1>1, <2>1, <2>2 DEF OpenStep, CreateMountPoint, CheckSharedPath, CheckMapper,
             GetKey, Unlock, CloseMapperAgain, Undo, kernel
<1>2. CASE CloseStep(p)
  <2>1. CASE Unshare(p)
    <3>1. ASSUME NEW pt \in FirstEntries(p), UmountTop(Public(pt.name))
          PROVE  FALSE
      <4>1. pt \in Points
        BY <3>1 DEF FirstEntries, EntriesOf
      <4>2. Public(pt.name) \in PublicPoints
        BY <4>1 DEF Points, PrivatePoints, PublicPoints, Private, Public
      <4> QED BY <1>0, <3>1, <4>2 DEF Unshared, UmountTop
    <3> QED BY <2>1, <3>1 DEF Unshare
  <2>2. CASE UnmountOther(p) \/ UnmountLast(p)
    <3>1. CASE UNCHANGED mounts
      BY <3>1
    <3>2. CASE \E pt \in left[p] : UmountTop(pt)
      <4>1. pc[p] = "umount"
        BY <2>2 DEF UnmountOther, UnmountLast
      <4> QED BY <3>2, <4>1, UnmountsPrivate
    <3> QED BY <2>2, <3>1, <3>2 DEF UnmountOther, UnmountLast
  <2> QED BY <1>2, <2>1, <2>2 DEF CloseStep, Close, RemoveShare, ListEntries, Lock,
             RemoveMountPoint, kernel
<1>3. CASE ClearStep(p)
  BY <1>3 DEF ClearStep, ListMappers, ExamineMapper, EndSweep, ListFolders, RemoveFolder,
              ListMounted, NextMounted, kernel
<1> QED BY <1>1, <1>2, <1>3 DEF Step

LEMMA NextOwned ==
    ASSUME Shares \subseteq {FALSE}, "clear" \notin Ops, UserInv, [Next]_vars
    PROVE  OwnedInv' /\ \A pt \in PublicPoints : mounts'[pt] = <<>>
<1>0. OwnedInv /\ (\A pt \in PublicPoints : mounts[pt] = <<>>) /\ mounts \in [Points -> Stacks]
  BY DEF UserInv, Unshared, FolderInv, TypeOK, KernelOK, Stacks
<1>1. CASE UNCHANGED mounts
  BY <1>0, <1>1 DEF OwnedInv, Mounted, MayUse
<1>2. ASSUME NEW p \in Procs, NEW pt \in PrivatePoints, TakesAway(p, pt) \/ PutsOn(p, pt)
      PROVE  OwnedInv' /\ \A r \in PublicPoints : mounts'[r] = <<>>
  <2>1. PICK s : mounts' = [mounts EXCEPT ![pt] = s]
                 /\ (s = <<>> \/ \E c \in Mapper : s = <<c>> /\ MayUse(c, pt))
    BY <1>2 DEF TakesAway, PutsOn
  <2>2. /\ mounts'[pt] = s
        /\ \A r \in Points \ {pt} : mounts'[r] = mounts[r]
    BY <1>0, <2>1 DEF Points
  <2>3. \A r \in PublicPoints : mounts'[r] = <<>>
    BY <1>0, <2>2, PathsAreDistinct DEF Points
  <2>4. ASSUME NEW r \in PrivatePoints, NEW m \in Mapper, Mounted(r, m)'
        PROVE  MayUse(m, r)
    <3>1. mounts'[r] # <<>> /\ Head(mounts'[r]) = m
      BY <2>4 DEF Mounted
    <3>2. CASE r = pt
      BY <2>1, <2>2, <3>1, <3>2
    <3>3. CASE r # pt
      BY <1>0, <2>2, <3>1, <3>3 DEF OwnedInv, Mounted, Points
    <3> QED BY <3>2, <3>3
  <2> QED BY <2>3, <2>4 DEF OwnedInv, MayUse
<1>3. ASSUME NEW p \in Procs, Start(p) \/ Return(p) \/ Kill(p)
      PROVE  UNCHANGED mounts
  BY <1>3 DEF Start, Return, Kill, kernel
<1>4. CASE (\E d \in Devices : Unplug(d) \/ Plug(d)) \/ UNCHANGED vars
  BY <1>1, <1>4 DEF Unplug, Plug, vars
<1> QED BY <1>1, <1>2, <1>3, <1>4, MountsChange DEF Next

LEMMA NextUnshared ==
    ASSUME Shares \subseteq {FALSE}, "clear" \notin Ops, UserInv, [Next]_vars
    PROVE  Unshared'
<1>0. FolderInv /\ Unshared /\ ProcsOK /\ JobInv
  BY DEF UserInv, FolderInv, TypeOK
<1>1. ASSUME NEW p \in Procs, Others(p), pc'[p] \notin {"bind", "bindmount"}
      PROVE  \A q \in Procs : pc'[q] \notin {"bind", "bindmount"}
  BY <1>0, <1>1 DEF Others, Unshared
<1>2. ASSUME NEW p \in Procs, OpenStep(p)
      PROVE  pc'[p] \notin {"bind", "bindmount"}
  <2>1. CASE Mount(p)
    <3>1. job[p].share = FALSE
      BY <1>0, <2>1 DEF Mount, JobInv, OpenLabels, OpenJobs
    <3>2. \E l \in {"done", "abort"} : Goto(p, l)
      BY <2>1, <3>1 DEF Mount, Exit
    <3> QED BY <1>0, <3>2 DEF Goto, ProcsOK
  <2>2. ~BindMount(p) /\ ~Share(p)
    BY <1>0 DEF BindMount, Share, Unshared
  <2>3. ~Mount(p) => \E l \in HoldLabels \cup {"done"} : Goto(p, l)
    BY <1>2, <2>2 DEF OpenStep, CreateMountPoint, CheckSharedPath, CheckMapper, GetKey, Unlock,
       CloseMapperAgain, Undo, Exit, Fail, NextAttempt, HoldLabels
  <2> QED BY <1>0, <2>1, <2>3 DEF Goto, ProcsOK, HoldLabels
<1>3. ASSUME NEW p \in Procs, CloseStep(p)
      PROVE  pc'[p] \notin {"bind", "bindmount"}
  <2>1. \/ UNCHANGED pc
        \/ \E l \in {"unshare", "rmshare", "entries", "umount", "lock", "rmpoint",
                     "scan", "dead", "done"} : Goto(p, l)
    BY <1>3 DEF CloseStep, Close, Unshare, RemoveShare, ListEntries, UnmountOther, UnmountLast,
       Lock, RemoveMountPoint, Proceed, GiveUp, Leave, Exit
  <2> QED BY <1>0, <2>1 DEF Goto, ProcsOK, Unshared
<1>4. ASSUME NEW p \in Procs, ClearStep(p)
      PROVE  pc'[p] \notin {"bind", "bindmount"}
  <2>1. CASE EndSweep(p)
    <3>1. job[p] \in Jobs /\ job[p].op \in {"open", "close", "sweep", "clear"}
      BY <1>0, <2>1, JobsTyping DEF EndSweep, JobInv
    <3>2. \E l \in {"mkdir", "close", "folders", "done"} : Goto(p, l)
      BY <2>1, <3>1 DEF EndSweep, Exit, FirstStep
    <3> QED BY <1>0, <3>2 DEF Goto, ProcsOK
  <2>2. CASE ~EndSweep(p)
    <3>1. \/ UNCHANGED pc
          \/ \E l \in {"scan", "unshare", "rmdirs", "dead", "entries", "done"} : Goto(p, l)
      BY <1>4, <2>2 DEF ClearStep, ListMappers, ExamineMapper, ListFolders, RemoveFolder,
         ListMounted, NextMounted, Exit
    <3> QED BY <1>0, <3>1 DEF Goto, ProcsOK, Unshared
  <2> QED BY <2>1, <2>2
<1>5. ASSUME NEW p \in Procs, Start(p) \/ Return(p) \/ Kill(p)
      PROVE  pc'[p] \notin {"bind", "bindmount"}
  BY <1>0, <1>5 DEF Start, Return, Kill, Vanish, Goto, ProcsOK
<1>6. ASSUME NEW p \in Procs, Step(p) \/ Start(p) \/ Return(p) \/ Kill(p)
      PROVE  \A q \in Procs : pc'[q] \notin {"bind", "bindmount"}
  BY <1>0, <1>1, <1>2, <1>3, <1>4, <1>5, <1>6, OnlyItself DEF Step
<1>7. CASE (\E d \in Devices : Unplug(d) \/ Plug(d)) \/ UNCHANGED vars
  BY <1>0, <1>7 DEF Unplug, Plug, locals, vars, Unshared
<1>8. \A q \in Procs : pc'[q] \notin {"bind", "bindmount"}
  BY <1>0, <1>6, <1>7 DEF Next, Unshared
<1> QED BY <1>8, NextOwned DEF Unshared

LEMMA InitUsers == Init => UserInv
<1> SUFFICES ASSUME Init PROVE UserInv
  OBVIOUS
<1>1. FolderInv
  BY InitTyping, InitFolders DEF FolderInv
<1>2. WorkInv /\ TaskInv
  BY DEF Init, WorkInv, Working, TaskInv, Tasked, WorkLabels, OpenLabels, HoldLabels
<1>3. OwnedInv /\ Unshared
  BY DEF Init, NoMounts, OwnedInv, Mounted, Points, Unshared
<1> QED BY <1>1, <1>2, <1>3 DEF UserInv

\* As long as nobody shares a volume, and no uid is the beginning of another,
\* no close and no sweep takes down a mount of another user's volume, however
\* many run at once, are killed or lose their device
THEOREM SeparateUsersKept ==
    ASSUME Shares \subseteq {FALSE}, "clear" \notin Ops,
           \A u, v \in Users : <<u, v>> \in UidPrefix => u = v
    PROVE  Spec => OthersMountsKept
<1>1. UserInv /\ [Next]_vars => UserInv'
  <2> SUFFICES ASSUME UserInv, [Next]_vars PROVE UserInv'
    OBVIOUS
  <2>1. FolderInv' /\ WorkInv'
    BY NextFolders, NextWorks DEF UserInv
  <2> QED BY <2>1, NextTask, NextOwned, NextUnshared DEF UserInv
<1>2. UserInv /\ [Next]_vars =>
        [\A p \in Procs : Unmounts(p) /\ phase[p] # "dead" =>
           \A pt \in Uncovered :
             Head(mounts[pt]) \in Mapper => UserOf(Head(mounts[pt])) = job[p].user]_vars
  <2> SUFFICES ASSUME UserInv, [Next]_vars, NEW p \in Procs, Unmounts(p),
                      NEW pt \in Uncovered, Head(mounts[pt]) \in Mapper
               PROVE  UserOf(Head(mounts[pt])) = job[p].user
    OBVIOUS
  <2>0. /\ ProcsOK /\ Working(p) /\ Tasked(p) /\ OwnedInv
        /\ pc[p] \in {"unshare", "umount"} /\ cur[p] \in Mapper /\ job[p] \in Jobs
    BY DEF UserInv, FolderInv, TypeOK, JobInv, WorkInv, TaskInv, Unmounts, WorkLabels
  <2>1. mounts' # mounts /\ mounts \in [Points -> Stacks] /\ pt \in Points /\ mounts[pt] # <<>>
    <3>1. mounts \in [Points -> Stacks] /\ pt \in Points /\ mounts[pt] # <<>>
          /\ mounts'[pt] = Tail(mounts[pt])
      BY DEF UserInv, FolderInv, TypeOK, KernelOK, Stacks, Uncovered
    <3>2. Tail(mounts[pt]) # mounts[pt]
      BY <3>1 DEF Stacks
    <3> QED BY <3>1, <3>2
  <2>2. PICK q \in Procs : Step(q)
    BY <2>1 DEF Next, Start, Return, Kill, Unplug, Plug, kernel, vars
  <2>3. q = p
    <3>1. ASSUME q # p PROVE FALSE
      BY <2>0, <2>2, <3>1, OnlyItself DEF Others, Unmounts
    <3> QED BY <3>1
  <2>4. PICK r \in PrivatePoints : TakesAway(p, r)
    BY <2>0, <2>1, <2>2, <2>3, MountsChange DEF PutsOn
  <2>5. r = pt
    BY <2>1, <2>4 DEF TakesAway, Uncovered
  <2>6. pc[p] = "umount" /\ MayUse(cur[p], pt) /\ MayUse(Head(mounts[pt]), pt)
    BY <2>0, <2>1, <2>4, <2>5 DEF TakesAway, Working, OwnedInv, Mounted
  <2>7. UserOf(Head(mounts[pt])) = UserOf(cur[p])
    BY <2>6 DEF MayUse
  <2>8. phase[p] \in {"sweep", "main"}
    BY <2>0 DEF ProcsOK, Working
  <2>9. CASE phase[p] = "sweep"
    <3>1. cur[p] \in SweptBy(job[p].user)
      BY <2>0, <2>9 DEF Tasked, WorkLabels
    <3>2. job[p].user \in Users /\ UserOf(cur[p]) \in Users
      BY <2>0, JobsTyping DEF Mapper, UserOf
    <3> QED BY <2>7, <3>1, <3>2 DEF SweptBy
  <2>10. CASE phase[p] = "main"
    <3>1. cur[p] = <<job[p].user, job[p].device>>
      BY <2>0, <2>10 DEF Tasked, WorkLabels
    <3> QED BY <2>7, <3>1 DEF UserOf
  <2> QED BY <2>8, <2>9, <2>10
<1> QED BY <1>1, <1>2, InitUsers, PTL DEF Spec, OthersMountsKept
=============================================================================
