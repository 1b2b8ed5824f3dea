------------------------ MODULE VolumeSessionsProofs ------------------------
(***************************************************************************)
(* What holds of VolumeSessions for every number of users, devices, names  *)
(* and processes.  The inductive invariant is Inv: the typing of the       *)
(* state, what a process at a given step has in its command line and in    *)
(* its m_point, and who has which private folder.                          *)
(***************************************************************************)
EXTENDS VolumeSessions, SequenceTheorems, TLAPS

Stacks == Seq(Mapper \cup {Bare})

OpenLabels == {"mkdir", "taken", "stat", "key", "unlock", "mount", "abort", "undo",
               "bind", "bindmount"}

\* the steps of zuluCryptEXEOpenVolume() at which the folder is not mounted on
HoldLabels == {"taken", "stat", "key", "unlock", "mount", "abort", "undo"}

\* the steps at which a process works on a mapper
WorkLabels == OpenLabels \cup
    {"close", "unshare", "rmshare", "entries", "umount", "lock", "rmpoint"}

\* A process that runs has a command line, and only an open opens
JobInv ==
    \A p \in Procs :
        /\ pc[p] \notin {"idle", "done"} => job[p] \in Jobs
        /\ pc[p] \in OpenLabels => job[p] \in OpenJobs
        /\ pc[p] \in WorkLabels => cur[p] \in Mapper
        /\ pc[p] \in {"folders", "rmdirs"} => job[p].op = "clear"

LEMMA PathsAreDistinct ==
    /\ PrivatePoints \cap PublicPoints = {}
    /\ NoPoint \notin Points
BY ConstantsAssumption DEF PrivatePoints, PublicPoints, Private, Public, Points

LEMMA JobsTyping ==
    /\ \A j \in Jobs : j.op \in {"open", "close", "sweep", "clear"} /\ j.op \in Ops
    /\ \A j \in OpenJobs : /\ j.op = "open" /\ j.user \in Users /\ j.name \in Names
                           /\ j.type \in {"luks", "plain", "auto"} /\ j.device \in Devices
    /\ \A j \in Jobs : j.user \in Users
    /\ \A j \in Jobs : j.op = "close" => j.device \in Devices
    /\ \A j \in Jobs : j.op = "open" => j \in OpenJobs
    /\ NoJob.op = "none"
BY ConstantsAssumption DEF Jobs, OpenJobs, CloseJobs, OtherJobs, NoJob

-----------------------------------------------------------------------------
(* Types *)

LEMMA StackTyping ==
    /\ NoMounts \in [Points -> Stacks]
    /\ \A m \in Mapper \cup {Bare}, s \in Stacks : <<m>> \o s \in Stacks
    /\ \A s \in Stacks : s # <<>> => Tail(s) \in Stacks /\ Head(s) \in Mapper \cup {Bare}
BY DEF NoMounts, Stacks

\* What the program reports is a number, and an exit forgets what it kept
LEMMA ExitTyping ==
    ASSUME ProcsOK, JobInv, NEW p \in Procs, NEW code \in Nat, Exit(p, code)
    PROVE  ProcsOK' /\ JobInv'
BY StackTyping DEF ProcsOK, JobInv, Exit, Goto, Labels0, OpenLabels, WorkLabels, Stacks

LEMMA StatusTyping ==
    ASSUME ProcsOK, NEW p \in Procs, NEW code \in Nat
    PROVE  [rc EXCEPT ![p] = code] \in [Procs -> Nat]
BY DEF ProcsOK

LEMMA LeaveTyping ==
    ASSUME ProcsOK, JobInv, NEW p \in Procs, NEW code \in Nat, Leave(p, code),
           pc[p] \notin {"idle", "done"}
    PROVE  ProcsOK' /\ JobInv'
<1>1. CASE Exit(p, code)
  BY <1>1, ExitTyping
<1>2. CASE phase[p] \in {"sweep", "dead"} /\ ~Exit(p, code)
  <2>1. PICK l \in {"scan", "dead"} : Goto(p, l)
    BY <1>2 DEF Leave
  <2>2. pc' \in [Procs -> Labels0]
    BY <2>1 DEF Goto, ProcsOK, Labels0
  <2>3. ProcsOK'
    <3>1. /\ todo' = [todo EXCEPT ![p] = @ \ {cur[p]}]
          /\ left' = [left EXCEPT ![p] = {}]
          /\ point' = [point EXCEPT ![p] = NoPoint]
          /\ UNCHANGED <<job, phase, root, seen, cur, try, rc>>
      BY <1>2 DEF Leave
    <3>2. /\ todo' \in [Procs -> SUBSET Mapper]
          /\ left' \in [Procs -> SUBSET Points]
          /\ point' \in [Procs -> Points \cup {NoPoint}]
      BY <3>1 DEF ProcsOK
    <3> QED BY <2>2, <3>1, <3>2 DEF ProcsOK
  <2>4. JobInv'
    BY <1>2, <2>1 DEF Leave, ProcsOK, JobInv, Goto, OpenLabels, WorkLabels
  <2> QED BY <2>3, <2>4
<1> QED BY <1>1, <1>2 DEF Leave

LEMMA NextAttemptTyping ==
    ASSUME ProcsOK, JobInv, NEW p \in Procs, NEW code \in Nat, NextAttempt(p, code),
           pc[p] \in OpenLabels,
           UNCHANGED <<job, phase, root, seen, todo, left, cur, point>>
    PROVE  ProcsOK' /\ JobInv'
<1>1. Attempts(p) \in 1 .. 3
  BY JobsTyping DEF JobInv, Attempts, Formats
<1>2. try[p] \in 0 .. 3
  BY DEF ProcsOK
<1>3. CASE try[p] < Attempts(p)
  <2>1. Goto(p, "unlock") /\ try' = [try EXCEPT ![p] = @ + 1] /\ UNCHANGED rc
    BY <1>1, <1>2, <1>3 DEF NextAttempt
  <2>2. pc' \in [Procs -> Labels0]
    BY <2>1 DEF Goto, ProcsOK, Labels0
  <2>3. try[p] + 1 \in 0 .. 3
    BY <1>1, <1>2, <1>3
  <2>4. ProcsOK'
    BY <2>1, <2>2, <2>3 DEF ProcsOK
  <2>5. JobInv'
    BY <2>1 DEF ProcsOK, JobInv, Goto, OpenLabels, WorkLabels
  <2> QED BY <2>4, <2>5
<1>4. CASE try[p] >= Attempts(p)
  <2>1. PICK n \in Nat : Fail(p, n) /\ UNCHANGED try
    BY <1>1, <1>2, <1>4 DEF NextAttempt
  <2>2. pc' \in [Procs -> Labels0]
    BY <2>1 DEF Fail, Goto, ProcsOK, Labels0
  <2>3. ProcsOK'
    BY <2>1, <2>2 DEF Fail, ProcsOK
  <2>4. JobInv'
    BY <2>1 DEF ProcsOK, JobInv, Fail, Goto, OpenLabels, WorkLabels
  <2> QED BY <2>3, <2>4
<1> QED BY <1>1, <1>2, <1>3, <1>4

LEMMA KernelTyping ==
    ASSUME KernelOK
    PROVE  /\ \A pt \in Points : UmountTop(pt) => mounts' \in [Points -> Stacks]
           /\ \A pt \in Points, m \in Mapper \cup {Bare} :
                MountOn(pt, m) => mounts' \in [Points -> Stacks]
           /\ \A pt : Rmdir(pt) => dirs' \in SUBSET Points
           /\ \A pt \in Points : Visible(pt) \in Mapper \cup {Bare}
<1>1. mounts \in [Points -> Stacks] /\ dirs \in SUBSET Points
  BY DEF KernelOK, Stacks
<1>2. ASSUME NEW pt \in Points, UmountTop(pt)
      PROVE  mounts' \in [Points -> Stacks]
  BY <1>1, <1>2, StackTyping DEF UmountTop
<1>3. ASSUME NEW pt \in Points, NEW m \in Mapper \cup {Bare}, MountOn(pt, m)
      PROVE  mounts' \in [Points -> Stacks]
  BY <1>1, <1>3, StackTyping DEF MountOn
<1>4. \A pt : Rmdir(pt) => dirs' \in SUBSET Points
  BY <1>1 DEF Rmdir
<1>5. ASSUME NEW pt \in Points
      PROVE  Visible(pt) \in Mapper \cup {Bare}
  BY <1>1, StackTyping DEF Visible
<1> QED BY <1>2, <1>3, <1>4, <1>5

\* The folders and the mapper an open works with
LEMMA OpenPaths ==
    ASSUME ProcsOK, JobInv, NEW p \in Procs, pc[p] \in OpenLabels
    PROVE  /\ Folder(p) \in PrivatePoints
           /\ Public(job[p].name) \in PublicPoints
BY JobsTyping DEF JobInv, Folder, PrivatePoints, PublicPoints

LEMMA OpenTyping ==
    ASSUME TypeOK, JobInv, NEW p \in Procs, OpenStep(p)
    PROVE  TypeOK' /\ JobInv'
<1> USE DEF TypeOK
<1>1. CASE CreateMountPoint(p)
  <2>1. Folder(p) \in Points
    BY <1>1, OpenPaths DEF CreateMountPoint, OpenLabels, Points
  <2>2. KernelOK'
    BY <1>1, <2>1 DEF CreateMountPoint, KernelOK
  <2>3. CASE \E code \in Nat : Exit(p, code)
    BY <2>2, <2>3, ExitTyping
  <2>4. CASE ~\E code \in Nat : Exit(p, code)
    <3>1. PICK l \in {"taken", "stat"} : Goto(p, l)
      BY <1>1, <2>4 DEF CreateMountPoint
    <3>2. /\ point' = [point EXCEPT ![p] = Folder(p)]
          /\ UNCHANGED <<job, phase, root, seen, todo, left, cur, try, rc>>
      BY <1>1, <2>4 DEF CreateMountPoint
    <3>3. pc' \in [Procs -> Labels0]
      BY <3>1 DEF Goto, ProcsOK, Labels0
    <3>4. ProcsOK'
      BY <2>1, <3>2, <3>3 DEF ProcsOK
    <3>5. JobInv'
      BY <1>1, <3>1, <3>2 DEF CreateMountPoint, ProcsOK, JobInv, Goto, OpenLabels, WorkLabels
    <3> QED BY <2>2, <3>4, <3>5
  <2> QED BY <2>3, <2>4
<1>2. CASE CheckSharedPath(p) \/ CheckMapper(p) \/ GetKey(p)
  <2>1. KernelOK'
    BY <1>2 DEF CheckSharedPath, CheckMapper, GetKey, KernelOK, kernel
  <2>2. PICK l \in {"stat", "key", "unlock", "undo"} : Goto(p, l)
    BY <1>2 DEF CheckSharedPath, CheckMapper, GetKey, Fail
  <2>3. pc' \in [Procs -> Labels0]
    BY <2>2 DEF Goto, ProcsOK, Labels0
  <2>4. rc' \in [Procs -> Nat]
    <3>1. rc' = rc \/ \E code \in Nat : rc' = [rc EXCEPT ![p] = code]
      BY <1>2 DEF CheckSharedPath, CheckMapper, GetKey, Fail
    <3> QED BY <3>1, StatusTyping DEF ProcsOK
  <2>5. try' \in [Procs -> 0 .. 3]
    <3>1. try' = try \/ try' = [try EXCEPT ![p] = 1]
      BY <1>2 DEF CheckSharedPath, CheckMapper, GetKey
    <3>2. try \in [Procs -> 0 .. 3] /\ 1 \in 0 .. 3
      BY DEF ProcsOK
    <3> QED BY <3>1, <3>2
  <2>6. ProcsOK'
    BY <1>2, <2>3, <2>4, <2>5 DEF CheckSharedPath, CheckMapper, GetKey, ProcsOK
  <2>7. JobInv'
    BY <1>2, <2>2 DEF CheckSharedPath, CheckMapper, GetKey, JobInv, ProcsOK, Goto, OpenLabels, WorkLabels
  <2> QED BY <2>1, <2>6, <2>7
<1>3. CASE Unlock(p)
  <2>1. pc[p] \in OpenLabels /\ cur[p] \in Mapper \cup {NoMapper}
    BY <1>3 DEF Unlock, OpenLabels, ProcsOK
  <2>2. KernelOK'
    BY <1>3 DEF Unlock, KernelOK
  <2>3. CASE \E code \in Nat : NextAttempt(p, code)
    BY <1>3, <2>1, <2>2, <2>3, NextAttemptTyping DEF Unlock
  <2>4. CASE Goto(p, "mount") /\ UNCHANGED <<try, rc>>
    <3>1. pc' \in [Procs -> Labels0]
      BY <2>4 DEF Goto, ProcsOK, Labels0
    <3>2. ProcsOK'
      BY <1>3, <2>4, <3>1 DEF Unlock, ProcsOK
    <3>3. JobInv'
      BY <1>3, <2>1, <2>4 DEF Unlock, ProcsOK, JobInv, Goto, OpenLabels, WorkLabels
    <3> QED BY <2>2, <3>2, <3>3
  <2> QED BY <1>3, <2>3, <2>4 DEF Unlock
<1>4. CASE Mount(p)
  <2>1. pc[p] = "mount" /\ job[p] \in OpenJobs
    BY <1>4 DEF Mount, JobInv, OpenLabels
  <2>2. mounts' \in [Points -> Stacks]
    <3>1. cur[p] \in Mapper
      BY <2>1 DEF JobInv, OpenLabels, WorkLabels
    <3>2. point[p] \in dirs => point[p] \in Points
      BY DEF KernelOK
    <3> QED BY <1>4, <3>1, <3>2, KernelTyping DEF Mount, KernelOK, Stacks
  <2>3. KernelOK'
    BY <1>4, <2>2 DEF Mount, KernelOK, Stacks
  <2>4. CASE Exit(p, 0)
    BY <2>3, <2>4, ExitTyping
  <2>5. CASE \E l \in {"bind", "abort"} : Goto(p, l)
    <3>1. pc' \in [Procs -> Labels0]
      BY <2>5 DEF Goto, ProcsOK, Labels0
    <3>2. CASE ~Exit(p, 0)
      <4>1. rc' = rc \/ \E code \in Nat : rc' = [rc EXCEPT ![p] = code]
        BY <1>4, <3>2 DEF Mount
      <4>2. rc' \in [Procs -> Nat]
        BY <4>1, StatusTyping DEF ProcsOK
      <4>3. point' \in [Procs -> Points \cup {NoPoint}]
        BY <1>4, <3>2 DEF Mount, ProcsOK
      <4>4. UNCHANGED <<job, phase, root, seen, todo, left, cur, try>>
        BY <1>4, <3>2 DEF Mount
      <4>5. ProcsOK'
        BY <3>1, <4>2, <4>3, <4>4 DEF ProcsOK
      <4>6. JobInv'
        BY <2>1, <2>5, <4>4 DEF ProcsOK, JobInv, Goto, OpenLabels, WorkLabels
      <4> QED BY <2>3, <4>5, <4>6
    <3> QED BY <3>2, <2>3, ExitTyping
  <2> QED BY <1>4, <2>4, <2>5 DEF Mount
<1>5. CASE CloseMapperAgain(p)
  <2>1. pc[p] \in OpenLabels /\ rc[p] \in Nat
    BY <1>5 DEF CloseMapperAgain, OpenLabels, ProcsOK
  <2>2. mapper' \in [Mapper -> {"absent", "live", "dead"}]
    BY <1>5 DEF CloseMapperAgain, KernelOK
  <2>3. refused' \in SUBSET Mapper
    BY <1>5 DEF CloseMapperAgain, KernelOK, JobInv, OpenLabels, WorkLabels
  <2> QED BY <1>5, <2>1, <2>2, <2>3, NextAttemptTyping DEF CloseMapperAgain, KernelOK
<1>6. CASE Undo(p)
  <2>1. KernelOK'
    BY <1>6, KernelTyping DEF Undo, KernelOK
  <2> QED BY <1>6, <2>1, ExitTyping DEF Undo, ProcsOK
<1>7. CASE Share(p)
  <2>1. Public(job[p].name) \in Points /\ job[p] \in OpenJobs
    BY <1>7, OpenPaths DEF Share, OpenLabels, Points, JobInv
  <2>2. KernelOK'
    BY <1>7, <2>1 DEF Share, KernelOK
  <2>3. CASE Exit(p, 0)
    BY <2>2, <2>3, ExitTyping
  <2>4. CASE ~Exit(p, 0)
    <3>1. Goto(p, "bindmount")
      BY <1>7, <2>4 DEF Share
    <3>2. pc' \in [Procs -> Labels0]
      BY <3>1 DEF Goto, ProcsOK, Labels0
    <3>3. /\ point' = point \/ point' = [point EXCEPT ![p] = Public(job[p].name)]
          /\ UNCHANGED <<job, phase, root, seen, todo, left, cur, try, rc>>
      BY <1>7, <2>4 DEF Share
    <3>4. point' \in [Procs -> Points \cup {NoPoint}]
      BY <2>1, <3>3 DEF ProcsOK
    <3>5. ProcsOK'
      BY <3>2, <3>3, <3>4 DEF ProcsOK
    <3>6. /\ pc[p] = "bind"
          /\ \A q \in Procs : pc'[q] = IF q = p THEN "bindmount" ELSE pc[q]
      BY <1>7, <3>1 DEF Share, Goto, ProcsOK
    <3>7. JobInv'
      BY <2>1, <3>3, <3>6 DEF JobInv, OpenLabels, WorkLabels
    <3> QED BY <2>2, <3>5, <3>7
  <2> QED BY <2>3, <2>4
<1>8. CASE BindMount(p)
  <2>1. Folder(p) \in Points /\ Public(job[p].name) \in Points
    BY <1>8, OpenPaths DEF BindMount, OpenLabels, Points
  <2>2. mounts' \in [Points -> Stacks] /\ dirs' \in SUBSET Points
    BY <1>8, <2>1, KernelTyping DEF BindMount, KernelOK, Stacks
  <2>3. KernelOK'
    BY <1>8, <2>2 DEF BindMount, KernelOK, Stacks
  <2> QED BY <1>8, <2>3, ExitTyping DEF BindMount
<1> QED BY <1>1, <1>2, <1>3, <1>4, <1>5, <1>6, <1>7, <1>8 DEF OpenStep

\* A step of a close leads to another one, or back to the loop it serves
LEMMA CloseMoves ==
    ASSUME ProcsOK, JobInv, NEW p \in Procs, pc[p] \in WorkLabels,
           NEW l \in {"unshare", "rmshare", "entries", "umount", "lock", "rmpoint", "scan"},
           Goto(p, l), UNCHANGED <<job, cur>>
    PROVE  pc' \in [Procs -> Labels0] /\ JobInv'
<1>1. pc' \in [Procs -> Labels0]
  BY DEF Goto, ProcsOK, Labels0
<1>2. JobInv'
  BY DEF ProcsOK, JobInv, Goto, OpenLabels, WorkLabels
<1> QED BY <1>1, <1>2

LEMMA ProceedTyping ==
    ASSUME ProcsOK, JobInv, NEW p \in Procs, pc[p] \in WorkLabels, Proceed(p)
    PROVE  ProcsOK' /\ JobInv'
<1>1. pc' \in [Procs -> Labels0] /\ JobInv'
  BY CloseMoves DEF Proceed
<1>2. root' \in [Procs -> BOOLEAN]
  BY DEF Proceed, ProcsOK, DropsToRoot
<1>3. ProcsOK'
  BY <1>1, <1>2 DEF Proceed, ProcsOK
<1> QED BY <1>1, <1>3

LEMMA GiveUpTyping ==
    ASSUME ProcsOK, JobInv, NEW p \in Procs, pc[p] \in WorkLabels, NEW code \in Nat,
           GiveUp(p, code)
    PROVE  ProcsOK' /\ JobInv'
<1>1. CASE Exit(p, code)
  BY <1>1, ExitTyping
<1>2. CASE ~Exit(p, code)
  <2>1. pc' \in [Procs -> Labels0] /\ JobInv'
    BY <1>2, CloseMoves DEF GiveUp
  <2>2. /\ todo' = [todo EXCEPT ![p] = @ \ {cur[p]}]
        /\ root' = [root EXCEPT ![p] = DropsToRoot(p)]
        /\ UNCHANGED <<job, phase, seen, left, cur, point, try, rc>>
    BY <1>2 DEF GiveUp
  <2>3. DropsToRoot(p) \in BOOLEAN
    BY DEF DropsToRoot
  <2>4. root' \in [Procs -> BOOLEAN] /\ todo' \in [Procs -> SUBSET Mapper]
    BY <2>2, <2>3 DEF ProcsOK
  <2>5. ProcsOK'
    BY <2>1, <2>2, <2>4 DEF ProcsOK
  <2> QED BY <2>1, <2>5
<1> QED BY <1>1, <1>2

LEMMA CloseTyping ==
    ASSUME TypeOK, JobInv, NEW p \in Procs, CloseStep(p)
    PROVE  TypeOK' /\ JobInv'
<1> USE DEF TypeOK
<1>0. /\ pc[p] \in WorkLabels /\ pc[p] \notin OpenLabels
      /\ cur[p] \in Mapper /\ pc[p] \notin {"idle", "done"} /\ job[p] \in Jobs
  BY DEF CloseStep, Close, Unshare, RemoveShare, ListEntries, UnmountOther, UnmountLast,
         Lock, RemoveMountPoint, JobInv, OpenLabels, WorkLabels
<1>1. CASE Close(p)
  <2>1. KernelOK'
    BY <1>1 DEF Close, KernelOK, kernel
  <2>2. CASE Exit(p, 1)
    BY <2>1, <2>2, ExitTyping
  <2>3. CASE ~Exit(p, 1)
    <3>1. /\ Goto(p, "unshare") /\ seen' = [seen EXCEPT ![p] = mounts]
          /\ UNCHANGED <<job, phase, root, todo, left, cur, point, try, rc>>
      BY <1>1, <2>3 DEF Close
    <3>2. pc' \in [Procs -> Labels0]
      BY <3>1 DEF Goto, ProcsOK, Labels0
    <3>3. ProcsOK'
      <4>1. seen' \in [Procs -> [Points -> Seq(Mapper \cup {Bare})]]
        BY <3>1 DEF ProcsOK, KernelOK
      <4> QED BY <3>1, <3>2, <4>1 DEF ProcsOK
    <3>4. JobInv'
      BY <1>0, <3>1 DEF ProcsOK, JobInv, Goto, OpenLabels, WorkLabels
    <3> QED BY <2>1, <3>3, <3>4
  <2> QED BY <2>2, <2>3
<1>2. CASE Unshare(p)
  <2>1. \A pt \in FirstEntries(p) : Public(pt.name) \in Points
    BY DEF FirstEntries, EntriesOf, Points, PrivatePoints, PublicPoints, Private, Public
  <2>2. mounts' \in [Points -> Stacks]
    BY <1>2, <2>1, KernelTyping DEF Unshare, KernelOK, Stacks
  <2>3. KernelOK'
    BY <1>2, <2>2 DEF Unshare, KernelOK, Stacks
  <2>4. CASE Proceed(p) \/ GiveUp(p, 7) \/ GiveUp(p, 8)
    BY <1>0, <2>3, <2>4, ProceedTyping, GiveUpTyping
  <2>5. CASE \E pt \in FirstEntries(p) :
               /\ Goto(p, "rmshare")
               /\ point' = [point EXCEPT ![p] = Public(pt.name)]
               /\ UNCHANGED <<job, phase, root, seen, todo, left, cur, try, rc>>
    <3>1. pc' \in [Procs -> Labels0] /\ JobInv'
      BY <1>0, <2>5, CloseMoves
    <3>2. point' \in [Procs -> Points \cup {NoPoint}]
      BY <2>1, <2>5 DEF ProcsOK
    <3>3. ProcsOK'
      BY <2>5, <3>1, <3>2 DEF ProcsOK
    <3> QED BY <2>3, <3>1, <3>3
  <2> QED BY <1>2, <2>4, <2>5 DEF Unshare
<1>3. CASE RemoveShare(p)
  <2>1. KernelOK'
    BY <1>3, KernelTyping DEF RemoveShare, KernelOK
  <2>2. pc' \in [Procs -> Labels0] /\ JobInv'
    BY <1>0, <1>3, CloseMoves DEF RemoveShare
  <2>3. root' \in [Procs -> BOOLEAN] /\ point' \in [Procs -> Points \cup {NoPoint}]
    BY <1>3 DEF RemoveShare, ProcsOK, DropsToRoot
  <2>4. ProcsOK'
    BY <1>3, <2>2, <2>3 DEF RemoveShare, ProcsOK
  <2> QED BY <2>1, <2>2, <2>4
<1>4. CASE ListEntries(p)
  <2>1. KernelOK'
    BY <1>4 DEF ListEntries, KernelOK, kernel
  <2>2. CASE Leave(p, 3) \/ Leave(p, 10)
    BY <1>0, <2>1, <2>2, LeaveTyping
  <2>3. CASE \E l \in {"lock", "umount"} :
               /\ Goto(p, l)
               /\ left' = left \/ left' = [left EXCEPT ![p] = EntriesOf(cur[p], mounts)]
               /\ UNCHANGED <<job, phase, root, seen, todo, cur, point, try, rc>>
    <3>1. pc' \in [Procs -> Labels0] /\ JobInv'
      BY <1>0, <2>3, CloseMoves
    <3>2. left' \in [Procs -> SUBSET Points]
      <4>1. EntriesOf(cur[p], mounts) \in SUBSET Points
        BY DEF EntriesOf
      <4> QED BY <2>3, <4>1 DEF ProcsOK
    <3>3. UNCHANGED <<job, phase, root, seen, todo, cur, point, try, rc>>
      BY <2>3
    <3>4. ProcsOK'
      BY <3>1, <3>2, <3>3 DEF ProcsOK
    <3> QED BY <2>1, <3>1, <3>4
  <2> QED BY <1>4, <2>2, <2>3 DEF ListEntries
<1>5. CASE UnmountOther(p)
  <2>1. left[p] \subseteq Points
    BY DEF ProcsOK
  <2>2. mounts' \in [Points -> Stacks]
    BY <1>5, <2>1, KernelTyping DEF UnmountOther, KernelOK, Stacks
  <2>3. KernelOK'
    BY <1>5, <2>2 DEF UnmountOther, KernelOK, Stacks
  <2>4. CASE Leave(p, 10)
    BY <1>0, <2>3, <2>4, LeaveTyping
  <2>5. CASE \E pt : /\ left' = [left EXCEPT ![p] = @ \ {pt}]
                     /\ UNCHANGED <<pc, job, phase, root, seen, todo, cur, point, try, rc>>
    BY <2>3, <2>5 DEF ProcsOK, JobInv
  <2> QED BY <1>5, <2>4, <2>5 DEF UnmountOther
<1>6. CASE UnmountLast(p)
  <2>1. mounts' \in [Points -> Stacks]
    BY <1>6, KernelTyping DEF UnmountLast, KernelOK, Stacks
  <2>2. KernelOK'
    BY <1>6, <2>1 DEF UnmountLast, KernelOK, Stacks
  <2>3. CASE Leave(p, 2)
    BY <1>0, <2>2, <2>3, LeaveTyping
  <2>4. CASE \E l \in {"rmpoint", "lock"}, pt \in Points :
               /\ Goto(p, l)
               /\ left' = [left EXCEPT ![p] = {}]
               /\ point' = [point EXCEPT ![p] = pt]
               /\ UNCHANGED <<job, phase, root, seen, todo, cur, try, rc>>
    <3>1. pc' \in [Procs -> Labels0] /\ JobInv'
      BY <1>0, <2>4, CloseMoves
    <3>2. left' \in [Procs -> SUBSET Points] /\ point' \in [Procs -> Points \cup {NoPoint}]
      BY <2>4 DEF ProcsOK
    <3>3. UNCHANGED <<job, phase, root, seen, todo, cur, try, rc>>
      BY <2>4
    <3>4. ProcsOK'
      BY <3>1, <3>2, <3>3 DEF ProcsOK
    <3> QED BY <2>2, <3>1, <3>4
  <2> QED BY <1>6, <2>3, <2>4 DEF UnmountLast
<1>7. CASE Lock(p)
  <2>1. mapper' \in [Mapper -> {"absent", "live", "dead"}] /\ refused' \in SUBSET Mapper
    BY <1>0, <1>7 DEF Lock, KernelOK
  <2>2. KernelOK'
    BY <1>7, <2>1 DEF Lock, KernelOK
  <2>3. CASE Leave(p, 0) \/ Leave(p, 5)
    BY <1>0, <2>2, <2>3, LeaveTyping
  <2>4. CASE /\ Goto(p, "rmpoint")
             /\ UNCHANGED <<job, phase, root, seen, todo, left, cur, point, try, rc>>
    <3>1. pc' \in [Procs -> Labels0] /\ JobInv'
      BY <1>0, <2>4, CloseMoves
    <3>2. ProcsOK'
      BY <2>4, <3>1 DEF ProcsOK
    <3> QED BY <2>2, <3>1, <3>2
  <2> QED BY <1>7, <2>3, <2>4 DEF Lock
<1>8. CASE RemoveMountPoint(p)
  <2>1. KernelOK'
    BY <1>8, KernelTyping DEF RemoveMountPoint, KernelOK
  <2> QED BY <1>0, <1>8, <2>1, LeaveTyping DEF RemoveMountPoint
<1> QED BY <1>1, <1>2, <1>3, <1>4, <1>5, <1>6, <1>7, <1>8 DEF CloseStep

LEMMA ClearTyping ==
    ASSUME TypeOK, JobInv, NEW p \in Procs, ClearStep(p)
    PROVE  TypeOK' /\ JobInv'
<1> USE DEF TypeOK
<1>0. pc[p] \notin {"idle", "done"} /\ job[p] \in Jobs
  BY DEF ClearStep, ListMappers, ExamineMapper, EndSweep, ListFolders, RemoveFolder,
         ListMounted, NextMounted, JobInv
<1>1. CASE ListMappers(p)
  <2>1. pc' \in [Procs -> Labels0]
    BY <1>1 DEF ListMappers, Goto, ProcsOK, Labels0
  <2>2. todo' \in [Procs -> SUBSET Mapper]
    BY <1>1 DEF ListMappers, SweptBy, ProcsOK
  <2>3. KernelOK' /\ ProcsOK'
    BY <1>1, <2>1, <2>2 DEF ListMappers, ProcsOK, KernelOK, kernel
  <2>4. JobInv'
    BY <1>0, <1>1 DEF ListMappers, ProcsOK, JobInv, Goto, OpenLabels, WorkLabels
  <2> QED BY <2>3, <2>4
<1>2. CASE ExamineMapper(p)
  <2>1. PICK m \in todo[p] :
          \/ /\ Goto(p, "unshare")
             /\ cur' = [cur EXCEPT ![p] = m]
             /\ UNCHANGED todo
          \/ /\ todo' = [todo EXCEPT ![p] = @ \ {m}]
             /\ UNCHANGED <<pc, cur>>
    BY <1>2 DEF ExamineMapper
  <2>2. m \in Mapper
    BY DEF ProcsOK
  <2>3. pc' \in [Procs -> Labels0]
    BY <2>1 DEF Goto, ProcsOK, Labels0
  <2>4. KernelOK' /\ ProcsOK'
    <3>1. cur' \in [Procs -> Mapper \cup {NoMapper}]
      BY <2>1, <2>2 DEF ProcsOK
    <3>2. todo' \in [Procs -> SUBSET Mapper]
      <4>1. todo \in [Procs -> SUBSET Mapper] /\ todo[p] \ {m} \in SUBSET Mapper
        BY DEF ProcsOK
      <4>2. todo' = todo \/ todo' = [todo EXCEPT ![p] = @ \ {m}]
        BY <2>1
      <4> QED BY <4>1, <4>2
    <3>3. KernelOK' /\ UNCHANGED <<job, phase, root, seen, left, point, try, rc>>
      BY <1>2 DEF ExamineMapper, KernelOK, kernel
    <3> QED BY <2>3, <3>1, <3>2, <3>3 DEF ProcsOK
  <2>5. JobInv'
    BY <1>0, <1>2, <2>1, <2>2
    DEF ExamineMapper, ProcsOK, JobInv, Goto, OpenLabels, WorkLabels
  <2> QED BY <2>4, <2>5
<1>3. CASE EndSweep(p)
  <2>1. KernelOK'
    BY <1>3 DEF EndSweep, KernelOK, kernel
  <2>2. CASE Exit(p, 0)
    BY <2>1, <2>2, ExitTyping
  <2>3. CASE ~Exit(p, 0)
    <3>1. /\ job[p].op \in {"open", "close", "clear"}
          /\ job[p].op = "open" => job[p] \in OpenJobs
          /\ job[p].op # "clear" => <<job[p].user, job[p].device>> \in Mapper
      BY <1>0, <1>3, <2>3, JobsTyping DEF EndSweep, Mapper
    <3>2. PICK l \in {"mkdir", "close", "folders"} :
            /\ Goto(p, l)
            /\ l = "mkdir" => job[p] \in OpenJobs
            /\ l = "folders" => job[p].op = "clear"
            /\ l # "folders" => job[p].op # "clear"
      BY <1>3, <2>3, <3>1 DEF EndSweep, FirstStep
    <3>3. pc' \in [Procs -> Labels0]
      BY <3>2 DEF Goto, ProcsOK, Labels0
    <3>4. phase' \in [Procs -> {"sweep", "main", "dead"}] /\ root' \in [Procs -> BOOLEAN]
      BY <1>3, <2>3 DEF EndSweep, ProcsOK
    <3>5. cur' \in [Procs -> Mapper \cup {NoMapper}]
      <4>1. \E m \in Mapper \cup {NoMapper} : cur' = [cur EXCEPT ![p] = m]
        BY <1>3, <2>3, <3>1 DEF EndSweep
      <4> QED BY <4>1 DEF ProcsOK
    <3>6. seen' \in [Procs -> [Points -> Stacks]]
      <4>1. seen \in [Procs -> [Points -> Stacks]]
        BY DEF ProcsOK, Stacks
      <4>2. \E t \in {seen[p], NoMounts} : seen' = [seen EXCEPT ![p] = t]
        BY <1>3, <2>3 DEF EndSweep
      <4> QED BY <4>1, <4>2, StackTyping
    <3>7. ProcsOK'
      BY <1>3, <2>3, <3>3, <3>4, <3>5, <3>6 DEF EndSweep, ProcsOK, Stacks
    <3>8. cur'[p] \in Mapper \/ job[p].op = "clear"
      BY <1>3, <2>3, <3>1 DEF EndSweep, ProcsOK
    <3>9. JobInv'
      BY <1>0, <1>3, <2>3, <3>2, <3>8
      DEF EndSweep, ProcsOK, JobInv, Goto, OpenLabels, WorkLabels
    <3> QED BY <2>1, <3>7, <3>9
  <2> QED BY <2>2, <2>3
<1>4. CASE ListFolders(p)
  <2>1. pc' \in [Procs -> Labels0]
    BY <1>4 DEF ListFolders, Goto, ProcsOK, Labels0
  <2>2. left' \in [Procs -> SUBSET Points]
    BY <1>4 DEF ListFolders, ProcsOK, KernelOK
  <2>3. KernelOK' /\ ProcsOK'
    BY <1>4, <2>1, <2>2 DEF ListFolders, ProcsOK, KernelOK, kernel
  <2>4. JobInv'
    BY <1>0, <1>4 DEF ListFolders, ProcsOK, JobInv, Goto, OpenLabels, WorkLabels
  <2> QED BY <2>3, <2>4
<1>5. CASE RemoveFolder(p)
  <2>1. KernelOK'
    BY <1>5, KernelTyping DEF RemoveFolder, KernelOK
  <2>2. ProcsOK' /\ JobInv'
    BY <1>5 DEF RemoveFolder, ProcsOK, JobInv
  <2> QED BY <2>1, <2>2
<1>6. CASE ListMounted(p)
  <2>1. pc' \in [Procs -> Labels0]
    BY <1>6 DEF ListMounted, Goto, ProcsOK, Labels0
  <2>2. seen' \in [Procs -> [Points -> Stacks]] /\ todo' \in [Procs -> SUBSET Mapper]
    BY <1>6, StackTyping DEF ListMounted, ProcsOK, Stacks
  <2>3. KernelOK' /\ ProcsOK'
    BY <1>6, <2>1, <2>2 DEF ListMounted, ProcsOK, KernelOK, kernel, Stacks
  <2>4. JobInv'
    BY <1>0, <1>6 DEF ListMounted, ProcsOK, JobInv, Goto, OpenLabels, WorkLabels
  <2> QED BY <2>3, <2>4
<1>7. CASE NextMounted(p)
  <2>1. KernelOK'
    BY <1>7 DEF NextMounted, KernelOK, kernel
  <2>2. CASE Exit(p, 0)
    BY <2>1, <2>2, ExitTyping
  <2>3. CASE \E m \in todo[p] : /\ Goto(p, "entries")
                                /\ cur' = [cur EXCEPT ![p] = m]
                                /\ UNCHANGED <<job, phase, root, seen, todo, left, point, try, rc>>
    <3>1. pc' \in [Procs -> Labels0]
      BY <2>3 DEF Goto, ProcsOK, Labels0
    <3>2. ProcsOK'
      BY <2>3, <3>1 DEF ProcsOK
    <3>3. JobInv'
      BY <1>0, <2>3 DEF ProcsOK, JobInv, Goto, OpenLabels, WorkLabels
    <3> QED BY <2>1, <3>2, <3>3
  <2> QED BY <1>7, <2>2, <2>3 DEF NextMounted
<1> QED BY <1>1, <1>2, <1>3, <1>4, <1>5, <1>6, <1>7 DEF ClearStep

\* Processes start and end, devices come and go
LEMMA EnvironmentTyping ==
    ASSUME TypeOK, JobInv,
           \/ \E p \in Procs : Start(p) \/ Return(p) \/ Kill(p)
           \/ \E d \in Devices : Unplug(d) \/ Plug(d)
    PROVE  TypeOK' /\ JobInv'
<1> USE DEF TypeOK
<1>1. ASSUME NEW p \in Procs, Start(p)
      PROVE  TypeOK' /\ JobInv'
  <2>1. pc' \in [Procs -> Labels0]
    BY <1>1 DEF Start, Goto, ProcsOK, Labels0
  <2>2. KernelOK' /\ ProcsOK'
    <3>1. job' \in [Procs -> Jobs \cup {NoJob}]
      BY <1>1 DEF Start, ProcsOK
    <3>2. KernelOK' /\ UNCHANGED <<phase, root, seen, todo, left, cur, point, try, rc>>
      BY <1>1 DEF Start, KernelOK, kernel
    <3> QED BY <2>1, <3>1, <3>2 DEF ProcsOK
  <2>3. JobInv'
    BY <1>1 DEF Start, ProcsOK, JobInv, Goto, OpenLabels, WorkLabels
  <2> QED BY <2>2, <2>3
<1>2. ASSUME NEW p \in Procs, Vanish(p), UNCHANGED kernel, refused' \in SUBSET Mapper
      PROVE  TypeOK' /\ JobInv'
  <2>1. pc' \in [Procs -> Labels0]
    BY <1>2 DEF Vanish, Goto, ProcsOK, Labels0
  <2>2. seen' \in [Procs -> [Points -> Stacks]]
    BY <1>2, StackTyping DEF Vanish, ProcsOK, Stacks
  <2>3. try' \in [Procs -> 0 .. 3] /\ rc' \in [Procs -> Nat]
    <3>1. try \in [Procs -> 0 .. 3] /\ rc \in [Procs -> Nat] /\ 0 \in 0 .. 3 /\ 0 \in Nat
      BY DEF ProcsOK
    <3> QED BY <1>2, <3>1 DEF Vanish
  <2>4. KernelOK' /\ ProcsOK'
    BY <1>2, <2>1, <2>2, <2>3 DEF Vanish, ProcsOK, KernelOK, kernel, Stacks
  <2>5. JobInv'
    BY <1>2 DEF Vanish, ProcsOK, JobInv, Goto, OpenLabels, WorkLabels
  <2> QED BY <2>4, <2>5
<1>3. ASSUME NEW d \in Devices, Unplug(d)
      PROVE  TypeOK' /\ JobInv'
  BY <1>3 DEF Unplug, KernelOK, ProcsOK, JobInv, locals
<1>4. ASSUME NEW d \in Devices, Plug(d)
      PROVE  TypeOK' /\ JobInv'
  BY <1>4 DEF Plug, KernelOK, ProcsOK, JobInv, locals
<1> QED BY <1>1, <1>2, <1>3, <1>4 DEF Return, Kill, KernelOK, kernel

LEMMA InitTyping == Init => TypeOK /\ JobInv
<1> SUFFICES ASSUME Init PROVE TypeOK /\ JobInv
  OBVIOUS
<1>1. KernelOK
  BY StackTyping DEF Init, KernelOK, Stacks
<1>2. try \in [Procs -> 0 .. 3] /\ rc \in [Procs -> Nat]
  BY DEF Init
<1>3. pc \in [Procs -> Labels0]
  BY DEF Init, Labels0
<1>4. ProcsOK
  BY <1>2, <1>3, StackTyping DEF Init, ProcsOK, Stacks
<1>5. JobInv
  BY DEF Init, JobInv, OpenLabels, WorkLabels
<1> QED BY <1>1, <1>4, <1>5 DEF TypeOK

LEMMA NextTyping == TypeOK /\ JobInv /\ [Next]_vars => TypeOK' /\ JobInv'
<1> SUFFICES ASSUME TypeOK, JobInv, [Next]_vars PROVE TypeOK' /\ JobInv'
  OBVIOUS
<1>1. CASE \E p \in Procs : Step(p)
  BY <1>1, OpenTyping, CloseTyping, ClearTyping DEF Step
<1>2. CASE \E p \in Procs : Start(p) \/ Return(p) \/ Kill(p)
  BY <1>2, EnvironmentTyping
<1>3. CASE \E d \in Devices : Unplug(d) \/ Plug(d)
  BY <1>3, EnvironmentTyping
<1>4. CASE UNCHANGED vars
  BY <1>4 DEF vars, TypeOK, KernelOK, ProcsOK, JobInv
<1> QED BY <1>1, <1>2, <1>3, <1>4 DEF Next

\* The type of every variable is kept, for any users, devices and processes
THEOREM Typing == Spec => []TypeOK
<1>1. Spec => [](TypeOK /\ JobInv)
  BY InitTyping, NextTyping, PTL DEF Spec
<1> QED BY <1>1, PTL

-----------------------------------------------------------------------------
(* Private folders, when nobody runs --clear-dead-mount-points *)

\* Where m_point is a private folder, and where it has to be one
HoldInv ==
    \A p \in Procs :
        /\ pc[p] \in HoldLabels => point[p] \in PrivatePoints
        /\ point[p] \in PrivatePoints => pc[p] \in HoldLabels \cup {"lock", "rmpoint"}

\* Only volumes are mounted on private folders, plain folders never
VolumeInv == \A pt \in PrivatePoints : mounts[pt] # <<>> => Head(mounts[pt]) \in Mapper

FolderInv == TypeOK /\ JobInv /\ HoldInv /\ VolumeInv /\ PrivatePointsExclusive

\* what a step does to the private folders: nothing to those in "rest"
Same(rest) == \A pt \in rest : mounts'[pt] = mounts[pt] /\ (pt \in dirs' <=> pt \in dirs)
Keeps(p) == \A pt \in PrivatePoints : Holds(p, pt)' <=> Holds(p, pt)
Drops(p) == \A pt \in PrivatePoints : ~Holds(p, pt)'
OthersKeep(p) == \A q \in Procs \ {p} : Keeps(q)

Nothing == Same(PrivatePoints) /\ \A q \in Procs : Keeps(q)
Forgets(p) == Same(PrivatePoints) /\ OthersKeep(p) /\ Drops(p)
Takes(p, pt) ==
    /\ pt \notin dirs /\ pt \in dirs' /\ mounts'[pt] = mounts[pt]
    /\ Same(PrivatePoints \ {pt}) /\ OthersKeep(p)
    /\ \A r \in PrivatePoints : ~Holds(p, r) /\ (Holds(p, r)' <=> r = pt)
Frees(p, pt) ==
    /\ Holds(p, pt) /\ pt \notin dirs' /\ mounts'[pt] = mounts[pt]
    /\ Same(PrivatePoints \ {pt}) /\ OthersKeep(p) /\ Drops(p)
Gives(p, pt) ==
    /\ Holds(p, pt) /\ pt \in dirs'
    /\ \E m \in Mapper : mounts'[pt] = <<m>> \o mounts[pt]
    /\ Same(PrivatePoints \ {pt}) /\ OthersKeep(p) /\ Drops(p)
TakesBack(p, pt) ==
    /\ mounts[pt] # <<>> /\ mounts'[pt] = Tail(mounts[pt]) /\ pt \in dirs'
    /\ Same(PrivatePoints \ {pt}) /\ OthersKeep(p)
    /\ \A r \in PrivatePoints : ~Holds(p, r) /\ (Holds(p, r)' <=> r = pt)
Disowns(pt) ==
    /\ mounts[pt] # <<>> /\ mounts'[pt] = Tail(mounts[pt]) /\ pt \in dirs'
    /\ Same(PrivatePoints \ {pt}) /\ \A q \in Procs : Keeps(q)

FolderStep(p) ==
    \/ Nothing \/ Forgets(p)
    \/ \E pt \in PrivatePoints : \/ Takes(p, pt) \/ Frees(p, pt) \/ Gives(p, pt)
                                \/ TakesBack(p, pt) \/ Disowns(pt)

\* a step that leaves the folders alone and forgets m_point
LEMMA ExitForgets ==
    ASSUME TypeOK, HoldInv, NEW p \in Procs, NEW code, Exit(p, code) \/ Leave(p, code),
           Same(PrivatePoints)
    PROVE  Forgets(p) /\ HoldInv'
<1>1. point' = [point EXCEPT ![p] = NoPoint]
  BY DEF Exit, Leave
<1>2. PICK l \in {"done", "scan", "dead"} : pc' = [pc EXCEPT ![p] = l]
  BY DEF Exit, Leave, Goto
<1>3. NoPoint \notin PrivatePoints
  BY PathsAreDistinct DEF Points
<1>4. Forgets(p)
  BY <1>1, <1>3 DEF Forgets, OthersKeep, Keeps, Drops, Holds, TypeOK, ProcsOK
<1>5. HoldInv'
  BY <1>1, <1>2, <1>3 DEF HoldInv, HoldLabels, TypeOK, ProcsOK
<1> QED BY <1>4, <1>5

\* Removing a folder that is not a private one leaves those alone
LEMMA PublicRmdir ==
    ASSUME NEW pt, pt \notin PrivatePoints, Rmdir(pt), UNCHANGED mounts
    PROVE  Same(PrivatePoints)
BY DEF Rmdir, Same

\* What a process does with a folder it holds: it is empty, so rmdir() works
LEMMA UndoFrees ==
    ASSUME FolderInv, NEW p \in Procs, Rmdir(point[p]), UNCHANGED mounts,
           NEW code, Exit(p, code) \/ Leave(p, code)
    PROVE  FolderStep(p) /\ HoldInv'
<1>1. point' = [point EXCEPT ![p] = NoPoint]
  BY DEF Exit, Leave
<1>2. PICK l \in {"done", "scan", "dead"} : pc' = [pc EXCEPT ![p] = l]
  BY DEF Exit, Leave, Goto
<1>3. NoPoint \notin PrivatePoints
  BY PathsAreDistinct DEF Points
<1>4. HoldInv'
  BY <1>1, <1>2, <1>3 DEF HoldInv, HoldLabels, FolderInv, TypeOK, ProcsOK
<1>5. Drops(p) /\ OthersKeep(p)
  BY <1>1, <1>3 DEF OthersKeep, Keeps, Drops, Holds, FolderInv, TypeOK, ProcsOK
<1>6. CASE point[p] \in PrivatePoints
  <2>1. Holds(p, point[p]) /\ point[p] \in dirs /\ mounts[point[p]] = <<>>
    BY <1>6 DEF Holds, FolderInv, PrivatePointsExclusive
  <2>2. dirs' = dirs \ {point[p]}
    BY <2>1 DEF Rmdir
  <2>3. Frees(p, point[p])
    BY <1>5, <2>1, <2>2 DEF Frees, Same
  <2> QED BY <1>4, <1>6, <2>3 DEF FolderStep
<1>7. CASE point[p] \notin PrivatePoints
  BY <1>4, <1>5, <1>7, PublicRmdir DEF FolderStep, Forgets
<1> QED BY <1>6, <1>7

LEMMA OpenFolders ==
    ASSUME FolderInv, NEW p \in Procs, OpenStep(p)
    PROVE  FolderStep(p) /\ HoldInv'
<1> USE DEF FolderInv, TypeOK
<1>0. pc[p] \in OpenLabels /\ Folder(p) \in PrivatePoints
      /\ Public(job[p].name) \notin PrivatePoints /\ NoPoint \notin PrivatePoints
  <2>1. pc[p] \in OpenLabels
    BY DEF OpenStep, CreateMountPoint, CheckSharedPath, CheckMapper, GetKey, Unlock, Mount,
           CloseMapperAgain, Undo, Share, BindMount, OpenLabels
  <2> QED BY <2>1, OpenPaths, PathsAreDistinct DEF Points
<1>1. CASE CreateMountPoint(p)
  <2>1. CASE \E code : Exit(p, code) /\ UNCHANGED dirs
    <3>1. Same(PrivatePoints)
      BY <1>1, <2>1 DEF CreateMountPoint, Same
    <3> QED BY <2>1, <3>1, ExitForgets DEF FolderStep
  <2>2. CASE /\ Folder(p) \notin dirs
             /\ dirs' = dirs \cup {Folder(p)}
             /\ point' = [point EXCEPT ![p] = Folder(p)]
             /\ \E l \in {"taken", "stat"} : Goto(p, l)
    <3>1. \A r \in PrivatePoints : ~Holds(p, r)
      BY <1>1 DEF CreateMountPoint, Holds, HoldInv, HoldLabels
    <3>2. OthersKeep(p) /\ \A r \in PrivatePoints : Holds(p, r)' <=> r = Folder(p)
      BY <2>2 DEF OthersKeep, Keeps, Holds, ProcsOK
    <3>3. Takes(p, Folder(p))
      BY <1>0, <1>1, <2>2, <3>1, <3>2 DEF Takes, Same, CreateMountPoint
    <3>4. HoldInv'
      BY <1>0, <2>2 DEF HoldInv, HoldLabels, Goto, ProcsOK
    <3> QED BY <1>0, <3>3, <3>4 DEF FolderStep
  <2> QED BY <1>1, <2>1, <2>2 DEF CreateMountPoint
<1>2. CASE CheckSharedPath(p) \/ CheckMapper(p) \/ GetKey(p) \/ Unlock(p) \/ CloseMapperAgain(p)
  <2>1. Nothing
    BY <1>2 DEF CheckSharedPath, CheckMapper, GetKey, Unlock, CloseMapperAgain, kernel,
                Nothing, Same, Keeps, Holds
  <2>2. pc[p] \in HoldLabels
    BY <1>2 DEF CheckSharedPath, CheckMapper, GetKey, Unlock, CloseMapperAgain, HoldLabels
  <2>3. UNCHANGED point /\ \E l \in HoldLabels : Goto(p, l)
    BY <1>2 DEF CheckSharedPath, CheckMapper, GetKey, Unlock, CloseMapperAgain, NextAttempt,
                Fail, HoldLabels
  <2>4. HoldInv'
    BY <2>2, <2>3 DEF HoldInv, HoldLabels, Goto, ProcsOK
  <2> QED BY <2>1, <2>4 DEF FolderStep
<1>3. CASE Mount(p)
  <2>1. Holds(p, point[p])
    BY <1>3 DEF Mount, Holds, HoldInv, HoldLabels
  <2>2. CASE /\ MountOn(point[p], cur[p]) /\ UNCHANGED dirs
             /\ point' = [point EXCEPT ![p] = NoPoint]
             /\ \E l \in {"bind", "done"} : Goto(p, l)
    <3>1. cur[p] \in Mapper /\ point[p] \in PrivatePoints /\ point[p] \in dirs
      BY <1>0, <2>1 DEF JobInv, WorkLabels, Holds, PrivatePointsExclusive
    <3>2. mounts'[point[p]] = <<cur[p]>> \o mounts[point[p]]
      BY <2>2, <3>1 DEF MountOn, KernelOK, Points
    <3>3. Same(PrivatePoints \ {point[p]})
      BY <2>2 DEF MountOn, KernelOK, Points, Same
    <3>4. Drops(p) /\ OthersKeep(p)
      BY <1>0, <2>2 DEF OthersKeep, Keeps, Drops, Holds, ProcsOK
    <3>5. Gives(p, point[p])
      BY <2>1, <2>2, <3>1, <3>2, <3>3, <3>4 DEF Gives
    <3>6. HoldInv'
      BY <1>0, <2>2 DEF HoldInv, HoldLabels, Goto, ProcsOK
    <3> QED BY <3>1, <3>5, <3>6 DEF FolderStep
  <2>3. CASE Goto(p, "abort") /\ UNCHANGED <<point, mounts, dirs>>
    <3>1. Nothing
      BY <2>3 DEF Nothing, Same, Keeps, Holds
    <3>2. HoldInv'
      BY <1>3, <2>3 DEF Mount, HoldInv, HoldLabels, Goto, ProcsOK
    <3> QED BY <3>1, <3>2 DEF FolderStep
  <2> QED BY <1>3, <2>2, <2>3 DEF Mount, Exit
<1>4. CASE Undo(p)
  BY <1>4, UndoFrees DEF Undo
<1>5. CASE Share(p)
  <2>1. Same(PrivatePoints)
    BY <1>0, <1>5 DEF Share, Same
  <2>2. CASE Exit(p, 0)
    BY <2>1, <2>2, ExitForgets DEF FolderStep
  <2>3. CASE ~Exit(p, 0)
    <3>1. Goto(p, "bindmount") /\ (UNCHANGED point \/ point' = [point EXCEPT ![p] = Public(job[p].name)])
      BY <1>5, <2>3 DEF Share
    <3>2. point[p] \notin PrivatePoints
      BY <1>5 DEF Share, HoldInv, HoldLabels
    <3>3. \A q \in Procs : Keeps(q)
      BY <1>0, <3>1, <3>2 DEF Keeps, Holds, ProcsOK
    <3>4. HoldInv'
      BY <1>0, <3>1, <3>2 DEF HoldInv, HoldLabels, Goto, ProcsOK
    <3> QED BY <2>1, <3>3, <3>4 DEF FolderStep, Nothing
  <2> QED BY <2>2, <2>3
<1>6. CASE BindMount(p)
  <2>1. Same(PrivatePoints)
    BY <1>0, <1>6 DEF BindMount, Same, MountOn, Rmdir, KernelOK, Points
  <2> QED BY <1>6, <2>1, ExitForgets DEF FolderStep, BindMount
<1> QED BY <1>1, <1>2, <1>3, <1>4, <1>5, <1>6 DEF OpenStep

\* An unmounted private folder is left empty: nothing is mounted there twice
LEMMA UnmountPrivate ==
    ASSUME FolderInv, NEW pt \in Points, UmountTop(pt), UNCHANGED dirs
    PROVE  /\ Same(PrivatePoints \ {pt})
           /\ mounts[pt] # <<>> /\ mounts'[pt] = Tail(mounts[pt])
           /\ pt \in PrivatePoints => pt \in dirs' /\ \A q \in Procs : ~Holds(q, pt)
BY DEF FolderInv, TypeOK, KernelOK, UmountTop, Same, Points, PrivatePointsExclusive

LEMMA CloseFolders ==
    ASSUME FolderInv, NEW p \in Procs, CloseStep(p)
    PROVE  FolderStep(p) /\ HoldInv'
<1> USE DEF FolderInv, TypeOK
<1>0. NoPoint \notin PrivatePoints /\ \A n : Public(n) \notin PrivatePoints
  <2>1. NoPoint \notin PrivatePoints
    BY PathsAreDistinct DEF Points
  <2>2. ASSUME NEW n, Public(n) \in PrivatePoints PROVE FALSE
    <3>1. \A pt \in PrivatePoints : pt.kind = "private"
      BY DEF PrivatePoints, Private
    <3> QED BY <2>2, <3>1 DEF Public
  <2> QED BY <2>1, <2>2
<1>1. CASE Close(p)
  <2>1. Same(PrivatePoints)
    BY <1>1 DEF Close, Same, kernel
  <2>2. CASE Exit(p, 1)
    BY <2>1, <2>2, ExitForgets DEF FolderStep
  <2>3. CASE Goto(p, "unshare") /\ UNCHANGED point
    <3>1. Nothing
      BY <2>1, <2>3 DEF Nothing, Keeps, Holds
    <3>2. HoldInv'
      BY <1>1, <2>3 DEF Close, HoldInv, HoldLabels, Goto, ProcsOK
    <3> QED BY <3>1, <3>2 DEF FolderStep
  <2> QED BY <1>1, <2>2, <2>3 DEF Close
<1>2. CASE Unshare(p)
  <2>1. point[p] \notin PrivatePoints
    BY <1>2 DEF Unshare, HoldInv, HoldLabels
  <2>2. Same(PrivatePoints)
    BY <1>0, <1>2 DEF Unshare, Same, UmountTop, KernelOK, Points
  <2>3. CASE \E code : Exit(p, code)
    BY <2>2, <2>3, ExitForgets DEF FolderStep
  <2>4. CASE /\ \E l \in {"entries", "scan", "rmshare"} : Goto(p, l)
             /\ \/ UNCHANGED point
                \/ \E n : point' = [point EXCEPT ![p] = Public(n)]
    <3>1. Nothing
      BY <1>0, <2>1, <2>2, <2>4 DEF Nothing, Keeps, Holds, ProcsOK
    <3>2. HoldInv'
      BY <1>0, <2>1, <2>4 DEF HoldInv, HoldLabels, Goto, ProcsOK
    <3> QED BY <3>1, <3>2 DEF FolderStep
  <2> QED BY <1>2, <2>3, <2>4 DEF Unshare, Proceed, GiveUp
<1>3. CASE RemoveShare(p)
  <2>1. point[p] \notin PrivatePoints
    BY <1>3 DEF RemoveShare, HoldInv, HoldLabels
  <2>2. Same(PrivatePoints)
    BY <1>3, <2>1, PublicRmdir DEF RemoveShare
  <2>3. Nothing
    BY <1>0, <1>3, <2>1, <2>2 DEF RemoveShare, Nothing, Keeps, Holds, ProcsOK
  <2>4. HoldInv'
    BY <1>0, <1>3, <2>1 DEF RemoveShare, HoldInv, HoldLabels, Goto, ProcsOK
  <2> QED BY <2>3, <2>4 DEF FolderStep
<1>4. CASE ListEntries(p)
  <2>1. Same(PrivatePoints)
    BY <1>4 DEF ListEntries, Same, kernel
  <2>2. CASE \E code : Leave(p, code)
    BY <2>1, <2>2, ExitForgets DEF FolderStep
  <2>3. CASE UNCHANGED point /\ \E l \in {"lock", "umount"} : Goto(p, l)
    <3>1. Nothing
      BY <2>1, <2>3 DEF Nothing, Keeps, Holds
    <3>2. HoldInv'
      BY <1>4, <2>3 DEF ListEntries, HoldInv, HoldLabels, Goto, ProcsOK
    <3> QED BY <3>1, <3>2 DEF FolderStep
  <2> QED BY <1>4, <2>2, <2>3 DEF ListEntries
<1>5. CASE UnmountOther(p)
  <2>1. CASE \E code : Leave(p, code) /\ UNCHANGED <<mounts, dirs>>
    <3>1. Same(PrivatePoints)
      BY <2>1 DEF Same
    <3> QED BY <2>1, <3>1, ExitForgets DEF FolderStep
  <2>2. CASE \E pt \in left[p] : UmountTop(pt) /\ UNCHANGED <<dirs, point, pc>>
    <3>1. PICK pt \in Points : UmountTop(pt) /\ UNCHANGED <<dirs, point, pc>>
      BY <2>2 DEF ProcsOK
    <3>2. \A q \in Procs : Keeps(q)
      BY <3>1 DEF Keeps, Holds
    <3>3. CASE pt \in PrivatePoints
      BY <3>1, <3>2, <3>3, UnmountPrivate DEF FolderStep, Disowns, HoldInv
    <3>4. CASE pt \notin PrivatePoints
      BY <3>1, <3>2, <3>4, UnmountPrivate DEF FolderStep, Nothing, Same, HoldInv
    <3> QED BY <3>3, <3>4
  <2> QED BY <1>5, <2>1, <2>2 DEF UnmountOther
<1>6. CASE UnmountLast(p)
  <2>1. CASE \E code : Leave(p, code) /\ UNCHANGED <<mounts, dirs>>
    <3>1. Same(PrivatePoints)
      BY <2>1 DEF Same
    <3> QED BY <2>1, <3>1, ExitForgets DEF FolderStep
  <2>2. CASE \E pt \in Points, l \in {"rmpoint", "lock"} :
               /\ UmountTop(pt) /\ UNCHANGED dirs /\ Goto(p, l)
               /\ point' = [point EXCEPT ![p] = pt]
    <3>1. PICK pt \in Points, l \in {"rmpoint", "lock"} :
               /\ UmountTop(pt) /\ UNCHANGED dirs /\ Goto(p, l)
               /\ point' = [point EXCEPT ![p] = pt]
      BY <2>2
    <3>2. \A r \in PrivatePoints : ~Holds(p, r)
      BY <1>6 DEF UnmountLast, Holds, HoldInv, HoldLabels
    <3>3. OthersKeep(p) /\ \A r \in PrivatePoints : Holds(p, r)' <=> r = pt
      BY <3>1 DEF OthersKeep, Keeps, Holds, ProcsOK
    <3>4. HoldInv'
      BY <3>1 DEF HoldInv, HoldLabels, Goto, ProcsOK
    <3>5. CASE pt \in PrivatePoints
      BY <3>1, <3>2, <3>3, <3>4, <3>5, UnmountPrivate DEF FolderStep, TakesBack
    <3>6. CASE pt \notin PrivatePoints
      <4>1. \A q \in Procs : Keeps(q)
        BY <3>2, <3>3, <3>6 DEF OthersKeep, Keeps
      <4>2. Same(PrivatePoints)
        BY <3>1, <3>6, UnmountPrivate DEF Same
      <4> QED BY <3>4, <4>1, <4>2 DEF FolderStep, Nothing
    <3> QED BY <3>5, <3>6
  <2> QED BY <1>6, <2>1, <2>2 DEF UnmountLast
<1>7. CASE Lock(p)
  <2>1. Same(PrivatePoints)
    BY <1>7 DEF Lock, Same
  <2>2. CASE \E code : Leave(p, code)
    BY <2>1, <2>2, ExitForgets DEF FolderStep
  <2>3. CASE Goto(p, "rmpoint") /\ UNCHANGED point
    <3>1. Nothing
      BY <2>1, <2>3 DEF Nothing, Keeps, Holds
    <3>2. HoldInv'
      BY <1>7, <2>3 DEF Lock, HoldInv, HoldLabels, Goto, ProcsOK
    <3> QED BY <3>1, <3>2 DEF FolderStep
  <2> QED BY <1>7, <2>2, <2>3 DEF Lock
<1>8. CASE RemoveMountPoint(p)
  BY <1>8, UndoFrees DEF RemoveMountPoint
<1> QED BY <1>1, <1>2, <1>3, <1>4, <1>5, <1>6, <1>7, <1>8 DEF CloseStep

LEMMA ClearFolders ==
    ASSUME FolderInv, "clear" \notin Ops, NEW p \in Procs, ClearStep(p)
    PROVE  FolderStep(p) /\ HoldInv'
<1> USE DEF FolderInv, TypeOK
<1>0. job[p] \in Jobs /\ job[p].op # "clear" /\ pc[p] \notin {"folders", "rmdirs"}
  BY JobsTyping DEF ClearStep, ListMappers, ExamineMapper, EndSweep, ListFolders,
         RemoveFolder, ListMounted, NextMounted, JobInv
<1>1. Same(PrivatePoints)
  BY <1>0 DEF ClearStep, ListMappers, ExamineMapper, EndSweep, ListFolders, RemoveFolder,
              ListMounted, NextMounted, Same, kernel
<1>2. CASE \E code : Exit(p, code)
  BY <1>1, <1>2, ExitForgets DEF FolderStep
<1>3. CASE /\ pc[p] \in {"sweep", "scan", "dead"} /\ UNCHANGED point
           /\ \/ UNCHANGED pc
              \/ \E l \in {"scan", "unshare", "mkdir", "close", "entries"} : Goto(p, l)
  <2>1. Nothing
    BY <1>1, <1>3 DEF Nothing, Keeps, Holds
  <2>2. HoldInv'
    BY <1>3 DEF HoldInv, HoldLabels, Goto, ProcsOK
  <2> QED BY <2>1, <2>2 DEF FolderStep
<1>4. job[p].op # "sweep" => FirstStep[job[p].op] \in {"mkdir", "close"}
  BY <1>0, JobsTyping DEF FirstStep
<1> QED
  BY <1>0, <1>2, <1>3, <1>4 DEF ClearStep, ListMappers, ExamineMapper, EndSweep,
     ListFolders, RemoveFolder, ListMounted, NextMounted

\* A process that starts has no m_point, one that is gone has forgotten it
LEMMA EnvironmentFolders ==
    ASSUME FolderInv, NEW p \in Procs, Start(p) \/ Return(p) \/ Kill(p)
    PROVE  FolderStep(p) /\ HoldInv'
<1> USE DEF FolderInv, TypeOK
<1>0. NoPoint \notin PrivatePoints
  BY PathsAreDistinct DEF Points
<1>1. Same(PrivatePoints)
  BY DEF Start, Return, Kill, kernel, Same
<1>2. CASE Start(p)
  <2>1. Nothing
    BY <1>1, <1>2 DEF Start, Nothing, Keeps, Holds
  <2>2. HoldInv'
    BY <1>2 DEF Start, HoldInv, HoldLabels, Goto, ProcsOK
  <2> QED BY <2>1, <2>2 DEF FolderStep
<1>3. CASE Vanish(p)
  <2>1. Forgets(p)
    BY <1>0, <1>1, <1>3 DEF Vanish, Forgets, OthersKeep, Keeps, Drops, Holds, ProcsOK
  <2>2. HoldInv'
    BY <1>0, <1>3 DEF Vanish, HoldInv, HoldLabels, Goto, ProcsOK
  <2> QED BY <2>1, <2>2 DEF FolderStep
<1> QED BY <1>2, <1>3 DEF Return, Kill

\* Every step is one of those that FolderStep lists
LEMMA StepsOnFolders ==
    ASSUME FolderInv, "clear" \notin Ops, [Next]_vars
    PROVE  HoldInv' /\ (Nothing \/ \E p \in Procs : FolderStep(p))
<1>1. CASE \E p \in Procs : Step(p)
  BY <1>1, OpenFolders, CloseFolders, ClearFolders DEF Step
<1>2. CASE \E p \in Procs : Start(p) \/ Return(p) \/ Kill(p)
  BY <1>2, EnvironmentFolders
<1>3. CASE (\E d \in Devices : Unplug(d) \/ Plug(d)) \/ UNCHANGED vars
  <2>1. UNCHANGED <<dirs, mounts, point, pc>>
    BY <1>3 DEF Unplug, Plug, locals, vars
  <2> QED BY <2>1 DEF Nothing, Same, Keeps, Holds, HoldInv, FolderInv
<1> QED BY <1>1, <1>2, <1>3 DEF Next

\* Stacks of at most one mount
LEMMA ShortStacks ==
    ASSUME NEW s \in Stacks, Len(s) <= 1
    PROVE  /\ s # <<>> => Tail(s) = <<>>
           /\ s = <<>> => \A m \in Mapper : /\ Len(<<m>> \o s) <= 1 /\ <<m>> \o s # <<>>
                                           /\ Head(<<m>> \o s) = m
BY DEF Stacks

LEMMA FolderStepKeepsInv ==
    ASSUME FolderInv, TypeOK', NEW p \in Procs, FolderStep(p)
    PROVE  VolumeInv' /\ PrivatePointsExclusive'
<1>0. \A pt \in PrivatePoints : mounts[pt] \in Stacks /\ Len(mounts[pt]) <= 1
  BY DEF FolderInv, TypeOK, KernelOK, Stacks, Points, PrivatePointsExclusive
<1>1. CASE Nothing \/ Forgets(p)
  <2>1. Same(PrivatePoints) /\ \A q \in Procs : Keeps(q) \/ Drops(q)
    BY <1>1 DEF Nothing, Forgets, OthersKeep
  <2> QED BY <2>1 DEF Same, Keeps, Drops, Holds, FolderInv, VolumeInv, PrivatePointsExclusive
<1>2. ASSUME NEW pt \in PrivatePoints, Takes(p, pt)
      PROVE  VolumeInv' /\ PrivatePointsExclusive'
  BY <1>2 DEF Takes, Same, OthersKeep, Keeps, Holds, FolderInv, VolumeInv, PrivatePointsExclusive
<1>3. ASSUME NEW pt \in PrivatePoints, Frees(p, pt)
      PROVE  VolumeInv' /\ PrivatePointsExclusive'
  BY <1>3 DEF Frees, Same, OthersKeep, Keeps, Drops, Holds, FolderInv, VolumeInv,
              PrivatePointsExclusive
<1>4. ASSUME NEW pt \in PrivatePoints, Gives(p, pt)
      PROVE  VolumeInv' /\ PrivatePointsExclusive'
  <2>1. mounts[pt] = <<>> /\ Head(mounts'[pt]) \in Mapper /\ Len(mounts'[pt]) <= 1
    BY <1>0, <1>4, ShortStacks DEF Gives, FolderInv, PrivatePointsExclusive
  <2>2. VolumeInv' /\ \A r \in PrivatePoints : Len(mounts'[r]) <= 1
    BY <1>0, <1>4, <2>1 DEF Gives, Same, FolderInv, VolumeInv
  <2>3. \A r \in PrivatePoints : mounts'[r] # <<>> => r \in dirs'
    BY <1>4 DEF Gives, Same, FolderInv, PrivatePointsExclusive
  <2>4. \A q \in Procs, r \in PrivatePoints :
           Holds(q, r)' => q # p /\ r # pt /\ Holds(q, r)
    BY <1>4 DEF Gives, OthersKeep, Keeps, Drops, FolderInv, PrivatePointsExclusive
  <2>5. \A q \in Procs, r \in PrivatePoints :
           Holds(q, r)' => /\ r \in dirs' /\ mounts'[r] = <<>>
                           /\ \A o \in Procs \ {q} : ~Holds(o, r)'
    BY <1>4, <2>4 DEF Gives, Same, FolderInv, PrivatePointsExclusive
  <2> QED BY <2>2, <2>3, <2>5 DEF PrivatePointsExclusive
<1>5. ASSUME NEW pt \in PrivatePoints, TakesBack(p, pt)
      PROVE  VolumeInv' /\ PrivatePointsExclusive'
  <2>1. mounts'[pt] = <<>> /\ \A q \in Procs : ~Holds(q, pt)
    BY <1>0, <1>5, ShortStacks DEF TakesBack, FolderInv, PrivatePointsExclusive
  <2> QED BY <1>5, <2>1 DEF TakesBack, Same, OthersKeep, Keeps, Holds, FolderInv, VolumeInv,
                            PrivatePointsExclusive
<1>6. ASSUME NEW pt \in PrivatePoints, Disowns(pt)
      PROVE  VolumeInv' /\ PrivatePointsExclusive'
  <2>1. mounts'[pt] = <<>> /\ \A q \in Procs : ~Holds(q, pt)
    BY <1>0, <1>6, ShortStacks DEF Disowns, FolderInv, PrivatePointsExclusive
  <2> QED BY <1>6, <2>1 DEF Disowns, Same, Keeps, Holds, FolderInv, VolumeInv,
                            PrivatePointsExclusive
<1> QED BY <1>1, <1>2, <1>3, <1>4, <1>5, <1>6 DEF FolderStep

LEMMA InitFolders == Init => HoldInv /\ VolumeInv /\ PrivatePointsExclusive
<1> SUFFICES ASSUME Init PROVE HoldInv /\ VolumeInv /\ PrivatePointsExclusive
  OBVIOUS
<1>1. \A pt \in PrivatePoints : mounts[pt] = <<>>
  BY DEF Init, NoMounts, Points
<1>2. \A p \in Procs : point[p] \notin PrivatePoints /\ pc[p] = "idle"
  BY PathsAreDistinct DEF Init, Points
<1>3. \A p \in Procs, pt \in PrivatePoints : ~Holds(p, pt)
  BY <1>2 DEF Holds
<1> QED BY <1>1, <1>2, <1>3 DEF HoldInv, HoldLabels, VolumeInv, PrivatePointsExclusive

LEMMA NextFolders ==
    ASSUME "clear" \notin Ops
    PROVE  FolderInv /\ [Next]_vars => FolderInv'
<1> SUFFICES ASSUME FolderInv, [Next]_vars PROVE FolderInv'
  OBVIOUS
<1>1. TypeOK' /\ JobInv'
  BY NextTyping DEF FolderInv
<1>2. HoldInv'
  BY StepsOnFolders
<1>3. VolumeInv' /\ PrivatePointsExclusive'
  <2>1. CASE Nothing
    BY <2>1 DEF Nothing, Same, Keeps, Holds, FolderInv, VolumeInv, PrivatePointsExclusive
  <2>2. CASE \E p \in Procs : FolderStep(p)
    BY <1>1, <2>2, FolderStepKeepsInv
  <2> QED BY <2>1, <2>2, StepsOnFolders
<1> QED BY <1>1, <1>2, <1>3 DEF FolderInv

\* However many processes run, a private folder is one process's or one
\* volume's: _create_path_0() needs no lock but mkdir()
THEOREM Exclusive ==
    ASSUME "clear" \notin Ops
    PROVE  Spec => []PrivatePointsExclusive
<1>1. Init => FolderInv
  BY InitTyping, InitFolders DEF FolderInv
<1>2. FolderInv => PrivatePointsExclusive
  BY DEF FolderInv
<1> QED BY <1>1, <1>2, NextFolders, PTL DEF Spec

-----------------------------------------------------------------------------
(* The processes implement MountPoints *)

LEMMA Owners ==
    ASSUME PrivatePointsExclusive, NEW pt \in PrivatePoints
    PROVE  /\ pt \notin dirs => OwnerOf(pt) = Names0!Free
           /\ mounts[pt] # <<>> => OwnerOf(pt) = Names0!Volume(Head(mounts[pt]))
           /\ \A p \in Procs : Holds(p, pt) => OwnerOf(pt) = Names0!Process(p)
           /\ (pt \in dirs /\ mounts[pt] = <<>> /\ \A p \in Procs : ~Holds(p, pt))
                => OwnerOf(pt) = Names0!Left
<1>1. ASSUME NEW p \in Procs, Holds(p, pt)
      PROVE  OwnerOf(pt) = Names0!Process(p)
  <2>1. pt \in dirs /\ mounts[pt] = <<>> /\ \A q \in Procs : Holds(q, pt) => q = p
    BY <1>1 DEF PrivatePointsExclusive
  <2>2. (CHOOSE q \in Procs : Holds(q, pt)) = p
    BY <1>1, <2>1
  <2> QED BY <1>1, <2>1, <2>2 DEF OwnerOf, Names0!Process
<1> QED BY <1>1 DEF PrivatePointsExclusive, OwnerOf, Names0!Free, Names0!Volume, Names0!Left

LEMMA OwnersNext ==
    ASSUME PrivatePointsExclusive', NEW pt \in PrivatePoints
    PROVE  /\ pt \notin dirs' => OwnerOf(pt)' = Names0!Free
           /\ mounts'[pt] # <<>> => OwnerOf(pt)' = Names0!Volume(Head(mounts'[pt]))
           /\ \A p \in Procs : Holds(p, pt)' => OwnerOf(pt)' = Names0!Process(p)
           /\ (pt \in dirs' /\ mounts'[pt] = <<>> /\ \A p \in Procs : ~Holds(p, pt)')
                => OwnerOf(pt)' = Names0!Left
<1>1. ASSUME NEW p \in Procs, Holds(p, pt)'
      PROVE  OwnerOf(pt)' = Names0!Process(p)
  <2>1. pt \in dirs' /\ mounts'[pt] = <<>> /\ \A q \in Procs : Holds(q, pt)' => q = p
    BY <1>1 DEF PrivatePointsExclusive
  <2>2. (CHOOSE q \in Procs : Holds(q, pt)') = p
    BY <1>1, <2>1
  <2> QED BY <1>1, <2>1, <2>2 DEF OwnerOf, Names0!Process
<1> QED BY <1>1 DEF PrivatePointsExclusive, OwnerOf, Names0!Free, Names0!Volume, Names0!Left

\* A folder the step leaves alone keeps its owner
LEMMA OwnerStays ==
    ASSUME FolderInv, FolderInv', NEW r \in PrivatePoints, Same({r}),
           \A q \in Procs : Holds(q, r)' <=> Holds(q, r)
    PROVE  OwnerOf(r)' = OwnerOf(r)
<1>1. PrivatePointsExclusive /\ PrivatePointsExclusive'
  BY DEF FolderInv
<1>2. mounts'[r] = mounts[r] /\ (r \in dirs' <=> r \in dirs)
  BY DEF Same
<1> QED BY <1>1, <1>2, Owners, OwnersNext

\* A step that changes the owner of one folder is a step of the contract
LEMMA OwnerChange ==
    ASSUME NEW pt \in PrivatePoints, NEW from, NEW to,
           OwnerOf(pt) = from, OwnerOf(pt)' = to,
           \A r \in PrivatePoints \ {pt} : OwnerOf(r)' = OwnerOf(r)
    PROVE  Names0!Change(pt, from, to)
BY DEF Owner, Names0!Change

LEMMA ContractStep ==
    ASSUME FolderInv, FolderInv', NEW p \in Procs, FolderStep(p)
    PROVE  [Names0!Next]_Owner
<1>0. PrivatePointsExclusive /\ PrivatePointsExclusive' /\ VolumeInv
  BY DEF FolderInv
<1>1. CASE Nothing
  <2>1. \A r \in PrivatePoints : OwnerOf(r)' = OwnerOf(r)
    BY <1>1, OwnerStays DEF Nothing, Same, Keeps
  <2> QED BY <2>1 DEF Owner
<1>2. CASE Forgets(p)
  <2>1. CASE \E pt \in PrivatePoints : Holds(p, pt)
    <3>1. PICK pt \in PrivatePoints : Holds(p, pt)
      BY <2>1
    <3>2. \A r \in PrivatePoints \ {pt} : ~Holds(p, r)
      BY <3>1 DEF Holds
    <3>3. \A r \in PrivatePoints \ {pt} : OwnerOf(r)' = OwnerOf(r)
      BY <1>2, <3>2, OwnerStays DEF Forgets, Same, OthersKeep, Keeps, Drops
    <3>4. OwnerOf(pt) = Names0!Process(p)
      BY <1>0, <3>1, Owners
    <3>5. OwnerOf(pt)' = Names0!Left
      <4>1. pt \in dirs' /\ mounts'[pt] = <<>>
        BY <1>0, <1>2, <3>1 DEF Forgets, Same, PrivatePointsExclusive
      <4>2. \A q \in Procs : ~Holds(q, pt)'
        BY <1>0, <1>2, <3>1 DEF Forgets, OthersKeep, Keeps, Drops, PrivatePointsExclusive
      <4> QED BY <1>0, <4>1, <4>2, OwnersNext
    <3>6. Names0!Abandon(p, pt)
      BY <3>3, <3>4, <3>5, OwnerChange DEF Names0!Abandon
    <3> QED BY <3>6 DEF Names0!Next
  <2>2. CASE \A pt \in PrivatePoints : ~Holds(p, pt)
    <3>1. \A r \in PrivatePoints : OwnerOf(r)' = OwnerOf(r)
      BY <1>2, <2>2, OwnerStays DEF Forgets, Same, OthersKeep, Keeps, Drops
    <3> QED BY <3>1 DEF Owner
  <2> QED BY <2>1, <2>2
<1>3. ASSUME NEW pt \in PrivatePoints, Takes(p, pt)
      PROVE  Names0!Take(p, pt)
  <2>1. \A r \in PrivatePoints \ {pt} : OwnerOf(r)' = OwnerOf(r)
    BY <1>3, OwnerStays DEF Takes, Same, OthersKeep, Keeps
  <2>2. OwnerOf(pt) = Names0!Free /\ OwnerOf(pt)' = Names0!Process(p)
    BY <1>0, <1>3, Owners, OwnersNext DEF Takes
  <2> QED BY <2>1, <2>2, OwnerChange DEF Names0!Take
<1>4. ASSUME NEW pt \in PrivatePoints, Frees(p, pt)
      PROVE  Names0!Release(p, pt)
  <2>1. \A r \in PrivatePoints \ {pt} : ~Holds(p, r)
    BY <1>4 DEF Frees, Holds
  <2>2. \A r \in PrivatePoints \ {pt} : OwnerOf(r)' = OwnerOf(r)
    BY <1>4, <2>1, OwnerStays DEF Frees, Same, OthersKeep, Keeps, Drops
  <2>3. OwnerOf(pt) = Names0!Process(p) /\ OwnerOf(pt)' = Names0!Free
    BY <1>0, <1>4, Owners, OwnersNext DEF Frees
  <2> QED BY <2>2, <2>3, OwnerChange DEF Names0!Release
<1>5. ASSUME NEW pt \in PrivatePoints, Gives(p, pt)
      PROVE  \E m \in Mapper : Names0!Give(p, pt, m)
  <2>1. PICK m \in Mapper : mounts'[pt] = <<m>> \o mounts[pt]
    BY <1>5 DEF Gives
  <2>2. mounts'[pt] # <<>> /\ Head(mounts'[pt]) = m
    <3>1. mounts[pt] = <<>>
      BY <1>0, <1>5 DEF Gives, PrivatePointsExclusive
    <3> QED BY <2>1, <3>1
  <2>3. \A r \in PrivatePoints \ {pt} : ~Holds(p, r)
    BY <1>5 DEF Gives, Holds
  <2>4. \A r \in PrivatePoints \ {pt} : OwnerOf(r)' = OwnerOf(r)
    BY <1>5, <2>3, OwnerStays DEF Gives, Same, OthersKeep, Keeps, Drops
  <2>5. OwnerOf(pt) = Names0!Process(p) /\ OwnerOf(pt)' = Names0!Volume(m)
    BY <1>0, <1>5, <2>2, Owners, OwnersNext DEF Gives
  <2> QED BY <2>4, <2>5, OwnerChange DEF Names0!Give
<1>6. ASSUME NEW pt \in PrivatePoints, TakesBack(p, pt)
      PROVE  \E m \in Mapper : Names0!TakeBack(p, pt, m)
  <2>1. \A r \in PrivatePoints \ {pt} : OwnerOf(r)' = OwnerOf(r)
    BY <1>6, OwnerStays DEF TakesBack, Same, OthersKeep, Keeps
  <2>2. Head(mounts[pt]) \in Mapper
    BY <1>0, <1>6 DEF TakesBack, VolumeInv
  <2>3. OwnerOf(pt) = Names0!Volume(Head(mounts[pt])) /\ OwnerOf(pt)' = Names0!Process(p)
    BY <1>0, <1>6, Owners, OwnersNext DEF TakesBack
  <2> QED BY <2>1, <2>2, <2>3, OwnerChange DEF Names0!TakeBack
<1>7. ASSUME NEW pt \in PrivatePoints, Disowns(pt)
      PROVE  \E m \in Mapper : Names0!Disown(pt, m)
  <2>1. \A r \in PrivatePoints \ {pt} : OwnerOf(r)' = OwnerOf(r)
    BY <1>7, OwnerStays DEF Disowns, Same, Keeps
  <2>2. Head(mounts[pt]) \in Mapper
    BY <1>0, <1>7 DEF Disowns, VolumeInv
  <2>3. OwnerOf(pt) = Names0!Volume(Head(mounts[pt]))
    BY <1>0, <1>7, Owners DEF Disowns
  <2>4. OwnerOf(pt)' = Names0!Left
    <3>1. mounts'[pt] = <<>>
      <4>1. mounts[pt] \in Stacks /\ Len(mounts[pt]) <= 1
        BY <1>0 DEF FolderInv, TypeOK, KernelOK, Stacks, Points, PrivatePointsExclusive
      <4> QED BY <1>7, <4>1, ShortStacks DEF Disowns
    <3>2. \A q \in Procs : ~Holds(q, pt)'
      BY <1>0, <1>7 DEF Disowns, Keeps, PrivatePointsExclusive
    <3> QED BY <1>0, <1>7, <3>1, <3>2, OwnersNext DEF Disowns
  <2> QED BY <2>1, <2>2, <2>3, <2>4, OwnerChange DEF Names0!Disown
<1> QED BY <1>1, <1>2, <1>3, <1>4, <1>5, <1>6, <1>7 DEF FolderStep, Names0!Next

\* Every run of the programs, seen through the private folders, is one that
\* MountPoints allows
THEOREM Contract ==
    ASSUME "clear" \notin Ops
    PROVE  Spec => NamesContract
<1>1. Init => FolderInv /\ Names0!Init
  <2> SUFFICES ASSUME Init PROVE FolderInv /\ Names0!Init
    OBVIOUS
  <2>1. FolderInv
    BY InitTyping, InitFolders DEF FolderInv
  <2>2. \A pt \in PrivatePoints : OwnerOf(pt) = Names0!Free
    BY <2>1, Owners DEF Init, FolderInv
  <2> QED BY <2>1, <2>2 DEF Owner, Names0!Init
<1>2. FolderInv /\ FolderInv' /\ [Next]_vars => [Names0!Next]_Owner
  <2> SUFFICES ASSUME FolderInv, FolderInv', [Next]_vars PROVE [Names0!Next]_Owner
    OBVIOUS
  <2>1. CASE Nothing
    <3>1. \A r \in PrivatePoints : OwnerOf(r)' = OwnerOf(r)
      BY <2>1, OwnerStays DEF Nothing, Same, Keeps
    <3> QED BY <3>1 DEF Owner
  <2>2. CASE \E p \in Procs : FolderStep(p)
    BY <2>2, ContractStep
  <2> QED BY <2>1, <2>2, StepsOnFolders
<1> QED BY <1>1, <1>2, NextFolders, PTL DEF Spec, NamesContract, Names0!Spec

-----------------------------------------------------------------------------
(* The sweep of zuluMount-cli keeps its privileges *)

RootInv == \A p \in Procs : pc[p] \notin {"idle", "sweep", "done"} => root[p]

\* zuluMount-cli sweeps before it calls zuluCryptSetUserUIDForPrivilegeManagement()
LEMMA DropsNothing ==
    ASSUME Fronts \subseteq {"zuluMount"}, NEW p \in Procs, job[p] \in Jobs
    PROVE  DropsToRoot(p)
BY DEF DropsToRoot, Jobs, OpenJobs, CloseJobs, OtherJobs

LEMMA NextKeepsRoot ==
    ASSUME Fronts \subseteq {"zuluMount"}
    PROVE  TypeOK /\ JobInv /\ RootInv /\ [Next]_vars => RootInv'
<1> SUFFICES ASSUME TypeOK, JobInv, RootInv, [Next]_vars PROVE RootInv'
  OBVIOUS
<1> USE DEF TypeOK
<1>1. ASSUME NEW p \in Procs, OpenStep(p)
      PROVE  RootInv'
  <2>1. root[p]
    BY <1>1 DEF RootInv, OpenStep, CreateMountPoint, CheckSharedPath, CheckMapper, GetKey,
                Unlock, Mount, CloseMapperAgain, Undo, Share, BindMount
  <2>2. UNCHANGED root /\ \E l : Goto(p, l)
    BY <1>1 DEF OpenStep, CreateMountPoint, CheckSharedPath, CheckMapper, GetKey, Unlock,
                Mount, CloseMapperAgain, Undo, Share, BindMount, Exit, Fail, NextAttempt
  <2> QED BY <2>1, <2>2 DEF RootInv, Goto, ProcsOK
<1>2. ASSUME NEW p \in Procs, CloseStep(p)
      PROVE  RootInv'
  <2>1. root[p] /\ job[p] \in Jobs
    BY <1>2 DEF RootInv, JobInv, CloseStep, Close, Unshare, RemoveShare, ListEntries,
                UnmountOther, UnmountLast, Lock, RemoveMountPoint
  <2>2. \/ UNCHANGED root
        \/ root' = [root EXCEPT ![p] = DropsToRoot(p)]
        \/ root' = [root EXCEPT ![p] = phase[p] = "main" \/ DropsToRoot(p)]
    BY <1>2 DEF CloseStep, Close, Unshare, RemoveShare, ListEntries, UnmountOther,
                UnmountLast, Lock, RemoveMountPoint, Proceed, GiveUp, Leave, Exit
  <2>3. DropsToRoot(p)
    BY <2>1, DropsNothing
  <2>4. root'[p] /\ \A q \in Procs \ {p} : root'[q] = root[q]
    BY <2>1, <2>2, <2>3 DEF ProcsOK
  <2>5. (\E l : Goto(p, l)) \/ UNCHANGED pc
    BY <1>2 DEF CloseStep, Close, Unshare, RemoveShare, ListEntries, UnmountOther,
                UnmountLast, Lock, RemoveMountPoint, Proceed, GiveUp, Leave, Exit
  <2> QED BY <2>4, <2>5 DEF RootInv, Goto, ProcsOK
<1>3. ASSUME NEW p \in Procs, ClearStep(p)
      PROVE  RootInv'
  <2>1. (UNCHANGED root /\ root[p]) \/ root' = [root EXCEPT ![p] = TRUE]
    BY <1>3 DEF RootInv, ClearStep, ListMappers, ExamineMapper, EndSweep, ListFolders,
                RemoveFolder, ListMounted, NextMounted, Exit
  <2>2. (\E l : Goto(p, l)) \/ UNCHANGED pc
    BY <1>3 DEF ClearStep, ListMappers, ExamineMapper, EndSweep, ListFolders,
                RemoveFolder, ListMounted, NextMounted, Exit
  <2> QED BY <2>1, <2>2 DEF RootInv, Goto, ProcsOK
<1>4. ASSUME NEW p \in Procs, Start(p) \/ Return(p) \/ Kill(p)
      PROVE  RootInv'
  <2>1. CASE Start(p)
    BY <2>1 DEF Start, RootInv, Goto, ProcsOK
  <2>2. CASE Vanish(p)
    <3>1. Goto(p, "idle") /\ root' = [root EXCEPT ![p] = FALSE]
      BY <2>2 DEF Vanish
    <3> QED BY <3>1 DEF RootInv, Goto, ProcsOK
  <2> QED BY <1>4, <2>1, <2>2 DEF Return, Kill
<1>5. CASE (\E d \in Devices : Unplug(d) \/ Plug(d)) \/ UNCHANGED vars
  BY <1>5 DEF Unplug, Plug, locals, vars, RootInv
<1> QED BY <1>1, <1>2, <1>3, <1>4, <1>5 DEF Next, Step

\* A process that begins to take a mapper away has just found it dead
LEMMA OnlyExamineCondemns ==
    ASSUME TypeOK, JobInv, [Next]_vars, NEW p \in Procs, pc[p] = "scan", pc'[p] = "unshare"
    PROVE  ExamineMapper(p)
<1> USE DEF TypeOK
<1>1. Next
  BY DEF vars
<1>2. ASSUME NEW q \in Procs, Step(q) \/ Start(q) \/ Return(q) \/ Kill(q)
      PROVE  q = p
  <2>1. (\E l : Goto(q, l)) \/ UNCHANGED pc
    <3>1. CASE OpenStep(q)
      BY <3>1 DEF OpenStep, CreateMountPoint, CheckSharedPath, CheckMapper, GetKey, Unlock,
                  Mount, CloseMapperAgain, Undo, Share, BindMount, Exit, Fail, NextAttempt
    <3>2. CASE CloseStep(q)
      BY <3>2 DEF CloseStep, Close, Unshare, RemoveShare, ListEntries, UnmountOther,
                  UnmountLast, Lock, RemoveMountPoint, Proceed, GiveUp, Leave, Exit
    <3>3. CASE ClearStep(q)
      BY <3>3 DEF ClearStep, ListMappers, ExamineMapper, EndSweep, ListFolders,
                  RemoveFolder, ListMounted, NextMounted, Exit
    <3> QED BY <1>2, <3>1, <3>2, <3>3 DEF Step, Start, Return, Kill, Vanish
  <2> QED BY <2>1 DEF Goto, ProcsOK
<1>3. ~\E d \in Devices : Unplug(d) \/ Plug(d)
  BY DEF Unplug, Plug, locals
<1>4. Step(p) \/ Start(p) \/ Return(p) \/ Kill(p)
  BY <1>1, <1>2, <1>3 DEF Next
<1>5. ~(Start(p) \/ Return(p) \/ Kill(p))
  BY DEF Start, Return, Kill, Vanish, Goto, ProcsOK
<1>6. ~OpenStep(p) /\ ~CloseStep(p)
  BY DEF OpenStep, CreateMountPoint, CheckSharedPath, CheckMapper, GetKey, Unlock, Mount,
         CloseMapperAgain, Undo, Share, BindMount, CloseStep, Close, Unshare, RemoveShare,
         ListEntries, UnmountOther, UnmountLast, Lock, RemoveMountPoint
<1>7. ClearStep(p)
  BY <1>4, <1>5, <1>6 DEF Step
<1>8. job[p].op # "sweep" /\ job[p] \in Jobs => FirstStep[job[p].op] # "unshare"
  BY JobsTyping DEF FirstStep
<1>9. ~EndSweep(p)
  BY <1>8 DEF EndSweep, Exit, Goto, ProcsOK, JobInv
<1> QED BY <1>7, <1>9 DEF ClearStep, ListMappers, ListFolders, RemoveFolder, ListMounted,
                          NextMounted

\* In zuluMount-cli every mapper a sweep condemns has lost its device
THEOREM Condemned ==
    ASSUME Fronts \subseteq {"zuluMount"}
    PROVE  Spec => OnlyDeadCondemned
<1>1. Init => TypeOK /\ JobInv /\ RootInv
  BY InitTyping DEF Init, RootInv
<1>2. TypeOK /\ JobInv /\ RootInv /\ [Next]_vars => (TypeOK /\ JobInv /\ RootInv)'
  BY NextTyping, NextKeepsRoot
<1>3. TypeOK /\ JobInv /\ RootInv /\ [Next]_vars =>
        [\A p \in Procs : pc[p] = "scan" /\ pc'[p] = "unshare"
                            => mapper[cur'[p]] # "live"]_vars
  <2> SUFFICES ASSUME TypeOK, JobInv, RootInv, [Next]_vars,
                      NEW p \in Procs, pc[p] = "scan", pc'[p] = "unshare"
               PROVE  mapper[cur'[p]] # "live"
    OBVIOUS
  <2>1. ExamineMapper(p)
    BY OnlyExamineCondemns
  <2>2. root[p]
    BY DEF RootInv
  <2>3. \E m \in todo[p] : LooksDead(p, m) /\ cur' = [cur EXCEPT ![p] = m]
    BY <2>1 DEF ExamineMapper
  <2> QED BY <2>2, <2>3 DEF LooksDead, TypeOK, ProcsOK
<1> QED BY <1>1, <1>2, <1>3, PTL DEF Spec, OnlyDeadCondemned
=============================================================================
