------------------------ MODULE SingleCommandProofs ------------------------
(***************************************************************************)
(* What one command at a time takes down, for every number of users,       *)
(* devices and names, however often commands are killed and devices pulled *)
(* out between two calls.  zuluCryptUnmountVolume() and                    *)
(* _zuluCryptBindUnmountVolume() work from a mount list they read before,  *)
(* which is what the theorems rest on: with nobody else around, a mount is *)
(* either still as the list has it or gone.                                *)
(***************************************************************************)
EXTENDS VolumeSessionsProofs

\* Only one process runs at a time: share_race shows what two can do
Alone == \A p, q \in Procs : p = q

\* the steps that take down the mounts of a mapper and the mapper
TakeLabels == {"unshare", "rmshare", "entries", "umount", "lock", "rmpoint"}

\* Every mount is one of a volume, alone on its folder
OnlyVolumes ==
    \A pt \in Points : mounts[pt] # <<>> => pt \in dirs /\ \E m \in Mapper : mounts[pt] = <<m>>

\* Which part of the program a step belongs to
PhaseOK(p) ==
    /\ pc[p] \in {"idle", "sweep", "scan"} => phase[p] = "sweep"
    /\ pc[p] \in OpenLabels \cup {"close"} => phase[p] = "main"
    /\ pc[p] \in {"folders", "rmdirs", "dead"} => phase[p] = "dead"
    /\ pc[p] \in {"unshare", "rmshare"} => phase[p] # "dead"

Sweeps(p) == phase[p] = "sweep" /\ pc[p] \in TakeLabels

\* A sweep works on mappers its prefix matches, an open or a close on its own
WhoseOK(p) ==
    /\ Sweeps(p) \/ pc[p] = "scan" => todo[p] \subseteq SweptBy(job[p].user)
    /\ Sweeps(p) => cur[p] \in SweptBy(job[p].user)
    /\ phase[p] = "main" /\ pc[p] \in WorkLabels => cur[p] = <<job[p].user, job[p].device>>

\* What is still mounted is mounted as the list that was read before has it
ListOK(p) ==
    Sweeps(p) \/ pc[p] \in {"scan", "unshare"}
        => \A pt \in Points : mounts[pt] # <<>> => mounts[pt] = seen[p][pt]

LeftOK(p) == pc[p] = "umount" => \A pt \in left[p] : mounts[pt] = <<cur[p]>>

\* An open mounts on an empty folder, and shares what it has mounted there
PlaceOK(p) ==
    /\ pc[p] \in HoldLabels => point[p] = Folder(p) /\ mounts[Folder(p)] = <<>>
    /\ pc[p] \in {"bind", "bindmount"} => mounts[Folder(p)] = <<cur[p]>>
    /\ pc[p] = "bindmount" => mounts[Public(job[p].name)] = <<>>

ProcessOK(p) == PhaseOK(p) /\ WhoseOK(p) /\ ListOK(p) /\ LeftOK(p) /\ PlaceOK(p)

AloneInv == TypeOK /\ JobInv /\ OnlyVolumes /\ \A p \in Procs : ProcessOK(p)

-----------------------------------------------------------------------------
(* Steps to places where little is asked *)

\* Nothing is asked of a process that has ended or is past its sweep
LEMMA ExitOK ==
    ASSUME ProcsOK, NEW p \in Procs, NEW code, Exit(p, code)
    PROVE  ProcessOK(p)'
<1>1. pc'[p] = "done"
  BY DEF Exit, Goto, ProcsOK
<1> QED BY <1>1 DEF ProcessOK, PhaseOK, WhoseOK, Sweeps, ListOK, LeftOK, PlaceOK, OpenLabels,
                    HoldLabels, WorkLabels, TakeLabels

\* An open goes on, or undoes what it did
LEMMA OpenGoesOn ==
    ASSUME ProcsOK, NEW p \in Procs, ProcessOK(p), pc[p] \in HoldLabels,
           NEW l \in HoldLabels, Goto(p, l),
           UNCHANGED <<mounts, job, phase, cur, point>>
    PROVE  ProcessOK(p)'
<1>1. pc'[p] = l /\ HoldLabels \subseteq OpenLabels /\ HoldLabels \cap TakeLabels = {}
  BY DEF Goto, ProcsOK, HoldLabels, OpenLabels, TakeLabels
<1>2. l \notin {"idle", "sweep", "scan", "close", "folders", "rmdirs", "dead", "unshare",
                "rmshare", "umount", "bind", "bindmount"}
  BY DEF HoldLabels
<1>3. phase[p] = "main" /\ cur[p] = <<job[p].user, job[p].device>>
  BY <1>1 DEF ProcessOK, PhaseOK, WhoseOK, WorkLabels
<1> QED BY <1>1, <1>2, <1>3 DEF ProcessOK, PhaseOK, WhoseOK, Sweeps, ListOK, LeftOK, PlaceOK,
                                Folder, Private

\* A close or a sweep goes on: the list it works from is as good as before
Fewer == \A pt \in Points : mounts'[pt] = mounts[pt] \/ mounts'[pt] = <<>>

LEMMA TakeGoesOn ==
    ASSUME ProcsOK, NEW p \in Procs, ProcessOK(p), pc[p] \in TakeLabels, Fewer,
           NEW l \in {"rmshare", "entries", "lock", "rmpoint"}, Goto(p, l),
           l = "rmshare" => phase[p] # "dead",
           UNCHANGED <<job, phase, cur, todo, seen>>
    PROVE  ProcessOK(p)'
<1>1. pc'[p] = l /\ l \in TakeLabels /\ l \in WorkLabels /\ pc[p] \in WorkLabels
  BY DEF Goto, ProcsOK, TakeLabels, WorkLabels
<1>2. l \notin OpenLabels \cup {"idle", "sweep", "scan", "close", "folders", "rmdirs", "dead",
                                "unshare", "umount", "bind", "bindmount"} \cup HoldLabels
  BY DEF HoldLabels, OpenLabels
<1>3. PhaseOK(p)' /\ WhoseOK(p)'
  BY <1>1, <1>2 DEF ProcessOK, PhaseOK, WhoseOK, Sweeps
<1>4. ListOK(p)'
  BY <1>1, <1>2 DEF ProcessOK, ListOK, Sweeps, Fewer
<1>5. LeftOK(p)' /\ PlaceOK(p)'
  BY <1>1, <1>2 DEF LeftOK, PlaceOK
<1> QED BY <1>3, <1>4, <1>5 DEF ProcessOK

\* Back to the loop over the mappers
LEMMA LeaveOK ==
    ASSUME ProcsOK, NEW p \in Procs, ProcessOK(p), pc[p] \in TakeLabels, Fewer,
           NEW code, Leave(p, code)
    PROVE  ProcessOK(p)'
<1>1. CASE Exit(p, code)
  BY <1>1, ExitOK
<1>2. CASE phase[p] \in {"sweep", "dead"} /\ ~Exit(p, code)
  <2>1. /\ pc'[p] = IF phase[p] = "sweep" THEN "scan" ELSE "dead"
        /\ todo'[p] \subseteq todo[p]
        /\ UNCHANGED <<job, phase, seen, cur>>
    BY <1>2 DEF Leave, Goto, ProcsOK
  <2>2. PhaseOK(p)' /\ LeftOK(p)' /\ PlaceOK(p)'
    BY <1>2, <2>1 DEF PhaseOK, LeftOK, PlaceOK, OpenLabels, HoldLabels
  <2>3. WhoseOK(p)'
    BY <1>2, <2>1 DEF ProcessOK, WhoseOK, Sweeps, TakeLabels, WorkLabels, OpenLabels
  <2>4. ListOK(p)'
    BY <1>2, <2>1 DEF ProcessOK, ListOK, Sweeps, TakeLabels, Fewer
  <2> QED BY <2>2, <2>3, <2>4 DEF ProcessOK
<1> QED BY <1>1, <1>2 DEF Leave


-----------------------------------------------------------------------------
(* Opening a volume *)

LEMMA OpenAlone ==
    ASSUME AloneInv, NEW p \in Procs, OpenStep(p)
    PROVE  OnlyVolumes' /\ ProcessOK(p)'
<1>0. /\ KernelOK /\ ProcsOK /\ OnlyVolumes /\ ProcessOK(p)
      /\ pc[p] \in OpenLabels /\ cur[p] \in Mapper /\ job[p] \in OpenJobs
      /\ phase[p] = "main" /\ cur[p] = <<job[p].user, job[p].device>>
  <2>1. pc[p] \in OpenLabels
    BY DEF OpenStep, CreateMountPoint, CheckSharedPath, CheckMapper, GetKey, Unlock, Mount,
           CloseMapperAgain, Undo, Share, BindMount, OpenLabels
  <2>2. cur[p] \in Mapper /\ job[p] \in OpenJobs /\ ProcessOK(p)
    BY <2>1 DEF AloneInv, JobInv, WorkLabels
  <2> QED BY <2>1, <2>2 DEF AloneInv, TypeOK, ProcessOK, PhaseOK, WhoseOK, WorkLabels
<1>1. Folder(p) \in Points /\ Public(job[p].name) \in Points /\ Folder(p) # Public(job[p].name)
  <2>1. Folder(p) \in PrivatePoints /\ Public(job[p].name) \in PublicPoints
    BY <1>0, OpenPaths DEF AloneInv
  <2> QED BY <2>1, PathsAreDistinct DEF Points
<1>2. CASE CreateMountPoint(p)
  <2>1. OnlyVolumes'
    BY <1>0, <1>2 DEF CreateMountPoint, OnlyVolumes, Exit
  <2>2. CASE \E code : Exit(p, code)
    BY <1>0, <2>1, <2>2, ExitOK
  <2>3. CASE /\ Folder(p) \notin dirs
             /\ point' = [point EXCEPT ![p] = Folder(p)]
             /\ \E l \in {"taken", "stat"} : Goto(p, l)
             /\ UNCHANGED <<job, phase, cur, mounts>>
    <3>1. pc'[p] \in {"taken", "stat"} /\ point'[p] = Folder(p) /\ Folder(p)' = Folder(p)
      BY <1>0, <2>3 DEF Goto, ProcsOK, Folder, Private
    <3>2. mounts'[Folder(p)] = <<>>
      BY <1>0, <1>1, <2>3 DEF OnlyVolumes
    <3>3. PhaseOK(p)' /\ WhoseOK(p)' /\ ListOK(p)' /\ LeftOK(p)'
      BY <1>0, <2>3, <3>1 DEF PhaseOK, WhoseOK, ListOK, LeftOK, Sweeps, OpenLabels, TakeLabels
    <3>4. PlaceOK(p)'
      BY <3>1, <3>2 DEF PlaceOK
    <3> QED BY <2>1, <3>3, <3>4 DEF ProcessOK
  <2> QED BY <1>2, <2>2, <2>3 DEF CreateMountPoint
<1>3. CASE CheckSharedPath(p) \/ CheckMapper(p) \/ GetKey(p) \/ Unlock(p) \/ CloseMapperAgain(p)
  <2>1. PICK l \in HoldLabels : Goto(p, l)
    BY <1>3 DEF CheckSharedPath, CheckMapper, GetKey, Unlock, CloseMapperAgain, Fail,
                NextAttempt, HoldLabels
  <2>2. pc[p] \in HoldLabels /\ UNCHANGED <<job, phase, cur, point, mounts, dirs>>
    BY <1>3 DEF CheckSharedPath, CheckMapper, GetKey, Unlock, CloseMapperAgain, HoldLabels, kernel
  <2>3. OnlyVolumes'
    BY <1>0, <2>2 DEF OnlyVolumes
  <2> QED BY <1>0, <2>1, <2>2, <2>3, OpenGoesOn
<1>4. CASE Mount(p)
  <2>1. CASE Goto(p, "abort") /\ UNCHANGED mounts
    <3>1. UNCHANGED <<dirs, job, phase, cur>> /\ pc[p] = "mount"
      BY <1>4 DEF Mount, Exit
    <3>2. UNCHANGED point
      BY <1>0, <1>4, <2>1 DEF Mount, Exit, Goto, ProcsOK
    <3>3. OnlyVolumes'
      BY <1>0, <2>1, <3>1 DEF OnlyVolumes
    <3> QED BY <1>0, <2>1, <3>1, <3>2, <3>3, OpenGoesOn DEF HoldLabels
  <2>2. CASE MountOn(point[p], cur[p]) /\ point[p] \in dirs
    <3>1. point[p] = Folder(p) /\ mounts[Folder(p)] = <<>>
      BY <1>0, <1>4 DEF Mount, ProcessOK, PlaceOK, HoldLabels
    <3>2. mounts' = [mounts EXCEPT ![Folder(p)] = <<cur[p]>>]
      BY <1>0, <1>1, <2>2, <3>1 DEF MountOn
    <3>3. mounts'[Folder(p)] = <<cur[p]>> /\ \A r \in Points \ {Folder(p)} : mounts'[r] = mounts[r]
      BY <1>0, <1>1, <3>2 DEF KernelOK
    <3>4. OnlyVolumes'
      BY <1>0, <1>4, <2>2, <3>1, <3>3 DEF OnlyVolumes, Mount
    <3>5. CASE Exit(p, 0)
      BY <1>0, <3>4, <3>5, ExitOK
    <3>6. CASE Goto(p, "bind") /\ UNCHANGED <<job, phase, cur>>
      <4>1. pc'[p] = "bind" /\ Folder(p)' = Folder(p)
        BY <1>0, <3>6 DEF Goto, ProcsOK, Folder, Private
      <4>2. PhaseOK(p)' /\ WhoseOK(p)' /\ ListOK(p)' /\ LeftOK(p)'
        BY <1>0, <3>6, <4>1 DEF PhaseOK, WhoseOK, ListOK, LeftOK, Sweeps, OpenLabels, TakeLabels
      <4>3. PlaceOK(p)'
        BY <3>3, <3>6, <4>1 DEF PlaceOK, HoldLabels
      <4> QED BY <3>4, <4>2, <4>3 DEF ProcessOK
    <3>7. Exit(p, 0) \/ (Goto(p, "bind") /\ UNCHANGED <<job, phase, cur>>)
      <4>1. mounts' # mounts
        <5>1. <<cur[p]>> # <<>>
          OBVIOUS
        <5> QED BY <3>1, <3>3, <5>1
      <4> QED BY <1>4, <4>1 DEF Mount
    <3> QED BY <3>5, <3>6, <3>7
  <2> QED BY <1>4, <2>1, <2>2 DEF Mount
<1>5. CASE Undo(p)
  <2>1. OnlyVolumes'
    BY <1>0, <1>5 DEF Undo, Rmdir, OnlyVolumes
  <2> QED BY <1>0, <1>5, <2>1, ExitOK DEF Undo
<1>6. CASE Share(p)
  <2>1. OnlyVolumes'
    BY <1>0, <1>6 DEF Share, OnlyVolumes
  <2>2. CASE Exit(p, 0)
    BY <1>0, <2>1, <2>2, ExitOK
  <2>3. CASE Goto(p, "bindmount") /\ ~Exit(p, 0)
    <3>1. /\ UNCHANGED <<job, phase, cur, mounts>>
          /\ Public(job[p].name) \notin dirs \/ ~IsListed(Public(job[p].name), mounts)
      BY <1>6, <2>3 DEF Share
    <3>2. mounts[Public(job[p].name)] = <<>>
      <4>1. ASSUME NEW m \in Mapper, mounts[Public(job[p].name)] = <<m>>
            PROVE  IsListed(Public(job[p].name), mounts)
        <5>1. DOMAIN mounts[Public(job[p].name)] = {1} /\ mounts[Public(job[p].name)][1] = m
          BY <4>1
        <5> QED BY <5>1 DEF IsListed, In
      <4> QED BY <1>0, <1>1, <3>1, <4>1 DEF OnlyVolumes
    <3>3. pc'[p] = "bindmount" /\ pc[p] = "bind" /\ Folder(p)' = Folder(p)
      BY <1>0, <1>6, <2>3, <3>1 DEF Share, Goto, ProcsOK, Folder, Private
    <3>4. PhaseOK(p)' /\ WhoseOK(p)' /\ ListOK(p)' /\ LeftOK(p)'
      BY <1>0, <3>1, <3>3 DEF PhaseOK, WhoseOK, ListOK, LeftOK, Sweeps, OpenLabels, TakeLabels
    <3>5. PlaceOK(p)'
      BY <1>0, <3>1, <3>2, <3>3 DEF ProcessOK, PlaceOK, HoldLabels
    <3> QED BY <2>1, <3>4, <3>5 DEF ProcessOK
  <2> QED BY <1>6, <2>2, <2>3 DEF Share
<1>7. CASE BindMount(p)
  <2>1. OnlyVolumes'
    <3>1. CASE UNCHANGED mounts
      <4>1. \A pt \in Points : mounts[pt] # <<>> => (pt \in dirs' <=> pt \in dirs)
        BY <1>0, <1>7, <3>1 DEF BindMount, Rmdir
      <4> QED BY <1>0, <3>1, <4>1 DEF OnlyVolumes
    <3>2. CASE mounts' # mounts
      <4>1. /\ MountOn(Public(job[p].name), Visible(Folder(p))) /\ UNCHANGED dirs
            /\ Public(job[p].name) \in dirs /\ pc[p] = "bindmount"
        BY <1>7, <3>2 DEF BindMount
      <4>2. Visible(Folder(p)) = cur[p]
        BY <1>0, <4>1 DEF ProcessOK, PlaceOK, Visible
      <4>3. mounts[Public(job[p].name)] = <<>>
        BY <1>0, <4>1 DEF ProcessOK, PlaceOK
      <4>4. mounts' = [mounts EXCEPT ![Public(job[p].name)] = <<cur[p]>>]
        BY <1>0, <1>1, <4>1, <4>2, <4>3 DEF MountOn
      <4>5. /\ mounts'[Public(job[p].name)] = <<cur[p]>>
            /\ \A r \in Points \ {Public(job[p].name)} : mounts'[r] = mounts[r]
        BY <1>0, <1>1, <4>4 DEF KernelOK
      <4> QED BY <1>0, <4>1, <4>5 DEF OnlyVolumes
    <3> QED BY <3>1, <3>2
  <2> QED BY <1>0, <1>7, <2>1, ExitOK DEF BindMount
<1> QED BY <1>2, <1>3, <1>4, <1>5, <1>6, <1>7 DEF OpenStep


-----------------------------------------------------------------------------
(* Closing and sweeping *)

\* umount() leaves the folder without a mount
LEMMA Unmounted ==
    ASSUME KernelOK, OnlyVolumes, NEW pt \in Points, UmountTop(pt)
    PROVE  /\ mounts'[pt] = <<>> /\ \A r \in Points \ {pt} : mounts'[r] = mounts[r]
           /\ Fewer
           /\ UNCHANGED dirs => OnlyVolumes'
<1>1. PICK m \in Mapper : mounts[pt] = <<m>>
  BY DEF OnlyVolumes, UmountTop
<1>2. Tail(<<m>>) = <<>>
  OBVIOUS
<1>3. mounts' = [mounts EXCEPT ![pt] = <<>>]
  BY <1>1, <1>2 DEF UmountTop
<1>4. mounts'[pt] = <<>> /\ \A r \in Points \ {pt} : mounts'[r] = mounts[r]
  BY <1>3 DEF KernelOK
<1> QED BY <1>4 DEF Fewer, OnlyVolumes

\* rmdir() leaves every mount and its folder where they are
LEMMA Removed ==
    ASSUME OnlyVolumes, NEW pt, Rmdir(pt), UNCHANGED mounts
    PROVE  OnlyVolumes' /\ Fewer
BY DEF OnlyVolumes, Rmdir, Fewer

LEMMA SameMounts ==
    ASSUME OnlyVolumes, UNCHANGED <<mounts, dirs>>
    PROVE  OnlyVolumes' /\ Fewer
BY DEF OnlyVolumes, Fewer

\* The share goes, or the process leaves, or goes on without
LEMMA UnshareAlone ==
    ASSUME AloneInv, NEW p \in Procs, Unshare(p)
    PROVE  OnlyVolumes' /\ ProcessOK(p)'
<1>0. /\ KernelOK /\ ProcsOK /\ OnlyVolumes /\ ProcessOK(p) /\ phase[p] # "dead"
      /\ pc[p] = "unshare" /\ pc[p] \in TakeLabels /\ UNCHANGED dirs
  BY DEF AloneInv, TypeOK, Unshare, ProcessOK, PhaseOK, TakeLabels
<1>1. OnlyVolumes' /\ Fewer
  <2>1. CASE UNCHANGED mounts
    BY <1>0, <2>1, SameMounts
  <2>2. CASE mounts' # mounts
    <3>1. PICK pt \in FirstEntries(p) : UmountTop(Public(pt.name))
      BY <2>2 DEF Unshare
    <3>2. Public(pt.name) \in Points
      BY DEF FirstEntries, EntriesOf, Points, PrivatePoints, PublicPoints, Private, Public
    <3> QED BY <1>0, <3>1, <3>2, Unmounted
  <2> QED BY <2>1, <2>2
<1>2. CASE \E code : Exit(p, code)
  BY <1>0, <1>1, <1>2, ExitOK
<1>3. CASE Proceed(p)
  BY <1>0, <1>1, <1>3, TakeGoesOn DEF Proceed
<1>4. CASE Goto(p, "rmshare") /\ UNCHANGED <<job, phase, cur, todo, seen>>
  BY <1>0, <1>1, <1>4, TakeGoesOn
<1>5. CASE /\ phase[p] = "sweep" /\ Goto(p, "scan")
           /\ todo' = [todo EXCEPT ![p] = @ \ {cur[p]}]
           /\ UNCHANGED <<job, phase, seen>>
  <2>1. pc'[p] = "scan" /\ todo'[p] \subseteq todo[p]
    BY <1>0, <1>5 DEF Goto, ProcsOK
  <2>2. PhaseOK(p)' /\ LeftOK(p)' /\ PlaceOK(p)'
    BY <1>5, <2>1 DEF PhaseOK, LeftOK, PlaceOK, OpenLabels, HoldLabels
  <2>3. WhoseOK(p)'
    BY <1>0, <1>5, <2>1 DEF ProcessOK, WhoseOK, Sweeps, TakeLabels, WorkLabels, OpenLabels
  <2>4. ListOK(p)'
    BY <1>0, <1>1, <1>5, <2>1 DEF ProcessOK, ListOK, Fewer
  <2> QED BY <1>1, <2>2, <2>3, <2>4 DEF ProcessOK
<1> QED BY <1>1, <1>2, <1>3, <1>4, <1>5 DEF Unshare, GiveUp

LEMMA CloseAlone ==
    ASSUME AloneInv, NEW p \in Procs, CloseStep(p)
    PROVE  OnlyVolumes' /\ ProcessOK(p)'
<1>0. /\ KernelOK /\ ProcsOK /\ OnlyVolumes /\ ProcessOK(p)
      /\ pc[p] \in TakeLabels \cup {"close"} /\ cur[p] \in Mapper
  <2>1. pc[p] \in TakeLabels \cup {"close"}
    BY DEF CloseStep, Close, Unshare, RemoveShare, ListEntries, UnmountOther, UnmountLast,
           Lock, RemoveMountPoint, TakeLabels
  <2> QED BY <2>1 DEF AloneInv, TypeOK, JobInv, TakeLabels, WorkLabels
<1>1. CASE Close(p)
  <2>1. OnlyVolumes'
    BY <1>0, <1>1, SameMounts DEF Close, kernel
  <2>2. CASE Exit(p, 1)
    BY <1>0, <2>1, <2>2, ExitOK
  <2>3. CASE Goto(p, "unshare") /\ seen' = [seen EXCEPT ![p] = mounts]
             /\ UNCHANGED <<job, phase, cur, mounts>>
    <3>1. pc'[p] = "unshare" /\ seen'[p] = mounts /\ phase[p] = "main"
          /\ cur[p] = <<job[p].user, job[p].device>>
      BY <1>0, <1>1, <2>3 DEF Close, Goto, ProcsOK, ProcessOK, PhaseOK, WhoseOK, WorkLabels
    <3> QED BY <2>1, <2>3, <3>1 DEF ProcessOK, PhaseOK, WhoseOK, Sweeps, ListOK, LeftOK,
                                    PlaceOK, OpenLabels, HoldLabels
  <2> QED BY <1>1, <2>2, <2>3 DEF Close, kernel
<1>2. CASE Unshare(p)
  BY <1>2, UnshareAlone
<1>3. CASE RemoveShare(p)
  <2>1. OnlyVolumes' /\ Fewer
    BY <1>0, <1>3, Removed DEF RemoveShare
  <2> QED BY <1>0, <1>3, <2>1, TakeGoesOn DEF RemoveShare, TakeLabels
<1>4. CASE ListEntries(p)
  <2>1. OnlyVolumes' /\ Fewer
    BY <1>0, <1>4, SameMounts DEF ListEntries, kernel
  <2>2. CASE \E code : Leave(p, code)
    BY <1>0, <1>4, <2>1, <2>2, LeaveOK DEF ListEntries, TakeLabels
  <2>3. CASE Goto(p, "lock") /\ UNCHANGED <<job, phase, cur, todo, seen>>
    BY <1>0, <1>4, <2>1, <2>3, TakeGoesOn DEF ListEntries, TakeLabels
  <2>4. CASE /\ Goto(p, "umount") /\ left' = [left EXCEPT ![p] = EntriesOf(cur[p], mounts)]
             /\ UNCHANGED <<job, phase, cur, todo, seen, mounts>>
    <3>1. pc'[p] = "umount" /\ left'[p] = EntriesOf(cur[p], mounts) /\ pc[p] = "entries"
      BY <1>0, <1>4, <2>4 DEF ListEntries, Goto, ProcsOK
    <3>2. \A pt \in EntriesOf(cur[p], mounts) : mounts[pt] = <<cur[p]>>
      <4>1. ASSUME NEW pt \in Points, In(cur[p], mounts[pt])
            PROVE  mounts[pt] = <<cur[p]>>
        <5>1. PICK i \in DOMAIN mounts[pt] : mounts[pt][i] = cur[p]
          BY <4>1 DEF In
        <5>2. mounts[pt] # <<>>
          <6>1. DOMAIN <<>> = {}
            OBVIOUS
          <6> QED BY <5>1, <6>1
        <5>3. PICK m \in Mapper : mounts[pt] = <<m>>
          BY <1>0, <5>2 DEF OnlyVolumes
        <5>4. i = 1 /\ m = cur[p]
          BY <5>1, <5>3
        <5> QED BY <5>3, <5>4
      <4> QED BY <4>1 DEF EntriesOf
    <3>3. PhaseOK(p)' /\ PlaceOK(p)'
      BY <3>1 DEF PhaseOK, PlaceOK, OpenLabels, HoldLabels
    <3>4. WhoseOK(p)' /\ ListOK(p)'
      BY <1>0, <2>4, <3>1 DEF ProcessOK, WhoseOK, ListOK, Sweeps, TakeLabels, WorkLabels
    <3>5. LeftOK(p)'
      BY <2>4, <3>1, <3>2 DEF LeftOK
    <3> QED BY <2>1, <3>3, <3>4, <3>5 DEF ProcessOK
  <2> QED BY <1>4, <2>2, <2>3, <2>4 DEF ListEntries, kernel
<1>5. CASE UnmountOther(p)
  <2>1. CASE \E code : Leave(p, code) /\ UNCHANGED <<mounts, dirs>>
    <3>1. OnlyVolumes' /\ Fewer
      BY <1>0, <2>1, SameMounts
    <3> QED BY <1>0, <1>5, <2>1, <3>1, LeaveOK DEF UnmountOther, TakeLabels
  <2>2. CASE \E pt \in left[p] : /\ UmountTop(pt) /\ left' = [left EXCEPT ![p] = @ \ {pt}]
                                 /\ UNCHANGED <<pc, dirs, job, phase, cur, todo, seen>>
    <3>1. PICK pt \in Points : /\ UmountTop(pt) /\ left' = [left EXCEPT ![p] = @ \ {pt}]
                               /\ UNCHANGED <<pc, dirs, job, phase, cur, todo, seen>>
      BY <1>0, <2>2 DEF ProcsOK
    <3>2. OnlyVolumes' /\ Fewer /\ \A r \in Points \ {pt} : mounts'[r] = mounts[r]
      BY <1>0, <3>1, Unmounted
    <3>3. pc[p] = "umount" /\ left'[p] = left[p] \ {pt} /\ left[p] \subseteq Points
      BY <1>0, <1>5, <3>1 DEF UnmountOther, ProcsOK
    <3>4. PhaseOK(p)' /\ PlaceOK(p)'
      BY <3>1, <3>3 DEF PhaseOK, PlaceOK, OpenLabels, HoldLabels
    <3>5. WhoseOK(p)'
      BY <1>0, <3>1 DEF ProcessOK, WhoseOK, Sweeps
    <3>6. ListOK(p)'
      BY <1>0, <3>1, <3>2 DEF ProcessOK, ListOK, Sweeps, Fewer
    <3>7. LeftOK(p)'
      BY <1>0, <3>1, <3>2, <3>3 DEF ProcessOK, LeftOK
    <3> QED BY <3>2, <3>4, <3>5, <3>6, <3>7 DEF ProcessOK
  <2> QED BY <1>5, <2>1, <2>2 DEF UnmountOther
<1>6. CASE UnmountLast(p)
  <2>1. CASE \E code : Leave(p, code) /\ UNCHANGED <<mounts, dirs>>
    <3>1. OnlyVolumes' /\ Fewer
      BY <1>0, <2>1, SameMounts
    <3> QED BY <1>0, <1>6, <2>1, <3>1, LeaveOK DEF UnmountLast, TakeLabels
  <2>2. CASE \E pt \in Points, l \in {"rmpoint", "lock"} :
               UmountTop(pt) /\ Goto(p, l) /\ UNCHANGED <<dirs, job, phase, cur, todo, seen>>
    <3>1. OnlyVolumes' /\ Fewer
      BY <1>0, <2>2, Unmounted
    <3> QED BY <1>0, <1>6, <2>2, <3>1, TakeGoesOn DEF UnmountLast, TakeLabels
  <2> QED BY <1>6, <2>1, <2>2 DEF UnmountLast
<1>7. CASE Lock(p)
  <2>1. OnlyVolumes' /\ Fewer
    BY <1>0, <1>7, SameMounts DEF Lock
  <2> QED BY <1>0, <1>7, <2>1, LeaveOK, TakeGoesOn DEF Lock, TakeLabels
<1>8. CASE RemoveMountPoint(p)
  <2>1. OnlyVolumes' /\ Fewer
    BY <1>0, <1>8, Removed DEF RemoveMountPoint
  <2> QED BY <1>0, <1>8, <2>1, LeaveOK DEF RemoveMountPoint, TakeLabels
<1> QED BY <1>1, <1>2, <1>3, <1>4, <1>5, <1>6, <1>7, <1>8 DEF CloseStep


-----------------------------------------------------------------------------
(* The sweep itself, --clear-dead-mount-points, and the end of a command *)

LEMMA ClearAlone ==
    ASSUME AloneInv, NEW p \in Procs, ClearStep(p)
    PROVE  OnlyVolumes' /\ ProcessOK(p)'
<1>0. KernelOK /\ ProcsOK /\ OnlyVolumes /\ ProcessOK(p)
  BY DEF AloneInv, TypeOK
<1>1. OnlyVolumes' /\ Fewer
  <2>1. CASE RemoveFolder(p)
    BY <1>0, <2>1, Removed DEF RemoveFolder
  <2>2. CASE ~RemoveFolder(p)
    BY <1>0, <2>2, SameMounts DEF ClearStep, ListMappers, ExamineMapper, EndSweep,
       ListFolders, ListMounted, NextMounted, kernel
  <2> QED BY <2>1, <2>2
<1>2. CASE \E code : Exit(p, code)
  BY <1>0, <1>1, <1>2, ExitOK
<1>3. CASE ListMappers(p)
  <2>1. /\ pc'[p] = "scan" /\ phase'[p] = "sweep" /\ seen'[p] = mounts
        /\ todo'[p] \subseteq SweptBy(job[p].user) /\ UNCHANGED <<job, mounts>>
    BY <1>0, <1>3 DEF ListMappers, Goto, ProcsOK, ProcessOK, PhaseOK, kernel
  <2> QED BY <1>1, <2>1 DEF ProcessOK, PhaseOK, WhoseOK, Sweeps, ListOK, LeftOK, PlaceOK,
                            OpenLabels, HoldLabels, TakeLabels
<1>4. CASE ExamineMapper(p)
  <2>1. /\ pc[p] = "scan" /\ phase[p] = "sweep" /\ UNCHANGED <<job, phase, seen, mounts>>
        /\ todo[p] \subseteq SweptBy(job[p].user)
        /\ \A pt \in Points : mounts[pt] # <<>> => mounts[pt] = seen[p][pt]
    BY <1>0, <1>4 DEF ExamineMapper, ProcessOK, PhaseOK, WhoseOK, ListOK, kernel
  <2>2. \/ pc'[p] = "unshare" /\ cur'[p] \in todo[p] /\ todo'[p] = todo[p]
        \/ pc'[p] = "scan" /\ todo'[p] \subseteq todo[p]
    BY <1>0, <1>4, <2>1 DEF ExamineMapper, Goto, ProcsOK
  <2>3. PhaseOK(p)' /\ ListOK(p)' /\ LeftOK(p)' /\ PlaceOK(p)'
    BY <2>1, <2>2 DEF PhaseOK, ListOK, LeftOK, PlaceOK, OpenLabels, HoldLabels
  <2>4. WhoseOK(p)'
    BY <2>1, <2>2 DEF WhoseOK, Sweeps, TakeLabels
  <2> QED BY <1>1, <2>3, <2>4 DEF ProcessOK
<1>5. CASE EndSweep(p)
  <2>1. job[p] \in Jobs /\ job[p].op \in {"open", "close", "sweep", "clear"}
    <3>1. job[p] \in Jobs
      BY <1>5 DEF EndSweep, AloneInv, JobInv
    <3> QED BY <3>1, JobsTyping
  <2>2. CASE job[p].op # "sweep" /\ ~Exit(p, 0)
    <3>1. /\ Goto(p, FirstStep[job[p].op])
          /\ phase' = [phase EXCEPT ![p] = IF job[p].op = "clear" THEN "dead" ELSE "main"]
          /\ cur' = [cur EXCEPT ![p] = IF job[p].op = "clear"
                                         THEN NoMapper
                                         ELSE <<job[p].user, job[p].device>>]
          /\ UNCHANGED job
      BY <1>5, <2>2 DEF EndSweep
    <3>2. \/ FirstStep[job[p].op] \in {"mkdir", "close"} /\ job[p].op # "clear"
          \/ FirstStep[job[p].op] = "folders" /\ job[p].op = "clear"
      BY <2>1, <2>2 DEF FirstStep
    <3>3. \/ /\ pc'[p] \in {"mkdir", "close"} /\ phase'[p] = "main"
             /\ cur'[p] = <<job[p].user, job[p].device>>
          \/ pc'[p] = "folders" /\ phase'[p] = "dead"
      BY <1>0, <3>1, <3>2 DEF Goto, ProcsOK
    <3> QED BY <1>1, <3>1, <3>3 DEF ProcessOK, PhaseOK, WhoseOK, Sweeps, ListOK, LeftOK,
                                    PlaceOK, OpenLabels, HoldLabels, TakeLabels
  <2> QED BY <1>2, <1>5, <2>2 DEF EndSweep
<1>6. CASE ListFolders(p) \/ RemoveFolder(p) \/ ListMounted(p) \/ NextMounted(p)
  <2>1. CASE \E code : Exit(p, code)
    BY <1>2, <2>1
  <2>2. CASE /\ pc'[p] \in {"rmdirs", "dead", "entries"} /\ phase'[p] = "dead"
    BY <1>1, <2>2 DEF ProcessOK, PhaseOK, WhoseOK, Sweeps, ListOK, LeftOK, PlaceOK,
                      OpenLabels, HoldLabels, TakeLabels
  <2>3. phase[p] = "dead"
    BY <1>0, <1>6 DEF ListFolders, RemoveFolder, ListMounted, NextMounted, ProcessOK, PhaseOK
  <2> QED BY <1>0, <1>6, <2>1, <2>2, <2>3
             DEF ListFolders, RemoveFolder, ListMounted, NextMounted, Goto, ProcsOK
<1> QED BY <1>3, <1>4, <1>5, <1>6 DEF ClearStep

LEMMA NextAlone ==
    ASSUME Alone
    PROVE  AloneInv /\ [Next]_vars => AloneInv'
<1> SUFFICES ASSUME AloneInv, [Next]_vars PROVE AloneInv'
  OBVIOUS
<1>0. KernelOK /\ ProcsOK /\ OnlyVolumes /\ TypeOK' /\ JobInv'
  BY NextTyping DEF AloneInv, TypeOK
<1>1. ASSUME NEW p \in Procs, Step(p)
      PROVE  AloneInv'
  <2>1. OnlyVolumes' /\ ProcessOK(p)'
    BY <1>1, OpenAlone, CloseAlone, ClearAlone DEF Step
  <2>2. \A q \in Procs : q = p
    BY DEF Alone
  <2>3. \A q \in Procs : ProcessOK(q)'
    BY <2>1, <2>2
  <2> QED BY <1>0, <2>1, <2>3 DEF AloneInv
<1>2. ASSUME NEW p \in Procs, Start(p) \/ Return(p) \/ Kill(p)
      PROVE  AloneInv'
  <2>1. OnlyVolumes'
    BY <1>0, <1>2, SameMounts DEF Start, Return, Kill, kernel
  <2>2. pc'[p] \in {"idle", "sweep"} /\ phase'[p] = "sweep"
    BY <1>0, <1>2 DEF Start, Return, Kill, Vanish, Goto, ProcsOK, AloneInv, ProcessOK, PhaseOK
  <2>3. ProcessOK(p)'
    BY <2>2 DEF ProcessOK, PhaseOK, WhoseOK, Sweeps, ListOK, LeftOK, PlaceOK, OpenLabels,
                HoldLabels, TakeLabels
  <2>4. \A q \in Procs : q = p
    BY DEF Alone
  <2>5. \A q \in Procs : ProcessOK(q)'
    BY <2>3, <2>4
  <2> QED BY <1>0, <2>1, <2>5 DEF AloneInv
<1>3. CASE (\E d \in Devices : Unplug(d) \/ Plug(d)) \/ UNCHANGED vars
  <2>1. UNCHANGED <<dirs, mounts, pc, job, phase, seen, todo, left, cur, point>>
    BY <1>3 DEF Unplug, Plug, locals, vars
  <2>2. OnlyVolumes'
    BY <1>0, <2>1, SameMounts
  <2>3. ASSUME NEW p \in Procs PROVE ProcessOK(p)'
    <3>1. ProcessOK(p)
      BY DEF AloneInv
    <3> QED BY <2>1, <3>1 DEF ProcessOK, PhaseOK, WhoseOK, Sweeps, ListOK, LeftOK, PlaceOK,
                              Folder, Private, Public
  <2> QED BY <1>0, <2>2, <2>3 DEF AloneInv
<1> QED BY <1>1, <1>2, <1>3 DEF Next

LEMMA InitAlone == Init => AloneInv
<1> SUFFICES ASSUME Init PROVE AloneInv
  OBVIOUS
<1>1. OnlyVolumes
  BY DEF Init, NoMounts, OnlyVolumes
<1>2. ASSUME NEW p \in Procs PROVE ProcessOK(p)
  <2>1. pc[p] = "idle" /\ phase[p] = "sweep"
    BY DEF Init
  <2> QED BY <2>1 DEF ProcessOK, PhaseOK, WhoseOK, Sweeps, ListOK, LeftOK, PlaceOK, OpenLabels,
                      HoldLabels, TakeLabels
<1> QED BY <1>1, <1>2, InitTyping DEF AloneInv


-----------------------------------------------------------------------------
(* What a command takes down *)

\* umount() takes away a mount of the mapper the process works on
LEMMA TakesDownItsOwn ==
    ASSUME Alone, AloneInv, [Next]_vars, NEW p \in Procs, Unmounts(p), NEW pt \in Uncovered
    PROVE  mounts[pt] = <<cur[p]>>
<1>0. /\ KernelOK /\ ProcsOK /\ OnlyVolumes /\ ProcessOK(p) /\ cur[p] \in Mapper
      /\ pc[p] \in {"unshare", "umount"} /\ pt \in Points
  BY DEF AloneInv, TypeOK, Unmounts, Uncovered, JobInv, WorkLabels
<1>1. mounts'[pt] # mounts[pt]
  <2>1. PICK m \in Mapper : mounts[pt] = <<m>>
    BY <1>0 DEF OnlyVolumes, Uncovered
  <2>2. Tail(<<m>>) = <<>> /\ <<m>> # <<>>
    OBVIOUS
  <2> QED BY <2>1, <2>2 DEF Uncovered
<1>2. CloseStep(p)
  <2>1. \E q \in Procs : Step(q)
    BY <1>1 DEF Next, Start, Return, Kill, Unplug, Plug, kernel, vars
  <2>2. Step(p)
    BY <2>1 DEF Alone
  <2>3. ~OpenStep(p)
    BY <1>0 DEF OpenStep, CreateMountPoint, CheckSharedPath, CheckMapper, GetKey, Unlock, Mount,
                CloseMapperAgain, Undo, Share, BindMount
  <2>4. ~ClearStep(p)
    BY <1>0 DEF ClearStep, ListMappers, ExamineMapper, EndSweep, ListFolders, RemoveFolder,
                ListMounted, NextMounted
  <2> QED BY <2>2, <2>3, <2>4 DEF Step
<1>3. CASE pc[p] = "umount"
  <2>1. UnmountOther(p) \/ UnmountLast(p)
    BY <1>2, <1>3 DEF CloseStep, Close, Unshare, RemoveShare, ListEntries, Lock, RemoveMountPoint
  <2>2. PICK r \in left[p] : UmountTop(r)
    BY <1>1, <2>1 DEF UnmountOther, UnmountLast
  <2>3. r = pt
    BY <1>0, <1>1, <2>2, Unmounted DEF ProcsOK
  <2> QED BY <1>0, <1>3, <2>2, <2>3 DEF ProcessOK, LeftOK
<1>4. CASE pc[p] = "unshare"
  <2>1. Unshare(p)
    BY <1>2, <1>4 DEF CloseStep, Close, RemoveShare, ListEntries, UnmountOther, UnmountLast, Lock,
                      RemoveMountPoint
  <2>2. PICK r \in FirstEntries(p) : IsShared(p, r) /\ UmountTop(Public(r.name))
    BY <1>1, <2>1 DEF Unshare
  <2>3. Public(r.name) \in Points
    BY DEF FirstEntries, EntriesOf, Points, PrivatePoints, PublicPoints, Private, Public
  <2>4. Public(r.name) = pt
    BY <1>0, <1>1, <2>2, <2>3, Unmounted
  <2>5. PICK m \in Mapper : mounts[pt] = <<m>> /\ seen[p][pt] = <<m>>
    BY <1>0, <1>4 DEF OnlyVolumes, Uncovered, ProcessOK, ListOK
  <2>6. FirstListed(pt, seen[p]) = m
    <3>1. {i \in DOMAIN <<m>> : <<m>>[i] # Bare} = {1}
      <4>1. m # Bare
        BY ConstantsAssumption
      <4>2. DOMAIN <<m>> = {1} /\ <<m>>[1] = m
        OBVIOUS
      <4> QED BY <4>1, <4>2
    <3>2. (CHOOSE i \in {1} : \A j \in {1} : j <= i) = 1
      OBVIOUS
    <3>3. FirstListed(pt, seen[p]) = <<m>>[1]
      BY <2>5, <3>1, <3>2 DEF FirstListed
    <3> QED BY <3>3
  <2>7. FirstListed(pt, seen[p]) = cur[p]
    BY <2>2, <2>4 DEF IsShared
  <2> QED BY <2>5, <2>6, <2>7
<1> QED BY <1>0, <1>3, <1>4

\* One command at a time, on a system whose uids all have the same number of
\* digits, takes down no mount of another user's volume
THEOREM OthersKept ==
    ASSUME Alone, \A u, v \in Users : <<u, v>> \in UidPrefix => u = v
    PROVE  Spec => OthersMountsKept
<1>1. AloneInv /\ [Next]_vars =>
        [\A p \in Procs : Unmounts(p) /\ phase[p] # "dead" =>
           \A pt \in Uncovered :
             Head(mounts[pt]) \in Mapper => UserOf(Head(mounts[pt])) = job[p].user]_vars
  <2> SUFFICES ASSUME AloneInv, [Next]_vars, NEW p \in Procs, Unmounts(p), phase[p] # "dead",
                      NEW pt \in Uncovered
               PROVE  UserOf(Head(mounts[pt])) = job[p].user
    OBVIOUS
  <2>1. mounts[pt] = <<cur[p]>>
    BY TakesDownItsOwn
  <2>2. Head(mounts[pt]) = cur[p]
    BY <2>1
  <2>3. /\ pc[p] \in TakeLabels \cap WorkLabels /\ cur[p] \in Mapper /\ job[p] \in Jobs
        /\ phase[p] \in {"sweep", "main", "dead"} /\ WhoseOK(p)
    BY DEF AloneInv, Unmounts, TypeOK, ProcsOK, JobInv, ProcessOK, TakeLabels, WorkLabels
  <2>4. CASE phase[p] = "sweep"
    <3>1. cur[p] \in SweptBy(job[p].user)
      BY <2>3, <2>4 DEF WhoseOK, Sweeps
    <3>2. job[p].user \in Users /\ UserOf(cur[p]) \in Users
      BY <2>3, JobsTyping DEF Mapper, UserOf
    <3> QED BY <2>2, <3>1, <3>2 DEF SweptBy
  <2>5. CASE phase[p] = "main"
    <3>1. cur[p] = <<job[p].user, job[p].device>>
      BY <2>3, <2>5 DEF WhoseOK
    <3> QED BY <2>2, <3>1 DEF UserOf
  <2> QED BY <2>3, <2>4, <2>5
<1> QED BY <1>1, InitAlone, NextAlone, PTL DEF Spec, OthersMountsKept

-----------------------------------------------------------------------------
(* What a sweep takes down *)

\* zuluMount-cli condemns a mapper when its device is gone, and one command at
\* a time opens nothing before it is through with the mapper
GoneInv == \A p \in Procs : Sweeps(p) => mapper[cur[p]] # "live"

LEMMA NextGone ==
    ASSUME Alone, Fronts \subseteq {"zuluMount"}
    PROVE  AloneInv /\ RootInv /\ GoneInv /\ [Next]_vars => GoneInv'
<1> SUFFICES ASSUME AloneInv, RootInv, GoneInv, [Next]_vars, NEW p \in Procs, Sweeps(p)'
             PROVE  mapper'[cur'[p]] # "live"
  BY DEF GoneInv
<1>0. KernelOK /\ ProcsOK /\ PhaseOK(p) /\ pc'[p] \in TakeLabels /\ phase'[p] = "sweep"
  BY DEF AloneInv, TypeOK, ProcessOK, Sweeps
<1>1. ~(Start(p) \/ Return(p) \/ Kill(p))
  BY <1>0 DEF Start, Return, Kill, Vanish, Goto, ProcsOK, TakeLabels
<1>2. ~OpenStep(p)
  <2>1. ASSUME OpenStep(p) PROVE phase[p] = "main" /\ UNCHANGED phase
    BY <1>0, <2>1 DEF PhaseOK, OpenLabels, OpenStep, CreateMountPoint, CheckSharedPath,
       CheckMapper, GetKey, Unlock, Mount, CloseMapperAgain, Undo, Share, BindMount, Exit
  <2> QED BY <1>0, <2>1
<1>3. CASE CloseStep(p)
  <2>1. UNCHANGED <<phase, cur>> /\ pc[p] \in TakeLabels \cup {"close"}
    BY <1>3 DEF CloseStep, Close, Unshare, RemoveShare, ListEntries, UnmountOther, UnmountLast,
                Lock, RemoveMountPoint, Proceed, GiveUp, Leave, Exit, TakeLabels
  <2>2. pc[p] # "close"
    BY <1>0, <2>1 DEF PhaseOK
  <2>3. Sweeps(p) /\ cur[p] \in Mapper
    BY <1>0, <2>1, <2>2 DEF Sweeps, AloneInv, JobInv, TakeLabels, WorkLabels
  <2>4. mapper' = mapper \/ mapper' = [mapper EXCEPT ![cur[p]] = "absent"]
    BY <1>3 DEF CloseStep, Close, Unshare, RemoveShare, ListEntries, UnmountOther, UnmountLast,
                Lock, RemoveMountPoint, kernel
  <2> QED BY <1>0, <2>1, <2>3, <2>4 DEF GoneInv, KernelOK
<1>4. CASE ClearStep(p)
  <2>1. CASE ExamineMapper(p)
    <3>1. root[p] /\ UNCHANGED mapper
      BY <2>1 DEF RootInv, ExamineMapper, kernel
    <3>2. \E m \in todo[p] : LooksDead(p, m) /\ cur' = [cur EXCEPT ![p] = m]
      BY <1>0, <2>1 DEF ExamineMapper, TakeLabels
    <3> QED BY <1>0, <3>1, <3>2 DEF LooksDead, ProcsOK
  <2>2. ~ExamineMapper(p) => pc'[p] \notin TakeLabels \/ phase'[p] # "sweep"
    <3>1. CASE ListMappers(p) \/ ListFolders(p) \/ RemoveFolder(p) \/ ListMounted(p)
      BY <1>0, <3>1 DEF ListMappers, ListFolders, RemoveFolder, ListMounted, Goto, ProcsOK,
                        TakeLabels
    <3>2. CASE EndSweep(p)
      BY <1>0, <3>2 DEF EndSweep, Exit, Goto, ProcsOK, TakeLabels
    <3>3. CASE NextMounted(p)
      BY <1>0, <3>3 DEF NextMounted, Exit, Goto, ProcsOK, PhaseOK, TakeLabels
    <3> QED BY <1>4, <3>1, <3>2, <3>3 DEF ClearStep
  <2> QED BY <1>0, <2>1, <2>2
<1>5. CASE \E d \in Devices : Unplug(d) \/ Plug(d)
  <2>1. UNCHANGED <<pc, phase, cur>>
    BY <1>5 DEF Unplug, Plug, locals
  <2>2. Sweeps(p) /\ cur[p] \in Mapper
    BY <1>0, <2>1 DEF Sweeps, AloneInv, JobInv, TakeLabels, WorkLabels
  <2>3. mapper'[cur[p]] = mapper[cur[p]] \/ mapper'[cur[p]] = "dead"
    BY <1>5, <2>2 DEF Unplug, Plug
  <2> QED BY <2>1, <2>2, <2>3 DEF GoneInv
<1>6. CASE UNCHANGED vars
  BY <1>6 DEF vars, GoneInv, Sweeps
<1>7. \A q \in Procs : q = p
  BY DEF Alone
<1> QED BY <1>1, <1>2, <1>3, <1>4, <1>5, <1>6, <1>7 DEF Next, Step

\* The sweep that precedes a command of zuluMount-cli takes down no mount of a
\* volume whose device is there
THEOREM LiveSpared ==
    ASSUME Alone, Fronts \subseteq {"zuluMount"}
    PROVE  Spec => SweepSparesLive
<1>1. Init => AloneInv /\ RootInv /\ GoneInv
  BY InitAlone DEF Init, RootInv, GoneInv, Sweeps, TakeLabels
<1>2. AloneInv /\ RootInv /\ GoneInv /\ [Next]_vars => (AloneInv /\ RootInv /\ GoneInv)'
  <2>1. AloneInv /\ RootInv /\ [Next]_vars => RootInv'
    BY NextKeepsRoot DEF AloneInv
  <2> QED BY <2>1, NextAlone, NextGone
<1>3. AloneInv /\ GoneInv /\ [Next]_vars =>
        [\A p \in Procs : Unmounts(p) /\ phase[p] = "sweep" =>
           \A pt \in Uncovered :
             Head(mounts[pt]) \in Mapper => mapper[Head(mounts[pt])] # "live"]_vars
  <2> SUFFICES ASSUME AloneInv, GoneInv, [Next]_vars, NEW p \in Procs, Unmounts(p),
                      phase[p] = "sweep", NEW pt \in Uncovered
               PROVE  mapper[Head(mounts[pt])] # "live"
    OBVIOUS
  <2>1. mounts[pt] = <<cur[p]>>
    BY TakesDownItsOwn
  <2>2. Sweeps(p)
    BY DEF Sweeps, Unmounts, TakeLabels
  <2> QED BY <2>1, <2>2 DEF GoneInv
<1> QED BY <1>1, <1>2, <1>3, PTL DEF Spec, SweepSparesLive
=============================================================================
