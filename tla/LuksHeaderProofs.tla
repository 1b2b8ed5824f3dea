------------------------- MODULE LuksHeaderProofs -------------------------
(***************************************************************************)
(* What LuksHeader promises for any keys, slots, paths and processes: its  *)
(* type.  And what it promises when commands run one after the other,      *)
(* killed at any step or not: a reported backup stays what was saved, a    *)
(* restore brings it back, and the last key is not removed without a       *)
(* warning.                                                                *)
(***************************************************************************)
EXTENDS LuksHeader, FiniteSetTheorems, TLAPS

\* What a copy leaves has the type of a file.
LEMMA OverType ==
    ASSUME NEW old \in Files, NEW new \in Files, NEW part \in Parts
    PROVE  WriteOver(old, part, new) \in Files
  BY DEF WriteOver, Files

\* A part of a header that is written over anything is there, and only it changes.
LEMMA OverPart ==
    ASSUME NEW old \in Files, NEW new \in Files, NEW part \in Parts, new[part] \in Headers
    PROVE  /\ WriteOver(old, part, new)[part] = new[part]
           /\ \A other \in Parts \ {part} : WriteOver(old, part, new)[other] = old[other]
  BY HeaderAssumption DEF WriteOver, Files

\* The image of a header is a file that begins with it and has nothing more.
LEMMA ImageType ==
    ASSUME NEW d \in [slots : Headers, areas : Headers]
    PROVE  /\ Image(d) \in Files
           /\ Image(d)["head"] = d.slots
           /\ Image(d)["areas"] = d.areas
           /\ Image(d)["head"] \in Headers
           /\ Image(d)["areas"] \in Headers
           /\ [Image(d) EXCEPT !["areas"] = Nothing] \in Files
  BY DEF Image, Files, Parts

\* A write that is refused leaves the file as it is.
LEMMA WrittenType == \A fault, old, part : Written(fault, old, part) \subseteq BOOLEAN
  BY DEF Written

LEMMA EmptyType == Empty \in Files
  BY DEF Empty, Files

-----------------------------------------------------------------------------
(* Types *)

OutSteps == {"outhead", "outareas", "report"}

InSteps == {"inhead", "inareas"}

PathSteps == {"backup", "copyout", "match", "confirm", "copyin", "restore"} \cup OutSteps \cup InSteps

AddSteps == {"slots", "keys", "add"}

\* A process has on its command line what its step uses of it.
HasArgs ==
    \A p \in Procs :
      /\ pc[p] \in PathSteps => job[p].path \in Paths
      /\ pc[p] \in AddSteps => job[p].new \in Keys
      /\ pc[p] = "confirm" => job[p].ask \in BOOLEAN

\* A change of one slot keeps the type of the header.
LEMMA SetSlotType ==
    ASSUME TypeOK, NEW s \in Slots, NEW k \in Keys \cup {NoKey}, SetSlot(s, k)
    PROVE  disk' \in [slots : Headers, areas : Headers]
  BY DEF TypeOK, SetSlot, Headers

\* The commands find the arguments they use on their command lines.
LEMMA JobType ==
    ASSUME NEW j \in Jobs
    PROVE  /\ j.op \in OpNames
           /\ j.op \in {"save", "compare", "restore"} => j.path \in Paths
           /\ j.op = "add" => j.new \in Keys
           /\ j.op = "save" => j.root \in Roots
           /\ j.op = "restore" => j.ask \in BOOLEAN
  BY HeaderAssumption DEF Jobs, OpNames

LEMMA InitTypes == Init => TypeOK /\ HasArgs
<1> SUFFICES ASSUME Init PROVE TypeOK /\ HasArgs
  OBVIOUS
<1>1. disk \in [slots : Headers, areas : Headers]
  BY HeaderAssumption DEF Init, Headers
<1>2. file \in [Paths -> Files]
  BY EmptyType DEF Init, Files
<1>3. temp \in [{"in", "out"} -> [Procs -> Files]]
  BY EmptyType DEF Init
<1> QED
  BY <1>1, <1>2, <1>3, EmptyType DEF Init, TypeOK, HasArgs, PathSteps, OutSteps, InSteps, AddSteps

\* A process that exits has no type to lose.
LEMMA ExitTypes ==
    ASSUME TypeOK, HasArgs, NEW p \in Procs, Exit(p),
           disk' \in [slots : Headers, areas : Headers], file' \in [Paths -> Files],
           temp' \in [{"in", "out"} -> [Procs -> Files]], saved' \in [Paths -> Files],
           readonly' \subseteq Paths
    PROVE  TypeOK' /\ HasArgs'
  BY DEF TypeOK, HasArgs, PathSteps, OutSteps, InSteps, AddSteps, Exit, Goto

\* A process that goes on keeps its arguments.
LEMMA GotoTypes ==
    ASSUME TypeOK, HasArgs, NEW p \in Procs,
           NEW l \in {"keys", "add", "remove"} \cup PathSteps, Goto(p, l),
           l \in PathSteps => pc[p] \in PathSteps, l \in AddSteps => pc[p] \in AddSteps,
           l # "confirm",
           job' = job, asked' \in [Procs -> {"no", "yes", "blind"}], disk' = disk,
           file' \in [Paths -> Files], temp' \in [{"in", "out"} -> [Procs -> Files]],
           readonly' = readonly, saved' = saved
    PROVE  TypeOK' /\ HasArgs'
  BY DEF TypeOK, HasArgs, PathSteps, OutSteps, InSteps, AddSteps, Goto

LEMMA NextTypes == TypeOK /\ HasArgs /\ [Next]_vars => TypeOK' /\ HasArgs'
<1> SUFFICES ASSUME TypeOK, HasArgs, [Next]_vars PROVE TypeOK' /\ HasArgs'
  OBVIOUS
<1> USE DEF PathSteps, OutSteps, InSteps, AddSteps
<1>1. CASE UNCHANGED vars
  BY <1>1 DEF vars, TypeOK, HasArgs
<1>2. ASSUME NEW p \in Procs, Start(p) PROVE TypeOK' /\ HasArgs'
  <2>1. PICK j \in Jobs : job' = [job EXCEPT ![p] = j] /\ Goto(p, FirstStep[j.op])
    BY <1>2 DEF Start
  <2>2. /\ FirstStep[j.op] \in {"slots", "last", "backup", "confirm", "copyin"}
        /\ FirstStep[j.op] \in PathSteps => j.path \in Paths
        /\ FirstStep[j.op] \in AddSteps => j.new \in Keys
        /\ FirstStep[j.op] = "confirm" => j.ask \in BOOLEAN
    BY JobType DEF FirstStep, OpNames
  <2> QED
    BY <1>2, <2>1, <2>2 DEF Start, Goto, TypeOK, HasArgs
<1>3. ASSUME NEW p \in Procs, NEW step, Fail(p, step) PROVE TypeOK' /\ HasArgs'
  BY <1>3, ExitTypes DEF Fail, TypeOK
<1>4. ASSUME NEW p \in Procs, AddCheck(p) PROVE TypeOK' /\ HasArgs'
  BY <1>4, GotoTypes DEF AddCheck, TypeOK
<1>5. ASSUME NEW p \in Procs, AddKeys(p) PROVE TypeOK' /\ HasArgs'
  BY <1>5, GotoTypes DEF AddKeys, TypeOK
<1>6. ASSUME NEW p \in Procs, AddKey(p) PROVE TypeOK' /\ HasArgs'
  <2>1. PICK s \in Slots : SetSlot(s, job[p].new)
    BY <1>6 DEF AddKey
  <2>2. disk' \in [slots : Headers, areas : Headers]
    BY <1>6, <2>1, SetSlotType DEF AddKey, HasArgs
  <2> QED
    BY <1>6, <2>2, ExitTypes DEF AddKey, TypeOK
<1>7. ASSUME NEW p \in Procs, RemoveCheck(p) PROVE TypeOK' /\ HasArgs'
  <2>1. asked' \in [Procs -> {"no", "yes", "blind"}]
    BY <1>7 DEF RemoveCheck, TypeOK
  <2> QED
    BY <1>7, <2>1, GotoTypes DEF RemoveCheck, TypeOK
<1>8. ASSUME NEW p \in Procs, RemoveKey(p) PROVE TypeOK' /\ HasArgs'
  <2>1. PICK s \in Slots : SetSlot(s, NoKey)
    BY <1>8 DEF RemoveKey
  <2>2. disk' \in [slots : Headers, areas : Headers]
    BY <2>1, SetSlotType
  <2> QED
    BY <1>8, <2>2, ExitTypes DEF RemoveKey, TypeOK
<1>9. ASSUME NEW p \in Procs, Backup(p) PROVE TypeOK' /\ HasArgs'
  <2>1. temp' \in [{"in", "out"} -> [Procs -> Files]]
    BY <1>9, ImageType DEF Backup, TypeOK
  <2> QED
    BY <1>9, <2>1, GotoTypes DEF Backup, TypeOK
<1>10. ASSUME NEW p \in Procs, BackupFails(p) PROVE TypeOK' /\ HasArgs'
  <2>1. temp' \in [{"in", "out"} -> [Procs -> Files]]
    BY <1>10, EmptyType, ImageType DEF BackupFails, PartialBackup, TypeOK
  <2> QED
    BY <1>10, <2>1, ExitTypes DEF BackupFails, TypeOK
<1>11. ASSUME NEW p \in Procs, CopyOutDenied(p) PROVE TypeOK' /\ HasArgs'
  <2>1. temp' \in [{"in", "out"} -> [Procs -> Files]]
    BY <1>11, EmptyType DEF CopyOutDenied, TypeOK
  <2> QED
    BY <1>11, <2>1, ExitTypes DEF CopyOutDenied, TypeOK
<1>12. ASSUME NEW p \in Procs, CopyOut(p) PROVE TypeOK' /\ HasArgs'
  <2>1. job[p].path \in Paths /\ temp["out"][p] \in Files /\ file[job[p].path] \in Files
    BY <1>12 DEF CopyOut, TypeOK, HasArgs
  <2>2. PICK part \in Parts, next \in {"outareas", "report"} : WriteOut(p, part, next)
    BY <1>12 DEF CopyOut, Parts
  <2>3. PICK written \in BOOLEAN :
          /\ file' = IF written
                     THEN [file EXCEPT ![job[p].path] = WriteOver(@, part, temp["out"][p])] ELSE file
          /\ Goto(p, IF written THEN next ELSE "report")
    BY <2>2, WrittenType DEF WriteOut
  <2>4. file' \in [Paths -> Files]
    BY <2>1, <2>3, OverType DEF TypeOK
  <2> QED
    BY <1>12, <2>3, <2>4, GotoTypes DEF CopyOut, TypeOK
<1>13. ASSUME NEW p \in Procs, Confirm(p) PROVE TypeOK' /\ HasArgs'
  <2>1. asked' \in [Procs -> {"no", "yes", "blind"}]
    BY <1>13 DEF Confirm, TypeOK, HasArgs
  <2> QED
    BY <1>13, <2>1, GotoTypes DEF Confirm, TypeOK
<1>14. ASSUME NEW p \in Procs, CopyIn(p) PROVE TypeOK' /\ HasArgs'
  <2> DEFINE last == IF job[p].op = "restore" THEN "restore" ELSE "backup"
  <2>1. job[p].path \in Paths /\ temp["in"][p] \in Files /\ file[job[p].path] \in Files
    BY <1>14 DEF CopyIn, TypeOK, HasArgs
  <2>2. PICK part \in Parts, next \in {"inareas", last} : WriteIn(p, part, next, last)
    BY <1>14 DEF CopyIn, Parts
  <2>3. PICK written \in BOOLEAN :
          /\ temp' = IF written
                     THEN [temp EXCEPT !["in"][p] = WriteOver(@, part, file[job[p].path])] ELSE temp
          /\ Goto(p, IF written THEN next ELSE last)
    BY <2>2, WrittenType DEF WriteIn
  <2>4. temp' \in [{"in", "out"} -> [Procs -> Files]]
    BY <2>1, <2>3, OverType DEF TypeOK
  <2>5. pc[p] \in PathSteps
    BY <1>14 DEF CopyIn
  <2> QED
    BY <1>14, <2>3, <2>4, <2>5, GotoTypes DEF CopyIn, TypeOK
<1>15. ASSUME NEW p \in Procs, Restore(p) PROVE TypeOK' /\ HasArgs'
  <2>1. temp' \in [{"in", "out"} -> [Procs -> Files]]
    BY <1>15, EmptyType DEF Restore, TypeOK
  <2>2. disk' \in [slots : Headers, areas : Headers]
    BY <1>15 DEF Restore, TypeOK
  <2> QED
    BY <1>15, <2>1, <2>2, ExitTypes DEF Restore, TypeOK
<1>16. ASSUME NEW p \in Procs, Match(p) PROVE TypeOK' /\ HasArgs'
  <2>1. temp' \in [{"in", "out"} -> [Procs -> Files]]
    BY <1>16, EmptyType DEF Match, TypeOK
  <2> QED
    BY <1>16, <2>1, ExitTypes DEF Match, TypeOK
<1>17. ASSUME NEW p \in Procs, Kill(p) PROVE TypeOK' /\ HasArgs'
  <2>1. temp' \in [{"in", "out"} -> [Procs -> Files]]
    BY <1>17, ImageType DEF Kill, PartialBackup, TypeOK
  <2> QED
    BY <1>17, <2>1, ExitTypes DEF Kill, TypeOK
<1>18. ASSUME NEW p \in Procs, OpenOut(p) PROVE TypeOK' /\ HasArgs'
  BY <1>18, GotoTypes DEF OpenOut, TypeOK
<1>19. ASSUME NEW p \in Procs, OpenIn(p) PROVE TypeOK' /\ HasArgs'
  BY <1>19, GotoTypes DEF OpenIn, TypeOK
<1>20. ASSUME NEW p \in Procs, Report(p) PROVE TypeOK' /\ HasArgs'
  <2>1. job[p].path \in Paths /\ temp["out"][p] \in Files
    BY <1>20 DEF Report, TypeOK, HasArgs
  <2>2. temp' \in [{"in", "out"} -> [Procs -> Files]] /\ saved' \in [Paths -> Files]
    BY <1>20, <2>1, EmptyType DEF Report, TypeOK
  <2>3. readonly' \subseteq Paths
    BY <1>20, <2>1 DEF Report, MakeReadonly, TypeOK
  <2> QED
    BY <1>20, <2>2, <2>3, ExitTypes DEF Report, TypeOK
<1> QED
  BY <1>1, <1>2, <1>3, <1>4, <1>5, <1>6, <1>7, <1>8, <1>9, <1>10, <1>11, <1>12, <1>13,
     <1>14, <1>15, <1>16, <1>17, <1>18, <1>19, <1>20 DEF Next, Add, Remove, Copy

\* Every variable keeps its type, whatever commands run together and are killed.
THEOREM Typing == Spec => []TypeOK
<1>1. Spec => [](TypeOK /\ HasArgs)
  BY InitTypes, NextTypes, PTL DEF Spec
<1> QED
  BY <1>1, PTL

-----------------------------------------------------------------------------
(* A reported backup, when one command runs after the other *)

\* What crypt_header_backup() has made is a whole header until it is deleted.
CopyWhole ==
    \A p \in Procs : pc[p] \in {"copyout"} \cup OutSteps =>
        temp["out"][p]["head"] \in Headers /\ temp["out"][p]["areas"] \in Headers

\* Who writes to a path has opened it before it was reported.
WritesBehind ==
    \A p \in Procs : pc[p] \in OutSteps =>
        /\ job[p].path \notin readonly
        /\ pc[p] # "outhead" => file[job[p].path]["head"] = temp["out"][p]["head"]
        /\ pc[p] = "report" => file[job[p].path]["areas"] = temp["out"][p]["areas"]

\* What was reported is a header, and nobody but root may open it for writing.
SavedClosed ==
    \A f \in Paths : saved[f] # Empty =>
        f \in readonly /\ saved[f]["head"] \in Headers /\ saved[f]["areas"] \in Headers

\* Only who saves a header opens a path for writing.
Saving == \A p \in Procs : pc[p] = "copyout" => job[p].op = "save"

SaveInv ==
    TypeOK /\ HasArgs /\ CopyWhole /\ WritesBehind /\ SavedClosed /\ Saving /\ SavedIsComplete
SaveParts == CopyWhole /\ WritesBehind /\ SavedClosed /\ Saving /\ SavedIsComplete

LEMMA InitSave == Init => SaveInv
<1> SUFFICES ASSUME Init PROVE SaveParts
  BY InitTypes DEF SaveInv, SaveParts
<1> QED
  BY DEF Init, SaveParts, CopyWhole, WritesBehind, SavedClosed, Saving, SavedIsComplete, OutSteps

\* A save is the only command that comes to the steps of _secure_copy_file().
LEMMA NextSave ==
    ASSUME NEW q, Procs = {q}, Roots \subseteq {FALSE}, {"full", "chmod"} \cap Faults = {},
           SaveInv, [Next]_vars
    PROVE  SaveInv'
<1> USE DEF SaveInv, SaveParts
<1>1. TypeOK' /\ HasArgs'
  BY NextTypes
<1> SUFFICES SaveParts'
  BY <1>1
<1>2. ASSUME UNCHANGED <<file, saved, readonly>>, pc'[q] \notin {"copyout"} \cup OutSteps
      PROVE  SaveParts'
  BY <1>2 DEF CopyWhole, WritesBehind, SavedClosed, Saving, SavedIsComplete, OutSteps
<1>3. CASE UNCHANGED vars
  BY <1>3 DEF vars, CopyWhole, WritesBehind, SavedClosed, Saving, SavedIsComplete, OutSteps
<1>4. CASE Start(q)
  <2>1. PICK j \in Jobs : Goto(q, FirstStep[j.op])
    BY <1>4 DEF Start
  <2>2. FirstStep[j.op] \in {"slots", "last", "backup", "confirm", "copyin"}
    BY JobType DEF FirstStep, OpNames
  <2>3. pc'[q] \notin {"copyout"} \cup OutSteps
    BY <2>1, <2>2 DEF Goto, TypeOK, OutSteps
  <2> QED
    BY <1>2, <1>4, <2>3 DEF Start
<1>5. CASE Add(q)
  BY <1>2, <1>5 DEF Add, AddCheck, AddKeys, AddKey, Fail, Exit, Goto, TypeOK, OutSteps
<1>6. CASE Remove(q)
  BY <1>2, <1>6 DEF Remove, RemoveCheck, RemoveKey, Fail, Exit, Goto, TypeOK, OutSteps
<1>7. CASE Backup(q)
  <2>1. temp'["out"][q] = Image(disk)
    BY <1>7 DEF Backup, TypeOK
  <2>2. Image(disk)["head"] \in Headers /\ Image(disk)["areas"] \in Headers
    BY ImageType DEF TypeOK
  <2>3. pc'[q] \in {"copyout", "match"} /\ (pc'[q] = "copyout" => job'[q].op = "save")
    BY <1>7 DEF Backup, Goto, TypeOK
  <2>4. CopyWhole' /\ Saving'
    BY <2>1, <2>2, <2>3 DEF CopyWhole, Saving
  <2> QED
    BY <1>7, <2>3, <2>4 DEF Backup, WritesBehind, SavedClosed, SavedIsComplete, OutSteps
<1>8. CASE OpenOut(q)
  <2>1. job[q] \in Jobs /\ job[q].op = "save"
    BY <1>8 DEF OpenOut, Saving, TypeOK, NoJob
  <2>2. ~job[q].root
    BY <2>1, JobType
  <2>3. pc'[q] = "outhead" /\ job[q].path \notin readonly
    BY <1>8, <2>2 DEF OpenOut, Goto, TypeOK
  <2> QED
    BY <1>8, <2>3 DEF OpenOut, CopyWhole, WritesBehind, SavedClosed, Saving, SavedIsComplete,
       OutSteps
<1>9. ASSUME CopyOut(q) PROVE SaveParts'
  <2> DEFINE path == job[q].path
             copy == temp["out"][q]
  <2>1. /\ path \in Paths /\ copy \in Files /\ file[path] \in Files
        /\ copy["head"] \in Headers /\ copy["areas"] \in Headers
        /\ path \notin readonly /\ saved[path] = Empty
    BY <1>9 DEF CopyOut, TypeOK, HasArgs, PathSteps, OutSteps, CopyWhole, WritesBehind, SavedClosed
  <2>2. ASSUME NEW part \in Parts, NEW next \in {"outareas", "report"}, WriteOut(q, part, next)
        PROVE  /\ file' = [file EXCEPT ![path] = WriteOver(file[path], part, copy)]
               /\ Goto(q, next)
    BY <2>2 DEF WriteOut, Written
  <2>3. ASSUME NEW part \in Parts, NEW next, Goto(q, next),
               file' = [file EXCEPT ![path] = WriteOver(file[path], part, copy)]
        PROVE  /\ file'[path][part] = copy[part]
               /\ \A other \in Parts \ {part} : file'[path][other] = file[path][other]
               /\ \A f \in Paths \ {path} : file'[f] = file[f]
               /\ pc'[q] = next
    <3>1. copy[part] \in Headers
      BY <2>1 DEF Parts
    <3>2. file'[path] = WriteOver(file[path], part, copy)
      BY <2>1, <2>3 DEF TypeOK
    <3>3. /\ WriteOver(file[path], part, copy)[part] = copy[part]
          /\ \A other \in Parts \ {part} : WriteOver(file[path], part, copy)[other] = file[path][other]
      BY <2>1, <3>1, OverPart
    <3>4. \A f \in Paths \ {path} : file'[f] = file[f]
      BY <2>3 DEF TypeOK
    <3>5. pc'[q] = next
      BY <2>3 DEF Goto, TypeOK
    <3> QED
      BY <3>2, <3>3, <3>4, <3>5
  <2>4. UNCHANGED <<temp, job, readonly, saved>>
    BY <1>9 DEF CopyOut
  <2>5. SavedClosed' /\ CopyWhole'
    BY <1>9, <2>1, <2>4 DEF SavedClosed, CopyWhole, CopyOut, OutSteps
  <2>6. WritesBehind' /\ Saving' /\ (\A f \in Paths \ {path} : file'[f] = file[f])
    <3>1. CASE pc[q] = "outhead" /\ WriteOut(q, "head", "outareas")
      BY <2>1, <2>2, <2>3, <2>4, <3>1 DEF WritesBehind, Saving, Parts, OutSteps
    <3>2. CASE pc[q] = "outareas" /\ WriteOut(q, "areas", "report")
      BY <2>1, <2>2, <2>3, <2>4, <3>2 DEF WritesBehind, Saving, Parts, OutSteps
    <3> QED
      BY <1>9, <3>1, <3>2 DEF CopyOut
  <2> QED
    BY <2>1, <2>4, <2>5, <2>6 DEF SavedIsComplete
<1>10. ASSUME Report(q) PROVE SaveParts'
  <2> DEFINE path == job[q].path
             copy == temp["out"][q]
  <2>1. /\ path \in Paths /\ copy \in Files /\ file[path] \in Files
        /\ copy["head"] \in Headers /\ copy["areas"] \in Headers
        /\ file[path]["head"] = copy["head"] /\ file[path]["areas"] = copy["areas"]
    BY <1>10 DEF Report, TypeOK, HasArgs, PathSteps, OutSteps, CopyWhole, WritesBehind
  <2>2. file[path] = copy
    BY <2>1 DEF Files, Parts
  <2>3. /\ readonly' = readonly \cup {path} /\ saved' = [saved EXCEPT ![path] = copy]
        /\ pc'[q] = "idle" /\ file' = file
    BY <1>10 DEF Report, MakeReadonly, Exit, Goto, TypeOK
  <2> QED
    BY <2>1, <2>2, <2>3 DEF CopyWhole, WritesBehind, SavedClosed, Saving, SavedIsComplete,
       OutSteps, TypeOK
<1>11. ASSUME \/ BackupFails(q) \/ CopyOutDenied(q) \/ Confirm(q) \/ OpenIn(q) \/ CopyIn(q)
              \/ Restore(q) \/ Match(q) \/ (\E step \in {"confirm", "copyin"} : Fail(q, step))
              \/ Kill(q)
       PROVE  SaveParts'
  <2>1. UNCHANGED <<file, saved, readonly>>
    BY <1>11 DEF BackupFails, CopyOutDenied, Confirm, OpenIn, CopyIn, Restore, Match, Fail, Kill
  <2>2. pc'[q] \in {"idle", "copyin", "inhead", "inareas", "restore", "backup"}
    BY <1>11 DEF BackupFails, CopyOutDenied, Confirm, OpenIn, CopyIn, WriteIn, Restore, Match, Fail,
       Kill, Exit, Goto, TypeOK
  <2> QED
    BY <1>2, <2>1, <2>2 DEF OutSteps
<1> QED
  BY <1>3, <1>4, <1>5, <1>6, <1>7, <1>8, <1>9, <1>10, <1>11 DEF Next, Copy

\* When commands run one after the other, what _save_header() has reported as
\* saved is at its path, and no later command breaks it wherever it is killed:
\* provided nobody saves as root, chmod() works and writes find space.
THEOREM Saved ==
    ASSUME NEW q, Procs = {q}, Roots \subseteq {FALSE}, {"full", "chmod"} \cap Faults = {}
    PROVE  Spec => []SavedIsComplete
<1>1. SaveInv /\ [Next]_vars => SaveInv'
  BY NextSave
<1>2. SaveInv => SavedIsComplete
  BY DEF SaveInv
<1> QED
  BY <1>1, <1>2, InitSave, PTL DEF Spec

-----------------------------------------------------------------------------
(* The last key, when one command runs after the other *)

\* Who removes a key has been asked if it is the last, or has not seen the slots.
LastAsked ==
    \A p \in Procs : pc[p] = "remove" /\ LastKey(p) =>
        asked[p] \in {"yes", "blind"} \/ ~job[p].ask

\* With one process the header does not change between the look at the slots
\* and the removal.
LEMMA NextAsked ==
    ASSUME NEW q, Procs = {q}, TypeOK, LastAsked, [Next]_vars
    PROVE  LastAsked'
<1>1. ASSUME UNCHANGED <<disk, job, asked>>, pc'[q] = "remove" => pc[q] = "remove"
      PROVE  LastAsked'
  BY <1>1 DEF LastAsked, LastKey, Active
<1>2. ASSUME pc'[q] # "remove" PROVE LastAsked'
  BY <1>2 DEF LastAsked
<1>3. CASE UNCHANGED vars
  BY <1>1, <1>3 DEF vars
<1>4. CASE Start(q)
  <2>1. PICK j \in Jobs : Goto(q, FirstStep[j.op])
    BY <1>4 DEF Start
  <2>2. FirstStep[j.op] # "remove"
    BY JobType DEF FirstStep, OpNames
  <2> QED
    BY <1>2, <2>1, <2>2 DEF Goto, TypeOK
<1>5. CASE RemoveCheck(q)
  BY <1>5 DEF RemoveCheck, LastAsked, LastKey, Active, TypeOK
<1>6. CASE \/ Add(q) \/ RemoveKey(q) \/ Copy(q) \/ Kill(q)
           \/ \E step \in {"last", "remove"} : Fail(q, step)
  <2>1. pc'[q] \in {"idle", "keys", "add"} \cup PathSteps
    BY <1>6 DEF Add, AddCheck, AddKeys, AddKey, RemoveKey, Copy, Backup, BackupFails, OpenOut,
       CopyOut, WriteOut, CopyOutDenied, Report, Confirm, OpenIn, CopyIn, WriteIn, Restore, Match,
       Fail, Kill, Exit, Goto, TypeOK, PathSteps, OutSteps, InSteps
  <2> QED
    BY <1>2, <2>1 DEF PathSteps, OutSteps, InSteps
<1> QED
  BY <1>3, <1>4, <1>5, <1>6 DEF Next, Remove

\* A removal that leaves no key found exactly one.
LEMMA LeavesNone ==
    ASSUME TypeOK, NEW p \in Procs, RemoveKey(p), Active # {}, Active' = {}
    PROVE  LastKey(p)
<1>1. PICK s \in Slots : SetSlot(s, NoKey)
  BY DEF RemoveKey
<1>2. \A t \in Slots \ {s} : t \notin Active
  BY <1>1 DEF SetSlot, Active, TypeOK, Headers
<1>3. Active = {s}
  BY <1>2 DEF Active
<1> QED
  BY <1>3, FS_Singleton DEF LastKey

\* When commands run one after the other, killed or not, the last key of a
\* volume goes only if the user was warned, or gave -k, or the look at the slots
\* failed.
THEOREM LastKeyKept ==
    ASSUME NEW q, Procs = {q}
    PROVE  Spec => LastKeyWarned
<1> DEFINE Step == \A p \in Procs :
             (pc[p] = "remove" /\ Active # {} /\ Active' = {})
               => (asked[p] \in {"yes", "blind"} \/ ~job[p].ask)
<1>1. Init => LastAsked
  BY DEF Init, LastAsked
<1>2. TypeOK /\ LastAsked /\ [Next]_vars => LastAsked'
  BY NextAsked
<1>3. TypeOK /\ LastAsked /\ [Next]_vars => [Step]_vars
  <2> SUFFICES ASSUME TypeOK, LastAsked, Next, NEW p \in Procs,
                      pc[p] = "remove", Active # {}, Active' = {}
               PROVE  asked[p] \in {"yes", "blind"} \/ ~job[p].ask
    OBVIOUS
  <2>1. disk' # disk
    BY DEF Active
  <2>2. RemoveKey(p)
    BY <2>1 DEF Next, Start, Add, AddCheck, AddKeys, AddKey, Remove, RemoveCheck, Copy, Backup,
       BackupFails, OpenOut, CopyOut, CopyOutDenied, Report, Confirm, OpenIn, CopyIn, Restore,
       Match, Fail, Kill
  <2> QED
    BY <2>2, LeavesNone DEF LastAsked
<1>4. Spec => [](TypeOK /\ LastAsked)
  BY <1>1, <1>2, Typing, PTL DEF Spec
<1> QED
  BY <1>3, <1>4, PTL DEF Spec, LastKeyWarned

-----------------------------------------------------------------------------
(* What a restore brings back *)

\* The copy a restore works on is the header that was saved there, as far as it
\* goes, whatever an earlier process left in the file it was made over; where it
\* ends early it is no header.
CopyIsSaved ==
    \A p \in Procs : pc[p] \in {"inareas", "restore"} /\ saved[job[p].path] # Empty =>
        /\ temp["in"][p]["head"] \in {Nothing, saved[job[p].path]["head"]}
        /\ pc[p] = "restore" =>
             \/ temp["in"][p] = saved[job[p].path]
             \/ Nothing \in {temp["in"][p]["head"], temp["in"][p]["areas"]}

LEMMA NextCopyIsSaved ==
    ASSUME NEW q, Procs = {q}, SaveInv, CopyIsSaved, [Next]_vars
    PROVE  CopyIsSaved'
<1>1. ASSUME pc'[q] \notin {"inareas", "restore"} PROVE CopyIsSaved'
  BY <1>1 DEF CopyIsSaved
<1>2. CASE UNCHANGED vars
  BY <1>2 DEF vars, CopyIsSaved
<1>3. CASE Start(q)
  <2>1. PICK j \in Jobs : Goto(q, FirstStep[j.op])
    BY <1>3 DEF Start
  <2>2. FirstStep[j.op] \notin {"inareas", "restore"}
    BY JobType DEF FirstStep, OpNames
  <2> QED
    BY <1>1, <2>1, <2>2 DEF Goto, SaveInv, TypeOK
<1>4. CASE CopyIn(q)
  <2> DEFINE path == job[q].path
             old == temp["in"][q]
             new == temp'["in"][q]
             last == IF job[q].op = "restore" THEN "restore" ELSE "backup"
  <2>1. path \in Paths /\ old \in Files /\ file[path] \in Files
    BY <1>4 DEF CopyIn, SaveInv, TypeOK, HasArgs, PathSteps, InSteps
  <2>2. UNCHANGED <<job, saved>>
    BY <1>4 DEF CopyIn
  <2> SUFFICES ASSUME saved[path] # Empty
               PROVE  /\ pc'[q] \in {"inareas", "restore"} => new["head"] \in {Nothing, saved[path]["head"]}
                      /\ pc'[q] = "restore" => new = saved[path] \/ Nothing \in {new["head"], new["areas"]}
    BY <2>2 DEF CopyIsSaved
  <2>3. /\ file[path] = saved[path]
        /\ file[path]["head"] \in Headers /\ file[path]["areas"] \in Headers
    BY <2>1 DEF SaveInv, SavedClosed, SavedIsComplete
  <2>4. ASSUME NEW part \in Parts, NEW next \in {"inareas", last}, WriteIn(q, part, next, last)
        PROVE  \/ /\ new = WriteOver(old, part, file[path])
                  /\ pc'[q] = next
               \/ new = old /\ old[part] = Nothing /\ pc'[q] = last
    <3>1. PICK written \in Written("runfull", old, part) :
            /\ temp' = IF written
                       THEN [temp EXCEPT !["in"][q] = WriteOver(@, part, file[path])] ELSE temp
            /\ Goto(q, IF written THEN next ELSE last)
      BY <2>4 DEF WriteIn
    <3>2. written \in BOOLEAN /\ (~written => old[part] = Nothing)
      BY <3>1 DEF Written
    <3> QED
      BY <3>1, <3>2 DEF Goto, SaveInv, TypeOK
  <2>5. CASE pc[q] = "inhead" /\ WriteIn(q, "head", "inareas", last)
    <3>1. new = WriteOver(old, "head", file[path]) => new["head"] = saved[path]["head"]
      BY <2>1, <2>3, OverPart DEF Parts
    <3>2. \/ new = WriteOver(old, "head", file[path]) /\ pc'[q] = "inareas"
          \/ new = old /\ old["head"] = Nothing /\ pc'[q] = last
      BY <2>4, <2>5 DEF Parts
    <3> QED
      BY <3>1, <3>2
  <2>6. CASE pc[q] = "inareas" /\ WriteIn(q, "areas", last, last)
    <3>1. old["head"] \in {Nothing, saved[path]["head"]}
      BY <2>6 DEF CopyIsSaved
    <3>2. ASSUME new = WriteOver(old, "areas", file[path])
          PROVE  new["head"] = old["head"] /\ new["areas"] = saved[path]["areas"] /\ new \in Files
      <4>1. {"head", "areas"} = Parts
        BY DEF Parts
      <4>2. /\ WriteOver(old, "areas", file[path])["areas"] = file[path]["areas"]
            /\ \A other \in Parts \ {"areas"} : WriteOver(old, "areas", file[path])[other] = old[other]
        BY <2>1, <2>3, <4>1, OverPart
      <4>3. WriteOver(old, "areas", file[path]) \in Files
        BY <2>1, <4>1, OverType
      <4> QED
        BY <2>3, <3>2, <4>1, <4>2, <4>3
    <3>3. ASSUME new = WriteOver(old, "areas", file[path]), old["head"] # Nothing
          PROVE  new = saved[path]
      BY <2>1, <2>3, <3>1, <3>2, <3>3 DEF Parts, Files
    <3>4. \/ new = WriteOver(old, "areas", file[path])
          \/ new = old /\ old["areas"] = Nothing
      BY <2>4, <2>6 DEF Parts
    <3>5. CASE new = old /\ old["areas"] = Nothing
      BY <3>1, <3>5
    <3>6. CASE new = WriteOver(old, "areas", file[path])
      <4>1. new["head"] = old["head"] /\ (old["head"] = Nothing \/ new = saved[path])
        BY <3>2, <3>3, <3>6
      <4> QED
        BY <3>1, <4>1
    <3> QED
      BY <3>4, <3>5, <3>6
  <2> QED
    BY <1>4, <2>5, <2>6 DEF CopyIn
<1>5. CASE \/ Add(q) \/ Remove(q) \/ Backup(q) \/ BackupFails(q) \/ OpenOut(q) \/ CopyOut(q)
           \/ CopyOutDenied(q) \/ Report(q) \/ Confirm(q) \/ OpenIn(q) \/ Restore(q) \/ Match(q)
           \/ Kill(q) \/ \E step \in {"confirm", "copyin"} : Fail(q, step)
  <2>1. pc'[q] \in {"idle", "keys", "add", "remove", "copyout", "match", "copyin", "inhead"} \cup OutSteps
    BY <1>5 DEF Add, AddCheck, AddKeys, AddKey, Remove, RemoveCheck, RemoveKey, Backup,
       BackupFails, OpenOut, CopyOut, WriteOut, CopyOutDenied, Report, Confirm, OpenIn, Restore,
       Match, Fail, Kill, Exit, Goto, SaveInv, TypeOK, OutSteps
  <2> QED
    BY <1>1, <2>1 DEF OutSteps
<1> QED
  BY <1>2, <1>3, <1>4, <1>5 DEF Next, Copy

\* When commands run one after the other, killed at any step or not, what a
\* restore puts on the device is what was last reported as saved at its path, also
\* when a later save to it was killed and when the restore finds no space for its
\* copy: provided nobody saves as root, chmod() works and saves find space.
THEOREM Restored ==
    ASSUME NEW q, Procs = {q}, Roots \subseteq {FALSE}, {"full", "chmod"} \cap Faults = {}
    PROVE  Spec => RestoredIsSaved
<1> DEFINE Step == \A p \in Procs :
             (pc[p] = "restore" /\ disk' # disk /\ saved[job[p].path] # Empty)
               => Image(disk') = saved[job[p].path]
<1>1. Init => CopyIsSaved
  BY DEF Init, CopyIsSaved
<1>2. SaveInv /\ CopyIsSaved /\ [Next]_vars => SaveInv' /\ CopyIsSaved'
  BY NextSave, NextCopyIsSaved
<1>3. SaveInv /\ CopyIsSaved /\ [Next]_vars => [Step]_vars
  <2> SUFFICES ASSUME SaveInv, CopyIsSaved, Next, NEW p \in Procs, pc[p] = "restore",
                      disk' # disk, saved[job[p].path] # Empty
               PROVE  Image(disk') = saved[job[p].path]
    OBVIOUS
  <2> DEFINE path == job[p].path
             copy == temp["in"][p]
  <2>1. Restore(p)
    BY DEF Next, Start, Add, AddCheck, AddKeys, AddKey, Remove, RemoveCheck, RemoveKey, Copy,
       Backup, BackupFails, OpenOut, CopyOut, CopyOutDenied, Report, Confirm, OpenIn, CopyIn,
       Match, Fail, Kill
  <2>2. /\ copy["head"] \in Headers /\ copy["areas"] \in Headers
        /\ disk' = [slots |-> copy["head"], areas |-> copy["areas"]]
    BY <2>1 DEF Restore
  <2>3. copy = saved[path] /\ copy \in Files
    BY <2>2, HeaderAssumption DEF SaveInv, TypeOK, CopyIsSaved
  <2>4. \A part \in Parts : Image(disk')[part] = copy[part]
    BY <2>2 DEF Image, Parts
  <2> QED
    BY <2>3, <2>4 DEF Image, Files
<1>4. Spec => [](SaveInv /\ CopyIsSaved)
  BY <1>1, <1>2, InitSave, PTL DEF Spec
<1> QED
  BY <1>3, <1>4, PTL DEF Spec, RestoredIsSaved
=============================================================================
