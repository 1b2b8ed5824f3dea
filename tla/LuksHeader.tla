----------------------------- MODULE LuksHeader -----------------------------
(***************************************************************************)
(* The header of one LUKS volume and the commands of zuluCrypt-cli that    *)
(* change it or copy it: a key is added (a), removed (r), the header is    *)
(* saved to a file (B), restored from one (R) and compared with one (H).   *)
(* Each looks at the header first and asks libcryptsetup to change it      *)
(* later, with the metadata locks switched off in main().  Headers travel  *)
(* through files in /run/zuluCrypt named after the thread id of the        *)
(* process, an id that is used again once its process is gone.             *)
(***************************************************************************)
EXTENDS Integers, FiniteSets

CONSTANTS
    SlotCount,  \* key slots of the header, 8 in LUKS1 and 32 in LUKS2
    Keys,       \* passphrases and key files
    FirstKey,   \* the key the volume was created with
    Paths,      \* where users save headers to and restore them from
    Ops,        \* the commands people run, of OpNames
    Asks,       \* is confirmation asked for, that is, no -k: TRUE, FALSE
    Roots,      \* is a header saved by root: TRUE, FALSE
    Faults,     \* what goes wrong, of FaultNames
    Procs,      \* running processes, each with a thread id
    NoKey,      \* what an inactive slot holds
    Nothing,    \* a part that a file does not have
    Other       \* a part that is not of a header

\* A process is killed; there is no space where headers are saved, or none in
\* /run/zuluCrypt; the look at the slots fails; chmod() of a saved header fails
FaultNames == {"kill", "full", "runfull", "look", "chmod"}
OpNames == {"add", "remove", "save", "restore", "compare"}
Slots == 0 .. (SlotCount - 1)
AnySlot == -1
Headers == [Slots -> Keys \cup {NoKey}]

ASSUME HeaderAssumption ==
    /\ SlotCount \in Nat \ {0}
    /\ FirstKey \in Keys /\ NoKey \notin Keys
    /\ {Nothing, Other} \cap Headers = {} /\ Nothing # Other
    /\ Ops \subseteq OpNames
    /\ Asks \subseteq BOOLEAN
    /\ Roots \subseteq BOOLEAN
    /\ Faults \subseteq FaultNames

\* A file in two parts: the slot table of a header and the key material of the slots
Parts == {"head", "areas"}
Files == [Parts -> {Nothing, Other} \cup Headers]
Empty == [part \in Parts |-> Nothing]
Image(d) == [part \in Parts |-> IF part = "head" THEN d.slots ELSE d.areas]

VARIABLES
    disk,    \* the header on the device: [slots, areas], equal unless a mixed file was restored
    file,    \* [Paths -> the file there]
    temp,    \* ["in", "out" -> [Procs -> the files 0-<tid> and 1-<tid> of /run/zuluCrypt]]
    pc,      \* [Procs -> the step the process is at]
    job,     \* [Procs -> its command line]
    asked,   \* [Procs -> "yes": the user typed YES, "blind": the slots were not seen, "no"]
    readonly, \* the paths a reported save has made readable by their owner only
    saved    \* history: [Paths -> the header last reported as saved there, Empty if none]

vars == <<disk, file, temp, pc, job, asked, readonly, saved>>

NoJob == [op |-> "none"]
SlotArgs == {AnySlot} \cup 0 .. SlotCount
Jobs ==
    [op : {"add"} \cap Ops, key : Keys, new : Keys, slot : SlotArgs]
    \cup [op : {"remove"} \cap Ops, key : Keys, slot : SlotArgs, ask : Asks]
    \cup [op : {"save"} \cap Ops, path : Paths, root : Roots]
    \cup [op : {"compare"} \cap Ops, path : Paths]
    \cup [op : {"restore"} \cap Ops, path : Paths, ask : Asks]

Active == {s \in Slots : disk.slots[s] # NoKey}

\* crypt_activate_by_passphrase() with CRYPT_ANY_SLOT: the slots the key opens
OpenedBy(k) == {s \in Slots : disk.slots[s] = k /\ disk.areas[s] = k}

SetSlot(s, k) == disk' = [slots |-> [disk.slots EXCEPT ![s] = k],
                          areas |-> [disk.areas EXCEPT ![s] = k]]

Init ==
    /\ disk = LET first == [s \in Slots |-> IF s = 0 THEN FirstKey ELSE NoKey]
              IN  [slots |-> first, areas |-> first]
    /\ file \in [Paths -> {Empty, [part \in Parts |-> Other]}]  \* another file may be there
    /\ temp = [dir \in {"in", "out"} |-> [p \in Procs |-> Empty]]
    /\ pc = [p \in Procs |-> "idle"]
    /\ job = [p \in Procs |-> NoJob]
    /\ asked = [p \in Procs |-> "no"]
    /\ readonly = {}
    /\ saved = [f \in Paths |-> Empty]

Goto(p, l) == pc' = [pc EXCEPT ![p] = l]

\* zuluExit(): the process ends and forgets what it was asked for
Exit(p) ==
    /\ Goto(p, "idle")
    /\ job' = [job EXCEPT ![p] = NoJob]
    /\ asked' = [asked EXCEPT ![p] = "no"]

FirstStep == [add |-> "slots", remove |-> "last", save |-> "backup",
              restore |-> "confirm", compare |-> "copyin"]

Start(p) ==
    /\ pc[p] = "idle"
    /\ \E j \in Jobs : job' = [job EXCEPT ![p] = j] /\ Goto(p, FirstStep[j.op])
    /\ UNCHANGED <<disk, file, temp, asked, readonly, saved>>

\* An error message and an exit status; every command may fail at every step
Fail(p, step) ==
    /\ pc[p] = step
    /\ Exit(p)
    /\ UNCHANGED <<disk, file, temp, readonly, saved>>

-----------------------------------------------------------------------------
(* zuluCryptEXEAddKey() and _add_key() *)

\* the slots before the keys are asked for
AddCheck(p) ==
    /\ pc[p] = "slots"
    /\ Active # Slots
    /\ Goto(p, "keys")
    /\ UNCHANGED <<disk, file, temp, job, asked, readonly, saved>>

\* and the slot that was asked for after it
AddKeys(p) ==
    /\ pc[p] = "keys"
    /\ job[p].slot \in {AnySlot} \cup (Slots \ Active)
    /\ Goto(p, "add")
    /\ UNCHANGED <<disk, file, temp, job, asked, readonly, saved>>

\* crypt_keyslot_add_by_passphrase() takes a free slot of the header as it is now
AddKey(p) ==
    /\ pc[p] = "add"
    /\ OpenedBy(job[p].key) # {}
    /\ \E s \in Slots \ Active : job[p].slot \in {AnySlot, s} /\ SetSlot(s, job[p].new)
    /\ Exit(p)
    /\ UNCHANGED <<file, temp, readonly, saved>>

-----------------------------------------------------------------------------
(* zuluCryptEXERemoveKey() and _remove_key() *)

\* mutant: the slots are looked at for a free one, as when a key is added
SomeFree(p) == Active = Slots

\* some slot has the status CRYPT_SLOT_ACTIVE_LAST, '3' in the string of slots
LastKey(p) == Cardinality(Active) = 1

\* The user is asked before the key is; when zuluCryptEmptySlots() fails the
\* caller goes on as if there were other keys
RemoveCheck(p) ==
    /\ pc[p] = "last"
    /\ \/ asked' = [asked EXCEPT ![p] = IF LastKey(p) /\ job[p].ask THEN "yes" ELSE "no"]
       \/ "look" \in Faults /\ asked' = [asked EXCEPT ![p] = "blind"]
    /\ Goto(p, "remove")
    /\ UNCHANGED <<disk, file, temp, job, readonly, saved>>

\* The key has to open a slot; that slot goes, or the one that was asked for
RemoveKey(p) ==
    /\ pc[p] = "remove"
    /\ \E opened \in OpenedBy(job[p].key), s \in Slots :
         /\ s = (IF job[p].slot = AnySlot THEN opened ELSE job[p].slot)
         /\ SetSlot(s, NoKey)
    /\ Exit(p)
    /\ UNCHANGED <<file, temp, readonly, saved>>

-----------------------------------------------------------------------------
(* _save_header(), _restore_header() and zuluCryptHeaderMatchBackUpHeader() *)

\* mutant: a part that is there already stays
WriteBehind(old, part, new) ==
    IF old[part] = Nothing THEN [old EXCEPT ![part] = new[part]] ELSE old

\* open() without O_TRUNC and write(): what is read goes over what was there, and
\* nothing is read at the end of the source
WriteOver(old, part, new) ==
    IF new[part] = Nothing THEN old ELSE [old EXCEPT ![part] = new[part]]

\* Is the part written?  With no space only over an old one; nobody looks at what
\* write() returns
Written(fault, old, part) ==
    {TRUE} \cup (IF fault \in Faults /\ old[part] = Nothing THEN {FALSE} ELSE {})

\* crypt_header_backup() makes a new file in /run/zuluCrypt
Backup(p) ==
    /\ pc[p] = "backup"
    /\ temp["out"][p] = Empty
    /\ temp' = [temp EXCEPT !["out"][p] = Image(disk)]
    /\ Goto(p, IF job[p].op = "save" THEN "copyout" ELSE "match")
    /\ UNCHANGED <<disk, file, job, asked, readonly, saved>>

\* and leaves a part of it when it is cut off
PartialBackup(p) ==
    /\ temp["out"][p] = Empty
    /\ temp' = [temp EXCEPT !["out"][p] = [Image(disk) EXCEPT !["areas"] = Nothing]]

\* With a file in its way or no space it fails, and only the comparison deletes the file
BackupFails(p) ==
    /\ pc[p] = "backup"
    /\ \/ job[p].op = "save" /\ UNCHANGED temp
       \/ job[p].op = "save" /\ "runfull" \in Faults /\ PartialBackup(p)
       \/ job[p].op = "compare" /\ temp' = [temp EXCEPT !["in"][p] = Empty, !["out"][p] = Empty]
    /\ Exit(p)
    /\ UNCHANGED <<disk, file, readonly, saved>>

\* _secure_copy_file() cannot open the path or the copy: the copy is deleted all the same
CopyOutDenied(p) ==
    /\ pc[p] = "copyout"
    /\ temp' = [temp EXCEPT !["out"][p] = Empty]
    /\ Exit(p)
    /\ UNCHANGED <<disk, file, readonly, saved>>

\* The path is opened with the rights of the caller
OpenOut(p) ==
    /\ pc[p] = "copyout"
    /\ job[p].path \notin readonly \/ job[p].root
    /\ Goto(p, "outhead")
    /\ UNCHANGED <<disk, file, temp, job, asked, readonly, saved>>

\* One part of the copy is written, or it and what comes after it is not
WriteOut(p, part, next) ==
    LET path == job[p].path IN
    \E written \in Written("full", file[path], part) :
      /\ file' = IF written THEN [file EXCEPT ![path] = WriteOver(@, part, temp["out"][p])] ELSE file
      /\ Goto(p, IF written THEN next ELSE "report")

CopyOut(p) ==
    /\ \/ pc[p] = "outhead" /\ WriteOut(p, "head", "outareas")
       \/ pc[p] = "outareas" /\ WriteOut(p, "areas", "report")
    /\ UNCHANGED <<disk, temp, job, asked, readonly, saved>>

\* mutant: chmod() is not called
LeaveWritable(path) == UNCHANGED readonly

\* chmod( dest,S_IRUSR ), its result ignored
MakeReadonly(path) ==
    readonly' \in {readonly \cup {path}} \cup (IF "chmod" \in Faults THEN {readonly} ELSE {})

\* The file is closed to writing, the copy deleted and success reported
Report(p) ==
    /\ pc[p] = "report"
    /\ MakeReadonly(job[p].path)
    /\ saved' = [saved EXCEPT ![job[p].path] = temp["out"][p]]
    /\ temp' = [temp EXCEPT !["out"][p] = Empty]
    /\ Exit(p)
    /\ UNCHANGED <<disk, file>>

\* _restore_header() asks whether the header is to be replaced
Confirm(p) ==
    /\ pc[p] = "confirm"
    /\ asked' = [asked EXCEPT ![p] = IF job[p].ask THEN "yes" ELSE "no"]
    /\ Goto(p, "copyin")
    /\ UNCHANGED <<disk, file, temp, job, readonly, saved>>

\* _secure_file_path() opens the user's file, and what an earlier process left
OpenIn(p) ==
    /\ pc[p] = "copyin"
    /\ Goto(p, "inhead")
    /\ UNCHANGED <<disk, file, temp, job, asked, readonly, saved>>

\* One part of the user's file, as it is now, is written over what was left, or
\* it and what comes after it is not
WriteIn(p, part, next, last) ==
    \E written \in Written("runfull", temp["in"][p], part) :
      /\ temp' = IF written
                 THEN [temp EXCEPT !["in"][p] = WriteOver(@, part, file[job[p].path])] ELSE temp
      /\ Goto(p, IF written THEN next ELSE last)

CopyIn(p) ==
    LET last == IF job[p].op = "restore" THEN "restore" ELSE "backup" IN
    /\ \/ pc[p] = "inhead" /\ WriteIn(p, "head", "inareas", last)
       \/ pc[p] = "inareas" /\ WriteIn(p, "areas", last, last)
    /\ UNCHANGED <<disk, file, job, asked, readonly, saved>>

\* crypt_header_restore() takes a file that is a whole header; with any other
\* and after any failure the device stays as it is
Restore(p) ==
    LET copy == temp["in"][p] IN
    /\ pc[p] = "restore"
    /\ \/ copy["head"] \in Headers /\ copy["areas"] \in Headers
          /\ disk' = [slots |-> copy["head"], areas |-> copy["areas"]]
       \/ UNCHANGED disk
    /\ temp' = [temp EXCEPT !["in"][p] = Empty]
    /\ Exit(p)
    /\ UNCHANGED <<file, readonly, saved>>

\* _files_are_equal() says whether they are, and both copies are deleted
Match(p) ==
    /\ pc[p] = "match"
    /\ temp' = [temp EXCEPT !["in"][p] = Empty, !["out"][p] = Empty]
    /\ Exit(p)
    /\ UNCHANGED <<disk, file, readonly, saved>>

-----------------------------------------------------------------------------
\* A process is killed before any of its steps or within crypt_header_backup();
\* what it has made stays
Kill(p) ==
    /\ "kill" \in Faults
    /\ pc[p] # "idle"
    /\ UNCHANGED temp \/ (pc[p] = "backup" /\ PartialBackup(p))
    /\ Exit(p)
    /\ UNCHANGED <<disk, file, readonly, saved>>

Add(p) == AddCheck(p) \/ AddKeys(p) \/ AddKey(p) \/ \E step \in {"slots", "keys", "add"} : Fail(p, step)
Remove(p) == RemoveCheck(p) \/ RemoveKey(p) \/ \E step \in {"last", "remove"} : Fail(p, step)
Copy(p) ==
    \/ Backup(p) \/ BackupFails(p) \/ OpenOut(p) \/ CopyOutDenied(p) \/ CopyOut(p) \/ Report(p)
    \/ Confirm(p) \/ OpenIn(p) \/ CopyIn(p) \/ Restore(p) \/ Match(p)
    \/ \E step \in {"confirm", "copyin"} : Fail(p, step)

Next ==
    \E p \in Procs : Start(p) \/ Add(p) \/ Remove(p) \/ Copy(p) \/ Kill(p)
Spec == Init /\ [][Next]_vars

-----------------------------------------------------------------------------
\* Every variable keeps its type.
TypeOK ==
    /\ disk \in [slots : Headers, areas : Headers]
    /\ file \in [Paths -> Files]
    /\ temp \in [{"in", "out"} -> [Procs -> Files]]
    /\ pc \in [Procs -> {"idle", "slots", "keys", "add", "last", "remove", "backup", "copyout",
                         "outhead", "outareas", "report", "match", "confirm", "copyin",
                         "inhead", "inareas", "restore"}]
    /\ job \in [Procs -> {NoJob} \cup Jobs]
    /\ asked \in [Procs -> {"no", "yes", "blind"}]
    /\ readonly \subseteq Paths
    /\ saved \in [Paths -> Files]

\* _remove_key() takes the last key off a volume only when its user has typed
\* YES to the warning of zuluCryptEXERemoveKey(), or has given -k, or when
\* zuluCryptEmptySlots() failed, after which nobody is asked.
LastKeyWarned ==
    [][\A p \in Procs :
         (pc[p] = "remove" /\ Active # {} /\ Active' = {})
           => (asked[p] \in {"yes", "blind"} \/ ~job[p].ask)]_vars

\* A restore that changes the device, from a path where _save_header() has
\* reported a success, gives back the header as it was when that was last saved,
\* whatever saves to that path and other processes were killed since and
\* whatever they left in /run/zuluCrypt.
RestoredIsSaved ==
    [][\A p \in Procs :
         (pc[p] = "restore" /\ disk' # disk /\ saved[job[p].path] # Empty)
           => Image(disk') = saved[job[p].path]]_vars

\* Where _save_header() has reported a success the file is that header, and stays
\* so while later saves to the same path begin, fail and are killed.
SavedIsComplete == \A f \in Paths : saved[f] # Empty => file[f] = saved[f]
=============================================================================
