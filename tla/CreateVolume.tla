---------------------------- MODULE CreateVolume ----------------------------
(***************************************************************************)
(* zuluCrypt-cli -c next to other commands on the same devices.  A command *)
(* on an image file attaches a loop device of its own to it, in three      *)
(* calls; the creation then looks for an open mapper and for mounts, asks  *)
(* for a confirmation and a key, writes a header, opens a mapper that is   *)
(* named after its thread id, runs mkfs in a child and closes the mapper.  *)
(* VolumeSessions has the steps of opening and closing, one step here.     *)
(***************************************************************************)
EXTENDS Naturals, FiniteSets

CONSTANTS
    Procs,    \* commands, each with its thread id
    Volumes,  \* block devices and regular files that people give to the commands
    Loops,    \* loop devices, which are numbers
    Ops,      \* "create" (-c), "open" (-o), "close" (-q), "mount" (zuluMount -m), "umount"
    Types,    \* "luks", "plain"
    Systems,  \* file systems: "ext4" for those that mkfs gets all the time for, "vfat" for
              \* those that it gets 60 seconds for, "none"
    Tries,    \* times a loop device is attached, 3
    Faults,   \* "kill" a command, "loop" calls fail, a mapper is "busy", a
              \* process cannot be started ("nofork")
    Runs,     \* bound: commands started in a behaviour
    Nothing   \* no file, no device, no mapper

Created(p) == <<"create", p>>   \* zuluCrypt-create-volume-<thread id>
Wiper(p) == <<"wipe", p>>       \* zuluCrypt-wipe-volume-<thread id>
Opened(v) == <<"open", v>>      \* zuluCrypt-<uid>-NAAN-<name>-<hash of the path>
Mappers == {Created(p) : p \in Procs} \cup {Wiper(p) : p \in Procs}
           \cup {Opened(v) : v \in Volumes}
Mappings == [dev : Volumes \cup Loops, type : {"luks", "plain"}, fits : BOOLEAN,
             late : SUBSET Procs]

ASSUME CreateAssumption ==
    /\ Loops \subseteq Nat /\ Loops \cap Volumes = {}
    /\ Ops \subseteq {"create", "open", "close", "mount", "umount"}
    /\ Types \subseteq {"luks", "plain"} /\ Systems \subseteq {"ext4", "vfat", "none"}
    /\ Tries \in Nat \ {0} /\ Runs \in Nat
    /\ Faults \subseteq {"kill", "loop", "busy", "nofork"}
    /\ Nothing \notin Loops \cup Volumes \cup Mappings

VARIABLES
    images,   \* the volumes that are regular files, the others are disks
    content,  \* [Volumes -> what is on the volume]
    loop,     \* [Loops -> the file it is attached to, and is it detached when unused]
    mapper,   \* [Mappers -> the device below, the type, does its key fit the content,
              \* and, as history, the creations that had already looked for it]
    mounted,  \* devices mounted without a mapper
    child,    \* [Procs -> the state of mkfs]
    pc,       \* [Procs -> the step of the command]
    job,      \* [Procs -> what its command line says]
    dev,      \* [Procs -> the device it works on, or wants]
    fds,      \* [Procs -> the loop devices it has open]
    tries,    \* [Procs -> tries left to attach a loop device]
    left,     \* history: loop devices and commands that a fault made leave something
    spoiled,  \* history: creations whose mkfs could not be started, or whose volume was
              \* written to by something else that had it open
    runs      \* how many commands were started

system == <<images, content, loop, mapper, mounted>>
command == <<pc, job, dev, fds, tries, runs>>
vars == <<system, child, command, left, spoiled>>

Disks == Volumes \ images
Devices == Volumes \cup Loops

\* key: a key opens the volume
Data == [lock |-> "none", key |-> FALSE, fs |-> "whole"]
Header == [lock |-> "luks", key |-> FALSE, fs |-> "no"]
Detached == [file |-> Nothing, auto |-> FALSE]
NoJob == [op |-> "none"]
Jobs == [op : Ops \ {"create"}, volume : Volumes]
        \cup [op : Ops \cap {"create"}, volume : Volumes, type : Types, fs : Systems]

Below(d) == IF d \in Loops THEN loop[d].file ELSE d
Live(m) == mapper[m] # Nothing

\* Exclusive use, which the kernel grants to one mapper or mount of a device
Busy(d) == d \in mounted \/ \E m \in Mappers : Live(m) /\ mapper[m].dev = d

\* The mount list: zuluCryptResolvePath_1() puts the file in place of its loop device
Listed == {Below(d) : d \in mounted}

Init ==
    /\ images \in SUBSET Volumes
    /\ content = [v \in Volumes |-> Data]
    /\ loop = [n \in Loops |-> Detached]
    /\ mapper = [m \in Mappers |-> Nothing]
    /\ mounted = {}
    /\ child = [p \in Procs |-> "off"]
    /\ pc = [p \in Procs |-> "idle"]
    /\ job = [p \in Procs |-> NoJob]
    /\ dev = [p \in Procs |-> Nothing]
    /\ fds = [p \in Procs |-> {}]
    /\ tries = [p \in Procs |-> Tries]
    /\ left = {}
    /\ spoiled = {}
    /\ runs = 0

-----------------------------------------------------------------------------
(* Control, and what the kernel does on a close *)

Goto(p, l) == pc' = [pc EXCEPT ![p] = l]

\* A loop device with autoclear goes when nothing has it open any more
Settle(open, mp, mt) ==
    [n \in Loops |->
       IF loop[n].auto /\ n \notin mt
          /\ (\A p \in Procs : n \notin open[p])
          /\ (\A m \in Mappers : mp[m] = Nothing \/ mp[m].dev # n)
       THEN Detached ELSE loop[n]]

\* The process ends; its mapper table and its mounts are those given
Vanish(p, mp, mt) ==
    /\ Goto(p, "idle")
    /\ job' = [job EXCEPT ![p] = NoJob]
    /\ dev' = [dev EXCEPT ![p] = Nothing]
    /\ fds' = [fds EXCEPT ![p] = {}]
    /\ tries' = [tries EXCEPT ![p] = Tries]
    /\ mapper' = mp /\ mounted' = mt
    /\ loop' = Settle([fds EXCEPT ![p] = {}], mp, mt)
Exit(p) == Vanish(p, mapper, mounted)
Keep(p) == UNCHANGED <<job, dev, fds, tries, loop, mapper, mounted>>

\* The first step of the command once it has a device
First(j) == IF j.op = "create" THEN "check" ELSE j.op

\* Bound: people create a volume once at a time
Alone(p, j) ==
    \A q \in Procs \ {p} :
       pc[q] # "idle" => ~(j.op = "create" /\ job[q].op = "create" /\ job[q].volume = j.volume)

\* The creations of a volume that have looked for its mapper and its mounts
Looked(v) == {p \in Procs : /\ pc[p] \in {"ask", "format", "slot", "wipe", "wiped", "activate",
                                         "mkfs", "wait", "lock"}
                            /\ job[p].volume = v}

\* The creations of a volume that have written to it, or have a mapper to do it
Making(v) == {p \in Procs : /\ \/ pc[p] \in {"slot", "wipe", "wiped", "mkfs", "wait",
                                            "lock", "done"}
                               \/ pc[p] = "activate" /\ job[p].type = "luks"
                            /\ job[p].volume = v}

\* What a write to the volume v does that does not come from its creation:
\* it tears the data, and when it does not start behind the header, the header too
Spoil(v, behind) ==
    /\ content' \in {[content EXCEPT ![v].fs = "torn"]}
                    \cup (IF behind THEN {}
                          ELSE {[content EXCEPT ![v] = [lock |-> "none", key |-> FALSE,
                                                        fs |-> "torn"]]})
    /\ spoiled' = spoiled \cup Making(v)

-----------------------------------------------------------------------------
(* zuluCryptGetDeviceFileProperties() *)

Start(p) ==
    \E j \in Jobs :
      /\ pc[p] = "idle" /\ Alone(p, j) /\ runs < Runs
      /\ runs' = runs + 1
      /\ job' = [job EXCEPT ![p] = j]
      /\ IF j.volume \in Disks
         THEN Goto(p, First(j)) /\ dev' = [dev EXCEPT ![p] = j.volume]
         ELSE Goto(p, "free") /\ UNCHANGED dev
      /\ spoiled' = spoiled \ {p}
      /\ UNCHANGED <<system, child, fds, tries, left>>

\* The attempt failed: its descriptor, if it got one, stays open
Again(p) ==
    IF tries[p] > 1
    THEN /\ Goto(p, "free")
         /\ tries' = [tries EXCEPT ![p] = @ - 1]
         /\ UNCHANGED <<job, dev, mapper, mounted>>
    ELSE /\ Goto(p, "quit")
         /\ UNCHANGED <<job, dev, tries, mapper, mounted>>

\* zuluCryptEXE() is not called: "Could not resolve path to device"
Quit(p) ==
    /\ pc[p] = "quit"
    /\ Exit(p)
    /\ UNCHANGED <<images, content, child, left, spoiled, runs>>

\* open_loop_device(): LOOP_CTL_GET_FREE names the first device without a file,
\* and does not reserve it
GetFree(p) ==
    LET unbound == {n \in Loops : loop[n].file = Nothing} IN
    /\ pc[p] = "free"
    /\ \/ \E n \in unbound : /\ \A m \in unbound : n <= m
                             /\ dev' = [dev EXCEPT ![p] = n]
                             /\ Goto(p, "attach")
                             /\ UNCHANGED <<job, tries, mapper, mounted>>
       \/ unbound = {} /\ Again(p)
    /\ UNCHANGED <<images, content, loop, child, fds, left, spoiled, runs>>

\* open() and LOOP_SET_FD, which fails when the device has a file
Attach(p) ==
    LET n == dev[p] IN
    /\ pc[p] = "attach"
    /\ fds' = [fds EXCEPT ![p] = @ \cup {n}]
    /\ IF loop[n].file = Nothing
       THEN /\ loop' = [loop EXCEPT ![n] = [file |-> job[p].volume, auto |-> FALSE]]
            /\ Goto(p, "status")
            /\ UNCHANGED <<job, dev, tries, mapper, mounted>>
       ELSE Again(p) /\ UNCHANGED loop
    /\ UNCHANGED <<images, content, child, left, spoiled, runs>>

\* mutant: the flags are written back as they were read
StatusAsRead(p) ==
    /\ pc[p] = "status"
    /\ Goto(p, First(job[p]))
    /\ UNCHANGED <<system, child, job, dev, fds, tries, left, spoiled, runs>>

\* LOOP_GET_STATUS64, LO_FLAGS_AUTOCLEAR, LOOP_SET_STATUS64
Status(p) ==
    /\ pc[p] = "status"
    /\ \/ /\ loop' = [loop EXCEPT ![dev[p]].auto = TRUE]
          /\ Goto(p, First(job[p]))
          /\ UNCHANGED <<job, dev, tries, mapper, mounted, left>>
       \/ /\ "loop" \in Faults
          /\ Again(p)
          /\ left' = left \cup {dev[p]}
          /\ UNCHANGED loop
    /\ UNCHANGED <<images, content, child, fds, spoiled, runs>>

-----------------------------------------------------------------------------
(* zuluCryptEXECreateVolume() and _create_volume() *)

\* mutant: the names are compared with the device in place of its path
CheckByDevice(p) ==
    /\ pc[p] = "check"
    /\ IF (dev[p] \in Disks /\ Live(Opened(dev[p]))) \/ dev[p] \in Listed
       THEN Exit(p) ELSE Goto(p, "ask") /\ Keep(p)
    /\ UNCHANGED <<images, content, child, left, spoiled, runs>>

\* zuluCryptCheckOpenedMapper() and zuluCryptPartitionIsMounted(), and the
\* checks of the file system, the privileges and the size that need no state
Check(p) ==
    /\ pc[p] = "check"
    /\ \/ Exit(p)
       \/ ~Live(Opened(job[p].volume)) /\ dev[p] \notin Listed /\ Goto(p, "ask") /\ Keep(p)
    /\ UNCHANGED <<images, content, child, left, spoiled, runs>>

\* The confirmation and the key
Ask(p) ==
    /\ pc[p] = "ask"
    /\ \/ Exit(p)
       \/ Goto(p, IF job[p].type = "luks" THEN "format" ELSE "activate") /\ Keep(p)
    /\ UNCHANGED <<images, content, child, left, spoiled, runs>>

\* The other mappers of the volume have a key that does not fit any more
Unfit(v) ==
    [m \in Mappers |-> IF Live(m) /\ Below(mapper[m].dev) = v
                       THEN [mapper[m] EXCEPT !.fits = FALSE] ELSE mapper[m]]

\* crypt_format()
Format(p) ==
    /\ pc[p] = "format"
    /\ \/ Exit(p) /\ UNCHANGED content
       \/ /\ ~Busy(dev[p])
          /\ content' = [content EXCEPT ![job[p].volume] = Header]
          /\ mapper' = Unfit(job[p].volume)
          /\ Goto(p, "slot")
          /\ UNCHANGED <<job, dev, fds, tries, loop, mounted>>
    /\ UNCHANGED <<images, child, left, spoiled, runs>>

\* crypt_keyslot_add_by_volume_key(), which writes the header it has in memory; the
\* options of the command line may ask for a volume with integrity
AddSlot(p) ==
    /\ pc[p] = "slot"
    /\ \/ Exit(p) /\ UNCHANGED content
       \/ /\ content' = [content EXCEPT ![job[p].volume] =
                            [lock |-> "luks", key |-> TRUE, fs |-> @.fs]]
          /\ \E l \in {"activate", "wipe"} : Goto(p, l)
          /\ Keep(p)
    /\ UNCHANGED <<images, child, left, spoiled, runs>>

\* _format(): a mapper to write the tags of the sectors through
Wipe(p) ==
    /\ pc[p] = "wipe"
    /\ \/ Exit(p)
       \/ /\ ~Busy(dev[p]) /\ ~Live(Wiper(p))
          /\ mapper' = [mapper EXCEPT ![Wiper(p)] =
                          [dev |-> dev[p], type |-> "luks", fits |-> TRUE, late |-> {}]]
          /\ Goto(p, "wiped")
          /\ UNCHANGED <<job, dev, fds, tries, loop, mounted>>
    /\ UNCHANGED <<images, content, child, left, spoiled, runs>>

\* The zeros of crypt_wipe() leave no file system, as crypt_format() did.  Its result
\* is not looked at, nor that of the three calls of crypt_deactivate().
Unwipe(p) ==
    /\ pc[p] = "wiped"
    /\ \E mp \in {mapper, [mapper EXCEPT ![Wiper(p)] = Nothing]} :
         /\ mp = mapper => "busy" \in Faults
         /\ left' = IF mp = mapper THEN left \cup {p} ELSE left
         /\ mapper' = mp
    /\ Goto(p, "activate")
    /\ UNCHANGED <<images, content, loop, mounted, child, job, dev, fds, tries, spoiled, runs>>

\* zuluCryptOpenLuks() or zuluCryptOpenPlain_2(), with the name of the command
Activate(p) ==
    /\ pc[p] = "activate"
    /\ \/ Exit(p)
       \/ /\ ~Busy(dev[p]) /\ ~Live(Created(p))
          /\ mapper' = [(IF job[p].type = "plain" THEN Unfit(job[p].volume) ELSE mapper)
                          EXCEPT ![Created(p)] =
                            [dev |-> dev[p], type |-> job[p].type, fits |-> TRUE, late |-> {}]]
          /\ Goto(p, "mkfs")
          /\ UNCHANGED <<job, dev, fds, tries, loop, mounted>>
    /\ UNCHANGED <<images, content, child, left, spoiled, runs>>

\* zuluCryptCreateFileSystemInAVolume(): a child, and a timer for some file systems.
\* Nobody looks whether pipe() and fork() worked: without a child, ProcessExitStatus()
\* returns what it finds in a variable that was not set.
StartMkfs(p) ==
    /\ pc[p] = "mkfs"
    /\ IF job[p].fs = "none"
       THEN child' = [child EXCEPT ![p] = "ok"] /\ Goto(p, "lock") /\ UNCHANGED spoiled
       ELSE /\ Goto(p, "wait")
            /\ \E c \in {"running"} \cup (IF "nofork" \in Faults THEN {"ok", "failed"} ELSE {}) :
                 /\ child' = [child EXCEPT ![p] = c]
                 /\ spoiled' = IF c = "running" THEN spoiled ELSE spoiled \cup {p}
    /\ Keep(p)
    /\ UNCHANGED <<images, content, left, runs>>

\* mutant: no file system is given a time limit
Timed0 == {}

Timed == {"vfat"}

\* __timer(): SIGKILL when the seconds are over
Timer(p) ==
    /\ pc[p] = "wait" /\ job[p].fs \in Timed
    /\ child[p] \in {"running", "half"}
    /\ child' = [child EXCEPT ![p] = "failed"]
    /\ UNCHANGED <<system, command, left, spoiled>>

\* ProcessExitStatus()
Wait(p) ==
    /\ pc[p] = "wait" /\ child[p] \in {"ok", "failed"}
    /\ Goto(p, "lock")
    /\ Keep(p)
    /\ UNCHANGED <<images, content, child, left, spoiled, runs>>

\* mutant: the result of mkfs is not looked at
AnyResult(p) == TRUE

Succeeded(p) == child[p] = "ok"

\* mutant: a failed mkfs ends the command
CloseIfMade(p) ==
    /\ pc[p] = "lock"
    /\ IF child[p] = "ok"
       THEN /\ mapper' = [mapper EXCEPT ![Created(p)] = Nothing]
            /\ Goto(p, "done")
            /\ UNCHANGED <<job, dev, fds, tries, loop, mounted>>
       ELSE Exit(p)
    /\ child' = [child EXCEPT ![p] = "off"]
    /\ UNCHANGED <<images, content, left, spoiled, runs>>

\* zuluCryptCloseMapper(), whose result is not looked at
Close(p) ==
    /\ pc[p] = "lock"
    /\ \E mp \in {mapper, [mapper EXCEPT ![Created(p)] = Nothing]} :
         /\ mp = mapper => "busy" \in Faults
         /\ left' = IF mp = mapper THEN left \cup {p} ELSE left
         /\ IF Succeeded(p)
            THEN /\ Goto(p, "done") /\ mapper' = mp
                 /\ UNCHANGED <<job, dev, fds, tries, loop, mounted>>
            ELSE Vanish(p, mp, mounted)
    /\ child' = [child EXCEPT ![p] = "off"]
    /\ UNCHANGED <<images, content, spoiled, runs>>

\* "SUCCESS: Volume created successfully"
Done(p) ==
    /\ pc[p] = "done"
    /\ Exit(p)
    /\ UNCHANGED <<images, content, child, left, spoiled, runs>>

-----------------------------------------------------------------------------
(* mkfs, which outlives a killed command and is then nobody's child, and which *)
(* may wait for an answer for ever                                             *)

Orphan(p) == pc[p] # "wait"
MkfsEnds(p, result) == child' = [child EXCEPT ![p] = IF Orphan(p) THEN "off" ELSE result]

\* What a write of p's mkfs leaves on the volume: a file system behind the header, a
\* plain volume, or nonsense when the volume is not the one that was opened any more
Write(p, fs) ==
    LET m == mapper[Created(p)]
        v == Below(m.dev)
    IN  IF m.fits
        THEN /\ content' = [content EXCEPT ![v] =
                              IF m.type = "luks" THEN [@ EXCEPT !.fs = fs]
                              ELSE [lock |-> "plain", key |-> TRUE, fs |-> fs]]
             /\ UNCHANGED spoiled
        ELSE Spoil(v, m.type = "luks")

MkfsWrites(p) ==
    /\ child[p] = "running"
    /\ Write(p, "part")
    /\ child' = [child EXCEPT ![p] = "half"]
    /\ UNCHANGED <<images, loop, mapper, mounted, command, left>>
MkfsMakes(p) ==
    /\ child[p] = "half"
    /\ Write(p, "whole")
    /\ MkfsEnds(p, "ok")
    /\ UNCHANGED <<images, loop, mapper, mounted, command, left>>
MkfsFails(p) ==
    /\ child[p] \in {"running", "half"}
    /\ MkfsEnds(p, "failed")
    /\ UNCHANGED <<system, command, left, spoiled>>

-----------------------------------------------------------------------------
(* Other commands on the device *)

\* A volume with a key is opened unless its mapper is there, or the device is used
Open(p) ==
    LET v == job[p].volume IN
    /\ pc[p] = "open"
    /\ \/ Exit(p)
       \/ /\ content[v].key /\ ~Live(Opened(v)) /\ ~Busy(dev[p])
          /\ Vanish(p, [mapper EXCEPT ![Opened(v)] =
                          [dev |-> dev[p], type |-> content[v].lock, fits |-> TRUE,
                           late |-> Looked(v)]], mounted)
    /\ UNCHANGED <<images, content, child, left, spoiled, runs>>
CloseOpened(p) ==
    /\ pc[p] = "close"
    /\ Vanish(p, [mapper EXCEPT ![Opened(job[p].volume)] = Nothing], mounted)
    /\ UNCHANGED <<images, content, child, left, spoiled, runs>>

\* zuluMountMount(), which asks for the mounts of the path
Mount(p) ==
    /\ pc[p] = "mount"
    /\ \/ Exit(p)
       \/ /\ job[p].volume \notin Listed /\ ~Busy(dev[p])
          /\ content[job[p].volume] = Data
          /\ Vanish(p, mapper, mounted \cup {dev[p]})
    /\ UNCHANGED <<images, content, child, left, spoiled, runs>>
Umount(p) ==
    /\ pc[p] = "umount"
    /\ \/ Exit(p)
       \/ Vanish(p, mapper, {d \in mounted : Below(d) # job[p].volume})
    /\ UNCHANGED <<images, content, child, left, spoiled, runs>>

\* What is mounted writes to its device, before it is unmounted at the latest, and so
\* does what is in an open volume, also when a creation has made the volume anew.  A
\* write changes nothing here as long as the volume is the one that was mounted or opened.
MountedWrites(d) ==
    /\ d \in mounted /\ content[Below(d)] # Data
    /\ Spoil(Below(d), FALSE)
    /\ UNCHANGED <<images, loop, mapper, mounted, child, command, left>>
OpenedWrites(v) ==
    LET m == mapper[Opened(v)] IN
    /\ Live(Opened(v)) /\ ~m.fits
    /\ Spoil(v, m.type = "luks")
    /\ UNCHANGED <<images, loop, mapper, mounted, child, command, left>>

\* Killed at any step; the loop device is left attached when autoclear is not set
Kill(p) ==
    /\ "kill" \in Faults /\ pc[p] # "idle"
    /\ Exit(p)
    /\ left' = left \cup (IF pc[p] = "status" THEN {dev[p]} ELSE {})
                    \cup (IF pc[p] \in {"wiped", "mkfs", "wait", "lock"} THEN {p} ELSE {})
    /\ child' = [child EXCEPT ![p] = IF @ \in {"ok", "failed"} THEN "off" ELSE @]
    /\ UNCHANGED <<images, content, spoiled, runs>>

Command(p) ==
    \/ Quit(p) \/ GetFree(p) \/ Attach(p) \/ Status(p)
    \/ Check(p) \/ Ask(p) \/ Format(p) \/ AddSlot(p) \/ Wipe(p) \/ Unwipe(p) \/ Activate(p)
    \/ StartMkfs(p) \/ Timer(p) \/ Wait(p) \/ Close(p) \/ Done(p)
    \/ Open(p) \/ CloseOpened(p) \/ Mount(p) \/ Umount(p)
Mkfs(p) == MkfsWrites(p) \/ MkfsMakes(p) \/ MkfsFails(p)
Next ==
    \/ \E p \in Procs : Start(p) \/ Command(p) \/ Mkfs(p) \/ Kill(p)
    \/ \E d \in Devices : MountedWrites(d)
    \/ \E v \in Volumes : OpenedWrites(v)

\* The calls of a command return and people answer; mkfs need not end
Fairness == \A p \in Procs : WF_vars(Command(p))
Spec == Init /\ [][Next]_vars /\ Fairness

-----------------------------------------------------------------------------
Steps == {"idle", "free", "attach", "status", "quit", "check", "ask", "format", "slot",
          "wipe", "wiped", "activate", "mkfs", "wait", "lock", "done", "open", "close",
          "mount", "umount"}

\* Every variable keeps its type; a mapper has something below it
TypeOK ==
    /\ images \subseteq Volumes /\ runs \in 0 .. Runs
    /\ content \in [Volumes -> [lock : {"none", "luks", "plain"}, key : BOOLEAN,
                                 fs : {"no", "part", "whole", "torn"}]]
    /\ loop \in [Loops -> [file : images \cup {Nothing}, auto : BOOLEAN]]
    /\ mapper \in [Mappers -> Mappings \cup {Nothing}]
    /\ \A m \in Mappers : Live(m) => Below(mapper[m].dev) \in Volumes
    /\ mounted \subseteq Devices
    /\ child \in [Procs -> {"off", "running", "half", "ok", "failed"}]
    /\ pc \in [Procs -> Steps]
    /\ job \in [Procs -> Jobs \cup {NoJob}]
    /\ dev \in [Procs -> Devices \cup {Nothing}]
    /\ fds \in [Procs -> SUBSET Loops]
    /\ tries \in [Procs -> 1 .. Tries]
    /\ left \subseteq Loops \cup Procs /\ spoiled \subseteq Procs

\* A command that says that the volume was created has left one that its key
\* opens, with a whole file system when one was asked for, although mkfs may
\* fail, hang and be killed, and other commands open, mount and overwrite the
\* volume.  Two cases are left: a mkfs that could not be started, and an image
\* that something else still writes to, which had it mounted or open before, as
\* the mkfs of an earlier command that was killed has.
CreatedIsWhole ==
    \A p \in Procs \ spoiled :
      (pc[p] = "done" /\ job[p].fs # "none") =>
        content[job[p].volume] = [lock |-> job[p].type, key |-> TRUE, fs |-> "whole"]

\* A command, or its own mkfs, changes what is on the volume
Overwrites(p) ==
    \/ pc[p] = "format" /\ pc'[p] = "slot"
    \/ ~Orphan(p) /\ child[p] = "running" /\ child'[p] = "half"

\* No creation overwrites a volume that is open, nor a disk that is mounted: a
\* disk because the kernel gives it to one user, an image, of which every command
\* has a loop device of its own, because of the name of its mapper.  The one hole
\* is an image that is opened after the creation has looked for that name.
OpenKept ==
    [][\A p \in Procs : Overwrites(p) =>
         LET v == job[p].volume IN
         /\ Live(Opened(v)) => v \notin Disks /\ p \in mapper[Opened(v)].late
         /\ v \in Disks => v \notin mounted]_vars

\* "Can not create a volume on a mounted device", as create_volumes.c says.
MountedKept == [][\A p \in Procs : Overwrites(p) => job[p].volume \notin Listed]_vars

\* Whoever gets whose loop device: one that nobody uses is attached to no file,
\* unless a kill or a failed call came between LOOP_SET_FD and the flag.
LoopsDetached ==
    \A n \in Loops : loop[n].file # Nothing =>
      \/ n \in left \/ n \in mounted
      \/ \E p \in Procs : n \in fds[p]
      \/ \E m \in Mappers : Live(m) /\ mapper[m].dev = n

\* The mappers of a creation are there while the command works on them, and later
\* only when the command was killed or the kernel kept a mapper busy.
TempClosed ==
    \A p \in Procs : /\ Live(Created(p)) => p \in left \/ pc[p] \in {"mkfs", "wait", "lock"}
                     /\ Live(Wiper(p)) => p \in left \/ pc[p] = "wiped"

\* A command ends, also when mkfs hangs, if mkfs is given a time limit.
InTime(p) == pc[p] # "idle" /\ (job[p].op = "create" => job[p].fs # "ext4")
CommandsEnd == \A p \in Procs : InTime(p) ~> pc[p] = "idle"
=============================================================================
