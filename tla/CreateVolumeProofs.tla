------------------------- MODULE CreateVolumeProofs -------------------------
(***************************************************************************)
(* What holds of CreateVolume for every number of commands, volumes and    *)
(* loop devices.  The inductive invariant is Inv: types, what a command    *)
(* at a given step has, who uses which loop device, which device has one   *)
(* user, and what the mkfs that may still run writes through.              *)
(***************************************************************************)
EXTENDS CreateVolume, TLAPS

\* The steps of a command that has its device
Working == {"check", "ask", "format", "slot", "wipe", "wiped", "activate", "mkfs", "wait",
            "lock", "done", "open", "close", "mount", "umount"}
Creating == {"check", "ask", "format", "slot", "wipe", "wiped", "activate", "mkfs", "wait",
             "lock", "done"}

\* A command that runs has a command line, and one that works has a device with
\* the volume below it, and keeps it open when it is a loop device
DeviceOK(p) ==
    /\ pc[p] # "idle" => job[p] \in Jobs
    /\ pc[p] \in Creating => job[p].op = "create"
    /\ pc[p] \in {"free", "attach", "status", "quit"} => job[p].volume \in images
    /\ pc[p] \in {"attach", "status"} => dev[p] \in Loops
    /\ pc[p] \in Working \cup {"status"} =>
         /\ dev[p] \in Devices /\ Below(dev[p]) = job[p].volume
         /\ dev[p] \in Loops => dev[p] \in fds[p]
DeviceInv == \A p \in Procs : DeviceOK(p)

Used(n) ==
    \/ n \in mounted
    \/ \E p \in Procs : n \in fds[p]
    \/ \E m \in Mappers : Live(m) /\ mapper[m].dev = n

\* A loop device with autoclear is used; one without it is still to get it,
\* or never will
LoopInv ==
    \A n \in Loops :
      /\ loop[n].auto => Used(n)
      /\ loop[n].file # Nothing =>
           loop[n].auto \/ n \in left \/ \E p \in Procs : pc[p] = "status" /\ dev[p] = n

\* The mapper of a volume is above it, and a device has one user
MapperInv ==
    /\ \A v \in Volumes : Live(Opened(v)) => Below(mapper[Opened(v)].dev) = v
    /\ \A m, k \in Mappers : Live(m) /\ Live(k) /\ mapper[m].dev = mapper[k].dev => m = k
    /\ \A m \in Mappers : Live(m) => mapper[m].dev \notin mounted

\* The mappers of the creation and its mkfs, which may be those of a command that
\* was killed
MkfsOK(p) ==
    /\ pc[p] = "wiped" => Live(Wiper(p)) /\ mapper[Wiper(p)].dev = dev[p]
    /\ pc[p] \in {"mkfs", "wait", "lock"} =>
         /\ Live(Created(p)) /\ mapper[Created(p)].dev = dev[p]
         /\ mapper[Created(p)].fits /\ mapper[Created(p)].type = job[p].type
    /\ child[p] \in {"running", "half"} =>
         Live(Created(p)) /\ pc[p] \notin {"mkfs", "lock", "done"}
    /\ child[p] \in {"ok", "failed"} => pc[p] \in {"wait", "lock"}
    /\ pc[p] \in {"wait", "lock"} => child[p] # "off"
MkfsInv == \A p \in Procs : MkfsOK(p)

\* People create a volume once at a time
AloneInv ==
    \A p, q \in Procs :
      /\ p # q /\ pc[p] # "idle" /\ pc[q] # "idle"
      /\ job[p].op = "create" /\ job[q].op = "create"
      => job[p].volume # job[q].volume

\* A command that opened the volume after the creation looked for its mapper
LateOK(p) ==
    /\ pc[p] \in {"ask", "format", "slot", "wipe", "wiped", "activate", "mkfs", "wait", "lock"}
    /\ Live(Opened(job[p].volume))
    => p \in mapper[Opened(job[p].volume)].late
LateInv == \A p \in Procs : LateOK(p)

-----------------------------------------------------------------------------
(* What a creation has made of the volume so far *)

Past(p) == \/ pc[p] \in {"slot", "wipe", "wiped", "mkfs", "wait", "lock", "done"}
           \/ pc[p] = "activate" /\ job[p].type = "luks"

\* The mapper of q has a key that fits the volume v
Fits(q, v) ==
    Live(Created(q)) /\ mapper[Created(q)].fits /\ Below(mapper[Created(q)].dev) = v

\* It has a header with a key, of the type that was asked for
Keyed(p) == content[job[p].volume].lock = job[p].type /\ content[job[p].volume].key
Filled(p) == Keyed(p) /\ content[job[p].volume].fs = "whole"

\* No other mapper of a creation fits the volume, and what the creation makes of the
\* volume is never lost, if nothing else that has it open writes to it
MadeOK(p) ==
    /\ Past(p) /\ pc[p] # "slot" /\ job[p].type = "luks" => Keyed(p)
    /\ pc[p] = "wait" /\ child[p] = "half" => Keyed(p)
    /\ pc[p] \in {"wait", "lock"} /\ child[p] = "ok" /\ job[p].fs # "none" => Filled(p)
    /\ pc[p] = "done" /\ job[p].fs # "none" => Filled(p)
WholeOK(p) ==
    /\ \A q \in Procs : Past(p) /\ Fits(q, job[p].volume) =>
         q = p /\ pc[p] \in {"mkfs", "wait", "lock", "done"}
    /\ pc[p] \in {"format", "slot", "wipe", "wiped"} => job[p].type = "luks"
    /\ p \notin spoiled => MadeOK(p)
WholeInv == \A p \in Procs : WholeOK(p)

\* A volume with a key has a header or is a plain one
KeyInv == \A v \in Volumes : content[v].key => content[v].lock # "none"

Inv == /\ TypeOK /\ DeviceInv /\ LoopInv /\ MapperInv /\ MkfsInv
       /\ AloneInv /\ LateInv /\ WholeInv /\ KeyInv /\ TempClosed

-----------------------------------------------------------------------------
(* Names, command lines and mappings *)

LEMMA MapperNames ==
    /\ \A p \in Procs : Created(p) \in Mappers /\ Wiper(p) \in Mappers
    /\ \A v \in Volumes : Opened(v) \in Mappers
    /\ \A p, q \in Procs : Created(p) = Created(q) \/ Wiper(p) = Wiper(q) => p = q
    /\ \A p, q \in Procs : Created(p) # Wiper(q)
    /\ \A v, w \in Volumes : Opened(v) = Opened(w) => v = w
    /\ \A p \in Procs, v \in Volumes : Created(p) # Opened(v) /\ Wiper(p) # Opened(v)
BY DEF Created, Wiper, Opened, Mappers

LEMMA JobsTyping ==
    /\ \A j \in Jobs : /\ j.op \in {"create", "open", "close", "mount", "umount"}
                       /\ j.volume \in Volumes
                       /\ j.op = "create" => j.type \in {"luks", "plain"}
    /\ NoJob \notin Jobs
BY CreateAssumption DEF Jobs, NoJob

\* What a mapper is, and what becomes of it when its key does not fit any more
LEMMA MappingTyping ==
    /\ Nothing \notin Mappings /\ Nothing \notin Devices
    /\ \A d \in Devices, t \in {"luks", "plain"}, f \in BOOLEAN, l \in SUBSET Procs :
         [dev |-> d, type |-> t, fits |-> f, late |-> l] \in Mappings
    /\ \A r \in Mappings :
         LET u == [r EXCEPT !.fits = FALSE] IN
         /\ u \in Mappings /\ u.dev = r.dev /\ u.type = r.type /\ u.late = r.late /\ ~u.fits
BY CreateAssumption DEF Mappings, Devices

LEMMA MappersTyping ==
    ASSUME TypeOK, NEW m \in Mappers, Live(m)
    PROVE  /\ mapper[m] \in Mappings /\ mapper[m].dev \in Devices
           /\ mapper[m].type \in {"luks", "plain"} /\ mapper[m].fits \in BOOLEAN
           /\ mapper[m].late \subseteq Procs /\ Below(mapper[m].dev) \in Volumes
BY DEF TypeOK, Live, Mappings, Devices

LEMMA BelowTyping ==
    ASSUME TypeOK, NEW d \in Devices
    PROVE  /\ d \in Loops => Below(d) = loop[d].file /\ Below(d) \in images \cup {Nothing}
           /\ d \notin Loops => Below(d) = d /\ d \in Volumes
           /\ Below(d) \in Volumes \cup {Nothing}
BY DEF TypeOK, Below, Devices

-----------------------------------------------------------------------------
(* The steps by what they do: a command ends, or it goes on *)

\* What is below a device, and who uses it, once the step is made
BelowThen(d) == IF d \in Loops THEN loop'[d].file ELSE d
UsedThen(n) ==
    \/ n \in mounted'
    \/ \E p \in Procs : n \in fds'[p]
    \/ \E m \in Mappers : mapper'[m] # Nothing /\ mapper'[m].dev = n

\* Only p's own state changes
Others(p) ==
    /\ images' = images
    /\ \A q \in Procs \ {p} :
         /\ pc'[q] = pc[q] /\ job'[q] = job[q] /\ dev'[q] = dev[q]
         /\ fds'[q] = fds[q] /\ child'[q] = child[q]
         /\ q \in spoiled => q \in spoiled'

\* The command ends, and what it leaves behind is known to be left
Ends(p) ==
    /\ pc[p] # "idle" /\ Vanish(p, mapper', mounted')
    /\ UNCHANGED <<images, content, spoiled, runs>>
    /\ left' \in SUBSET (Loops \cup Procs)
    /\ left \subseteq left' /\ (pc[p] = "status" => dev[p] \in left')
    /\ child' = child \/ child' = [child EXCEPT ![p] = "off"]
    /\ pc[p] \in {"wait", "lock"} => child'[p] \notin {"ok", "failed"}
    /\ pc[p] \in {"mkfs", "wait", "lock"} => p \in left' \/ mapper'[Created(p)] = Nothing
    /\ pc[p] = "wiped" => p \in left'

\* with fewer mappers and mounts than before,
Shrinks(p) ==
    /\ Ends(p) /\ mounted' \subseteq mounted
    /\ mapper' \in [Mappers -> Mappings \cup {Nothing}]
    /\ \A m \in Mappers : mapper'[m] \in {mapper[m], Nothing}
    /\ \A q \in Procs : mapper'[Created(q)] # mapper[Created(q)] =>
         q = p /\ pc[p] = "lock" /\ child'[p] = "off"
    /\ \A q \in Procs : mapper'[Wiper(q)] = mapper[Wiper(q)]

\* with one more mapper,
Opens(p) ==
    LET v == job[p].volume IN
    /\ Ends(p) /\ pc[p] = "open" /\ UNCHANGED <<mounted, left, child>>
    /\ content[v].key /\ ~Live(Opened(v)) /\ ~Busy(dev[p])
    /\ mapper' = [mapper EXCEPT ![Opened(v)] =
                    [dev |-> dev[p], type |-> content[v].lock, fits |-> TRUE, late |-> Looked(v)]]

\* or with one more mount
Mounts(p) ==
    /\ Ends(p) /\ pc[p] = "mount" /\ UNCHANGED <<mapper, left, child>>
    /\ ~Busy(dev[p]) /\ mounted' = mounted \cup {dev[p]}

LEMMA ExitShrinks ==
    ASSUME TypeOK, NEW p \in Procs, Exit(p), UNCHANGED <<images, content, child, left, spoiled, runs>>,
           pc[p] \notin {"idle", "status", "wiped", "mkfs", "wait", "lock"}
    PROVE  Shrinks(p)
<1>1. mapper' = mapper /\ mounted' = mounted
  BY DEF Exit, Vanish
<1>2. Vanish(p, mapper', mounted')
  BY <1>1 DEF Exit
<1> QED BY <1>1, <1>2 DEF Shrinks, Ends, TypeOK

LEMMA CloseShrinks ==
    ASSUME TypeOK, NEW p \in Procs, Close(p), ~Succeeded(p)
    PROVE  Shrinks(p)
<1>1. PICK mp \in {mapper, [mapper EXCEPT ![Created(p)] = Nothing]} :
        /\ Vanish(p, mp, mounted)
        /\ left' = IF mp = mapper THEN left \cup {p} ELSE left
  BY DEF Close
<1>2. mapper' = mp /\ mounted' = mounted /\ Vanish(p, mapper', mounted')
  BY <1>1 DEF Vanish
<1>3. /\ pc[p] = "lock" /\ child' = [child EXCEPT ![p] = "off"] /\ child'[p] = "off"
      /\ UNCHANGED <<images, content, spoiled, runs>>
  BY DEF Close, TypeOK
<1>4. /\ mapper' \in [Mappers -> Mappings \cup {Nothing}]
      /\ \A m \in Mappers : mapper'[m] \in {mapper[m], Nothing}
      /\ \A q \in Procs : mapper'[Created(q)] # mapper[Created(q)] => q = p
      /\ \A q \in Procs : mapper'[Wiper(q)] = mapper[Wiper(q)]
      /\ mapper' = mapper \/ mapper'[Created(p)] = Nothing
  BY <1>2, MapperNames DEF TypeOK
<1>5. left \subseteq left' /\ left' \in SUBSET (Loops \cup Procs) /\ (mapper' = mapper => p \in left')
  BY <1>1, <1>2 DEF TypeOK
<1> QED BY <1>2, <1>3, <1>4, <1>5 DEF Shrinks, Ends

LEMMA KillShrinks ==
    ASSUME TypeOK, DeviceInv, NEW p \in Procs, Kill(p)
    PROVE  Shrinks(p)
<1>1. mapper' = mapper /\ mounted' = mounted /\ Vanish(p, mapper', mounted')
  BY DEF Kill, Exit, Vanish
<1>2. left' \in SUBSET (Loops \cup Procs) /\ left \subseteq left'
  BY DEF Kill, TypeOK, DeviceInv, DeviceOK
<1>3. child' = child \/ child' = [child EXCEPT ![p] = "off"]
  BY DEF Kill, TypeOK
<1>4. child'[p] \notin {"ok", "failed"}
  BY DEF Kill, TypeOK
<1> QED BY <1>1, <1>2, <1>3, <1>4 DEF Shrinks, Ends, TypeOK, Kill

\* What the steps of other commands do to the device
LEMMA OthersEnd ==
    ASSUME TypeOK, NEW p \in Procs,
           Open(p) \/ CloseOpened(p) \/ Mount(p) \/ Umount(p)
    PROVE  Shrinks(p) \/ Opens(p) \/ Mounts(p)
<1>1. CASE Exit(p)
  BY <1>1, ExitShrinks DEF Open, CloseOpened, Mount, Umount
<1>2. CASE Open(p) /\ ~Exit(p)
  <2>1. Vanish(p, mapper', mounted') /\ UNCHANGED mounted
    BY <1>2 DEF Open, Vanish
  <2> QED BY <1>2, <2>1 DEF Open, Opens, Ends, Vanish, TypeOK
<1>3. CASE CloseOpened(p)
  <2>1. /\ mapper' = [mapper EXCEPT ![Opened(job[p].volume)] = Nothing]
        /\ mounted' = mounted /\ Vanish(p, mapper', mounted')
    BY <1>3 DEF CloseOpened, Vanish
  <2>2. /\ \A m \in Mappers : mapper'[m] \in {mapper[m], Nothing}
        /\ mapper' \in [Mappers -> Mappings \cup {Nothing}]
    BY <2>1 DEF TypeOK
  <2>3. \A q \in Procs : /\ mapper'[Created(q)] = mapper[Created(q)]
                         /\ mapper'[Wiper(q)] = mapper[Wiper(q)]
    <3>1. \A q \in Procs : /\ Created(q) # Opened(job[p].volume)
                           /\ Wiper(q) # Opened(job[p].volume)
      BY DEF Created, Wiper, Opened
    <3> QED BY <2>1, <3>1, MapperNames DEF TypeOK
  <2> QED BY <1>3, <2>1, <2>2, <2>3 DEF CloseOpened, Shrinks, Ends, TypeOK
<1>4. CASE Mount(p) /\ ~Exit(p)
  <2>1. Vanish(p, mapper', mounted') /\ UNCHANGED mapper
    BY <1>4 DEF Mount, Vanish
  <2> QED BY <1>4, <2>1 DEF Mount, Mounts, Ends, Vanish, TypeOK
<1>5. CASE Umount(p) /\ ~Exit(p)
  <2>1. mapper' = mapper /\ mounted' \subseteq mounted /\ Vanish(p, mapper', mounted')
    BY <1>5 DEF Umount, Vanish
  <2> QED BY <1>5, <2>1 DEF Umount, Shrinks, Ends, TypeOK
<1> QED BY <1>1, <1>2, <1>3, <1>4, <1>5

\* The loop devices that a command leaves: a used one is never detached
LEMMA EndsFrame ==
    ASSUME TypeOK, DeviceInv, NEW p \in Procs, Ends(p)
    PROVE  /\ Others(p) /\ pc'[p] = "idle"
           /\ pc' \in [Procs -> Steps]
           /\ job' \in [Procs -> Jobs \cup {NoJob}]
           /\ dev' \in [Procs -> Devices \cup {Nothing}]
           /\ fds' \in [Procs -> SUBSET Loops]
           /\ tries' \in [Procs -> 1 .. Tries]
           /\ child' \in [Procs -> {"off", "running", "half", "ok", "failed"}]
<1>1. /\ pc' = [pc EXCEPT ![p] = "idle"] /\ job' = [job EXCEPT ![p] = NoJob]
      /\ dev' = [dev EXCEPT ![p] = Nothing] /\ fds' = [fds EXCEPT ![p] = {}]
      /\ tries' = [tries EXCEPT ![p] = Tries]
      /\ child' = child \/ child' = [child EXCEPT ![p] = "off"]
      /\ images' = images /\ spoiled' = spoiled
  BY DEF Ends, Vanish, Goto
<1>2. Tries \in 1 .. Tries
  BY CreateAssumption
<1>3. Others(p)
  BY <1>1 DEF Others, TypeOK
<1>4. tries' \in [Procs -> 1 .. Tries]
  BY <1>1, <1>2 DEF TypeOK
<1>5. child' \in [Procs -> {"off", "running", "half", "ok", "failed"}]
  BY <1>1 DEF TypeOK
<1>6. pc' \in [Procs -> Steps] /\ pc'[p] = "idle"
  BY <1>1 DEF TypeOK, Steps
<1> QED BY <1>1, <1>3, <1>4, <1>5, <1>6 DEF TypeOK

LEMMA EndsLoops ==
    ASSUME TypeOK, NEW p \in Procs, Ends(p)
    PROVE  /\ loop' \in [Loops -> [file : images \cup {Nothing}, auto : BOOLEAN]]
           /\ \A n \in Loops :
                /\ loop'[n] = loop[n] \/ (loop'[n] = Detached /\ ~UsedThen(n))
                /\ loop'[n].auto => UsedThen(n)
<1>1. loop' = Settle(fds', mapper', mounted') /\ fds' = [fds EXCEPT ![p] = {}]
  BY DEF Ends, Vanish
<1>2. Detached \in [file : images \cup {Nothing}, auto : BOOLEAN] /\ ~Detached.auto
  BY DEF Detached
<1>3. ASSUME NEW n \in Loops
      PROVE  /\ loop'[n] \in [file : images \cup {Nothing}, auto : BOOLEAN]
             /\ loop'[n] = loop[n] \/ (loop'[n] = Detached /\ ~UsedThen(n))
             /\ loop'[n].auto => UsedThen(n)
  <2>1. loop'[n] = IF loop[n].auto /\ ~UsedThen(n) THEN Detached ELSE loop[n]
    BY <1>1 DEF Settle, UsedThen
  <2> QED BY <1>2, <2>1 DEF TypeOK
<1>4. loop' \in [Loops -> [file : images \cup {Nothing}, auto : BOOLEAN]]
  BY <1>1, <1>3 DEF Settle
<1> QED BY <1>3, <1>4

\* What is below a device stays below it as long as somebody uses it
LEMMA EndsBelow ==
    ASSUME TypeOK, NEW p \in Procs, Ends(p), NEW d \in Devices,
           d \in Loops => UsedThen(d)
    PROVE  BelowThen(d) = Below(d)
BY EndsLoops DEF Below, BelowThen

-----------------------------------------------------------------------------
(* Types and what a command has *)

LEMMA EndsTyping ==
    ASSUME TypeOK, DeviceInv, KeyInv, NEW p \in Procs, Shrinks(p) \/ Opens(p) \/ Mounts(p)
    PROVE  TypeOK' /\ DeviceInv'
<1>0. Ends(p)
  BY DEF Shrinks, Opens, Mounts
<1>1. /\ mapper' \in [Mappers -> Mappings \cup {Nothing}] /\ mounted' \subseteq Devices
      /\ \A m \in Mappers : Live(m)' =>
           \/ mapper'[m] = mapper[m]
           \/ mapper'[m].dev = dev[p] /\ Below(dev[p]) \in Volumes /\ dev[p] \in Devices
  <2>1. CASE Shrinks(p)
    BY <2>1 DEF Shrinks, TypeOK, Live
  <2>2. CASE Opens(p)
    <3>1. pc[p] = "open" /\ job[p].volume \in Volumes /\ dev[p] \in Devices
      BY <2>2, JobsTyping DEF Opens, DeviceInv, DeviceOK, Working
    <3>2. content[job[p].volume].lock \in {"luks", "plain"} /\ Looked(job[p].volume) \subseteq Procs
      BY <2>2, <3>1 DEF Opens, KeyInv, TypeOK, Looked
    <3>3. [dev |-> dev[p], type |-> content[job[p].volume].lock, fits |-> TRUE,
           late |-> Looked(job[p].volume)] \in Mappings
      BY <3>1, <3>2, MappingTyping
    <3>4. Below(dev[p]) \in Volumes
      BY <2>2, <3>1 DEF Opens, DeviceInv, DeviceOK, Working
    <3> QED BY <2>2, <3>1, <3>3, <3>4 DEF Opens, TypeOK
  <2>3. CASE Mounts(p)
    BY <2>3 DEF Mounts, DeviceInv, DeviceOK, Working, TypeOK
  <2> QED BY <2>1, <2>2, <2>3
<1>2. ASSUME NEW m \in Mappers, Live(m)'
      PROVE  BelowThen(mapper'[m].dev) \in Volumes
  <2>1. mapper'[m].dev \in Devices /\ Below(mapper'[m].dev) \in Volumes
    <3>1. CASE mapper'[m] = mapper[m]
      BY <1>2, <3>1, MappersTyping DEF Live
    <3> QED BY <1>1, <1>2, <3>1
  <2>2. mapper'[m].dev \in Loops => UsedThen(mapper'[m].dev)
    BY <1>2 DEF UsedThen, Live
  <2> QED BY <1>0, <2>1, <2>2, EndsBelow
<1>3. TypeOK'
  <2>1. (\A m \in Mappers : Live(m) => Below(mapper[m].dev) \in Volumes)'
    BY <1>2 DEF Below, BelowThen
  <2> QED BY <1>0, <1>1, <2>1, EndsFrame, EndsLoops DEF TypeOK, Ends, Others
<1>4. DeviceInv'
  <2>1. DeviceOK(p)'
    BY <1>0, EndsFrame DEF DeviceOK, Creating, Working
  <2>2. ASSUME NEW q \in Procs \ {p} PROVE DeviceOK(q)'
    <3>1. /\ pc'[q] = pc[q] /\ job'[q] = job[q] /\ dev'[q] = dev[q] /\ fds'[q] = fds[q]
          /\ images' = images /\ DeviceOK(q)
      BY <1>0, EndsFrame DEF Others, DeviceInv
    <3>2. pc[q] \in Working \cup {"status"} => BelowThen(dev[q]) = Below(dev[q])
      <4> SUFFICES ASSUME pc[q] \in Working \cup {"status"}
                   PROVE  BelowThen(dev[q]) = Below(dev[q])
        OBVIOUS
      <4>1. dev[q] \in Devices /\ (dev[q] \in Loops => dev[q] \in fds'[q])
        BY <3>1 DEF DeviceOK
      <4>2. dev[q] \in Loops => UsedThen(dev[q])
        BY <4>1 DEF UsedThen
      <4> QED BY <1>0, <4>1, <4>2, EndsBelow
    <3> QED BY <3>1, <3>2 DEF DeviceOK, Below, BelowThen
  <2> QED BY <2>1, <2>2 DEF DeviceInv
<1> QED BY <1>3, <1>4

\* A command that goes on leaves every file on its loop device
FilesKept == \A d \in Devices : Below(d) \in Volumes => BelowThen(d) = Below(d)

LEMMA SameFiles == ASSUME UNCHANGED loop PROVE FilesKept
BY DEF FilesKept, Below, BelowThen

LEMMA OthersDevices ==
    ASSUME TypeOK, DeviceInv, NEW p \in Procs, Others(p), FilesKept, DeviceOK(p)'
    PROVE  DeviceInv'
<1>1. ASSUME NEW q \in Procs \ {p} PROVE DeviceOK(q)'
  <2>1. /\ pc'[q] = pc[q] /\ job'[q] = job[q] /\ dev'[q] = dev[q] /\ fds'[q] = fds[q]
        /\ images' = images /\ DeviceOK(q)
    BY DEF Others, DeviceInv
  <2>2. pc[q] \in Working \cup {"status"} =>
           dev[q] \in Devices /\ Below(dev[q]) \in Volumes
    BY <2>1, JobsTyping DEF DeviceOK, Working
  <2>3. pc[q] \in Working \cup {"status"} => BelowThen(dev[q]) = Below(dev[q])
    BY <2>2 DEF FilesKept
  <2> QED BY <2>1, <2>3 DEF DeviceOK, Below, BelowThen
<1> QED BY <1>1 DEF DeviceInv

LEMMA SameMappers ==
    ASSUME TypeOK, FilesKept, UNCHANGED mapper
    PROVE  /\ mapper' \in [Mappers -> Mappings \cup {Nothing}]
           /\ (\A m \in Mappers : Live(m) => Below(mapper[m].dev) \in Volumes)'
<1>1. ASSUME NEW m \in Mappers, Live(m) PROVE BelowThen(mapper[m].dev) \in Volumes
  BY <1>1, MappersTyping DEF FilesKept
<1> QED BY <1>1 DEF TypeOK, Live, Below, BelowThen

\* What the steps that give a command its device have in common
LEMMA AgainFrame ==
    ASSUME TypeOK, DeviceInv, NEW p \in Procs, Again(p), pc[p] \in {"free", "attach", "status"}
    PROVE  /\ pc' \in [Procs -> Steps] /\ tries' \in [Procs -> 1 .. Tries]
           /\ pc'[p] \in {"free", "quit"} /\ \A q \in Procs \ {p} : pc'[q] = pc[q]
           /\ UNCHANGED <<job, dev, mapper, mounted>>
<1>1. PICK l \in {"free", "quit"} : pc' = [pc EXCEPT ![p] = l]
  BY DEF Again, Goto
<1>2. tries[p] \in 1 .. Tries /\ Tries \in Nat
  BY CreateAssumption DEF TypeOK
<1>3. tries' \in [Procs -> 1 .. Tries]
  <2>1. CASE tries[p] > 1
    <3>1. tries[p] - 1 \in 1 .. Tries
      BY <1>2, <2>1
    <3> QED BY <2>1, <3>1 DEF Again, TypeOK
  <2>2. CASE ~(tries[p] > 1)
    BY <2>2 DEF Again, TypeOK
  <2> QED BY <2>1, <2>2
<1>4. pc' \in [Procs -> Steps] /\ pc'[p] = l
  BY <1>1 DEF TypeOK, Steps
<1> QED BY <1>1, <1>3, <1>4 DEF Again, TypeOK

LEMMA StartTyping ==
    ASSUME TypeOK, DeviceInv, NEW p \in Procs, Start(p)
    PROVE  TypeOK' /\ DeviceInv' /\ Others(p) /\ FilesKept
<1>1. PICK j \in Jobs :
        /\ pc[p] = "idle" /\ runs < Runs /\ runs' = runs + 1
        /\ job' = [job EXCEPT ![p] = j]
        /\ IF j.volume \in Disks
           THEN Goto(p, First(j)) /\ dev' = [dev EXCEPT ![p] = j.volume]
           ELSE Goto(p, "free") /\ UNCHANGED dev
        /\ spoiled' = spoiled \ {p}
        /\ UNCHANGED <<system, child, fds, tries, left>>
  BY DEF Start
<1>2. /\ j.volume \in Volumes /\ First(j) \in {"check", "open", "close", "mount", "umount"}
      /\ First(j) = "check" => j.op = "create"
      /\ j.volume \notin Disks => j.volume \in images
  BY JobsTyping DEF First, Disks
<1>3. PICK l \in {"check", "open", "close", "mount", "umount", "free"} :
        /\ pc' = [pc EXCEPT ![p] = l] /\ (l = "check" => j.op = "create")
        /\ l = "free" <=> j.volume \notin Disks
  BY <1>1, <1>2 DEF Goto
<1>4. /\ FilesKept /\ spoiled' = spoiled \ {p}
      /\ UNCHANGED <<images, content, loop, mapper, mounted, child, fds, tries, left>>
  BY <1>1, SameFiles DEF system
<1>5. pc' \in [Procs -> Steps] /\ job' \in [Procs -> Jobs \cup {NoJob}]
      /\ dev' \in [Procs -> Devices \cup {Nothing}] /\ runs' \in 0 .. Runs
  <2>1. runs' \in 0 .. Runs
    BY <1>1, CreateAssumption DEF TypeOK
  <2>2. dev' \in [Procs -> Devices \cup {Nothing}]
    BY <1>1, <1>2 DEF TypeOK, Devices
  <2> QED BY <1>1, <1>3, <2>1, <2>2 DEF TypeOK, Steps
<1>6. TypeOK'
  BY <1>4, <1>5, SameMappers DEF TypeOK
<1>7. Others(p)
  BY <1>1, <1>3, <1>4 DEF Others, TypeOK
<1>8. DeviceOK(p)'
  <2>1. job'[p] = j /\ pc'[p] = l /\ pc'[p] # "idle"
    BY <1>1, <1>3 DEF TypeOK
  <2>2. l # "free" => dev'[p] = j.volume /\ dev'[p] \notin Loops /\ dev'[p] \in Devices
    BY <1>1, <1>2, <1>3, CreateAssumption DEF TypeOK, Devices
  <2>3. l # "free" => BelowThen(dev'[p]) = j.volume
    BY <2>2 DEF BelowThen
  <2> QED BY <1>2, <1>3, <1>4, <2>1, <2>2, <2>3 DEF DeviceOK, Creating, Working, Below, BelowThen
<1> QED BY <1>4, <1>6, <1>7, <1>8, OthersDevices

LEMMA GetFreeTyping ==
    ASSUME TypeOK, DeviceInv, NEW p \in Procs, GetFree(p)
    PROVE  TypeOK' /\ DeviceInv' /\ Others(p) /\ FilesKept
<1>1. /\ FilesKept /\ pc[p] = "free"
      /\ UNCHANGED <<images, content, loop, child, fds, left, spoiled, runs, job, mapper, mounted>>
  BY SameFiles DEF GetFree, Again
<1>2. CASE Again(p)
  <2>1. TypeOK' /\ Others(p)
    BY <1>1, <1>2, AgainFrame, SameMappers DEF TypeOK, Others
  <2>2. DeviceOK(p)'
    BY <1>1, <1>2, AgainFrame DEF DeviceInv, DeviceOK, Creating, Working
  <2> QED BY <1>1, <2>1, <2>2, OthersDevices
<1>3. CASE \E n \in Loops : /\ dev' = [dev EXCEPT ![p] = n]
                            /\ Goto(p, "attach") /\ UNCHANGED tries
  <2>1. pc' \in [Procs -> Steps] /\ dev' \in [Procs -> Devices \cup {Nothing}]
        /\ pc'[p] = "attach" /\ dev'[p] \in Loops
    BY <1>3 DEF Goto, TypeOK, Steps, Devices
  <2>2. TypeOK' /\ Others(p)
    BY <1>1, <1>3, <2>1, SameMappers DEF TypeOK, Others, Goto
  <2>3. DeviceOK(p)'
    BY <1>1, <2>1 DEF DeviceInv, DeviceOK, Creating, Working
  <2> QED BY <1>1, <2>2, <2>3, OthersDevices
<1> QED BY <1>2, <1>3 DEF GetFree

LEMMA AttachTyping ==
    ASSUME TypeOK, DeviceInv, NEW p \in Procs, Attach(p)
    PROVE  TypeOK' /\ DeviceInv' /\ Others(p) /\ FilesKept
<1>1. /\ pc[p] = "attach" /\ dev[p] \in Loops /\ job[p] \in Jobs
      /\ job[p].volume \in images /\ job[p].volume \in Volumes
      /\ fds' = [fds EXCEPT ![p] = @ \cup {dev[p]}]
      /\ UNCHANGED <<images, content, child, left, spoiled, runs, job, dev, mapper, mounted>>
  BY JobsTyping DEF Attach, Again, DeviceInv, DeviceOK, TypeOK
<1>2. fds' \in [Procs -> SUBSET Loops] /\ \A q \in Procs \ {p} : fds'[q] = fds[q]
      /\ dev[p] \in fds'[p]
  BY <1>1 DEF TypeOK
<1>3. CASE Again(p) /\ UNCHANGED loop
  <2>1. FilesKept
    BY <1>3, SameFiles
  <2>2. TypeOK' /\ Others(p)
    BY <1>1, <1>2, <1>3, <2>1, AgainFrame, SameMappers DEF TypeOK, Others
  <2>3. DeviceOK(p)'
    BY <1>1, <1>3, AgainFrame DEF DeviceInv, DeviceOK, Creating, Working
  <2> QED BY <2>1, <2>2, <2>3, OthersDevices
<1>4. CASE /\ loop[dev[p]].file = Nothing /\ Goto(p, "status") /\ UNCHANGED tries
           /\ loop' = [loop EXCEPT ![dev[p]] = [file |-> job[p].volume, auto |-> FALSE]]
  <2>1. /\ loop' \in [Loops -> [file : images \cup {Nothing}, auto : BOOLEAN]]
        /\ loop'[dev[p]].file = job[p].volume
        /\ \A n \in Loops \ {dev[p]} : loop'[n] = loop[n]
    BY <1>1, <1>4 DEF TypeOK
  <2>2. FilesKept
    <3>1. Nothing \notin Volumes
      BY CreateAssumption
    <3> QED BY <1>4, <2>1, <3>1 DEF FilesKept, Below, BelowThen
  <2>3. pc' \in [Procs -> Steps] /\ pc'[p] = "status" /\ \A q \in Procs \ {p} : pc'[q] = pc[q]
    BY <1>4 DEF Goto, TypeOK, Steps
  <2>4. TypeOK' /\ Others(p)
    BY <1>1, <1>2, <1>4, <2>1, <2>2, <2>3, SameMappers DEF TypeOK, Others
  <2>5. DeviceOK(p)'
    BY <1>1, <1>2, <2>1, <2>3 DEF DeviceOK, Creating, Working, Below, Devices
  <2> QED BY <2>2, <2>4, <2>5, OthersDevices
<1> QED BY <1>1, <1>3, <1>4 DEF Attach

LEMMA StatusTyping ==
    ASSUME TypeOK, DeviceInv, NEW p \in Procs, Status(p)
    PROVE  TypeOK' /\ DeviceInv' /\ Others(p) /\ FilesKept
<1>1. /\ pc[p] = "status" /\ dev[p] \in Loops /\ dev[p] \in fds[p] /\ job[p] \in Jobs
      /\ job[p].volume \in images /\ Below(dev[p]) = job[p].volume /\ job[p].volume \in Volumes
      /\ UNCHANGED <<images, content, child, fds, spoiled, runs, job, dev, mapper, mounted>>
  BY JobsTyping DEF Status, Again, DeviceInv, DeviceOK, TypeOK
<1>2. CASE Again(p) /\ left' = left \cup {dev[p]} /\ UNCHANGED loop
  <2>1. FilesKept
    BY <1>2, SameFiles
  <2>2. TypeOK' /\ Others(p)
    BY <1>1, <1>2, <2>1, AgainFrame, SameMappers DEF TypeOK, Others
  <2>3. DeviceOK(p)'
    BY <1>1, <1>2, AgainFrame DEF DeviceInv, DeviceOK, Creating, Working
  <2> QED BY <2>1, <2>2, <2>3, OthersDevices
<1>3. CASE /\ loop' = [loop EXCEPT ![dev[p]].auto = TRUE]
           /\ Goto(p, First(job[p])) /\ UNCHANGED <<tries, left>>
  <2>1. /\ loop' \in [Loops -> [file : images \cup {Nothing}, auto : BOOLEAN]]
        /\ \A n \in Loops : loop'[n].file = loop[n].file
    <3>1. loop[dev[p]] \in [file : images \cup {Nothing}, auto : BOOLEAN]
      BY <1>1 DEF TypeOK
    <3>2. loop' = [loop EXCEPT ![dev[p]] = [loop[dev[p]] EXCEPT !.auto = TRUE]]
      BY <1>3
    <3>3. /\ [loop[dev[p]] EXCEPT !.auto = TRUE] \in
               [file : images \cup {Nothing}, auto : BOOLEAN]
          /\ [loop[dev[p]] EXCEPT !.auto = TRUE].file = loop[dev[p]].file
      BY <3>1
    <3> QED BY <1>1, <3>2, <3>3 DEF TypeOK
  <2>2. FilesKept
    BY <2>1 DEF FilesKept, Below, BelowThen
  <2>3. PICK l \in {"check", "open", "close", "mount", "umount"} :
          pc' = [pc EXCEPT ![p] = l] /\ (l = "check" => job[p].op = "create")
    BY <1>1, <1>3, JobsTyping DEF Goto, First
  <2>4. pc' \in [Procs -> Steps] /\ pc'[p] = l /\ \A q \in Procs \ {p} : pc'[q] = pc[q]
    BY <2>3 DEF TypeOK, Steps
  <2>5. TypeOK' /\ Others(p)
    BY <1>1, <1>3, <2>1, <2>2, <2>4, SameMappers DEF TypeOK, Others
  <2>6. DeviceOK(p)'
    BY <1>1, <2>1, <2>3, <2>4 DEF DeviceOK, Creating, Working, Below, Devices
  <2> QED BY <2>2, <2>5, <2>6, OthersDevices
<1> QED BY <1>1, <1>2, <1>3 DEF Status

\* The command goes from one of these steps to the other, and this changes
\* nothing but its child
Advances(p, from, to) ==
    /\ pc[p] = from /\ Goto(p, to)
    /\ UNCHANGED <<images, loop, job, dev, fds, tries, mounted, runs>>

LEMMA AdvanceTyping ==
    ASSUME TypeOK, DeviceInv, NEW p \in Procs, NEW from \in Creating, NEW to \in Creating,
           Advances(p, from, to), \A q \in Procs \ {p} : child'[q] = child[q],
           spoiled \subseteq spoiled'
    PROVE  DeviceInv' /\ Others(p) /\ FilesKept /\ pc' \in [Procs -> Steps] /\ pc'[p] = to
<1>1. /\ pc' \in [Procs -> Steps] /\ pc'[p] = to /\ \A q \in Procs \ {p} : pc'[q] = pc[q]
      /\ FilesKept /\ pc[p] \in Creating
  BY SameFiles DEF Advances, Goto, TypeOK, Steps, Creating
<1>2. Others(p)
  BY <1>1 DEF Advances, Others
<1>3. DeviceOK(p)'
  BY <1>1 DEF Advances, DeviceInv, DeviceOK, Creating, Working, Below
<1> QED BY <1>1, <1>2, <1>3, OthersDevices

LEMMA UnfitTyping ==
    ASSUME TypeOK, NEW v \in Volumes
    PROVE  /\ Unfit(v) \in [Mappers -> Mappings \cup {Nothing}]
           /\ \A m \in Mappers :
                /\ Unfit(v)[m] = Nothing <=> mapper[m] = Nothing
                /\ Live(m) => /\ Unfit(v)[m].dev = mapper[m].dev
                              /\ Unfit(v)[m].type = mapper[m].type
                              /\ Unfit(v)[m].late = mapper[m].late
                              /\ Below(mapper[m].dev) = v => ~Unfit(v)[m].fits
                              /\ Below(mapper[m].dev) # v => Unfit(v)[m].fits = mapper[m].fits
<1>1. ASSUME NEW m \in Mappers
      PROVE  /\ Unfit(v)[m] \in Mappings \cup {Nothing}
             /\ Unfit(v)[m] = Nothing <=> mapper[m] = Nothing
             /\ Live(m) => /\ Unfit(v)[m].dev = mapper[m].dev
                           /\ Unfit(v)[m].type = mapper[m].type
                           /\ Unfit(v)[m].late = mapper[m].late
                           /\ Below(mapper[m].dev) = v => ~Unfit(v)[m].fits
                           /\ Below(mapper[m].dev) # v => Unfit(v)[m].fits = mapper[m].fits
  <2>1. CASE Live(m) /\ Below(mapper[m].dev) = v
    <3>1. Unfit(v)[m] = [mapper[m] EXCEPT !.fits = FALSE]
      BY <2>1 DEF Unfit
    <3> QED BY <2>1, <3>1, MappersTyping, MappingTyping DEF Live
  <2>2. CASE ~(Live(m) /\ Below(mapper[m].dev) = v)
    <3>1. Unfit(v)[m] = mapper[m]
      BY <2>2 DEF Unfit
    <3> QED BY <2>2, <3>1 DEF Live, TypeOK
  <2> QED BY <2>1, <2>2
<1>2. Unfit(v) \in [Mappers -> Mappings \cup {Nothing}]
  BY <1>1 DEF Unfit
<1> QED BY <1>1, <1>2

-----------------------------------------------------------------------------
(* The steps of a creation that goes on, and those of mkfs *)

\* Up to the first step with a device: nothing is opened yet
Begins(p) ==
    /\ pc[p] \in {"idle", "free", "attach", "status"}
    /\ pc'[p] \in {"free", "attach", "status", "quit", "check", "open", "close", "mount", "umount"}
    /\ (pc[p] # "idle" /\ job' = job) \/ Alone(p, job'[p])
    /\ UNCHANGED <<content, mapper, mounted, child>>
    /\ left \subseteq left'

Checked(p) ==
    /\ Advances(p, "check", "ask") /\ ~Live(Opened(job[p].volume))
    /\ UNCHANGED <<content, mapper, child, left, spoiled>>
Asked(p) ==
    /\ Advances(p, "ask", IF job[p].type = "luks" THEN "format" ELSE "activate")
    /\ UNCHANGED <<content, mapper, child, left, spoiled>>
Formatted(p) ==
    /\ Advances(p, "format", "slot") /\ ~Busy(dev[p])
    /\ content' = [content EXCEPT ![job[p].volume] = Header]
    /\ mapper' = Unfit(job[p].volume)
    /\ UNCHANGED <<child, left, spoiled>>
Added(p) ==
    /\ Advances(p, "slot", "activate") \/ Advances(p, "slot", "wipe")
    /\ content' = [content EXCEPT ![job[p].volume] =
                      [lock |-> "luks", key |-> TRUE, fs |-> content[job[p].volume].fs]]
    /\ UNCHANGED <<mapper, child, left, spoiled>>

Wiped(p) ==
    /\ Advances(p, "wipe", "wiped") /\ ~Busy(dev[p]) /\ ~Live(Wiper(p))
    /\ mapper' = [mapper EXCEPT ![Wiper(p)] =
                    [dev |-> dev[p], type |-> "luks", fits |-> TRUE, late |-> {}]]
    /\ UNCHANGED <<content, child, left, spoiled>>
Unwiped(p) ==
    /\ Advances(p, "wiped", "activate")
    /\ UNCHANGED <<content, child, spoiled>>
    /\ \/ mapper' = mapper /\ left' = left \cup {p}
       \/ mapper' = [mapper EXCEPT ![Wiper(p)] = Nothing] /\ left' = left

\* The mappers but its own, which its activation may make useless
Rest(p) == IF job[p].type = "plain" THEN Unfit(job[p].volume) ELSE mapper
Activated(p) ==
    /\ Advances(p, "activate", "mkfs") /\ ~Busy(dev[p]) /\ ~Live(Created(p))
    /\ mapper' = [Rest(p) EXCEPT ![Created(p)] =
                    [dev |-> dev[p], type |-> job[p].type, fits |-> TRUE, late |-> {}]]
    /\ UNCHANGED <<content, child, left, spoiled>>
Forked(p) ==
    /\ \/ /\ Advances(p, "mkfs", "lock") /\ job[p].fs = "none"
          /\ child' = [child EXCEPT ![p] = "ok"] /\ spoiled' = spoiled
       \/ /\ Advances(p, "mkfs", "wait")
          /\ child' = [child EXCEPT ![p] = "running"] /\ spoiled' = spoiled
       \/ /\ Advances(p, "mkfs", "wait")
          /\ \E c \in {"ok", "failed"} : child' = [child EXCEPT ![p] = c]
          /\ spoiled' = spoiled \cup {p}
    /\ UNCHANGED <<content, mapper, left>>
Waited(p) ==
    /\ Advances(p, "wait", "lock") /\ child[p] \in {"ok", "failed"}
    /\ UNCHANGED <<content, mapper, child, left, spoiled>>
Closed(p) ==
    /\ Advances(p, "lock", "done") /\ child[p] = "ok"
    /\ child' = [child EXCEPT ![p] = "off"]
    /\ UNCHANGED <<content, spoiled>>
    /\ \/ mapper' = mapper /\ left' = left \cup {p}
       \/ mapper' = [mapper EXCEPT ![Created(p)] = Nothing] /\ left' = left
GoesOn(p) ==
    \/ Checked(p) \/ Asked(p) \/ Formatted(p) \/ Added(p) \/ Wiped(p) \/ Unwiped(p)
    \/ Activated(p) \/ Forked(p) \/ Waited(p) \/ Closed(p)

\* A mkfs that ends without a further write
Stops(p) ==
    /\ child[p] \in {"running", "half"}
    /\ \/ pc[p] = "wait" /\ child' = [child EXCEPT ![p] = "failed"]
       \/ pc[p] # "wait" /\ child' = [child EXCEPT ![p] = "off"]
    /\ UNCHANGED <<system, command, left, spoiled>>
Writes(p) == MkfsWrites(p) \/ MkfsMakes(p)

\* A write of something that is mounted or open
Foreign(v) ==
    /\ \E behind \in BOOLEAN : Spoil(v, behind)
    /\ UNCHANGED <<images, loop, mapper, mounted, child, command, left>>

\* The steps of a command and of its mkfs
Own == \E p \in Procs : Start(p) \/ Command(p) \/ Mkfs(p) \/ Kill(p)

LEMMA OwnOrForeign == ASSUME TypeOK, Next PROVE Own \/ \E v : Foreign(v)
<1>1. CASE \E p \in Procs : Start(p) \/ Command(p) \/ Mkfs(p) \/ Kill(p)
  BY <1>1 DEF Own
<1>2. ASSUME NEW d \in Devices, MountedWrites(d) PROVE Foreign(Below(d))
  BY <1>2 DEF MountedWrites, Foreign
<1>3. ASSUME NEW v \in Volumes, OpenedWrites(v) PROVE Foreign(v)
  BY <1>3 DEF OpenedWrites, Foreign
<1> QED BY <1>1, <1>2, <1>3 DEF Next

\* Every step of a command is one of these
LEMMA NextCases ==
    ASSUME TypeOK, DeviceInv, Own
    PROVE  \E p \in Procs :
             \/ Start(p) \/ GetFree(p) \/ Attach(p) \/ Status(p)
             \/ Shrinks(p) \/ Opens(p) \/ Mounts(p)
             \/ GoesOn(p) \/ Stops(p) \/ Writes(p)
<1>1. PICK p \in Procs : Start(p) \/ Command(p) \/ Mkfs(p) \/ Kill(p)
  BY DEF Own
<1>2. CASE Quit(p) \/ Done(p)
  BY <1>2, ExitShrinks DEF Quit, Done
<1>3. CASE Open(p) \/ CloseOpened(p) \/ Mount(p) \/ Umount(p)
  BY <1>3, OthersEnd
<1>4. CASE Kill(p)
  BY <1>4, KillShrinks
<1>5. CASE Check(p) \/ Ask(p)
  <2>1. CASE Exit(p)
    BY <1>5, <2>1, ExitShrinks DEF Check, Ask
  <2>2. CASE Check(p) /\ ~Exit(p)
    BY <2>2 DEF Check, Keep, Checked, GoesOn, Advances
  <2>3. CASE Ask(p) /\ ~Exit(p)
    BY <2>3 DEF Ask, Keep, Asked, GoesOn, Advances
  <2> QED BY <1>5, <2>1, <2>2, <2>3
<1>6. CASE Format(p) \/ AddSlot(p) \/ Wipe(p) \/ Unwipe(p) \/ Activate(p)
  <2>1. CASE Exit(p) /\ content' = content /\ ~Unwipe(p)
    BY <1>6, <2>1, ExitShrinks DEF Format, AddSlot, Wipe, Activate
  <2>2. CASE Format(p) /\ ~(Exit(p) /\ content' = content)
    BY <2>2 DEF Format, Formatted, GoesOn, Advances
  <2>3. CASE AddSlot(p) /\ ~(Exit(p) /\ content' = content)
    BY <2>3 DEF AddSlot, Keep, Added, GoesOn, Advances
  <2>4. CASE Activate(p) /\ ~(Exit(p) /\ content' = content)
    BY <2>4 DEF Activate, Rest, Activated, GoesOn, Advances
  <2>5. CASE Wipe(p) /\ ~(Exit(p) /\ content' = content)
    BY <2>5 DEF Wipe, Wiped, GoesOn, Advances
  <2>6. CASE Unwipe(p)
    <3>1. \/ mapper' = mapper /\ left' = left \cup {p}
          \/ mapper' = [mapper EXCEPT ![Wiper(p)] = Nothing] /\ left' = left
      BY <2>6 DEF Unwipe
    <3> QED BY <2>6, <3>1 DEF Unwipe, Unwiped, GoesOn, Advances
  <2> QED BY <1>6, <2>1, <2>2, <2>3, <2>4, <2>5, <2>6
<1>7. CASE StartMkfs(p) \/ Wait(p)
  BY <1>7 DEF StartMkfs, Wait, Keep, Forked, Waited, GoesOn, Advances
<1>8. CASE Close(p)
  <2>1. CASE Succeeded(p)
    <3>1. mapper' = mapper => left' = left \cup {p}
      BY <1>8, <2>1 DEF Close
    <3>2. \/ mapper' = mapper
          \/ mapper' = [mapper EXCEPT ![Created(p)] = Nothing] /\ left' = left
      BY <1>8, <2>1 DEF Close
    <3> QED BY <1>8, <2>1, <3>1, <3>2 DEF Close, Succeeded, Closed, GoesOn, Advances
  <2> QED BY <1>8, <2>1, CloseShrinks
<1>9. CASE Timer(p) \/ MkfsFails(p)
  BY <1>9 DEF Timer, MkfsFails, MkfsEnds, Orphan, Stops
<1> QED BY <1>1, <1>2, <1>3, <1>4, <1>5, <1>6, <1>7, <1>8, <1>9 DEF Command, Mkfs, Writes

LEMMA BeginsTyping ==
    ASSUME TypeOK, DeviceInv, NEW p \in Procs,
           Start(p) \/ GetFree(p) \/ Attach(p) \/ Status(p)
    PROVE  TypeOK' /\ DeviceInv' /\ Others(p) /\ FilesKept /\ Begins(p)
<1>1. TypeOK' /\ DeviceInv' /\ Others(p) /\ FilesKept
  BY StartTyping, GetFreeTyping, AttachTyping, StatusTyping
<1>2. CASE Start(p)
  <2>1. PICK j \in Jobs :
          /\ pc[p] = "idle" /\ Alone(p, j) /\ job' = [job EXCEPT ![p] = j]
          /\ IF j.volume \in Disks THEN Goto(p, First(j)) ELSE Goto(p, "free")
          /\ spoiled' = spoiled \ {p} /\ UNCHANGED <<system, child, left>>
    BY <1>2 DEF Start
  <2>2. job'[p] = j /\ First(j) \in {"check", "open", "close", "mount", "umount"}
    BY <2>1, JobsTyping DEF TypeOK, First
  <2> QED BY <1>1, <2>1, <2>2 DEF Begins, system, Goto, TypeOK
<1>3. CASE GetFree(p)
  <2>1. pc'[p] \in {"attach", "free", "quit"}
    BY <1>3, AgainFrame DEF GetFree, Goto, TypeOK
  <2> QED BY <1>1, <1>3, <2>1 DEF Begins, GetFree, Again
<1>4. CASE Attach(p)
  <2>1. pc'[p] \in {"status", "free", "quit"}
    BY <1>4, AgainFrame DEF Attach, Goto, TypeOK
  <2> QED BY <1>1, <1>4, <2>1 DEF Begins, Attach, Again
<1>5. CASE Status(p)
  <2>1. pc[p] = "status" /\ job[p] \in Jobs
    BY <1>5 DEF Status, DeviceInv, DeviceOK
  <2>2. First(job[p]) \in {"check", "open", "close", "mount", "umount"}
    BY <2>1, JobsTyping DEF First
  <2>3. pc'[p] \in {"check", "open", "close", "mount", "umount", "free", "quit"}
    BY <1>5, <2>1, <2>2, AgainFrame DEF Status, Goto, TypeOK
  <2> QED BY <1>1, <1>5, <2>3 DEF Begins, Status, Again
<1> QED BY <1>2, <1>3, <1>4, <1>5

\* The header and the key that a creation makes
LEMMA ContentTyping ==
    ASSUME TypeOK, NEW v \in Volumes, NEW c \in [lock : {"none", "luks", "plain"}, key : BOOLEAN,
                                                 fs : {"no", "part", "whole", "torn"}]
    PROVE  [content EXCEPT ![v] = c] \in
              [Volumes -> [lock : {"none", "luks", "plain"}, key : BOOLEAN,
                           fs : {"no", "part", "whole", "torn"}]]
BY DEF TypeOK

\* A write that does not come from the creation of the volume changes that volume
\* alone, and every creation of it that has begun to write is known to be spoiled
LEMMA SpoilFrame ==
    ASSUME TypeOK, NEW w, NEW behind \in BOOLEAN, Spoil(w, behind)
    PROVE  /\ content' \in [Volumes -> [lock : {"none", "luks", "plain"}, key : BOOLEAN,
                                        fs : {"no", "part", "whole", "torn"}]]
           /\ \A v \in Volumes : v # w => content'[v] = content[v]
           /\ \A v \in Volumes : content'[v].key =>
                content[v].key /\ content'[v].lock = content[v].lock
           /\ spoiled \subseteq spoiled' /\ spoiled' \subseteq Procs
           /\ \A q \in Procs : Past(q) /\ job[q].volume = w => q \in spoiled'
<1>1. /\ \/ content' = [content EXCEPT ![w].fs = "torn"]
         \/ content' = [content EXCEPT ![w] = [lock |-> "none", key |-> FALSE, fs |-> "torn"]]
      /\ spoiled' = spoiled \cup Making(w)
  BY DEF Spoil
<1>2. spoiled \subseteq spoiled' /\ spoiled' \subseteq Procs
      /\ \A q \in Procs : Past(q) /\ job[q].volume = w => q \in spoiled'
  BY <1>1 DEF Making, Past, TypeOK
<1>3. CASE content' = [content EXCEPT ![w].fs = "torn"]
  <2>1. ASSUME NEW v \in Volumes
        PROVE  /\ content'[v] \in [lock : {"none", "luks", "plain"}, key : BOOLEAN,
                                   fs : {"no", "part", "whole", "torn"}]
               /\ v # w => content'[v] = content[v]
               /\ content'[v].key = content[v].key /\ content'[v].lock = content[v].lock
    <3>1. content[v] \in [lock : {"none", "luks", "plain"}, key : BOOLEAN,
                          fs : {"no", "part", "whole", "torn"}]
      BY DEF TypeOK
    <3>2. content'[v] = IF v = w THEN [content[v] EXCEPT !.fs = "torn"] ELSE content[v]
      BY <1>3 DEF TypeOK
    <3> QED BY <3>1, <3>2
  <2>2. content' = [v \in Volumes |-> content'[v]]
    BY <1>3 DEF TypeOK
  <2> QED BY <1>2, <2>1, <2>2
<1>4. CASE content' = [content EXCEPT ![w] = [lock |-> "none", key |-> FALSE, fs |-> "torn"]]
  <2>1. [lock |-> "none", key |-> FALSE, fs |-> "torn"] \in
           [lock : {"none", "luks", "plain"}, key : BOOLEAN, fs : {"no", "part", "whole", "torn"}]
    OBVIOUS
  <2> QED BY <1>2, <1>4, <2>1 DEF TypeOK
<1> QED BY <1>1, <1>3, <1>4

\* What a creation at one of its steps has
LEMMA CreatingFacts ==
    ASSUME TypeOK, DeviceInv, NEW p \in Procs, pc[p] \in Creating
    PROVE  /\ job[p].volume \in Volumes /\ job[p].type \in {"luks", "plain"}
           /\ job[p].op = "create" /\ dev[p] \in Devices /\ Below(dev[p]) = job[p].volume
           /\ dev[p] \in Loops => dev[p] \in fds[p]
BY JobsTyping DEF DeviceInv, DeviceOK, Creating, Working

\* The mappers after a step of a creation
LEMMA RestTyping ==
    ASSUME TypeOK, DeviceInv, NEW p \in Procs, pc[p] \in Creating
    PROVE  /\ Rest(p) \in [Mappers -> Mappings \cup {Nothing}]
           /\ \A m \in Mappers :
                /\ Rest(p)[m] = Nothing <=> mapper[m] = Nothing
                /\ Live(m) => /\ Rest(p)[m].dev = mapper[m].dev
                              /\ Rest(p)[m].type = mapper[m].type
                              /\ Rest(p)[m].late = mapper[m].late
                              /\ Rest(p)[m].fits => mapper[m].fits
                              /\ job[p].type = "plain" /\ Below(mapper[m].dev) = job[p].volume
                                   => ~Rest(p)[m].fits
                              /\ Below(mapper[m].dev) # job[p].volume
                                   => Rest(p)[m].fits = mapper[m].fits
<1>1. job[p].volume \in Volumes
  BY CreatingFacts
<1>2. CASE job[p].type = "plain"
  BY <1>1, <1>2, UnfitTyping, MappersTyping DEF Rest
<1>3. CASE job[p].type # "plain"
  BY <1>3 DEF Rest, TypeOK, Live
<1> QED BY <1>2, <1>3

LEMMA GoesOnTyping ==
    ASSUME TypeOK, DeviceInv, NEW p \in Procs, GoesOn(p)
    PROVE  TypeOK' /\ DeviceInv' /\ Others(p) /\ FilesKept /\ {pc[p], pc'[p]} \subseteq Creating
<1>0. spoiled \subseteq spoiled'
  BY DEF GoesOn, Checked, Asked, Formatted, Added, Wiped, Unwiped, Activated, Forked, Waited,
         Closed
<1>1. PICK from \in Creating, to \in Creating : Advances(p, from, to)
  BY DEF GoesOn, Checked, Asked, Formatted, Added, Wiped, Unwiped, Activated, Forked, Waited,
         Closed, Creating
<1>2. pc[p] \in Creating /\ job[p].volume \in Volumes /\ job[p].type \in {"luks", "plain"}
      /\ dev[p] \in Devices /\ Below(dev[p]) \in Volumes
  BY <1>1, CreatingFacts DEF Advances
<1>3. /\ child' \in [Procs -> {"off", "running", "half", "ok", "failed"}]
      /\ \A q \in Procs \ {p} : child'[q] = child[q]
  BY DEF GoesOn, Checked, Asked, Formatted, Added, Wiped, Unwiped, Activated, Forked, Waited,
         Closed, TypeOK
<1>4. DeviceInv' /\ Others(p) /\ FilesKept /\ pc' \in [Procs -> Steps] /\ pc'[p] = to
  BY <1>0, <1>1, <1>3, AdvanceTyping
<1>5. content' \in [Volumes -> [lock : {"none", "luks", "plain"}, key : BOOLEAN,
                                fs : {"no", "part", "whole", "torn"}]]
  <2>1. Header \in [lock : {"none", "luks", "plain"}, key : BOOLEAN,
                    fs : {"no", "part", "whole", "torn"}]
    BY DEF Header
  <2>2. \/ content' = content \/ content' = [content EXCEPT ![job[p].volume] = Header]
        \/ content' = [content EXCEPT ![job[p].volume] =
                          [lock |-> "luks", key |-> TRUE, fs |-> content[job[p].volume].fs]]
    BY DEF GoesOn, Checked, Asked, Formatted, Added, Wiped, Unwiped, Activated, Forked, Waited,
           Closed
  <2>3. CASE content' = content
    BY <2>3 DEF TypeOK
  <2>4. CASE content' = [content EXCEPT ![job[p].volume] = Header]
    BY <1>2, <2>1, <2>4, ContentTyping
  <2>5. CASE content' = [content EXCEPT ![job[p].volume] =
                          [lock |-> "luks", key |-> TRUE, fs |-> content[job[p].volume].fs]]
    <3>1. [lock |-> "luks", key |-> TRUE, fs |-> content[job[p].volume].fs] \in
             [lock : {"none", "luks", "plain"}, key : BOOLEAN, fs : {"no", "part", "whole", "torn"}]
      BY <1>2 DEF TypeOK
    <3> QED BY <1>2, <2>5, <3>1, ContentTyping
  <2> QED BY <2>2, <2>3, <2>4, <2>5
<1>6. left' \subseteq Loops \cup Procs /\ spoiled' \subseteq Procs /\ spoiled \subseteq spoiled'
  BY DEF GoesOn, Checked, Asked, Formatted, Added, Wiped, Unwiped, Activated, Forked, Waited,
         Closed, TypeOK
<1>7. /\ mapper' \in [Mappers -> Mappings \cup {Nothing}]
      /\ \A m \in Mappers : mapper'[m] # Nothing =>
           (Live(m) /\ mapper'[m].dev = mapper[m].dev) \/ mapper'[m].dev = dev[p]
  <2>1. CASE mapper' = mapper
    BY <2>1 DEF TypeOK, Live
  <2>2. CASE mapper' = Unfit(job[p].volume)
    BY <1>2, <2>2, UnfitTyping DEF Live
  <2>3. CASE mapper' = [mapper EXCEPT ![Created(p)] = Nothing]
    BY <2>3 DEF TypeOK, Live
  <2>4. CASE mapper' = [Rest(p) EXCEPT ![Created(p)] =
                    [dev |-> dev[p], type |-> job[p].type, fits |-> TRUE, late |-> {}]]
    <3>1. [dev |-> dev[p], type |-> job[p].type, fits |-> TRUE, late |-> {}] \in Mappings
      BY <1>2, MappingTyping
    <3>2. \A m \in Mappers : mapper'[m] = IF m = Created(p)
             THEN [dev |-> dev[p], type |-> job[p].type, fits |-> TRUE, late |-> {}]
             ELSE Rest(p)[m]
      BY <1>2, <2>4, RestTyping, MapperNames
    <3>3. mapper' \in [Mappers -> Mappings \cup {Nothing}]
      BY <1>2, <2>4, <3>1, RestTyping, MapperNames
    <3> QED BY <1>2, <3>2, <3>3, RestTyping DEF Live
  <2>5. CASE mapper' = [mapper EXCEPT ![Wiper(p)] =
                    [dev |-> dev[p], type |-> "luks", fits |-> TRUE, late |-> {}]]
    <3>1. [dev |-> dev[p], type |-> "luks", fits |-> TRUE, late |-> {}] \in Mappings
      BY <1>2, MappingTyping
    <3>2. \A m \in Mappers : mapper'[m] = IF m = Wiper(p)
             THEN [dev |-> dev[p], type |-> "luks", fits |-> TRUE, late |-> {}]
             ELSE mapper[m]
      BY <2>5 DEF TypeOK
    <3> QED BY <2>5, <3>1, <3>2 DEF Live, TypeOK
  <2>6. CASE mapper' = [mapper EXCEPT ![Wiper(p)] = Nothing]
    BY <2>6 DEF TypeOK, Live
  <2>7. \/ mapper' = mapper \/ mapper' = Unfit(job[p].volume) \/ Activated(p)
        \/ mapper' = [mapper EXCEPT ![Created(p)] = Nothing]
        \/ mapper' = [mapper EXCEPT ![Wiper(p)] = Nothing] \/ Wiped(p)
    BY DEF GoesOn, Checked, Asked, Formatted, Added, Unwiped, Forked, Waited, Closed
  <2> QED BY <2>1, <2>2, <2>3, <2>4, <2>5, <2>6, <2>7 DEF Activated, Wiped
<1>8. (\A m \in Mappers : Live(m) => Below(mapper[m].dev) \in Volumes)'
  <2>1. ASSUME NEW m \in Mappers, mapper'[m] # Nothing
        PROVE  BelowThen(mapper'[m].dev) \in Volumes
    <3>1. mapper'[m].dev \in Devices /\ Below(mapper'[m].dev) \in Volumes
      BY <1>2, <1>7, <2>1, MappersTyping
    <3> QED BY <1>4, <3>1 DEF FilesKept
  <2> QED BY <2>1 DEF Live, Below, BelowThen
<1>9. TypeOK'
  BY <1>1, <1>3, <1>4, <1>5, <1>6, <1>7, <1>8 DEF TypeOK, Advances
<1> QED BY <1>1, <1>2, <1>4, <1>9

\* A write goes to the volume below the mapper of the creation; when its key does not
\* fit any more it spoils what others have made of it
WritesWell(p) ==
    LET m == mapper[Created(p)]
        w == Below(m.dev)
    IN
    /\ m.fits /\ spoiled' = spoiled
    /\ \A v \in Volumes \ {w} : content'[v] = content[v]
    /\ m.type = "luks" => content'[w].lock = content[w].lock /\ content'[w].key = content[w].key
    /\ m.type = "plain" => content'[w].lock = "plain" /\ content'[w].key
    /\ child[p] = "half" => content'[w].fs = "whole"
WritesBadly(p) ==
    /\ ~mapper[Created(p)].fits
    /\ \E behind \in BOOLEAN : Spoil(Below(mapper[Created(p)].dev), behind)

LEMMA WriteFrame ==
    ASSUME TypeOK, MkfsInv, NEW p \in Procs, Writes(p)
    PROVE  LET m == mapper[Created(p)]
               w == Below(m.dev)
           IN
           /\ UNCHANGED <<images, loop, mapper, mounted, command, left>>
           /\ Live(Created(p)) /\ w \in Volumes /\ m.type \in {"luks", "plain"}
           /\ content' \in [Volumes -> [lock : {"none", "luks", "plain"}, key : BOOLEAN,
                                        fs : {"no", "part", "whole", "torn"}]]
           /\ spoiled \subseteq spoiled' /\ spoiled' \subseteq Procs
           /\ WritesWell(p) \/ WritesBadly(p)
           /\ child' \in [Procs -> {"off", "running", "half", "ok", "failed"}]
           /\ \A q \in Procs \ {p} : child'[q] = child[q]
           /\ \/ child[p] = "running" /\ child'[p] = "half"
              \/ child[p] = "half" /\ child'[p] = IF pc[p] = "wait" THEN "ok" ELSE "off"
<1> DEFINE m == mapper[Created(p)]
           w == Below(m.dev)
<1>1. PICK fs \in {"part", "whole"} :
        /\ Write(p, fs)
        /\ child[p] = "half" => fs = "whole"
        /\ child[p] \in {"running", "half"}
        /\ UNCHANGED <<images, loop, mapper, mounted, command, left>>
  BY DEF Writes, MkfsWrites, MkfsMakes
<1>2. Live(Created(p)) /\ w \in Volumes /\ m.type \in {"luks", "plain"} /\ m.fits \in BOOLEAN
  BY <1>1, MapperNames, MappersTyping DEF MkfsInv, MkfsOK
<1>3. /\ child' \in [Procs -> {"off", "running", "half", "ok", "failed"}]
      /\ \A q \in Procs \ {p} : child'[q] = child[q]
      /\ \/ child[p] = "running" /\ child'[p] = "half"
         \/ child[p] = "half" /\ child'[p] = IF pc[p] = "wait" THEN "ok" ELSE "off"
  BY DEF Writes, MkfsWrites, MkfsMakes, MkfsEnds, Orphan, TypeOK
<1>4. CASE m.fits
  <2>1. /\ content' = [content EXCEPT ![w] =
                         IF m.type = "luks" THEN [content[w] EXCEPT !.fs = fs]
                         ELSE [lock |-> "plain", key |-> TRUE, fs |-> fs]]
        /\ spoiled' = spoiled
    BY <1>1, <1>4 DEF Write
  <2>2. content[w] \in [lock : {"none", "luks", "plain"}, key : BOOLEAN,
                        fs : {"no", "part", "whole", "torn"}]
    BY <1>2 DEF TypeOK
  <2> HIDE DEF m, w
  <2>3. [content[w] EXCEPT !.fs = fs] \in [lock : {"none", "luks", "plain"}, key : BOOLEAN,
                                           fs : {"no", "part", "whole", "torn"}]
        /\ [content[w] EXCEPT !.fs = fs].fs = fs
        /\ [content[w] EXCEPT !.fs = fs].lock = content[w].lock
        /\ [content[w] EXCEPT !.fs = fs].key = content[w].key
    BY <2>2
  <2>4. [lock |-> "plain", key |-> TRUE, fs |-> fs] \in
           [lock : {"none", "luks", "plain"}, key : BOOLEAN, fs : {"no", "part", "whole", "torn"}]
    OBVIOUS
  <2>5. /\ content' \in [Volumes -> [lock : {"none", "luks", "plain"}, key : BOOLEAN,
                                     fs : {"no", "part", "whole", "torn"}]]
        /\ \A v \in Volumes \ {w} : content'[v] = content[v]
        /\ content'[w] = IF m.type = "luks" THEN [content[w] EXCEPT !.fs = fs]
                         ELSE [lock |-> "plain", key |-> TRUE, fs |-> fs]
    BY <1>2, <2>1, <2>3, <2>4 DEF TypeOK
  <2>6. /\ m.type = "luks" => content'[w].lock = content[w].lock /\ content'[w].key = content[w].key
        /\ m.type = "plain" => content'[w].lock = "plain" /\ content'[w].key
        /\ child[p] = "half" => content'[w].fs = "whole"
    <3>1. CASE m.type = "luks"
      <4>1. content'[w] = [content[w] EXCEPT !.fs = fs]
        BY <2>5, <3>1
      <4> QED BY <1>1, <2>3, <3>1, <4>1
    <3>2. CASE m.type # "luks"
      <4>1. content'[w] = [lock |-> "plain", key |-> TRUE, fs |-> fs]
        BY <2>5, <3>2
      <4>2. content'[w].lock = "plain" /\ content'[w].key = TRUE /\ content'[w].fs = fs
        BY <4>1
      <4> QED BY <1>1, <3>2, <4>2
    <3> QED BY <3>1, <3>2
  <2>7. WritesWell(p)
    BY <1>4, <2>1, <2>5, <2>6 DEF WritesWell, m, w
  <2>8. spoiled \subseteq spoiled' /\ spoiled' \subseteq Procs
    BY <2>1 DEF TypeOK
  <2> QED BY <1>1, <1>2, <1>3, <2>5, <2>7, <2>8 DEF m, w
<1>5. CASE ~m.fits
  <2>1. \E behind \in BOOLEAN : Spoil(w, behind)
    BY <1>1, <1>5 DEF Write
  <2>2. WritesBadly(p)
    BY <1>5, <2>1 DEF WritesBadly
  <2>3. /\ content' \in [Volumes -> [lock : {"none", "luks", "plain"}, key : BOOLEAN,
                                     fs : {"no", "part", "whole", "torn"}]]
        /\ spoiled \subseteq spoiled' /\ spoiled' \subseteq Procs
    BY <2>1, SpoilFrame
  <2> QED BY <1>1, <1>2, <1>3, <2>2, <2>3
<1> QED BY <1>2, <1>4, <1>5

LEMMA MkfsTyping ==
    ASSUME TypeOK, DeviceInv, MkfsInv, NEW p \in Procs, Stops(p) \/ Writes(p)
    PROVE  TypeOK' /\ DeviceInv' /\ Others(p) /\ FilesKept
           /\ UNCHANGED <<images, loop, mapper, mounted, command, left>>
<1>1. UNCHANGED <<images, loop, mapper, mounted, command, left>>
  BY WriteFrame DEF Stops, system
<1>2. /\ content' \in [Volumes -> [lock : {"none", "luks", "plain"}, key : BOOLEAN,
                                   fs : {"no", "part", "whole", "torn"}]]
      /\ child' \in [Procs -> {"off", "running", "half", "ok", "failed"}]
      /\ \A q \in Procs \ {p} : child'[q] = child[q]
      /\ spoiled \subseteq spoiled' /\ spoiled' \subseteq Procs
  <2>1. CASE Stops(p)
    BY <2>1 DEF Stops, system, TypeOK
  <2>2. CASE Writes(p)
    BY <2>2, WriteFrame
  <2> QED BY <2>1, <2>2
<1>3. FilesKept
  BY <1>1, SameFiles
<1>4. TypeOK'
  BY <1>1, <1>2, <1>3, SameMappers DEF TypeOK, command
<1>5. DeviceInv'
  BY <1>1 DEF DeviceInv, DeviceOK, Below, command
<1>6. Others(p)
  BY <1>1, <1>2 DEF Others, command
<1> QED BY <1>1, <1>3, <1>4, <1>5, <1>6

LEMMA NextTyping == Inv /\ Own => TypeOK' /\ DeviceInv'
<1> SUFFICES ASSUME Inv, Own PROVE TypeOK' /\ DeviceInv'
  OBVIOUS
<1> QED BY NextCases, BeginsTyping, EndsTyping, GoesOnTyping, MkfsTyping DEF Inv

-----------------------------------------------------------------------------
(* The users of a device *)

\* No mapper and no mount is new, and every mapper is still above its file
LEMMA FewerUsers ==
    ASSUME MapperInv, mounted' \subseteq mounted,
           \A m \in Mappers : mapper'[m] # Nothing =>
             /\ Live(m) /\ mapper'[m].dev = mapper[m].dev
             /\ BelowThen(mapper[m].dev) = Below(mapper[m].dev)
    PROVE  MapperInv'
<1>1. (\A v \in Volumes : Live(Opened(v)) => Below(mapper[Opened(v)].dev) = v)'
  BY MapperNames DEF MapperInv, Live, Below, BelowThen
<1> QED BY <1>1 DEF MapperInv, Live

\* One mapper is new, on a device that had no user
LEMMA NewMapper ==
    ASSUME MapperInv, mounted' = mounted, NEW k \in Mappers, NEW d, ~Busy(d),
           \A m \in Mappers \ {k} : mapper'[m] # Nothing =>
             /\ Live(m) /\ mapper'[m].dev = mapper[m].dev
             /\ BelowThen(mapper[m].dev) = Below(mapper[m].dev),
           mapper'[k].dev = d,
           \A v \in Volumes : k = Opened(v) => BelowThen(d) = v
    PROVE  MapperInv'
<1>1. (\A v \in Volumes : Live(Opened(v)) => Below(mapper[Opened(v)].dev) = v)'
  BY MapperNames DEF MapperInv, Live, Below, BelowThen
<1>2. (\A m, n \in Mappers : Live(m) /\ Live(n) /\ mapper[m].dev = mapper[n].dev => m = n)'
  BY DEF MapperInv, Live, Busy
<1> QED BY <1>1, <1>2 DEF MapperInv, Live, Busy

LEMMA NextMappers == Inv /\ Own => MapperInv'
<1> SUFFICES ASSUME Inv, Own PROVE MapperInv'
  OBVIOUS
<1>0. TypeOK /\ DeviceInv /\ MapperInv /\ MkfsInv
  BY DEF Inv
<1>1. PICK p \in Procs :
        \/ Start(p) \/ GetFree(p) \/ Attach(p) \/ Status(p)
        \/ Shrinks(p) \/ Opens(p) \/ Mounts(p)
        \/ GoesOn(p) \/ Stops(p) \/ Writes(p)
  BY <1>0, NextCases
<1>2. CASE \/ Start(p) \/ GetFree(p) \/ Attach(p) \/ Status(p) \/ Stops(p) \/ Writes(p)
  <2>1. UNCHANGED <<mapper, mounted>> /\ FilesKept
    BY <1>0, <1>2, BeginsTyping, MkfsTyping DEF Begins
  <2>2. \A m \in Mappers : Live(m) => BelowThen(mapper[m].dev) = Below(mapper[m].dev)
    BY <1>0, <2>1, MappersTyping DEF FilesKept
  <2> QED BY <1>0, <2>1, <2>2, FewerUsers DEF Live
<1>3. CASE Shrinks(p)
  <2>1. ASSUME NEW m \in Mappers, mapper'[m] # Nothing
        PROVE  /\ Live(m) /\ mapper'[m].dev = mapper[m].dev
               /\ BelowThen(mapper[m].dev) = Below(mapper[m].dev)
    <3>1. mapper'[m] = mapper[m] /\ Live(m) /\ mapper[m].dev \in Devices
      BY <1>0, <1>3, <2>1, MappersTyping DEF Shrinks, Live
    <3>2. UsedThen(mapper[m].dev)
      BY <2>1, <3>1 DEF UsedThen
    <3> QED BY <1>0, <1>3, <3>1, <3>2, EndsBelow DEF Shrinks
  <2> QED BY <1>0, <1>3, <2>1, FewerUsers DEF Shrinks
<1>4. CASE Opens(p)
  <2> DEFINE k == Opened(job[p].volume)
  <2>1. /\ job[p].volume \in Volumes /\ dev[p] \in Devices /\ Below(dev[p]) = job[p].volume
        /\ k \in Mappers
    BY <1>0, <1>4, JobsTyping, MapperNames DEF Opens, DeviceInv, DeviceOK, Working
  <2>2. /\ \A m \in Mappers \ {k} : mapper'[m] = mapper[m]
        /\ mapper'[k].dev = dev[p] /\ mapper'[k] # Nothing
    <3>1. mapper'[k] = [dev |-> dev[p], type |-> content[job[p].volume].lock, fits |-> TRUE,
                        late |-> Looked(job[p].volume)]
      BY <1>0, <1>4, <2>1 DEF Opens, TypeOK
    <3>2. content[job[p].volume].lock \in {"luks", "plain"} /\ Looked(job[p].volume) \subseteq Procs
      BY <1>4, <2>1 DEF Opens, KeyInv, TypeOK, Looked, Inv
    <3>3. [dev |-> dev[p], type |-> content[job[p].volume].lock, fits |-> TRUE,
           late |-> Looked(job[p].volume)] \in Mappings
      BY <2>1, <3>2, MappingTyping
    <3>4. mapper'[k] # Nothing
      BY <3>1, <3>3, MappingTyping
    <3> QED BY <1>0, <1>4, <2>1, <3>1, <3>4 DEF Opens, TypeOK
  <2>3. \A m \in Mappers : mapper'[m] # Nothing => BelowThen(mapper'[m].dev) = Below(mapper'[m].dev)
    <3> SUFFICES ASSUME NEW m \in Mappers, mapper'[m] # Nothing
                 PROVE  BelowThen(mapper'[m].dev) = Below(mapper'[m].dev)
      OBVIOUS
    <3>1. mapper'[m].dev \in Devices
      BY <1>0, <2>1, <2>2, MappersTyping DEF Live
    <3>2. UsedThen(mapper'[m].dev)
      BY DEF UsedThen
    <3> QED BY <1>0, <1>4, <3>1, <3>2, EndsBelow DEF Opens
  <2>4. ~Busy(dev[p]) /\ mounted' = mounted
    BY <1>4 DEF Opens
  <2>5. \A v \in Volumes : k = Opened(v) => BelowThen(dev[p]) = v
    BY <2>1, <2>2, <2>3, MapperNames
  <2> HIDE DEF k
  <2> QED BY <1>0, <2>1, <2>2, <2>3, <2>4, <2>5, NewMapper DEF Live
<1>5. CASE Mounts(p)
  <2>1. \A m \in Mappers : Live(m) => BelowThen(mapper[m].dev) = Below(mapper[m].dev)
    <3> SUFFICES ASSUME NEW m \in Mappers, Live(m)
                 PROVE  BelowThen(mapper[m].dev) = Below(mapper[m].dev)
      OBVIOUS
    <3>1. UsedThen(mapper[m].dev) /\ mapper[m].dev \in Devices
      BY <1>0, <1>5, MappersTyping DEF UsedThen, Mounts, Live
    <3> QED BY <1>0, <1>5, <3>1, EndsBelow DEF Mounts
  <2> QED BY <1>0, <1>5, <2>1, MapperNames DEF Mounts, MapperInv, Live, Busy, Below, BelowThen
<1>6. CASE GoesOn(p)
  <2>1. TypeOK' /\ FilesKept /\ pc[p] \in Creating
    BY <1>0, <1>6, GoesOnTyping
  <2>2. \A m \in Mappers : Live(m) => BelowThen(mapper[m].dev) = Below(mapper[m].dev)
    BY <1>0, <2>1, MappersTyping DEF FilesKept
  <2>3. CASE Activated(p)
    <3>1. /\ mapper'[Created(p)].dev = dev[p]
          /\ \A m \in Mappers \ {Created(p)} : mapper'[m] = Rest(p)[m]
      BY <1>0, <2>1, <2>3, RestTyping, MapperNames DEF Activated
    <3>2. Created(p) \in Mappers /\ \A v \in Volumes : Created(p) # Opened(v)
      BY MapperNames
    <3>3. ~Busy(dev[p]) /\ mounted' = mounted
      BY <2>3 DEF Activated, Advances
    <3>4. \A m \in Mappers \ {Created(p)} : mapper'[m] # Nothing =>
             /\ Live(m) /\ mapper'[m].dev = mapper[m].dev
             /\ BelowThen(mapper[m].dev) = Below(mapper[m].dev)
      BY <1>0, <2>1, <2>2, <3>1, RestTyping DEF Live
    <3> QED BY <1>0, <3>1, <3>2, <3>3, <3>4, NewMapper
  <2>4. CASE Wiped(p)
    <3>1. /\ mapper'[Wiper(p)].dev = dev[p]
          /\ \A m \in Mappers \ {Wiper(p)} : mapper'[m] = mapper[m]
      BY <1>0, <2>4, MapperNames DEF Wiped, TypeOK
    <3>2. Wiper(p) \in Mappers /\ \A v \in Volumes : Wiper(p) # Opened(v)
      BY MapperNames
    <3>3. ~Busy(dev[p]) /\ mounted' = mounted
      BY <2>4 DEF Wiped, Advances
    <3>4. \A m \in Mappers \ {Wiper(p)} : mapper'[m] # Nothing =>
             /\ Live(m) /\ mapper'[m].dev = mapper[m].dev
             /\ BelowThen(mapper[m].dev) = Below(mapper[m].dev)
      BY <2>2, <3>1 DEF Live
    <3> QED BY <1>0, <3>1, <3>2, <3>3, <3>4, NewMapper
  <2>5. CASE ~Activated(p) /\ ~Wiped(p)
    <3>1. mounted' = mounted
      BY <1>6, <2>5
           DEF GoesOn, Checked, Asked, Formatted, Added, Unwiped, Forked, Waited, Closed,
               Advances
    <3>2. \A m \in Mappers : mapper'[m] # Nothing => Live(m) /\ mapper'[m].dev = mapper[m].dev
      <4>1. CASE \/ mapper' = mapper \/ mapper' = [mapper EXCEPT ![Created(p)] = Nothing]
                 \/ mapper' = [mapper EXCEPT ![Wiper(p)] = Nothing]
        BY <1>0, <4>1 DEF TypeOK, Live
      <4>2. CASE mapper' = Unfit(job[p].volume)
        BY <1>0, <2>1, <4>2, UnfitTyping, CreatingFacts DEF Live
      <4> QED BY <1>6, <2>5, <4>1, <4>2
           DEF GoesOn, Checked, Asked, Formatted, Added, Unwiped, Forked, Waited, Closed
    <3> QED BY <1>0, <2>2, <3>1, <3>2, FewerUsers
  <2> QED BY <2>3, <2>4, <2>5
<1> QED BY <1>1, <1>2, <1>3, <1>4, <1>5, <1>6

-----------------------------------------------------------------------------
(* The mappers that a step leaves as they are *)

\* A creation that goes on takes at most the key from the others
LEMMA GoesOnMappers ==
    ASSUME TypeOK, DeviceInv, NEW p \in Procs, GoesOn(p), NEW m \in Mappers,
           m \notin {Created(p), Wiper(p)}
    PROVE  /\ mapper'[m] # Nothing <=> Live(m)
           /\ Live(m) => /\ mapper'[m].dev = mapper[m].dev
                         /\ mapper'[m].type = mapper[m].type
                         /\ mapper'[m].late = mapper[m].late
                         /\ mapper'[m].fits => mapper[m].fits
                         /\ Below(mapper[m].dev) # job[p].volume
                              => mapper'[m].fits = mapper[m].fits
<1>1. pc[p] \in Creating /\ job[p].volume \in Volumes /\ Created(p) \in Mappers
  BY GoesOnTyping, CreatingFacts, MapperNames
<1>2. CASE \/ mapper' = mapper \/ mapper' = [mapper EXCEPT ![Created(p)] = Nothing]
           \/ mapper' = [mapper EXCEPT ![Wiper(p)] = Nothing] \/ Wiped(p)
  BY <1>2 DEF Wiped, TypeOK, Live
<1>3. CASE mapper' = Unfit(job[p].volume)
  <2>1. Live(m) /\ Below(mapper[m].dev) = job[p].volume => ~mapper'[m].fits
    BY <1>1, <1>3, UnfitTyping
  <2> QED BY <1>1, <1>3, <2>1, UnfitTyping DEF Live
<1>4. CASE Activated(p)
  <2>1. mapper'[m] = Rest(p)[m]
    BY <1>1, <1>4, RestTyping DEF Activated
  <2> QED BY <1>1, <2>1, RestTyping DEF Live
<1> QED BY <1>2, <1>3, <1>4
     DEF GoesOn, Checked, Asked, Formatted, Added, Unwiped, Forked, Waited, Closed

\* What the other steps make of the mappers of a creation
LEMMA OtherCreated ==
    ASSUME Inv, NEW p \in Procs, ~GoesOn(p), NEW q \in Procs,
           \/ Start(p) \/ GetFree(p) \/ Attach(p) \/ Status(p)
           \/ Shrinks(p) \/ Opens(p) \/ Mounts(p) \/ Stops(p) \/ Writes(p)
    PROVE  /\ \/ mapper'[Created(q)] = mapper[Created(q)]
              \/ /\ mapper'[Created(q)] = Nothing /\ Shrinks(p)
                 /\ q = p /\ pc[p] = "lock" /\ child'[p] = "off"
           /\ mapper'[Wiper(q)] = mapper[Wiper(q)]
<1>0. TypeOK /\ DeviceInv /\ MkfsInv /\ {Created(q), Wiper(q)} \subseteq Mappers
  BY MapperNames DEF Inv
<1>1. CASE Start(p) \/ GetFree(p) \/ Attach(p) \/ Status(p) \/ Stops(p) \/ Writes(p)
  BY <1>0, <1>1, BeginsTyping, MkfsTyping DEF Begins
<1>2. CASE Opens(p)
  <2>1. \A v : Created(q) # Opened(v) /\ Wiper(q) # Opened(v)
    BY DEF Created, Wiper, Opened
  <2> QED BY <1>0, <1>2, <2>1 DEF Opens, TypeOK
<1>3. CASE Shrinks(p) \/ Mounts(p)
  BY <1>0, <1>3 DEF Shrinks, Mounts
<1> QED BY <1>1, <1>2, <1>3

\* and of what a command is doing
LEMMA NextOthers ==
    ASSUME Inv, NEW p \in Procs,
           \/ Start(p) \/ GetFree(p) \/ Attach(p) \/ Status(p)
           \/ Shrinks(p) \/ Opens(p) \/ Mounts(p) \/ GoesOn(p) \/ Stops(p) \/ Writes(p)
    PROVE  TypeOK' /\ DeviceInv' /\ Others(p)
<1>0. TypeOK /\ DeviceInv /\ MkfsInv /\ KeyInv
  BY DEF Inv
<1>1. CASE Shrinks(p) \/ Opens(p) \/ Mounts(p)
  BY <1>0, <1>1, EndsTyping, EndsFrame DEF Shrinks, Opens, Mounts
<1> QED BY <1>0, <1>1, BeginsTyping, GoesOnTyping, MkfsTyping

-----------------------------------------------------------------------------
(* mkfs and the mapper it writes through *)

LEMMA NextMkfs == Inv /\ Own => MkfsInv'
<1> SUFFICES ASSUME Inv, Own PROVE MkfsInv'
  OBVIOUS
<1>0. TypeOK /\ DeviceInv /\ MkfsInv /\ AloneInv
  BY DEF Inv
<1>1. PICK p \in Procs :
        \/ Start(p) \/ GetFree(p) \/ Attach(p) \/ Status(p)
        \/ Shrinks(p) \/ Opens(p) \/ Mounts(p)
        \/ GoesOn(p) \/ Stops(p) \/ Writes(p)
  BY <1>0, NextCases
<1>2. Others(p) /\ Created(p) \in Mappers /\ MkfsOK(p)
  BY <1>0, <1>1, NextOthers, MapperNames DEF MkfsInv
<1>3. ASSUME NEW q \in Procs \ {p} PROVE MkfsOK(q)'
  <2>1. /\ pc'[q] = pc[q] /\ job'[q] = job[q] /\ dev'[q] = dev[q] /\ child'[q] = child[q]
        /\ Created(q) \in Mappers /\ Created(q) \notin {Created(p), Wiper(p)}
        /\ Wiper(q) \in Mappers /\ Wiper(q) \notin {Created(p), Wiper(p)} /\ MkfsOK(q)
    BY <1>0, <1>2, MapperNames DEF Others, MkfsInv
  <2>2. CASE ~GoesOn(p)
    <3>1. mapper'[Created(q)] = mapper[Created(q)] /\ mapper'[Wiper(q)] = mapper[Wiper(q)]
      BY <1>1, <2>2, OtherCreated
    <3> QED BY <2>1, <3>1 DEF MkfsOK, Live
  <2>3. CASE GoesOn(p)
    <3>1. pc[p] \in Creating /\ job[p].op = "create" /\ pc[p] # "idle"
      BY <1>0, <2>3, GoesOnTyping, CreatingFacts DEF Creating
    <3>2. pc[q] \in {"mkfs", "wait", "lock"} =>
             Below(mapper[Created(q)].dev) # job[p].volume
      <4> SUFFICES ASSUME pc[q] \in {"mkfs", "wait", "lock"}
                   PROVE  Below(mapper[Created(q)].dev) # job[p].volume
        OBVIOUS
      <4>1. Below(mapper[Created(q)].dev) = job[q].volume /\ job[q].op = "create" /\ pc[q] # "idle"
        BY <1>0, <2>1, CreatingFacts DEF MkfsOK, Creating
      <4> QED BY <1>0, <3>1, <4>1 DEF AloneInv
    <3>3. /\ pc[q] = "wiped" => mapper'[Wiper(q)] # Nothing /\ mapper'[Wiper(q)].dev = dev[q]
          /\ Live(Created(q)) => mapper'[Created(q)] # Nothing
      BY <1>0, <2>1, <2>3, GoesOnMappers DEF MkfsOK
    <3>4. pc[q] \in {"mkfs", "wait", "lock"} =>
             /\ mapper'[Created(q)].dev = dev[q] /\ mapper'[Created(q)].fits
             /\ mapper'[Created(q)].type = job[q].type
      BY <1>0, <2>1, <2>3, <3>2, GoesOnMappers DEF MkfsOK
    <3> QED BY <2>1, <3>3, <3>4 DEF MkfsOK, Live
  <2> QED BY <2>2, <2>3
<1>4. MkfsOK(p)'
  <2>1. CASE Start(p) \/ GetFree(p) \/ Attach(p) \/ Status(p)
    BY <1>0, <1>2, <2>1, BeginsTyping DEF Begins, MkfsOK, Live
  <2>2. CASE Shrinks(p) \/ Opens(p) \/ Mounts(p)
    <3>1. Ends(p) /\ pc'[p] = "idle"
      BY <1>0, <2>2, EndsFrame DEF Shrinks, Opens, Mounts
    <3>2. child'[p] \in {child[p], "off"} /\ child'[p] \notin {"ok", "failed"}
      BY <1>0, <1>2, <3>1 DEF Ends, MkfsOK, TypeOK
    <3>3. child'[p] # "off" => mapper'[Created(p)] = mapper[Created(p)]
      <4>1. \A v : Created(p) # Opened(v)
        BY DEF Created, Opened
      <4> QED BY <1>0, <1>2, <2>2, <4>1 DEF Shrinks, Opens, Mounts, TypeOK
    <3> QED BY <1>2, <3>1, <3>2, <3>3 DEF MkfsOK, Live
  <2>3. CASE GoesOn(p)
    <3>1. pc[p] \in Creating /\ job[p].type \in {"luks", "plain"} /\ dev[p] \in Devices
      BY <1>0, <2>3, GoesOnTyping, CreatingFacts
    <3>2. UNCHANGED <<job, dev>>
      BY <2>3
           DEF GoesOn, Checked, Asked, Formatted, Added, Wiped, Unwiped, Activated, Forked,
               Waited, Closed, Advances
    <3>3. CASE Checked(p) \/ Asked(p) \/ Added(p) \/ Waited(p) \/ Forked(p)
      BY <1>0, <1>2, <3>2, <3>3
         DEF Checked, Asked, Added, Waited, Forked, Advances, Goto, MkfsOK, Live, TypeOK
    <3>4. CASE Formatted(p)
      <4>1. mapper'[Created(p)] # Nothing <=> Live(Created(p))
        BY <1>0, <1>2, <3>1, <3>4, UnfitTyping, CreatingFacts DEF Formatted, Live
      <4> QED BY <1>0, <1>2, <3>4, <4>1 DEF Formatted, Advances, Goto, MkfsOK, Live, TypeOK
    <3>5. CASE Activated(p)
      <4>1. mapper'[Created(p)] =
               [dev |-> dev[p], type |-> job[p].type, fits |-> TRUE, late |-> {}]
        BY <1>0, <1>2, <3>1, <3>5, RestTyping DEF Activated
      <4>2. [dev |-> dev[p], type |-> job[p].type, fits |-> TRUE, late |-> {}] # Nothing
        <5>1. [dev |-> dev[p], type |-> job[p].type, fits |-> TRUE, late |-> {}] \in Mappings
          BY <3>1, MappingTyping
        <5> QED BY <5>1, MappingTyping
      <4>3. /\ Live(Created(p))' /\ mapper'[Created(p)].dev = dev'[p]
            /\ mapper'[Created(p)].fits /\ mapper'[Created(p)].type = job'[p].type
        BY <3>2, <4>1, <4>2 DEF Live
      <4>4. pc'[p] = "mkfs" /\ child'[p] = "off"
        BY <1>0, <1>2, <3>5 DEF Activated, Advances, Goto, MkfsOK, TypeOK
      <4> QED BY <4>3, <4>4 DEF MkfsOK
    <3>6. CASE Closed(p)
      BY <1>0, <3>6 DEF Closed, Advances, Goto, MkfsOK, TypeOK
    <3>7. CASE Wiped(p)
      <4>1. [dev |-> dev[p], type |-> "luks", fits |-> TRUE, late |-> {}] \in Mappings
        BY <3>1, MappingTyping
      <4>2. /\ mapper'[Wiper(p)] = [dev |-> dev[p], type |-> "luks", fits |-> TRUE, late |-> {}]
            /\ mapper'[Created(p)] = mapper[Created(p)]
        BY <1>0, <1>2, <3>7, MapperNames DEF Wiped, TypeOK
      <4>3. mapper'[Wiper(p)] # Nothing /\ mapper'[Wiper(p)].dev = dev'[p]
        BY <3>2, <4>1, <4>2, MappingTyping
      <4>4. pc[p] = "wipe" /\ pc'[p] = "wiped" /\ child'[p] = child[p]
        BY <1>0, <3>7 DEF Wiped, Advances, Goto, TypeOK
      <4> QED BY <1>2, <4>2, <4>3, <4>4 DEF MkfsOK, Live
    <3>8. CASE Unwiped(p)
      <4>1. mapper'[Created(p)] = mapper[Created(p)]
        BY <1>0, <1>2, <3>8, MapperNames DEF Unwiped, TypeOK
      <4>2. pc[p] = "wiped" /\ pc'[p] = "activate" /\ child'[p] = child[p]
        BY <1>0, <3>8 DEF Unwiped, Advances, Goto, TypeOK
      <4> QED BY <1>2, <4>1, <4>2 DEF MkfsOK, Live
    <3> QED BY <2>3, <3>3, <3>4, <3>5, <3>6, <3>7, <3>8 DEF GoesOn
  <2>4. CASE Stops(p)
    BY <1>0, <1>2, <2>4 DEF Stops, system, command, MkfsOK, Live, TypeOK
  <2>5. CASE Writes(p)
    BY <1>0, <1>2, <2>5, WriteFrame DEF command, MkfsOK, Live
  <2> QED BY <1>1, <2>1, <2>2, <2>3, <2>4, <2>5
<1> QED BY <1>3, <1>4 DEF MkfsInv

-----------------------------------------------------------------------------
(* One creation of a volume at a time, and who opens it late *)

LEMMA NextAlone == Inv /\ Own => AloneInv'
<1> SUFFICES ASSUME Inv, Own PROVE AloneInv'
  OBVIOUS
<1>0. TypeOK /\ DeviceInv /\ MkfsInv /\ AloneInv
  BY DEF Inv
<1>1. PICK p \in Procs :
        \/ Start(p) \/ GetFree(p) \/ Attach(p) \/ Status(p)
        \/ Shrinks(p) \/ Opens(p) \/ Mounts(p)
        \/ GoesOn(p) \/ Stops(p) \/ Writes(p)
  BY <1>0, NextCases
<1>2. \A q \in Procs \ {p} : pc'[q] = pc[q] /\ job'[q] = job[q]
  BY <1>1, NextOthers DEF Others
<1>3. \/ pc'[p] = "idle"
      \/ pc[p] # "idle" /\ job'[p] = job[p]
      \/ Alone(p, job'[p])
  <2>1. CASE Start(p) \/ GetFree(p) \/ Attach(p) \/ Status(p)
    BY <1>0, <2>1, BeginsTyping DEF Begins
  <2>2. CASE Shrinks(p) \/ Opens(p) \/ Mounts(p)
    BY <1>0, <2>2, EndsFrame DEF Shrinks, Opens, Mounts
  <2>3. CASE GoesOn(p)
    <3>1. UNCHANGED job
      BY <2>3
           DEF GoesOn, Checked, Asked, Formatted, Added, Wiped, Unwiped, Activated, Forked,
               Waited, Closed, Advances
    <3> QED BY <1>0, <2>3, <3>1, GoesOnTyping DEF Creating
  <2>4. CASE Stops(p) \/ Writes(p)
    BY <1>0, <2>4, MkfsTyping DEF command
  <2> QED BY <1>1, <2>1, <2>2, <2>3, <2>4
<1> QED BY <1>0, <1>2, <1>3 DEF AloneInv, Alone

\* The steps between the look for a mapper and the end of the creation
Looking == {"ask", "format", "slot", "wipe", "wiped", "activate", "mkfs", "wait", "lock"}

LEMMA NextLate == Inv /\ Own => LateInv'
<1> SUFFICES ASSUME Inv, Own PROVE LateInv'
  OBVIOUS
<1>0. TypeOK /\ DeviceInv /\ MkfsInv /\ LateInv
  BY DEF Inv
<1>1. PICK p \in Procs :
        \/ Start(p) \/ GetFree(p) \/ Attach(p) \/ Status(p)
        \/ Shrinks(p) \/ Opens(p) \/ Mounts(p)
        \/ GoesOn(p) \/ Stops(p) \/ Writes(p)
  BY <1>0, NextCases
<1>2. Others(p) /\ TypeOK' /\ DeviceInv'
  BY <1>1, NextOthers
<1>3. SUFFICES ASSUME NEW q \in Procs, pc'[q] \in Looking,
                      NEW v \in Volumes, v = job'[q].volume, mapper'[Opened(v)] # Nothing
               PROVE  q \in mapper'[Opened(v)].late
  <2>1. ASSUME NEW q \in Procs, pc'[q] \in Looking PROVE job'[q].volume \in Volumes
    <3>1. job'[q] \in Jobs
      BY <1>2, <2>1 DEF DeviceInv, DeviceOK, Looking
    <3> QED BY <3>1, JobsTyping
  <2> QED BY <1>3, <2>1 DEF LateInv, LateOK, Live, Looking
<1>4. Opened(v) \in Mappers /\ LateOK(q)
  BY <1>0, MapperNames DEF LateInv
<1>5. CASE Checked(p) /\ q = p
  BY <1>0, <1>3, <1>5, GoesOnTyping DEF Checked, Advances, Live
<1>6. CASE ~(Checked(p) /\ q = p)
  <2>1. pc[q] \in Looking /\ job[q].volume = v /\ (Ends(p) => q # p)
    <3>1. CASE q # p
      BY <1>2, <1>3, <3>1 DEF Others
    <3>2. CASE q = p /\ (Start(p) \/ GetFree(p) \/ Attach(p) \/ Status(p))
      BY <1>0, <1>3, <3>2, BeginsTyping DEF Begins, Looking
    <3>3. CASE q = p /\ Ends(p)
      BY <1>0, <1>3, <3>3, EndsFrame DEF Looking
    <3>4. CASE q = p /\ GoesOn(p)
      BY <1>0, <1>3, <1>6, <3>4, EndsFrame

              DEF GoesOn, Checked, Asked, Formatted, Added, Wiped, Unwiped, Activated, Forked,
                  Waited, Closed,
             Advances, Goto, TypeOK, Looking
    <3>5. CASE q = p /\ (Stops(p) \/ Writes(p))
      BY <1>0, <1>3, <3>5, MkfsTyping, EndsFrame DEF command, Looking
    <3> QED BY <1>1, <3>1, <3>2, <3>3, <3>4, <3>5 DEF Shrinks, Opens, Mounts
  <2>2. Live(Opened(v)) => q \in mapper[Opened(v)].late
    BY <1>4, <2>1 DEF LateOK, Looking
  <2>3. CASE Start(p) \/ GetFree(p) \/ Attach(p) \/ Status(p) \/ Stops(p) \/ Writes(p)
    BY <1>0, <1>3, <2>2, <2>3, BeginsTyping, MkfsTyping DEF Begins, Live
  <2>4. CASE Shrinks(p) \/ Mounts(p)
    BY <1>3, <1>4, <2>2, <2>4 DEF Shrinks, Mounts, Live
  <2>5. CASE GoesOn(p)
    <3>1. Opened(v) \notin {Created(p), Wiper(p)}
      BY MapperNames
    <3> QED BY <1>0, <1>3, <1>4, <2>2, <2>5, <3>1, GoesOnMappers
  <2>6. CASE Opens(p)
    <3>1. job[p].volume \in Volumes
      BY <1>0, <2>6, JobsTyping DEF Opens, DeviceInv, DeviceOK
    <3>2. CASE v = job[p].volume
      <4>1. mapper'[Opened(v)].late = Looked(v)
        BY <1>0, <1>4, <2>6, <3>2 DEF Opens, TypeOK
      <4> QED BY <2>1, <4>1 DEF Looked, Looking
    <3>3. CASE v # job[p].volume
      <4>1. mapper'[Opened(v)] = mapper[Opened(v)]
        BY <1>0, <1>4, <2>6, <3>1, <3>3, MapperNames DEF Opens, TypeOK
      <4> QED BY <1>3, <2>2, <4>1 DEF Live
    <3> QED BY <3>2, <3>3
  <2> QED BY <1>1, <2>3, <2>4, <2>5, <2>6
<1> QED BY <1>5, <1>6

-----------------------------------------------------------------------------
(* The mapper that a creation leaves, and the loop devices *)

LEMMA NextCreated ==
    ASSUME Inv, Own, NEW q \in Procs, mapper'[Created(q)] # Nothing, q \notin left'
    PROVE  pc'[q] \in {"mkfs", "wait", "lock"}
<1>0. TypeOK /\ DeviceInv /\ MkfsInv /\ Created(q) \in Mappers
  BY MapperNames DEF Inv
<1>1. PICK p \in Procs :
        \/ Start(p) \/ GetFree(p) \/ Attach(p) \/ Status(p)
        \/ Shrinks(p) \/ Opens(p) \/ Mounts(p)
        \/ GoesOn(p) \/ Stops(p) \/ Writes(p)
  BY <1>0, NextCases
<1>2. Others(p) /\ left \subseteq left'
  <2>1. left \subseteq left'
    BY <1>0, <1>1, BeginsTyping, MkfsTyping
       DEF Begins, Shrinks, Opens, Mounts, Ends,
           GoesOn, Checked, Asked, Formatted, Added, Wiped, Unwiped, Activated, Forked, Waited,
           Closed
  <2> QED BY <1>1, <2>1, NextOthers
<1>3. Live(Created(q)) => pc[q] \in {"mkfs", "wait", "lock"}
  BY <1>2 DEF Inv, TempClosed
<1>4. CASE GoesOn(p)
  <2>1. CASE q # p
    <3>1. Created(q) \notin {Created(p), Wiper(p)}
      BY <2>1, MapperNames
    <3> QED BY <1>0, <1>2, <1>3, <1>4, <2>1, <3>1, GoesOnMappers DEF Others
  <2>2. CASE q = p /\ (Activated(p) \/ Forked(p) \/ Waited(p))
    BY <1>0, <2>2 DEF Activated, Forked, Waited, Advances, Goto, TypeOK
  <2>3. CASE q = p /\ Closed(p)
    BY <1>0, <2>3 DEF Closed, TypeOK
  <2>4. CASE q = p /\ (Checked(p) \/ Asked(p) \/ Added(p))
    BY <1>3, <2>4 DEF Checked, Asked, Added, Advances, Live
  <2>5. CASE q = p /\ Formatted(p)
    <3>1. job[p].volume \in Volumes /\ pc[p] = "format"
      BY <1>0, <1>4, <2>5, GoesOnTyping, CreatingFacts DEF Formatted, Advances
    <3> QED BY <1>0, <1>3, <2>5, <3>1, UnfitTyping DEF Formatted, Live
  <2>6. CASE q = p /\ (Wiped(p) \/ Unwiped(p))
    <3>1. mapper'[Created(p)] = mapper[Created(p)]
      BY <1>0, <2>6, MapperNames DEF Wiped, Unwiped, TypeOK
    <3> QED BY <1>3, <2>6, <3>1 DEF Wiped, Unwiped, Advances, Live
  <2> QED BY <1>4, <2>1, <2>2, <2>3, <2>4, <2>5, <2>6 DEF GoesOn
<1>5. CASE ~GoesOn(p)
  <2>1. pc[q] \in {"mkfs", "wait", "lock"} /\ mapper'[Created(q)] = mapper[Created(q)]
    BY <1>1, <1>3, <1>5, OtherCreated DEF Live
  <2>2. CASE q # p
    BY <1>2, <2>1, <2>2 DEF Others
  <2>3. CASE q = p /\ (Start(p) \/ GetFree(p) \/ Attach(p) \/ Status(p))
    BY <1>0, <2>1, <2>3, BeginsTyping DEF Begins
  <2>4. CASE q = p /\ (Stops(p) \/ Writes(p))
    BY <1>0, <2>1, <2>4, MkfsTyping DEF command
  <2>5. CASE q = p /\ Ends(p)
    BY <2>1, <2>5 DEF Ends
  <2> QED BY <1>1, <1>5, <2>2, <2>3, <2>4, <2>5 DEF Shrinks, Opens, Mounts
<1> QED BY <1>4, <1>5

LEMMA NextWiper ==
    ASSUME Inv, Own, NEW q \in Procs, mapper'[Wiper(q)] # Nothing, q \notin left'
    PROVE  pc'[q] = "wiped"
<1>0. TypeOK /\ DeviceInv /\ MkfsInv /\ Wiper(q) \in Mappers
  BY MapperNames DEF Inv
<1>1. PICK p \in Procs :
        \/ Start(p) \/ GetFree(p) \/ Attach(p) \/ Status(p)
        \/ Shrinks(p) \/ Opens(p) \/ Mounts(p)
        \/ GoesOn(p) \/ Stops(p) \/ Writes(p)
  BY <1>0, NextCases
<1>2. Others(p) /\ left \subseteq left'
  <2>1. left \subseteq left'
    BY <1>0, <1>1, BeginsTyping, MkfsTyping
       DEF Begins, Shrinks, Opens, Mounts, Ends,
           GoesOn, Checked, Asked, Formatted, Added, Wiped, Unwiped, Activated, Forked, Waited,
           Closed
  <2> QED BY <1>1, <2>1, NextOthers
<1>3. Live(Wiper(q)) => pc[q] = "wiped"
  BY <1>2 DEF Inv, TempClosed
<1>4. CASE GoesOn(p)
  <2>1. CASE q # p
    <3>1. Wiper(q) \notin {Created(p), Wiper(p)}
      BY <2>1, MapperNames
    <3> QED BY <1>0, <1>2, <1>3, <1>4, <2>1, <3>1, GoesOnMappers DEF Others
  <2>2. CASE q = p /\ Wiped(p)
    BY <1>0, <2>2 DEF Wiped, Advances, Goto, TypeOK
  <2>3. CASE q = p /\ Unwiped(p)
    BY <1>0, <2>3 DEF Unwiped, TypeOK
  <2>4. CASE q = p /\ ~Wiped(p) /\ ~Unwiped(p)
    <3>1. Live(Wiper(p))
      <4>1. pc[p] \in Creating /\ job[p].volume \in Volumes
        BY <1>0, <1>4, GoesOnTyping, CreatingFacts
      <4>2. CASE mapper' = mapper \/ mapper' = [mapper EXCEPT ![Created(p)] = Nothing]
        BY <1>0, <2>4, <4>2, MapperNames DEF TypeOK, Live
      <4>3. CASE mapper' = Unfit(job[p].volume)
        BY <1>0, <2>4, <4>1, <4>3, UnfitTyping DEF Live
      <4>4. CASE Activated(p)
        <5>1. mapper'[Wiper(p)] = Rest(p)[Wiper(p)]
          BY <1>0, <2>4, <4>1, <4>4, RestTyping, MapperNames DEF Activated
        <5> QED BY <1>0, <2>4, <4>1, <5>1, RestTyping DEF Live
      <4> QED BY <1>4, <2>4, <4>2, <4>3, <4>4
           DEF GoesOn, Checked, Asked, Formatted, Added, Forked, Waited, Closed
    <3>2. pc[p] # "wiped"
      BY <1>4, <2>4
           DEF GoesOn, Checked, Asked, Formatted, Added, Activated, Forked, Waited, Closed,
               Advances
    <3> QED BY <1>3, <2>4, <3>1, <3>2
  <2> QED BY <2>1, <2>2, <2>3, <2>4
<1>5. CASE ~GoesOn(p)
  <2>1. pc[q] = "wiped"
    BY <1>1, <1>3, <1>5, OtherCreated DEF Live
  <2>2. CASE q # p
    BY <1>2, <2>1, <2>2 DEF Others
  <2>3. CASE q = p /\ (Start(p) \/ GetFree(p) \/ Attach(p) \/ Status(p))
    BY <1>0, <2>1, <2>3, BeginsTyping DEF Begins
  <2>4. CASE q = p /\ (Stops(p) \/ Writes(p))
    BY <1>0, <2>1, <2>4, MkfsTyping DEF command
  <2>5. CASE q = p /\ Ends(p)
    BY <2>1, <2>5 DEF Ends
  <2> QED BY <1>1, <1>5, <2>2, <2>3, <2>4, <2>5 DEF Shrinks, Opens, Mounts
<1> QED BY <1>4, <1>5

LEMMA NextTemp == Inv /\ Own => TempClosed'
BY NextCreated, NextWiper DEF TempClosed, Live

LEMMA NextLoops == Inv /\ Own => LoopInv'
<1> SUFFICES ASSUME Inv, Own PROVE LoopInv'
  OBVIOUS
<1>0. TypeOK /\ DeviceInv /\ MkfsInv /\ LoopInv
  BY DEF Inv
<1>1. PICK p \in Procs :
        \/ Start(p) \/ GetFree(p) \/ Attach(p) \/ Status(p)
        \/ Shrinks(p) \/ Opens(p) \/ Mounts(p)
        \/ GoesOn(p) \/ Stops(p) \/ Writes(p)
  BY <1>0, NextCases
<1>2. Others(p) /\ TypeOK'
  BY <1>1, NextOthers
<1>3. SUFFICES ASSUME NEW n \in Loops
               PROVE  /\ loop'[n].auto => UsedThen(n)
                      /\ loop'[n].file # Nothing =>
                           loop'[n].auto \/ n \in left'
                           \/ \E q \in Procs : pc'[q] = "status" /\ dev'[q] = n
  BY DEF LoopInv, Used, UsedThen, Live
<1>4. /\ loop[n].auto => Used(n)
      /\ loop[n].file # Nothing =>
           loop[n].auto \/ n \in left \/ \E q \in Procs : pc[q] = "status" /\ dev[q] = n
  BY <1>0 DEF LoopInv
<1>5. CASE Ends(p)
  <2>1. loop'[n] = loop[n] \/ loop'[n] = Detached
    BY <1>0, <1>5, EndsLoops
  <2>2. loop'[n].auto => UsedThen(n)
    BY <1>0, <1>5, EndsLoops
  <2>3. left \subseteq left' /\ (pc[p] = "status" => dev[p] \in left')
    BY <1>5 DEF Ends
  <2> QED BY <1>2, <1>4, <2>1, <2>2, <2>3 DEF Others, Detached
<1>6. CASE \/ Start(p) \/ GetFree(p) \/ Stops(p) \/ Writes(p)
  <2>1. /\ UNCHANGED <<loop, mapper, mounted, fds, left>>
        /\ pc[p] # "status" \/ UNCHANGED <<pc, dev>>
    BY <1>0, <1>6, MkfsTyping, AgainFrame DEF Start, GetFree, system, command
  <2> QED
    BY <1>0, <1>2, <1>4, <1>6, <2>1, MkfsTyping, AgainFrame
       DEF Start, GetFree, Used, UsedThen, Live, Others, system, command
<1>7. CASE Attach(p)
  <2>1. /\ pc[p] = "attach" /\ UNCHANGED <<mapper, mounted, left, dev>>
        /\ fds' = [fds EXCEPT ![p] = @ \cup {dev[p]}] /\ dev[p] \in Loops
    BY <1>0, <1>7 DEF Attach, Again, DeviceInv, DeviceOK
  <2>2. Used(n) => UsedThen(n)
    BY <1>0, <2>1 DEF Used, UsedThen, Live, TypeOK
  <2>3. CASE UNCHANGED loop
    BY <1>2, <1>4, <2>1, <2>2, <2>3 DEF Others
  <2>4. CASE /\ loop' = [loop EXCEPT ![dev[p]] = [file |-> job[p].volume, auto |-> FALSE]]
             /\ Goto(p, "status")
    BY <1>0, <1>2, <1>4, <2>1, <2>2, <2>4 DEF Others, Goto, TypeOK
  <2> QED BY <1>7, <2>3, <2>4 DEF Attach
<1>8. CASE Status(p)
  <2>1. /\ pc[p] = "status" /\ UNCHANGED <<mapper, mounted, fds, dev>>
        /\ dev[p] \in Loops /\ dev[p] \in fds[p]
        /\ \/ loop' = [loop EXCEPT ![dev[p]].auto = TRUE] /\ left' = left
           \/ loop' = loop /\ left' = left \cup {dev[p]}
    BY <1>0, <1>8 DEF Status, Again, DeviceInv, DeviceOK, Working
  <2>2. (Used(n) => UsedThen(n)) /\ UsedThen(dev[p])
    BY <2>1 DEF Used, UsedThen, Live
  <2> QED BY <1>0, <1>2, <1>4, <2>1, <2>2 DEF Others, TypeOK
<1>9. CASE GoesOn(p)
  <2>1. /\ UNCHANGED <<loop, dev, fds, mounted>> /\ left \subseteq left'
        /\ pc[p] # "status"
    BY <1>9
         DEF GoesOn, Checked, Asked, Formatted, Added, Wiped, Unwiped, Activated, Forked,
             Waited, Closed, Advances
  <2>2. /\ pc[p] = "lock" => mapper[Created(p)].dev = dev[p]
        /\ pc[p] = "wiped" => mapper[Wiper(p)].dev = dev[p]
        /\ pc[p] \in Creating /\ dev'[p] \in Loops => dev'[p] \in fds'[p]
    BY <1>0, <2>1, CreatingFacts DEF MkfsInv, MkfsOK
  <2>3. Used(n) => UsedThen(n)
    <3> SUFFICES ASSUME NEW m \in Mappers, Live(m), mapper[m].dev = n PROVE UsedThen(n)
      BY <2>1 DEF Used, UsedThen
    <3>1. CASE m \notin {Created(p), Wiper(p)}
      BY <1>0, <1>9, <3>1, GoesOnMappers DEF UsedThen
    <3>2. CASE (m = Created(p) /\ Closed(p)) \/ (m = Wiper(p) /\ Unwiped(p))
      <4>1. n \in fds'[p]
        BY <1>0, <1>9, <2>1, <2>2, <3>2, GoesOnTyping, CreatingFacts DEF Closed, Unwiped, Advances
      <4> QED BY <4>1 DEF UsedThen
    <3>3. CASE m \in {Created(p), Wiper(p)} /\ Formatted(p)
      <4>1. mapper'[m] # Nothing /\ mapper'[m].dev = n
        BY <1>0, <1>9, <3>3, GoesOnTyping, CreatingFacts, UnfitTyping DEF Formatted, Live
      <4> QED BY <4>1 DEF UsedThen
    <3>4. CASE m = Wiper(p) /\ Activated(p)
      <4>1. mapper'[m] = Rest(p)[m] /\ pc[p] \in Creating
        BY <1>0, <1>9, <3>4, GoesOnTyping, RestTyping, MapperNames DEF Activated
      <4>2. mapper'[m] # Nothing /\ mapper'[m].dev = n
        BY <1>0, <4>1, RestTyping DEF Live
      <4> QED BY <4>2 DEF UsedThen
    <3>5. CASE /\ m \in {Created(p), Wiper(p)} /\ ~Formatted(p)
               /\ ~(m = Created(p) /\ Closed(p)) /\ ~(m = Wiper(p) /\ Unwiped(p))
               /\ ~(m = Wiper(p) /\ Activated(p))
      <4>1. Created(p) # Wiper(p) /\ ~(m = Created(p) /\ Activated(p)) /\ ~(m = Wiper(p) /\ Wiped(p))
        BY MapperNames DEF Activated, Wiped
      <4>2. CASE mapper' = mapper
        BY <4>2 DEF UsedThen, Live
      <4>3. CASE Closed(p) \/ Unwiped(p) \/ Activated(p) \/ Wiped(p)
        <5>1. mapper'[m] = mapper[m]
          BY <1>0, <3>5, <4>1, <4>3 DEF Closed, Unwiped, Wiped, Activated, TypeOK
        <5> QED BY <5>1 DEF UsedThen, Live
      <4> QED BY <1>9, <3>5, <4>2, <4>3 DEF GoesOn, Checked, Asked, Added, Forked, Waited
    <3> QED BY <3>1, <3>2, <3>3, <3>4, <3>5
  <2> QED BY <1>2, <1>4, <2>1, <2>3 DEF Others
<1> QED BY <1>1, <1>5, <1>6, <1>7, <1>8, <1>9 DEF Shrinks, Opens, Mounts

-----------------------------------------------------------------------------
(* What the mappers of the creations may still write *)

FitsThen(q, v) ==
    mapper'[Created(q)] # Nothing /\ mapper'[Created(q)].fits
    /\ BelowThen(mapper'[Created(q)].dev) = v

\* Only the activation of a creation makes a mapper that fits its volume; with a
\* new header, or a plain one, it is then the only one
LEMMA FitsKept ==
    ASSUME Inv, NEW p \in Procs,
           \/ Start(p) \/ GetFree(p) \/ Attach(p) \/ Status(p)
           \/ Shrinks(p) \/ Opens(p) \/ Mounts(p) \/ GoesOn(p) \/ Stops(p) \/ Writes(p),
           NEW q \in Procs, NEW v \in Volumes, FitsThen(q, v)
    PROVE  /\ Fits(q, v) \/ (Activated(p) /\ q = p /\ v = job[p].volume)
           /\ ~(Formatted(p) /\ v = job[p].volume)
           /\ Activated(p) /\ job[p].type = "plain" /\ v = job[p].volume => q = p
<1>0. TypeOK /\ DeviceInv /\ MkfsInv /\ Created(q) \in Mappers
  BY MapperNames DEF Inv
<1>1. CASE GoesOn(p)
  <2>1. /\ pc[p] \in Creating /\ job[p].volume \in Volumes /\ dev[p] \in Devices
        /\ Below(dev[p]) = job[p].volume /\ FilesKept
    BY <1>0, <1>1, GoesOnTyping, CreatingFacts
  <2>2. CASE Activated(p) /\ q = p
    <3>1. mapper'[Created(p)].dev = dev[p]
      BY <1>0, <2>1, <2>2, RestTyping DEF Activated
    <3>2. v = job[p].volume
      BY <2>1, <2>2, <3>1 DEF FilesKept, FitsThen
    <3> QED BY <2>2, <3>2 DEF Activated, Formatted, Advances
  <2>3. CASE ~(Activated(p) /\ q = p)
    <3>1. /\ Live(Created(q)) /\ mapper'[Created(q)].dev = mapper[Created(q)].dev
          /\ mapper'[Created(q)].fits => mapper[Created(q)].fits
          /\ Formatted(p) /\ Below(mapper[Created(q)].dev) = job[p].volume
               => ~mapper'[Created(q)].fits
          /\ Activated(p) /\ job[p].type = "plain"
             /\ Below(mapper[Created(q)].dev) = job[p].volume => ~mapper'[Created(q)].fits
      <4>1. CASE q # p /\ ~Formatted(p) /\ ~Activated(p)
        <5>1. Created(q) \notin {Created(p), Wiper(p)}
          BY <4>1, MapperNames
        <5> QED BY <1>0, <1>1, <4>1, <5>1, GoesOnMappers DEF FitsThen
      <4>2. CASE Formatted(p)
        BY <1>0, <2>1, <4>2, UnfitTyping DEF Formatted, Activated, Advances, FitsThen, Live
      <4>3. CASE Activated(p)
        <5>1. mapper'[Created(q)] = Rest(p)[Created(q)]
          BY <1>0, <2>1, <2>3, <4>3, RestTyping, MapperNames DEF Activated
        <5> QED BY <1>0, <2>1, <4>3, <5>1, RestTyping
             DEF Formatted, Activated, Advances, FitsThen, Live
      <4>4. CASE q = p /\ ~Formatted(p) /\ ~Activated(p)
        <5>1. mapper'[Created(q)] \in {mapper[Created(q)], Nothing}
          BY <1>0, <1>1, <4>4, MapperNames
             DEF GoesOn, Checked, Asked, Added, Wiped, Unwiped, Forked, Waited, Closed, TypeOK
        <5> QED BY <4>4, <5>1 DEF FitsThen, Live
      <4> QED BY <4>1, <4>2, <4>3, <4>4
    <3>2. Below(mapper[Created(q)].dev) = v
      BY <1>0, <2>1, <3>1, MappersTyping DEF FilesKept, FitsThen
    <3> QED BY <2>3, <3>1, <3>2 DEF Fits, FitsThen
  <2> QED BY <2>2, <2>3
<1>2. CASE ~GoesOn(p)
  <2>1. mapper'[Created(q)] = mapper[Created(q)] /\ Live(Created(q))
    BY <1>2, OtherCreated DEF FitsThen, Live
  <2>2. mapper[Created(q)].dev \in Devices /\ Below(mapper[Created(q)].dev) \in Volumes
    BY <1>0, <2>1, MappersTyping
  <2>3. BelowThen(mapper[Created(q)].dev) = Below(mapper[Created(q)].dev)
    <3>1. CASE FilesKept
      BY <2>2, <3>1 DEF FilesKept
    <3>2. CASE Ends(p)
      <4>1. UsedThen(mapper[Created(q)].dev)
        BY <1>0, <2>1 DEF UsedThen, Live
      <4> QED BY <1>0, <2>2, <3>2, <4>1, EndsBelow
    <3> QED BY <1>0, <1>2, <3>1, <3>2, BeginsTyping, MkfsTyping DEF Shrinks, Opens, Mounts
  <2> QED BY <1>2, <2>1, <2>3 DEF Fits, FitsThen, GoesOn
<1> QED BY <1>1, <1>2

\* A command that keeps its step, and what is on its volume or else is known to be
\* spoiled, and one that has made nothing of its volume
LEMMA WholeFrame ==
    ASSUME NEW q \in Procs, WholeOK(q),
           pc'[q] = pc[q], job'[q] = job[q], child'[q] \in {child[q], "off", "failed"},
           q \notin spoiled' =>
             q \notin spoiled /\ content'[job[q].volume] = content[job[q].volume],
           \A r \in Procs : FitsThen(r, job[q].volume) => Fits(r, job[q].volume)
    PROVE  WholeOK(q)'
<1>1. \A r \in Procs : Fits(r, job[q].volume)' => Fits(r, job[q].volume)
  BY DEF Fits, FitsThen, Live, Below, BelowThen
<1>2. Past(q)' <=> Past(q)
  BY DEF Past
<1>3. ASSUME q \notin spoiled' PROVE MadeOK(q)'
  <2>1. (Keyed(q)' <=> Keyed(q)) /\ (Filled(q)' <=> Filled(q)) /\ MadeOK(q)
    BY <1>3 DEF Keyed, Filled, WholeOK
  <2> QED BY <1>2, <2>1 DEF MadeOK
<1> QED BY <1>1, <1>2, <1>3 DEF WholeOK

LEMMA WholeBefore ==
    ASSUME NEW q \in Procs, ~Past(q)', pc'[q] = "format" => job'[q].type = "luks"
    PROVE  WholeOK(q)'
BY DEF WholeOK, MadeOK, Past

\* The creation that goes on
LEMMA GoesOnWhole ==
    ASSUME Inv, NEW p \in Procs, GoesOn(p)
    PROVE  WholeOK(p)'
<1>0. TypeOK /\ DeviceInv /\ MkfsOK(p) /\ WholeOK(p)
  BY DEF Inv, MkfsInv, WholeInv
<1>1. PICK v \in Volumes : v = job[p].volume /\ job[p].type \in {"luks", "plain"} /\ job' = job
  <2>1. job' = job
    BY DEF GoesOn, Checked, Asked, Formatted, Added, Wiped, Unwiped, Activated, Forked, Waited,
           Closed, Advances
  <2> QED BY <1>0, <2>1, GoesOnTyping, CreatingFacts
<1>2. \A r \in Procs : Fits(r, job[p].volume)' => FitsThen(r, v)
  BY <1>1 DEF Fits, FitsThen, Live, Below, BelowThen
<1>3. \A r \in Procs : Fits(r, job[p].volume)' =>
        /\ Fits(r, job[p].volume) \/ (Activated(p) /\ r = p)
        /\ ~Formatted(p)
        /\ Activated(p) /\ job[p].type = "plain" => r = p
  BY <1>1, <1>2, FitsKept
<1>4. CASE Checked(p) \/ Asked(p)
  <2>1. ~Past(p)' /\ (pc'[p] = "format" => job'[p].type = "luks")
    BY <1>0, <1>1, <1>4 DEF Checked, Asked, Advances, Goto, Past, TypeOK
  <2> QED BY <2>1, WholeBefore
<1>5. CASE Formatted(p)
  <2>1. pc[p] = "format" /\ pc'[p] = "slot"
    BY <1>0, <1>5 DEF Formatted, Advances, Goto, TypeOK
  <2>2. job'[p].type = "luks" /\ MadeOK(p)'
    BY <1>0, <1>1, <2>1 DEF WholeOK, MadeOK
  <2> QED BY <1>1, <1>3, <1>5, <2>1, <2>2 DEF WholeOK
<1>6. CASE Added(p)
  <2>1. pc[p] = "slot" /\ pc'[p] \in {"activate", "wipe"}
    BY <1>0, <1>6 DEF Added, Advances, Goto, TypeOK
  <2>2. Past(p) /\ ~Activated(p) /\ job[p].type = "luks"
    BY <1>0, <2>1 DEF Past, Activated, Advances, WholeOK
  <2>3. \A r \in Procs : ~Fits(r, job[p].volume)'
    BY <1>0, <1>3, <2>1, <2>2 DEF WholeOK
  <2>4. Keyed(p)'
    <3>1. content'[v] = [lock |-> "luks", key |-> TRUE, fs |-> content[v].fs]
      BY <1>0, <1>1, <1>6 DEF Added, TypeOK
    <3>2. content'[v].lock = "luks" /\ content'[v].key = TRUE
      BY <3>1
    <3> QED BY <1>1, <2>2, <3>2 DEF Keyed
  <2>5. MadeOK(p)'
    BY <2>1, <2>4 DEF MadeOK
  <2> QED BY <1>1, <2>1, <2>2, <2>3, <2>5 DEF WholeOK
<1>7. CASE Wiped(p) \/ Unwiped(p)
  <2>1. /\ pc[p] \in {"wipe", "wiped"} /\ pc'[p] \in {"wiped", "activate"}
        /\ content' = content /\ spoiled' = spoiled
    BY <1>0, <1>7 DEF Wiped, Unwiped, Advances, Goto, TypeOK
  <2>2. Past(p) /\ ~Activated(p) /\ job[p].type = "luks"
    BY <1>0, <2>1 DEF Past, Activated, Advances, WholeOK
  <2>3. \A r \in Procs : ~Fits(r, job[p].volume)'
    BY <1>0, <1>3, <2>1, <2>2 DEF WholeOK
  <2>4. p \notin spoiled' => MadeOK(p)'
    BY <1>0, <1>1, <2>1, <2>2 DEF WholeOK, MadeOK, Keyed
  <2> QED BY <1>1, <2>1, <2>2, <2>3, <2>4 DEF WholeOK
<1>8. CASE Activated(p)
  <2>1. pc[p] = "activate" /\ pc'[p] = "mkfs" /\ content' = content /\ spoiled' = spoiled
    BY <1>0, <1>8 DEF Activated, Advances, Goto, TypeOK
  <2>2. \A r \in Procs : Fits(r, job[p].volume)' => r = p
    <3>1. CASE job[p].type = "plain"
      BY <1>3, <1>8, <3>1
    <3>2. CASE job[p].type = "luks"
      BY <1>0, <1>3, <2>1, <3>2 DEF WholeOK, Past
    <3> QED BY <1>1, <3>1, <3>2
  <2>3. p \notin spoiled' => MadeOK(p)'
    BY <1>0, <1>1, <2>1 DEF WholeOK, MadeOK, Past, Keyed
  <2> QED BY <1>1, <2>1, <2>2, <2>3 DEF WholeOK
<1>9. CASE Forked(p)
  <2>1. /\ pc[p] = "mkfs" /\ pc'[p] \in {"wait", "lock"} /\ content' = content
        /\ p \notin spoiled' => p \notin spoiled
        /\ pc'[p] = "wait" => child'[p] = "running" \/ p \in spoiled'
        /\ pc'[p] = "lock" => job[p].fs = "none"
        /\ ~Activated(p)
    BY <1>0, <1>9 DEF Forked, Activated, Advances, Goto, TypeOK
  <2>2. \A r \in Procs : Fits(r, job[p].volume)' => r = p
    BY <1>0, <1>3, <2>1 DEF WholeOK, Past
  <2>3. p \notin spoiled' => MadeOK(p)'
    BY <1>0, <1>1, <2>1 DEF WholeOK, MadeOK, Past, Keyed
  <2> QED BY <1>1, <2>1, <2>2, <2>3 DEF WholeOK
<1>10. CASE Waited(p) \/ Closed(p)
  <2>1. /\ pc[p] \in {"wait", "lock"} /\ pc'[p] \in {"lock", "done"} /\ content' = content
        /\ pc'[p] = "lock" => child'[p] = child[p] /\ pc[p] = "wait"
        /\ pc'[p] = "done" => child[p] = "ok"
        /\ spoiled' = spoiled /\ ~Activated(p)
    BY <1>0, <1>10 DEF Waited, Closed, Activated, Advances, Goto, TypeOK
  <2>2. \A r \in Procs : Fits(r, job[p].volume)' => r = p
    BY <1>0, <1>3, <2>1 DEF WholeOK, Past
  <2>3. p \notin spoiled' => MadeOK(p)'
    BY <1>0, <1>1, <2>1 DEF WholeOK, MadeOK, Past, Filled, Keyed
  <2> QED BY <1>1, <2>1, <2>2, <2>3 DEF WholeOK
<1> QED BY <1>4, <1>5, <1>6, <1>7, <1>8, <1>9, <1>10 DEF GoesOn

\* A creation while some mkfs writes: its own, or one that spoils the volume
LEMMA WritesWhole ==
    ASSUME Inv, NEW p \in Procs, Writes(p), NEW q \in Procs
    PROVE  WholeOK(q)'
<1>0. TypeOK /\ DeviceInv /\ MkfsInv /\ MkfsOK(p) /\ WholeOK(q)
  BY DEF Inv, MkfsInv, WholeInv
<1>1. pc' = pc /\ job' = job /\ (q # p => child'[q] = child[q]) /\ spoiled \subseteq spoiled'
  BY <1>0, WriteFrame DEF command
<1>2. CASE ~Past(q)
  <2>1. ~Past(q)' /\ (pc'[q] = "format" => job'[q].type = "luks")
    BY <1>0, <1>1, <1>2 DEF Past, WholeOK
  <2> QED BY <2>1, WholeBefore
<1>3. CASE Past(q)
  <2>0. PICK v \in Volumes : v = job[q].volume
    BY <1>0, <1>3, CreatingFacts DEF Past, Creating
  <2>1. PICK w \in Volumes : w = Below(mapper[Created(p)].dev)
    BY <1>0, WriteFrame
  <2>2. \A r \in Procs : FitsThen(r, job[q].volume) => Fits(r, job[q].volume)
    <3>1. ~Activated(p)
      <4>1. UNCHANGED loop /\ UNCHANGED pc
        BY <1>0, WriteFrame DEF command
      <4> QED BY <1>0, <4>1 DEF Activated, Advances, Goto, TypeOK
    <3> QED BY <2>0, <3>1, FitsKept
  <2>3. \A r \in Procs : Fits(r, job[q].volume)' => r = q /\ pc'[q] \in {"mkfs", "wait", "lock", "done"}
    <3>1. \A r \in Procs : Fits(r, job[q].volume)' => FitsThen(r, job[q].volume)
      BY <1>1 DEF Fits, FitsThen, Live, Below, BelowThen
    <3> QED BY <1>0, <1>1, <1>3, <2>2, <3>1 DEF WholeOK
  <2>4. pc'[q] \in {"format", "slot", "wipe", "wiped"} => job'[q].type = "luks"
    BY <1>0, <1>1 DEF WholeOK
  <2>5. SUFFICES ASSUME q \notin spoiled' PROVE MadeOK(q)'
    BY <1>1, <2>3, <2>4 DEF WholeOK
  <2>6. MadeOK(q)
    BY <1>0, <1>1, <2>5 DEF WholeOK
  <2>7. CASE WritesBadly(p)
    <3>1. w # v
      BY <1>0, <1>3, <2>0, <2>1, <2>5, <2>7, SpoilFrame DEF WritesBadly
    <3>2. content'[v] = content[v]
      BY <1>0, <2>0, <2>1, <2>7, <3>1, SpoilFrame DEF WritesBadly
    <3>3. (Keyed(q)' <=> Keyed(q)) /\ (Filled(q)' <=> Filled(q)) /\ (Past(q)' <=> Past(q))
      BY <1>1, <2>0, <3>2 DEF Keyed, Filled, Past
    <3>4. ~(q = p /\ pc[p] \in {"wait", "lock"})
      BY <1>0, <2>7 DEF WritesBadly, MkfsOK
    <3>5. q = p => pc[q] # "done"
      BY <1>0, WriteFrame DEF MkfsOK
    <3> QED BY <1>1, <2>6, <3>3, <3>4, <3>5 DEF MadeOK
  <2>8. CASE WritesWell(p) /\ w = v
    <3>1. Fits(p, job[q].volume)
      BY <1>0, <2>0, <2>1, <2>8, WriteFrame DEF Fits, WritesWell
    <3>2. q = p /\ pc[p] = "wait"
      BY <1>0, <1>3, <3>1, WriteFrame DEF WholeOK, MkfsOK
    <3>3. mapper[Created(p)].type = job[p].type /\ job[p].type \in {"luks", "plain"}
      BY <1>0, <3>2, WriteFrame DEF MkfsOK
    <3>4. Keyed(q)'
      <4>1. job[p].type = "luks" => content[v].lock = "luks" /\ content[v].key
        BY <2>0, <2>6, <3>2 DEF MadeOK, Past, Keyed
      <4>2. content'[v].lock = job[p].type /\ content'[v].key
        BY <2>1, <2>8, <3>3, <4>1 DEF WritesWell
      <4> QED BY <1>1, <2>0, <3>2, <4>2 DEF Keyed
    <3>5. child[p] = "half" => Filled(q)'
      BY <1>1, <2>0, <2>1, <2>8, <3>4 DEF Filled, WritesWell
    <3>6. child'[q] = "ok" => child[p] = "half"
      BY <1>0, <3>2, WriteFrame
    <3> QED BY <1>1, <3>2, <3>4, <3>5, <3>6 DEF MadeOK
  <2>9. CASE WritesWell(p) /\ w # v
    <3>1. content'[v] = content[v]
      BY <2>0, <2>1, <2>9 DEF WritesWell
    <3>2. (Keyed(q)' <=> Keyed(q)) /\ (Filled(q)' <=> Filled(q)) /\ (Past(q)' <=> Past(q))
      BY <1>1, <2>0, <3>1 DEF Keyed, Filled, Past
    <3>3. q = p => pc[q] \notin {"wait", "lock", "done"}
      <4>1. ASSUME q = p, pc[p] \in {"wait", "lock"} PROVE w = v
        BY <1>0, <2>0, <2>1, <4>1, CreatingFacts DEF MkfsOK, Creating
      <4> QED BY <1>0, <2>9, <4>1, WriteFrame DEF MkfsOK
    <3> QED BY <1>1, <2>6, <3>2, <3>3 DEF MadeOK
  <2> QED BY <1>0, <2>7, <2>8, <2>9, WriteFrame
<1> QED BY <1>2, <1>3

LEMMA NextWhole == Inv /\ Own => WholeInv'
<1> SUFFICES ASSUME Inv, Own, NEW q \in Procs PROVE WholeOK(q)'
  BY DEF WholeInv
<1>0. TypeOK /\ DeviceInv /\ MkfsInv /\ AloneInv /\ WholeOK(q)
  BY DEF Inv, WholeInv
<1>1. PICK p \in Procs :
        \/ Start(p) \/ GetFree(p) \/ Attach(p) \/ Status(p)
        \/ Shrinks(p) \/ Opens(p) \/ Mounts(p)
        \/ GoesOn(p) \/ Stops(p) \/ Writes(p)
  BY <1>0, NextCases
<1>2. Others(p) /\ TypeOK'
  BY <1>1, NextOthers
<1>3. CASE Past(q)' /\ q # p /\ ~Writes(p)
  <2>1. /\ pc'[q] = pc[q] /\ job'[q] = job[q] /\ child'[q] = child[q]
        /\ q \in spoiled => q \in spoiled'
    BY <1>2, <1>3 DEF Others
  <2>2. pc[q] \in Creating /\ job[q].volume \in Volumes /\ job[q].op = "create" /\ pc[q] # "idle"
    BY <1>0, <1>3, <2>1, CreatingFacts DEF Past, Creating
  <2>3. GoesOn(p) => job[p].volume # job[q].volume /\ job[p].volume \in Volumes
    <3> SUFFICES ASSUME GoesOn(p) PROVE job[p].volume # job[q].volume /\ job[p].volume \in Volumes
      OBVIOUS
    <3>1. job[p].op = "create" /\ pc[p] # "idle" /\ job[p].volume \in Volumes
      BY <1>0, GoesOnTyping, CreatingFacts DEF Creating
    <3> QED BY <1>0, <1>3, <2>2, <3>1 DEF AloneInv
  <2>4. content'[job[q].volume] = content[job[q].volume]
    <3>1. CASE GoesOn(p)
      BY <1>0, <2>2, <2>3, <3>1

              DEF GoesOn, Checked, Asked, Formatted, Added, Wiped, Unwiped, Activated, Forked,
                  Waited, Closed, TypeOK
    <3>2. CASE ~GoesOn(p)
      BY <1>0, <1>1, <1>3, <3>2, BeginsTyping
         DEF Begins, Shrinks, Opens, Mounts, Ends, Stops, system
    <3> QED BY <3>1, <3>2
  <2>5. \A r \in Procs : FitsThen(r, job[q].volume) => Fits(r, job[q].volume)
    BY <1>1, <2>2, <2>3, FitsKept DEF GoesOn
  <2> QED BY <1>0, <2>1, <2>4, <2>5, WholeFrame
<1>4. CASE ~Past(q)' /\ q # p
  BY <1>0, <1>2, <1>4, WholeBefore DEF Others, WholeOK
<1>5. CASE q = p /\ (Start(p) \/ GetFree(p) \/ Attach(p) \/ Status(p) \/ Ends(p))
  <2>1. ~Past(q)' /\ pc'[q] # "format"
    BY <1>0, <1>5, BeginsTyping, EndsFrame DEF Begins, Past
  <2> QED BY <2>1, WholeBefore
<1>6. CASE q = p /\ Stops(p)
  <2>1. /\ pc' = pc /\ job' = job /\ content' = content /\ spoiled' = spoiled
        /\ child'[q] \in {child[q], "off", "failed"}
    BY <1>0, <1>6 DEF Stops, system, command, TypeOK
  <2>2. CASE pc[q] \in Creating
    <3>1. job[q].volume \in Volumes
      BY <1>0, <2>2, CreatingFacts
    <3>2. ~Activated(p)
      BY <1>0, <2>1 DEF Activated, Advances, Goto, TypeOK
    <3>3. \A r \in Procs : FitsThen(r, job[q].volume) => Fits(r, job[q].volume)
      BY <1>6, <3>1, <3>2, FitsKept
    <3> QED BY <1>0, <2>1, <3>3, WholeFrame
  <2>3. CASE pc[q] \notin Creating
    BY <2>1, <2>3, WholeBefore DEF Past, Creating
  <2> QED BY <2>2, <2>3
<1> QED
  BY <1>1, <1>3, <1>4, <1>5, <1>6, GoesOnWhole, WritesWhole DEF Shrinks, Opens, Mounts

LEMMA NextKey == Inv /\ Own => KeyInv'
<1> SUFFICES ASSUME Inv, Own, NEW v \in Volumes, content'[v].key
             PROVE  content'[v].lock # "none"
  BY DEF KeyInv
<1>0. TypeOK /\ DeviceInv /\ MkfsInv /\ WholeInv /\ (content[v].key => content[v].lock # "none")
  BY DEF Inv, KeyInv
<1>1. PICK p \in Procs :
        \/ Start(p) \/ GetFree(p) \/ Attach(p) \/ Status(p)
        \/ Shrinks(p) \/ Opens(p) \/ Mounts(p)
        \/ GoesOn(p) \/ Stops(p) \/ Writes(p)
  BY <1>0, NextCases
<1>2. CASE content' = content
  BY <1>0, <1>2
<1>3. CASE Formatted(p) \/ Added(p)
  <2>1. GoesOn(p) /\ job[p].volume \in Volumes
    BY <1>0, <1>3, GoesOnTyping, CreatingFacts DEF GoesOn
  <2>2. CASE Formatted(p)
    BY <1>0, <2>1, <2>2 DEF Formatted, Header, TypeOK
  <2>3. CASE Added(p)
    <3>1. v = job[p].volume => content'[v].lock = "luks"
      BY <1>0, <2>1, <2>3 DEF Added, TypeOK
    <3>2. v # job[p].volume => content'[v] = content[v]
      BY <1>0, <2>1, <2>3 DEF Added, TypeOK
    <3> QED BY <1>0, <3>1, <3>2
  <2> QED BY <1>3, <2>2, <2>3
<1>4. CASE Writes(p)
  <2>1. PICK w \in Volumes :
          /\ w = Below(mapper[Created(p)].dev)
          /\ mapper[Created(p)].type \in {"luks", "plain"}
          /\ WritesWell(p) \/ WritesBadly(p)
    BY <1>0, <1>4, WriteFrame
  <2>2. CASE WritesWell(p)
    BY <1>0, <2>1, <2>2 DEF WritesWell
  <2>3. CASE WritesBadly(p)
    BY <1>0, <2>1, <2>3, SpoilFrame DEF WritesBadly
  <2> QED BY <2>1, <2>2, <2>3
<1> QED BY <1>0, <1>1, <1>2, <1>3, <1>4, BeginsTyping
     DEF Begins, Shrinks, Opens, Mounts, Ends, Stops, system,
         GoesOn, Checked, Asked, Wiped, Unwiped, Activated, Forked, Waited, Closed

\* What is mounted or open changes what is on a volume, and nothing else
LEMMA ForeignInv ==
    ASSUME Inv, NEW w, Foreign(w)
    PROVE  Inv'
<1>0. TypeOK /\ WholeInv /\ KeyInv /\ \E behind \in BOOLEAN : Spoil(w, behind)
  BY DEF Inv, Foreign
<1>1. UNCHANGED <<images, loop, mapper, mounted, child, left, pc, job, dev, fds, tries, runs>>
  BY DEF Foreign, command
<1>2. /\ content' \in [Volumes -> [lock : {"none", "luks", "plain"}, key : BOOLEAN,
                                     fs : {"no", "part", "whole", "torn"}]]
      /\ \A v \in Volumes : v # w => content'[v] = content[v]
      /\ \A v \in Volumes : content'[v].key =>
           content[v].key /\ content'[v].lock = content[v].lock
      /\ spoiled \subseteq spoiled' /\ spoiled' \subseteq Procs
      /\ \A q \in Procs : Past(q) /\ job[q].volume = w => q \in spoiled'
  BY <1>0, SpoilFrame
<1>3. TypeOK'
  BY <1>0, <1>1, <1>2 DEF TypeOK, Live, Below
<1>4. (DeviceInv /\ LoopInv)'
  BY <1>1 DEF Inv, DeviceInv, DeviceOK, LoopInv, Used, Live, Below
<1>5. (MapperInv /\ MkfsInv /\ AloneInv)'
  BY <1>1 DEF Inv, MapperInv, MkfsInv, MkfsOK, AloneInv, Live, Below
<1>6. (LateInv /\ TempClosed)'
  BY <1>1 DEF Inv, LateInv, LateOK, TempClosed, Live
<1>7. KeyInv'
  BY <1>0, <1>2 DEF KeyInv
<1>8. ASSUME NEW q \in Procs PROVE WholeOK(q)'
  <2>1. WholeOK(q) /\ (Past(q)' <=> Past(q))
    BY <1>0, <1>1 DEF WholeInv, Past
  <2>2. CASE ~Past(q)
    BY <1>1, <2>1, <2>2, WholeBefore DEF WholeOK
  <2>3. CASE Past(q)
    <3>1. job[q].volume \in Volumes
      BY <2>3, CreatingFacts DEF Inv, Past, Creating
    <3>2. \A r \in Procs : FitsThen(r, job[q].volume) => Fits(r, job[q].volume)
      BY <1>1 DEF Fits, FitsThen, Live, Below, BelowThen
    <3>3. q \notin spoiled' =>
             q \notin spoiled /\ content'[job[q].volume] = content[job[q].volume]
      BY <1>2, <2>3, <3>1
    <3> QED BY <1>1, <2>1, <3>2, <3>3, WholeFrame
  <2> QED BY <2>2, <2>3
<1> QED BY <1>3, <1>4, <1>5, <1>6, <1>7, <1>8 DEF Inv, WholeInv

-----------------------------------------------------------------------------
(* The invariant, and what follows from it *)

LEMMA InitInv == Init => Inv
<1> SUFFICES ASSUME Init PROVE Inv
  OBVIOUS
<1>1. \A m \in Mappers : ~Live(m)
  BY DEF Init, Live
<1>2. /\ NoJob \notin Jobs /\ Tries \in 1 .. Tries /\ 0 \in 0 .. Runs
      /\ Data \in [lock : {"none", "luks", "plain"}, key : BOOLEAN,
                   fs : {"no", "part", "whole", "torn"}] /\ ~Data.key
      /\ Detached \in [file : images \cup {Nothing}, auto : BOOLEAN]
      /\ ~Detached.auto /\ Detached.file = Nothing
  BY CreateAssumption, JobsTyping DEF Data, Detached
<1>3. TypeOK
  BY <1>1, <1>2 DEF Init, TypeOK, Steps
<1>4. DeviceInv /\ MkfsInv /\ AloneInv /\ LateInv /\ TempClosed
  BY <1>1, MapperNames
     DEF Init, DeviceInv, DeviceOK, Creating, Working, MkfsInv, MkfsOK, AloneInv, LateInv,
         LateOK, TempClosed
<1>5. LoopInv /\ KeyInv
  BY <1>2 DEF Init, LoopInv, KeyInv
<1>6. MapperInv
  BY <1>1, MapperNames DEF MapperInv
<1>7. WholeInv
  BY DEF Init, WholeInv, WholeOK, MadeOK, Past
<1> QED BY <1>3, <1>4, <1>5, <1>6, <1>7 DEF Inv

LEMMA StutterInv == Inv /\ UNCHANGED vars => Inv'
<1> SUFFICES ASSUME Inv, UNCHANGED vars PROVE Inv'
  OBVIOUS
<1> USE DEF vars, system, command
<1>1. (TypeOK /\ DeviceInv /\ LoopInv)'
  BY DEF Inv, TypeOK, DeviceInv, DeviceOK, LoopInv, Used, Live, Below
<1>2. (MapperInv /\ MkfsInv /\ AloneInv)'
  BY DEF Inv, MapperInv, MkfsInv, MkfsOK, AloneInv, Live, Below
<1>3. (LateInv /\ KeyInv /\ TempClosed)'
  BY DEF Inv, LateInv, LateOK, KeyInv, TempClosed, Live
<1>4. WholeInv'
  BY DEF Inv, WholeInv, WholeOK, MadeOK, Past, Fits, Keyed, Filled, Live, Below
<1> QED BY <1>1, <1>2, <1>3, <1>4 DEF Inv

LEMMA NextInv == Inv /\ [Next]_vars => Inv'
<1>1. Inv /\ Own => Inv'
  BY NextTyping, NextMappers, NextMkfs, NextAlone, NextLate, NextTemp, NextLoops, NextWhole,
     NextKey DEF Inv
<1>2. Inv /\ Next => Inv'
  BY <1>1, OwnOrForeign, ForeignInv DEF Inv
<1> QED BY <1>2, StutterInv

LEMMA Invariance == Spec => []Inv
BY InitInv, NextInv, PTL DEF Spec

\* Every variable keeps its type, for any number of commands, volumes and loop
\* devices; the device of a mapper always has a file or a disk below it.
THEOREM Typing == Spec => []TypeOK
<1>1. Inv => TypeOK
  BY DEF Inv
<1> QED BY <1>1, Invariance, PTL

\* zuluCrypt-create-volume-<thread id> is there only while its command is at
\* mkfs or at the close, and zuluCrypt-wipe-volume-<thread id> only while it wipes,
\* or after a kill or a close that the kernel refused.
THEOREM TemporaryMapper == Spec => []TempClosed
<1>1. Inv => TempClosed
  BY DEF Inv
<1> QED BY <1>1, Invariance, PTL

\* Whatever the commands do to each other's loop devices, one that nobody uses
\* is detached, but for those of a command that a fault stopped before the flag.
THEOREM NoLoopLeft == Spec => []LoopsDetached
<1>1. Inv => LoopsDetached
  <2> SUFFICES ASSUME Inv, NEW n \in Loops, loop[n].file # Nothing
               PROVE  \/ n \in left \/ n \in mounted
                      \/ \E p \in Procs : n \in fds[p]
                      \/ \E m \in Mappers : Live(m) /\ mapper[m].dev = n
    BY DEF LoopsDetached
  <2>1. \/ n \in left
        \/ Used(n)
        \/ \E p \in Procs : pc[p] = "status" /\ dev[p] = n
    BY DEF Inv, LoopInv
  <2>2. ASSUME NEW p \in Procs, pc[p] = "status", dev[p] = n PROVE n \in fds[p]
    BY <2>2 DEF Inv, DeviceInv, DeviceOK
  <2> QED BY <2>1, <2>2 DEF Used
<1> QED BY <1>1, Invariance, PTL

\* "SUCCESS: Volume created successfully" is true: the volume has the header and
\* the key that were asked for and a whole file system, unless mkfs could not be
\* started or something that had the volume mounted or open wrote to it.
THEOREM CreatedVolume == Spec => []CreatedIsWhole
<1>1. Inv => CreatedIsWhole
  <2> SUFFICES ASSUME Inv, NEW p \in Procs, p \notin spoiled, pc[p] = "done", job[p].fs # "none"
               PROVE  content[job[p].volume] =
                        [lock |-> job[p].type, key |-> TRUE, fs |-> "whole"]
    BY DEF CreatedIsWhole
  <2>1. Filled(p)
    BY DEF Inv, WholeInv, WholeOK, MadeOK
  <2>2. job[p].volume \in Volumes
    BY CreatingFacts DEF Inv, Creating
  <2>3. content[job[p].volume] \in
           [lock : {"none", "luks", "plain"}, key : BOOLEAN, fs : {"no", "part", "whole", "torn"}]
    BY <2>2 DEF Inv, TypeOK
  <2> QED BY <2>1, <2>3 DEF Filled, Keyed
<1> QED BY <1>1, Invariance, PTL

\* A disk has one mapper or mount, so that whoever has one keeps the others out
LEMMA DiskUser ==
    ASSUME TypeOK, NEW d \in Devices, NEW v \in Volumes, Below(d) = v, v \in Disks
    PROVE  d = v
<1>1. d \in Loops => Below(d) \in images \cup {Nothing}
  BY BelowTyping
<1>2. v # Nothing /\ v \notin images
  BY CreateAssumption DEF Disks
<1> QED BY <1>1, <1>2 DEF Below

\* A creation overwrites no open volume but an image that was opened after it
\* looked for the mapper, and no mounted disk.
THEOREM OpenVolumesKept == Spec => OpenKept
<1> DEFINE Step == \A p \in Procs : Overwrites(p) =>
             LET v == job[p].volume IN
             /\ Live(Opened(v)) => v \notin Disks /\ p \in mapper[Opened(v)].late
             /\ v \in Disks => v \notin mounted
<1>1. Inv /\ [Next]_vars => [Step]_vars
  <2> SUFFICES ASSUME Inv, Next, NEW q \in Procs, Overwrites(q)
               PROVE  /\ Live(Opened(job[q].volume)) =>
                            job[q].volume \notin Disks /\ q \in mapper[Opened(job[q].volume)].late
                      /\ job[q].volume \in Disks => job[q].volume \notin mounted
    OBVIOUS
  <2>0. TypeOK /\ DeviceInv /\ MkfsInv /\ MapperInv /\ LateInv
    BY DEF Inv
  <2>1. pc[q] \in {"format", "wait"}
    BY DEF Overwrites, Orphan
  <2>2. PICK v \in Volumes : v = job[q].volume
    BY <2>0, <2>1, CreatingFacts DEF Creating
  <2>3. dev[q] \in Devices /\ Below(dev[q]) = v /\ (v \in Disks => dev[q] = v)
    <3>1. dev[q] \in Devices /\ Below(dev[q]) = v
      BY <2>0, <2>1, <2>2, CreatingFacts DEF Creating
    <3> QED BY <2>0, <3>1, DiskUser
  <2>4. Live(Opened(v)) => q \in mapper[Opened(v)].late
    BY <2>0, <2>1, <2>2 DEF LateInv, LateOK
  <2>5. Live(Opened(v)) /\ v \in Disks => mapper[Opened(v)].dev = v
    <3> SUFFICES ASSUME Live(Opened(v)), v \in Disks PROVE mapper[Opened(v)].dev = v
      OBVIOUS
    <3>1. mapper[Opened(v)].dev \in Devices /\ Below(mapper[Opened(v)].dev) = v
      BY <2>0, MapperNames, MappersTyping DEF MapperInv
    <3> QED BY <2>0, <3>1, DiskUser
  <2>6. CASE pc[q] = "format"
    <3>1. ~Busy(dev[q])
      <4>1. pc'[q] = "slot"
        BY <2>6 DEF Overwrites, Orphan
      <4>2. PICK p \in Procs :
              \/ Start(p) \/ GetFree(p) \/ Attach(p) \/ Status(p)
              \/ Shrinks(p) \/ Opens(p) \/ Mounts(p)
              \/ GoesOn(p) \/ Stops(p) \/ Writes(p)
        <5>1. \A w : Foreign(w) => pc' = pc
          BY DEF Foreign, command
        <5> QED BY <2>0, <2>6, <4>1, <5>1, OwnOrForeign, NextCases
      <4>3. p = q
        BY <2>6, <4>1, <4>2, NextOthers DEF Others
      <4>4. GoesOn(p)
        <5>1. ~(Start(q) \/ GetFree(q) \/ Attach(q) \/ Status(q))
          BY <2>0, <2>6, BeginsTyping DEF Begins
        <5>2. ~Ends(q)
          BY <2>0, <4>1, EndsFrame
        <5>3. ~(Stops(q) \/ Writes(q))
          BY <2>0, <2>6, <4>1, MkfsTyping DEF command
        <5> QED BY <4>2, <4>3, <5>1, <5>2, <5>3 DEF Shrinks, Opens, Mounts
      <4>5. Formatted(p)
        <5>1. pc[p] = "format"
          BY <2>6, <4>3
        <5> QED BY <4>4, <5>1

                  DEF GoesOn, Checked, Asked, Added, Wiped, Unwiped, Activated, Forked, Waited,
                      Closed, Advances
      <4> QED BY <4>3, <4>5 DEF Formatted
    <3>2. v \in Disks => v \notin mounted /\ ~Live(Opened(v))
      BY <2>3, <2>5, <3>1, MapperNames DEF Busy
    <3> QED BY <2>2, <2>4, <3>2
  <2>7. CASE pc[q] = "wait"
    <3>1. Live(Created(q)) /\ mapper[Created(q)].dev = dev[q]
      BY <2>0, <2>7 DEF MkfsInv, MkfsOK
    <3>2. v \in Disks => v \notin mounted /\ ~Live(Opened(v))
      BY <2>0, <2>3, <2>5, <3>1, MapperNames DEF MapperInv
    <3> QED BY <2>2, <2>4, <3>2
  <2> QED BY <2>1, <2>6, <2>7
<1>2. [][Step]_vars => OpenKept
  BY DEF OpenKept
<1> QED BY <1>1, <1>2, Invariance, PTL DEF Spec
=============================================================================
