---------------------------- MODULE VolumeState ----------------------------
(***************************************************************************)
(* What every run of zuluCrypt-cli and zuluMount-cli shares: the mappers   *)
(* under /dev/mapper, the mount point folders under /run/media/private and *)
(* /run/media/public, and the mount table; and what each running process   *)
(* keeps of its own.  The modules OpenVolume, CloseVolume and              *)
(* ClearDeadMappers hold the steps of one source file each over this       *)
(* state, VolumeSessions interleaves them.                                 *)
(***************************************************************************)
EXTENDS Naturals, Sequences, FiniteSets

CONSTANTS
    Users,      \* the uids of the people who run the programs (none is 0)
    Devices,    \* block devices and image files that hold a volume
    Images,     \* the image files: every command has a loop device of its own
    Names,      \* last components of mount point paths
    Labels,     \* [Devices -> the names the mount point of a device is given]
    Ops,        \* the commands people run: "open", "close", "sweep", "clear"
    Fronts,     \* the programs they run: "zuluCrypt" and "zuluMount"
    Shares,     \* do they ask for the shared folder too: TRUE, FALSE
    Types,      \* volume types they open: "luks", "plain", "auto"
    Faults,     \* what goes wrong around them: "kill", "unplug"
    Procs,      \* running processes
    Group,      \* the users who are members of the group "zulumount"
    UidPrefix,  \* <<u, v>> : the decimal digits of uid u start those of uid v
    Nobody,     \* owner of the shared folders
    Bare,       \* a bind mount of a plain folder, which no mount list shows
    NoPoint,    \* "no path", a NULL m_point
    NoMapper    \* a process that works on no mapper yet

-----------------------------------------------------------------------------
(* Names and paths *)

\* "zuluCrypt-<uid>-NAAN-<name>-<hash of the device>" : one per user and device
Mapper == Users \X Devices
UserOf(m) == m[1]
DeviceOf(m) == m[2]

\* /run/media/private/<user>/<name> and /run/media/public/<name>
Private(u, n) == [kind |-> "private", user |-> u, name |-> n]
Public(n) == [kind |-> "public", user |-> Nobody, name |-> n]
PrivatePoints == {Private(u, n) : u \in Users, n \in Names}
PublicPoints == {Public(n) : n \in Names}
Points == PrivatePoints \cup PublicPoints

\* mutant: the sweep looks for "zuluCrypt-" alone
SweptByAnyone(u) == Mapper

\* Which uids' mappers the prefix "zuluCrypt-<uid>" of a sweep also matches
SweptBy(u) == {m \in Mapper : <<u, UserOf(m)>> \in UidPrefix}

ASSUME ConstantsAssumption ==
    /\ Group \subseteq Users
    /\ Images \subseteq Devices
    /\ UidPrefix \subseteq Users \X Users
    /\ \A u \in Users : <<u, u>> \in UidPrefix
    /\ Nobody \notin Users
    /\ Labels \in [Devices -> SUBSET Names]
    /\ Ops \subseteq {"open", "close", "sweep", "clear"}
    /\ Fronts \subseteq {"zuluCrypt", "zuluMount"}
    /\ Shares \subseteq BOOLEAN
    /\ Types \subseteq {"luks", "plain", "auto"}
    /\ Faults \subseteq {"kill", "unplug"}
    /\ NoMapper \notin Mapper /\ Bare \notin Mapper /\ NoPoint \notin Points

-----------------------------------------------------------------------------
VARIABLES
    mapper,   \* [Mapper -> "absent", "live", or "dead" once its device is gone]
    present,  \* the devices that are plugged in
    dirs,     \* the mount point folders that exist
    mounts,   \* [Points -> what is mounted there, the visible mount first]
    refused,  \* history: mappers whose deactivation was refused or never made
    pc,       \* [Procs -> the step the process is at]
    job,      \* [Procs -> its command line]
    phase,    \* [Procs -> the part of the program the unmount steps serve]
    root,     \* [Procs -> is euid 0 when the next privileged call is made]
    seen,     \* [Procs -> the mount list it read last]
    todo,     \* [Procs -> mappers its loop has still to visit]
    left,     \* [Procs -> paths its loop has still to unmount or to remove]
    cur,      \* [Procs -> the mapper it works on]
    point,    \* [Procs -> the folder it has to remove, m_point in the code]
    try,      \* [Procs -> how many volume formats it has tried]
    rc        \* [Procs -> the exit status it reports]

kernel == <<mapper, present, dirs, mounts>>
locals == <<pc, job, phase, root, seen, todo, left, cur, point, try, rc>>
vars == <<mapper, present, dirs, mounts, refused,
          pc, job, phase, root, seen, todo, left, cur, point, try, rc>>

-----------------------------------------------------------------------------
(* The kernel's side of the calls the programs make *)

In(m, stack) == \E i \in DOMAIN stack : stack[i] = m

NoMounts == [pt \in Points |-> <<>>]

\* the mount points the list "table" shows for the mapper m
EntriesOf(m, table) == {pt \in Points : In(m, table[pt])}

\* lines of the list for pt; zuluCryptGetMoutedList() drops a Bare mount
IsListed(pt, table) == \E m \in Mapper : In(m, table[pt])

\* the list is in mounting order, so the first line for pt is the lowest mount
FirstListed(pt, table) ==
    LET s == table[pt]
        visible == {i \in DOMAIN s : s[i] # Bare}
    IN  s[CHOOSE i \in visible : \A j \in visible : j <= i]

InUse(m) == \E pt \in Points : In(m, mounts[pt])

\* device-mapper gives a device to one mapping at a time, and of an image file
\* each command sees a device that is its own
DeviceTaken(d) == d \notin Images /\ \E m \in Mapper : DeviceOf(m) = d /\ mapper[m] = "live"

\* mount() puts a new mount on top of those of the path, umount() takes the
\* top one away, rmdir() removes a folder nothing is mounted on
MountOn(pt, m) == mounts' = [mounts EXCEPT ![pt] = <<m>> \o @]
\* mutant: a path with nothing mounted on it counts as unmounted
UmountTopOrNone(pt) == mounts' = [mounts EXCEPT ![pt] = IF @ = <<>> THEN @ ELSE Tail(@)]
UmountTop(pt) == mounts[pt] # <<>> /\ mounts' = [mounts EXCEPT ![pt] = Tail(@)]
Rmdir(pt) == dirs' = IF pt \in dirs /\ mounts[pt] = <<>> THEN dirs \ {pt} ELSE dirs

-----------------------------------------------------------------------------
(* Process control *)

Goto(p, l) == pc' = [pc EXCEPT ![p] = l]

\* mutant: zuluMount-cli has set the uid, too, before it sweeps
DropsToUser(p) == job[p].op = "clear"

\* zuluCryptSecurityDropElevatedPrivileges() sets the euid to
\* global_variable_user_uid, which is still 0 when zuluMount-cli sweeps and
\* when either program runs with --clear-dead-mount-points
DropsToRoot(p) == job[p].front = "zuluMount" \/ job[p].op = "clear"

\* the program reports "code" and releases what it kept
Exit(p, code) ==
    /\ Goto(p, "done")
    /\ rc' = [rc EXCEPT ![p] = code]
    /\ seen' = [seen EXCEPT ![p] = NoMounts]
    /\ todo' = [todo EXCEPT ![p] = {}]
    /\ left' = [left EXCEPT ![p] = {}]
    /\ point' = [point EXCEPT ![p] = NoPoint]
    /\ UNCHANGED <<job, phase, root, cur, try>>

\* zuluCryptCloseVolume() and the functions it calls return to the command
\* that called them: closing a volume exits, the sweep and the clearing of
\* dead mount points go on with their next mapper
Leave(p, code) ==
    \/ phase[p] = "main" /\ Exit(p, code)
    \/ /\ phase[p] \in {"sweep", "dead"}
       /\ Goto(p, IF phase[p] = "sweep" THEN "scan" ELSE "dead")
       /\ todo' = [todo EXCEPT ![p] = @ \ {cur[p]}]
       /\ left' = [left EXCEPT ![p] = {}]
       /\ point' = [point EXCEPT ![p] = NoPoint]
       /\ UNCHANGED <<job, phase, root, seen, cur, try, rc>>
=============================================================================
