# TLA+ specifications of zuluCrypt

zuluCrypt is a front end to encrypted volumes on Linux. Two setuid-root command
line programs, `zuluCrypt-cli` and `zuluMount-cli`, unlock volumes with
cryptsetup, tcplay or dislocker, mount them and take them down again; two Qt
programs, `zuluCrypt-gui` and `zuluMount-gui`, run the command line programs
and show what is open. There is no daemon and no lock file: all that the
processes share is the kernel's state, device-mapper, the mount table and the
folders under `/run/media`. Most of what can go wrong is therefore in the
order of system calls of processes that do not know of each other.

## 1. Inventory

| Component | Source | State | Operations | Interacts with |
|---|---|---|---|---|
| Command dispatch, privileges | `zuluCrypt-cli/bin/main.c`, `security.c`, `zuluMount-cli/main.c` | euid, `global_variable_user_uid`, group membership | parse options, sweep, dispatch, gain and drop privileges | every other component of the programs |
| Opening a volume | `bin/open_volume.c`, `lib/open_volume.c`, `lib/mount_volume.c`, `bin/create_mount_point.c`, `zuluMount-cli/crypto_mount.c` | mapper, mount point folder, mount, key in memory | create folder, check paths, get key, unlock, mount, share, undo | device-mapper, mount table, plugins, sharing |
| Closing a volume | `bin/close_volume.c`, `lib/unmount_volume.c`, `lib/close_mapper.c`, `zuluMount-cli/crypto_umount.c` | list of mount points, `m_point` | unshare, unmount each, deactivate, remove folder | the same kernel state |
| Shared mounts | `bin/bind.c` | `/run/media/public/<name>` | check path, bind, unbind | open, close, sweep |
| Sweep of dead mappers | `bin/clear_dead_mappers.c` | stale mount list, euid | visit mappers, remove the dead, remove folders, unmount dead mount points | runs before every command |
| LUKS key slots | `bin/add_key.c`, `bin/remove_key.c`, `lib/add_key.c`, `lib/remove_key.c`, `lib/empty_slots.c` | slots of the header | add, remove, last-slot check | header backup, key sources |
| Header backup and restore | `bin/save_and_restore_volume_header.c` | backup file, device header | save, restore with a question to the user | LUKS, tcplay |
| Creating volumes | `bin/create_volumes.c`, `lib/create_volume.c`, `create_luks.c`, `create_tcrypt.c`, `bin/write_device_with_junk.c` | device content, temporary mapper | check device, format, open, mkfs, close | device-mapper |
| File encryption | `bin/crypt_file.c`, `bin/file_encryption.c` | source, destination, temporary mapper | encrypt, decrypt | loop devices |
| Loop devices | `lib/create_loop_device.c` | loop devices, their backing files | attach, address, detach | open, create, file encryption |
| Lists and properties of volumes | `bin/volumes.c`, `lib/mountinfo.c`, `lib/status.c`, `zuluMount-cli/volume_status.c`, `lib/resolve_paths.c` | none of their own | print | GUI |
| Key plugins | `pluginManager/`, `utility/socket/`, `plugins/*` | socket path, key buffer | fork plugin, connect, send, receive | open, add key |
| Network key plugin | `plugins/network_key/` | client and server connection | fetch key | key plugins |
| Process library | `utility/process/process.c` | state of a child, timer thread | execute, wait, time out, delete | every helper program |
| Strings and lists | `utility/string/` | buffers, arrays | edit | everywhere |
| Wallets | `zuluSafe/`, `external_libraries/lxqt_wallet/` | wallet file, key | create, open, read, add, delete, close | GUI, keyring |
| Privileged helper | `zuluPolkit/` | socket, cookie | run a command for the GUI | GUI, process library |
| GUIs | `zuluCrypt-gui/`, `zuluMount-gui/` | table of volumes, running tasks, monitors of `/dev` and mountinfo | start commands, follow events | command line programs |
| Vendored code | `external_libraries/tcplay`, `external_libraries/tasks` | - | - | not this project's logic |

### What is hard

* **Two processes, one name or one volume.** The folder, the mapper, the mount
  and the bind mount are made by separate calls and removed by separate calls;
  each program decides from what it read earlier.
* **Stale lists.** `zuluCryptUnmountVolume()`, the sweep and
  `--clear-dead-mount-points` act on a copy of the mount list.
* **Partial failure.** An open that fails at the mount has to close the mapper,
  remove the folder and go on with the next format; a close that cannot
  deactivate the mapper has already unmounted it.
* **Privileges as state.** `zuluCryptSecurityDropElevatedPrivileges()` inside a
  loop changes what the next pass of the loop can see.
* **Crashes and devices that leave.** A process may be killed at any call, and a
  device may be unplugged with its mapper open.

## 2. Volume sessions

| Module | Models |
|---|---|
| `VolumeState` | What all processes share, what each keeps, the kernel's side of the calls, and how a step moves a process |
| `OpenVolume` | `zuluCryptEXEOpenVolume()`, `zuluCryptOpenVolume_2()`, `zuluCryptBindMountVolume()` |
| `CloseVolume` | `zuluCryptEXECloseVolume()`, `_zuluCryptBindUnmountVolume()`, `zuluCryptUnmountVolume()`, `zuluCryptCloseMapper()` |
| `ClearDeadMappers` | `zuluCryptClearDeadMappers()` and `--clear-dead-mount-points` |
| `VolumeSessions` | The three composed: processes, kills, devices; the properties |
| `MountPoints` | Abstract: who has a private mount point name |
| `MCVolumeSessions` | Values of the constants for TLC |
| `VolumeSessionsProofs` | Types, private folders, the contract of names, the sweep's verdict |
| `VolumeMappersProofs` | Extends it: where an open mapper is |
| `SeparateUsersProofs` | Extends that: whose mounts a close or a sweep takes down, any number of processes |
| `SingleCommandProofs` | Extends `VolumeSessionsProofs`: the same, with shares, commands one at a time |

### State and code

A process is a program counter and the locals its functions keep. One action is
the code from one system call another process can observe to the next.

| Variable | Code |
|---|---|
| `mapper[m]` | `/dev/mapper/zuluCrypt-<uid>-NAAN-<name>-<hash>`: absent, live, or dead when its device was removed |
| `dirs`, `mounts` | the folders under `/run/media/private/<user>` and `/run/media/public`; for each path its mounts, the visible one first |
| `seen[p]`, `todo[p]`, `left[p]` | the mount list a process holds, and what its loops have still to visit |
| `point[p]` | the folder the process will `rmdir`: `m_point` of open and close, the shared folder of `bind.c` |
| `root[p]` | is the euid 0 at the next privileged call of the sweep and the close |
| `phase[p]` | the sweep, the command, or the unmount loop of `--clear-dead-mount-points`; the close steps serve all three and return accordingly (`Leave`) |
| `refused` | history: mappers whose deactivation failed or whose process was killed, so that `NoForgottenMapper` can tell them from a mapper the code simply left |

`Images` are the devices that are image files. Each command attaches an image to a
loop device of its own, so two users can have one image open at once; a device is exclusive
(`DeviceTaken`). An image's loop device is never pulled out.

Abstractions: a path is its tree, user and last component; a mapper is its user
and device (the hash in the name makes it so); the key is right or wrong by
nondeterminism; `mount`, `umount` and `crypt_deactivate` may fail whenever they
are called, within what the code distinguishes; `sleep` and repeated calls of
the same function are one call. A bind mount of a folder whose volume has just
been unmounted shows no `/dev` line in the mount list (`Bare`).

`Formats` counts the attempts of `zuluCryptOpenVolume_2()`: LUKS once, plain
twice (sha256, then ripemd160), no type three times.

### Properties

* `PrivatePointsExclusive`: a private folder that a process has to remove
  exists, is empty, and is that process's only; at most one mount is ever made on a
  private folder.
* `NoForgottenMapper`: an unlocked volume that is mounted nowhere is in the hands
  of a process, unless its deactivation was refused or its process was killed.
* `NamesContract`: the refinement. Mapped by `Owner`, every run is a run of
  `MountPoints`: a process takes a free name, gives it to a volume or frees it.
* `OnlyDeadCondemned`, `SweepSparesLive`, `OthersMountsKept`, `ClearSparesLive`:
  action properties on what an unmounting step may take down.

### Runs

| Run | Instance | Result |
|---|---|---|
| `sessions` | 1 user, 1 device, 2 processes, open with and without share, close, kill, unplug | 661k states, holds |
| `names` | 1 user of the group `zulumount`, 2 devices, 1 name, 2 processes | 169k states, holds |
| `sweep` | 2 users of the group, a device and an image file, 2 names, untyped shared volumes, 1 process, all commands, unplug | 2.1M states (users symmetric), holds |
| `clear_live` | 1 process, open then clear | `ClearSparesLive` violated |
| `sweep_cli` | `zuluCrypt-cli`, 2 devices, unplug | `OnlyDeadCondemned` violated |
| `share_race` | 2 users, 2 devices, 1 name, 2 processes | `OthersMountsKept` violated |

Why these bounds are enough: every race of this code is between two processes
that handle one folder, one shared folder or one mapper; a third process adds no
new pair. A process that returned starts again, so runs of any length and state
left by earlier commands are covered with two processes. One name is what makes
two volumes collide. In `sweep` there is one process, whose list is old with respect
to its own earlier removals: a user can have a dead mapper of the device and a
live one of the image file, both shared, so a sweep takes the first down and
then examines the second with the old list and the privileges the removal left
it. Two users decide whose mappers it visits, and both are of the
group `zulumount`, which may take down more. What it does beside another process is
under "What does not hold". `Types` is one value per run because the type decides only
the number of attempts. `CHECK_DEADLOCK FALSE`: with no kill and no unplug in
`Faults` a system whose only process cannot start anything may stop, and nothing
is promised about starting commands.

These modules state no fairness. That a command ends is no question of this state: its
attempts are straight-line code and its loops run over finite sets, and whether
the key ever comes is a matter of `KeyPlugin`.

### What does not hold

`SweepSparesLive` is a property of one command at a time. With two processes TLC breaks it: `p1`
opens `d1`, unlocks it, and its mount fails; `p2` starts and lists the mapper;
`p1` closes the mapper, removes the folder and returns; `p2` examines the mapper,
`crypt_init_by_name()` fails as it is gone, and `p2` condemns it; a second open of `d1`
unlocks and mounts it; `p2`, in `zuluCryptUnmountVolume()`, finds the mount in the
list it reads there and unmounts it. The verdict is old, not only the list.
This is why `LiveSpared` assumes one command at a time.

### Findings

1. `clear_live`: `_unmount_dead_mount_points()` unmounts every mounted `/dev`
   path that is not a partition. Mappers never are, so healthy volumes are taken
   down, with their mappers left open. The changelog describes the option as clearing
   unused folders.
2. `sweep_cli`: the sweep of `zuluCrypt-cli` loses its privileges with the first dead
   mapper and takes the live mappers behind it for dead. `zuluMount-cli` sweeps before
   it sets the uid and is not affected (`Condemned` is proved for it).
3. `share_race`: two users who share one name at the same time stack two bind
   mounts; the first to close takes the other's down.

### Proofs

`VolumeSessionsProofs`, for all constants that satisfy `ConstantsAssumption`:

* `Typing`: `Spec => []TypeOK`. `TypeOK` alone is not inductive: a process past
  `idle` must have the kind of job its step expects (`JobInv`), or `job[p].type` means
  nothing. The step lemmas are one per source module.
* `Exclusive`: `Spec => []PrivatePointsExclusive` if `"clear"` is not in `Ops`.
  The inductive invariant `FolderInv` adds `HoldInv` (which steps a process
  can hold a folder at) and `VolumeInv` (only mappers are mounted on private
  folders). Each step is reduced to one of a few kinds of change to the folders
  (`FolderStep`), and the invariant is shown to survive each kind once. The
  assumption is needed: `RemoveFolder` removes folders from an old list.
* `Contract`: `Spec => NamesContract` under the same assumption; every kind of
  `FolderStep` maps to one step of `MountPoints`, or to none.
* `Condemned`: `Spec => OnlyDeadCondemned` if all programs are `zuluMount-cli`.
  `RootInv`: its euid is 0 through the sweep, because it drops to uid 0.

`VolumeMappersProofs`:

* `NoneForgotten`: `Spec => []NoForgottenMapper` if every device has a name of its own (`OwnNames`)
  and `"clear"` is not in `Ops`, for any number of processes. Three things are added to `FolderInv`.
  `WorkInv`: an open works on the mapper of its command line and in the folder it made for it, and
  what a close has listed on private folders are those its mapper may use. `OwnedInv`: what is mounted
  on a private folder may use it. `HeldInv`: an open mapper is on a private folder or in the
  hands of a process that mounts it or locks it.
  `OwnNames` is what the programs choose by themselves, the last component of the device's path, as
  long as two devices do not share it; `-m` can give any name. Without it the property fails, as TLC showed on an instance
  with two devices and one name: two closes of `d1` are both before their `umount`; one
  finishes, and opens `d2` under the same name; the slower one unmounts what is on that folder now,
  which is `d2`, and deactivates `d1`. The mapper of `d2` is open, mounted nowhere and in nobody's hands.

`OthersMountsKept` has two theorems, since each needs one restriction on what is run.
Two users who share one name at the same time break it (`share_race`), so either
nobody shares or commands run one at a time. Both assume that no uid is a prefix of
another (`UidPrefix` is the identity): the sweep's prefix has no separator behind the uid.

* `SeparateUsersKept` (`SeparateUsersProofs`): any number of processes, no shares, no
  `"clear"`. `TaskInv` says whose mapper a sweep or a command is at, `Unshared` that the public folders
  carry nothing. Every mount that goes is then the one on a private folder whose owner the mapper has
  too. It holds with two devices of one name: the mount taken by mistake above is the same user's.
* `OthersKept` (`SingleCommandProofs`): one process (`Alone`), shares and
  `--clear-dead-mount-points` included, with processes killed and started again. The invariant is
  that every mount is still as the list in `seen[p]` has it, or gone (`ListOK`), and that what is left to unmount
  carries the mapper that is worked on (`LeftOK`). `TakesDownItsOwn` concludes that every mount that goes is of `cur[p]`.
* `LiveSpared` (`SingleCommandProofs`): `Spec => SweepSparesLive` for one process of `zuluMount-cli`.
  With `RootInv` the sweep condemns no live mapper, `GoneInv` keeps it dead until the sweep is
  through with it, and `TakesDownItsOwn` does the rest. `zuluCrypt-cli` is left out because of `sweep_cli`.

All that a passing run checks here is proved, under these assumptions. `ClearSparesLive` does not hold.

## 3. The LUKS header: keys, backup, restore

| Module | Models |
|---|---|
| `LuksHeader` | `zuluCryptEXEAddKey()`, `zuluCryptEXERemoveKey()`, `zuluCryptEXESaveAndRestoreVolumeHeader()`, `zuluCryptHeaderMatchBackUpHeader()` and the library functions under them |
| `MCLuksHeader` | Symmetry for TLC |
| `LuksHeaderProofs` | Theorems and their proofs |

| Variable | Code |
|---|---|
| `disk` | the header on the device: what its table says of each slot, and what key material is in each slot's area |
| `file[f]` | the backup files of the users, in two parts: slot table and key areas |
| `temp["out"][p]`, `temp["in"][p]` | `/run/zuluCrypt/1-<tid>`, the header on its way out, and `0-<tid>`, a user's file on its way in |
| `pc`, `job`, `asked` | the step, the command line and what each process knows of the last key: the user typed YES, or the slots could not be seen ("blind") |
| `readonly` | the backup files that a reported save has made 0400 |
| `saved` | history: the header the last reported success at a path was about; nothing clears it |

The steps are those at which something another process or a later command can see
is read or written: the look at the slots (`zuluCryptEmptySlots()`), the change of a
slot, the opening of a path, each part of the two copies, the `chmod()` and deletion,
the restore. A call of libcryptsetup is one step. `main()` switches its metadata locks
off, and every command initialises a device of its own, so nothing holds two of these
calls together.

The two copies (`OpenOut`, `CopyOut`, `Report`; `OpenIn`, `CopyIn`) go part by part and read
their source when they come to it. Two parts are what tells apart a whole header, a part
of one, and a mixture of two: neither `_secure_copy_file()` nor `_secure_file_path()`
opens with `O_TRUNC`, so a copy goes over what was there (`WriteOver`). Both ignore what
`write()` returns: with no space left (`Written`) a part that is not there yet is not
written, nor is what follows it.

Once a save has reported success its file is 0400. A user's later save to the same path
is refused by `open()`; root's is not (`job[p].root`). The model has no other way to
change such a file: what people do to their backups with other programs is left out, and
so is a power cut, which would also lose what was written and never flushed.

A process is identified by its thread id, which names its copies. An id is used
again when its process is gone, so one element of `Procs` stands for any number of
commands one after the other, each finding what the earlier ones left.

### Properties

* `LastKeyWarned`: nobody loses the last key of a volume without having typed YES or given
  `-k`, unless the look at the slots failed. That exception is the code's:
  `_zuluCryptExECheckEmptySlots()` returns 1 when `zuluCryptEmptySlots()` fails, its caller
  asks only when it returns 3, and the removal goes on.
* `SavedIsComplete`: after `SUCCESS: Header saved successfully` the file is that header,
  and stays it whatever later saves to the same path begin, fail or are killed.
* `RestoredIsSaved`: restoring from such a file gives back that header, whatever was
  killed in between, later saves to that path included, and whatever was left in
  `/run/zuluCrypt`.

### Runs

| Run | Instance | Result |
|---|---|---|
| `header` | 1 thread id, 1 key, 2 slots, 1 path, all commands, kills, failed looks, no space in `/run/zuluCrypt` | 241k states, holds |
| `header_race` | 2 processes, 2 keys, 2 slots, add and remove | `LastKeyWarned` violated |
| `header_save` | 1 process, save, no space left | `SavedIsComplete` violated |

Why these bounds are enough. Two slots give every status the commands look at: free,
active, active and last. A volume whose header was saved and has changed since differs
in one slot, so one key already makes different headers. The path begins empty
or with another file, the two cases that not truncating tells apart; a second path
would only add saves that do not touch the first one (copies left in `/run/zuluCrypt`
already come from any earlier header). `CHECK_DEADLOCK` is on: every command can end at every step.

What `header` leaves out, and what TLC says of it when it is put in:

* `Roots = {TRUE}`: `SavedIsComplete` is violated. Save, remove a key, save to the same path
  as root and be killed after the slot table: the file has the new table over the old key
  areas. The backup that was reported good is gone; only a success at the end of the
  second save makes the file whole again.
* the fault "chmod" (a file system without owners, such as the vfat of a USB stick): the
  same, for any user.
* two processes: both open the path, one writes and reports, the other goes on writing.
  `chmod()` does not reach a file that is already open.
* the fault "full": finding 5.

### Findings

4. `header_race`: `zuluCryptEXERemoveKey()` looks at the slots, then asks for the key,
   then removes it. Two processes that both see two keys remove one each.
5. `header_save`: the result of `write()` is ignored. On a full file system the success
   message is about a file with no header in it, and the good copy is deleted.

### Proofs

`LuksHeaderProofs`, for all constants that satisfy `HeaderAssumption`, with any number of
slots, keys and paths:

* `Typing`. The strengthening `HasArgs` says which command a process at each step runs:
  without it the fields of `job[p]` that a step reads need not exist.
* `Saved`: `Spec => []SavedIsComplete` if `Procs = {q}` (commands one after the other),
  nobody saves as root, and neither "full" nor "chmod" is in `Faults`; kills may come at any
  step. The four exceptions above show that none of these can go. `SaveInv` adds:
  the copy a save writes out is a whole header (`CopyWhole`); what was reported is one
  and its file is read-only (`SavedClosed`); and who is writing has a path that is not
  read-only, with the parts written so far equal to the copy (`WritesBehind`). The last
  two together are why a killed save never touches a reported backup.
* `LastKeyKept`: `Spec => LastKeyWarned` if `Procs = {q}`: commands one after the other.
  The run `header_race` shows why that is needed. `LastAsked`: who is about to
  remove the only key was asked, or has given `-k`, or could not look.
* `Restored`: `Spec => RestoredIsSaved` under the assumptions of `Saved`; that
  `/run/zuluCrypt` may be full is allowed. `CopyIsSaved`: a copy made for a restore from a
  path in `saved` is that header as far as it got, also over what a killed process
  left, and where a part is missing it is no header and the restore refuses it.

## 4. Keys through sockets

`KeyPlugin` models `zuluCryptPluginManager.c`, the local sockets of `socket.c`, what the
plugins and `utility::keySend()` do with them, and what open and add key do with what they
get. `MCKeyPlugin` gives TLC its values, `KeyPluginProofs` has
the theorems.

| Variable | Code |
|---|---|
| `pc`, `job`, `own`, `got` | the step of a command, what it was asked for and the sockets it reads in turn, the plugin it has forked, the keys it has |
| `listening`, `queue` | the sockets somebody listens to, and the connections the kernel has accepted for them |
| `peer` | the connection the command reads from, by its sender |
| `sender[s]` | a plugin or a thread of a window: before its connection, sending, or gone; how much of the key it has sent, what it exits with, and whether its command was killed (history) |

A socket is named after the thread id of the command when it is a plugin's, so that the
element of `Procs` is its name, and at random when it is a window's, so that its sender is.
Thread ids come again: one element of `Procs` runs commands one after the other,
and a plugin whose command was killed is still there when the next one listens.
`Parts` is the number of buffers the kernel may deliver before a sender dies; `Tries` is
the ten attempts to connect; the exits before the key is asked for are one action, `Fail`.
What a plugin exits with when it has no connection is not fixed by the code, since each
plugin decides (`Retry`).

* `KeyTrusted`: the command goes on with a key only if it is its volume's, and a plugin's
  only if it is whole. End of file is all that ends a key, so this rests on
  the exit status of the plugin, which is asked for after the key was read. The one
  exception is a plugin that outlived its own command.
* `Answered`: a command whose sender has connected gets on. Nothing more can be promised:
  `SocketAccept()` has no time limit, and when the sender is gone before it connects the
  command waits for ever. `SocketAcceptWithTimeOut()` exists and is not used here.

Run `key`: one thread id, two senders, two volumes, plugins and both kinds of windows, any of them
killed at any step, `fork()` and `bind()` failing; 180k states, both hold. Two
senders are what `-a` needs, and a plugin that is left over and a new one. Two volumes make a
wrong key, two parts a partial one, two tries a sender that gives up and one that does not.
Fairness: commands and senders run, and whoever is asked for a key answers or refuses; nobody is
obliged to start a command or to fail. `CHECK_DEADLOCK FALSE`: a command that waits for a sender
that never comes is the deadlock described above.

With a window the model shows partial keys arriving: `zuluCryptGetPassFromFile()` never returns the 5
its callers test for, and no exit status is there to ask. A partial key does not open a volume,
but `-a` adds it as the new one.

### Proofs

`KeyPluginProofs`, for all constants that satisfy `KeyAssumption`, so for any number of commands, senders,
buffers and tries, with all faults: `Typing`, and `TrustedKeys`, `Spec => []KeyTrusted`.
`KeyTrusted` looks at a command at its end; the invariant `Inv` has to follow each key from its sender:

* `JobOK`, `ReadOK`: what a command at each step listens to and reads from.
* `OwnOK`: whoever may still reach the socket named after a thread id is the plugin of the command that has
  the id now, or an orphan of one that was killed. This is where `KeyTrusted` gets its exception from.
* `WindowOK`, `ReadsInv`: the threads of a window have random names, and no two commands read one socket.
* `GotOK`: what was received of a plugin is what it had sent when it was gone, and its exit status,
  asked for afterwards, tells whether that was all.
* `SenderInv`, `QueueInv`, `QuietInv`: a sender reports success after the whole key or without
  a connection; who is queued has connected; nobody listens but the commands that read.

Model-checked only: `Answered`, which is liveness.

## 5. Creating volumes

`CreateVolume` models `zuluCryptEXECreateVolume()` and `_create_volume()` together with what every
command does first, `zuluCryptGetDeviceFileProperties()`: a command on an image attaches a loop device
of its own. Opens, closes, and the plain mounts of `zuluMount-cli` are one step each here; what is mounted or
open may write to its volume at any time. The options of a LUKS2 volume may ask for integrity, and then a second
mapper is opened to wipe it (`Wipe`, `Unwipe`). `MCCreateVolume` gives TLC its values, `CreateVolumeProofs` has the theorems.

| Variable | Code |
|---|---|
| `images`, `content` | which volumes are regular files; what the header, the key slot and the file system on each volume are |
| `loop`, `fds` | the file behind each loop device and its autoclear flag; the descriptors of loop devices a process holds, those of failed tries included |
| `mapper` | `/dev/mapper/zuluCrypt-create-volume-<tid>`, `zuluCrypt-wipe-volume-<tid>` and the mapper of an open volume, with the device below; whether its key still fits what is on the volume |
| `mounted` | devices mounted without a mapper |
| `child` | mkfs: running, half done, ended; it goes on when its command is killed |
| `pc`, `job`, `dev`, `tries` | the step, the command line, the device, and the tries left to attach one |
| `left` | history: loop devices and temporary mappers that a kill or a failed call has left |
| `spoiled` | history: creations whose mkfs could not be started, or whose volume something else has written to |

The kernel's part is in `Settle` (autoclear), `Busy` (one exclusive user for a device: a mapper, a
mount; libcryptsetup formats and activates exclusively) and `GetFree` (the first device that has no file).

### Properties

* `CreatedIsWhole`: "SUCCESS" means a header or plain volume that the key opens and a whole file system,
  whether mkfs fails, hangs, is killed by the timer or by somebody. Two cases are left, those of `spoiled`. When
  `pipe()` or `fork()` fails, `create_volume.c:95` does not see it and the exit status is read from a variable that was not
  set. And an image may have been mounted or open before its creation, or have the mkfs of a killed creation:
  these write to the volume that is made.
* `OpenKept`: no creation writes over a volume that is open, nor a disk that is mounted, with one hole,
  which the property names: an image opened after the creation has looked for its mapper.
* `LoopsDetached`, `TempClosed`: no loop device and no temporary mapper, neither that of mkfs nor that of the wipe, is left, however two processes
  get and lose loop devices, but those that a kill, a failed call or a busy mapper left.
* `CommandsEnd`: a command ends, also when mkfs hangs, if mkfs has a time limit.

### Runs

| Run | Instance | Result |
|---|---|---|
| `create` | 2 processes, 3 commands, a disk or an image, 2 loop devices, LUKS and plain, kills, failing calls, a fork that fails | 442k states, holds |
| `create_mounted` | 1 process, an image, create and mount | `MountedKept` violated |

Why these bounds are enough. A creation that leaves something, a command that finds it and
a third that runs with either are three commands (`Runs`), two of them at a time. The two loop devices are
what two commands compete for, and two tries make one that fails once and one that fails for good.
The file system of the run is one with a time limit: without a limit there are the same
behaviours but for the timer's step, and only `CommandsEnd` tells them apart.
`Alone` bounds what people do: they do not create one volume twice at the same time. The code does not
keep them from it, and would not survive it (`create_luks.c:183` adds a key to a header that another process has written since).
There is one user: the mapper of another user has another name, which the check does not look for.

Fairness: the calls of a command return and people answer the question. mkfs has none: it may wait for an
answer for ever, which only its time limit ends. What is mounted or open need not write. `CHECK_DEADLOCK FALSE`: when `Runs` commands have ended nothing more happens.

### Findings

6. `create_mounted`: the check for mounts is given the loop device that the command itself has attached to the
   image, and the mount list shows images by their path, so that it never finds one.
   An image mounted by `zuluMount-cli` is formatted while it is mounted.

### Proofs

`CreateVolumeProofs`, for all constants that satisfy `CreateAssumption`, so for any number of commands,
volumes, loop devices and tries, and with every fault of the model. One invariant, `Inv`, serves all:

* `DeviceInv`: a command that works has a device with its volume below, and keeps it open if it is a
  loop device. `LoopInv`: a loop device with autoclear is used; one without is about to get the flag or is in `left`.
* `MapperInv`: a device has one mapper or one mount. `MkfsInv`: a mkfs has its mapper, also when its
  command is gone. `LateInv`: whoever opened a volume behind a creation's back is known to have.
* `AloneInv`, from the guard of `Start`: no volume is created twice at the same time.
* `WholeInv`: once the header is written no other mapper of a creation fits the volume, and what the creation has
  made of the volume so far (`MadeOK`) is there unless it is in `spoiled`. This is what `CreatedIsWhole` needs: alone it
  says nothing of the steps before "SUCCESS".

The steps of the commands and of mkfs (`Own`) are put into a few kinds (`NextCases`): a command ends, goes on, or gets its
device, and mkfs writes or stops; each part of `Inv` has a lemma over these kinds. The writes of others (`Foreign`)
change `content` and `spoiled` alone (`ForeignInv`).

From it follow `Typing`, `CreatedVolume` (`CreatedIsWhole`), `OpenVolumesKept` (`OpenKept`), `NoLoopLeft`
(`LoopsDetached`) and `TemporaryMapper` (`TempClosed`). `MapperInv` is where the kernel's rule of one exclusive
user enters, `WholeInv` where `AloneInv` is used. Model-checked only: `CommandsEnd`, which is liveness.
`MountedKept` does not hold.

## 6. What could come next

1. **MountTable**: `zuluMount-gui`'s table against the kernel's state, with reordered results of its threads.
2. **VolumeSessions**, further: the build with `REUSE_MOUNT_POINT`, prefixes of uids, tcplay's branches of
   closing and of the sweep.
3. **Algorithms**: mount list escapes, comparison of headers, option parsing, as
   recursive functions against a definition by sets.
4. **LuksHeader**, further: unbound slots, the TrueCrypt branches.

Every safety property that a passing run checks is now a theorem, under the assumptions stated
with it. What is left to prove: `PrivatePointsExclusive` with `--clear-dead-mount-points` for
one command at a time, from `AloneInv`; that no step but those of a clear and of a slower close makes
`NoForgottenMapper` fail when names are shared; and `LastKeyKept` for several processes with one remover.

## 7. Not modelled, and why

* BitLocker through dislocker, tcplay's own branches of closing and of the sweep,
  mount points under the home folder, the helpers that mount particular file
  systems: they are further cases of steps that are modelled, each with its own
  tools; the plan adds them last.
* `lib/mount_volume.c` decides file system options: string building without state.
* `utility/string`: sequential buffers, well within reach of unit tests.
* `external_libraries/tcplay` and `external_libraries/tasks`: vendored.
* File encryption: `crypt_opt()` returns before it does anything in this version.
* `zuluPolkit`: one request at a time, nothing kept in between.
* Translations, packaging, Qt forms: no behaviour.
