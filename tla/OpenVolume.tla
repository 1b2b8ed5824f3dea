----------------------------- MODULE OpenVolume -----------------------------
(***************************************************************************)
(* zuluCryptEXEOpenVolume(): one process creates the mount point, checks   *)
(* the paths it needs, gets the key, unlocks the volume, mounts it and,    *)
(* when asked to, binds it under /run/media/public.  Every exit after the  *)
(* folder was created goes through zuluExit_1(), which removes it.         *)
(***************************************************************************)
EXTENDS VolumeState

\* Formats tried in turn: a LUKS volume is tried once, a plain one twice, a
\* volume whose type is not given as plain, plain again, and TrueCrypt
Formats == [luks |-> 1, plain |-> 2, auto |-> 3]
Attempts(p) == Formats[job[p].type]

Folder(p) == Private(job[p].user, job[p].name)

\* mutant: a folder that is there already is used again
CreateOrReuseMountPoint(p) ==
    /\ pc[p] = "mkdir"
    /\ dirs' = dirs \cup {Folder(p)}
    /\ point' = [point EXCEPT ![p] = Folder(p)]
    /\ Goto(p, IF job[p].share THEN "taken" ELSE "stat")
    /\ UNCHANGED <<mapper, present, mounts, refused>>
    /\ UNCHANGED <<job, phase, root, seen, todo, left, cur, try, rc>>

\* Mount options or device rejected before anything is created, or no folder
\* could be made; mkdir() is what keeps two processes off one name
CreateMountPoint(p) ==
    /\ pc[p] = "mkdir"
    /\ \/ \E code \in {5, 6} : Exit(p, code) /\ UNCHANGED dirs
       \/ Folder(p) \in dirs /\ Exit(p, 9) /\ UNCHANGED dirs
       \/ /\ Folder(p) \notin dirs
          /\ DeviceOf(cur[p]) \in present
          /\ dirs' = dirs \cup {Folder(p)}
          /\ point' = [point EXCEPT ![p] = Folder(p)]
          /\ Goto(p, IF job[p].share THEN "taken" ELSE "stat")
          /\ UNCHANGED <<job, phase, root, seen, todo, left, cur, try, rc>>
    /\ UNCHANGED <<mapper, present, mounts, refused>>

\* leave through zuluExit_1() with this exit status
Fail(p, code) ==
    /\ Goto(p, "undo")
    /\ rc' = [rc EXCEPT ![p] = code]

CheckSharedPath(p) ==
    /\ pc[p] = "taken"
    /\ \/ Public(job[p].name) \in dirs /\ Fail(p, 10)
       \/ Public(job[p].name) \notin dirs /\ Goto(p, "stat") /\ UNCHANGED rc
    /\ UNCHANGED <<kernel, refused, job, phase, root, seen, todo, left, cur, point, try>>

CheckMapper(p) ==
    /\ pc[p] = "stat"
    /\ \/ mapper[cur[p]] # "absent" /\ Fail(p, 11)
       \/ mapper[cur[p]] = "absent" /\ Goto(p, "key") /\ UNCHANGED rc
    /\ UNCHANGED <<kernel, refused, job, phase, root, seen, todo, left, cur, point, try>>

\* A plugin, a terminal, an argument or a key file gives the key, or none
GetKey(p) ==
    /\ pc[p] = "key"
    /\ \/ Fail(p, 12) /\ UNCHANGED try
       \/ Goto(p, "unlock") /\ try' = [try EXCEPT ![p] = 1] /\ UNCHANGED rc
    /\ UNCHANGED <<kernel, refused, job, phase, root, seen, todo, left, cur, point>>

\* mutant: one format too many
NextAttemptOneMore(p, code) ==
    \/ /\ try[p] <= Attempts(p)
       /\ Goto(p, "unlock")
       /\ try' = [try EXCEPT ![p] = @ + 1]
       /\ UNCHANGED rc
    \/ try[p] > Attempts(p) /\ Fail(p, code) /\ UNCHANGED try

\* The attempt ended with this code: go on with the next format, if any, or
\* report it.  The last format of an untyped volume reports 4 whatever happened
NextAttempt(p, code) ==
    \/ /\ try[p] < Attempts(p)
       /\ Goto(p, "unlock")
       /\ try' = [try EXCEPT ![p] = @ + 1]
       /\ UNCHANGED rc
    \/ /\ try[p] >= Attempts(p)
       /\ Fail(p, IF job[p].type = "auto" THEN 4 ELSE code)
       /\ UNCHANGED try

\* zuluCryptOpenVolume_0() up to the unlocking of the volume
Unlock(p) ==
    /\ pc[p] = "unlock"
    /\ LET m == cur[p] IN
       \/ /\ DeviceOf(m) \notin present
          /\ NextAttempt(p, 3) /\ UNCHANGED mapper
       \/ /\ DeviceOf(m) \in present
          /\ mapper[m] # "absent"
          /\ NextAttempt(p, 2) /\ UNCHANGED mapper
       \/ /\ DeviceOf(m) \in present
          /\ mapper[m] = "absent"
          /\ NextAttempt(p, 4) /\ UNCHANGED mapper
       \/ /\ DeviceOf(m) \in present
          /\ mapper[m] = "absent"
          /\ ~DeviceTaken(DeviceOf(m))
          /\ mapper' = [mapper EXCEPT ![m] = "live"]
          /\ Goto(p, "mount")
          /\ UNCHANGED <<try, rc>>
    /\ UNCHANGED <<present, dirs, mounts, refused>>
    /\ UNCHANGED <<job, phase, root, seen, todo, left, cur, point>>

\* mutant: a failed mount leaves the mapper open
MountOrWalkAway(p) ==
    /\ pc[p] = "mount"
    /\ NextAttempt(p, 4)
    /\ UNCHANGED <<kernel, refused, job, phase, root, seen, todo, left, cur, point>>

\* _mount_volume(): the file system is mounted on the folder, or is not and
\* the mapper has to be closed again.  rc holds the code of the failed mount
Mount(p) ==
    /\ pc[p] = "mount"
    /\ \/ /\ mapper[cur[p]] = "live"
          /\ point[p] \in dirs
          /\ MountOn(point[p], cur[p])
          /\ IF job[p].share
               THEN /\ Goto(p, "bind")
                    /\ point' = [point EXCEPT ![p] = NoPoint]
                    /\ UNCHANGED <<job, phase, root, seen, todo, left, cur, try, rc>>
               ELSE Exit(p, 0)
       \/ /\ Goto(p, "abort")
          /\ \E code \in {4, 20, 21} : rc' = [rc EXCEPT ![p] = code]
          /\ UNCHANGED <<mounts, job, phase, root, seen, todo, left, cur, point, try>>
    /\ UNCHANGED <<mapper, present, dirs, refused>>

\* zuluCryptCloseMapper() after a failed mount, its result ignored
CloseMapperAgain(p) ==
    /\ pc[p] = "abort"
    /\ \/ /\ mapper[cur[p]] = "absent"
          /\ UNCHANGED <<mapper, refused>>
       \/ /\ mapper[cur[p]] # "absent"
          /\ ~InUse(cur[p])
          /\ mapper' = [mapper EXCEPT ![cur[p]] = "absent"]
          /\ refused' = refused \ {cur[p]}
       \/ /\ mapper[cur[p]] # "absent"
          /\ refused' = refused \cup {cur[p]}
          /\ UNCHANGED mapper
    /\ NextAttempt(p, rc[p])
    /\ UNCHANGED <<present, dirs, mounts>>
    /\ UNCHANGED <<job, phase, root, seen, todo, left, cur, point>>

\* zuluExit_1() : the folder goes, the exit status stays
Undo(p) ==
    /\ pc[p] = "undo"
    /\ Rmdir(point[p])
    /\ Exit(p, rc[p])
    /\ UNCHANGED <<mapper, present, mounts, refused>>

\* zuluCryptBindMountVolume() : the mount list is read, then the shared folder
\* is looked at, made if it is not there, and left alone if the list has it
Share(p) ==
    LET pub == Public(job[p].name) IN
    /\ pc[p] = "bind"
    /\ \/ /\ pub \in dirs
          /\ IsListed(pub, mounts)
          /\ Exit(p, 0)
          /\ UNCHANGED dirs
       \/ /\ pub \in dirs
          /\ ~IsListed(pub, mounts)
          /\ Goto(p, "bindmount")
          /\ UNCHANGED <<dirs, job, phase, root, seen, todo, left, cur, point, try, rc>>
       \/ /\ pub \notin dirs
          /\ dirs' = dirs \cup {pub}
          /\ Goto(p, "bindmount")
          /\ point' = [point EXCEPT ![p] = pub]
          /\ UNCHANGED <<job, phase, root, seen, todo, left, cur, try, rc>>
    /\ UNCHANGED <<mapper, present, mounts, refused>>

\* What a bind mount of the folder shows : its visible mount, or the folder
Visible(pt) == IF mounts[pt] = <<>> THEN Bare ELSE Head(mounts[pt])

\* The open reports success whether the bind mount works or not
BindMount(p) ==
    LET pub == Public(job[p].name) IN
    /\ pc[p] = "bindmount"
    /\ \/ /\ Folder(p) \in dirs
          /\ pub \in dirs
          /\ MountOn(pub, Visible(Folder(p)))
          /\ UNCHANGED dirs
       \/ /\ point[p] = pub
          /\ Rmdir(pub)
          /\ UNCHANGED mounts
       \/ /\ point[p] # pub
          /\ UNCHANGED <<dirs, mounts>>
    /\ Exit(p, 0)
    /\ UNCHANGED <<mapper, present, refused>>

OpenStep(p) ==
    \/ CreateMountPoint(p) \/ CheckSharedPath(p) \/ CheckMapper(p) \/ GetKey(p)
    \/ Unlock(p) \/ Mount(p) \/ CloseMapperAgain(p) \/ Undo(p)
    \/ Share(p) \/ BindMount(p)
=============================================================================
