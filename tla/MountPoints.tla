---------------------------- MODULE MountPoints ----------------------------
(***************************************************************************)
(* What a mount point folder under /run/media/private is to the processes  *)
(* that use it: a name that one process, or one mounted volume, has at a   *)
(* time.  A process takes a free name, gives it to the volume it mounts    *)
(* there or frees it again; who unmounts the volume has the name back, and *)
(* frees it.  A process that stops half way leaves the name taken, and so  *)
(* does an unmount of one mount of several; nothing but                    *)
(* --clear-dead-mount-points, which is not part of this contract, frees    *)
(* the name again.                                                         *)
(***************************************************************************)
CONSTANTS Points, Procs, Volumes

VARIABLE owner   \* [Points -> who has the name]

Free == [kind |-> "free"]
Left == [kind |-> "left"]
Process(p) == [kind |-> "process", proc |-> p]
Volume(m) == [kind |-> "volume", vol |-> m]

Init == owner = [pt \in Points |-> Free]

Change(pt, from, to) == owner[pt] = from /\ owner' = [owner EXCEPT ![pt] = to]

Take(p, pt) == Change(pt, Free, Process(p))
Give(p, pt, m) == Change(pt, Process(p), Volume(m))
TakeBack(p, pt, m) == Change(pt, Volume(m), Process(p))
Release(p, pt) == Change(pt, Process(p), Free)
Abandon(p, pt) == Change(pt, Process(p), Left)
Disown(pt, m) == Change(pt, Volume(m), Left)

Next == \E p \in Procs, pt \in Points :
            \/ Take(p, pt) \/ Release(p, pt) \/ Abandon(p, pt)
            \/ \E m \in Volumes :
                 Give(p, pt, m) \/ TakeBack(p, pt, m) \/ Disown(pt, m)

Spec == Init /\ [][Next]_owner
=============================================================================
