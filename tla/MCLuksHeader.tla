---------------------------- MODULE MCLuksHeader ----------------------------
(***************************************************************************)
(* LuksHeader for TLC: model values only, given in header*.cfg.  The       *)
(* processes are interchangeable in the run with two of them.              *)
(***************************************************************************)
EXTENDS LuksHeader, TLC

Perms == Permutations(Procs)
=============================================================================
