---------------------------- MODULE MCKeyPlugin ----------------------------
(***************************************************************************)
(* KeyPlugin for TLC: model values only, given in key*.cfg.                *)
(***************************************************************************)
EXTENDS KeyPlugin, TLC
=============================================================================
