--------------------------- MODULE MCCreateVolume ---------------------------
(***************************************************************************)
(* CreateVolume for TLC: model values only, given in create*.cfg.          *)
(***************************************************************************)
EXTENDS CreateVolume, TLC
=============================================================================
