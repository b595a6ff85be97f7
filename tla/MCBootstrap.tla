----------------------------- MODULE MCBootstrap -----------------------------
(***************************************************************************)
(* Small instances of Bootstrap for TLC.                                   *)
(***************************************************************************)
EXTENDS Bootstrap, TLC
=============================================================================
