------------------------- MODULE MCProfileEndpoint -------------------------
(***************************************************************************)
(* Small instances of ProfileEndpoint for TLC.                             *)
(***************************************************************************)
EXTENDS ProfileEndpoint, TLC
=============================================================================
