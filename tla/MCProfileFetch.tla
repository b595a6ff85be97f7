--------------------------- MODULE MCProfileFetch ---------------------------
(***************************************************************************)
(* Small instances of ProfileFetch for TLC.                                *)
(***************************************************************************)
EXTENDS ProfileFetch, TLC
=============================================================================
