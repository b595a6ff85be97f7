--------------------------- MODULE MCProfileCache ---------------------------
(***************************************************************************)
(* Small instances of ProfileCache for TLC.                                *)
(***************************************************************************)
EXTENDS ProfileCache, TLC

\* Requests are interchangeable.  Not used with temporal properties.
Symmetry == Permutations(Requests)
=============================================================================
