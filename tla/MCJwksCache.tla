----------------------------- MODULE MCJwksCache -----------------------------
(***************************************************************************)
(* Small instances of JwksCache for TLC.                                   *)
(***************************************************************************)
EXTENDS JwksCache, TLC

\* Threads are interchangeable, kids too.  Not used with liveness properties.
Symmetry == Permutations(Threads) \cup Permutations(Kids)
=============================================================================
