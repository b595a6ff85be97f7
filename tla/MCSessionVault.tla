--------------------------- MODULE MCSessionVault ---------------------------
(***************************************************************************)
(* Small instances of SessionVault for TLC.                                *)
(***************************************************************************)
EXTENDS SessionVault, TLC

\* Requests of one kind, subjects, cookies and keys are interchangeable.  Used
\* only for invariants and for what is checked step by step, never for liveness.
Symmetry == Permutations(Puts) \cup Permutations(Uses)
              \cup Permutations(Subjects) \cup Permutations(Cookies)
              \cup Permutations(Keys)
=============================================================================
