--------------------------- MODULE MCProfileMapping ---------------------------
(* Two core fields around two sections, one of which has the sub-field; one   *)
(* entry more than a page holds.                                              *)
EXTENDS ProfileMapping

MCFields == <<"name", "experience", "skills", "images">>

\* resolve_elements as it is written, one reference after the other: the
\* list's places without those that do not come back.
Filtered(f) ==
  SelectSeq([i \in DOMAIN f.slots |-> i], LAMBDA i : i \in Delivered(f))

\* Resolved is that list, for every page of up to four references.
ASSUME ResolvedIsFiltered ==
  \A n \in 0 .. 4 : \A slots \in [1 .. n -> Slot] :
    Resolved([slots |-> slots]) = Filtered([slots |-> slots])
=============================================================================
