---------------------------- MODULE ProfileMapping ----------------------------
(***************************************************************************)
(* From LinkedIn's section pages to the profile that is published: what    *)
(* _fetch_section records of each page (app/linkedin/client.py) and what   *)
(* map_profile makes of it (app/mapping/profile.py).  A contract field is  *)
(* published whole or named in partial[], never short.                     *)
(*                                                                         *)
(* An entry is its place in the member's own list.  A page carries the     *)
(* first entries of the list, as many as a page holds, and a total it      *)
(* states is the list's length; or, whatever the member has, it carries    *)
(* none with a 200, as LinkedIn once did of a list of three.               *)
(***************************************************************************)
EXTENDS Integers, Sequences, FiniteSets, SequencesExt

CONSTANTS
  Fields,             \* CONTRACT_FIELDS, in order
  Sections,           \* the fields a section fetch fills: SECTION_FIELDS
  SECTION_PAGE_SIZE,
  MaxEntries,         \* bound: entries a member has in one section
  NotStated           \* what is not stated: a total, the count of a failed fetch

ASSUME FieldsAssumption ==
  /\ Fields \in Seq(Range(Fields))
  /\ IsInjective(Fields)
  /\ Sections \subseteq Range(Fields)
ASSUME PageAssumption == SECTION_PAGE_SIZE \in Nat \ {0} /\ MaxEntries \in Nat
ASSUME NotStatedAssumption == NotStated \notin Nat

CoreFields == Range(Fields) \ Sections
EMPLOYMENT_TYPE_PATH == "experience.employment_type"
ASSUME PathAssumption == EMPLOYMENT_TYPE_PATH \notin Range(Fields)

VARIABLES
  member,     \* what LinkedIn has and answers, per section
  broken,     \* core fields whose mapper raises on this profile
  fetched,    \* RawProfile.sections
  at,         \* the field _map is at
  profile,    \* MappedProfile.profile: the keys set so far
  partial     \* MappedProfile.partial, the degraded paths included

vars == <<member, broken, fetched, at, profile, partial>>

\* An element of a page: readable; readable but for an employment type that
\* resolves to nothing; an entity with no readable content; a reference
\* included does not deliver; a reference that is no string; an entity the
\* mapper raises on.
Slot == {"entry", "untyped", "blank", "undelivered", "nameless", "odd"}

\* How the page is told: *elements, LinkedIn's plain form of the empty list,
\* a list of inline objects, or no collection at all; or the call failed.
Form == {"starred", "plain", "inline", "other", "failed"}

Least(a, b) == IF a <= b THEN a ELSE b

Page(entries) ==
  [entries : {entries},
   slots : [1 .. Least(entries, SECTION_PAGE_SIZE) -> Slot] \cup {<<>>},
   total : {entries, 0, NotStated}, form : Form]

Pages ==
  {p \in UNION {Page(n) : n \in 0 .. MaxEntries} :
     /\ p.form \in {"plain", "other", "failed"} \/ p.total = 0 => p.slots = <<>>
     /\ p.form = "inline" => /\ p.slots # <<>>
                             /\ \A i \in DOMAIN p.slots : p.slots[i] = "entry"}

Failed == [ok |-> FALSE, count |-> NotStated]

SectionFetch ==
  {Failed} \cup
  [ok : {TRUE}, count : 0 .. SECTION_PAGE_SIZE,
   total : 0 .. MaxEntries \cup {NotStated}, slots : Seq(Slot)]

TypeOK ==
  /\ member \in [Sections -> Pages]
  /\ broken \subseteq CoreFields
  /\ DOMAIN fetched \subseteq Sections
  /\ \A s \in DOMAIN fetched : fetched[s] \in SectionFetch
  /\ at \in 1 .. Len(Fields) + 1
  /\ DOMAIN profile \subseteq Range(Fields)
  /\ \A s \in DOMAIN profile \cap Sections : profile[s] \in Seq(1 .. MaxEntries)
  /\ partial \subseteq Range(Fields) \cup {EMPLOYMENT_TYPE_PATH}

Init ==
  /\ member \in [Sections -> Pages]
  /\ broken \in SUBSET CoreFields
  /\ fetched = <<>>
  /\ at = 1
  /\ profile = <<>>
  /\ partial = {}

\* f with one key set, as a dict's; TLC's @@ by its definition.
With(f, key, value) ==
  [k \in DOMAIN f \cup {key} |-> IF k = key THEN value ELSE f[k]]

-----------------------------------------------------------------------------
(* The client *)

\* Mutant: the predicate as it was until LinkedIn's empty form was measured.
IsStarred(p) == p.form = "starred"

\* is_collection_envelope: the starred list, or the plain one if it is empty.
IsCollection(p) == p.form \in {"starred", "plain"}

\* element_urns: the references that are strings.
Named(p) == {i \in DOMAIN p.slots : p.slots[i] # "nameless"}

\* What is recorded of a page: its elements and what the mapper checks them by.
SectionOf(p) ==
  IF p.form # "failed" /\ IsCollection(p)
  THEN [ok |-> TRUE, count |-> Cardinality(Named(p)), total |-> p.total,
        slots |-> p.slots]
  ELSE Failed

\* _fetch_section; the five calls end in any order.
FetchSection(s) ==
  /\ s \notin DOMAIN fetched
  /\ fetched' = With(fetched, s, SectionOf(member[s]))
  /\ UNCHANGED <<member, broken, at, profile, partial>>

\* Mutant: a page without a total is complete.
LooksTruncatedIfTold(f) == f.total # NotStated /\ f.total > f.count

\* _looks_truncated: LinkedIn says there are more, or does not say and the
\* page is exactly full.
LooksTruncated(f) ==
  IF f.total # NotStated THEN f.total > f.count ELSE f.count >= SECTION_PAGE_SIZE

-----------------------------------------------------------------------------
(* The mapper *)

\* The references that come back with their entity.
Delivered(f) == {i \in DOMAIN f.slots : f.slots[i] \notin {"nameless", "undelivered"}}

\* resolve_elements: those that the page delivers, in the list's order; the
\* k-th is the one with k of them up to it.
Resolved(f) ==
  LET there == Delivered(f) IN
  [k \in 1 .. Cardinality(there) |->
     CHOOSE i \in there : Cardinality(there \cap (1 .. i)) = k]

\* The entry mappers: nothing readable, or an exception, costs the section.
Mappable(f) == \A i \in DOMAIN f.slots : f.slots[i] \notin {"blank", "odd"}

\* _map_section: the section can be read, every entry maps, and there are as
\* many as LinkedIn named.
Publishable(f) ==
  /\ f.ok
  /\ ~LooksTruncated(f)
  /\ Mappable(f)
  /\ Len(Resolved(f)) >= f.count

Degraded(s, f) ==
  IF s = "experience" /\ \E i \in DOMAIN f.slots : f.slots[i] = "untyped"
  THEN {EMPLOYMENT_TYPE_PATH} ELSE {}

Fetched == DOMAIN fetched = Sections

\* Mutant: what a section collected is reported even if it is not published.
MapSectionKeepingPaths(s) ==
  LET f == fetched[s] IN
  /\ IF Publishable(f)
     THEN /\ profile' = With(profile, s, Resolved(f))
          /\ partial' = partial \cup Degraded(s, f)
     ELSE /\ partial' = partial \cup {s} \cup
               (IF f.ok THEN Degraded(s, f) ELSE {})
          /\ UNCHANGED profile

MapSection(s) ==
  LET f == fetched[s] IN
  /\ IF Publishable(f)
     THEN /\ profile' = With(profile, s, Resolved(f))
          /\ partial' = partial \cup Degraded(s, f)
     ELSE /\ partial' = partial \cup {s}
          /\ UNCHANGED profile

\* field(): a mapper that raises costs its own field.
MapCore(name) ==
  IF name \in broken
  THEN partial' = partial \cup {name} /\ UNCHANGED profile
  ELSE profile' = With(profile, name, "value") /\ UNCHANGED partial

MapField ==
  /\ Fetched
  /\ at <= Len(Fields)
  /\ IF Fields[at] \in Sections THEN MapSection(Fields[at]) ELSE MapCore(Fields[at])
  /\ at' = at + 1
  /\ UNCHANGED <<member, broken, fetched>>

Next ==
  \/ \E s \in Sections : FetchSection(s)
  \/ MapField

Spec == Init /\ [][Next]_vars

-----------------------------------------------------------------------------
(* Properties *)

Done == at = Len(Fields) + 1

\* No total was stated and a reference was no string: the one page of which
\* fewer elements are counted than the list has.
CountsShort(p) ==
  p.total = NotStated /\ \E i \in DOMAIN p.slots : p.slots[i] = "nameless"

\* The page says that there is none, and nothing in it says otherwise: of a
\* list of three as of an empty one.  The code takes LinkedIn at its word.
SaysNone(p) == p.slots = <<>> /\ p.total \in {0, NotStated}

\* A section that is published is the member's whole list, in LinkedIn's
\* order, or [] where LinkedIn said that there is none: never a list that is
\* short of an entry that was on another page, referenced and not delivered,
\* or unreadable, and never [] of a page with an element or a total in it.
PublishedIsWhole ==
  \A s \in DOMAIN profile \cap Sections :
    ~CountsShort(member[s]) =>
      profile[s] = IF SaysNone(member[s]) THEN <<>>
                   ELSE [i \in 1 .. member[s].entries |-> i]

\* All of the member's list came back, was readable, and LinkedIn said so.
Whole(p) ==
  /\ p.form \in {"starred", "plain"}
  /\ Len(p.slots) = p.entries
  /\ \A i \in DOMAIN p.slots : p.slots[i] \in {"entry", "untyped"}
  /\ p.total # NotStated \/ p.entries < SECTION_PAGE_SIZE

\* What is readable is published, whatever happens to the other fields: one
\* bad entity costs its section and one bug its field, and a member who has
\* none of something is not one whose list could not be read.
ReadableIsPublished ==
  Done =>
    /\ \A s \in Sections : Whole(member[s]) => s \in DOMAIN profile
    /\ CoreFields \ broken \subseteq DOMAIN profile

\* partial[] is exact: every contract field is a key of the profile or named
\* there, and never both; and the one dotted path is there exactly when the
\* experience list is published and an entry of it lacks the employment type
\* LinkedIn referenced, never for a list that was given up half way.
PartialIsExact ==
  Done => partial =
    (Range(Fields) \ DOMAIN profile) \cup
    {d \in {EMPLOYMENT_TYPE_PATH} :
       /\ "experience" \in DOMAIN profile \cap Sections
       /\ \E i \in DOMAIN member["experience"].slots :
            member["experience"].slots[i] = "untyped"}
=============================================================================
