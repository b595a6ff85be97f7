------------------------- MODULE ProfileMappingProofs -------------------------
(***************************************************************************)
(* Theorems about ProfileMapping, for every list of contract fields, every *)
(* page size and lists of any length.                                      *)
(***************************************************************************)
EXTENDS ProfileMapping, FiniteSetTheorems, TLAPS

\* The fields _map has been through.
Mapped == {Fields[i] : i \in 1 .. at - 1}

-----------------------------------------------------------------------------
(* What a page can be, and what is made of it *)

\* A page in parts.
LEMMA PageFacts ==
  ASSUME NEW p \in Pages
  PROVE  /\ p.entries \in 0 .. MaxEntries
         /\ p.slots \in Seq(Slot)
         /\ Len(p.slots) \in {0, Least(p.entries, SECTION_PAGE_SIZE)}
         /\ DOMAIN p.slots = 1 .. Len(p.slots)
         /\ p.total \in {p.entries, 0, NotStated}
         /\ p.total = 0 => p.slots = <<>>
<1>1. PICK n \in 0 .. MaxEntries : p \in Page(n)
  BY DEF Pages
<1>2. /\ p.entries = n /\ p.total \in {n, 0, NotStated}
      /\ p.slots \in [1 .. Least(n, SECTION_PAGE_SIZE) -> Slot] \cup {<<>>}
  BY <1>1 DEF Page
<1>3. Least(n, SECTION_PAGE_SIZE) \in Nat
  BY PageAssumption DEF Least
<1>4. p.total = 0 => p.slots = <<>>
  BY DEF Pages
<1>5. /\ p.slots \in Seq(Slot)
      /\ Len(p.slots) \in {0, Least(n, SECTION_PAGE_SIZE)}
      /\ DOMAIN p.slots = 1 .. Len(p.slots)
  <2>1. CASE p.slots = <<>>
    BY <2>1
  <2>2. CASE p.slots \in [1 .. Least(n, SECTION_PAGE_SIZE) -> Slot]
    <3> DEFINE m == Least(n, SECTION_PAGE_SIZE)
    <3>1. m \in Nat /\ p.slots \in [1 .. m -> Slot]
      BY <1>3, <2>2
    <3> HIDE DEF m
    <3>2. p.slots \in Seq(Slot) /\ Len(p.slots) = m /\ DOMAIN p.slots = 1 .. Len(p.slots)
      BY <3>1
    <3> QED BY <3>2 DEF m
  <2> QED BY <1>2, <2>1, <2>2
<1> QED BY <1>2, <1>4, <1>5

\* A section that could be read came back as the page that LinkedIn has.
LEMMA SectionFacts ==
  ASSUME NEW p
  PROVE  LET f == SectionOf(p) IN
         /\ f.ok \in BOOLEAN
         /\ f.ok <=> p.form # "failed" /\ IsCollection(p)
         /\ f.ok => /\ f.count = Cardinality(Named(p))
                    /\ f.total = p.total /\ f.slots = p.slots
BY DEF SectionOf, Failed

\* The references of a page, and those of them that are strings and that are
\* delivered.
LEMMA References ==
  ASSUME NEW p \in Pages, SectionOf(p).ok
  PROVE  LET n == Len(p.slots)
             there == Delivered(SectionOf(p)) IN
         /\ n \in Nat /\ n <= p.entries /\ n <= SECTION_PAGE_SIZE
         /\ Named(p) \subseteq 1 .. n
         /\ there \subseteq Named(p)
         /\ IsFiniteSet(Named(p)) /\ IsFiniteSet(there)
         /\ Cardinality(Named(p)) \in 0 .. n
         /\ Cardinality(there) \in 0 .. Cardinality(Named(p))
         /\ Cardinality(there) = Cardinality(Named(p)) => there = Named(p)
         /\ Cardinality(Named(p)) = n => Named(p) = 1 .. n
<1> DEFINE n == Len(p.slots)
           there == Delivered(SectionOf(p))
<1>1. n \in Nat /\ n <= p.entries /\ n <= SECTION_PAGE_SIZE /\ DOMAIN p.slots = 1 .. n
  BY PageFacts, PageAssumption DEF Least
<1>2. Named(p) \subseteq 1 .. n
  BY <1>1 DEF Named
<1>3. there \subseteq Named(p)
  BY SectionFacts DEF Delivered, Named
<1>4. IsFiniteSet(1 .. n) /\ Cardinality(1 .. n) = n
  BY <1>1, FS_Interval
<1> HIDE DEF n, there
<1>5. /\ IsFiniteSet(Named(p)) /\ Cardinality(Named(p)) <= n
      /\ Cardinality(Named(p)) = n => Named(p) = 1 .. n
  BY <1>2, <1>4, FS_Subset
<1>6. /\ IsFiniteSet(there) /\ Cardinality(there) <= Cardinality(Named(p))
      /\ Cardinality(there) = Cardinality(Named(p)) => there = Named(p)
  BY <1>3, <1>5, FS_Subset
<1>7. Cardinality(Named(p)) \in Nat /\ Cardinality(there) \in Nat
  BY <1>5, <1>6, FS_CardinalityType
<1> QED BY <1>1, <1>2, <1>3, <1>5, <1>6, <1>7 DEF n, there

\* Members of a set of places are told apart by how many are up to them, and
\* every number up to the set's size is some member's.
LEMMA Places ==
  ASSUME NEW n \in Nat, NEW S \in SUBSET (1 .. n), NEW k \in 1 .. Cardinality(S)
  PROVE  \E i \in S : Cardinality(S \cap (1 .. i)) = k
<1> DEFINE up(i) == Cardinality(S \cap (1 .. i))
           place == [i \in S |-> up(i)]
           numbers == 1 .. Cardinality(S)
<1>1. IsFiniteSet(S)
  <2>1. IsFiniteSet(1 .. n)
    BY FS_Interval
  <2> QED BY <2>1, FS_Subset
<1>2. \A i \in S : /\ IsFiniteSet(S \cap (1 .. i))
                   /\ up(i) \in Nat /\ up(i) <= Cardinality(S)
  BY <1>1, FS_Intersection, FS_CardinalityType
<1>3. \A i \in S : up(i) # 0
  <2> SUFFICES ASSUME NEW i \in S PROVE up(i) # 0
    OBVIOUS
  <2>1. i \in S \cap (1 .. i)
    OBVIOUS
  <2> QED BY <1>2, <2>1, FS_EmptySet
<1>4. \A i, j \in S : i < j => up(i) # up(j)
  <2> SUFFICES ASSUME NEW i \in S, NEW j \in S, i < j PROVE up(i) # up(j)
    OBVIOUS
  <2>1. S \cap (1 .. i) \subseteq S \cap (1 .. j)
    OBVIOUS
  <2>2. j \in S \cap (1 .. j) /\ j \notin S \cap (1 .. i)
    OBVIOUS
  <2> QED BY <1>2, <2>1, <2>2, FS_Subset
<1>5. Cardinality(S) \in Nat
  BY <1>1, FS_CardinalityType
<1>6. \A i \in S : up(i) \in numbers
  BY <1>2, <1>3, <1>5
<1>7. \A i, j \in S : up(i) = up(j) => i = j
  BY <1>4
<1>8. place \in Injection(S, numbers)
  BY <1>6, <1>7 DEF Injection, IsInjective
<1>9. IsFiniteSet(numbers) /\ Cardinality(numbers) = Cardinality(S)
  BY <1>5, FS_Interval
<1>10. place \in Surjection(S, numbers)
  BY <1>8, <1>9, FS_Injection
<1> QED BY <1>10 DEF Surjection

\* A list of a length, as a function.
LEMMA AsSequence ==
  ASSUME NEW n \in Nat, NEW S, NEW f \in [1 .. n -> S]
  PROVE  f \in Seq(S) /\ Len(f) = n
OBVIOUS

\* What is resolved are the places that are delivered, each once, in order.
LEMMA ResolvedPlaces ==
  ASSUME NEW p \in Pages, SectionOf(p).ok
  PROVE  LET f == SectionOf(p) IN
         /\ DOMAIN Resolved(f) = 1 .. Cardinality(Delivered(f))
         /\ Len(Resolved(f)) = Cardinality(Delivered(f))
         /\ Resolved(f) \in Seq(1 .. MaxEntries)
         /\ \A k \in DOMAIN Resolved(f) :
              /\ Resolved(f)[k] \in Delivered(f)
              /\ Cardinality(Delivered(f) \cap (1 .. Resolved(f)[k])) = k
<1> DEFINE f == SectionOf(p)
           there == Delivered(f)
           size == Cardinality(there)
<1>1. /\ size \in Nat /\ there \subseteq 1 .. Len(p.slots)
      /\ Len(p.slots) \in Nat /\ Len(p.slots) <= p.entries
  BY References, PageFacts
<1>2. p.entries \in 0 .. MaxEntries /\ MaxEntries \in Nat
  BY PageFacts, PageAssumption
<1>3. there \subseteq 1 .. MaxEntries
  BY <1>1, <1>2
<1>4. DOMAIN Resolved(f) = 1 .. size
  BY DEF Resolved
<1> DEFINE kth(k) == CHOOSE i \in there : Cardinality(there \cap (1 .. i)) = k
<1>5. Resolved(f) = [k \in 1 .. size |-> kth(k)]
  BY DEF Resolved
<1>6. ASSUME NEW k \in 1 .. size
      PROVE  kth(k) \in there /\ Cardinality(there \cap (1 .. kth(k))) = k
  <2>1. \E i \in there : Cardinality(there \cap (1 .. i)) = k
    BY <1>1, Places
  <2> HIDE DEF there
  <2> QED BY <2>1
<1> HIDE DEF f, there, size, kth
<1>7. Resolved(f) \in [1 .. size -> 1 .. MaxEntries]
  BY <1>3, <1>5, <1>6
<1>8. Resolved(f) \in Seq(1 .. MaxEntries) /\ Len(Resolved(f)) = size
  BY <1>1, <1>7, AsSequence
<1> QED BY <1>4, <1>5, <1>6, <1>8 DEF f, there, size

\* Nothing is missing: the list is that of all places.
LEMMA ResolvedAll ==
  ASSUME NEW p \in Pages, SectionOf(p).ok, NEW n \in Nat,
         Delivered(SectionOf(p)) = 1 .. n
  PROVE  Resolved(SectionOf(p)) = [i \in 1 .. n |-> i]
<1> DEFINE list == Resolved(SectionOf(p))
<1>1. IsFiniteSet(1 .. n) /\ Cardinality(1 .. n) = n
  BY FS_Interval
<1>2. DOMAIN list = 1 .. n
  BY <1>1, ResolvedPlaces
<1>3. ASSUME NEW k \in 1 .. n PROVE list[k] = k
  <2>1. list[k] \in 1 .. n /\ Cardinality((1 .. n) \cap (1 .. list[k])) = k
    BY <1>2, ResolvedPlaces
  <2>2. (1 .. n) \cap (1 .. list[k]) = 1 .. list[k]
    BY <2>1
  <2>3. Cardinality(1 .. list[k]) = list[k]
    BY <2>1, FS_Interval
  <2> QED BY <2>1, <2>2, <2>3
<1>4. list \in Seq(1 .. MaxEntries)
  BY ResolvedPlaces
<1> HIDE DEF list
<1>5. list = [i \in 1 .. n |-> i]
  BY <1>2, <1>3, <1>4
<1> QED BY <1>5 DEF list

\* A page without an element passes the mapper's checks only if it says that
\* there is none.
LEMMA EmptyIsSaid ==
  ASSUME NEW p \in Pages, Publishable(SectionOf(p)), p.slots = <<>>,
         p.entries # 0
  PROVE  SaysNone(p)
<1>1. /\ SectionOf(p).count = 0 /\ SectionOf(p).total = p.total
      /\ ~LooksTruncated(SectionOf(p))
  <2>1. Named(p) = {}
    BY DEF Named
  <2>2. Cardinality(Named(p)) = 0
    BY <2>1, FS_EmptySet
  <2> QED BY <2>2, SectionFacts DEF Publishable
<1>2. p.entries \in Nat /\ p.total \in {p.entries, 0, NotStated}
  BY PageFacts, PageAssumption
<1> QED BY <1>1, <1>2 DEF LooksTruncated, SaysNone

\* Of a page that says there is none, nothing is resolved.
LEMMA NoneIsEmpty ==
  ASSUME NEW p \in Pages, SectionOf(p).ok, SaysNone(p)
  PROVE  Resolved(SectionOf(p)) = <<>>
<1>1. Delivered(SectionOf(p)) = {}
  BY SectionFacts DEF Delivered, SaysNone
<1>2. Len(Resolved(SectionOf(p))) = 0
  BY <1>1, ResolvedPlaces, FS_EmptySet
<1> QED BY <1>2, ResolvedPlaces

\* A section that passes the mapper's checks is the whole list, but for a page
\* that says there is none and the one page of which fewer elements are counted
\* than it has.
LEMMA PublishableIsWhole ==
  ASSUME NEW p \in Pages, Publishable(SectionOf(p)), ~CountsShort(p), ~SaysNone(p)
  PROVE  Resolved(SectionOf(p)) = [i \in 1 .. p.entries |-> i]
<1> DEFINE f == SectionOf(p)
           n == Len(p.slots)
           named == Cardinality(Named(p))
<1>1. /\ f.ok /\ f.count = named /\ f.total = p.total
      /\ ~LooksTruncated(f) /\ Len(Resolved(f)) >= named
  BY SectionFacts DEF Publishable
<1>2. /\ n \in Nat /\ n <= p.entries /\ named \in 0 .. n
      /\ named = n => Named(p) = 1 .. n
  BY <1>1, References
<1>3. Delivered(f) = Named(p)
  <2>1. Len(Resolved(f)) = Cardinality(Delivered(f))
    BY <1>1, ResolvedPlaces
  <2> QED BY <1>1, <1>2, <2>1, References
<1>4. p.entries \in Nat /\ n = Least(p.entries, SECTION_PAGE_SIZE)
  <2>1. p.entries \in Nat /\ n \in {0, Least(p.entries, SECTION_PAGE_SIZE)}
    BY PageFacts, PageAssumption
  <2>2. CASE p.entries = 0
    BY <2>1, <2>2, PageAssumption DEF Least
  <2>3. CASE p.entries # 0
    <3>1. p.slots # <<>>
      BY <2>3, EmptyIsSaid
    <3>2. n # 0
      BY <3>1, PageFacts
    <3> QED BY <2>1, <3>2
  <2> QED BY <2>2, <2>3
<1>5. named = n /\ n = p.entries
  <2>1. CASE p.total # NotStated
    <3>1. p.total # 0
      BY PageFacts DEF SaysNone
    <3>2. p.total = p.entries
      BY <2>1, <3>1, PageFacts
    <3> QED BY <1>1, <1>2, <1>4, <2>1, <3>2 DEF LooksTruncated
  <2>2. CASE p.total = NotStated
    <3>1. Named(p) = 1 .. n
      BY <2>2, PageFacts DEF CountsShort, Named
    <3>2. named = n
      BY <1>2, <3>1, FS_Interval
    <3>3. n < SECTION_PAGE_SIZE
      BY <1>1, <1>2, <2>2, <3>2, PageAssumption DEF LooksTruncated
    <3> QED BY <1>4, <3>2, <3>3, PageAssumption DEF Least
  <2> QED BY <2>1, <2>2
<1> HIDE DEF f, n, named
<1>6. Delivered(f) = 1 .. p.entries
  BY <1>2, <1>3, <1>5
<1> QED BY <1>1, <1>4, <1>6, ResolvedAll DEF f

\* A list that came back whole and readable passes the mapper's checks.
LEMMA WholeIsPublishable ==
  ASSUME NEW p \in Pages, Whole(p)
  PROVE  Publishable(SectionOf(p))
<1> DEFINE f == SectionOf(p)
           n == Len(p.slots)
<1>1. f.ok /\ f.count = Cardinality(Named(p)) /\ f.total = p.total /\ f.slots = p.slots
  BY SectionFacts DEF Whole, IsCollection
<1>2. n \in Nat /\ DOMAIN p.slots = 1 .. n /\ n = p.entries
  BY PageFacts DEF Whole
<1>3. Named(p) = 1 .. n /\ Delivered(f) = 1 .. n
  BY <1>1, <1>2 DEF Named, Delivered, Whole
<1>4. f.count = n /\ Len(Resolved(f)) = n
  <2>1. Cardinality(1 .. n) = n
    BY <1>2, FS_Interval
  <2> QED BY <1>1, <1>3, <2>1, ResolvedPlaces
<1>5. Mappable(f)
  BY <1>1 DEF Mappable, Whole
<1>6. ~LooksTruncated(f)
  <2>1. p.entries \in Nat /\ p.total \in {p.entries, 0, NotStated}
    BY PageFacts, PageAssumption
  <2> HIDE DEF f, n
  <2> QED BY <1>1, <1>2, <1>4, <2>1, PageAssumption DEF LooksTruncated, Whole
<1> QED BY <1>1, <1>2, <1>4, <1>5, <1>6 DEF Publishable

-----------------------------------------------------------------------------
(* The invariant *)

\* LinkedIn referenced an employment type of this section's and it resolves to
\* nothing.
Unresolved(s) ==
  s = "experience" /\ \E i \in DOMAIN member[s].slots : member[s].slots[i] = "untyped"

\* What a profile's data can be; the section calls change none of it.
Given == member \in [Sections -> Pages] /\ broken \subseteq CoreFields

\* A call that came back is recorded as what LinkedIn has.
FetchedOK ==
  /\ DOMAIN fetched \subseteq Sections
  /\ \A s \in DOMAIN fetched : fetched[s] = SectionOf(member[s])

\* A section is published if what is recorded of it passes the checks, a core
\* field unless its mapper raised.
PublishedOK ==
  /\ \A s \in Mapped \cap Sections :
       IF Publishable(SectionOf(member[s]))
       THEN s \in DOMAIN profile /\ profile[s] = Resolved(SectionOf(member[s]))
       ELSE s \notin DOMAIN profile
  /\ Mapped \cap CoreFields \cap DOMAIN profile = (Mapped \cap CoreFields) \ broken

\* What is mapped so far is published or reported, and nothing else is.
MappedOK ==
  /\ at \in 1 .. Len(Fields) + 1
  /\ DOMAIN profile \subseteq Mapped
  /\ partial \subseteq Range(Fields) \cup {EMPLOYMENT_TYPE_PATH}
  /\ Range(Fields) \cap partial = Mapped \ DOMAIN profile
  /\ EMPLOYMENT_TYPE_PATH \in partial <=>
       \E s \in DOMAIN profile \cap Sections : Unresolved(s)

Inv == Given /\ FetchedOK /\ PublishedOK /\ MappedOK

\* The fields come one after the other, each once.
LEMMA NextField ==
  ASSUME at \in 1 .. Len(Fields)
  PROVE  /\ Fields[at] \in Range(Fields)
         /\ Fields[at] \notin Mapped
         /\ at' = at + 1 => Mapped' = Mapped \cup {Fields[at]}
<1>1. DOMAIN Fields = 1 .. Len(Fields) /\ Len(Fields) \in Nat
  BY FieldsAssumption
<1>2. Fields[at] \in Range(Fields)
  BY <1>1 DEF Range
<1>3. Fields[at] \notin Mapped
  BY <1>1, FieldsAssumption DEF Mapped, IsInjective
<1>4. ASSUME at' = at + 1 PROVE Mapped' = Mapped \cup {Fields[at]}
  <2>1. 1 .. at' - 1 = (1 .. at - 1) \cup {at}
    BY <1>4
  <2> QED BY <2>1 DEF Mapped
<1> QED BY <1>2, <1>3, <1>4

\* Before anything is fetched or mapped.
LEMMA InvInit == Init => Inv
<1> SUFFICES ASSUME Init PROVE Inv
  OBVIOUS
<1>1. at = 1 /\ profile = <<>> /\ partial = {} /\ fetched = <<>> /\ Given
  BY DEF Init, Given
<1>2. Mapped = {}
  BY <1>1 DEF Mapped
<1>3. Len(Fields) \in Nat
  BY FieldsAssumption
<1> QED BY <1>1, <1>2, <1>3 DEF Inv, FetchedOK, PublishedOK, MappedOK

\* One call of the five comes back.
LEMMA FetchKeeps ==
  ASSUME Inv, NEW s \in Sections, FetchSection(s)
  PROVE  Inv'
<1>1. /\ s \notin DOMAIN fetched /\ fetched' = With(fetched, s, SectionOf(member[s]))
      /\ UNCHANGED <<member, broken, at, profile, partial>>
  BY DEF FetchSection
<1>2. /\ DOMAIN fetched' = DOMAIN fetched \cup {s}
      /\ \A q \in DOMAIN fetched : fetched'[q] = fetched[q]
      /\ fetched'[s] = SectionOf(member[s])
  BY <1>1 DEF With
<1>3. FetchedOK'
  BY <1>1, <1>2 DEF Inv, FetchedOK
<1>4. Given' /\ PublishedOK' /\ MappedOK'
  BY <1>1 DEF Inv, Given, PublishedOK, MappedOK, Mapped, Unresolved
<1> QED BY <1>3, <1>4 DEF Inv

\* A key is set.
LEMMA Published ==
  ASSUME NEW name, NEW value, profile' = With(profile, name, value)
  PROVE  /\ DOMAIN profile' = DOMAIN profile \cup {name}
         /\ profile'[name] = value
         /\ \A q \in DOMAIN profile \ {name} : profile'[q] = profile[q]
BY DEF With

\* _map goes one field further.
LEMMA MapKeeps ==
  ASSUME Inv, MapField
  PROVE  Inv'
<1> DEFINE name == Fields[at]
           section == SectionOf(member[name])
<1>1. /\ at \in 1 .. Len(Fields)
      /\ at' = at + 1 /\ at' \in 1 .. Len(Fields) + 1
      /\ UNCHANGED <<member, broken, fetched>>
  BY FieldsAssumption DEF MapField, Inv, MappedOK
<1>2. /\ name \in Range(Fields) /\ name \notin Mapped
      /\ Mapped' = Mapped \cup {name}
  BY <1>1, NextField
<1>3. Given' /\ FetchedOK'
  BY <1>1 DEF Inv, Given, FetchedOK
<1>4. name # EMPLOYMENT_TYPE_PATH /\ name \notin DOMAIN profile /\ name \notin partial
  BY <1>2, PathAssumption DEF Inv, MappedOK
<1>5. \A s : Unresolved(s)' <=> Unresolved(s)
  BY <1>1 DEF Unresolved
\* The field is published, with the degraded path if it is of it.
<1>6. ASSUME DOMAIN profile' = DOMAIN profile \cup {name},
             partial' = partial \/
               (partial' = partial \cup {EMPLOYMENT_TYPE_PATH}),
             EMPLOYMENT_TYPE_PATH \in partial' <=>
               EMPLOYMENT_TYPE_PATH \in partial \/ (name \in Sections /\ Unresolved(name))
      PROVE  MappedOK'
  BY <1>1, <1>2, <1>4, <1>5, <1>6, PathAssumption DEF Inv, MappedOK
\* The field is reported.
<1>7. ASSUME UNCHANGED profile, partial' = partial \cup {name}
      PROVE  MappedOK'
  BY <1>1, <1>2, <1>4, <1>5, <1>7 DEF Inv, MappedOK
\* The fields that were mapped stay as they are.
<1>8. ASSUME NEW value, profile' = With(profile, name, value),
             name \in Sections =>
               Publishable(section) /\ value = Resolved(section),
             name \in CoreFields => name \notin broken
      PROVE  PublishedOK'
  <2>1. /\ DOMAIN profile' = DOMAIN profile \cup {name}
        /\ profile'[name] = value
        /\ \A q \in DOMAIN profile \ {name} : profile'[q] = profile[q]
    BY <1>8, Published
  <2>2. PublishedOK
    BY DEF Inv
  <2>3. ASSUME NEW s \in Mapped' \cap Sections
        PROVE  IF Publishable(SectionOf(member[s]))
               THEN /\ s \in DOMAIN profile'
                    /\ profile'[s] = Resolved(SectionOf(member[s]))
               ELSE s \notin DOMAIN profile'
    <3>1. CASE s = name
      BY <1>8, <2>1, <2>3, <3>1
    <3>2. CASE s # name
      <4>1. s \in Mapped \cap Sections
        BY <1>2, <2>3, <3>2
      <4> QED BY <2>1, <2>2, <3>2, <4>1 DEF PublishedOK
    <3> QED BY <3>1, <3>2
  <2>4. Mapped' \cap CoreFields \cap DOMAIN profile' = (Mapped' \cap CoreFields) \ broken
    BY <1>2, <1>8, <2>1, <2>2 DEF PublishedOK
  <2> HIDE DEF name, section
  <2> QED BY <1>1, <2>3, <2>4 DEF PublishedOK
<1>9. ASSUME UNCHANGED profile,
             name \in Sections => ~Publishable(section),
             name \in CoreFields => name \in broken
      PROVE  PublishedOK'
  BY <1>1, <1>2, <1>4, <1>9 DEF Inv, PublishedOK, CoreFields
<1>10. CASE name \in Sections
  <2>1. MapSection(name) /\ name \notin CoreFields
    BY <1>10 DEF MapField, CoreFields
  <2>2. fetched[name] = section
    BY <1>10 DEF MapField, Fetched, Inv, FetchedOK
  <2>3. CASE Publishable(section)
    <3>1. /\ profile' = With(profile, name, Resolved(section))
          /\ partial' = partial \cup Degraded(name, section)
      BY <2>1, <2>2, <2>3 DEF MapSection
    <3>2. section.slots = member[name].slots
      BY <2>3, SectionFacts DEF Publishable
    <3>3. Degraded(name, section) =
            IF Unresolved(name) THEN {EMPLOYMENT_TYPE_PATH} ELSE {}
      BY <3>2 DEF Degraded, Unresolved
    <3>4. MappedOK'
      BY <1>6, <1>10, <3>1, <3>3, Published
    <3>5. PublishedOK'
      BY <1>8, <2>1, <2>3, <3>1
    <3> QED BY <1>3, <3>4, <3>5 DEF Inv
  <2>4. CASE ~Publishable(section)
    BY <1>3, <1>7, <1>9, <2>1, <2>2, <2>4 DEF MapSection, Inv
  <2> QED BY <2>3, <2>4
<1>11. CASE name \notin Sections
  <2>1. MapCore(name)
    BY <1>11 DEF MapField
  <2>2. CASE name \in broken
    BY <1>3, <1>7, <1>9, <1>11, <2>1, <2>2 DEF MapCore, Inv
  <2>3. CASE name \notin broken
    <3>1. profile' = With(profile, name, "value") /\ UNCHANGED partial
      BY <2>1, <2>3 DEF MapCore
    <3>2. MappedOK'
      BY <1>6, <1>11, <3>1, Published
    <3>3. PublishedOK'
      BY <1>8, <1>11, <2>3, <3>1
    <3> QED BY <1>3, <3>2, <3>3 DEF Inv
  <2> QED BY <2>2, <2>3
<1> HIDE DEF name, section
<1> QED BY <1>10, <1>11

\* The invariant holds of every behaviour.
THEOREM InvCorrect == Spec => []Inv
<1>1. Inv /\ [Next]_vars => Inv'
  <2>1. CASE UNCHANGED vars
    BY <2>1 DEF vars, Inv, Given, FetchedOK, PublishedOK, MappedOK, Mapped, Unresolved
  <2> QED BY <2>1, FetchKeeps, MapKeeps DEF Next
<1> QED BY <1>1, InvInit, PTL DEF Spec

-----------------------------------------------------------------------------
(* What it gives *)

\* A published section is what its page resolves to, and its page passed.
LEMMA PublishedSection ==
  ASSUME Inv, NEW s \in DOMAIN profile \cap Sections
  PROVE  /\ member[s] \in Pages
         /\ Publishable(SectionOf(member[s]))
         /\ profile[s] = Resolved(SectionOf(member[s]))
<1>1. s \in Mapped \cap Sections /\ member[s] \in Pages
  BY DEF Inv, Given, MappedOK
<1> QED BY <1>1 DEF Inv, PublishedOK

\* Everything has the type it is declared with: a section holds places of the
\* member's list only, a count of elements no more than a page has.
THEOREM TypeCorrect == Spec => []TypeOK
<1>1. Inv => TypeOK
  <2> SUFFICES ASSUME Inv PROVE TypeOK
    OBVIOUS
  <2>1. Given /\ FetchedOK /\ MappedOK
    BY DEF Inv
  <2>2. ASSUME NEW s \in DOMAIN fetched PROVE fetched[s] \in SectionFetch
    <3> DEFINE p == member[s]
               f == SectionOf(p)
    <3>1. fetched[s] = f /\ p \in Pages
      BY <2>1 DEF Given, FetchedOK
    <3>2. CASE f.ok
      <4>1. /\ f.count = Cardinality(Named(p)) /\ f.total = p.total
            /\ f.slots = p.slots
        BY <3>2, SectionFacts
      <4>2. Cardinality(Named(p)) \in 0 .. SECTION_PAGE_SIZE
        BY <3>1, <3>2, References, PageAssumption
      <4>3. p.total \in 0 .. MaxEntries \cup {NotStated} /\ p.slots \in Seq(Slot)
        BY <3>1, PageFacts, PageAssumption
      <4>4. f = [ok |-> TRUE, count |-> Cardinality(Named(p)), total |-> p.total,
                 slots |-> p.slots]
        BY <3>2 DEF SectionOf, Failed
      <4> QED BY <3>1, <4>2, <4>3, <4>4 DEF SectionFetch
    <3>3. CASE ~f.ok
      BY <3>1, <3>3 DEF SectionOf, SectionFetch
    <3> QED BY <3>2, <3>3
  <2>3. ASSUME NEW s \in DOMAIN profile \cap Sections
        PROVE  profile[s] \in Seq(1 .. MaxEntries)
    BY PublishedSection, ResolvedPlaces DEF Publishable
  <2>4. DOMAIN profile \subseteq Range(Fields)
    BY <2>1, FieldsAssumption DEF MappedOK, Mapped, Range
  <2> QED BY <2>1, <2>2, <2>3, <2>4 DEF TypeOK, Given, FetchedOK, MappedOK
<1> QED BY <1>1, InvCorrect, PTL

\* A published section is the member's whole list in LinkedIn's order, or [] of
\* a page that says there is none, for pages and lists of every size, whichever
\* call ended first.
THEOREM PublishedWhole == Spec => []PublishedIsWhole
<1>1. Inv => PublishedIsWhole
  <2> SUFFICES ASSUME Inv, NEW s \in DOMAIN profile \cap Sections,
                      ~CountsShort(member[s])
               PROVE  profile[s] = IF SaysNone(member[s]) THEN <<>>
                                   ELSE [i \in 1 .. member[s].entries |-> i]
    BY DEF PublishedIsWhole
  <2>1. CASE SaysNone(member[s])
    BY <2>1, PublishedSection, NoneIsEmpty DEF Publishable
  <2>2. CASE ~SaysNone(member[s])
    BY <2>2, PublishedSection, PublishableIsWhole
  <2> QED BY <2>1, <2>2
<1> QED BY <1>1, InvCorrect, PTL

\* What LinkedIn gave whole and readable is published when the mapper is done,
\* whatever happened to the other sections and fields.
THEOREM ReadablePublished == Spec => []ReadableIsPublished
<1>1. Inv => ReadableIsPublished
  <2> SUFFICES ASSUME Inv, Done PROVE ReadableIsPublished
    BY DEF ReadableIsPublished
  <2>1. Mapped = Range(Fields)
    BY FieldsAssumption DEF Done, Mapped, Range
  <2>2. ASSUME NEW s \in Sections, Whole(member[s]) PROVE s \in DOMAIN profile
    <3>1. Publishable(SectionOf(member[s]))
      BY <2>2, WholeIsPublishable DEF Inv, Given
    <3>2. s \in Mapped
      BY <2>1, FieldsAssumption
    <3> QED BY <3>1, <3>2 DEF Inv, PublishedOK
  <2>3. CoreFields \ broken \subseteq DOMAIN profile
    BY <2>1 DEF Inv, PublishedOK, CoreFields
  <2> QED BY <2>2, <2>3 DEF ReadableIsPublished
<1> QED BY <1>1, InvCorrect, PTL

\* partial[] is the contract fields that are not published and the one degraded
\* path where it belongs, in every order the section calls can end in.
THEOREM PartialExact == Spec => []PartialIsExact
<1>1. Inv => PartialIsExact
  <2> SUFFICES ASSUME Inv, Done PROVE PartialIsExact
    BY DEF PartialIsExact
  <2>1. Mapped = Range(Fields)
    BY FieldsAssumption DEF Done, Mapped, Range
  <2>2. Range(Fields) \cap partial = Range(Fields) \ DOMAIN profile
    BY <2>1 DEF Inv, MappedOK
  <2>3. EMPLOYMENT_TYPE_PATH \in partial <=>
          /\ "experience" \in DOMAIN profile \cap Sections
          /\ \E i \in DOMAIN member["experience"].slots :
               member["experience"].slots[i] = "untyped"
    BY DEF Inv, MappedOK, Unresolved
  <2>4. partial \subseteq Range(Fields) \cup {EMPLOYMENT_TYPE_PATH}
    BY DEF Inv, MappedOK
  <2> QED BY <2>2, <2>3, <2>4, PathAssumption DEF PartialIsExact
<1> QED BY <1>1, InvCorrect, PTL
=============================================================================
