------------------------- MODULE ProfileCacheProofs -------------------------
(***************************************************************************)
(* Theorems about ProfileCache, for every set of profiles, requests and    *)
(* deployed versions and every clock.                                      *)
(***************************************************************************)
EXTENDS ProfileCache, TLAPS

\* What a request has, phase by phase.
Shaped(q) ==
  /\ q.pc = "idle" => q.profile = None
  /\ q.pc # "idle" => q.profile \in Profiles
  /\ q.pc \in {"reading", "recording_answer", "saving"} =>
        q.record \in Row /\ q.record.shape = "envelope"
  /\ q.pc = "done" <=> q.kind # "none"
  /\ q.kind \in {"none", "error"} => q.body = None
  /\ q.pc = "saving" => q.write # "none"
  /\ q.write # "none" => /\ q.pc \in {"saving", "done"}
                         /\ q.record \in Row
                         /\ q.record.about = q.profile
                         /\ q.record.shape = "envelope"
  /\ q.kind = "live" => q.body = q.record /\ q.write # "none"
  /\ q.kind = "stale" => /\ q.body \in Row /\ q.body.about = q.profile
                         /\ q.write = "none"

ShapedOK == \A r \in Requests : Shaped(req[r])

Typed == TypeOK /\ ShapedOK

\* A write that landed is in the table, or something newer is; what a caller
\* was told is saved is no older than what another looks up.
Ahead(r) ==
  /\ req[r].write = "landed" =>
        /\ rows[req[r].profile] # None
        /\ rows[req[r].profile].fetched_at >= req[r].record.fetched_at
  /\ req[r].pc = "looking_up" => req[r].floor <= acked[req[r].profile]
  /\ req[r].kind = "stale" => req[r].body.fetched_at >= req[r].floor

AckedInTable ==
  \A p \in Profiles :
     acked[p] # Nothing => rows[p] # None /\ rows[p].fetched_at >= acked[p]

\* A row that can be served is exactly what some request saved.
Saved(p, row) ==
  \E q \in Requests : /\ req[q].profile = p
                      /\ req[q].record = row
                      /\ req[q].write = "landed"

RowsFromSaves ==
  \A p \in Profiles :
     rows[p] # None /\ rows[p].about = p /\ rows[p].shape = "envelope" =>
        Saved(p, rows[p])

Inv == /\ Typed
       /\ \A r \in Requests : Ahead(r)
       /\ AckedInTable /\ RowsFromSaves /\ StaleWasLive

\* How a step moves the table and the history, and what it leaves of requests.
RowsForward ==
  \A p \in Profiles :
     rows[p] # None => rows'[p] # None /\ rows'[p].fetched_at >= rows[p].fetched_at

AckedForward == \A p \in Profiles : acked'[p] >= acked[p]

Others(r) == \A q \in Requests \ {r} : req'[q] = req[q]

-----------------------------------------------------------------------------
(* Types *)

\* Nothing is saved, nothing asked.
LEMMA InvInit == Init => Inv
<1> SUFFICES ASSUME Init PROVE Inv
  OBVIOUS
<1>1. TypeOK
  BY DEF Init, TypeOK, Request
<1>2. ShapedOK
  BY DEF Init, ShapedOK, Shaped
<1>3. /\ \A r \in Requests : Ahead(r)
      /\ AckedInTable /\ RowsFromSaves /\ StaleWasLive
  BY DEF Init, Ahead, AckedInTable, RowsFromSaves, StaleWasLive
<1> QED BY <1>1, <1>2, <1>3 DEF Inv, Typed

\* A step that only moves request r, from one shaped state to another.
LEMMA TypedOne ==
  ASSUME Typed, NEW r \in Requests, NEW new \in Request, Shaped(new),
         req' = [req EXCEPT ![r] = new],
         rows' \in [Profiles -> Row \cup {None}], version' = version,
         acked' \in [Profiles -> Times \cup {Nothing}]
  PROVE  Typed' /\ req'[r] = new /\ Others(r)
<1>1. req' \in [Requests -> Request] /\ req'[r] = new /\ Others(r)
  BY DEF Typed, TypeOK, Others
<1>2. TypeOK'
  BY <1>1 DEF Typed, TypeOK
<1>3. ShapedOK'
  <2>1. \A q \in Requests : Shaped(req'[q])
    BY <1>1 DEF Others, Typed, ShapedOK
  <2> QED BY <2>1 DEF ShapedOK, Shaped
<1> QED BY <1>1, <1>2, <1>3 DEF Typed

-----------------------------------------------------------------------------
(* One step of one request *)

\* What request r may have landed is not lost.
LandedKept(r) ==
  req[r].write = "landed" => /\ req'[r].write = "landed"
                             /\ req'[r].record = req[r].record
                             /\ req'[r].profile = req[r].profile

\* r is not given a stale body in this step.
NotServed(r) ==
  req'[r].kind = "stale" => /\ req[r].kind = "stale"
                            /\ req'[r].body = req[r].body
                            /\ req'[r].profile = req[r].profile

SavedAfter(p, row) ==
  \E q \in Requests : /\ req'[q].profile = p
                      /\ req'[q].record = row
                      /\ req'[q].write = "landed"

\* What landed stays landed.
LEMMA SavedKept ==
  ASSUME NEW r \in Requests, Others(r), LandedKept(r),
         NEW p, NEW row, Saved(p, row)
  PROVE  SavedAfter(p, row)
<1>1. PICK q \in Requests : /\ req[q].profile = p /\ req[q].record = row
                            /\ req[q].write = "landed"
  BY DEF Saved
<1>2. /\ req'[q].profile = p /\ req'[q].record = row
      /\ req'[q].write = "landed"
  BY <1>1 DEF Others, LandedKept
<1> QED BY <1>2 DEF SavedAfter

\* Every other request is as far ahead as it was.
LEMMA OthersAhead ==
  ASSUME Inv, NEW r \in Requests, Others(r), RowsForward, AckedForward, Typed'
  PROVE  \A q \in Requests \ {r} : Ahead(q)'
<1> SUFFICES ASSUME NEW q \in Requests \ {r} PROVE Ahead(q)'
  OBVIOUS
<1>1. req'[q] = req[q] /\ Ahead(q) /\ Shaped(req[q]) /\ req[q] \in Request
  BY DEF Others, Inv, Typed, TypeOK, ShapedOK
<1>2. CASE req[q].write = "landed"
  <2> DEFINE p == req[q].profile
  <2>1. p \in Profiles /\ req[q].record \in Row
    BY <1>1, <1>2 DEF Shaped, Row
  <2>2. /\ rows[p] # None /\ rows'[p] # None
        /\ rows[p].fetched_at >= req[q].record.fetched_at
        /\ rows'[p].fetched_at >= rows[p].fetched_at
    BY <1>1, <1>2, <2>1 DEF Ahead, RowsForward
  <2>3. /\ rows[p].fetched_at \in Nat /\ rows'[p].fetched_at \in Nat
        /\ req[q].record.fetched_at \in Nat
    BY <2>1, <2>2 DEF Inv, Typed, TypeOK, Row, Times
  <2>4. rows'[p].fetched_at >= req[q].record.fetched_at
    BY <2>2, <2>3
  <2>5. req[q].pc # "looking_up"
    BY <1>1, <1>2 DEF Shaped
  <2> QED BY <1>1, <2>2, <2>4, <2>5 DEF Ahead
<1>3. CASE req[q].pc = "looking_up"
  <2> DEFINE p == req[q].profile
  <2>1. p \in Profiles
    BY <1>1, <1>3 DEF Shaped
  <2>2. acked'[p] >= acked[p] /\ req[q].floor <= acked[p]
    BY <1>1, <1>3, <2>1 DEF AckedForward, Ahead
  <2>3. /\ acked[p] \in Nat /\ acked'[p] \in Nat /\ req[q].floor \in Nat
    BY <1>1, <2>1 DEF Inv, Typed, TypeOK, Request, Times, Nothing
  <2>4. req[q].write # "landed" /\ req[q].kind # "stale"
    BY <1>1, <1>3 DEF Shaped
  <2> QED BY <1>1, <2>2, <2>3, <2>4 DEF Ahead
<1>4. CASE req[q].write # "landed" /\ req[q].pc # "looking_up"
  BY <1>1, <1>4 DEF Ahead
<1> QED BY <1>2, <1>3, <1>4

\* What a step of r has to show for the invariant to hold after it.
LEMMA Settle ==
  ASSUME Inv, NEW r \in Requests, Others(r), Typed', RowsForward, AckedForward,
         Ahead(r)', AckedInTable', LandedKept(r),
         \A p \in Profiles : \/ rows'[p] = rows[p]
                              \/ SavedAfter(p, rows'[p]),
         NotServed(r) \/ Saved(req'[r].profile, req'[r].body)
  PROVE  Inv'
<1>1. \A q \in Requests : Ahead(q)'
  BY OthersAhead
<1>2. RowsFromSaves'
  <2> SUFFICES ASSUME NEW p \in Profiles, rows'[p] # None,
                      rows'[p].about = p, rows'[p].shape = "envelope"
               PROVE  SavedAfter(p, rows'[p])
    BY DEF RowsFromSaves, Saved, SavedAfter
  <2>1. CASE rows'[p] = rows[p]
    <3>1. Saved(p, rows[p])
      BY <2>1 DEF Inv, RowsFromSaves
    <3> QED BY <2>1, <3>1, SavedKept
  <2> QED BY <2>1
<1>3. StaleWasLive'
  <2> SUFFICES ASSUME NEW q \in Requests, req'[q].kind = "stale"
               PROVE  SavedAfter(req'[q].profile, req'[q].body)
    BY DEF StaleWasLive, SavedAfter
  <2>1. Saved(req'[q].profile, req'[q].body)
    BY DEF NotServed, Others, Inv, StaleWasLive, Saved
  <2> QED BY <2>1, SavedKept
<1> QED BY <1>1, <1>2, <1>3 DEF Inv

\* A step of r that touches neither the table nor the history, lands nothing
\* and serves nothing.
LEMMA Quiet ==
  ASSUME Inv, NEW r \in Requests, NEW new \in Request, Shaped(new),
         req' = [req EXCEPT ![r] = new], UNCHANGED <<rows, version, acked>>,
         new.write = "landed" => req[r].write = "landed" /\ new.record = req[r].record
                                 /\ new.profile = req[r].profile,
         req[r].write = "landed" => new.write = "landed",
         new.pc = "looking_up" => new.floor <= acked[new.profile],
         new.kind # "stale"
  PROVE  Inv' /\ RowsForward
<1>1. Typed' /\ req'[r] = new /\ Others(r)
  BY TypedOne DEF Inv, Typed, TypeOK
<1>2. RowsForward /\ AckedForward
  BY DEF RowsForward, AckedForward, Inv, Typed, TypeOK, Row, Times, Nothing
<1>3. Ahead(r)'
  BY <1>1 DEF Ahead, Inv
<1>4. AckedInTable'
  BY DEF AckedInTable, Inv
<1>5. LandedKept(r) /\ NotServed(r)
  BY <1>1 DEF LandedKept, NotServed
<1> QED BY <1>1, <1>2, <1>3, <1>4, <1>5, Settle

\* What a request is known to be.
LEMMA Known ==
  ASSUME Inv, NEW r \in Requests
  PROVE  /\ req[r] \in Request /\ Shaped(req[r]) /\ Ahead(r)
         /\ req \in [Requests -> Request]
         /\ rows \in [Profiles -> Row \cup {None}]
         /\ acked \in [Profiles -> Times \cup {Nothing}] /\ version \in Versions
BY DEF Inv, Typed, TypeOK, ShapedOK

-----------------------------------------------------------------------------
(* The actions *)

\* The steps of a fetch neither write nor serve anything.
LEMMA FetchQuiet ==
  ASSUME Inv, NEW r \in Requests,
         (\E p \in Profiles : Begin(r, p)) \/ FetchStep(r) \/ RecordStep(r)
  PROVE  Inv' /\ RowsForward
<1>0. /\ req[r] \in Request /\ Shaped(req[r])
      /\ acked \in [Profiles -> Times \cup {Nothing}] /\ version \in Versions
  BY Known
<1>1. ASSUME NEW p \in Profiles, Begin(r, p) PROVE Inv' /\ RowsForward
  <2> DEFINE new == [req[r] EXCEPT !.pc = "fetching", !.profile = p]
  <2>1. /\ new \in Request /\ Shaped(new) /\ new.write = req[r].write
        /\ new.write = "none" /\ new.pc = "fetching" /\ new.kind = "none"
    BY <1>0, <1>1 DEF Begin, Request, Shaped
  <2>2. req' = [req EXCEPT ![r] = new]
    BY <1>1 DEF Begin
  <2> QED BY <1>1, <2>1, <2>2, Quiet DEF Begin
<1>2. ASSUME NEW a \in Profiles, NEW t \in Times, CoreRead(r, a, t)
      PROVE  Inv' /\ RowsForward
  <2> DEFINE record == [about |-> a, shape |-> "envelope",
                        envelope_version |-> version, fetched_at |-> t]
             new    == [req[r] EXCEPT !.pc = "reading", !.record = record]
  <2>1. record \in Row
    BY <1>0 DEF Row
  <2>2. /\ new \in Request /\ Shaped(new) /\ new.write = req[r].write
        /\ new.write = "none" /\ new.pc = "reading" /\ new.kind = "none"
    BY <1>0, <1>2, <2>1 DEF CoreRead, Request, Shaped
  <2>3. req' = [req EXCEPT ![r] = new]
    BY <1>2 DEF CoreRead
  <2> QED BY <1>2, <2>2, <2>3, Quiet DEF CoreRead
<1>3. CASE FetchAnswered(r) \/ FetchExpired(r)
  <2> DEFINE new(to) == [req[r] EXCEPT !.pc = to]
  <2>1. PICK to \in Recording : /\ req' = [req EXCEPT ![r] = new(to)]
                                /\ to = "recording_answer" => FetchAnswered(r)
                                /\ to = "recording_refusal" => FetchExpired(r)
    BY <1>3 DEF FetchAnswered, FetchExpired, Recording
  <2>2. /\ new(to) \in Request /\ Shaped(new(to)) /\ new(to).write = req[r].write
        /\ new(to).write = "none" /\ new(to).pc = to /\ new(to).kind = "none"
    BY <1>0, <1>3, <2>1
       DEF FetchAnswered, FetchExpired, Recording, Request, Shaped
  <2>3. new(to).pc # "looking_up"
    BY <2>2 DEF Recording
  <2> QED BY <1>3, <2>1, <2>2, <2>3, Quiet DEF FetchAnswered, FetchExpired
<1>4. CASE AnswerRecorded(r)
  <2> DEFINE new == [req[r] EXCEPT !.pc = "saving", !.write = "sent"]
  <2>1. req[r].write = "none" /\ req[r].record.shape = "envelope"
    BY <1>0, <1>4 DEF AnswerRecorded, Shaped
  <2>2. /\ new \in Request /\ Shaped(new)
        /\ new.write = "sent" /\ new.pc = "saving" /\ new.kind = "none"
    BY <1>0, <1>4, <2>1 DEF AnswerRecorded, Request, Shaped
  <2>3. req' = [req EXCEPT ![r] = new]
    BY <1>4 DEF AnswerRecorded
  <2> QED BY <1>4, <2>1, <2>2, <2>3, Quiet DEF AnswerRecorded
<1>5. CASE FetchRefused(r) \/ MemberMismatch(r) \/ RefusalRecorded(r)
  <2> DEFINE new == [req[r] EXCEPT !.pc = "done", !.kind = "error", !.body = None]
  <2>1. /\ new \in Request /\ Shaped(new) /\ new.write = req[r].write
        /\ new.write = "none" /\ new.pc = "done" /\ new.kind = "error"
    BY <1>0, <1>5
       DEF MemberMismatch, FetchRefused, RefusalRecorded, Request, Shaped
  <2>2. req' = [req EXCEPT ![r] = new]
    BY <1>5 DEF MemberMismatch, FetchRefused, RefusalRecorded, Answer
  <2> QED BY <1>5, <2>1, <2>2, Quiet
          DEF MemberMismatch, FetchRefused, RefusalRecorded
<1>6. CASE FetchFailed(r)
  <2> DEFINE new == [req[r] EXCEPT !.pc = "looking_up",
                                   !.floor = acked[req[r].profile]]
  <2>1. req[r].profile \in Profiles
    BY <1>0, <1>6 DEF FetchFailed, Shaped
  <2>2. acked[req[r].profile] \in Times \cup {Nothing}
    BY <1>0, <2>1
  <2>3. /\ new \in Request /\ Shaped(new) /\ new.write = req[r].write
        /\ new.write = "none" /\ new.kind = "none"
        /\ new.profile = req[r].profile /\ new.floor = acked[req[r].profile]
    BY <1>0, <1>6, <2>1, <2>2 DEF FetchFailed, Request, Shaped
  <2>4. new.floor <= acked[new.profile]
    BY <2>2, <2>3 DEF Times, Nothing
  <2>5. req' = [req EXCEPT ![r] = new]
    BY <1>6 DEF FetchFailed
  <2> QED BY <1>6, <2>3, <2>4, <2>5, Quiet DEF FetchFailed
<1> QED BY <1>1, <1>2, <1>3, <1>4, <1>5, <1>6 DEF FetchStep, RecordStep

\* Nor do the answers that come without the datastore's.
LEMMA ReplyQuiet ==
  ASSUME Inv, NEW r \in Requests,
         SaveVanishes(r) \/ DeadlineStep(r) \/ LookupUseless(r)
  PROVE  Inv' /\ RowsForward
<1>0. req[r] \in Request /\ Shaped(req[r])
  BY Known
<1>1. CASE SaveVanishes(r)
  <2> DEFINE new == [req[r] EXCEPT !.write = "failed"]
  <2>1. /\ new \in Request /\ Shaped(new) /\ req[r].write = "sent"
        /\ new.write = "failed" /\ new.pc # "looking_up" /\ new.kind # "stale"
    <3>1. req[r].kind # "stale"
      BY <1>0, <1>1 DEF SaveVanishes, Shaped
    <3> QED BY <1>0, <1>1, <3>1 DEF SaveVanishes, Request, Shaped
  <2>2. req' = [req EXCEPT ![r] = new]
    BY <1>1 DEF SaveVanishes
  <2> QED BY <1>1, <2>1, <2>2, Quiet DEF SaveVanishes
<1>2. CASE SaveAbandoned(r)
  <2> DEFINE new == [req[r] EXCEPT !.pc = "done", !.kind = "live",
                                   !.body = req[r].record]
  <2>1. /\ new \in Request /\ Shaped(new) /\ new.write = req[r].write
        /\ new.record = req[r].record /\ new.profile = req[r].profile
        /\ new.pc = "done" /\ new.kind = "live"
    BY <1>0, <1>2 DEF SaveAbandoned, Request, Shaped
  <2>2. req' = [req EXCEPT ![r] = new]
    BY <1>2 DEF SaveAbandoned, Answer
  <2> QED BY <1>2, <2>1, <2>2, Quiet DEF SaveAbandoned
<1>3. CASE LookupAbandoned(r) \/ LookupUseless(r)
  <2> DEFINE new == [req[r] EXCEPT !.pc = "done", !.kind = "error", !.body = None]
  <2>1. /\ new \in Request /\ Shaped(new) /\ new.write = req[r].write
        /\ new.write = "none" /\ new.pc = "done" /\ new.kind = "error"
    BY <1>0, <1>3 DEF LookupAbandoned, LookupUseless, Request, Shaped
  <2>2. req' = [req EXCEPT ![r] = new]
    BY <1>3 DEF LookupAbandoned, LookupUseless, Answer
  <2> QED BY <1>3, <2>1, <2>2, Quiet DEF LookupAbandoned, LookupUseless
<1> QED BY <1>1, <1>2, <1>3 DEF DeadlineStep

\* The upsert keeps the newer of the two records, and the one saved is the one
\* read from LinkedIn.
LEMMA SaveLandsStep ==
  ASSUME Inv, NEW r \in Requests, SaveLands(r)
  PROVE  Inv' /\ RowsForward
<1> DEFINE p      == req[r].profile
           record == req[r].record
           new    == [req[r] EXCEPT !.write = "landed"]
<1>1. /\ req[r] \in Request /\ Shaped(req[r]) /\ Ahead(r)
      /\ rows \in [Profiles -> Row \cup {None}]
      /\ acked \in [Profiles -> Times \cup {Nothing}]
  BY Known
<1>2. /\ req[r].write = "sent" /\ req[r].pc \in {"saving", "done"}
      /\ record \in Row /\ p \in Profiles /\ req[r].kind # "stale"
  BY <1>1 DEF SaveLands, Shaped
<1>3. /\ new \in Request /\ Shaped(new) /\ new.write = "landed"
      /\ new.profile = p /\ new.record = record /\ new.pc = req[r].pc
      /\ new.kind = req[r].kind
  BY <1>1, <1>2 DEF Request, Shaped
<1>4. /\ req' = [req EXCEPT ![r] = new] /\ rows' = Upserted(p, record)
      /\ version' = version /\ acked' = acked
  BY DEF SaveLands
<1>5. /\ rows' \in [Profiles -> Row \cup {None}]
      /\ \A q \in Profiles \ {p} : rows'[q] = rows[q]
      /\ rows'[p] = IF rows[p] = None \/ rows[p].fetched_at <= record.fetched_at
                      THEN record ELSE rows[p]
  BY <1>1, <1>2, <1>4 DEF Upserted
<1>6. record.fetched_at \in Nat /\ \A q \in Profiles :
         rows[q] # None => rows[q].fetched_at \in Nat
  BY <1>1, <1>2 DEF Row, Times
<1>7. record # None
  BY <1>2, NoneIsNoRow
<1>8. RowsForward
  BY <1>5, <1>6, <1>7 DEF RowsForward
<1>9. /\ rows'[p] # None /\ rows'[p].fetched_at >= record.fetched_at
  BY <1>2, <1>5, <1>6, <1>7
<1>10. Typed' /\ req'[r] = new /\ Others(r)
  BY <1>1, <1>3, <1>4, <1>5, TypedOne DEF Inv
<1>11. Ahead(r)'
  BY <1>2, <1>3, <1>9, <1>10 DEF Ahead
<1>12. AckedForward
  BY <1>1, <1>4 DEF AckedForward, Times, Nothing
<1>13. AckedInTable'
  <2> SUFFICES ASSUME NEW q \in Profiles, acked[q] # Nothing
               PROVE  rows'[q] # None /\ rows'[q].fetched_at >= acked[q]
    BY <1>4 DEF AckedInTable
  <2>1. rows[q] # None /\ rows[q].fetched_at >= acked[q]
    BY DEF Inv, AckedInTable
  <2>2. rows'[q] # None /\ rows'[q].fetched_at >= rows[q].fetched_at
    BY <1>8, <2>1 DEF RowsForward
  <2>3. /\ rows[q].fetched_at \in Nat /\ rows'[q].fetched_at \in Nat
        /\ acked[q] \in Nat
    BY <1>1, <1>5, <2>1, <2>2 DEF Row, Times, Nothing
  <2> QED BY <2>1, <2>2, <2>3
<1>14. LandedKept(r) /\ NotServed(r)
  BY <1>2, <1>3, <1>10 DEF LandedKept, NotServed
<1>15. \A q \in Profiles : rows'[q] = rows[q] \/ SavedAfter(q, rows'[q])
  BY <1>3, <1>5, <1>10 DEF SavedAfter
<1> QED BY <1>8, <1>10, <1>11, <1>12, <1>13, <1>14, <1>15, Settle

\* A save that returned is in the table, or something newer is.
LEMMA SaveReturnedStep ==
  ASSUME Inv, NEW r \in Requests, SaveReturned(r)
  PROVE  Inv' /\ RowsForward
<1> DEFINE p      == req[r].profile
           record == req[r].record
           new    == [req[r] EXCEPT !.pc = "done", !.kind = "live", !.body = record]
<1>1. /\ req[r] \in Request /\ Shaped(req[r]) /\ Ahead(r)
      /\ rows \in [Profiles -> Row \cup {None}]
      /\ acked \in [Profiles -> Times \cup {Nothing}]
  BY Known
<1>2. req[r].pc = "saving" /\ record \in Row /\ p \in Profiles
  BY <1>1 DEF SaveReturned, Shaped
<1>3. /\ new \in Request /\ Shaped(new) /\ new.write = req[r].write
      /\ new.profile = p /\ new.record = record /\ new.pc = "done"
      /\ new.kind = "live"
  BY <1>1, <1>2 DEF Request, Shaped
<1>4. /\ req' = [req EXCEPT ![r] = new] /\ rows' = rows /\ version' = version
  BY DEF SaveReturned, Answer
<1>5. record.fetched_at \in Times /\ record.fetched_at \in Nat
      /\ \A q \in Profiles : acked[q] \in Nat
  BY <1>1, <1>2 DEF Row, Times, Nothing
<1>6. \/ acked' = acked
      \/ /\ acked' = [acked EXCEPT ![p] = record.fetched_at]
         /\ record.fetched_at > acked[p]
         /\ rows[p] # None /\ rows[p].fetched_at >= record.fetched_at
  BY <1>1 DEF SaveReturned, Ahead
<1>7. acked' \in [Profiles -> Times \cup {Nothing}] /\ AckedForward
  BY <1>1, <1>2, <1>5, <1>6 DEF AckedForward
<1>8. AckedInTable'
  BY <1>1, <1>2, <1>4, <1>6 DEF AckedInTable, Inv
<1>9. RowsForward
  BY <1>1, <1>4 DEF RowsForward, Row, Times
<1>10. Typed' /\ req'[r] = new /\ Others(r)
  BY <1>1, <1>3, <1>4, <1>7, TypedOne DEF Inv
<1>11. Ahead(r)'
  BY <1>1, <1>3, <1>4, <1>10 DEF Ahead
<1>12. LandedKept(r) /\ NotServed(r)
  BY <1>3, <1>10 DEF LandedKept, NotServed
<1> QED BY <1>4, <1>7, <1>8, <1>9, <1>10, <1>11, <1>12, Settle

\* What is served is the row, and the row is at least what was acknowledged
\* when this request turned to the cache.
LEMMA LookupServedStep ==
  ASSUME Inv, NEW r \in Requests, LookupServed(r)
  PROVE  Inv' /\ RowsForward
<1> DEFINE p   == req[r].profile
           row == rows[p]
           new == [req[r] EXCEPT !.pc = "done", !.kind = "stale", !.body = row]
<1>1. /\ req[r] \in Request /\ Shaped(req[r]) /\ Ahead(r)
      /\ rows \in [Profiles -> Row \cup {None}]
      /\ acked \in [Profiles -> Times \cup {Nothing}]
  BY Known
<1>2. /\ req[r].pc = "looking_up" /\ p \in Profiles /\ row \in Row
      /\ row.about = p /\ row.shape = "envelope" /\ row # None
      /\ req[r].write = "none"
  BY <1>1 DEF LookupServed, Usable, Shaped
<1>3. /\ new \in Request /\ Shaped(new) /\ new.write = "none"
      /\ new.profile = p /\ new.pc = "done" /\ new.kind = "stale"
      /\ new.body = row /\ new.floor = req[r].floor
  BY <1>1, <1>2 DEF Request, Shaped
<1>4. /\ req' = [req EXCEPT ![r] = new]
      /\ rows' = rows /\ version' = version /\ acked' = acked
  BY DEF LookupServed, Answer
<1>5. row.fetched_at \in Nat /\ req[r].floor \in Nat
      /\ \A q \in Profiles : acked[q] \in Nat
  BY <1>1, <1>2 DEF Row, Request, Times, Nothing
<1>6. row.fetched_at >= req[r].floor
  <2>1. req[r].floor <= acked[p]
    BY <1>1, <1>2 DEF Ahead
  <2>2. acked[p] # Nothing => row.fetched_at >= acked[p]
    BY <1>2 DEF Inv, AckedInTable
  <2> QED BY <1>2, <1>5, <2>1, <2>2 DEF Nothing
<1>7. RowsForward /\ AckedForward
  BY <1>1, <1>4, <1>5 DEF RowsForward, AckedForward, Row, Times
<1>8. Typed' /\ req'[r] = new /\ Others(r)
  BY <1>1, <1>3, <1>4, TypedOne DEF Inv
<1>9. Ahead(r)'
  BY <1>3, <1>6, <1>8 DEF Ahead
<1>10. AckedInTable' /\ LandedKept(r)
  BY <1>2, <1>4 DEF AckedInTable, LandedKept, Inv
<1>11. Saved(p, row)
  BY <1>2 DEF Inv, RowsFromSaves
<1> QED BY <1>3, <1>4, <1>7, <1>8, <1>9, <1>10, <1>11, Settle

-----------------------------------------------------------------------------
(* Around the process *)

\* A new container answers nobody and loses nothing that was sent.
LEMMA DeployStep ==
  ASSUME Inv, NEW v \in Versions, Deploy(v)
  PROVE  Inv' /\ RowsForward
<1>1. /\ version' = v /\ UNCHANGED <<rows, acked>>
      /\ \A r \in Requests :
            req'[r] = IF InFlight(r)
                        THEN [req[r] EXCEPT !.pc = "done", !.kind = "error"]
                        ELSE req[r]
  BY DEF Deploy
<1>2. ASSUME NEW r \in Requests
      PROVE  /\ req'[r] \in Request /\ Shaped(req'[r])
             /\ req'[r].profile = req[r].profile /\ req'[r].record = req[r].record
             /\ req'[r].write = req[r].write /\ req'[r].body = req[r].body
             /\ req'[r].floor = req[r].floor
             /\ req'[r].kind = "stale" => req[r].kind = "stale"
             /\ req'[r].pc = "looking_up" => req[r].pc = "looking_up"
  <2>1. req[r] \in Request /\ Shaped(req[r])
    BY Known
  <2>2. CASE InFlight(r)
    <3> DEFINE new == [req[r] EXCEPT !.pc = "done", !.kind = "error"]
    <3>1. req'[r] = new
      BY <1>1, <2>2
    <3>2. /\ new \in Request /\ Shaped(new)
          /\ new.profile = req[r].profile /\ new.record = req[r].record
          /\ new.write = req[r].write /\ new.body = req[r].body
          /\ new.floor = req[r].floor /\ new.kind = "error" /\ new.pc = "done"
      BY <2>1, <2>2 DEF InFlight, Request, Shaped
    <3> QED BY <3>1, <3>2
  <2>3. CASE ~InFlight(r)
    BY <1>1, <2>1, <2>3
  <2> QED BY <2>2, <2>3
<1>3. TypeOK'
  <2>1. req' \in [Requests -> Request]
    <3>1. req' = [r \in Requests |-> req'[r]]
      BY DEF Deploy
    <3> QED BY <1>2, <3>1
  <2> QED BY <1>1, <2>1 DEF Inv, Typed, TypeOK
<1>4. ShapedOK'
  <2>1. \A r \in Requests : Shaped(req'[r])
    BY <1>2
  <2> QED BY <2>1 DEF ShapedOK, Shaped
<1>5. \A r \in Requests : Ahead(r)'
  BY <1>1, <1>2 DEF Inv, Ahead
<1>6. \A p, row : Saved(p, row) => SavedAfter(p, row)
  BY <1>2 DEF Saved, SavedAfter
<1>7. RowsFromSaves'
  <2> SUFFICES ASSUME NEW p \in Profiles, rows[p] # None,
                      rows[p].about = p, rows[p].shape = "envelope"
               PROVE  SavedAfter(p, rows[p])
    BY <1>1 DEF RowsFromSaves, Saved, SavedAfter
  <2> QED BY <1>6 DEF Inv, RowsFromSaves
<1>8. StaleWasLive'
  <2> SUFFICES ASSUME NEW r \in Requests, req'[r].kind = "stale"
               PROVE  SavedAfter(req[r].profile, req[r].body)
    BY <1>2 DEF StaleWasLive, SavedAfter
  <2>1. Saved(req[r].profile, req[r].body)
    BY <1>2 DEF Inv, StaleWasLive, Saved
  <2> QED BY <1>6, <2>1
<1>9. AckedInTable'
  BY <1>1 DEF Inv, AckedInTable
<1>10. RowsForward
  <2>1. \A p \in Profiles : rows[p] # None => rows[p].fetched_at \in Nat
    BY DEF Inv, Typed, TypeOK, Row, Times
  <2>2. rows' = rows
    BY <1>1
  <2> QED BY <2>1, <2>2 DEF RowsForward
<1> QED BY <1>3, <1>4, <1>5, <1>7, <1>8, <1>9, <1>10 DEF Inv, Typed

\* A damaged row is no longer one that can be served, and is no younger.
LEMMA DamageStep ==
  ASSUME Inv, NEW p \in Profiles, NEW a \in Profiles,
         NEW shape \in {"envelope", "broken"}, Damage(p, a, shape)
  PROVE  Inv' /\ RowsForward
<1> DEFINE new == [rows[p] EXCEPT !.about = a, !.shape = shape]
<1>1. /\ rows \in [Profiles -> Row \cup {None}] /\ rows[p] \in Row
      /\ UNCHANGED <<version, req, acked>>
  BY Known DEF Damage, Inv, Typed, TypeOK
<1>2. /\ new \in Row /\ new.fetched_at = rows[p].fetched_at
      /\ new.about = a /\ new.shape = shape
  BY <1>1 DEF Row
<1>3. rows' = [rows EXCEPT ![p] = new]
  BY <1>1 DEF Damage
<1>4. /\ rows'[p] = new /\ \A q \in Profiles \ {p} : rows'[q] = rows[q]
      /\ rows' \in [Profiles -> Row \cup {None}]
  BY <1>1, <1>2, <1>3
<1>5. \A q \in Profiles : rows[q] # None =>
         rows'[q] # None /\ rows'[q].fetched_at = rows[q].fetched_at
  BY <1>2, <1>4, NoneIsNoRow
<1>6. RowsForward
  BY <1>1, <1>5 DEF RowsForward, Row, Times
<1>7. Typed'
  BY <1>1, <1>4 DEF Inv, Typed, TypeOK, ShapedOK, Shaped
<1>8. \A r \in Requests : Ahead(r)'
  <2> SUFFICES ASSUME NEW r \in Requests PROVE Ahead(r)'
    OBVIOUS
  <2>1. Ahead(r) /\ Shaped(req[r])
    BY Known
  <2>2. req[r].write = "landed" => req[r].profile \in Profiles
    BY <2>1 DEF Shaped
  <2> QED BY <1>1, <1>5, <2>1, <2>2 DEF Ahead
<1>9. AckedInTable' /\ StaleWasLive'
  BY <1>1, <1>5 DEF Inv, AckedInTable, StaleWasLive
<1>10. RowsFromSaves'
  <2> SUFFICES ASSUME NEW q \in Profiles, rows'[q] # None,
                      rows'[q].about = q, rows'[q].shape = "envelope"
               PROVE  SavedAfter(q, rows'[q])
    BY DEF RowsFromSaves, Saved, SavedAfter
  <2>1. q # p
    BY <1>2, <1>4 DEF Damage
  <2>2. Saved(q, rows[q])
    BY <1>4, <2>1 DEF Inv, RowsFromSaves
  <2> QED BY <1>1, <1>4, <2>1, <2>2 DEF Saved, SavedAfter
<1> QED BY <1>6, <1>7, <1>8, <1>9, <1>10 DEF Inv

\* Every step keeps the invariant and moves the table forward.
LEMMA InvStep ==
  ASSUME Inv, [Next]_vars
  PROVE  Inv' /\ RowsForward
<1>1. ASSUME NEW r \in Requests,
             \/ \E p \in Profiles : Begin(r, p)
             \/ FetchStep(r) \/ RecordStep(r)
             \/ ThreadStep(r) \/ ReplyStep(r) \/ DeadlineStep(r)
      PROVE  Inv' /\ RowsForward
  BY <1>1, FetchQuiet, ReplyQuiet, SaveLandsStep, SaveReturnedStep,
     LookupServedStep DEF ThreadStep, ReplyStep
<1>2. CASE \E v \in Versions : Deploy(v)
  BY <1>2, DeployStep
<1>3. CASE \E p, a \in Profiles, shape \in {"envelope", "broken"} : Damage(p, a, shape)
  BY <1>3, DamageStep
<1>4. CASE UNCHANGED vars
  <2>1. Inv'
    BY <1>4 DEF vars, Inv, Typed, TypeOK, ShapedOK, Shaped, Ahead, AckedInTable,
       RowsFromSaves, Saved, StaleWasLive
  <2>2. RowsForward
    BY <1>4 DEF vars, RowsForward, Inv, Typed, TypeOK, Row, Times
  <2> QED BY <2>1, <2>2
<1> QED BY <1>1, <1>2, <1>3, <1>4 DEF Next

-----------------------------------------------------------------------------
(* Theorems *)

\* The invariant holds of every behaviour.
THEOREM InvCorrect == Spec => []Inv
<1>1. Inv /\ [Next]_vars => Inv'
  BY InvStep
<1> QED BY <1>1, InvInit, PTL DEF Spec

\* Every state of the cache is well typed.
THEOREM TypeCorrect == Spec => []TypeOK
<1>1. Inv => TypeOK
  BY DEF Inv, Typed
<1> QED BY <1>1, InvCorrect, PTL

\* A record is never replaced by one read earlier.
THEOREM NeverMovesBack == Spec => RecordNeverMovesBack
<1>1. Inv /\ [Next]_vars =>
         [\A p \in Profiles :
             rows[p] # None => /\ rows'[p] # None
                               /\ rows'[p].fetched_at >= rows[p].fetched_at]_vars
  BY InvStep DEF RowsForward
<1> QED BY <1>1, InvCorrect, PTL DEF Spec, RecordNeverMovesBack

\* No answer, live or stale, is about another member than the one asked for.
THEOREM OwnMember == Spec => []NeverAnotherMember
<1>1. Inv => NeverAnotherMember
  <2> SUFFICES ASSUME Inv, NEW r \in Requests, req[r].kind \in {"live", "stale"}
               PROVE  req[r].body.about = req[r].profile
    BY DEF NeverAnotherMember
  <2>1. Shaped(req[r])
    BY Known
  <2> QED BY <2>1 DEF Shaped
<1> QED BY <1>1, InvCorrect, PTL

\* A stale answer is at least as new as any save acknowledged before it.
THEOREM StaleIsRecent == Spec => []StaleKeepsUp
<1>1. Inv => StaleKeepsUp
  BY DEF Inv, Ahead, StaleKeepsUp
<1> QED BY <1>1, InvCorrect, PTL

\* A stale answer is one that was read from LinkedIn for this profile.
THEOREM StaleIsGenuine == Spec => []StaleWasLive
<1>1. Inv => StaleWasLive
  BY DEF Inv
<1> QED BY <1>1, InvCorrect, PTL

-----------------------------------------------------------------------------
(* The refinement *)

\* The abstract state, as the instance substitutes it.
Last  == [p \in Profiles |-> TimeOf(rows[p])]
Asked == [r \in Requests |-> req[r].profile]
Shown == [r \in Requests |-> [kind       |-> req[r].kind,
                              fetched_at |-> TimeOf(req[r].body)]]

Answered(q) == [kind |-> q.kind, fetched_at |-> TimeOf(q.body)]

\* A step of r that leaves the table alone shows in r's part of the abstract
\* state only.
LEMMA ShownOne ==
  ASSUME Inv, NEW r \in Requests, NEW new,
         req' = [req EXCEPT ![r] = new], rows' = rows
  PROVE  /\ Last' = Last
         /\ Asked' = [Asked EXCEPT ![r] = new.profile]
         /\ Shown' = [Shown EXCEPT ![r] = Answered(new)]
<1>1. req'[r] = new /\ \A q \in Requests \ {r} : req'[q] = req[q]
  BY Known
<1>2. Last' = Last
  BY DEF Last, TimeOf
<1>3. \A q \in Requests : Asked'[q] = [Asked EXCEPT ![r] = new.profile][q]
  BY <1>1 DEF Asked
<1>4. \A q \in Requests :
        Shown'[q] = [Shown EXCEPT ![r] = Answered(new)][q]
  BY <1>1 DEF Shown, TimeOf, Answered
<1> QED BY <1>2, <1>3, <1>4 DEF Shown, Asked

\* ... and in nothing, if it neither begins nor ends a request.
LEMMA Hidden ==
  ASSUME Inv, NEW r \in Requests, NEW new,
         req' = [req EXCEPT ![r] = new], rows' = rows,
         new.profile = req[r].profile, new.kind = req[r].kind,
         new.body = req[r].body
  PROVE  UNCHANGED <<Last, Asked, Shown>>
<1>1. Answered(new) = Shown[r] /\ new.profile = Asked[r]
  BY DEF Answered, Shown, Asked
<1>2. [Shown EXCEPT ![r] = Answered(new)] = Shown
  BY <1>1 DEF Shown
<1>3. [Asked EXCEPT ![r] = new.profile] = Asked
  BY <1>1 DEF Asked
<1> QED BY <1>2, <1>3, ShownOne

\* The initial states are initial.
LEMMA InitImplements == Init => Abstract!Init
BY DEF Init, Abstract!Init, Abstract!Nothing, Abstract!Shown, TimeOf, Nothing

\* A request in flight is pending.
LEMMA PendingInFlight ==
  ASSUME Inv, NEW r \in Requests, InFlight(r)
  PROVE  Abstract!Pending(r) /\ Asked[r] = req[r].profile
                             /\ req[r].profile \in Profiles
<1>1. Shaped(req[r])
  BY Known
<1>2. req[r].profile \in Profiles /\ req[r].kind = "none"
  BY <1>1 DEF InFlight, Shaped
<1> QED BY <1>2, NoneIsNoRow DEF Abstract!Pending, Asked

\* Ending a request in flight answers it.
LEMMA AnswerShown ==
  ASSUME Inv, NEW r \in Requests, InFlight(r), NEW kind, NEW body,
         Answer(r, kind, body), rows' = rows
  PROVE  /\ Last' = Last /\ Asked' = Asked
         /\ Shown' = [Shown EXCEPT ![r] = [kind |-> kind,
                                           fetched_at |-> TimeOf(body)]]
<1> DEFINE new == [req[r] EXCEPT !.pc = "done", !.kind = kind, !.body = body]
<1>1. req' = [req EXCEPT ![r] = new]
  BY DEF Answer
<1>2. new.profile = req[r].profile /\ new.kind = kind /\ new.body = body
  BY Known DEF Request
<1>3. [Asked EXCEPT ![r] = new.profile] = Asked
  BY <1>2 DEF Asked
<1>4. /\ Last' = Last /\ Asked' = [Asked EXCEPT ![r] = new.profile]
      /\ Shown' = [Shown EXCEPT ![r] = Answered(new)]
  BY <1>1, ShownOne
<1>5. Answered(new) = [kind |-> kind, fetched_at |-> TimeOf(body)]
  BY <1>2 DEF Answered
<1> QED BY <1>3, <1>4, <1>5

\* An error is an abstract error.
LEMMA ErrorImplements ==
  ASSUME Inv, NEW r \in Requests, InFlight(r), Answer(r, "error", None),
         rows' = rows
  PROVE  Abstract!AnswerError(r)
<1>1. TimeOf(None) = Nothing
  BY DEF TimeOf
<1> QED BY <1>1, PendingInFlight, AnswerShown
        DEF Abstract!AnswerError, Abstract!Shown, Abstract!Nothing, Nothing,
            Last, Asked, Shown

\* A step of the fetch asks, hides, or answers with an error.
LEMMA FetchImplements ==
  ASSUME Inv, NEW r \in Requests,
         (\E p \in Profiles : Begin(r, p)) \/ FetchStep(r) \/ RecordStep(r)
  PROVE  Abstract!Next \/ UNCHANGED <<Last, Asked, Shown>>
<1>0. req[r] \in Request /\ Shaped(req[r])
  BY Known
<1>1. ASSUME NEW p \in Profiles, Begin(r, p)
      PROVE  Abstract!Ask(r, p)
  <2> DEFINE new == [req[r] EXCEPT !.pc = "fetching", !.profile = p]
  <2>1. req' = [req EXCEPT ![r] = new] /\ rows' = rows
    BY <1>1 DEF Begin
  <2>2. /\ new.profile = p /\ new.kind = req[r].kind /\ new.body = req[r].body
    BY <1>0 DEF Request
  <2>3. [Shown EXCEPT ![r] = Answered(new)] = Shown
    BY <2>2 DEF Answered, Shown
  <2>4. Asked[r] = None
    BY <1>0, <1>1 DEF Begin, Shaped, Asked
  <2>5. /\ Last' = Last /\ Asked' = [Asked EXCEPT ![r] = new.profile]
        /\ Shown' = [Shown EXCEPT ![r] = Answered(new)]
    BY <2>1, ShownOne
  <2>6. /\ Shown' = Shown /\ Asked' = [Asked EXCEPT ![r] = p]
    BY <2>2, <2>3, <2>5
  <2> QED BY <2>4, <2>5, <2>6 DEF Abstract!Ask, Last, Asked, Shown
<1>2. ASSUME NEW a \in Profiles, NEW t \in Times, CoreRead(r, a, t)
      PROVE  UNCHANGED <<Last, Asked, Shown>>
  <2> DEFINE new == [req[r] EXCEPT !.pc = "reading",
                                   !.record = [about |-> a, shape |-> "envelope",
                                               envelope_version |-> version,
                                               fetched_at |-> t]]
  <2>1. req' = [req EXCEPT ![r] = new] /\ rows' = rows
    BY <1>2 DEF CoreRead
  <2>2. new.profile = req[r].profile /\ new.kind = req[r].kind
        /\ new.body = req[r].body
    BY <1>0 DEF Request
  <2> QED BY <2>1, <2>2, Hidden
<1>3. ASSUME FetchAnswered(r) \/ FetchExpired(r)
      PROVE  UNCHANGED <<Last, Asked, Shown>>
  <2> DEFINE new(to) == [req[r] EXCEPT !.pc = to]
  <2>1. PICK to \in Recording : req' = [req EXCEPT ![r] = new(to)] /\ rows' = rows
    BY <1>3 DEF FetchAnswered, FetchExpired, Recording
  <2>2. /\ new(to).profile = req[r].profile /\ new(to).kind = req[r].kind
        /\ new(to).body = req[r].body
    BY <1>0 DEF Request
  <2> QED BY <2>1, <2>2, Hidden
<1>4. ASSUME AnswerRecorded(r) PROVE UNCHANGED <<Last, Asked, Shown>>
  <2> DEFINE new == [req[r] EXCEPT !.pc = "saving", !.write = "sent"]
  <2>1. req' = [req EXCEPT ![r] = new] /\ rows' = rows
    BY <1>4 DEF AnswerRecorded
  <2>2. new.profile = req[r].profile /\ new.kind = req[r].kind
        /\ new.body = req[r].body
    BY <1>0 DEF Request
  <2> QED BY <2>1, <2>2, Hidden
<1>5. ASSUME FetchFailed(r) PROVE UNCHANGED <<Last, Asked, Shown>>
  <2> DEFINE new == [req[r] EXCEPT !.pc = "looking_up",
                                   !.floor = acked[req[r].profile]]
  <2>1. req' = [req EXCEPT ![r] = new] /\ rows' = rows
    BY <1>5 DEF FetchFailed
  <2>2. new.profile = req[r].profile /\ new.kind = req[r].kind
        /\ new.body = req[r].body
    BY <1>0 DEF Request
  <2> QED BY <2>1, <2>2, Hidden
<1>6. ASSUME FetchRefused(r) \/ MemberMismatch(r) \/ RefusalRecorded(r)
      PROVE  Abstract!AnswerError(r)
  <2>1. InFlight(r) /\ Answer(r, "error", None) /\ rows' = rows
    BY <1>6 DEF MemberMismatch, FetchRefused, RefusalRecorded, InFlight
  <2> QED BY <2>1, ErrorImplements
<1> QED BY <1>1, <1>2, <1>3, <1>4, <1>5, <1>6
        DEF FetchStep, RecordStep, Abstract!Next

\* An answer after a save is live, an answer from the cache stale.
LEMMA ReplyImplements ==
  ASSUME Inv, NEW r \in Requests,
         SaveVanishes(r) \/ ReplyStep(r) \/ DeadlineStep(r)
  PROVE  Abstract!Next \/ UNCHANGED <<Last, Asked, Shown>>
<1>0. req[r] \in Request /\ Shaped(req[r])
  BY Known
<1>1. ASSUME SaveVanishes(r) PROVE UNCHANGED <<Last, Asked, Shown>>
  <2> DEFINE new == [req[r] EXCEPT !.write = "failed"]
  <2>1. req' = [req EXCEPT ![r] = new] /\ rows' = rows
    BY <1>1 DEF SaveVanishes
  <2>2. new.profile = req[r].profile /\ new.kind = req[r].kind
        /\ new.body = req[r].body
    BY <1>0 DEF Request
  <2> QED BY <2>1, <2>2, Hidden
<1>2. ASSUME SaveReturned(r) \/ SaveAbandoned(r)
      PROVE  Abstract!Next
  <2> DEFINE record == req[r].record
  <2>1. /\ InFlight(r) /\ req[r].pc = "saving"
        /\ Answer(r, "live", record) /\ rows' = rows
    BY <1>2 DEF SaveReturned, SaveAbandoned, InFlight
  <2>2. record \in Row
    BY <1>0, <2>1 DEF Shaped
  <2>3. record.fetched_at \in Times /\ TimeOf(record) = record.fetched_at
    BY <2>2, NoneIsNoRow DEF TimeOf, Row
  <2>4. PICK t \in Times : t = TimeOf(record)
    BY <2>3
  <2>5. Abstract!AnswerLive(r, t)
    BY <2>1, <2>4, PendingInFlight, AnswerShown
       DEF Abstract!AnswerLive, Abstract!Shown, Last, Asked, Shown
  <2> QED BY <2>5 DEF Abstract!Next
<1>3. ASSUME LookupServed(r) PROVE Abstract!AnswerStale(r)
  <2> DEFINE p == req[r].profile
  <2>1. /\ InFlight(r) /\ Answer(r, "stale", rows[p]) /\ rows' = rows
        /\ rows[p] # None
    BY <1>3 DEF LookupServed, InFlight
  <2>2. p \in Profiles /\ Asked[r] = p /\ Abstract!Pending(r)
    BY <2>1, PendingInFlight
  <2>3. Last[p] = TimeOf(rows[p]) /\ TimeOf(rows[p]) # Nothing
    BY <2>1, <2>2, Known DEF Last, TimeOf, Row, Times, Nothing
  <2>4. Shown' = [Shown EXCEPT ![r] = [kind |-> "stale", fetched_at |-> Last[p]]]
        /\ Last' = Last /\ Asked' = Asked
    BY <2>1, <2>3, AnswerShown
  <2> QED BY <2>2, <2>3, <2>4
          DEF Abstract!AnswerStale, Abstract!Shown, Abstract!Nothing, Nothing,
              Last, Asked, Shown
<1>4. ASSUME LookupUseless(r) \/ LookupAbandoned(r)
      PROVE  Abstract!AnswerError(r)
  <2>1. InFlight(r) /\ Answer(r, "error", None) /\ rows' = rows
    BY <1>4 DEF LookupUseless, LookupAbandoned, InFlight
  <2> QED BY <2>1, ErrorImplements
<1> QED BY <1>1, <1>2, <1>3, <1>4 DEF ReplyStep, DeadlineStep, Abstract!Next

\* A save that lands keeps its record, unless a newer one is there.
LEMMA SaveImplements ==
  ASSUME Inv, NEW r \in Requests, SaveLands(r)
  PROVE  Abstract!Next \/ UNCHANGED <<Last, Asked, Shown>>
<1> DEFINE p      == req[r].profile
           record == req[r].record
           new    == [req[r] EXCEPT !.write = "landed"]
<1>1. /\ req[r] \in Request /\ Shaped(req[r])
      /\ rows \in [Profiles -> Row \cup {None}] /\ req \in [Requests -> Request]
  BY Known
<1>2. record \in Row /\ p \in Profiles
  BY <1>1 DEF SaveLands, Shaped
<1>3. /\ req' = [req EXCEPT ![r] = new] /\ rows' = Upserted(p, record)
      /\ new.profile = p /\ new.kind = req[r].kind /\ new.body = req[r].body
  BY <1>1 DEF SaveLands, Request
<1>4. Asked' = Asked /\ Shown' = Shown
  <2>1. \A q \in Requests : /\ req'[q].profile = req[q].profile
                             /\ req'[q].kind = req[q].kind
                             /\ req'[q].body = req[q].body
    BY <1>1, <1>3
  <2> QED BY <2>1 DEF Asked, Shown, TimeOf
<1>5. CASE rows' = rows
  BY <1>4, <1>5 DEF Last, TimeOf
<1>6. CASE rows' # rows
  <2>1. /\ rows' = [rows EXCEPT ![p] = record]
        /\ rows[p] = None \/ rows[p].fetched_at <= record.fetched_at
    BY <1>3, <1>6 DEF Upserted
  <2>2. /\ rows'[p] = record /\ \A q \in Profiles \ {p} : rows'[q] = rows[q]
    BY <1>1, <1>2, <2>1
  <2>3. TimeOf(record) = record.fetched_at /\ record.fetched_at \in Times
    BY <1>2, NoneIsNoRow DEF TimeOf, Row
  <2>4. record.fetched_at >= Last[p]
    BY <1>1, <1>2, <2>1, <2>3 DEF Last, TimeOf, Row, Times, Nothing
  <2>5. \A q \in Profiles :
           TimeOf(rows'[q]) = IF q = p THEN record.fetched_at ELSE TimeOf(rows[q])
    BY <2>2, <2>3
  <2>6. [q \in Profiles |-> TimeOf(rows'[q])]
           = [[q \in Profiles |-> TimeOf(rows[q])] EXCEPT ![p] = record.fetched_at]
    BY <2>5
  <2>7. Last' = [Last EXCEPT ![p] = record.fetched_at]
    BY <2>6 DEF Last, TimeOf
  <2>8. Abstract!Keep(p, record.fetched_at)
    BY <1>4, <2>4, <2>7 DEF Abstract!Keep, Last, Asked, Shown
  <2> QED BY <1>2, <2>3, <2>8 DEF Abstract!Next
<1> QED BY <1>5, <1>6

\* Replacing the container disconnects whoever is in flight.
LEMMA DeployImplements ==
  ASSUME Inv, NEW v \in Versions, Deploy(v)
  PROVE  Abstract!Next
<1>0. PICK R \in SUBSET Requests : R = {r \in Requests : InFlight(r)}
  OBVIOUS
<1>1. rows' = rows /\ \A r \in Requests :
        req'[r] = IF r \in R THEN [req[r] EXCEPT !.pc = "done", !.kind = "error"]
                             ELSE req[r]
  BY <1>0 DEF Deploy
<1>2. \A r \in R : /\ req'[r].profile = req[r].profile
                    /\ req'[r].kind = "error" /\ req'[r].body = None
  <2> SUFFICES ASSUME NEW r \in R
               PROVE  /\ req'[r].profile = req[r].profile
                      /\ req'[r].kind = "error" /\ req'[r].body = None
    OBVIOUS
  <2>1. req[r] \in Request /\ Shaped(req[r]) /\ InFlight(r)
    BY <1>0, Known
  <2>2. req[r].body = None
    BY <2>1 DEF InFlight, Shaped
  <2> QED BY <1>1, <2>1, <2>2 DEF Request
<1>3. Last' = Last
  BY <1>1 DEF Last, TimeOf
<1>4. Asked' = Asked
  BY <1>1, <1>2 DEF Asked
<1>5. Shown' = [r \in Requests |-> IF r \in R
                                    THEN [kind |-> "error", fetched_at |-> Nothing]
                                    ELSE Shown[r]]
  BY <1>1, <1>2 DEF Shown, TimeOf
<1>6. \A r \in R : Abstract!Pending(r)
  BY <1>0, PendingInFlight
<1>7. Abstract!Disconnect(R)
  BY <1>3, <1>4, <1>5, <1>6
     DEF Abstract!Disconnect, Abstract!Shown, Abstract!Nothing, Nothing,
         Last, Asked, Shown
<1> QED BY <1>7 DEF Abstract!Next

\* Damage to a row is not seen: it keeps its time and is never served.
LEMMA DamageImplements ==
  ASSUME Inv, NEW p \in Profiles, NEW a \in Profiles,
         NEW shape \in {"envelope", "broken"}, Damage(p, a, shape)
  PROVE  UNCHANGED <<Last, Asked, Shown>>
<1> DEFINE new == [rows[p] EXCEPT !.about = a, !.shape = shape]
<1>1. rows \in [Profiles -> Row \cup {None}] /\ rows[p] \in Row /\ req' = req
  BY DEF Damage, Inv, Typed, TypeOK
<1>2. new \in Row /\ new.fetched_at = rows[p].fetched_at
  BY <1>1 DEF Row
<1>3. rows' = [rows EXCEPT ![p] = new]
  BY <1>1 DEF Damage
<1>4. \A q \in Profiles : TimeOf(rows'[q]) = TimeOf(rows[q])
  BY <1>1, <1>2, <1>3, NoneIsNoRow DEF TimeOf
<1>5. [q \in Profiles |-> TimeOf(rows'[q])] = [q \in Profiles |-> TimeOf(rows[q])]
  BY <1>4
<1>6. Last' = Last
  BY <1>5 DEF Last, TimeOf
<1>7. Asked' = Asked /\ Shown' = Shown
  BY <1>1 DEF Asked, Shown, TimeOf
<1> QED BY <1>6, <1>7

\* The table, its threads and its deadlines implement the register of last
\* good records.
THEOREM Implements == Spec => ImplementsLastGoodRecord
<1>1. Inv /\ [Next]_vars => [Abstract!Next]_(Abstract!vars)
  <2> SUFFICES ASSUME Inv, [Next]_vars
               PROVE  Abstract!Next \/ UNCHANGED <<Last, Asked, Shown>>
    BY DEF Abstract!vars, Last, Asked, Shown
  <2>1. CASE \E r \in Requests :
               \/ \E p \in Profiles : Begin(r, p)
               \/ FetchStep(r) \/ RecordStep(r)
               \/ ThreadStep(r) \/ ReplyStep(r) \/ DeadlineStep(r)
    BY <2>1, FetchImplements, ReplyImplements, SaveImplements DEF ThreadStep
  <2>2. CASE \E v \in Versions : Deploy(v)
    BY <2>2, DeployImplements
  <2>3. CASE \E p, a \in Profiles, shape \in {"envelope", "broken"} :
               Damage(p, a, shape)
    BY <2>3, DamageImplements
  <2>4. CASE UNCHANGED vars
    BY <2>4 DEF vars, Last, Asked, Shown, TimeOf
  <2> QED BY <2>1, <2>2, <2>3, <2>4 DEF Next
<1> QED BY <1>1, InitImplements, InvCorrect, PTL
        DEF Spec, ImplementsLastGoodRecord, Abstract!Spec
=============================================================================
