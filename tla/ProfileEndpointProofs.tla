------------------------ MODULE ProfileEndpointProofs ------------------------
(***************************************************************************)
(* Theorems about ProfileEndpoint, for any callers, requests and workers.  *)
(* They are about what requests hold and what is stored; of the queue they *)
(* need nothing but that it says which job ends.                           *)
(***************************************************************************)
EXTENDS ProfileEndpoint, SequenceTheorems, TLAPS

Types ==
  /\ session \in [Callers -> Session \cup {None}]
  /\ record \in Requests \cup {Earlier, None}
  /\ req \in [Requests -> Request]

\* What a profile request holds in each phase.
GetOK(q) ==
  /\ q.pc \in {"idle", "unlock", "fetch", "record", "lookup", "save", "done"}
  /\ q.pc = "idle" <=> q.caller = None
  /\ q.pc \in {"idle", "unlock"} => q.held = None
  /\ q.pc \in {"idle", "unlock", "fetch"} => q.outcome = "none" /\ q.verdict = "null"
  /\ q.pc \in {"fetch", "record", "lookup", "save"} => q.held # None
  /\ q.pc = "record" => /\ q.outcome \in {"profile", "stranger", "expired"}
                        /\ q.verdict = VerdictOf(q.outcome)
  /\ q.pc = "lookup" => q.outcome \in {"expired", "missing", "mismatch", "upstream"}
  /\ q.pc = "save" => q.outcome = "profile"
  /\ q.pc # "done" => q.status = "none"
  /\ q.status = "live" => q.outcome = "profile"
  /\ q.status = "stale" => q.outcome = "upstream"

\* What a PUT of p holds.
PutOK(p, q) ==
  /\ q.pc \in {"idle", "store", "verify", "record", "done"}
  /\ q.outcome = "none"
  /\ q.pc = "idle" <=> q.caller = None
  /\ q.pc \in {"idle", "store"} => q.held = None
  /\ q.pc \in {"idle", "store", "verify"} => q.verdict = "null"
  /\ q.pc \in {"verify", "record"} => q.held = p
  /\ q.pc = "record" => q.verdict # "null"

OK(r, q) == IF r \in Gets THEN GetOK(q) ELSE PutOK(r, q)

Phases == \A r \in Requests : OK(r, req[r])

Inv == Types /\ Phases /\ VerdictIsEarned

\* What r holds may be added to and not changed.
Keeps(r, q) ==
  /\ req[r].caller # None   => q.caller = req[r].caller
  /\ req[r].held # None     => q.held = req[r].held
  /\ req[r].outcome # "none" => q.outcome = req[r].outcome
  /\ req[r].verdict # "null" => q.verdict = req[r].verdict

\* A step of r's own: it comes to hold q.
Holds(r, q) ==
  /\ q \in Request
  /\ req' = [req EXCEPT ![r] = q]
  /\ OK(r, q)
  /\ Keeps(r, q)

LEMMA InvInit == Init => Inv
BY RequestsAssumption, NoneIsNoSession
   DEF Init, Inv, Types, Phases, OK, GetOK, PutOK, VerdictIsEarned, Session,
        Request, Requests, Verdicts, Outcomes

\* VerdictIsEarned of one row.
Earned(c, row) ==
  row # None /\ row.stored_at # Earlier /\ row.ok # "null" =>
    \E r \in Requests :
      /\ req[r].caller = c /\ req[r].held = row.stored_at
      /\ row.ok = "true"  => \/ r \in Puts /\ req[r].verdict = "true"
                             \/ req[r].outcome \in {"profile", "stranger"}
      /\ row.ok = "false" => \/ r \in Puts /\ req[r].verdict = "false"
                             \/ req[r].outcome = "expired"

\* What a verdict was earned by is not taken back.
LEMMA EarnedStays ==
  ASSUME Inv, NEW r \in Requests, NEW q, Holds(r, q),
         NEW c \in Callers, NEW row \in Session, row = session[c]
  PROVE  Earned(c, row)'
<1> SUFFICES ASSUME row.stored_at # Earlier, row.ok # "null"
             PROVE  \E p \in Requests :
                      /\ req'[p].caller = c /\ req'[p].held = row.stored_at
                      /\ row.ok = "true" =>
                           \/ p \in Puts /\ req'[p].verdict = "true"
                           \/ req'[p].outcome \in {"profile", "stranger"}
                      /\ row.ok = "false" =>
                           \/ p \in Puts /\ req'[p].verdict = "false"
                           \/ req'[p].outcome = "expired"
  BY DEF Earned
<1>1. PICK p \in Requests :
         /\ req[p].caller = c /\ req[p].held = row.stored_at
         /\ row.ok = "true" =>
              \/ p \in Puts /\ req[p].verdict = "true"
              \/ req[p].outcome \in {"profile", "stranger"}
         /\ row.ok = "false" =>
              \/ p \in Puts /\ req[p].verdict = "false"
              \/ req[p].outcome = "expired"
  BY NoneIsNoSession DEF Inv, VerdictIsEarned
<1>2. req[p].caller # None /\ req[p].held # None
  BY <1>1, RequestsAssumption DEF Session, Requests
<1>3. CASE p # r
  BY <1>1, <1>3 DEF Holds, Inv, Types
<1>4. CASE p = r
  <2>1. req'[p] = q
    BY <1>4 DEF Holds, Inv, Types
  <2> QED BY <1>1, <1>2, <1>4, <2>1 DEF Holds, Keeps
<1> QED BY <1>3, <1>4

LEMMA EarnedByAll == VerdictIsEarned <=> \A c \in Callers : Earned(c, session[c])
BY DEF VerdictIsEarned, Earned

\* A step of r's own, and at most one row written: its caller's, with no verdict
\* but one that r has earned under the cookie of that row.
LEMMA Step ==
  ASSUME Inv, NEW r \in Requests, NEW q, Holds(r, q),
         record' \in Requests \cup {Earlier, None},
         session' \in [Callers -> Session \cup {None}],
         \A c \in Callers :
           \/ session'[c] = session[c]
           \/ session'[c] \in Session /\ session'[c].ok = "null"
           \/ /\ c = q.caller /\ session'[c] \in Session
              /\ session'[c].stored_at = q.held
              /\ session'[c].ok = "true"  => \/ r \in Puts /\ q.verdict = "true"
                                             \/ q.outcome \in {"profile", "stranger"}
              /\ session'[c].ok = "false" => \/ r \in Puts /\ q.verdict = "false"
                                             \/ q.outcome = "expired"
  PROVE  Inv'
<1>1. Types'
  BY DEF Inv, Types, Holds
<1>2. Phases'
  BY DEF Inv, Types, Phases, Holds
<1>3. req'[r] = q
  BY DEF Holds, Inv, Types
<1>4. ASSUME NEW c \in Callers PROVE Earned(c, session[c])'
  <2>1. CASE session'[c] = session[c]
    <3>1. CASE session[c] = None
      BY <2>1, <3>1 DEF Earned
    <3>2. CASE session[c] # None
      <4>1. PICK row \in Session : row = session[c]
        BY <3>2 DEF Inv, Types
      <4>2. Earned(c, row)'
        BY <4>1, EarnedStays
      <4> QED BY <2>1, <4>1, <4>2 DEF Earned
    <3> QED BY <3>1, <3>2
  <2>2. CASE session'[c].ok = "null"
    BY <2>2 DEF Earned
  <2>3. CASE /\ c = q.caller /\ session'[c].stored_at = q.held
             /\ session'[c].ok = "true"  => \/ r \in Puts /\ q.verdict = "true"
                                            \/ q.outcome \in {"profile", "stranger"}
             /\ session'[c].ok = "false" => \/ r \in Puts /\ q.verdict = "false"
                                            \/ q.outcome = "expired"
    BY <1>3, <2>3 DEF Earned
  <2> QED BY <2>1, <2>2, <2>3
<1>5. VerdictIsEarned'
  BY <1>4 DEF VerdictIsEarned, Earned
<1> QED BY <1>1, <1>2, <1>5 DEF Inv

\* A step that leaves the session table alone.
LEMMA OwnStep ==
  ASSUME Inv, NEW r \in Requests, NEW q, Holds(r, q),
         UNCHANGED session, record' \in Requests \cup {Earlier, None}
  PROVE  Inv'
BY Step DEF Inv, Types

\* A profile request, one step after the other.
LEMMA GetReceivedKeeps ==
  ASSUME Inv, NEW r \in Gets, NEW c \in Callers, GetReceived(r, c)
  PROVE  Inv'
<1> DEFINE q == [[req[r] EXCEPT !.caller = c] EXCEPT !.pc = "unlock"]
<1>1. req[r] \in Request /\ OK(r, req[r]) /\ r \in Requests
  BY DEF Inv, Types, Phases, Requests
<1>2. q \in Request
  BY <1>1 DEF Request, Kinds, GetReceived, Awaits
<1>3. /\ req' = [req EXCEPT ![r] = q]
      /\ UNCHANGED session
      /\ record' \in Requests \cup {Earlier, None}
  BY <1>1 DEF Inv, Types, Requests, GetReceived, Awaits
<1>4. OK(r, q) /\ Keeps(r, q)
  BY <1>1, RequestsAssumption
     DEF OK, GetOK, PutOK, Keeps, Request, Requests, GetReceived, Awaits
<1> HIDE DEF q
<1> QED BY <1>1, <1>2, <1>3, <1>4, OwnStep DEF Holds

LEMMA UnlockRefusedKeeps ==
  ASSUME Inv, NEW r \in Gets, UnlockRefused(r)
  PROVE  Inv'
<1> DEFINE q == [req[r] EXCEPT !.pc = "done", !.status = "428"]
<1>1. req[r] \in Request /\ OK(r, req[r]) /\ r \in Requests
  BY DEF Inv, Types, Phases, Requests
<1>2. q \in Request
  BY <1>1 DEF Request, Kinds, UnlockRefused, Ends, Answer
<1>3. /\ req' = [req EXCEPT ![r] = q]
      /\ UNCHANGED session
      /\ record' \in Requests \cup {Earlier, None}
  BY <1>1 DEF Inv, Types, Requests, UnlockRefused, Ends, Answer
<1>4. OK(r, q) /\ Keeps(r, q)
  BY <1>1, RequestsAssumption
     DEF OK, GetOK, PutOK, Keeps, Request, Requests, UnlockRefused, Ends, Answer
<1> HIDE DEF q
<1> QED BY <1>1, <1>2, <1>3, <1>4, OwnStep DEF Holds

LEMMA UnlockFailedKeeps ==
  ASSUME Inv, NEW r \in Gets, UnlockFailed(r)
  PROVE  Inv'
<1> DEFINE q == [req[r] EXCEPT !.pc = "done", !.status = "503"]
<1>1. req[r] \in Request /\ OK(r, req[r]) /\ r \in Requests
  BY DEF Inv, Types, Phases, Requests
<1>2. q \in Request
  BY <1>1 DEF Request, Kinds, UnlockFailed, Ends, Answer
<1>3. /\ req' = [req EXCEPT ![r] = q]
      /\ UNCHANGED session
      /\ record' \in Requests \cup {Earlier, None}
  BY <1>1 DEF Inv, Types, Requests, UnlockFailed, Ends, Answer
<1>4. OK(r, q) /\ Keeps(r, q)
  BY <1>1, RequestsAssumption
     DEF OK, GetOK, PutOK, Keeps, Request, Requests, UnlockFailed, Ends, Answer
<1> HIDE DEF q
<1> QED BY <1>1, <1>2, <1>3, <1>4, OwnStep DEF Holds

LEMMA FetchedKeeps ==
  ASSUME Inv, NEW r \in Gets, NEW o \in Outcomes, Fetched(r, o)
  PROVE  Inv'
<1> DEFINE q == [[req[r] EXCEPT !.outcome = o, !.verdict = VerdictOf(o)]
                  EXCEPT !.pc = IF VerdictOf(o) # "null" THEN "record" ELSE "lookup"]
<1>1. req[r] \in Request /\ OK(r, req[r]) /\ r \in Requests
  BY DEF Inv, Types, Phases, Requests
<1>2. q \in Request
  BY <1>1 DEF Request, Kinds, Fetched, Ends, Awaits, VerdictOf, Outcomes, Verdicts
<1>3. /\ req' = [req EXCEPT ![r] = q]
      /\ UNCHANGED session
      /\ record' \in Requests \cup {Earlier, None}
  BY <1>1
     DEF Inv, Types, Requests, Fetched, Ends, Awaits, VerdictOf, Outcomes,
         Verdicts
<1>4. OK(r, q) /\ Keeps(r, q)
  BY <1>1, RequestsAssumption
     DEF OK, GetOK, PutOK, Keeps, Request, Requests, Fetched, Ends, Awaits,
         VerdictOf, Outcomes, Verdicts
<1> HIDE DEF q
<1> QED BY <1>1, <1>2, <1>3, <1>4, OwnStep DEF Holds

LEMMA FetchDeadlineKeeps ==
  ASSUME Inv, NEW r \in Requests, FetchDeadline(r)
  PROVE  Inv'
<1> DEFINE q == [req[r] EXCEPT !.pc = "lookup", !.outcome = "upstream"]
<1>1. req[r] \in Request /\ OK(r, req[r]) /\ r \in Requests
  BY DEF Inv, Types, Phases, Requests
<1>2. q \in Request
  BY <1>1 DEF Request, Kinds, FetchDeadline, Outcomes
<1>3. /\ req' = [req EXCEPT ![r] = q]
      /\ UNCHANGED session
      /\ record' \in Requests \cup {Earlier, None}
  BY <1>1 DEF Inv, Types, Requests, FetchDeadline, Outcomes
<1>4. OK(r, q) /\ Keeps(r, q)
  BY <1>1, RequestsAssumption
     DEF OK, GetOK, PutOK, Keeps, Request, Requests, FetchDeadline, Outcomes
<1> HIDE DEF q
<1> QED BY <1>1, <1>2, <1>3, <1>4, OwnStep DEF Holds

LEMMA LookupServedKeeps ==
  ASSUME Inv, NEW r \in Gets, LookupServed(r)
  PROVE  Inv'
<1> DEFINE q == [req[r] EXCEPT !.pc = "done", !.status = "stale"]
<1>1. req[r] \in Request /\ OK(r, req[r]) /\ r \in Requests
  BY DEF Inv, Types, Phases, Requests
<1>2. q \in Request
  BY <1>1 DEF Request, Kinds, LookupServed, Ends, Answer, Retryable
<1>3. /\ req' = [req EXCEPT ![r] = q]
      /\ UNCHANGED session
      /\ record' \in Requests \cup {Earlier, None}
  BY <1>1 DEF Inv, Types, Requests, LookupServed, Ends, Answer, Retryable
<1>4. OK(r, q) /\ Keeps(r, q)
  BY <1>1, RequestsAssumption
     DEF OK, GetOK, PutOK, Keeps, Request, Requests, LookupServed, Ends, Answer,
         Retryable
<1> HIDE DEF q
<1> QED BY <1>1, <1>2, <1>3, <1>4, OwnStep DEF Holds

LEMMA LookupUselessKeeps ==
  ASSUME Inv, NEW r \in Gets, LookupUseless(r)
  PROVE  Inv'
<1> DEFINE q == [req[r] EXCEPT !.pc = "done", !.status = StatusOf(req[r].outcome)]
<1>1. req[r] \in Request /\ OK(r, req[r]) /\ r \in Requests
  BY DEF Inv, Types, Phases, Requests
<1>2. q \in Request
  BY <1>1 DEF Request, Kinds, LookupUseless, Ends, Answer, StatusOf
<1>3. /\ req' = [req EXCEPT ![r] = q]
      /\ UNCHANGED session
      /\ record' \in Requests \cup {Earlier, None}
  BY <1>1 DEF Inv, Types, Requests, LookupUseless, Ends, Answer, StatusOf
<1>4. OK(r, q) /\ Keeps(r, q)
  BY <1>1, RequestsAssumption
     DEF OK, GetOK, PutOK, Keeps, Request, Requests, LookupUseless, Ends,
         Answer, StatusOf
<1> HIDE DEF q
<1> QED BY <1>1, <1>2, <1>3, <1>4, OwnStep DEF Holds

LEMMA LookupDeadlineKeeps ==
  ASSUME Inv, NEW r \in Requests, LookupDeadline(r)
  PROVE  Inv'
<1> DEFINE q == [req[r] EXCEPT !.pc = "done", !.status = StatusOf(req[r].outcome)]
<1>1. req[r] \in Request /\ OK(r, req[r]) /\ r \in Requests
  BY DEF Inv, Types, Phases, Requests
<1>2. q \in Request
  BY <1>1 DEF Request, Kinds, LookupDeadline, StatusOf
<1>3. /\ req' = [req EXCEPT ![r] = q]
      /\ UNCHANGED session
      /\ record' \in Requests \cup {Earlier, None}
  BY <1>1 DEF Inv, Types, Requests, LookupDeadline, StatusOf
<1>4. OK(r, q) /\ Keeps(r, q)
  BY <1>1, RequestsAssumption
     DEF OK, GetOK, PutOK, Keeps, Request, Requests, LookupDeadline, StatusOf
<1> HIDE DEF q
<1> QED BY <1>1, <1>2, <1>3, <1>4, OwnStep DEF Holds

LEMMA SavedKeeps ==
  ASSUME Inv, NEW r \in Gets, Saved(r)
  PROVE  Inv'
<1> DEFINE q == [req[r] EXCEPT !.pc = "done", !.status = "live"]
<1>1. req[r] \in Request /\ OK(r, req[r]) /\ r \in Requests
  BY DEF Inv, Types, Phases, Requests
<1>2. q \in Request
  BY <1>1 DEF Request, Kinds, Saved, Ends, Answer
<1>3. /\ req' = [req EXCEPT ![r] = q]
      /\ UNCHANGED session
      /\ record' \in Requests \cup {Earlier, None}
  BY <1>1 DEF Inv, Types, Requests, Saved, Ends, Answer
<1>4. OK(r, q) /\ Keeps(r, q)
  BY <1>1, RequestsAssumption
     DEF OK, GetOK, PutOK, Keeps, Request, Requests, Saved, Ends, Answer
<1> HIDE DEF q
<1> QED BY <1>1, <1>2, <1>3, <1>4, OwnStep DEF Holds

LEMMA SaveDeadlineKeeps ==
  ASSUME Inv, NEW r \in Requests, SaveDeadline(r)
  PROVE  Inv'
<1> DEFINE q == [req[r] EXCEPT !.pc = "done", !.status = "live"]
<1>1. req[r] \in Request /\ OK(r, req[r]) /\ r \in Requests
  BY DEF Inv, Types, Phases, Requests
<1>2. q \in Request
  BY <1>1 DEF Request, Kinds, SaveDeadline
<1>3. /\ req' = [req EXCEPT ![r] = q]
      /\ UNCHANGED session
      /\ record' \in Requests \cup {Earlier, None}
  BY <1>1 DEF Inv, Types, Requests, SaveDeadline
<1>4. OK(r, q) /\ Keeps(r, q)
  BY <1>1, RequestsAssumption
     DEF OK, GetOK, PutOK, Keeps, Request, Requests, SaveDeadline
<1> HIDE DEF q
<1> QED BY <1>1, <1>2, <1>3, <1>4, OwnStep DEF Holds

\* A PUT, likewise.
LEMMA PutReceivedKeeps ==
  ASSUME Inv, NEW r \in Puts, NEW c \in Callers, PutReceived(r, c)
  PROVE  Inv'
<1> DEFINE q == [[req[r] EXCEPT !.caller = c] EXCEPT !.pc = "store"]
<1>1. req[r] \in Request /\ OK(r, req[r]) /\ r \in Requests
  BY DEF Inv, Types, Phases, Requests
<1>2. q \in Request
  BY <1>1 DEF Request, Kinds, PutReceived, Awaits
<1>3. /\ req' = [req EXCEPT ![r] = q]
      /\ UNCHANGED session
      /\ record' \in Requests \cup {Earlier, None}
  BY <1>1 DEF Inv, Types, Requests, PutReceived, Awaits
<1>4. OK(r, q) /\ Keeps(r, q)
  BY <1>1, RequestsAssumption
     DEF OK, GetOK, PutOK, Keeps, Request, Requests, PutReceived, Awaits
<1> HIDE DEF q
<1> QED BY <1>1, <1>2, <1>3, <1>4, OwnStep DEF Holds

\* The bookkeeping after a fetch or a verification, written or not, and what
\* follows it.
LEMMA AfterRecordHolds ==
  ASSUME Inv, NEW r \in Requests, req[r].pc = "record",
         AfterRecord(r) \/ (r \in Puts /\ Answer(r, req[r], "503"))
  PROVE  \E q : /\ Holds(r, q)
               /\ q.held = req[r].held /\ q.caller = req[r].caller
               /\ q.verdict = req[r].verdict /\ q.outcome = req[r].outcome
<1>1. req[r] \in Request /\ OK(r, req[r])
  BY DEF Inv, Types, Phases
<1>2. CASE r \in Puts
  <2>0. Answer(r, req[r], "stored") \/ Answer(r, req[r], "503")
    <3>1. req[r].outcome = "none"
      BY <1>1, <1>2, RequestsAssumption DEF OK, PutOK
    <3> QED BY <1>2, <3>1 DEF AfterRecord
  <2>1. PICK status \in {"stored", "503"} :
          req' = [req EXCEPT ![r] = [req[r] EXCEPT !.pc = "done", !.status = status]]
    BY <2>0 DEF Answer
  <2> DEFINE q == [req[r] EXCEPT !.pc = "done", !.status = status]
  <2>2. q \in Request
    BY <1>1 DEF Request, Kinds
  <2>3. OK(r, q) /\ Keeps(r, q)
    BY <1>1, <1>2, RequestsAssumption DEF OK, PutOK, Keeps, Request
  <2>4. /\ q.held = req[r].held /\ q.caller = req[r].caller
        /\ q.verdict = req[r].verdict /\ q.outcome = req[r].outcome
    BY <1>1 DEF Request
  <2>5. req' = [req EXCEPT ![r] = q]
    BY <2>1
  <2> HIDE DEF q
  <2> QED BY <2>2, <2>3, <2>4, <2>5 DEF Holds
<1>3. CASE r \in Gets
  <2>1. r \notin Puts /\ req[r].outcome \in {"expired", "stranger", "profile"}
    BY <1>1, <1>3, RequestsAssumption DEF OK, GetOK
  <2>2. CASE req[r].outcome = "stranger"
    <3> DEFINE q == [req[r] EXCEPT !.pc = "done", !.status = "502"]
    <3>1. req' = [req EXCEPT ![r] = q]
      BY <2>1, <2>2 DEF AfterRecord, Answer
    <3>2. q \in Request
      BY <1>1 DEF Request, Kinds
    <3>3. OK(r, q) /\ Keeps(r, q)
      BY <1>1, <1>3 DEF OK, GetOK, Keeps, Request
    <3>4. /\ q.held = req[r].held /\ q.caller = req[r].caller
          /\ q.verdict = req[r].verdict /\ q.outcome = req[r].outcome
      BY <1>1 DEF Request
    <3> HIDE DEF q
    <3> QED BY <3>1, <3>2, <3>3, <3>4 DEF Holds
  <2>3. CASE req[r].outcome \in {"expired", "profile"}
    <3> DEFINE q == [req[r] EXCEPT !.pc = IF req[r].outcome = "expired"
                                         THEN "lookup" ELSE "save"]
    <3>1. req' = [req EXCEPT ![r] = q]
      BY <2>1, <2>3 DEF AfterRecord, Awaits
    <3>2. q \in Request
      BY <1>1 DEF Request, Kinds
    <3>3. OK(r, q) /\ Keeps(r, q)
      BY <1>1, <1>3, <2>3 DEF OK, GetOK, Keeps, Request
    <3>4. /\ q.held = req[r].held /\ q.caller = req[r].caller
          /\ q.verdict = req[r].verdict /\ q.outcome = req[r].outcome
      BY <1>1 DEF Request
    <3> HIDE DEF q
    <3> QED BY <3>1, <3>2, <3>3, <3>4 DEF Holds
  <2> QED BY <2>1, <2>2, <2>3
<1> QED BY <1>2, <1>3 DEF Requests

\* The verdict goes to the row the cookie came from, and was earned with it; or
\* it is lost.
LEMMA RecordKeeps ==
  ASSUME Inv, NEW r \in Requests, Recorded(r) \/ RecordFailed(r)
  PROVE  Inv'
<1>1. PICK q : /\ Holds(r, q)
               /\ q.held = req[r].held /\ q.caller = req[r].caller
               /\ q.verdict = req[r].verdict /\ q.outcome = req[r].outcome
  BY AfterRecordHolds DEF Recorded, RecordFailed, Ends
<1>2. record' \in Requests \cup {Earlier, None}
  BY DEF Recorded, RecordFailed, Inv, Types
<1>3. req[r] \in Request /\ OK(r, req[r]) /\ req[r].pc = "record"
  BY DEF Recorded, RecordFailed, Ends, Inv, Types, Phases
<1>4. /\ req[r].verdict \in Verdicts
      /\ req[r].verdict = "true"  => r \in Puts \/ req[r].outcome \in {"profile", "stranger"}
      /\ req[r].verdict = "false" => r \in Puts \/ req[r].outcome = "expired"
  BY <1>3 DEF OK, GetOK, Request, Requests, VerdictOf
<1>5. CASE session' = session
  BY <1>1, <1>2, <1>5, OwnStep
<1>6. CASE /\ session[req[r].caller] # None
           /\ session[req[r].caller].stored_at = req[r].held
           /\ session' = [session EXCEPT ![req[r].caller].ok = req[r].verdict]
  <2>1. req[r].caller \in Callers
    BY <1>3, RequestsAssumption DEF OK, GetOK, PutOK, Request, Requests
  <2>2. session[req[r].caller] \in Session
    BY <1>6, <2>1 DEF Inv, Types
  <2>3. session' = [session EXCEPT ![req[r].caller] =
                      [session[req[r].caller] EXCEPT !.ok = req[r].verdict]]
    BY <1>6
  <2>4. [session[req[r].caller] EXCEPT !.ok = req[r].verdict] \in Session
    BY <1>4, <2>2 DEF Session
  <2>5. session' \in [Callers -> Session \cup {None}]
    BY <2>1, <2>3, <2>4 DEF Inv, Types
  <2>6. ASSUME NEW c \in Callers
        PROVE  \/ session'[c] = session[c]
               \/ /\ c = q.caller /\ session'[c] \in Session
                  /\ session'[c].stored_at = q.held /\ session'[c].ok = q.verdict
    BY <1>1, <1>6, <2>1, <2>2, <2>3, <2>4 DEF Session, Inv, Types
  <2> QED BY <1>1, <1>2, <1>4, <2>5, <2>6, Step
<1> QED BY <1>5, <1>6 DEF Recorded, RecordFailed, Marked

\* The row a PUT writes, whether or not it is told so.
LEMMA UpsertedRow ==
  ASSUME Inv, NEW p \in Puts, req[p].pc = "store"
  PROVE  \E row \in Session :
           /\ row.stored_at = p /\ row.ok = "null"
           /\ req[p].caller \in Callers
           /\ Upserted(p) = [session EXCEPT ![req[p].caller] = row]
<1> DEFINE row == [stored_at |-> p, ok |-> "null", readable |-> TRUE]
<1>1. row \in Session /\ row.stored_at = p /\ row.ok = "null"
  BY DEF Session, Verdicts
<1>2. req[p].caller \in Callers
  BY RequestsAssumption DEF Inv, Types, Phases, OK, PutOK, Request, Requests
<1>3. Upserted(p) = [session EXCEPT ![req[p].caller] = row]
  BY DEF Upserted
<1> QED BY <1>1, <1>2, <1>3

\* A PUT comes to hold what it stored, or is told 503.
LEMMA StoreKeeps ==
  ASSUME Inv, NEW p \in Puts, Stored(p) \/ StoreFailed(p)
  PROVE  Inv'
<1> DEFINE q == IF Stored(p) THEN [[req[p] EXCEPT !.held = p] EXCEPT !.pc = "verify"]
                ELSE [req[p] EXCEPT !.pc = "done", !.status = "503"]
<1>1. req[p] \in Request /\ OK(p, req[p]) /\ p \in Requests /\ req[p].pc = "store"
  BY DEF Inv, Types, Phases, Requests, Stored, StoreFailed, Ends
<1>2. q \in Request
  BY <1>1 DEF Request, Kinds
<1>3. req' = [req EXCEPT ![p] = q]
  BY DEF Stored, StoreFailed, Awaits, Answer
<1>4. OK(p, q) /\ Keeps(p, q)
  BY <1>1, RequestsAssumption DEF OK, PutOK, Keeps, Request
<1>5. Holds(p, q)
  BY <1>2, <1>3, <1>4 DEF Holds
<1>6. record' \in Requests \cup {Earlier, None}
  BY DEF Stored, StoreFailed, Inv, Types
<1>7. session' = session \/ session' = Upserted(p)
  BY DEF Stored, StoreFailed
<1> HIDE DEF q
<1>8. CASE session' = session
  BY <1>1, <1>5, <1>6, <1>8, OwnStep
<1>9. CASE session' = Upserted(p)
  <2>1. PICK row \in Session : /\ row.ok = "null" /\ req[p].caller \in Callers
                               /\ session' = [session EXCEPT ![req[p].caller] = row]
    BY <1>1, <1>9, UpsertedRow
  <2>2. /\ session' \in [Callers -> Session \cup {None}]
        /\ \A c \in Callers : session'[c] = session[c] \/ session'[c] = row
    BY <2>1 DEF Inv, Types
  <2>3. \A c \in Callers :
           \/ session'[c] = session[c]
           \/ session'[c] \in Session /\ session'[c].ok = "null"
    BY <2>1, <2>2
  <2> QED BY <1>1, <1>5, <1>6, <2>2, <2>3, Step
<1> QED BY <1>7, <1>8, <1>9

LEMMA VerifiedKeeps ==
  ASSUME Inv, NEW p \in Puts, NEW v \in Verdicts, Verified(p, v)
  PROVE  Inv'
<1> DEFINE q == IF v = "null" THEN [req[p] EXCEPT !.pc = "done", !.status = "stored"]
                ELSE [[req[p] EXCEPT !.verdict = v] EXCEPT !.pc = "record"]
<1>1. req[p] \in Request /\ OK(p, req[p]) /\ p \in Requests /\ req[p].pc = "verify"
  BY DEF Inv, Types, Phases, Requests, Verified, Ends
<1>2. q \in Request
  BY <1>1 DEF Request, Kinds, Verdicts
<1>3. req' = [req EXCEPT ![p] = q] /\ UNCHANGED session
  BY DEF Verified, Awaits, Answer
<1>4. OK(p, q) /\ Keeps(p, q) /\ q.held = p
  BY <1>1, RequestsAssumption DEF OK, PutOK, Keeps, Request
<1>5. record' \in Requests \cup {Earlier, None}
  BY DEF Verified, Inv, Types
<1> HIDE DEF q
<1> QED BY <1>1, <1>2, <1>3, <1>4, <1>5, OwnStep DEF Holds

\* What nobody awaits, and the executor, change no request and no session.
LEMMA OthersKeep ==
  ASSUME Inv, UNCHANGED <<session, req>>, record' \in Requests \cup {Earlier, None}
  PROVE  Inv'
BY DEF Inv, Types, Phases, VerdictIsEarned

LEMMA UnlockedKeeps ==
  ASSUME Inv, NEW r \in Gets, Unlocked(r)
  PROVE  Inv'
<1> DEFINE row == session[req[r].caller]
           q == [[req[r] EXCEPT !.held = row.stored_at, !.known = row.ok]
                   EXCEPT !.pc = "fetch"]
<1>1. req[r] \in Request /\ OK(r, req[r]) /\ r \in Requests /\ req[r].pc = "unlock"
  BY DEF Inv, Types, Phases, Requests, Unlocked, Ends
<1>2. req[r].caller \in Callers
  BY <1>1, RequestsAssumption DEF OK, GetOK, Request
<1>3. row \in Session /\ row # None
  BY <1>2 DEF Inv, Types, Unlocked
<1>4. row.stored_at \in Puts \cup {Earlier} /\ row.ok \in Verdicts
  BY <1>3 DEF Session
<1>5. q \in Request
  BY <1>1, <1>4 DEF Request, Kinds
<1>6. req' = [req EXCEPT ![r] = q] /\ UNCHANGED session
  BY DEF Unlocked, Awaits
<1>7. record' \in Requests \cup {Earlier, None}
  BY DEF Unlocked, Inv, Types
<1>8. row.stored_at # None
  BY <1>4, RequestsAssumption DEF Requests
<1>9. OK(r, q) /\ Keeps(r, q)
  BY <1>1, <1>8 DEF OK, GetOK, Keeps, Request
<1> HIDE DEF q
<1> QED BY <1>1, <1>5, <1>6, <1>7, <1>9, OwnStep DEF Holds

\* The invariant holds of every behaviour.
THEOREM InvCorrect == Spec => []Inv
<1>1. Inv /\ [Next]_vars => Inv'
  <2> SUFFICES ASSUME Inv, [Next]_vars PROVE Inv'
    OBVIOUS
  <2>1. ASSUME NEW r \in Gets, NEW c \in Callers, GetReceived(r, c) PROVE Inv'
    BY <2>1, GetReceivedKeeps
  <2>2. ASSUME NEW p \in Puts, NEW c \in Callers, PutReceived(p, c) PROVE Inv'
    BY <2>2, PutReceivedKeeps
  <2>3. CASE Take \/ UNCHANGED vars
    BY <2>3, OthersKeep DEF Take, vars, Inv, Types
  <2>4. ASSUME NEW r \in Requests, VaultReplies(r) PROVE Inv'
    BY <2>4, UnlockedKeeps, UnlockRefusedKeeps, UnlockFailedKeeps, StoreKeeps,
       RecordKeeps DEF VaultReplies
  <2>5. ASSUME NEW r \in Requests, NEW kind \in {"fetch", "lookup", "save"},
               AbandonedEnds(r, kind)
        PROVE  Inv'
    <3>1. record' \in Requests \cup {Earlier, None} /\ UNCHANGED <<session, req>>
      BY <2>5 DEF AbandonedEnds, Inv, Types
    <3> QED BY <3>1, OthersKeep
  <2>6. ASSUME NEW r \in Requests, CallEnds(r) PROVE Inv'
    BY <2>5, <2>6, FetchedKeeps, VerifiedKeeps DEF CallEnds
  <2>7. ASSUME NEW r \in Requests, CacheReplies(r) PROVE Inv'
    BY <2>5, <2>7, LookupServedKeeps, LookupUselessKeeps, SavedKeeps
       DEF CacheReplies
  <2>8. ASSUME NEW r \in Requests, DeadlinePasses(r) PROVE Inv'
    BY <2>8, FetchDeadlineKeeps, LookupDeadlineKeeps, SaveDeadlineKeeps
       DEF DeadlinePasses
  <2> QED BY <2>1, <2>2, <2>3, <2>4, <2>6, <2>7, <2>8 DEF Next
<1> QED BY <1>1, InvInit, PTL DEF Spec

\* A permanent failure is never covered by the cache.
THEOREM PermanentShown == Spec => []PermanentFailureShown
<1>1. Inv => PermanentFailureShown
  BY DEF Inv, Phases, OK, GetOK, PermanentFailureShown, Requests
<1> QED BY <1>1, InvCorrect, PTL

\* A verdict on record was earned under that very cookie.
THEOREM VerdictEarned == Spec => []VerdictIsEarned
<1>1. Inv => VerdictIsEarned
  BY DEF Inv
<1> QED BY <1>1, InvCorrect, PTL
-----------------------------------------------------------------------------
(* The queue: nothing waits for nobody *)

\* How far a request is.
Rank(pc) ==
  CASE pc = "idle"               -> 0
    [] pc \in {"unlock", "store"} -> 1
    [] pc \in {"fetch", "verify"} -> 2
    [] pc = "record"             -> 3
    [] pc \in {"lookup", "save"} -> 4
    [] pc = "done"               -> 5

\* A job is in one place, once; what is queued is awaited; what is under way
\* was awaited at some time, and requests do not go back.
Queue ==
  /\ record \in Gets \cup {Earlier, None}
  /\ queue \in Seq(Jobs) /\ IsInjective(queue)
  /\ running \subseteq Jobs
  /\ Range(queue) \cap running = {}
  /\ \A job \in Range(queue) : req[job[1]].pc = job[2]
  /\ \A job \in running : /\ Rank(job[2]) <= Rank(req[job[1]].pc)
                          /\ job[2] = "save" => job[1] \in Gets

\* What Append, Tail and RemoveFirst leave of a sequence without duplicates.
LEMMA Appended ==
  ASSUME NEW S, NEW s \in Seq(S), IsInjective(s), NEW e \in S, e \notin Range(s)
  PROVE  /\ Append(s, e) \in Seq(S)
         /\ IsInjective(Append(s, e))
         /\ Range(Append(s, e)) = Range(s) \cup {e}
<1> DEFINE t == Append(s, e)
<1>1. /\ t \in Seq(S) /\ Len(t) = Len(s) + 1 /\ Len(s) \in Nat
      /\ DOMAIN s = 1 .. Len(s) /\ DOMAIN t = 1 .. Len(s) + 1
      /\ \A i \in 1 .. Len(s) : t[i] = s[i]
      /\ t[Len(s) + 1] = e
  OBVIOUS
<1> HIDE DEF t
<1>2. IsInjective(t)
  BY <1>1 DEF IsInjective, Range
<1>3. Range(t) = Range(s) \cup {e}
  BY <1>1 DEF Range
<1> QED BY <1>1, <1>2, <1>3 DEF t

LEMMA Taken ==
  ASSUME NEW S, NEW s \in Seq(S), IsInjective(s), s # <<>>
  PROVE  /\ Head(s) \in Range(s)
         /\ Tail(s) \in Seq(S)
         /\ IsInjective(Tail(s))
         /\ Range(Tail(s)) = Range(s) \ {Head(s)}
<1> DEFINE t == Tail(s)
<1>1. /\ t \in Seq(S) /\ Len(s) \in Nat \ {0}
      /\ DOMAIN s = 1 .. Len(s) /\ DOMAIN t = 1 .. Len(s) - 1
      /\ \A i \in 1 .. Len(s) - 1 : t[i] = s[i + 1]
      /\ Head(s) = s[1]
  OBVIOUS
<1> HIDE DEF t
<1>2. IsInjective(t)
  <2> SUFFICES ASSUME NEW a \in DOMAIN t, NEW b \in DOMAIN t, t[a] = t[b] PROVE a = b
    BY DEF IsInjective
  <2>1. a + 1 \in DOMAIN s /\ b + 1 \in DOMAIN s /\ s[a + 1] = s[b + 1]
    BY <1>1
  <2>2. a + 1 = b + 1
    BY <2>1 DEF IsInjective
  <2> QED BY <1>1, <2>2
<1>3. Range(t) = Range(s) \ {s[1]}
  <2>1. ASSUME NEW x \in Range(t) PROVE x \in Range(s) /\ x # s[1]
    <3>1. PICK i \in 1 .. Len(s) - 1 : x = s[i + 1]
      BY <1>1 DEF Range
    <3>2. i + 1 \in DOMAIN s /\ 1 \in DOMAIN s /\ i + 1 # 1
      BY <1>1
    <3> QED BY <3>1, <3>2 DEF Range, IsInjective
  <2>2. ASSUME NEW x \in Range(s), x # s[1] PROVE x \in Range(t)
    <3>1. PICK i \in 2 .. Len(s) : x = s[i]
      BY <1>1, <2>2 DEF Range
    <3>2. i - 1 \in DOMAIN t /\ t[i - 1] = s[i]
      BY <1>1
    <3> QED BY <3>1, <3>2 DEF Range
  <2> QED BY <2>1, <2>2
<1>4. Head(s) \in Range(s)
  BY <1>1 DEF Range
<1> QED BY <1>1, <1>2, <1>3, <1>4 DEF t

\* What comes after the k-th place.
LEMMA AfterPlace ==
  ASSUME NEW S, NEW s, NEW k \in Int, NEW n \in Int, k <= n,
         \A i \in k + 1 .. n : s[i] \in S
  PROVE  /\ SubSeq(s, k + 1, n) \in Seq(S)
         /\ Len(SubSeq(s, k + 1, n)) = n - k
         /\ \A i \in 1 .. n - k : SubSeq(s, k + 1, n)[i] = s[k + i]
<1>1. PICK m \in Int : m = k + 1
  OBVIOUS
<1>2. /\ SubSeq(s, m, n) \in Seq(S)
      /\ Len(SubSeq(s, m, n)) = IF m <= n THEN n - m + 1 ELSE 0
      /\ \A i \in 1 .. n - m + 1 : SubSeq(s, m, n)[i] = s[m + i - 1]
  BY <1>1, SubSeqProperties
<1>3. n - m + 1 = n - k /\ (~(m <= n) => n - k = 0)
  BY <1>1
<1>4. ASSUME NEW i \in 1 .. n - k PROVE m + i - 1 = k + i
  BY <1>1
<1> QED BY <1>1, <1>2, <1>3, <1>4, Zenon

LEMMA Removed ==
  ASSUME NEW S, NEW s \in Seq(S), IsInjective(s), NEW e
  PROVE  /\ RemoveFirst(s, e) \in Seq(S)
         /\ IsInjective(RemoveFirst(s, e))
         /\ Range(RemoveFirst(s, e)) = Range(s) \ {e}
<1>1. Len(s) \in Nat /\ DOMAIN s = 1 .. Len(s) /\ \A i \in 1 .. Len(s) : s[i] \in S
  OBVIOUS
<1>2. CASE e \notin Range(s)
  <2>1. RemoveFirst(s, e) = s
    BY <1>1, <1>2 DEF RemoveFirst, Range
  <2> QED BY <1>2, <2>1
<1>3. CASE e \in Range(s)
  <2>1. PICK k \in 1 .. Len(s) : s[k] = e
    BY <1>1, <1>3 DEF Range
  <2>2. {i \in 1 .. Len(s) : s[i] = e} = {k}
    BY <1>1, <2>1 DEF IsInjective
  <2>3. SelectInSeq(s, LAMBDA v : v = e) = k
    BY <2>2 DEF SelectInSeq, Min
  <2>4. RemoveFirst(s, e) = RemoveAt(s, k)
    BY <2>1, <2>3 DEF RemoveFirst
  <2> DEFINE t == RemoveAt(s, k)
  <2>5. /\ t \in Seq(S) /\ DOMAIN t = 1 .. Len(s) - 1
        /\ \A i \in 1 .. Len(s) - 1 : t[i] = IF i < k THEN s[i] ELSE s[i + 1]
    <3> DEFINE a == SubSeq(s, 1, k - 1)
               b == SubSeq(s, k + 1, Len(s))
    <3>1. /\ a \in Seq(S) /\ Len(a) = k - 1
          /\ \A i \in 1 .. k - 1 : a[i] = s[i]
      BY <1>1, SubSeqProperties
    <3>2. /\ b \in Seq(S) /\ Len(b) = Len(s) - k
          /\ \A i \in 1 .. Len(s) - k : b[i] = s[k + i]
      <4>1. /\ k \in Int /\ Len(s) \in Int /\ k <= Len(s)
            /\ \A i \in k + 1 .. Len(s) : s[i] \in S
        BY <1>1
      <4> QED BY <4>1, AfterPlace
    <3> HIDE DEF a, b
    <3>3. /\ a \o b \in Seq(S) /\ Len(a \o b) = Len(s) - 1
          /\ \A i \in 1 .. Len(s) - 1 :
               (a \o b)[i] = IF i <= k - 1 THEN a[i] ELSE b[i - (k - 1)]
      <4>1. Len(a) + Len(b) = Len(s) - 1
        BY <1>1, <3>1, <3>2
      <4>2. /\ a \o b \in Seq(S)
            /\ Len(a \o b) = Len(a) + Len(b)
            /\ \A i \in 1 .. Len(a) + Len(b) :
                 (a \o b)[i] = IF i <= Len(a) THEN a[i] ELSE b[i - Len(a)]
        BY <3>1, <3>2, ConcatProperties, Zenon
      <4> QED BY <3>1, <4>1, <4>2, Zenon
    <3>4. t = a \o b
      BY DEF RemoveAt, a, b
    <3>5. ASSUME NEW i \in 1 .. Len(s) - 1
          PROVE  t[i] = IF i < k THEN s[i] ELSE s[i + 1]
      <4>1. CASE i < k
        BY <1>1, <3>1, <3>3, <3>4, <4>1
      <4>2. CASE i >= k
        <5>1. i - (k - 1) \in 1 .. Len(s) - k /\ k + (i - (k - 1)) = i + 1
          BY <1>1, <4>2
        <5>2. b[i - (k - 1)] = s[i + 1]
          BY <3>2, <5>1
        <5> QED BY <1>1, <3>3, <3>4, <4>2, <5>2
      <4> QED BY <1>1, <4>1, <4>2
    <3> QED BY <3>3, <3>4, <3>5
  <2> HIDE DEF t
  <2>6. IsInjective(t)
    <3> SUFFICES ASSUME NEW i \in DOMAIN t, NEW j \in DOMAIN t, t[i] = t[j] PROVE i = j
      BY DEF IsInjective
    <3> DEFINE shift(n) == IF n < k THEN n ELSE n + 1
    <3>1. shift(i) \in DOMAIN s /\ shift(j) \in DOMAIN s /\ s[shift(i)] = s[shift(j)]
      BY <1>1, <2>5
    <3>2. shift(i) = shift(j)
      BY <3>1 DEF IsInjective
    <3> QED BY <1>1, <2>5, <3>2
  <2>7. Range(t) = Range(s) \ {e}
    <3>1. ASSUME NEW x \in Range(t) PROVE x \in Range(s) \ {e}
      <4>1. PICK i \in 1 .. Len(s) - 1 : x = IF i < k THEN s[i] ELSE s[i + 1]
        BY <2>5, <3>1 DEF Range
      <4>2. PICK j \in DOMAIN s : j # k /\ x = s[j]
        BY <1>1, <4>1
      <4> QED BY <1>1, <2>1, <4>2 DEF Range, IsInjective
    <3>2. ASSUME NEW x \in Range(s) \ {e} PROVE x \in Range(t)
      <4>1. PICK j \in 1 .. Len(s) : x = s[j] /\ j # k
        BY <1>1, <2>1 DEF Range
      <4>2. CASE j < k
        <5>1. j \in DOMAIN t /\ t[j] = x
          BY <1>1, <2>5, <4>1, <4>2
        <5> QED BY <5>1 DEF Range
      <4>3. CASE j > k
        <5>1. j - 1 \in DOMAIN t /\ ~(j - 1 < k) /\ (j - 1) + 1 = j
          BY <1>1, <2>5, <4>3
        <5>2. t[j - 1] = x
          BY <2>5, <4>1, <5>1
        <5> QED BY <5>1, <5>2 DEF Range
      <4> QED BY <4>1, <4>2, <4>3
    <3> QED BY <3>1, <3>2
  <2> QED BY <2>4, <2>5, <2>6, <2>7 DEF t
<1> QED BY <1>2, <1>3

\* A request goes on: its job leaves the queue or the workers, and the next
\* one, if there is one, is new to both.
LEMMA GoesOn ==
  ASSUME Inv, Queue, NEW r \in Requests, NEW pc \in Kinds \cup {"done"},
         Rank(req[r].pc) < Rank(pc),
         req'[r].pc = pc, \A p \in Requests \ {r} : req'[p] = req[p],
         queue' \in Seq(Jobs), IsInjective(queue'),
         Range(queue') = (Range(queue) \ {<<r, req[r].pc>>}) \cup
                           (IF pc = "done" THEN {} ELSE {<<r, pc>>}),
         running' \subseteq running, running \ running' \subseteq {<<r, req[r].pc>>},
         record' \in Gets \cup {Earlier, None}
  PROVE  Queue'
<1>1. /\ req[r].pc \in {"idle", "done"} \cup Kinds
      /\ \A job \in Range(queue) \cup running : job \in Jobs
  <2>1. Range(queue) \subseteq Jobs
    BY RangeOfSeq DEF Queue
  <2> QED BY <2>1 DEF Queue, Inv, Types, Request
<1>2. <<r, pc>> \notin running
  <2>1. Rank(req[r].pc) \in 0 .. 5 /\ Rank(pc) \in 0 .. 5
    BY <1>1 DEF Rank, Kinds
  <2>2. <<r, pc>> \in running => Rank(pc) <= Rank(req[r].pc)
    BY DEF Queue
  <2> QED BY <2>1, <2>2
<1>3. \A job \in Range(queue') :
         \/ job = <<r, pc>>
         \/ job \in Range(queue) /\ job[1] # r
  BY <1>1 DEF Queue, Jobs
<1>4. Range(queue') \cap running' = {}
  BY <1>2, <1>3 DEF Queue
<1>5. \A job \in Range(queue') : req'[job[1]].pc = job[2]
  BY <1>1, <1>3 DEF Queue, Jobs
<1>6. \A job \in running' : /\ Rank(job[2]) <= Rank(req'[job[1]].pc)
                            /\ job[2] = "save" => job[1] \in Gets
  <2> SUFFICES ASSUME NEW job \in running' 
               PROVE  /\ Rank(job[2]) <= Rank(req'[job[1]].pc)
                      /\ job[2] = "save" => job[1] \in Gets
    OBVIOUS
  <2>1. /\ job[1] \in Requests /\ job[2] \in Kinds
        /\ Rank(job[2]) <= Rank(req[job[1]].pc)
        /\ job[2] = "save" => job[1] \in Gets
    BY <1>1 DEF Queue, Jobs
  <2>2. /\ Rank(req[r].pc) \in 0 .. 5 /\ Rank(pc) \in 0 .. 5 /\ Rank(job[2]) \in 0 .. 5
    BY <1>1, <2>1 DEF Rank, Kinds
  <2> QED BY <2>1, <2>2
<1>7. running' \subseteq Jobs
  BY DEF Queue
<1> QED BY <1>4, <1>5, <1>6, <1>7 DEF Queue

\* A job ends and the request that awaited it awaits another ...
LEMMA AwaitsKeeps ==
  ASSUME Inv, Queue, NEW r \in Requests, NEW kind, Ends(r, kind),
         NEW pc \in Kinds, Rank(kind) < Rank(pc),
         NEW fields \in Request, Awaits(r, pc, fields),
         record' \in Gets \cup {Earlier, None}
  PROVE  Queue'
<1>1. req[r].pc = kind /\ <<r, kind>> \in running /\ running' = running \ {<<r, kind>>}
  BY DEF Ends
<1>2. kind \in Kinds
  BY <1>1 DEF Queue, Jobs
<1>3. <<r, kind>> \notin Range(queue) /\ <<r, pc>> \notin Range(queue)
  BY <1>1 DEF Queue, Rank
<1>4. <<r, pc>> \in Jobs
  BY DEF Jobs
<1>5. /\ queue' \in Seq(Jobs) /\ IsInjective(queue')
      /\ Range(queue') = Range(queue) \cup {<<r, pc>>}
  BY <1>3, <1>4, Appended DEF Awaits, Queue
<1>6. req'[r].pc = pc /\ \A p \in Requests \ {r} : req'[p] = req[p]
  BY DEF Awaits, Inv, Types, Request
<1>7. pc # "done"
  BY DEF Kinds
<1> QED BY <1>1, <1>3, <1>5, <1>6, <1>7, GoesOn

\* ... or is answered.
LEMMA AnswerKeeps ==
  ASSUME Inv, Queue, NEW r \in Requests, NEW kind, Ends(r, kind),
         NEW fields \in Request, NEW status, Answer(r, fields, status),
         record' \in Gets \cup {Earlier, None}
  PROVE  Queue'
<1>1. req[r].pc = kind /\ <<r, kind>> \in running /\ running' = running \ {<<r, kind>>}
  BY DEF Ends
<1>2. kind \in Kinds
  BY <1>1 DEF Queue, Jobs
<1>3. <<r, kind>> \notin Range(queue)
  BY <1>1 DEF Queue
<1>4. queue' \in Seq(Jobs) /\ IsInjective(queue') /\ Range(queue') = Range(queue)
  BY DEF Answer, Queue
<1>5. req'[r].pc = "done" /\ \A p \in Requests \ {r} : req'[p] = req[p]
  BY DEF Answer, Inv, Types, Request
<1>6. Rank(kind) < Rank("done")
  BY <1>2 DEF Rank, Kinds
<1> QED BY <1>1, <1>3, <1>4, <1>5, <1>6, GoesOn

\* A request arrives.
LEMMA ReceivedKeeps ==
  ASSUME Inv, Queue, NEW r \in Requests, req[r].pc = "idle",
         NEW pc \in Kinds, NEW fields \in Request, Awaits(r, pc, fields),
         UNCHANGED <<record, running>>
  PROVE  Queue'
<1>1. <<r, "idle">> \notin Jobs
  BY DEF Jobs, Kinds
<1>2. Range(queue) \subseteq Jobs
  BY RangeOfSeq DEF Queue
<1>3. <<r, pc>> \notin Range(queue) /\ <<r, "idle">> \notin Range(queue) /\ <<r, pc>> \in Jobs
  BY <1>1, <1>2 DEF Queue, Kinds, Jobs
<1>4. /\ queue' \in Seq(Jobs) /\ IsInjective(queue')
      /\ Range(queue') = Range(queue) \cup {<<r, pc>>}
  BY <1>3, Appended DEF Awaits, Queue
<1>5. req'[r].pc = pc /\ \A p \in Requests \ {r} : req'[p] = req[p]
  BY DEF Awaits, Inv, Types, Request
<1>6. Rank("idle") < Rank(pc) /\ pc # "done"
  BY DEF Rank, Kinds
<1>7. record' \in Gets \cup {Earlier, None} /\ running' = running
  BY DEF Queue
<1> QED BY <1>3, <1>4, <1>5, <1>6, <1>7, GoesOn

\* A deadline passes before a call that has another step behind it ...
LEMMA FetchDeadlineQueue ==
  ASSUME Inv, Queue, NEW r \in Requests, FetchDeadline(r)
  PROVE  Queue'
<1> DEFINE left == Cancelled(r, "fetch")
<1>1. /\ left \in Seq(Jobs) /\ IsInjective(left)
      /\ Range(left) = Range(queue) \ {<<r, "fetch">>}
  BY Removed DEF Cancelled, Queue
<1>2. req[r].pc = "fetch" /\ queue' = Append(left, <<r, "lookup">>)
  BY DEF FetchDeadline
<1> HIDE DEF left
<1>3. <<r, "lookup">> \notin Range(left) /\ <<r, "lookup">> \in Jobs
  BY <1>1, <1>2 DEF Queue, Jobs, Kinds
<1>4. /\ queue' \in Seq(Jobs) /\ IsInjective(queue')
      /\ Range(queue') = (Range(queue) \ {<<r, "fetch">>}) \cup {<<r, "lookup">>}
  <2> DEFINE job == <<r, "lookup">>
  <2>1. job \in Jobs /\ job \notin Range(left)
    BY <1>3
  <2> HIDE DEF job
  <2>2. /\ Append(left, job) \in Seq(Jobs) /\ IsInjective(Append(left, job))
        /\ Range(Append(left, job)) = Range(left) \cup {job}
    BY <1>1, <2>1, Appended
  <2>3. queue' = Append(left, job)
    BY <1>2 DEF job
  <2>4. queue' \in Seq(Jobs) /\ IsInjective(queue') /\ Range(queue') = Range(left) \cup {job}
    BY <2>2, <2>3, Zenon DEF IsInjective, Range
  <2> QED BY <1>1, <2>4 DEF job
<1>5. req'[r].pc = "lookup" /\ \A p \in Requests \ {r} : req'[p] = req[p]
  BY DEF FetchDeadline, Inv, Types, Request
<1>6. Rank("fetch") < Rank("lookup") /\ "lookup" \in Kinds /\ "lookup" # "done"
  BY DEF Rank, Kinds
<1>7. record' \in Gets \cup {Earlier, None} /\ running' = running
  BY DEF Queue, FetchDeadline
<1> QED BY <1>2, <1>4, <1>5, <1>6, <1>7, GoesOn

\* ... and before one that is the last.
LEMMA LastDeadlineQueue ==
  ASSUME Inv, Queue, NEW r \in Requests, LookupDeadline(r) \/ SaveDeadline(r)
  PROVE  Queue'
<1>1. PICK kind \in {"lookup", "save"} :
         /\ req[r].pc = kind
         /\ queue' = Cancelled(r, kind)
         /\ req'[r].pc = "done"
         /\ \A p \in Requests \ {r} : req'[p] = req[p]
  BY DEF LookupDeadline, SaveDeadline, Inv, Types, Request
<1>2. /\ queue' \in Seq(Jobs) /\ IsInjective(queue')
      /\ Range(queue') = Range(queue) \ {<<r, kind>>}
  BY <1>1, Removed DEF Cancelled, Queue
<1>3. Rank(kind) < Rank("done")
  BY DEF Rank
<1>4. record' \in Gets \cup {Earlier, None} /\ running' = running
  BY DEF Queue, LookupDeadline, SaveDeadline
<1> QED BY <1>1, <1>2, <1>3, <1>4, GoesOn

\* What r holds is a request.
LEMMA Held ==
  ASSUME Inv, NEW r \in Requests
  PROVE  /\ req[r] \in Request /\ OK(r, req[r])
         /\ record \in Requests \cup {Earlier, None}
BY DEF Inv, Types, Phases

\* The handlers' statements on the session table.
LEMMA VaultQueue ==
  ASSUME Inv, Queue, NEW r \in Requests, VaultReplies(r)
  PROVE  Queue'
<1>1. req[r] \in Request /\ OK(r, req[r])
  BY Held
<1>2. record' \in Gets \cup {Earlier, None}
  BY DEF VaultReplies, Unlocked, UnlockRefused, UnlockFailed, Stored, StoreFailed,
         Recorded, RecordFailed, Queue
<1>3. CASE r \in Gets /\ Unlocked(r)
  <2> DEFINE row == session[req[r].caller]
             fields == [req[r] EXCEPT !.held = row.stored_at, !.known = row.ok]
  <2>1. req[r].caller \in Callers
    BY <1>1, <1>3, RequestsAssumption DEF Unlocked, Ends, OK, GetOK, Request
  <2>2. row \in Session
    BY <1>3, <2>1 DEF Inv, Types, Unlocked
  <2>3. fields \in Request
    BY <1>1, <2>2 DEF Request, Session
  <2>4. Ends(r, "unlock") /\ Awaits(r, "fetch", fields)
    BY <1>3 DEF Unlocked
  <2>5. Rank("unlock") < Rank("fetch") /\ "fetch" \in Kinds
    BY DEF Rank, Kinds
  <2> HIDE DEF fields
  <2> QED BY <1>2, <2>3, <2>4, <2>5, AwaitsKeeps
<1>4. CASE r \in Gets /\ (UnlockRefused(r) \/ UnlockFailed(r))
  BY <1>1, <1>2, <1>4, AnswerKeeps DEF UnlockRefused, UnlockFailed
<1>5. CASE r \in Puts /\ Stored(r)
  <2>1. [req[r] EXCEPT !.held = r] \in Request
    BY <1>1, <1>5 DEF Request
  <2>2. Ends(r, "store") /\ Awaits(r, "verify", [req[r] EXCEPT !.held = r])
    BY <1>5 DEF Stored
  <2>3. Rank("store") < Rank("verify") /\ "verify" \in Kinds
    BY DEF Rank, Kinds
  <2> QED BY <1>2, <2>1, <2>2, <2>3, AwaitsKeeps
<1>6. CASE r \in Puts /\ StoreFailed(r)
  BY <1>1, <1>2, <1>6, AnswerKeeps DEF StoreFailed
<1>7. CASE Recorded(r) \/ RecordFailed(r)
  <2>1. Ends(r, "record") /\ req[r].pc = "record"
    BY <1>7 DEF Recorded, RecordFailed, Ends
  <2>2. \/ \E status : Answer(r, req[r], status)
        \/ \E pc \in {"lookup", "save"} : Awaits(r, pc, req[r])
    <3>1. CASE r \in Puts
      <4>1. req[r].outcome = "none"
        BY <1>1, <3>1, RequestsAssumption DEF OK, PutOK
      <4> QED BY <1>7, <3>1, <4>1 DEF Recorded, RecordFailed, AfterRecord
    <3>2. CASE r \in Gets
      <4>1. r \notin Puts /\ req[r].outcome \in {"profile", "stranger", "expired"}
        BY <1>1, <2>1, <3>2, RequestsAssumption DEF OK, GetOK
      <4>2. AfterRecord(r)
        BY <1>7, <4>1 DEF Recorded, RecordFailed
      <4> QED BY <4>1, <4>2 DEF AfterRecord
    <3> QED BY <3>1, <3>2 DEF Requests
  <2>3. \A pc \in {"lookup", "save"} : pc \in Kinds /\ Rank("record") < Rank(pc)
    BY DEF Rank, Kinds
  <2>4. ASSUME NEW status, Answer(r, req[r], status) PROVE Queue'
    BY <1>1, <1>2, <2>1, <2>4, AnswerKeeps
  <2>5. ASSUME NEW pc \in {"lookup", "save"}, Awaits(r, pc, req[r]) PROVE Queue'
    BY <1>1, <1>2, <2>1, <2>3, <2>5, AwaitsKeeps
  <2> QED BY <2>2, <2>4, <2>5
<1> QED BY <1>3, <1>4, <1>5, <1>6, <1>7 DEF VaultReplies

\* A job nobody awaits ends.
LEMMA AbandonedQueue ==
  ASSUME Inv, Queue, NEW r \in Requests, NEW kind \in Kinds, AbandonedEnds(r, kind)
  PROVE  Queue'
<1>1. /\ <<r, kind>> \in running /\ req[r].pc # kind
      /\ running' = running \ {<<r, kind>>} /\ UNCHANGED <<req, queue>>
      /\ record' \in IF kind = "save" THEN {record, r} ELSE {record}
  BY DEF AbandonedEnds, Abandoned
<1>2. record' \in Gets \cup {Earlier, None}
  BY <1>1 DEF Queue
<1> QED BY <1>1, <1>2 DEF Queue

\* Calls to LinkedIn.
LEMMA CallQueue ==
  ASSUME Inv, Queue, NEW r \in Requests, CallEnds(r)
  PROVE  Queue'
<1>1. req[r] \in Request
  BY Held
<1>2. ASSUME NEW o \in Outcomes, Fetched(r, o) PROVE Queue'
  <2> DEFINE fields == [req[r] EXCEPT !.outcome = o, !.verdict = VerdictOf(o)]
             pc == IF VerdictOf(o) # "null" THEN "record" ELSE "lookup"
  <2>1. fields \in Request
    BY <1>1 DEF Request, VerdictOf, Verdicts
  <2>2. Ends(r, "fetch") /\ Awaits(r, pc, fields)
    BY <1>2 DEF Fetched
  <2>3. Rank("fetch") < Rank(pc) /\ pc \in Kinds
    BY DEF Rank, Kinds
  <2>4. record' \in Gets \cup {Earlier, None}
    BY <1>2 DEF Fetched, Queue
  <2> HIDE DEF fields, pc
  <2> QED BY <2>1, <2>2, <2>3, <2>4, AwaitsKeeps
<1>3. ASSUME NEW v \in Verdicts, Verified(r, v) PROVE Queue'
  <2>1. record' \in Gets \cup {Earlier, None} /\ Ends(r, "verify")
    BY <1>3 DEF Verified, Queue
  <2>2. CASE v = "null"
    BY <1>1, <1>3, <2>1, <2>2, AnswerKeeps DEF Verified
  <2>3. CASE v # "null"
    <3> DEFINE fields == [req[r] EXCEPT !.verdict = v]
    <3>1. fields \in Request /\ Awaits(r, "record", fields)
      BY <1>1, <1>3, <2>3 DEF Request, Verified
    <3>2. Rank("verify") < Rank("record") /\ "record" \in Kinds
      BY DEF Rank, Kinds
    <3> HIDE DEF fields
    <3> QED BY <2>1, <3>1, <3>2, AwaitsKeeps
  <2> QED BY <2>2, <2>3
<1>4. "fetch" \in Kinds
  BY DEF Kinds
<1> QED BY <1>2, <1>3, <1>4, AbandonedQueue DEF CallEnds

\* Statements on the cache table.
LEMMA CacheQueue ==
  ASSUME Inv, Queue, NEW r \in Requests, CacheReplies(r)
  PROVE  Queue'
<1>1. req[r] \in Request
  BY Held
<1>2. CASE r \in Gets /\ (LookupServed(r) \/ LookupUseless(r))
  <2>1. PICK status : Ends(r, "lookup") /\ Answer(r, req[r], status)
    BY <1>2 DEF LookupServed, LookupUseless
  <2>2. record' \in Gets \cup {Earlier, None}
    BY <1>2 DEF LookupServed, LookupUseless, Queue
  <2> QED BY <1>1, <2>1, <2>2, AnswerKeeps
<1>3. CASE r \in Gets /\ Saved(r)
  <2>1. Ends(r, "save") /\ Answer(r, req[r], "live")
    BY <1>3 DEF Saved
  <2>2. record' \in Gets \cup {Earlier, None}
    BY <1>3 DEF Saved, Queue
  <2> QED BY <1>1, <2>1, <2>2, AnswerKeeps
<1>4. "lookup" \in Kinds /\ "save" \in Kinds
  BY DEF Kinds
<1> QED BY <1>2, <1>3, <1>4, AbandonedQueue DEF CacheReplies

\* A worker takes the oldest job, which somebody awaits.
LEMMA TakeQueue ==
  ASSUME Inv, Queue, Take
  PROVE  Queue'
<1>1. /\ queue # <<>> /\ UNCHANGED <<record, req>>
      /\ running' = running \cup {Head(queue)} /\ queue' = Tail(queue)
  BY DEF Take
<1>2. /\ Head(queue) \in Range(queue) /\ queue' \in Seq(Jobs) /\ IsInjective(queue')
      /\ Range(queue') = Range(queue) \ {Head(queue)}
  <2>1. /\ Head(queue) \in Range(queue) /\ Tail(queue) \in Seq(Jobs)
        /\ IsInjective(Tail(queue)) /\ Range(Tail(queue)) = Range(queue) \ {Head(queue)}
    BY <1>1, Taken DEF Queue
  <2> QED BY <1>1, <2>1, Zenon DEF IsInjective, Range
<1>3. Range(queue) \subseteq Jobs
  BY RangeOfSeq DEF Queue
<1> DEFINE job == Head(queue)
<1>4. job[1] \in Requests /\ job[2] \in Kinds /\ req[job[1]].pc = job[2]
  BY <1>2, <1>3 DEF Queue, Jobs
<1>5. job[2] = "save" => job[1] \in Gets
  BY <1>4, Held DEF OK, PutOK, Requests
<1>6. Rank(job[2]) <= Rank(req[job[1]].pc)
  BY <1>4 DEF Rank, Kinds
<1>7. running' \subseteq Jobs
  BY <1>1, <1>2, <1>3 DEF Queue
<1> HIDE DEF job
<1>8. running' = running \cup {job} /\ Range(queue') = Range(queue) \ {job}
  BY <1>1, <1>2 DEF job
<1> QED BY <1>1, <1>2, <1>5, <1>6, <1>7, <1>8 DEF Queue

\* A job that is queued is awaited, whatever is cancelled and whoever is given up.
THEOREM QueueCorrect == Spec => []Queue
<1>1. Init => Queue
  <2> SUFFICES ASSUME Init PROVE Queue
    OBVIOUS
  <2>1. queue = <<>> /\ running = {} /\ record \in {Earlier, None}
    BY DEF Init
  <2>2. queue \in Seq(Jobs) /\ IsInjective(queue) /\ Range(queue) = {}
    BY <2>1 DEF IsInjective, Range
  <2> QED BY <2>1, <2>2 DEF Queue
<1>2. Inv /\ Queue /\ [Next]_vars => Queue'
  <2> SUFFICES ASSUME Inv, Queue, [Next]_vars PROVE Queue'
    OBVIOUS
  <2>1. ASSUME NEW r \in Gets, NEW c \in Callers, GetReceived(r, c) PROVE Queue'
    <3>1. req[r] \in Request /\ r \in Requests
      BY Held DEF Requests
    <3>2. [req[r] EXCEPT !.caller = c] \in Request
      BY <3>1 DEF Request
    <3> QED BY <2>1, <3>1, <3>2, ReceivedKeeps DEF GetReceived, Kinds
  <2>2. ASSUME NEW p \in Puts, NEW c \in Callers, PutReceived(p, c) PROVE Queue'
    <3>1. req[p] \in Request /\ p \in Requests
      BY Held DEF Requests
    <3>2. [req[p] EXCEPT !.caller = c] \in Request
      BY <3>1 DEF Request
    <3> QED BY <2>2, <3>1, <3>2, ReceivedKeeps DEF PutReceived, Kinds
  <2>3. CASE UNCHANGED vars
    BY <2>3 DEF vars, Queue, IsInjective, Range
  <2>4. ASSUME NEW r \in Requests, DeadlinePasses(r) PROVE Queue'
    BY <2>4, FetchDeadlineQueue, LastDeadlineQueue DEF DeadlinePasses
  <2> QED BY <2>1, <2>2, <2>3, <2>4, TakeQueue, VaultQueue, CallQueue, CacheQueue DEF Next
<1> QED BY <1>1, <1>2, InvCorrect, PTL DEF Spec

\* The type invariant.
THEOREM TypeCorrect == Spec => []TypeOK
<1>1. Inv /\ Queue => TypeOK
  BY DEF Inv, Types, Queue, TypeOK
<1> QED BY <1>1, InvCorrect, QueueCorrect, PTL

\* Whatever is queued is awaited.
THEOREM QueueWanted == Spec => []QueueIsWanted
<1>1. Queue => QueueIsWanted
  BY DEF Queue, Range, QueueIsWanted
<1> QED BY <1>1, QueueCorrect, PTL

-----------------------------------------------------------------------------
(* The session table keeps the vault's promise *)

\* r comes to hold q, and was told nothing by it.
Quiet(r) ==
  \E q : /\ req' = [req EXCEPT ![r] = q]
         /\ q.verdict = req[r].verdict
         /\ q.verdict # "null" => q.caller = req[r].caller /\ q.held = req[r].held

LEMMA QuietTold ==
  ASSUME Inv, NEW r \in Requests, Quiet(r)
  PROVE  Told' = Told
<1>1. PICK q : /\ req' = [req EXCEPT ![r] = q]
               /\ q.verdict = req[r].verdict
               /\ q.verdict # "null" => q.caller = req[r].caller /\ q.held = req[r].held
  BY DEF Quiet
<1>2. req'[r] = q /\ \A p \in Requests \ {r} : req'[p] = req[p]
  BY <1>1 DEF Inv, Types
<1>3. ASSUME NEW p \in Requests
      PROVE  /\ req'[p].verdict = req[p].verdict
             /\ req[p].verdict # "null" => /\ req'[p].caller = req[p].caller
                                           /\ req'[p].held = req[p].held
  BY <1>1, <1>2
<1> QED BY <1>3 DEF Told

\* Whatever follows an await but LinkedIn's answer is quiet.
LEMMA AwaitsQuiet ==
  ASSUME NEW r, NEW fields \in Request, NEW kind, Awaits(r, kind, fields),
         fields.verdict = req[r].verdict,
         fields.verdict # "null" => /\ fields.caller = req[r].caller
                                    /\ fields.held = req[r].held
  PROVE  Quiet(r)
<1> DEFINE q == [fields EXCEPT !.pc = kind]
<1>1. req' = [req EXCEPT ![r] = q]
  BY DEF Awaits
<1>2. q.verdict = fields.verdict /\ q.caller = fields.caller /\ q.held = fields.held
  BY DEF Request
<1> HIDE DEF q
<1> QED BY <1>1, <1>2 DEF Quiet

LEMMA AnswerQuiet ==
  ASSUME NEW r, req[r] \in Request, NEW status, Answer(r, req[r], status)
  PROVE  Quiet(r)
<1> DEFINE q == [req[r] EXCEPT !.pc = "done", !.status = status]
<1>1. req' = [req EXCEPT ![r] = q]
  BY DEF Answer
<1>2. q.verdict = req[r].verdict /\ q.caller = req[r].caller /\ q.held = req[r].held
  BY DEF Request
<1> HIDE DEF q
<1> QED BY <1>1, <1>2 DEF Quiet

LEMMA DeadlineQuiet ==
  ASSUME Inv, NEW r \in Requests, DeadlinePasses(r)
  PROVE  Quiet(r)
<1>1. req[r] \in Request
  BY Held
<1>2. CASE FetchDeadline(r)
  <2> DEFINE q == [req[r] EXCEPT !.pc = "lookup", !.outcome = "upstream"]
  <2>1. req' = [req EXCEPT ![r] = q]
    BY <1>2 DEF FetchDeadline, Inv, Types
  <2>2. q.verdict = req[r].verdict /\ q.caller = req[r].caller /\ q.held = req[r].held
    BY <1>1 DEF Request
  <2> HIDE DEF q
  <2> QED BY <2>1, <2>2 DEF Quiet
<1>3. CASE LookupDeadline(r) \/ SaveDeadline(r)
  <2>1. PICK status : req' = [req EXCEPT ![r].pc = "done", ![r].status = status]
    BY <1>3 DEF LookupDeadline, SaveDeadline
  <2> DEFINE q == [req[r] EXCEPT !.pc = "done", !.status = status]
  <2>2. req' = [req EXCEPT ![r] = q]
    BY <2>1 DEF Inv, Types
  <2>3. q.verdict = req[r].verdict /\ q.caller = req[r].caller /\ q.held = req[r].held
    BY <1>1 DEF Request
  <2> HIDE DEF q
  <2> QED BY <2>2, <2>3 DEF Quiet
<1> QED BY <1>2, <1>3 DEF DeadlinePasses

\* LinkedIn's answer is heard of the session it was given on.
LEMMA Heard ==
  ASSUME Inv, NEW r \in Requests, UNCHANGED session,
         NEW v \in {"true", "false"}, NEW fields \in Request, NEW kind,
         req[r].verdict = "null", req[r].pc \in {"fetch", "verify"},
         Awaits(r, kind, fields), fields.verdict = v,
         fields.caller = req[r].caller, fields.held = req[r].held
  PROVE  \E c \in Callers : Register!Hear(c)
<1> DEFINE c == req[r].caller
           t == req[r].held
<1>1. c \in Callers /\ t \in Puts \cup {Earlier}
  BY Held, RequestsAssumption DEF OK, GetOK, PutOK, Request, Requests
<1>2. /\ \A p \in Requests \ {r} : req'[p] = req[p]
      /\ req'[r].verdict = v /\ req'[r].caller = c /\ req'[r].held = t
  BY DEF Awaits, Inv, Types, Request
<1>3. Told' = Told \cup {<<c, t, v>>}
  BY <1>2 DEF Told
<1>4. StoredAt' = StoredAt /\ LastUseOk' = LastUseOk
  BY DEF StoredAt, LastUseOk
<1>5. v \in Register!Sayings
  BY DEF Register!Sayings
<1> HIDE DEF c, t
<1> QED BY <1>1, <1>3, <1>4, <1>5 DEF Register!Hear

LEMMA CallImplements ==
  ASSUME Inv, NEW r \in Requests, CallEnds(r)
  PROVE  Register!Next \/ UNCHANGED <<StoredAt, LastUseOk, Told>>
<1>1. req[r] \in Request /\ OK(r, req[r])
  BY Held
<1>2. UNCHANGED session
  BY DEF CallEnds, Fetched, Verified, AbandonedEnds
<1>3. StoredAt' = StoredAt /\ LastUseOk' = LastUseOk
  BY <1>2 DEF StoredAt, LastUseOk
<1>4. ASSUME r \in Gets, NEW o \in Outcomes, Fetched(r, o)
      PROVE  (\E c \in Callers : Register!Hear(c)) \/ Quiet(r)
  <2> DEFINE fields == [req[r] EXCEPT !.outcome = o, !.verdict = VerdictOf(o)]
  <2>1. /\ fields \in Request /\ fields.verdict = VerdictOf(o)
        /\ fields.caller = req[r].caller /\ fields.held = req[r].held
    BY <1>1 DEF Request, VerdictOf, Verdicts
  <2>2. req[r].verdict = "null" /\ req[r].pc = "fetch"
    BY <1>1, <1>4 DEF Fetched, Ends, OK, GetOK
  <2>3. PICK kind : Awaits(r, kind, fields)
    BY <1>4 DEF Fetched
  <2>4. VerdictOf(o) \in {"null", "true", "false"}
    BY DEF VerdictOf
  <2> HIDE DEF fields
  <2>5. CASE VerdictOf(o) = "null"
    BY <2>1, <2>2, <2>3, <2>5, AwaitsQuiet
  <2>6. CASE VerdictOf(o) \in {"true", "false"}
    BY <1>2, <2>1, <2>2, <2>3, <2>6, Heard
  <2> QED BY <2>4, <2>5, <2>6
<1>5. ASSUME r \in Puts, NEW v \in Verdicts, Verified(r, v)
      PROVE  (\E c \in Callers : Register!Hear(c)) \/ Quiet(r)
  <2>1. req[r].verdict = "null" /\ req[r].pc = "verify"
    BY <1>1, <1>5, RequestsAssumption DEF Verified, Ends, OK, PutOK
  <2>2. CASE v = "null"
    BY <1>1, <1>5, <2>2, AnswerQuiet DEF Verified
  <2>3. CASE v \in {"true", "false"}
    <3> DEFINE fields == [req[r] EXCEPT !.verdict = v]
    <3>1. /\ fields \in Request /\ fields.verdict = v
          /\ fields.caller = req[r].caller /\ fields.held = req[r].held
      BY <1>1 DEF Request
    <3>2. Awaits(r, "record", fields)
      BY <1>5, <2>3 DEF Verified
    <3> HIDE DEF fields
    <3> QED BY <1>2, <2>1, <2>3, <3>1, <3>2, Heard
  <2> QED BY <2>2, <2>3 DEF Verdicts
<1>6. CASE AbandonedEnds(r, "fetch")
  BY <1>3, <1>6 DEF AbandonedEnds, Told
<1>7. Quiet(r) => Told' = Told
  BY QuietTold
<1> QED BY <1>3, <1>4, <1>5, <1>6, <1>7 DEF CallEnds, Register!Next

\* A row that a PUT writes is a session of which nothing is known.
LEMMA UpsertedImplements ==
  ASSUME Inv, NEW p \in Puts, req[p].pc = "store", session' = Upserted(p), Quiet(p)
  PROVE  \E c \in Callers : Register!Store(c)
<1>1. PICK row \in Session :
         /\ row.stored_at = p /\ row.ok = "null" /\ req[p].caller \in Callers
         /\ session' = [session EXCEPT ![req[p].caller] = row]
  BY UpsertedRow
<1> DEFINE c == req[p].caller
<1>2. row # None /\ c \in Callers
  BY <1>1, NoneIsNoSession
<1>3. Told' = Told
  BY QuietTold DEF Requests
<1>4. session'[c] = row /\ \A d \in Callers \ {c} : session'[d] = session[d]
  BY <1>1 DEF Inv, Types
<1> HIDE DEF c
<1>5. StoredAt' = [StoredAt EXCEPT ![c] = p]
  BY <1>1, <1>2, <1>4 DEF StoredAt
<1>6. LastUseOk' = [LastUseOk EXCEPT ![c] = "null"]
  BY <1>1, <1>2, <1>4 DEF LastUseOk
<1> QED BY <1>2, <1>3, <1>5, <1>6 DEF Register!Store

\* A PUT that stored, or failed to, tells nobody anything.
LEMMA StoreImplements ==
  ASSUME Inv, NEW p \in Puts, Stored(p) \/ StoreFailed(p)
  PROVE  Register!Next \/ UNCHANGED <<StoredAt, LastUseOk, Told>>
<1>1. /\ req[p] \in Request /\ req[p].pc = "store" /\ OK(p, req[p])
      /\ p \in Requests /\ p \notin Gets
  BY Held, RequestsAssumption DEF Stored, StoreFailed, Ends, Requests
<1>2. Quiet(p)
  <2>1. req[p].verdict = "null"
    BY <1>1 DEF OK, PutOK
  <2> DEFINE fields == [req[p] EXCEPT !.held = p]
  <2>2. fields \in Request /\ fields.verdict = "null"
    BY <1>1, <2>1 DEF Request
  <2>3. Stored(p) => Awaits(p, "verify", fields)
    BY DEF Stored
  <2>4. StoreFailed(p) => Answer(p, req[p], "503")
    BY DEF StoreFailed
  <2> HIDE DEF fields
  <2> QED BY <1>1, <2>1, <2>2, <2>3, <2>4, AwaitsQuiet, AnswerQuiet
<1>3. CASE session' = session
  BY <1>1, <1>2, <1>3, QuietTold DEF StoredAt, LastUseOk
<1>4. CASE session' = Upserted(p)
  BY <1>1, <1>2, <1>4, UpsertedImplements DEF Register!Next
<1> QED BY <1>3, <1>4 DEF Stored, StoreFailed

\* The bookkeeping after a fetch or a verification is quiet.
LEMMA RecordQuiet ==
  ASSUME Inv, NEW r \in Requests, Recorded(r) \/ RecordFailed(r)
  PROVE  Quiet(r)
<1>1. PICK q : /\ Holds(r, q)
               /\ q.held = req[r].held /\ q.caller = req[r].caller
               /\ q.verdict = req[r].verdict
  BY AfterRecordHolds DEF Recorded, RecordFailed, Ends
<1> QED BY <1>1 DEF Holds, Quiet

\* A mark is something learned of the session it was given on.
LEMMA RecordedImplements ==
  ASSUME Inv, NEW r \in Requests, Recorded(r) \/ RecordFailed(r)
  PROVE  (\E c \in Callers : Register!Learn(c)) \/ UNCHANGED <<StoredAt, LastUseOk, Told>>
<1> DEFINE c == req[r].caller
           v == req[r].verdict
<1>1. req[r] \in Request /\ OK(r, req[r]) /\ req[r].pc = "record"
  BY Held DEF Recorded, RecordFailed, Ends
<1>2. c \in Callers
  BY <1>1, RequestsAssumption DEF OK, GetOK, PutOK, Request, Requests
<1>3. v \in {"true", "false"}
  BY <1>1 DEF OK, GetOK, PutOK, Request, Verdicts, VerdictOf
<1>4. Told' = Told
  BY RecordQuiet, QuietTold
<1>5. CASE UNCHANGED session
  BY <1>4, <1>5 DEF StoredAt, LastUseOk
<1>6. CASE /\ session[c] # None /\ session[c].stored_at = req[r].held
           /\ session' = [session EXCEPT ![c].ok = v]
  <2>1. session[c] \in Session
    BY <1>2, <1>6 DEF Inv, Types
  <2>2. [session[c] EXCEPT !.ok = v] \in Session
    BY <1>3, <2>1 DEF Session, Verdicts
  <2>3. /\ session'[c] # None /\ session'[c].ok = v
        /\ session'[c].stored_at = session[c].stored_at
        /\ \A d \in Callers \ {c} : session'[d] = session[d]
    <3>1. session'[c] = [session[c] EXCEPT !.ok = v]
      BY <1>2, <1>6 DEF Inv, Types
    <3>2. session'[c].ok = v /\ session'[c].stored_at = session[c].stored_at
      BY <2>1, <3>1 DEF Session
    <3>3. session'[c] # None
      BY <2>2, <3>1, NoneIsNoSession
    <3>4. \A d \in Callers \ {c} : session'[d] = session[d]
      BY <1>2, <1>6 DEF Inv, Types
    <3> QED BY <3>2, <3>3, <3>4
  <2>4. StoredAt[c] = req[r].held
    BY <1>2, <1>6 DEF StoredAt
  <2>5. <<c, StoredAt[c], v>> \in Told
    BY <1>3, <2>4 DEF Told
  <2> HIDE DEF c, v
  <2>6. StoredAt' = StoredAt
    BY <1>2, <1>6, <2>3 DEF StoredAt
  <2>7. LastUseOk' = [LastUseOk EXCEPT ![c] = v]
    BY <1>2, <2>3 DEF LastUseOk
  <2>8. v \in Register!Sayings
    BY <1>3 DEF Register!Sayings
  <2> QED BY <1>2, <1>4, <2>5, <2>6, <2>7, <2>8 DEF Register!Learn
<1> QED BY <1>5, <1>6 DEF Recorded, RecordFailed, Marked

LEMMA VaultImplements ==
  ASSUME Inv, NEW r \in Requests, VaultReplies(r)
  PROVE  Register!Next \/ UNCHANGED <<StoredAt, LastUseOk, Told>>
<1>1. req[r] \in Request /\ OK(r, req[r])
  BY Held
<1>2. UNCHANGED session => StoredAt' = StoredAt /\ LastUseOk' = LastUseOk
  BY DEF StoredAt, LastUseOk
<1>3. CASE r \in Gets /\ Unlocked(r)
  <2> DEFINE row == session[req[r].caller]
             fields == [req[r] EXCEPT !.held = row.stored_at, !.known = row.ok]
  <2>1. req[r].caller \in Callers /\ req[r].verdict = "null"
    BY <1>1, <1>3, RequestsAssumption DEF Unlocked, Ends, OK, GetOK, Request
  <2>2. row \in Session
    BY <1>3, <2>1 DEF Inv, Types, Unlocked
  <2>3. fields \in Request /\ fields.verdict = "null"
    BY <1>1, <2>1, <2>2 DEF Request, Session
  <2>4. Awaits(r, "fetch", fields) /\ UNCHANGED session
    BY <1>3 DEF Unlocked
  <2> HIDE DEF fields
  <2> QED BY <1>2, <2>1, <2>3, <2>4, AwaitsQuiet, QuietTold
<1>4. CASE r \in Gets /\ (UnlockRefused(r) \/ UnlockFailed(r))
  BY <1>1, <1>2, <1>4, AnswerQuiet, QuietTold DEF UnlockRefused, UnlockFailed
<1> QED BY <1>3, <1>4, StoreImplements, RecordedImplements DEF VaultReplies, Register!Next

LEMMA CacheImplements ==
  ASSUME Inv, NEW r \in Requests, CacheReplies(r)
  PROVE  UNCHANGED <<StoredAt, LastUseOk, Told>>
<1>1. req[r] \in Request
  BY Held
<1>2. UNCHANGED session
  BY DEF CacheReplies, LookupServed, LookupUseless, Saved, AbandonedEnds
<1>3. CASE r \in Gets /\ (LookupServed(r) \/ LookupUseless(r) \/ Saved(r))
  <2>1. Quiet(r)
    BY <1>1, <1>3, AnswerQuiet DEF LookupServed, LookupUseless, Saved
  <2> QED BY <1>2, <2>1, QuietTold DEF StoredAt, LastUseOk
<1>4. CASE AbandonedEnds(r, "lookup") \/ AbandonedEnds(r, "save")
  BY <1>2, <1>4 DEF AbandonedEnds, StoredAt, LastUseOk, Told
<1> QED BY <1>3, <1>4 DEF CacheReplies

LEMMA ReceivedImplements ==
  ASSUME Inv, NEW r \in Requests, NEW c \in Callers,
         \/ r \in Gets /\ GetReceived(r, c)
         \/ r \in Puts /\ PutReceived(r, c)
  PROVE  UNCHANGED <<StoredAt, LastUseOk, Told>>
<1> DEFINE fields == [req[r] EXCEPT !.caller = c]
<1>1. req[r] \in Request /\ OK(r, req[r]) /\ req[r].pc = "idle"
  BY Held DEF GetReceived, PutReceived
<1>2. req[r].verdict = "null"
  BY <1>1 DEF OK, GetOK, PutOK
<1>3. fields \in Request /\ fields.verdict = "null"
  BY <1>1, <1>2 DEF Request
<1>4. PICK kind : Awaits(r, kind, fields)
  BY DEF GetReceived, PutReceived
<1>5. UNCHANGED session
  BY DEF GetReceived, PutReceived
<1> HIDE DEF fields
<1>6. Told' = Told
  BY <1>2, <1>3, <1>4, AwaitsQuiet, QuietTold
<1> QED BY <1>5, <1>6 DEF StoredAt, LastUseOk

\* Two handlers over one table and one pool, with deadlines and abandoned
\* jobs, implement the register: what the table shows of a stored session was
\* said of that session.
THEOREM Implements == Spec => ImplementsSessionRegister
<1>1. Init => Register!Init
  <2> SUFFICES ASSUME Init PROVE Register!Init
    OBVIOUS
  <2>1. \A c \in Callers : session[c] # None =>
          session[c].stored_at = Earlier /\ session[c].ok \in Verdicts
    BY DEF Init
  <2>2. Told = {}
    BY DEF Init, Told
  <2> QED BY <2>1, <2>2 DEF Register!Init, Register!Verdicts, Register!Sayings, Verdicts,
                            StoredAt, LastUseOk
<1>2. ASSUME Inv, [Next]_vars
      PROVE  Register!Next \/ UNCHANGED <<StoredAt, LastUseOk, Told>>
  <2>1. CASE Take \/ UNCHANGED vars
    BY <2>1 DEF Take, vars, StoredAt, LastUseOk, Told
  <2>2. ASSUME NEW r \in Requests, DeadlinePasses(r)
        PROVE  UNCHANGED <<StoredAt, LastUseOk, Told>>
    <3>1. UNCHANGED session
      BY <2>2 DEF DeadlinePasses, FetchDeadline, LookupDeadline, SaveDeadline
    <3> QED BY <1>2, <2>2, <3>1, DeadlineQuiet, QuietTold DEF StoredAt, LastUseOk
  <2>3. CASE \/ \E r \in Gets, c \in Callers : GetReceived(r, c)
             \/ \E p \in Puts, c \in Callers : PutReceived(p, c)
    BY <1>2, <2>3, ReceivedImplements DEF Requests
  <2> QED BY <1>2, <2>1, <2>2, <2>3, VaultImplements, CallImplements, CacheImplements
          DEF Next
<1>3. Inv /\ [Next]_vars => [Register!Next]_(Register!vars)
  BY <1>2 DEF Register!vars
<1> QED BY <1>1, <1>3, InvCorrect, PTL
        DEF Spec, ImplementsSessionRegister, Register!Spec

=============================================================================
