---------------------------- MODULE ProfileCache ----------------------------
(***************************************************************************)
(* The response cache behind GET /api/v1/profile: app/cache.py over the    *)
(* app.profile_cache table of app/db.py, and the part of get_profile       *)
(* (app/api/v1/profile.py) that feeds it and falls back to it.             *)
(*                                                                         *)
(* A request here has a working session (SessionVault stands before it):   *)
(* its fetch answers or fails.  An answer and a refusal of the session are *)
(* first recorded on the session's row, a round-trip nothing bounds.  Then *)
(* an answer is saved and returned live; a retryable failure is answered   *)
(* with the saved record if one is usable.  Each round-trip to the cache's *)
(* table runs in a thread under a deadline, and a thread the deadline      *)
(* abandons goes on: its write may land later.                             *)
(*                                                                         *)
(* A body is its member, its shape and the time it was read.  fetched_at   *)
(* is any time at all: nothing here relies on the clock moving forward.    *)
(***************************************************************************)
EXTENDS Naturals

CONSTANTS
  Profiles,     \* public ids
  Requests,     \* GET /profile requests, each identified once and for all
  Versions,     \* ENVELOPE_VERSION values of the builds that get deployed
  MaxTime,      \* bound on fetched_at
  None          \* no row, no record

ASSUME MaxTimeAssumption == MaxTime \in Nat

Times   == 1..MaxTime
Nothing == 0

Row == [about            : Profiles,
        shape            : {"envelope", "broken"},
        envelope_version : Versions,
        fetched_at       : Times]

ASSUME NoneIsNoRow == None \notin Row \cup Profiles

VARIABLES
  rows,         \* app.profile_cache: public id -> row or None
  version,      \* ENVELOPE_VERSION of the running build
  req,          \* what each request holds across its awaits
  acked         \* history: newest fetched_at whose save returned to a handler

vars == <<rows, version, req, acked>>

\* _record_outcome is awaited in two places: after an answer, and after
\* SESSION_EXPIRED.  Any other failure records nothing.
Recording == {"recording_answer", "recording_refusal"}

Request == [pc      : {"idle", "fetching", "reading", "saving", "looking_up",
                       "done"} \cup Recording,
            profile : Profiles \cup {None},
            record  : Row \cup {None},          \* what the fetch is building
            write   : {"none", "sent", "landed", "failed"},
            floor   : Times \cup {Nothing},     \* acked when the lookup began
            kind    : {"none", "live", "stale", "error"},
            body    : Row \cup {None}]          \* what the caller was shown

TypeOK ==
  /\ rows \in [Profiles -> Row \cup {None}]
  /\ version \in Versions
  /\ req \in [Requests -> Request]
  /\ acked \in [Profiles -> Times \cup {Nothing}]

Init ==
  /\ rows = [p \in Profiles |-> None]
  /\ version \in Versions
  /\ req = [r \in Requests |->
              [pc |-> "idle", profile |-> None, record |-> None,
               write |-> "none", floor |-> Nothing, kind |-> "none",
               body |-> None]]
  /\ acked = [p \in Profiles |-> Nothing]

-----------------------------------------------------------------------------
Answer(r, kind, body) ==
  req' = [req EXCEPT ![r].pc = "done", ![r].kind = kind, ![r].body = body]

\* Mutant: the stored body is not checked against the profile asked for.
UsableUnderAnyName(p, row) ==
  row.envelope_version = version /\ row.shape = "envelope"

\* Mutant: the stored body is published without being parsed.
UsableUnparsed(p, row) ==
  row.envelope_version = version /\ row.about = p

\* _as_stale_body.  Its first check, that the row's key is the id asked for, is
\* left out: a lookup here is by key, and only SQL that lost its WHERE clause
\* would fail it.  "broken" is every way a body is not an envelope.
Usable(p, row) ==
  /\ row.envelope_version = version
  /\ row.shape = "envelope"
  /\ row.about = p

\* Mutant: the upsert without its WHERE clause.
UpsertedAlways(p, record) == [rows EXCEPT ![p] = record]

\* _CACHE_SAVE_SQL: an older retrieval never replaces a newer one.
Upserted(p, record) ==
  IF rows[p] = None \/ rows[p].fetched_at <= record.fetched_at
    THEN [rows EXCEPT ![p] = record]
    ELSE rows

-----------------------------------------------------------------------------
(* The fetch, as the endpoint sees it *)

Begin(r, p) ==
  /\ req[r].pc = "idle"
  /\ req' = [req EXCEPT ![r].pc = "fetching", ![r].profile = p]
  /\ UNCHANGED <<rows, version, acked>>

\* fetched_at is stamped when the core profile is read, before the sections;
\* the answer may name any member.
CoreRead(r, a, t) ==
  /\ req[r].pc = "fetching"
  /\ req' = [req EXCEPT ![r].pc = "reading",
                        ![r].record = [about |-> a, shape |-> "envelope",
                                       envelope_version |-> version,
                                       fetched_at |-> t]]
  /\ UNCHANGED <<rows, version, acked>>

\* LinkedIn answered: last_use_ok = true is recorded before anything else.
FetchAnswered(r) ==
  /\ req[r].pc = "reading"
  /\ req' = [req EXCEPT ![r].pc = "recording_answer"]
  /\ UNCHANGED <<rows, version, acked>>

\* SESSION_EXPIRED: last_use_ok = false is recorded before the error is raised.
FetchExpired(r) ==
  /\ req[r].pc \in {"fetching", "reading"}
  /\ req' = [req EXCEPT ![r].pc = "recording_refusal"]
  /\ UNCHANGED <<rows, version, acked>>

\* Any other permanent failure, the client's own guard against an answer about
\* someone else among them: answered as itself, without a record or a lookup.
FetchRefused(r) ==
  /\ req[r].pc \in {"fetching", "reading"}
  /\ Answer(r, "error", None)
  /\ UNCHANGED <<rows, version, acked>>

\* A retryable failure, the 45 s deadline and an untyped exception included.
FetchFailed(r) ==
  /\ req[r].pc \in {"fetching", "reading"}
  /\ req' = [req EXCEPT ![r].pc = "looking_up",
                        ![r].floor = acked[req[r].profile]]
  /\ UNCHANGED <<rows, version, acked>>

-----------------------------------------------------------------------------
(* _record_outcome returned, or swallowed what the session table raised *)

\* The answer is about the member asked for: map it, send the save.
AnswerRecorded(r) ==
  /\ req[r].pc = "recording_answer"
  /\ req[r].record.about = req[r].profile
  /\ req' = [req EXCEPT ![r].pc = "saving", ![r].write = "sent"]
  /\ UNCHANGED <<rows, version, acked>>

\* It is about someone else: a 502 no record softens.
MemberMismatch(r) ==
  /\ req[r].pc = "recording_answer"
  /\ req[r].record.about # req[r].profile
  /\ Answer(r, "error", None)
  /\ UNCHANGED <<rows, version, acked>>

\* fallback_for declines a failure that is not retryable without a lookup.
RefusalRecorded(r) ==
  /\ req[r].pc = "recording_refusal"
  /\ Answer(r, "error", None)
  /\ UNCHANGED <<rows, version, acked>>

-----------------------------------------------------------------------------
(* remember: the thread, and the handler that waits for it *)

SaveLands(r) ==
  /\ req[r].write = "sent"
  /\ rows' = Upserted(req[r].profile, req[r].record)
  /\ req' = [req EXCEPT ![r].write = "landed"]
  /\ UNCHANGED <<version, acked>>

\* Refused, timed out by Postgres, or never delivered.
SaveVanishes(r) ==
  /\ req[r].write = "sent"
  /\ req' = [req EXCEPT ![r].write = "failed"]
  /\ UNCHANGED <<rows, version, acked>>

SaveReturned(r) ==
  /\ req[r].pc = "saving"
  /\ req[r].write \in {"landed", "failed"}
  /\ Answer(r, "live", req[r].record)
  /\ acked' = IF /\ req[r].write = "landed"
                 /\ req[r].record.fetched_at > acked[req[r].profile]
                THEN [acked EXCEPT ![req[r].profile] = req[r].record.fetched_at]
                ELSE acked
  /\ UNCHANGED <<rows, version>>

\* Mutant: no deadline; only a statement that fails sends the caller away.
SaveAbandonedOnError(r) ==
  /\ req[r].pc = "saving"
  /\ req[r].write = "failed"
  /\ Answer(r, "live", req[r].record)
  /\ UNCHANGED <<rows, version, acked>>

\* An exception in remember, or PROFILE_CACHE_DEADLINE_SECONDS: the caller is
\* answered and the write, if it was sent, is on its own.
SaveAbandoned(r) ==
  /\ req[r].pc = "saving"
  /\ Answer(r, "live", req[r].record)
  /\ UNCHANGED <<rows, version, acked>>

-----------------------------------------------------------------------------
(* fallback_for *)

LookupServed(r) ==
  LET row == rows[req[r].profile]
  IN  /\ req[r].pc = "looking_up"
      /\ row # None
      /\ Usable(req[r].profile, row)
      /\ Answer(r, "stale", row)
      /\ UNCHANGED <<rows, version, acked>>

\* NO_RECORD and UNUSABLE_RECORD: the live failure stands.
LookupUseless(r) ==
  LET row == rows[req[r].profile]
  IN  /\ req[r].pc = "looking_up"
      /\ row # None => ~Usable(req[r].profile, row)
      /\ Answer(r, "error", None)
      /\ UNCHANGED <<rows, version, acked>>

\* DATASTORE_UNAVAILABLE: an exception, or the deadline.
LookupAbandoned(r) ==
  /\ req[r].pc = "looking_up"
  /\ Answer(r, "error", None)
  /\ UNCHANGED <<rows, version, acked>>

-----------------------------------------------------------------------------
(* Around the process *)

InFlight(r) == req[r].pc \notin {"idle", "done"}

\* A build with another envelope, or the same one, replaces the container.
\* Writes already sent are Postgres's.
Deploy(v) ==
  /\ version' = v
  /\ req' = [r \in Requests |->
               IF InFlight(r) THEN [req[r] EXCEPT !.pc = "done", !.kind = "error"]
                              ELSE req[r]]
  /\ UNCHANGED <<rows, acked>>

\* A row edited by hand, or written by a build that changed the envelope and
\* not its version: unparseable, misshapen, or filed under the wrong member.
Damage(p, a, shape) ==
  /\ rows[p] # None
  /\ rows[p].about = p /\ rows[p].shape = "envelope"
  /\ a # p \/ shape = "broken"
  /\ rows' = [rows EXCEPT ![p].about = a, ![p].shape = shape]
  /\ UNCHANGED <<version, req, acked>>

-----------------------------------------------------------------------------
FetchStep(r) ==
  \/ \E a \in Profiles, t \in Times : CoreRead(r, a, t)
  \/ FetchAnswered(r) \/ FetchExpired(r) \/ FetchRefused(r) \/ FetchFailed(r)

RecordStep(r)  == AnswerRecorded(r) \/ MemberMismatch(r) \/ RefusalRecorded(r)
ThreadStep(r)  == SaveLands(r) \/ SaveVanishes(r)
ReplyStep(r)   == SaveReturned(r) \/ LookupServed(r) \/ LookupUseless(r)
DeadlineStep(r) == SaveAbandoned(r) \/ LookupAbandoned(r)

Next ==
  \/ \E r \in Requests :
        \/ \E p \in Profiles : Begin(r, p)
        \/ FetchStep(r) \/ RecordStep(r)
        \/ ThreadStep(r) \/ ReplyStep(r) \/ DeadlineStep(r)
  \/ \E v \in Versions : Deploy(v)
  \/ \E p, a \in Profiles, shape \in {"envelope", "broken"} : Damage(p, a, shape)

Spec == Init /\ [][Next]_vars

\* asyncio.timeout bounds the fetch (45 s) and both round-trips to the cache
\* (8 s), and the event loop runs what is ready.  Nothing is assumed of the
\* database: RecordStep is not fair, since nothing bounds _record_outcome.
Fairness == \A r \in Requests : WF_vars(FetchStep(r)) /\ WF_vars(DeadlineStep(r))

FairSpec == Spec /\ Fairness

-----------------------------------------------------------------------------
(* Properties *)

\* A record is never replaced by one read earlier, whichever of two fetches
\* of the profile finishes first and however late an abandoned write lands.
RecordNeverMovesBack ==
  [][\A p \in Profiles :
        rows[p] # None => /\ rows'[p] # None
                          /\ rows'[p].fetched_at >= rows[p].fetched_at]_vars

\* A 200 is about the member in the URL, live or stale, even when LinkedIn
\* answered about another or the row is filed under the wrong member.
NeverAnotherMember ==
  \A r \in Requests :
     req[r].kind \in {"live", "stale"} => req[r].body.about = req[r].profile

\* A stale answer is no older than any save some caller was answered after,
\* before this request turned to the cache.
StaleKeepsUp ==
  \A r \in Requests :
     req[r].kind = "stale" => req[r].body.fetched_at >= req[r].floor

\* Every stale answer was once a live one: some request read it from LinkedIn
\* for this very profile and got as far as saving it.
StaleWasLive ==
  \A r \in Requests :
     req[r].kind = "stale" =>
        \E q \in Requests : /\ req[q].profile = req[r].profile
                            /\ req[q].record = req[r].body
                            /\ req[q].write = "landed"

\* A database that stops answering holds no request at the cache: whatever it
\* had to save or to look up, a request is answered, unless it is the session's
\* verdict that is still being recorded.
CacheHoldsNobody ==
  \A r \in Requests : InFlight(r) ~> req[r].pc \in Recording \cup {"done"}

\* The cache is a register holding the last good record of each profile.
TimeOf(row) == IF row = None THEN Nothing ELSE row.fetched_at

Abstract ==
  INSTANCE LastGoodRecord
    WITH last  <- [p \in Profiles |-> TimeOf(rows[p])],
         asked <- [r \in Requests |-> req[r].profile],
         shown <- [r \in Requests |-> [kind |-> req[r].kind,
                                       fetched_at |-> TimeOf(req[r].body)]]

\* The table, its threads and deadlines implement that register: a stale
\* answer is the requested profile's last good record at the moment it is read.
ImplementsLastGoodRecord == Abstract!Spec
=============================================================================
