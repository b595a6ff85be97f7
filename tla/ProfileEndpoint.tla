--------------------------- MODULE ProfileEndpoint ---------------------------
(***************************************************************************)
(* GET /api/v1/profile and PUT /api/v1/session as a whole: get_profile     *)
(* (app/api/v1/profile.py) and put_session (app/api/v1/session.py) over    *)
(* the session vault, LinkedIn and the response cache, all of whose        *)
(* blocking work goes through asyncio's default executor.                  *)
(*                                                                         *)
(* SessionVault, ProfileFetch and ProfileCache model the three in detail;  *)
(* here a stored session is its stored_at and its verdict, a fetch is its  *)
(* outcome, and the cache is one record, so that what this module adds is  *)
(* the order of the steps between them and the threads they share.         *)
(*                                                                         *)
(* A job is one to_thread call.  Cancelling an await drops its job if no   *)
(* worker has taken it yet; a job under way goes on to its end.            *)
(***************************************************************************)
EXTENDS Integers, Sequences, FiniteSets, SequencesExt

CONSTANTS
  Callers,       \* Keycloak subjects
  Gets,          \* GET /profile requests for one profile
  Puts,          \* PUT /session requests
  Workers,       \* threads of the default executor
  Earlier,       \* whoever stored or cached something before the process began
  None           \* no row, no record, nobody

ASSUME WorkersAssumption == Workers \in Nat \ {0}
ASSUME RequestsAssumption ==
  /\ Gets \cap Puts = {}
  /\ {Earlier, None} \cap (Gets \cup Puts \cup Callers) = {}
  /\ Earlier # None

Requests == Gets \cup Puts

Verdicts == {"true", "false", "null"}

\* stored_at is the PUT that stored the row; readable, that its ciphertext
\* decrypts under the running process's key.
Session == [stored_at : Puts \cup {Earlier}, ok : Verdicts, readable : BOOLEAN]

ASSUME NoneIsNoSession == None \notin Session

\* What a fetch comes to: the profile asked for, a profile that names another
\* member, the client's own refusal of such an answer, SESSION_EXPIRED,
\* PROFILE_NOT_FOUND, or a retryable error (a throttle, a challenge, an
\* outage, a bug, the deadline).
Outcomes == {"profile", "stranger", "mismatch", "expired", "missing", "upstream"}

Kinds == {"unlock", "fetch", "record", "lookup", "save", "store", "verify"}
Jobs  == Requests \X Kinds

VARIABLES
  session,   \* app.linkedin_session: caller -> row or None
  record,    \* app.profile_cache: the request whose answer it holds, or None
  req,       \* what each request holds across its awaits
  queue,     \* jobs no worker has taken
  running    \* jobs workers are at

vars == <<session, record, req, queue, running>>

\* The phase of a request names the job it awaits.
Request == [pc      : {"idle", "done"} \cup Kinds,
            caller  : Callers \cup {None},
            held    : Puts \cup {Earlier, None},   \* stored_at of its session
            known   : Verdicts,             \* history: last_use_ok at unlock
            outcome : Outcomes \cup {"none"},
            verdict : Verdicts,             \* what it records
            status  : {"none", "live", "stale", "stored",
                       "404", "428", "502", "503"}]

TypeOK ==
  /\ session \in [Callers -> Session \cup {None}]
  /\ record \in Gets \cup {Earlier, None}
  /\ req \in [Requests -> Request]
  /\ queue \in Seq(Jobs)
  /\ running \subseteq Jobs

Init ==
  /\ session \in [Callers -> {None} \cup
                    [stored_at : {Earlier}, ok : Verdicts, readable : BOOLEAN]]
  /\ record \in {Earlier, None}
  /\ req = [r \in Requests |->
              [pc |-> "idle", caller |-> None, held |-> None, known |-> "null",
               outcome |-> "none", verdict |-> "null", status |-> "none"]]
  /\ queue = <<>>
  /\ running = {}

-----------------------------------------------------------------------------
(* The executor *)

\* A free worker takes the oldest job.
Take ==
  /\ queue # <<>>
  /\ Cardinality(running) < Workers
  /\ running' = running \cup {Head(queue)}
  /\ queue' = Tail(queue)
  /\ UNCHANGED <<session, record, req>>

\* The job r awaits, of this kind, ends.
Ends(r, kind) ==
  /\ req[r].pc = kind
  /\ <<r, kind>> \in running
  /\ running' = running \ {<<r, kind>>}

\* r goes on to await another job ...
Awaits(r, kind, fields) ==
  /\ req' = [req EXCEPT ![r] = [fields EXCEPT !.pc = kind]]
  /\ queue' = Append(queue, <<r, kind>>)

\* ... or is answered.
Answer(r, fields, status) ==
  /\ req' = [req EXCEPT ![r] = [fields EXCEPT !.pc = "done", !.status = status]]
  /\ UNCHANGED queue

-----------------------------------------------------------------------------
(* Errors *)

\* Mutant: the gate reads the code's default, not the error's own value.
RetryableByCode(outcome) == outcome \in {"upstream", "mismatch", "stranger"}

\* ApiError.retryable of the error a fetch raises.
Retryable(outcome) == outcome = "upstream"

StatusOf(outcome) ==
  CASE outcome = "expired" -> "428"
    [] outcome = "missing" -> "404"
    [] OTHER               -> "502"

\* The `ok` get_profile hands to _record_outcome.
VerdictOf(outcome) ==
  CASE outcome \in {"profile", "stranger"} -> "true"
    [] outcome = "expired"                 -> "false"
    [] OTHER                               -> "null"

-----------------------------------------------------------------------------
(* GET /api/v1/profile *)

\* The URL is parsed and the token verified.
GetReceived(r, c) ==
  /\ req[r].pc = "idle"
  /\ Awaits(r, "unlock", [req[r] EXCEPT !.caller = c])
  /\ UNCHANGED <<session, record, running>>

\* NO_SESSION, or a row that cannot be decrypted.
UnlockRefused(r) ==
  LET row == session[req[r].caller]
  IN  /\ Ends(r, "unlock")
      /\ row # None => ~row.readable
      /\ Answer(r, req[r], "428")
      /\ UNCHANGED <<session, record>>

\* DatastoreUnavailable.
UnlockFailed(r) ==
  /\ Ends(r, "unlock")
  /\ Answer(r, req[r], "503")
  /\ UNCHANGED <<session, record>>

\* What the row says of earlier uses is not looked at.
Unlocked(r) ==
  LET row == session[req[r].caller]
  IN  /\ Ends(r, "unlock")
      /\ row # None /\ row.readable
      /\ Awaits(r, "fetch", [req[r] EXCEPT !.held = row.stored_at,
                                           !.known = row.ok])
      /\ UNCHANGED <<session, record>>

\* The fetch returned or raised; what says nothing of the cookie is not
\* recorded, and an error turns to the cache.
Fetched(r, o) ==
  LET held == [req[r] EXCEPT !.outcome = o, !.verdict = VerdictOf(o)]
  IN  /\ Ends(r, "fetch")
      /\ Awaits(r, IF VerdictOf(o) # "null" THEN "record" ELSE "lookup", held)
      /\ UNCHANGED <<session, record>>

\* Mutant: the await ends and its job stays in the queue.
CancelledInNameOnly(r, kind) == queue

\* asyncio.timeout cancels the await: a job still queued goes with it.
Cancelled(r, kind) == RemoveFirst(queue, <<r, kind>>)

FetchDeadline(r) ==
  /\ req[r].pc = "fetch"
  /\ req' = [req EXCEPT ![r].pc = "lookup", ![r].outcome = "upstream"]
  /\ queue' = Append(Cancelled(r, "fetch"), <<r, "lookup">>)
  /\ UNCHANGED <<session, record, running>>

\* Mutant: the subject's row takes the verdict, whatever it holds by now.
MarkedBySubject(r) ==
  LET c == req[r].caller
  IN  IF session[c] # None
        THEN [session EXCEPT ![c].ok = req[r].verdict]
        ELSE session

\* mark_use: the verdict goes to the row the cookie came from, or nowhere.
Marked(r) ==
  LET c == req[r].caller
  IN  IF session[c] # None /\ session[c].stored_at = req[r].held
        THEN [session EXCEPT ![c].ok = req[r].verdict]
        ELSE session

\* What follows the bookkeeping, whether or not it could be written.
AfterRecord(r) ==
  CASE r \in Puts                  -> Answer(r, req[r], "stored")
    [] req[r].outcome = "expired"  -> Awaits(r, "lookup", req[r])
    [] req[r].outcome = "stranger" -> Answer(r, req[r], "502")
    [] req[r].outcome = "profile"  -> Awaits(r, "save", req[r])

Recorded(r) ==
  /\ Ends(r, "record")
  /\ session' = Marked(r)
  /\ AfterRecord(r)
  /\ UNCHANGED record

\* A psycopg error: the verdict was not written, or was and nobody was told.
\* _record_outcome swallows what record_use raises; put_session does not.
RecordFailed(r) ==
  /\ Ends(r, "record")
  /\ session' \in {session, Marked(r)}
  /\ IF r \in Puts THEN Answer(r, req[r], "503") ELSE AfterRecord(r)
  /\ UNCHANGED record

\* fallback_for: a permanent error is itself, without a look at the table.
LookupServed(r) ==
  /\ Ends(r, "lookup")
  /\ Retryable(req[r].outcome)
  /\ record # None
  /\ Answer(r, req[r], "stale")
  /\ UNCHANGED <<session, record>>

\* NOT_RETRYABLE, NO_RECORD, UNUSABLE_RECORD or DATASTORE_UNAVAILABLE.
LookupUseless(r) ==
  /\ Ends(r, "lookup")
  /\ Answer(r, req[r], StatusOf(req[r].outcome))
  /\ UNCHANGED <<session, record>>

LookupDeadline(r) ==
  /\ req[r].pc = "lookup"
  /\ req' = [req EXCEPT ![r].pc = "done", ![r].status = StatusOf(req[r].outcome)]
  /\ queue' = Cancelled(r, "lookup")
  /\ UNCHANGED <<session, record, running>>

\* remember, and the upsert that may find a newer record in the table.
Saved(r) ==
  /\ Ends(r, "save")
  /\ record' \in {record, r}
  /\ Answer(r, req[r], "live")
  /\ UNCHANGED session

SaveDeadline(r) ==
  /\ req[r].pc = "save"
  /\ req' = [req EXCEPT ![r].pc = "done", ![r].status = "live"]
  /\ queue' = Cancelled(r, "save")
  /\ UNCHANGED <<session, record, running>>

-----------------------------------------------------------------------------
(* PUT /api/v1/session *)

PutReceived(p, c) ==
  /\ req[p].pc = "idle"
  /\ Awaits(p, "store", [req[p] EXCEPT !.caller = c])
  /\ UNCHANGED <<session, record, running>>

\* Mutant: the upsert leaves last_use_ok as it was.
UpsertedKeepingVerdict(p) ==
  LET row == session[req[p].caller]
  IN  [session EXCEPT ![req[p].caller] =
         [stored_at |-> p, readable |-> TRUE,
          ok |-> IF row = None THEN "null" ELSE row.ok]]

\* _UPSERT_SQL: a new row, whose cookie nothing is known of.
Upserted(p) ==
  [session EXCEPT ![req[p].caller] =
     [stored_at |-> p, ok |-> "null", readable |-> TRUE]]

Stored(p) ==
  /\ Ends(p, "store")
  /\ session' = Upserted(p)
  /\ Awaits(p, "verify", [req[p] EXCEPT !.held = p])
  /\ UNCHANGED record

\* A psycopg error: nothing was written, or the row was and the caller is told
\* 503.  A statement that commits later still is SessionVault's (OrphanLands).
StoreFailed(p) ==
  /\ Ends(p, "store")
  /\ session' \in {session, Upserted(p)}
  /\ Answer(p, req[p], "503")
  /\ UNCHANGED record

\* check_stored_session
Verified(p, v) ==
  /\ Ends(p, "verify")
  /\ IF v = "null" THEN Answer(p, req[p], "stored")
                   ELSE Awaits(p, "record", [req[p] EXCEPT !.verdict = v])
  /\ UNCHANGED <<session, record>>

-----------------------------------------------------------------------------
(* Jobs nobody awaits *)

Abandoned(r, kind) == <<r, kind>> \in running /\ req[r].pc # kind

\* A call to LinkedIn or a lookup comes back to nobody; a save may land.
AbandonedEnds(r, kind) ==
  /\ Abandoned(r, kind)
  /\ running' = running \ {<<r, kind>>}
  /\ record' \in IF kind = "save" THEN {record, r} ELSE {record}
  /\ UNCHANGED <<session, req, queue>>

-----------------------------------------------------------------------------
\* Statements on the session table.  They have no statement timeout.
VaultReplies(r) ==
  \/ r \in Gets /\ (Unlocked(r) \/ UnlockRefused(r) \/ UnlockFailed(r))
  \/ r \in Puts /\ (Stored(r) \/ StoreFailed(r))
  \/ Recorded(r) \/ RecordFailed(r)

\* Calls to LinkedIn, each under its timeout.
CallEnds(r) ==
  \/ r \in Gets /\ \E o \in Outcomes : Fetched(r, o)
  \/ r \in Puts /\ \E v \in Verdicts : Verified(r, v)
  \/ AbandonedEnds(r, "fetch")

\* Mutant: the cache's connection without CACHE_STATEMENT_TIMEOUT_MS.
CacheRepliesAtWill(r) == FALSE

\* Statements on the cache table: answered, or aborted by the server.
CacheReplies(r) ==
  \/ r \in Gets /\ (LookupServed(r) \/ LookupUseless(r) \/ Saved(r))
  \/ AbandonedEnds(r, "lookup") \/ AbandonedEnds(r, "save")

DeadlinePasses(r) == FetchDeadline(r) \/ LookupDeadline(r) \/ SaveDeadline(r)

Next ==
  \/ \E r \in Gets, c \in Callers : GetReceived(r, c)
  \/ \E p \in Puts, c \in Callers : PutReceived(p, c)
  \/ Take
  \/ \E r \in Requests : \/ VaultReplies(r) \/ CallEnds(r) \/ CacheReplies(r)
                         \/ DeadlinePasses(r)

Spec == Init /\ [][Next]_vars

\* Workers work, LinkedIn's timeouts and asyncio's fire, and Postgres aborts a
\* cache statement that takes too long.
ProcessFairness ==
  /\ WF_vars(Take)
  /\ \A r \in Requests :
        /\ WF_vars(CallEnds(r))
        /\ WF_vars(CacheReplies(r))
        /\ WF_vars(DeadlinePasses(r))

\* The session table answers, or a statement on it may never return.
FairSpec      == Spec /\ ProcessFairness /\ \A r \in Requests : WF_vars(VaultReplies(r))
WedgeableSpec == Spec /\ ProcessFairness

-----------------------------------------------------------------------------
(* Properties *)

\* A permanent failure reaches the caller as itself whatever is cached: a dead
\* session, a missing member, and an answer about somebody else by either of
\* the two guards (get_profile, fallback_for).
PermanentFailureShown ==
  \A r \in Gets :
     req[r].outcome \in {"expired", "missing", "mismatch", "stranger"} =>
        req[r].status \notin {"live", "stale"}

\* last_use_ok is never a libel: `false` needs a refusal, and `true` an answer,
\* under that very cookie, whichever PUTs and fetches overlapped.
VerdictIsEarned ==
  \A c \in Callers :
     session[c] # None /\ session[c].stored_at # Earlier /\ session[c].ok # "null" =>
        \E r \in Requests :
           /\ req[r].caller = c /\ req[r].held = session[c].stored_at
           /\ session[c].ok = "true"  => \/ r \in Puts /\ req[r].verdict = "true"
                                         \/ req[r].outcome \in {"profile", "stranger"}
           /\ session[c].ok = "false" => \/ r \in Puts /\ req[r].verdict = "false"
                                         \/ req[r].outcome = "expired"

\* What a reader of the table sees of each caller, and what the requests were
\* told about the sessions they held.
StoredAt  == [c \in Callers |-> IF session[c] = None THEN None ELSE session[c].stored_at]
LastUseOk == [c \in Callers |-> IF session[c] = None THEN "null" ELSE session[c].ok]
Told      == {<<req[r].caller, req[r].held, req[r].verdict>> :
                r \in {q \in Requests : req[q].verdict # "null"}}

Register == INSTANCE SessionRegister
              WITH Subjects <- Callers, Stamps <- Puts \cup {Earlier},
                   stored <- StoredAt, known <- LastUseOk, said <- Told

\* Through the two handlers the session table keeps the promise the vault makes
\* of it: a verdict is learned only of the stored session it was given on, and
\* a PUT forgets it.
ImplementsSessionRegister == Register!Spec

\* Whatever waits for a worker is awaited: a request that was given up takes
\* no worker from the ones that come after it.
QueueIsWanted ==
  \A i \in DOMAIN queue : req[queue[i][1]].pc = queue[i][2]

\* With as many workers as you like, even one: every request is answered.
EveryRequestAnswered ==
  \A r \in Requests : req[r].pc \notin {"idle", "done"} ~> req[r].pc = "done"

\* The pool is never used up for good: calls nobody waits for any more, a fetch
\* past its deadline or a cache statement past its own, give their workers back.
WorkersComeBack == []<>(Cardinality(running) < Workers)

\* A caller whose session LinkedIn has refused is not answered from the cache.
RefusedSessionIsNotServed ==
  \A r \in Gets : req[r].status = "stale" => req[r].known # "false"
=============================================================================
