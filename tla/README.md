# A verification project for the LinkedIn profile service

The service answers `GET /api/v1/profile?url=...` with a LinkedIn profile, read
from LinkedIn under a session cookie the caller stored with
`PUT /api/v1/session`. Callers authenticate with a Keycloak access token. It is
one uvicorn process; handlers are asyncio tasks, everything that blocks runs in
a thread, and PostgreSQL is the only state that outlives the process.

This directory holds TLA+ modules translated from `src/app`, configurations that
check them with TLC, and theorems about them checked by TLAPS.

1. [The system](#1-the-system)
2. [The modules](#2-the-modules)
3. [What the runs check](#3-what-the-runs-check)
4. [What is proved](#4-what-is-proved)
5. [Where code and documents disagree](#5-where-code-and-documents-disagree)
6. [What is not modelled](#6-what-is-not-modelled)
7. [Plan](#7-plan)

## 1. The system

| Component | State it keeps | Operations |
|---|---|---|
| Session vault, `vault.py` | none of its own; the Fernet key is read at start | `store`, `unlock`, `state`, `record_use` |
| Session store, `db.py` | `app.linkedin_session`, a row per subject | `upsert`, `fetch`, `mark_use`, one transaction each |
| Session endpoint, `api/v1/session.py` | per request, across awaits | `PUT`: store, verify once, record; `GET`: state |
| Response cache, `cache.py`, `db.py` | `app.profile_cache`, a row per public id | `remember`, `fallback_for` |
| Profile endpoint, `api/v1/profile.py` | per request, across awaits | unlock, fetch, record, remember or fall back |
| Voyager client, `linkedin/client.py` | per request: call count, memoized probe | `fetch_profile`, `check_session` |
| JWKS cache, `auth.py` | keys held, when loaded, when last attempted | `signing_key` |
| Routing, `api/v1/__init__.py` | none | first match, the catch-all's redirect, 405 and 404 |
| Token verification, `auth.py` | none | `require_claims` |
| Error taxonomy, `errors.py` | none | code and cause to status, `retryable`, envelope |
| Mapping, `mapping/` | none | raw sections to the published profile and `partial[]` |
| Bootstrap, `db.py`, `main.py` | the schema | DDL under an advisory lock, retried, fatal |
| Health, configuration | none | |

How they interact:

* every authenticated route depends on `require_claims`, a plain function that
  FastAPI runs in its threadpool: calls of `JwksCache.signing_key` are
  concurrent threads, with a lock they do not hold while they fetch;
* the two `/session` and `/profile` handlers call the vault through
  `asyncio.to_thread`. Requests of one caller overlap at every await, and
  `stored_at` is the only thing that ties a verdict to the row it is about;
* `get_profile` puts a 45 s deadline on the fetch and an 8 s one on each cache
  round-trip. `asyncio.timeout` frees the request and not the thread, so a
  write that was abandoned may still be committed, and a job that was given up
  keeps its worker of the default pool, which all of them share;
* within one fetch, the sections are concurrent tasks over one client, and share
  one `me` probe behind a lock;
* the cache is shared by all callers, and only reached by a request that passed
  the vault and then met a retryable failure;
* every failure, of the framework, a dependency or a handler, is an exception that
  `errors.py` renders; the cache's gate reads the same `retryable` the caller sees;
* several containers may start over one volume, and agree on the schema through
  PostgreSQL alone.

What makes each part correct:

* **endpoint**: a permanent failure is never covered by the cache; a verdict is
  earned under the cookie it is recorded for; what was given up takes no worker
  from what comes after it; requests are answered;
* **vault**: a verdict is about the cookie in its row; nobody acts under another
  subject's cookie; a pasted cookie survives its verification; requests are
  answered;
* **response cache**: a record never moves back; a stale answer was once a live
  one, about the same member, and the newest anybody was told of; a database
  that is silent costs a deadline and no more at the cache;
* **retrieval**: a 404 is about the member; a refused cookie is told; no profile
  with a section lost to throttling, a wall, a bot verdict or a 401; no calls left
  behind; the fetch ends;
* **JWKS cache**: one refresh at a time; keys in use are not lost; keys never
  move back; 502 only without keys;
* **around the handler**: who is not authenticated is told the same whatever they
  asked for; "retry" is advised exactly when it can help; the catch-all sends
  nobody in circles;
* **mapping**: a field is published as whole as LinkedIn's page said it is, or named
  in `partial[]`;
* **bootstrap**: whoever serves has its schema; no start trips over another;
  nobody finds half a schema.

The hazards, each at its line, are in `PROJECT.json`. The hard ones are
interleavings (overlapping PUTs, uses and fetches), writes that land after the
caller was answered, results remembered longer than they are true, and partial
failure of concurrent calls.

## 2. The modules

| Module | Models |
|---|---|
| `SessionVault` | the vault over its table, under `PUT /session` and `GET /profile` |
| `ProfileCache` | the response cache over its table, and the part of `get_profile` around it |
| `LastGoodRecord` | what the response cache promises, with no datastore in it |
| `ProfileFetch` | one retrieval: core, decorated retry, sections, probe, deadline |
| `JwksCache` | the signing-key cache under concurrent calls |
| `ProfileEndpoint` | `get_profile` and `put_session` as a whole, over vault, LinkedIn, cache and the thread pool |
| `SessionRegister` | what the vault promises of its verdicts, with no cookies or statements in it |
| `RequestPipeline` | one request around its handler: routing, token, validation, envelope |
| `ProfileMapping` | from section pages to `profile` and `partial[]` |
| `Bootstrap` | containers that start over one volume |
| `MC...` | the same, with the symmetry or the constants TLC uses |
| `...Proofs` | the theorems about each |

**SessionVault.** `rows` is the table, `key` the Fernet key of the running
process, `req` what each request holds across its awaits: its phase, the cookie
it sealed or unlocked, the row's `stored_at`, the verdict to record. A Fernet
ciphertext is a record of the key, the subject and the cookie, so that decrypting
under the wrong key or for the wrong subject is a comparison. `PutReceived`,
`PutStored`, `PutVerified`, `RecordUse`, `MarkUse` are the steps of `put_session`
between awaits; `UseReceived`, `Unlock` (or `UnlockRefused`,
`UnlockUnavailable`), `UseAnswered`, `RecordUse`, `MarkUse` those of
`get_profile`. `WriteLost` is a `psycopg.Error` during a write: the caller is
answered and the statement may commit later (`OrphanLands`) or not
(`OrphanVanishes`). `Restart` replaces the process, possibly with another key;
`Transplant` moves a ciphertext between rows, which is what the subject inside
the ciphertext is there for. `answers` is a history of what LinkedIn said about
which cookie; no action reads it.

**SessionRegister.** Per subject, which session is stored and what is known of it.
Storing one forgets what was known, and nothing is learned that was not said of
the session stored now. `SessionVault` implements it under `stored <- stored_at of
the row`, `known <- last_use_ok`, `said <- the verdicts requests hold`: a write
whose connection was lost, or that finds another row, is a stutter or one of the
register's steps.

**ProfileCache.** `rows` is the table; a row is its member, its shape, its
envelope version and `fetched_at`. `fetched_at` is any time at all: nothing rests
on the clock moving forward. `write` is the thread that saves, which goes on
after `SaveAbandoned`. Before it comes the bookkeeping: an answer
(`FetchAnswered`) and a `SESSION_EXPIRED` (`FetchExpired`) are recorded on the
session's row first, and the request waits for that write as long as PostgreSQL
likes (`Recording`, `RecordStep`, which is not fair). `Deploy` replaces the build,
`Damage` is an edited or misfiled row. `acked` and `floor` are histories that say what a caller could know
when another request turned to the cache.

**LastGoodRecord.** A register per profile that only moves forward, and answers
that are live, stale (the register's value) or an error. `ProfileCache` is shown
to implement it under the mapping `last <- fetched_at of the row`.

**ProfileFetch.** A reply is what the classifier looks at: status, whether it is a
wall, and what a readable body holds. `Classified` is `_classify` with its order;
`Reconsidered`, `AfterProbe` and `ProbeVerdict` are the path of a 403 through the
probe. The truth about the session (which may die at any moment) and about the
member is state too: LinkedIn's replies follow it (`MayReply`, `MayReplyToMe`)
and the properties compare the outcome with it. What is assumed of LinkedIn is
deliberately little: data needs a live session, a 401 a dead one, and on the core
request a plain 403 means a dead session or an invisible member, a 404 an
invisible one. Walls, throttling, outages and unreadable bodies come at any time,
and a section may be refused for reasons of its own. Calls take time and the
program takes none: `Tick` waits until every task does (`Waiting`), so that a
deadline that passes has found the fetch waiting for LinkedIn. A restart is not
modelled: a fetch has no state that outlives it.

**JwksCache.** `AnsweredFromCache` and `RefreshClaimed` are the first critical
section of `signing_key`, `KeycloakAnswers` and `FetchFailed` the fetch outside
the lock, `Installed` the second critical section. `Rotate` is the realm; a kid
that was withdrawn is not used again. A document may be one whose every entry
`_signature_keys` drops.

**ProfileEndpoint.** The composition. A request's phase names the `to_thread` call
it awaits; `queue` and `running` are the default executor's, a job being the
request and the phase it was queued for. A stored session is
reduced to its stamp, its verdict and whether it decrypts, a fetch to its outcome,
and the cache to one record, so that what the module adds is the order of the
steps between them: `Unlocked`, `Fetched` or `FetchDeadline`, `Recorded` or
`RecordFailed`, then `LookupServed`, `LookupUseless` or `Saved`, each with its
deadline. A statement of the session table that fails (`StoreFailed`,
`RecordFailed`) has been committed or not. `Cancelled` is what `asyncio.timeout` does to a job no worker has taken;
one under way goes on (`AbandonedEnds`), and a save may still land. A fetch takes
one worker here and up to five in the code, which the question of whether workers
come back does not tell apart. `StatusOf` and `VerdictOf` are the error's status
and what `_record_outcome` is told. The composition keeps the vault's promise too:
`ProfileEndpoint` implements `SessionRegister` under `stored <- StoredAt`,
`known <- LastUseOk`, `said <- Told`.

**RequestPipeline.** A sequential machine over one request: `Route`, `ReadBody`,
`RequireClaims`, `Validate`, `Handle` or `AnswerUnmatchedPath`, `Render`, and a
client that follows the redirect. A token is the set of what is wrong with it; the
order in which `require_claims` looks at those decides which failure is raised.
Failures are named for what went wrong, and `CodeOf`, `ERROR_SPECS`, `Narrowed`,
`StatusOf` and `FallbackCode` are the tables between that and the wire. FastAPI's
own order, body before dependencies before validation, is part of the model and
marked external. Each profile name of the path stands for a route; a path with a
further segment is one more absent name.

**ProfileMapping.** A member's list is `1 .. entries`; a page carries a first part
of it, each place in one of the conditions a mapper tells apart (`Slot`), in one of
the forms an envelope can have (`Form`), with a total or without. It may also carry
nothing of a list that has entries, and say so: LinkedIn was seen to (`SaysNone`). `FetchSection` is
what the client records, `MapField` what `_map` makes of one contract field, in
the contract's order. A published list is the places it holds, so that "whole" is
equality with `1 .. entries`. `Resolved` states what the mapper keeps of a page by
counting, place by place; `MCProfileMapping` has TLC compare it with the filter the
code is written as, on every page of up to four references.

**Bootstrap.** `tables` is what is committed, `created` what each open transaction
has and has not committed, `holder` who has the advisory lock. `CREATE ... IF NOT
EXISTS` is two steps, a look and an insert, as PostgreSQL's is: that is what the
lock is for. A container can be killed and a connection lost anywhere; the backend
may notice at once (`RolledBack`), later (`LeftBehind`, then `GhostRollsBack`), or
after it has committed (`CommitUnconfirmed`).

Left out of all of them: formatting, logging, and the wording of errors.

Operators named after a definition with a suffix (`MatchesSubject`,
`UpsertedAlways`, ...) are plausible bugs in it, listed in `PROJECT.json` under
"mutants": with the definition replaced, the property is violated.

## 3. What the runs check

Runs that pass:

| Run | Bounds | Shows |
|---|---|---|
| `endpoint_answers` | 1 caller, 2 profile requests, 1 PUT, 1 worker | `PermanentFailureShown`, `VerdictIsEarned`, `QueueIsWanted`, `ImplementsSessionRegister`, `EveryRequestAnswered`, `WorkersComeBack` |
| `vault_sessions` | 2 subjects, 2 keys, 2 PUTs of 2 cookies, 1 use | `VerdictBelongsToCookie`, `CredentialSurvivesVerification`, `ActsUnderOwnCookie`, `ImplementsSessionRegister` |
| `cache_records` | 3 requests for 1 profile, 2 builds, 3 times | `StaleKeepsUp`, `StaleWasLive` |
| `cache_members` | 2 requests, 2 profiles, 2 builds, 2 times, a database that may never answer | `NeverAnotherMember`, `RecordNeverMovesBack`, `ImplementsLastGoodRecord`, `CacheHoldsNobody` |
| `jwks_refresh` | 2 threads, 3 kids, 2 rotations, 6 ticks | `OneFetchAtATime`, `KeySetNeverMovesBack`, `AcceptedKeyStaysHeld`, `UnavailableOnlyWithoutKeys` |
| `fetch_outcomes` | 2 sections, deadline after 1 tick, calls of any length or without end | `NotFoundIsAboutTheMember`, `RefusalIsTold`, `OnlyForgivableLosses`, `NothingRunsOn`, `CallsAccountedFor`, `FetchEnds` |
| `bootstrap_start` | 3 containers, 3 statements, 2 attempts, 2 faults | `ServingMeansSchema`, `RaceNeverLost`, `NeverHalfASchema`, `EveryContainerServes` |
| `request_pipeline` | 4 paths with and without a slash, 3 methods, 2 token faults at once, 2 redirects | `AuthenticationComesFirst`, `ChallengeFitsTheToken`, `RetryAdviceIsHonest`, `InternalErrorIsABug`, `RedirectLeadsToARoute` |
| `profile_mapping` | 2 sections and 2 core fields, pages of 2, lists of up to 3 | `PublishedIsWhole`, `ReadableIsPublished`, `PartialIsExact` |

Every module's type invariant is a theorem of its proof module.

Why the bounds are enough:

* endpoint: one worker is the smallest pool, and any wait for a worker that can
  happen with more happens with it. Two requests and a PUT of one caller are what
  it takes for a verdict to meet another row and for a request to wait behind an
  abandoned one. That a second caller's session is never used is checked with
  two callers in `vault_sessions`;
* vault: the clock must reach at least one reading per PUT and one per verdict,
  `2 * |Puts| + |Uses|`, or a request would be stuck for want of time. Two PUTs
  and a use are what it takes for a verdict to outlive its row; a second subject
  adds the moved rows, a second key the rotation;
* cache: two saves and a lookup, in any order, with one write abandoned, take
  three requests. Three times give an older, an equal and a newer record;
* JWKS: with `Ttl = 3` and `Floor = 2` the clock passes both several times; two
  rotations make a key set that can be moved back to;
* fetch: two sections make a section that fails beside one that succeeds, two
  that wait for one probe, and a first failure that hides a second. `CallTime`
  larger than `Deadline` leaves calls unbounded. One tick is enough for the
  deadline to come before, between and after any of the calls, since every other
  step takes no time;
* bootstrap: two faults use up the attempts of one container or leave a ghost
  behind each of two; the volume starts with any first part of the schema;
* pipeline: the paths are the two real routes, a path with no route and the bare
  prefix; the methods are the two that are served and one nobody declares. Two
  faults in one token make the order of the checks visible;
* mapping: with a page of 2 a list of 3 is cut, a list of 2 fills its page, and 1
  and 0 do not; two sections make one that fails beside one that does not. Every
  list, of three entries too, may be answered with a page of none.

Symmetry is used in `vault_sessions`, `cache_records` and `jwks_refresh`, none of
which checks liveness; no definition tells one request, cookie, key or thread from
another. The refinement in `vault_sessions` is of specifications without fairness:
it is checked step by step, which symmetry leaves sound. Deadlock is checked where
the system goes on for ever. It is not in the runs of `ProfileFetch`,
`ProfileEndpoint`, `RequestPipeline` and `ProfileMapping`, which follow a request
or a few to their answers, and of `Bootstrap`, where nothing is left to do once
every container serves and the faults are used up.

Fairness. In the endpoint, workers work, calls to LinkedIn end by their own
timeouts, `asyncio.timeout` fires, PostgreSQL aborts a cache statement after
`CACHE_STATEMENT_TIMEOUT_MS`, and `endpoint_answers` also assumes that a statement
on the session table returns or fails; `endpoint_wedged` drops that. Requests
arrive when they like. For the cache by itself the deadlines are fair and the
fetch is, being under its own deadline; nothing is assumed of the database, neither
of the cache's table nor of the session's. `CacheHoldsNobody` says accordingly that
a request is held by nothing but the write of its verdict, which `endpoint_wedged`
shows can hold it. For the fetch, time passes, the event loop runs what is ready
(`Ready`: a probe to send, a refusal that has its verdict, a `gather` that has its
results) and fires the deadline's timer; nothing is assumed of LinkedIn or the
transport. A container of the bootstrap goes on where it is, Docker restarts one
that exited (`restart: unless-stopped`), and a backend finds out that its client is
gone; faults are bounded and not fair.

Two assumptions matter and are explicit:

* `MinTick > 0`: no two readings of the clock coincide. `stored_at` is what tells
  two cookies apart, and with `MinTick = 0` (two PUTs in one microsecond, or a
  clock that was set back) `VerdictBelongsToCookie` fails;
* `CallTime < Floor`: a refresh of the key set is over within 30 s of its start.
  The code's 5 s timeout bounds each socket operation, so a response that
  trickles in can take longer; with `CallTime >= Floor` both
  `OneFetchAtATime` and `KeySetNeverMovesBack` fail.

## 4. What is proved

For every value of the constants, with the assumptions the modules state:

| Theorem | Says |
|---|---|
| `SessionVaultProofs!TypeCorrect` | `TypeOK`, and what each phase holds (`HeldOK`) |
| `SessionVaultProofs!OwnCookie` | `[]ActsUnderOwnCookie` |
| `SessionVaultProofs!StoredFirst` | `[]CredentialSurvivesVerification` |
| `SessionVaultProofs!VerdictCorrect` | `[]VerdictBelongsToCookie`, if `MinTick > 0` |
| `SessionVaultProofs!Implements` | `ImplementsSessionRegister` |
| `ProfileCacheProofs!TypeCorrect` | `[]TypeOK` |
| `ProfileCacheProofs!NeverMovesBack` | `RecordNeverMovesBack` |
| `ProfileCacheProofs!OwnMember` | `[]NeverAnotherMember` |
| `ProfileCacheProofs!StaleIsRecent` | `[]StaleKeepsUp` |
| `ProfileCacheProofs!StaleIsGenuine` | `[]StaleWasLive` |
| `ProfileCacheProofs!Implements` | `ImplementsLastGoodRecord` |
| `JwksCacheProofs!TypeCorrect` | `[]TypeOK` |
| `JwksCacheProofs!UnavailableWithoutKeys` | `[]UnavailableOnlyWithoutKeys` |
| `JwksCacheProofs!OneFetch` | `[]OneFetchAtATime`, if `CallTime < Floor` |
| `JwksCacheProofs!NeverMovesBack` | `KeySetNeverMovesBack`, if `CallTime < Floor` |
| `JwksCacheProofs!AcceptedStaysHeld` | `[]AcceptedKeyStaysHeld`, if `CallTime < Floor` |
| `ProfileFetchProofs!TypeCorrect` | `[]TypeOK` |
| `ProfileFetchProofs!NotFoundCorrect` ... | the five invariants of `fetch_outcomes` |
| `ProfileFetchProofs!NeverStuck` | a fetch with nothing to run awaits a call or the probe (`AwaitsLinkedIn`) |
| `ProfileFetchProofs!FourCallsAtMost` | a fetch lasts four calls at most (`FourCalls`), if `0 < CallTime` |
| `ProfileFetchProofs!DeadlineNeedsRefusals` | the deadline ends a fetch only after a refused decoration and a refused section (`DeadlineAfterRefusals`), if `0 < CallTime` and `3 * (CallTime - 1) < Deadline` |
| `BootstrapProofs!TypeCorrect` | `[]TypeOK` |
| `BootstrapProofs!SchemaFirst` | `[]ServingMeansSchema` |
| `BootstrapProofs!NoRace` | `[]RaceNeverLost` |
| `BootstrapProofs!WholeSchema` | `NeverHalfASchema` |
| `BootstrapProofs!NobodyWaitsInVain` | a container serves, can go on, or waits for a ghost or for one that can (`NobodyStuck`) |
| `RequestPipelineProofs!TypeCorrect` | `[]TypeOK` |
| `RequestPipelineProofs!TokenFirst` ... | the five invariants of `request_pipeline` |
| `ProfileMappingProofs!TypeCorrect` | `[]TypeOK` |
| `ProfileMappingProofs!PublishedWhole` | `[]PublishedIsWhole` |
| `ProfileMappingProofs!ReadablePublished` | `[]ReadableIsPublished` |
| `ProfileMappingProofs!PartialExact` | `[]PartialIsExact` |
| `ProfileEndpointProofs!TypeCorrect` | `[]TypeOK` |
| `ProfileEndpointProofs!PermanentShown` | `[]PermanentFailureShown` |
| `ProfileEndpointProofs!VerdictEarned` | `[]VerdictIsEarned` |
| `ProfileEndpointProofs!QueueWanted` | `[]QueueIsWanted` |
| `ProfileEndpointProofs!Implements` | `ImplementsSessionRegister` |

The arguments:

* **SessionVault.** None of the invariants is inductive. `Provenance` says where
  everything comes from: a request that holds a cookie holds one a PUT of its
  subject supplied (`HeldWasSupplied`), a row carries the stamp of a committed PUT
  of its subject and, unless it was moved, that PUT's ciphertext
  (`RowWasSupplied`), a verdict on its way was given by LinkedIn
  (`VerdictWasGiven`), and a PUT past its upsert has left a row behind
  (`VerifiedIsStored`). `OwnCookie` and `StoredFirst` follow from it. For
  `VerdictCorrect` it must be known that no two PUTs share a `stored_at`
  (`StampsDistinct`, which is where `MinTick > 0` is used): then a verdict that
  matches a row's `stored_at` was worked out with that row's cookie. `Implements`
  needs less: `VerdictsInPhase` (a request has a verdict exactly from LinkedIn's
  answer on), and one lemma per kind of move of a request (`Moves`) and of a row
  (`RowMoves`), each a step of the register or a stutter.
* **ProfileCache.** `Ahead` relates each request to the table: a write that landed
  is in the table or something newer is, a request's `floor` is below the row it
  will read, and a stale answer is above its floor. `AckedInTable` and
  `RowsFromSaves` say the same of the table's rows. The refinement is one lemma
  per action, each a step of the register or a stutter; it needs the invariant
  only for the type of a row.
* **JwksCache.** `Base` is inductive by itself and needs no clock: keys once held
  stay held while a call that saw them is under way (`KeysKept`), however long a
  refresh takes and however many overlap. The rest is `Inv`, and needs
  `CallTime < Floor`. `SlotOK` says that the thread in flight is the one that claimed
  the slot last, so that anyone else must wait for the floor, by which time it is
  done. `DocumentsOrdered` and `KidsAccounted` then order what is held, what is
  about to be installed and what the realm publishes.
* **ProfileFetch.** `Phases` ties the calls to each other (no section is asked
  before the core is settled; a probe exists only if something was refused),
  `Refusals` records what a refused or settled call's reply is evidence of,
  `Budget` counts calls by phase, and `Truthful` collects the properties,
  trivially true while the fetch runs. For `FourCallsAtMost`, `Timely` bounds when
  each kind of call was sent by the calls that came before it (`Spent`): nothing, a
  refused decorated call, the core call. It is preserved because time passes only
  while one of them is on its way, which is `NeverStuck`. For
  `DeadlineNeedsRefusals` the same bounds say what must have been spent when the
  deadline comes, and that a fetch under way has no cause yet (`Undecided`).
* **Bootstrap.** `LockOK` says that whoever is at the DDL holds the lock and that
  nobody else but a ghost does, `CreatedOK` that only the holder has anything
  uncommitted, `StatementsOK` that what the statements behind a container were to
  create is committed or its own, and that an object it is about to insert is still
  missing. Then an insert never meets another's, and a commit completes the schema.
  `CreatedBehind` adds that what a transaction has created is behind it, so that
  no insert waits for its own transaction; with it the holder of the lock can
  always take its next step.
* **RequestPipeline.** `Blamed` says what a failure in flight claims of the request,
  `StageOK` what each stage has established (past the token it is a valid one, at
  the body it is `PUT /session`), `AnswerOK` that an answer is a failure's, a
  handler's or a redirect's; a token is blamed for what needs no key, for a key id the
  keys held do not know, or for what a key in hand showed (`TokenFails`). `OnTheWire` evaluates the tables once, for every
  failure. `HopsOK` carries the redirect: the path a client was sent to is one that
  a real route matches.
* **ProfileMapping.** `FetchedOK` and `PublishedOK` say that a section is
  published exactly if the page LinkedIn has of it passes the checks. That reduces
  `PublishedIsWhole` to two facts about a single page. A page that says there is
  none is published as [] (`NoneIsEmpty`), and any other page with nothing in it is
  of an empty list (`EmptyIsSaid`). Of a page with something in it
  (`PublishableIsWhole`): if the number of references matches the total and the
  number resolved matches the references, every place was resolved, in order. That the places kept are
  numbered without a gap is `Places`: counting is an injection of a finite set
  into as many numbers, and so a surjection. `MappedOK` is `PartialIsExact` of the
  fields `_map` has been through, which needs each field to come once
  (`FieldsAssumption`) and no contract field to be called like the degraded path
  (`PathAssumption`).
* **ProfileEndpoint.** `Phases` says what a request holds at each await (`GetOK`,
  `PutOK`), so that an outcome, a status and a held session fit each other.
  Every step but the executor's own is one request coming to
  hold more (`Holds`, `Keeps`) and at most its caller's row being written with what
  it holds (lemma `Step`): what a verdict was earned by is never taken back. These
  properties need nothing of the queue, so they hold for any pool and any
  cancellation. `Queue` is about it: a job is in one place, once; what is queued
  is awaited; what is under way was awaited once, and requests do not go back
  (`Rank`), so that no request comes to await a job that was already abandoned in
  its name. `Removed` is what a cancellation leaves of the queue, and `GoesOn` the
  one step all actions share. In the refinement, what a request comes to hold is
  `Quiet` but for LinkedIn's answer, which is heard of the session it was given on
  (`Heard`); a PUT's statement stores one, whether or not its caller is told
  (`UpsertedImplements`, `StoreImplements`), and a mark is
  learned of the session it is about (`RecordedImplements`).

Only model-checked: liveness (`EveryRequestAnswered`, `WorkersComeBack`,
`CacheHoldsNobody`, `FetchEnds`, `EveryContainerServes`), which is out of the
prover's reach, and what section 5 says is violated. Part of what does not need fairness is proved: in
the endpoint the queue holds nothing that is not awaited (`QueueWanted`), a fetch
that waits does so for LinkedIn (`NeverStuck`), and a container for one that can go
on (`NobodyWaitsInVain`). Every invariant and action property of a passing run is a
theorem, and so are the three refinements.

## 5. Where code and documents disagree

Three are runs that end in a violation of what a document or a comment says; the
quotes are in `PROJECT.json`.

| Run | Statement | What happens |
|---|---|---|
| `endpoint_wedged` | a wedged statement is a typed 503 everywhere but in the cache | the session table's statements have no timeout: the request waits, and its worker with it |
| `endpoint_refused_session` | a caller with a dead session never reaches the cache | `unlock` does not look at `last_use_ok`: a session on record as refused is served stale when the next fetch ends in something retryable |
| `fetch_deadline` | 45 s is above the worst legitimate fetch | four calls of up to 15 s can follow each other: the core decorated and not, a section, and the probe its refusal buys |

The bounds of these runs are as small as the case allows; `fetch_deadline` has
calls that end before a third of the deadline, as 15 s is of 45 s. The chain it finds
is the only one: by `DeadlineNeedsRefusals` no other fetch whose calls keep to their
timeout meets the deadline, and by `FourCallsAtMost` no chain is longer. That a call
is over in `CallTime` is an idealisation in the code's favour: urllib's timeout
bounds a socket operation, and a reply that trickles in takes longer.

Disagreements without a run of their own, met while translating:

* `vault.py:149-151` says `last_use_ok` is about the last use. `record_use` reads
  the time of the use before its write and `_MARK_USE_SQL` does not compare it with
  `last_used_at`: of two overlapping uses the earlier may be written last.
* `auth.py:174-177` says an unknown kid was never published. `_claim_refresh`
  suppresses a refetch within the floor, so a key published since the last refresh
  is refused with that claim: `ChallengeFitsTheToken` lets a key id the keys held do
  not know count against the token.
* `client.py:198-205` says a session that died died for all six calls, and that
  half a profile is a wrong answer. The verdict of the `me` probe is memoized: a
  section refused for a death that came after it is `PROFILE_NOT_FOUND`, which is
  not systemic, and the others are answered. `OnlyForgivableLosses` therefore
  promises nothing of a 403 that follows a probe LinkedIn answered.
* `api/v1/profile.py:571-573` says that a caller with a dead session never reaches
  the cache. Two paths of the fetch lead there, and `RefusalIsTold` excepts them.
  The 45 s may pass while a refused core call waits for its probe, or while other
  sections than the refused one are under way: the outcome is the deadline's, which
  is retryable, and a record covers it. And of the sections' failures the first in
  their order is raised: a throttle or a challenge before it hides a
  `SESSION_EXPIRED`.
* `client.py:823-828` and `mapping/profile.py:29-33` record that LinkedIn answered
  one request for a section with a 200 and no element, and the same request minutes
  later with three. The code takes such a page at its word, when it states no total
  or a total of 0, and publishes `[]`, which the contract reads as "has none".
  `PublishedIsWhole` makes an exception of it (`SaysNone`); nothing on the page
  tells it from an empty list's.
* `api/v1/profile.py:665-668` says every answer leaves a verdict on the session. An
  answer about another member that the client's own guard meets (`client.py:1150`)
  leaves none.
* `README.md:289` counts a refused decoration *or* a probe as a seventh call; both
  can happen, and `CallsAccountedFor` allows for eight.
* A core reply that references a profile it does not carry is `PROFILE_NOT_FOUND`
  (`_core_profile`), although the client says elsewhere that unreadable and not
  found are different claims: `NotFoundIsAboutTheMember` makes an exception of it.
* `element_urns` counts the references that are strings. With no total stated, one
  that is not shortens a published list and nothing notices, which the docstrings
  of the mapper promise never happens: `PublishedIsWhole` makes an exception of it
  (`CountsShort`).
* `_redirect_target` says the redirect is what the router would have done.
  Starlette redirects on the path alone, for any method, and strips every trailing
  slash; the catch-all asks for a route that answers this method, and strips one.

## 6. What is not modelled

* Headers other than the challenge: `Cache-Control`, which every answer but the
  redirect carries, is left to the tests.
* Text: URL parsing, dates, images, rendering of values, redaction of log lines,
  messages of errors.
* The HTTP transport's redirects and size limits, and PyJWT, cryptography,
  psycopg and FastAPI themselves, beyond what the code relies on.
* In `JwksCache` a document is all of the realm's keys or none: a key that
  `_signature_keys` drops counts as one the realm does not publish. A document whose `keys` cannot be
  iterated over raises a `TypeError` at `auth.py:420`, outside of what `_install` and
  its callers expect, and so a 500; it is not modelled, nor is it a failure of
  `RequireClaims` in `RequestPipeline`.
* In `ProfileFetch`, the branch for a section task that raises something untyped,
  which only a bug in the module reaches; in `ProfileMapping`, the outer guard of
  `map_profile` for the same reason.
* In `ProfileEndpoint`, `GET /session`, which changes nothing, and a process that
  is restarted: what outlives it is in `SessionVault` and `ProfileCache`.
* `SessionVault` takes the several ways a ciphertext can be unreadable as one,
  since they are answered alike.
* Configuration and the health endpoint keep no state worth a property.

## 7. Plan

Done, in this order: `SessionVault`, `ProfileCache` with `LastGoodRecord`,
`JwksCache`, `ProfileFetch`, their proofs; `Bootstrap` with its proofs,
`ProfileEndpoint`, `SessionRegister` with its refinement, `RequestPipeline` and
`ProfileMapping` with theirs; then the queue and the refinement of the endpoint,
the published lists of the mapping, and the deadline of the fetch.

What a next step could add:

* that some measure of a fetch, a request or a container falls with every step
  but the faults, which with `NeverStuck` and `NobodyWaitsInVain` leaves of the
  liveness of fetch and bootstrap nothing but fairness;
* that `ProfileFetch` and `ProfileCache` implement the single steps
  `ProfileEndpoint` reduces them to;
* the redirects of the HTTP transport.

A generalisation of `VerdictCorrect` to clocks that may repeat is false and stays a
hazard.
