---------------------------- MODULE SessionVault ----------------------------
(***************************************************************************)
(* The per-subject LinkedIn session vault: app/vault.py over the           *)
(* app.linkedin_session table of app/db.py, driven by the two kinds of     *)
(* request that write it: PUT /api/v1/session (store, verify once, record  *)
(* the verdict) and GET /api/v1/profile (unlock, use, record how the use   *)
(* went).                                                                  *)
(*                                                                         *)
(* Every request is one asyncio task whose database work runs in a thread, *)
(* so requests interleave at every await; each statement is its own        *)
(* transaction.  A statement whose connection is lost, or whose process is *)
(* replaced, may still commit afterwards ("orphan").                       *)
(*                                                                         *)
(* A cookie is a value and Fernet is a record of what was sealed with      *)
(* which key.  Times are readings of the container's clock; 0 is NULL.     *)
(***************************************************************************)
EXTENDS Naturals

CONSTANTS
  Subjects,      \* Keycloak subjects, already verified and stripped
  Cookies,       \* li_at values LinkedInSession accepts
  BadCookies,    \* li_at values it refuses: empty, too long, illegal character
  Keys,          \* Fernet keys the process may be started with
  Puts,          \* PUT /session requests, each identified once and for all
  Uses,          \* GET /profile requests
  MaxTime,       \* bound on the clock
  MinTick,       \* least the clock advances between two readings
  None           \* no row; no ciphertext

ASSUME MaxTimeAssumption == MaxTime \in Nat
ASSUME MinTickAssumption == MinTick \in Nat
ASSUME RequestsDisjoint  == Puts \cap Uses = {}
ASSUME CookiesDisjoint   == Cookies \cap BadCookies = {}

Requests == Puts \cup Uses
Never    == 0
Times    == 1..MaxTime

\* What is known of a cookie: last_use_ok, and LinkedIn's answer about it.
Verdicts == {"true", "false", "null"}

Ciphertext == [key : Keys, subject : Subjects, cookie : Cookies]

Row == [ciphertext   : Ciphertext,
        stored_at    : Times,
        last_used_at : Times \cup {Never},
        last_use_ok  : Verdicts]

ASSUME NoneIsNoData == None \notin Row \cup Ciphertext

Phases == {"idle", "upserting", "verifying",      \* PUT only
           "unlocking", "fetching",               \* GET /profile only
           "recording", "marking",
           "orphan_upsert", "orphan_mark", "done"}

Statuses == {"none", "answered", "200", "428", "503", "aborted"}

VARIABLES
  rows,      \* app.linkedin_session: subject -> row or None
  key,       \* SESSION_ENCRYPTION_KEY of the running process
  now,       \* the last reading of the clock
  req,       \* what each request holds across its awaits
  answers    \* history: what LinkedIn said, about which cookie

vars == <<rows, key, now, req, answers>>

Request == [pc         : Phases,
            subject    : Subjects \cup {None},
            ciphertext : Ciphertext \cup {None},
            stored_at  : Times \cup {Never},
            verdict    : Verdicts,
            at         : Times \cup {Never},
            status     : Statuses]

TypeOK ==
  /\ rows \in [Subjects -> Row \cup {None}]
  /\ key \in Keys
  /\ now \in Nat
  /\ req \in [Requests -> Request]
  /\ answers \in SUBSET (Cookies \X Verdicts)

Init ==
  /\ rows = [s \in Subjects |-> None]
  /\ key \in Keys
  /\ now = 0
  /\ req = [r \in Requests |->
              [pc |-> "idle", subject |-> None, ciphertext |-> None,
               stored_at |-> Never, verdict |-> "null", at |-> Never,
               status |-> "none"]]
  /\ answers = {}

-----------------------------------------------------------------------------
\* datetime.now(timezone.utc).  With MinTick = 0 two readings may be equal.
ReadClock(t) ==
  /\ t \in Times
  /\ now + MinTick <= t /\ t <= now + 1
  /\ now' = t

Seal(s, c) == [key |-> key, subject |-> s, cookie |-> c]

\* The row's ciphertext was sealed for the subject it is filed under.
BoundTo(s, row) == row.ciphertext.subject = s

\* Mutant: the subject sealed into the payload is not compared.
ReadableByKey(s, row) == row.ciphertext.key = key

\* SessionVault._decrypt succeeds under the running process's key.
Readable(s, row) == row.ciphertext.key = key /\ BoundTo(s, row)

\* Mutant: the use tracking is left as the last cookie had it.
FreshButForUse(r) ==
  LET row == rows[req[r].subject]
  IN  [ciphertext   |-> req[r].ciphertext,
       stored_at    |-> req[r].stored_at,
       last_used_at |-> IF row = None THEN Never ELSE row.last_used_at,
       last_use_ok  |-> IF row = None THEN "null" ELSE row.last_use_ok]

\* The row a PUT stores: LinkedIn has said nothing of its cookie yet.
Fresh(r) == [ciphertext   |-> req[r].ciphertext,
             stored_at    |-> req[r].stored_at,
             last_used_at |-> Never,
             last_use_ok  |-> "null"]

\* _UPSERT_SQL: the whole row is replaced and the use tracking reset.
UpsertRow(r) == rows' = [rows EXCEPT ![req[r].subject] = Fresh(r)]

\* Mutant: the verdict is filed under the subject, whatever the row.
MatchesSubject(r) == rows[req[r].subject] # None

\* The row _MARK_USE_SQL's predicate selects is still the one r worked with.
Matches(r) ==
  LET row == rows[req[r].subject]
  IN  row # None /\ row.stored_at = req[r].stored_at

MarkRow(r) ==
  rows' = IF Matches(r)
            THEN [rows EXCEPT ![req[r].subject] =
                    [@ EXCEPT !.last_used_at = req[r].at,
                              !.last_use_ok  = req[r].verdict]]
            ELSE rows

Goto(r, phase)   == req' = [req EXCEPT ![r].pc = phase]
Answer(r, code)  == req' = [req EXCEPT ![r].pc = "done", ![r].status = code]

-----------------------------------------------------------------------------
(* PUT /api/v1/session *)

\* A cookie LinkedInSession refuses is a 428 before anything is written.
PutRefused(p, s) ==
  /\ req[p].pc = "idle"
  /\ BadCookies # {}
  /\ req' = [req EXCEPT ![p].pc = "done", ![p].subject = s, ![p].status = "428"]
  /\ UNCHANGED <<rows, key, now, answers>>

\* Mutant: the cookie is verified first and stored once LinkedIn accepts it.
PutReceivedVerifyFirst(p, s, c) ==
  /\ req[p].pc = "idle"
  /\ \E t \in Times :
        /\ ReadClock(t)
        /\ req' = [req EXCEPT ![p].pc = "verifying", ![p].subject = s,
                              ![p].ciphertext = Seal(s, c), ![p].stored_at = t]
  /\ UNCHANGED <<rows, key, answers>>

\* Sealed, and stamped with stored_at before the connection is opened.
PutReceived(p, s, c) ==
  /\ req[p].pc = "idle"
  /\ \E t \in Times :
        /\ ReadClock(t)
        /\ req' = [req EXCEPT ![p].pc = "upserting", ![p].subject = s,
                              ![p].ciphertext = Seal(s, c), ![p].stored_at = t]
  /\ UNCHANGED <<rows, key, answers>>

PutStored(p) ==
  /\ req[p].pc = "upserting"
  /\ UpsertRow(p)
  /\ Goto(p, "verifying")
  /\ UNCHANGED <<key, now, answers>>

\* check_stored_session: a verdict is recorded, no verdict ends the request.
PutVerified(p, v) ==
  /\ req[p].pc = "verifying"
  /\ IF v = "null"
       THEN Answer(p, "200") /\ UNCHANGED answers
       ELSE /\ req' = [req EXCEPT ![p].pc = "recording", ![p].verdict = v]
            /\ answers' = answers \cup {<<req[p].ciphertext.cookie, v>>}
  /\ UNCHANGED <<rows, key, now>>

-----------------------------------------------------------------------------
(* GET /api/v1/profile, as far as it touches the vault *)

UseReceived(u, s) ==
  /\ req[u].pc = "idle"
  /\ req' = [req EXCEPT ![u].pc = "unlocking", ![u].subject = s]
  /\ UNCHANGED <<rows, key, now, answers>>

\* unlock: NO_SESSION without a row, SESSION_EXPIRED for one it cannot read.
UnlockRefused(u) ==
  LET s == req[u].subject
  IN  /\ req[u].pc = "unlocking"
      /\ rows[s] # None => ~Readable(s, rows[s])
      /\ Answer(u, "428")
      /\ UNCHANGED <<rows, key, now, answers>>

\* The lookup itself failed; nothing was read.
UnlockUnavailable(u) ==
  /\ req[u].pc = "unlocking"
  /\ Answer(u, "503")
  /\ UNCHANGED <<rows, key, now, answers>>

\* The cookie and the row's stored_at leave the vault together.
Unlock(u) ==
  LET s == req[u].subject
  IN  /\ req[u].pc = "unlocking"
      /\ rows[s] # None
      /\ Readable(s, rows[s])
      /\ req' = [req EXCEPT ![u].pc = "fetching",
                            ![u].ciphertext = rows[s].ciphertext,
                            ![u].stored_at = rows[s].stored_at]
      /\ UNCHANGED <<rows, key, now, answers>>

\* LinkedIn answered, refused, or said nothing about the cookie; in the last
\* case _record_outcome returns without a write.
UseAnswered(u, v) ==
  /\ req[u].pc = "fetching"
  /\ IF v = "null"
       THEN Answer(u, "answered") /\ UNCHANGED answers
       ELSE /\ req' = [req EXCEPT ![u].pc = "recording", ![u].verdict = v]
            /\ answers' = answers \cup {<<req[u].ciphertext.cookie, v>>}
  /\ UNCHANGED <<rows, key, now>>

-----------------------------------------------------------------------------
(* SessionVault.record_use, shared by both *)

\* `at` is read before the connection is opened, not when the row is written.
RecordUse(r) ==
  /\ req[r].pc = "recording"
  /\ \E t \in Times :
        /\ ReadClock(t)
        /\ req' = [req EXCEPT ![r].pc = "marking", ![r].at = t]
  /\ UNCHANGED <<rows, key, answers>>

\* A verdict whose row has been replaced matches nothing and is dropped.
MarkUse(r) ==
  /\ req[r].pc = "marking"
  /\ MarkRow(r)
  /\ Answer(r, IF r \in Puts THEN "200" ELSE "answered")
  /\ UNCHANGED <<key, now, answers>>

-----------------------------------------------------------------------------
(* Failures *)

OrphanOf(pc) == CASE pc = "upserting" -> "orphan_upsert"
                  [] pc = "marking"   -> "orphan_mark"
                  [] OTHER            -> "done"

\* psycopg.Error during a write: 503 to a PUT; _record_outcome swallows it.
\* Whether the statement commits is not known to the process.
WriteLost(r) ==
  /\ req[r].pc \in {"upserting", "marking"}
  /\ req' = [req EXCEPT ![r].pc = OrphanOf(@),
                        ![r].status = IF r \in Puts THEN "503" ELSE "answered"]
  /\ UNCHANGED <<rows, key, now, answers>>

OrphanLands(r) ==
  /\ \/ req[r].pc = "orphan_upsert" /\ UpsertRow(r)
     \/ req[r].pc = "orphan_mark" /\ MarkRow(r)
  /\ Goto(r, "done")
  /\ UNCHANGED <<key, now, answers>>

OrphanVanishes(r) ==
  /\ req[r].pc \in {"orphan_upsert", "orphan_mark"}
  /\ Goto(r, "done")
  /\ UNCHANGED <<rows, key, now, answers>>

\* The container is replaced, possibly with another SESSION_ENCRYPTION_KEY.
\* Every request in flight loses its connection; the table is all that stays.
Restart(k) ==
  /\ key' = k
  /\ req' = [r \in Requests |->
               IF req[r].pc \in {"idle", "done", "orphan_upsert", "orphan_mark"}
                 THEN req[r]
                 ELSE [req[r] EXCEPT !.pc = OrphanOf(@), !.status = "aborted"]]
  /\ UNCHANGED <<rows, now, answers>>

\* Someone who can write the table, and cannot read it, files a's ciphertext
\* under b.
Transplant(a, b) ==
  /\ a # b
  /\ rows[a] # None /\ rows[b] # None
  /\ BoundTo(a, rows[a])
  /\ rows' = [rows EXCEPT ![b].ciphertext = rows[a].ciphertext]
  /\ UNCHANGED <<key, now, req, answers>>

-----------------------------------------------------------------------------
PutStep(p) ==
  \/ \E s \in Subjects : PutRefused(p, s)
  \/ \E s \in Subjects, c \in Cookies : PutReceived(p, s, c)
  \/ PutStored(p)
  \/ \E v \in Verdicts : PutVerified(p, v)

UseStep(u) ==
  \/ \E s \in Subjects : UseReceived(u, s)
  \/ Unlock(u) \/ UnlockRefused(u) \/ UnlockUnavailable(u)
  \/ \E v \in Verdicts : UseAnswered(u, v)

WriteStep(r) ==
  RecordUse(r) \/ MarkUse(r) \/ WriteLost(r) \/ OrphanLands(r) \/ OrphanVanishes(r)

Next ==
  \/ \E p \in Puts : PutStep(p)
  \/ \E u \in Uses : UseStep(u)
  \/ \E r \in Requests : WriteStep(r)
  \/ \E k \in Keys : Restart(k)
  \/ \E a, b \in Subjects : Transplant(a, b)

Spec == Init /\ [][Next]_vars

-----------------------------------------------------------------------------
(* Properties *)

\* A verdict shown next to a stored session was given by LinkedIn about the
\* cookie in that very row, however PUTs, profile requests, lost connections
\* and restarts overlap (the stored_at predicate of _MARK_USE_SQL and the
\* reset of _UPSERT_SQL).
VerdictBelongsToCookie ==
  \A s \in Subjects :
     rows[s] # None /\ BoundTo(s, rows[s]) /\ rows[s].last_use_ok # "null" =>
        <<rows[s].ciphertext.cookie, rows[s].last_use_ok>> \in answers

\* A request talks to LinkedIn only under a cookie its own subject supplied,
\* even when rows are moved in the table between the PUT and the unlock.
ActsUnderOwnCookie ==
  \A u \in Uses :
     req[u].pc \in {"fetching", "recording", "marking"} =>
        \E p \in Puts : /\ req[p].subject = req[u].subject
                        /\ req[p].ciphertext = req[u].ciphertext

\* From the moment LinkedIn is asked about a PUT's cookie, the table has a row
\* for its subject, written by a PUT of that subject that was committed, this one
\* or another: a verification that fails, hangs or dies with the process costs
\* nothing.  (Which of two overlapping PUTs is the other is not promised.)
Committed(p) == req[p].pc \in {"verifying", "recording", "marking",
                               "orphan_mark", "done"}

CredentialSurvivesVerification ==
  \A p \in Puts :
     req[p].pc \in {"verifying", "recording", "marking", "orphan_mark"} =>
        LET row == rows[req[p].subject]
        IN  /\ row # None
            /\ \E q \in Puts : /\ req[q].subject = req[p].subject
                               /\ req[q].stored_at = row.stored_at
                               /\ Committed(q)

\* What a reader of the table sees of each subject, and what the requests were
\* told about the sessions they held.
StoredAt  == [s \in Subjects |-> IF rows[s] = None THEN None ELSE rows[s].stored_at]
LastUseOk == [s \in Subjects |-> IF rows[s] = None THEN "null"
                                                  ELSE rows[s].last_use_ok]
Told      == {<<req[r].subject, req[r].stored_at, req[r].verdict>> :
                r \in {q \in Requests : req[q].verdict # "null"}}

Register == INSTANCE SessionRegister
              WITH Stamps <- Times, stored <- StoredAt, known <- LastUseOk, said <- Told

\* Cookies sealed and moved, statements that land late and processes replaced
\* under them, the vault is that register: a verdict is learned only of the
\* stored session it was given on, and a PUT forgets it.
ImplementsSessionRegister == Register!Spec
=============================================================================
