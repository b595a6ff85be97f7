------------------------- MODULE SessionVaultProofs -------------------------
(***************************************************************************)
(* Theorems about SessionVault, for every set of subjects, cookies, keys   *)
(* and requests.                                                           *)
(***************************************************************************)
EXTENDS SessionVault, TLAPS

\* Phases in which a request holds a cookie and the stored_at of its row.
Holding == {"upserting", "orphan_upsert", "verifying", "fetching",
            "recording", "marking", "orphan_mark"}

\* Phases after LinkedIn's verdict.
Judged == {"recording", "marking", "orphan_mark"}

\* What a request has by the time it needs it.
HeldOK ==
  \A r \in Requests :
     /\ req[r].pc \in Holding => /\ req[r].subject \in Subjects
                                 /\ req[r].ciphertext \in Ciphertext
                                 /\ req[r].stored_at \in Times
     /\ req[r].pc = "unlocking" => req[r].subject \in Subjects
     /\ req[r].pc \in {"marking", "orphan_mark"} => req[r].at \in Times
     /\ req[r].pc \in {"upserting", "orphan_upsert", "verifying"} => r \in Puts
     /\ req[r].pc \in {"unlocking", "fetching"} => r \in Uses

Typed == TypeOK /\ HeldOK

\* The table is empty and every request idle: well typed.
LEMMA TypedInit == Init => Typed
BY NoneIsNoData
   DEF Init, Typed, TypeOK, HeldOK, Request, Phases, Statuses, Verdicts, Holding

\* One request's record changes, to a well-typed one.
LEMMA TypedOne ==
  ASSUME Typed, NEW r \in Requests, NEW rec \in Request,
         req' = [req EXCEPT ![r] = rec],
         rec.pc \in Holding => /\ rec.subject \in Subjects
                               /\ rec.ciphertext \in Ciphertext
                               /\ rec.stored_at \in Times,
         rec.pc = "unlocking" => rec.subject \in Subjects,
         rec.pc \in {"marking", "orphan_mark"} => rec.at \in Times,
         rec.pc \in {"upserting", "orphan_upsert", "verifying"} => r \in Puts,
         rec.pc \in {"unlocking", "fetching"} => r \in Uses
  PROVE  req' \in [Requests -> Request] /\ HeldOK'
BY DEF Typed, TypeOK, HeldOK

\* A step of PUT /session keeps the vault well typed.
LEMMA TypedPutStep ==
  ASSUME Typed, NEW p \in Puts, PutStep(p)
  PROVE  Typed'
<1> p \in Requests /\ req[p] \in Request
  BY DEF Typed, TypeOK, Requests
<1>1. ASSUME NEW s \in Subjects, PutRefused(p, s) PROVE Typed'
  <2> DEFINE rec == [req[p] EXCEPT !.pc = "done", !.subject = s, !.status = "428"]
  <2>1. rec \in Request /\ rec.pc = "done" /\ req' = [req EXCEPT ![p] = rec]
    BY <1>1 DEF PutRefused, Request, Phases, Statuses
  <2>2. req' \in [Requests -> Request] /\ HeldOK'
    BY <2>1, TypedOne DEF Holding
  <2> QED BY <1>1, <2>2 DEF PutRefused, Typed, TypeOK
<1>2. ASSUME NEW s \in Subjects, NEW c \in Cookies, PutReceived(p, s, c)
      PROVE  Typed'
  <2>1. PICK t \in Times :
          /\ ReadClock(t)
          /\ req' = [req EXCEPT ![p].pc = "upserting", ![p].subject = s,
                                ![p].ciphertext = Seal(s, c), ![p].stored_at = t]
    BY <1>2 DEF PutReceived
  <2> DEFINE rec == [req[p] EXCEPT !.pc = "upserting", !.subject = s,
                                   !.ciphertext = Seal(s, c), !.stored_at = t]
  <2>2. Seal(s, c) \in Ciphertext
    BY DEF Seal, Ciphertext, Typed, TypeOK
  <2>3. /\ rec \in Request /\ rec.pc = "upserting" /\ rec.subject = s
        /\ rec.ciphertext = Seal(s, c) /\ rec.stored_at = t
        /\ req' = [req EXCEPT ![p] = rec]
    BY <2>1, <2>2 DEF Request, Phases
  <2>4. req' \in [Requests -> Request] /\ HeldOK'
    BY <2>2, <2>3, TypedOne DEF Holding
  <2> QED BY <1>2, <2>1, <2>4 DEF PutReceived, ReadClock, Times, Typed, TypeOK
<1>3. ASSUME PutStored(p) PROVE Typed'
  <2> DEFINE rec == [req[p] EXCEPT !.pc = "verifying"]
  <2>1. /\ req[p].subject \in Subjects
        /\ req[p].ciphertext \in Ciphertext /\ req[p].stored_at \in Times
    BY <1>3 DEF PutStored, Typed, HeldOK, Holding
  <2>2. /\ rec \in Request /\ rec.pc = "verifying" /\ rec.subject = req[p].subject
        /\ rec.ciphertext = req[p].ciphertext /\ rec.stored_at = req[p].stored_at
        /\ req' = [req EXCEPT ![p] = rec]
    BY <1>3 DEF PutStored, Goto, Request, Phases
  <2>3. req' \in [Requests -> Request] /\ HeldOK'
    BY <2>1, <2>2, TypedOne DEF Holding
  <2>4. Fresh(p) \in Row
    BY <2>1 DEF Fresh, Row, Verdicts
  <2> QED BY <1>3, <2>3, <2>4 DEF PutStored, UpsertRow, Typed, TypeOK
<1>4. ASSUME NEW v \in Verdicts, PutVerified(p, v) PROVE Typed'
  <2>1. /\ req[p].subject \in Subjects
        /\ req[p].ciphertext \in Ciphertext /\ req[p].stored_at \in Times
    BY <1>4 DEF PutVerified, Typed, HeldOK, Holding
  <2>2. CASE v = "null"
    <3> DEFINE rec == [req[p] EXCEPT !.pc = "done", !.status = "200"]
    <3>1. rec \in Request /\ rec.pc = "done" /\ req' = [req EXCEPT ![p] = rec]
      BY <1>4, <2>2 DEF PutVerified, Answer, Request, Phases, Statuses
    <3>2. req' \in [Requests -> Request] /\ HeldOK'
      BY <3>1, TypedOne DEF Holding
    <3> QED BY <1>4, <2>2, <3>2 DEF PutVerified, Typed, TypeOK
  <2>3. CASE v # "null"
    <3> DEFINE rec == [req[p] EXCEPT !.pc = "recording", !.verdict = v]
    <3>1. /\ rec \in Request /\ rec.pc = "recording" /\ rec.subject = req[p].subject
          /\ rec.ciphertext = req[p].ciphertext /\ rec.stored_at = req[p].stored_at
          /\ req' = [req EXCEPT ![p] = rec]
      BY <1>4, <2>3 DEF PutVerified, Request, Phases
    <3>2. req' \in [Requests -> Request] /\ HeldOK'
      BY <2>1, <3>1, TypedOne DEF Holding
    <3>3. <<req[p].ciphertext.cookie, v>> \in Cookies \X Verdicts
      BY <2>1 DEF Ciphertext
    <3> QED BY <1>4, <2>3, <3>2, <3>3 DEF PutVerified, Typed, TypeOK
  <2> QED BY <2>2, <2>3
<1> QED BY <1>1, <1>2, <1>3, <1>4 DEF PutStep, Typed

\* A step of GET /profile before its verdict keeps the vault well typed.
LEMMA TypedUseStep ==
  ASSUME Typed, NEW u \in Uses, UseStep(u)
  PROVE  Typed'
<1> u \in Requests /\ req[u] \in Request
  BY DEF Typed, TypeOK, Requests
<1>1. ASSUME NEW s \in Subjects, UseReceived(u, s) PROVE Typed'
  <2> DEFINE rec == [req[u] EXCEPT !.pc = "unlocking", !.subject = s]
  <2>1. /\ rec \in Request /\ rec.pc = "unlocking" /\ rec.subject = s
        /\ req' = [req EXCEPT ![u] = rec]
    BY <1>1 DEF UseReceived, Request, Phases
  <2>2. req' \in [Requests -> Request] /\ HeldOK'
    BY <2>1, TypedOne DEF Holding
  <2> QED BY <1>1, <2>2 DEF UseReceived, Typed, TypeOK
<1>2. ASSUME UnlockRefused(u) \/ UnlockUnavailable(u) PROVE Typed'
  <2>1. PICK code \in {"428", "503"} : Answer(u, code)
    BY <1>2 DEF UnlockRefused, UnlockUnavailable
  <2> DEFINE rec == [req[u] EXCEPT !.pc = "done", !.status = code]
  <2>2. rec \in Request /\ rec.pc = "done" /\ req' = [req EXCEPT ![u] = rec]
    BY <2>1 DEF Answer, Request, Phases, Statuses
  <2>3. req' \in [Requests -> Request] /\ HeldOK'
    BY <2>2, TypedOne DEF Holding
  <2> QED BY <1>2, <2>3 DEF UnlockRefused, UnlockUnavailable, Typed, TypeOK
<1>3. ASSUME Unlock(u) PROVE Typed'
  <2> DEFINE row == rows[req[u].subject]
             rec == [req[u] EXCEPT !.pc = "fetching",
                                   !.ciphertext = row.ciphertext,
                                   !.stored_at = row.stored_at]
  <2>1. req[u].subject \in Subjects /\ row \in Row
    BY <1>3 DEF Unlock, Typed, TypeOK, HeldOK
  <2>2. row.ciphertext \in Ciphertext /\ row.stored_at \in Times
    BY <2>1 DEF Row
  <2>3. /\ rec \in Request /\ rec.pc = "fetching" /\ rec.subject = req[u].subject
        /\ rec.ciphertext = row.ciphertext /\ rec.stored_at = row.stored_at
        /\ req' = [req EXCEPT ![u] = rec]
    BY <1>3, <2>2 DEF Unlock, Request, Phases
  <2>4. req' \in [Requests -> Request] /\ HeldOK'
    BY <2>1, <2>2, <2>3, TypedOne DEF Holding
  <2> QED BY <1>3, <2>4 DEF Unlock, Typed, TypeOK
<1>4. ASSUME NEW v \in Verdicts, UseAnswered(u, v) PROVE Typed'
  <2>1. /\ req[u].subject \in Subjects
        /\ req[u].ciphertext \in Ciphertext /\ req[u].stored_at \in Times
    BY <1>4 DEF UseAnswered, Typed, HeldOK, Holding
  <2>2. CASE v = "null"
    <3> DEFINE rec == [req[u] EXCEPT !.pc = "done", !.status = "answered"]
    <3>1. rec \in Request /\ rec.pc = "done" /\ req' = [req EXCEPT ![u] = rec]
      BY <1>4, <2>2 DEF UseAnswered, Answer, Request, Phases, Statuses
    <3>2. req' \in [Requests -> Request] /\ HeldOK'
      BY <3>1, TypedOne DEF Holding
    <3> QED BY <1>4, <2>2, <3>2 DEF UseAnswered, Typed, TypeOK
  <2>3. CASE v # "null"
    <3> DEFINE rec == [req[u] EXCEPT !.pc = "recording", !.verdict = v]
    <3>1. /\ rec \in Request /\ rec.pc = "recording" /\ rec.subject = req[u].subject
          /\ rec.ciphertext = req[u].ciphertext /\ rec.stored_at = req[u].stored_at
          /\ req' = [req EXCEPT ![u] = rec]
      BY <1>4, <2>3 DEF UseAnswered, Request, Phases
    <3>2. req' \in [Requests -> Request] /\ HeldOK'
      BY <2>1, <3>1, TypedOne DEF Holding
    <3>3. <<req[u].ciphertext.cookie, v>> \in Cookies \X Verdicts
      BY <2>1 DEF Ciphertext
    <3> QED BY <1>4, <2>3, <3>2, <3>3 DEF UseAnswered, Typed, TypeOK
  <2> QED BY <2>2, <2>3
<1> QED BY <1>1, <1>2, <1>3, <1>4 DEF UseStep, Typed

\* Writing a verdict leaves a table of rows.
LEMMA MarkRowType ==
  ASSUME Typed, NEW r \in Requests,
         req[r].pc \in {"marking", "orphan_mark"}, MarkRow(r)
  PROVE  rows' \in [Subjects -> Row \cup {None}]
<1>1. /\ req[r].subject \in Subjects /\ req[r].at \in Times
      /\ req[r].verdict \in Verdicts
  BY DEF Typed, TypeOK, HeldOK, Holding, Request
<1>2. CASE Matches(r)
  <2> DEFINE row == rows[req[r].subject]
             new == [row EXCEPT !.last_used_at = req[r].at,
                                !.last_use_ok  = req[r].verdict]
  <2>1. row \in Row
    BY <1>1, <1>2 DEF Matches, Typed, TypeOK
  <2>2. new \in Row
    BY <1>1, <2>1 DEF Row
  <2>3. rows' = [rows EXCEPT ![req[r].subject] = new]
    BY <1>2 DEF MarkRow
  <2> QED BY <2>2, <2>3 DEF Typed, TypeOK
<1>3. CASE ~Matches(r)
  BY <1>3 DEF MarkRow, Typed, TypeOK
<1> QED BY <1>2, <1>3

\* record_use, and a write whose connection is lost, keep the vault well typed.
LEMMA TypedWriteStep ==
  ASSUME Typed, NEW r \in Requests, WriteStep(r)
  PROVE  Typed'
<1> req[r] \in Request
  BY DEF Typed, TypeOK
<1>1. ASSUME RecordUse(r) PROVE Typed'
  <2>1. PICK t \in Times :
          /\ ReadClock(t)
          /\ req' = [req EXCEPT ![r].pc = "marking", ![r].at = t]
    BY <1>1 DEF RecordUse
  <2> DEFINE rec == [req[r] EXCEPT !.pc = "marking", !.at = t]
  <2>2. /\ req[r].subject \in Subjects
        /\ req[r].ciphertext \in Ciphertext /\ req[r].stored_at \in Times
    BY <1>1 DEF RecordUse, Typed, HeldOK, Holding
  <2>3. /\ rec \in Request /\ rec.pc = "marking" /\ rec.subject = req[r].subject
        /\ rec.ciphertext = req[r].ciphertext /\ rec.stored_at = req[r].stored_at
        /\ rec.at = t /\ req' = [req EXCEPT ![r] = rec]
    BY <2>1 DEF Request, Phases
  <2>4. req' \in [Requests -> Request] /\ HeldOK'
    BY <2>2, <2>3, TypedOne DEF Holding
  <2> QED BY <1>1, <2>1, <2>4 DEF RecordUse, ReadClock, Times, Typed, TypeOK
<1>2. ASSUME MarkUse(r) PROVE Typed'
  <2>1. PICK code \in {"200", "answered"} : Answer(r, code)
    BY <1>2 DEF MarkUse
  <2> DEFINE rec == [req[r] EXCEPT !.pc = "done", !.status = code]
  <2>2. rec \in Request /\ rec.pc = "done" /\ req' = [req EXCEPT ![r] = rec]
    BY <2>1 DEF Answer, Request, Phases, Statuses
  <2>3. req' \in [Requests -> Request] /\ HeldOK'
    BY <2>2, TypedOne DEF Holding
  <2>4. rows' \in [Subjects -> Row \cup {None}]
    BY <1>2, MarkRowType DEF MarkUse
  <2> QED BY <1>2, <2>3, <2>4 DEF MarkUse, Typed, TypeOK
<1>3. ASSUME WriteLost(r) PROVE Typed'
  <2> DEFINE code == IF r \in Puts THEN "503" ELSE "answered"
             rec  == [req[r] EXCEPT !.pc = OrphanOf(@), !.status = code]
  <2>1. \/ req[r].pc = "upserting" /\ OrphanOf(req[r].pc) = "orphan_upsert"
        \/ req[r].pc = "marking" /\ OrphanOf(req[r].pc) = "orphan_mark"
    BY <1>3 DEF WriteLost, OrphanOf
  <2>2. /\ req[r].subject \in Subjects
        /\ req[r].ciphertext \in Ciphertext /\ req[r].stored_at \in Times
        /\ req[r].pc = "marking" => req[r].at \in Times
        /\ req[r].pc = "upserting" => r \in Puts
    BY <2>1 DEF Typed, HeldOK, Holding
  <2>3. /\ rec \in Request /\ rec.pc = OrphanOf(req[r].pc)
        /\ rec.subject = req[r].subject /\ rec.ciphertext = req[r].ciphertext
        /\ rec.stored_at = req[r].stored_at /\ rec.at = req[r].at
        /\ req' = [req EXCEPT ![r] = rec]
    BY <1>3, <2>1 DEF WriteLost, Request, Phases, Statuses
  <2>4. req' \in [Requests -> Request] /\ HeldOK'
    BY <2>1, <2>2, <2>3, TypedOne DEF Holding
  <2> QED BY <1>3, <2>4 DEF WriteLost, Typed, TypeOK
<1>4. ASSUME OrphanLands(r) \/ OrphanVanishes(r) PROVE Typed'
  <2> DEFINE rec == [req[r] EXCEPT !.pc = "done"]
  <2>1. rec \in Request /\ rec.pc = "done" /\ req' = [req EXCEPT ![r] = rec]
    BY <1>4 DEF OrphanLands, OrphanVanishes, Goto, Request, Phases
  <2>2. req' \in [Requests -> Request] /\ HeldOK'
    BY <2>1, TypedOne DEF Holding
  <2>3. rows' \in [Subjects -> Row \cup {None}]
    <3>1. CASE req[r].pc = "orphan_upsert" /\ UpsertRow(r)
      <4>1. /\ req[r].subject \in Subjects
            /\ req[r].ciphertext \in Ciphertext /\ req[r].stored_at \in Times
        BY <3>1 DEF Typed, HeldOK, Holding
      <4>2. Fresh(r) \in Row
        BY <4>1 DEF Fresh, Row, Verdicts
      <4> QED BY <3>1, <4>2 DEF UpsertRow, Typed, TypeOK
    <3>2. CASE req[r].pc = "orphan_mark" /\ MarkRow(r)
      BY <3>2, MarkRowType
    <3>3. CASE UNCHANGED rows
      BY <3>3 DEF Typed, TypeOK
    <3> QED BY <1>4, <3>1, <3>2, <3>3 DEF OrphanLands, OrphanVanishes
  <2> QED BY <1>4, <2>2, <2>3 DEF OrphanLands, OrphanVanishes, Typed, TypeOK
<1> QED BY <1>1, <1>2, <1>3, <1>4 DEF WriteStep, Typed

\* What a replaced container leaves of a request in flight.
LEMMA RestartOne ==
  ASSUME Typed, NEW k \in Keys, Restart(k), NEW r \in Requests
  PROVE  /\ req'[r] \in Request
         /\ req'[r].pc \in {req[r].pc, OrphanOf(req[r].pc)}
         /\ req'[r].pc \in {"idle", "done", "orphan_upsert", "orphan_mark"}
         /\ req'[r].subject = req[r].subject
         /\ req'[r].ciphertext = req[r].ciphertext
         /\ req'[r].stored_at = req[r].stored_at
         /\ req'[r].verdict = req[r].verdict
         /\ req'[r].at = req[r].at
<1>1. req[r] \in Request
  BY DEF Typed, TypeOK
<1>2. CASE req[r].pc \in {"idle", "done", "orphan_upsert", "orphan_mark"}
  BY <1>1, <1>2 DEF Restart
<1>3. CASE req[r].pc \notin {"idle", "done", "orphan_upsert", "orphan_mark"}
  <2> DEFINE rec == [req[r] EXCEPT !.pc = OrphanOf(@), !.status = "aborted"]
  <2>1. OrphanOf(req[r].pc) \in {"done", "orphan_upsert", "orphan_mark"}
    BY DEF OrphanOf
  <2>2. req'[r] = rec
    BY <1>3 DEF Restart
  <2> QED BY <1>1, <2>1, <2>2 DEF Request, Phases, Statuses
<1> QED BY <1>2, <1>3

\* Replacing the container keeps the vault well typed.
LEMMA TypedRestart ==
  ASSUME Typed, NEW k \in Keys, Restart(k)
  PROVE  Typed'
<1>1. req' \in [Requests -> Request]
  <2>1. \A r \in Requests : req'[r] \in Request
    BY RestartOne
  <2> QED BY <2>1 DEF Restart
<1>2. HeldOK'
  <2> SUFFICES ASSUME NEW r \in Requests
               PROVE  /\ req'[r].pc \in Holding => /\ req'[r].subject \in Subjects
                                                   /\ req'[r].ciphertext \in Ciphertext
                                                   /\ req'[r].stored_at \in Times
                      /\ req'[r].pc = "unlocking" => req'[r].subject \in Subjects
                      /\ req'[r].pc \in {"marking", "orphan_mark"}
                            => req'[r].at \in Times
                      /\ req'[r].pc \in {"upserting", "orphan_upsert", "verifying"}
                            => r \in Puts
                      /\ req'[r].pc \in {"unlocking", "fetching"} => r \in Uses
    BY DEF HeldOK
  <2>1. /\ req'[r].pc = "orphan_upsert" => req[r].pc \in {"upserting", "orphan_upsert"}
        /\ req'[r].pc = "orphan_mark" => req[r].pc \in {"marking", "orphan_mark"}
    BY RestartOne DEF OrphanOf
  <2> QED BY <2>1, RestartOne DEF Typed, HeldOK, Holding
<1> QED BY <1>1, <1>2 DEF Restart, Typed, TypeOK

\* Moving a ciphertext between rows keeps the vault well typed.
LEMMA TypedTransplant ==
  ASSUME Typed, NEW a \in Subjects, NEW b \in Subjects, Transplant(a, b)
  PROVE  Typed'
<1> DEFINE new == [rows[b] EXCEPT !.ciphertext = rows[a].ciphertext]
<1>1. rows[a] \in Row /\ rows[b] \in Row
  BY DEF Transplant, Typed, TypeOK
<1>2. new \in Row
  BY <1>1 DEF Row
<1>3. rows' = [rows EXCEPT ![b] = new]
  BY DEF Transplant
<1>4. rows' \in [Subjects -> Row \cup {None}]
  BY <1>2, <1>3 DEF Typed, TypeOK
<1> QED BY <1>4 DEF Transplant, Typed, TypeOK, HeldOK

\* Every state of the vault is well typed, and a request that is writing,
\* verifying or fetching has the subject, cookie and stored_at it needs.
THEOREM TypeCorrect == Spec => [](TypeOK /\ HeldOK)
<1>1. Init => Typed
  BY TypedInit
<1>2. Typed /\ [Next]_vars => Typed'
  <2> SUFFICES ASSUME Typed, [Next]_vars PROVE Typed'
    OBVIOUS
  <2>1. CASE \E p \in Puts : PutStep(p)
    BY <2>1, TypedPutStep
  <2>2. CASE \E u \in Uses : UseStep(u)
    BY <2>2, TypedUseStep
  <2>3. CASE \E r \in Requests : WriteStep(r)
    BY <2>3, TypedWriteStep
  <2>4. CASE \E k \in Keys : Restart(k)
    BY <2>4, TypedRestart
  <2>5. CASE \E a, b \in Subjects : Transplant(a, b)
    BY <2>5, TypedTransplant
  <2>6. CASE UNCHANGED vars
    BY <2>6 DEF vars, Typed, TypeOK, HeldOK
  <2> QED BY <2>1, <2>2, <2>3, <2>4, <2>5, <2>6 DEF Next
<1> QED BY <1>1, <1>2, PTL DEF Spec, Typed

-----------------------------------------------------------------------------
(* What one step does to one request, and to one row *)

\* The request moves on with what it holds.
Onward(old, new) ==
  \/ old = "upserting" /\ new = "orphan_upsert"
  \/ old = "recording" /\ new = "marking"
  \/ old = "marking" /\ new = "orphan_mark"
  \/ old # "idle" /\ new = "done"

Keeps(r) == /\ req'[r].subject = req[r].subject
            /\ req'[r].ciphertext = req[r].ciphertext
            /\ req'[r].stored_at = req[r].stored_at

\* The ways a request's record may change in a step.
Stays(r)    == req'[r] = req[r]
Arrives(r)  == /\ req[r].pc = "idle"
               /\ req'[r].pc \in {"done", "unlocking"}
               /\ req'[r].stored_at = req[r].stored_at
               /\ req'[r].verdict = req[r].verdict
Receives(r) == /\ r \in Puts
               /\ req[r].pc = "idle" /\ req'[r].pc = "upserting"
               /\ ReadClock(req'[r].stored_at)
               /\ req'[r].verdict = req[r].verdict
               /\ \A q \in Requests \ {r} : Stays(q)
Stores(r)   == /\ Keeps(r)
               /\ req'[r].verdict = req[r].verdict
               /\ req[r].pc = "upserting" /\ req'[r].pc = "verifying"
               /\ UpsertRow(r)
Unlocks(r)  == LET row == rows[req[r].subject]
               IN  /\ r \in Uses
                   /\ req[r].pc = "unlocking" /\ req'[r].pc = "fetching"
                   /\ row # None /\ BoundTo(req[r].subject, row)
                   /\ req'[r].subject = req[r].subject
                   /\ req'[r].ciphertext = row.ciphertext
                   /\ req'[r].stored_at = row.stored_at
                   /\ req'[r].verdict = req[r].verdict
Judges(r)   == /\ Keeps(r)
               /\ req'[r].verdict # "null"
               /\ \A q \in Requests \ {r} : Stays(q)
               /\ rows' = rows
               /\ req[r].pc \in {"verifying", "fetching"}
               /\ req'[r].pc = "recording"
               /\ <<req'[r].ciphertext.cookie, req'[r].verdict>> \in answers'
Proceeds(r) == /\ Keeps(r)
               /\ req'[r].verdict = req[r].verdict
               /\ Onward(req[r].pc, req'[r].pc)

Moves(r) == \/ Stays(r) \/ Arrives(r) \/ Receives(r) \/ Stores(r)
            \/ Unlocks(r) \/ Judges(r) \/ Proceeds(r)

\* A step of PUT /session moves every request in one of these ways.
LEMMA PutMoves ==
  ASSUME Typed, NEW p \in Puts, PutStep(p), NEW r \in Requests
  PROVE  Moves(r)
<1> p \in Requests /\ req[p] \in Request /\ req \in [Requests -> Request]
  BY DEF Typed, TypeOK, Requests
<1>1. ASSUME NEW s \in Subjects, PutRefused(p, s) PROVE Moves(r)
  <2>1. r # p => Stays(r)
    BY <1>1 DEF PutRefused, Stays
  <2>2. r = p => Arrives(r)
    BY <1>1 DEF PutRefused, Arrives, Request
  <2> QED BY <2>1, <2>2 DEF Moves
<1>2. ASSUME NEW s \in Subjects, NEW c \in Cookies, PutReceived(p, s, c)
      PROVE  Moves(r)
  <2>1. \A q \in Requests \ {p} : Stays(q)
    BY <1>2 DEF PutReceived, Stays
  <2>2. r = p => Receives(r)
    <3>1. PICK t \in Times :
            /\ ReadClock(t)
            /\ req' = [req EXCEPT ![p].pc = "upserting", ![p].subject = s,
                                  ![p].ciphertext = Seal(s, c), ![p].stored_at = t]
      BY <1>2 DEF PutReceived
    <3>2. /\ req[p].pc = "idle" /\ req'[p].pc = "upserting" /\ req'[p].stored_at = t
          /\ req'[p].verdict = req[p].verdict
      BY <1>2, <3>1 DEF PutReceived, Request
    <3> QED BY <2>1, <3>1, <3>2 DEF Receives
  <2> QED BY <2>1, <2>2 DEF Moves
<1>3. ASSUME PutStored(p) PROVE Moves(r)
  <2>1. r # p => Stays(r)
    BY <1>3 DEF PutStored, Goto, Stays
  <2>2. r = p => Stores(r)
    BY <1>3 DEF PutStored, Goto, Stores, Keeps, Request
  <2> QED BY <2>1, <2>2 DEF Moves
<1>4. ASSUME NEW v \in Verdicts, PutVerified(p, v) PROVE Moves(r)
  <2>1. r # p => Stays(r)
    BY <1>4 DEF PutVerified, Answer, Stays
  <2>2. r = p /\ v = "null" => Proceeds(r)
    BY <1>4 DEF PutVerified, Answer, Proceeds, Keeps, Onward, Request
  <2>3. r = p /\ v # "null" => Judges(r)
    BY <1>4 DEF PutVerified, Judges, Stays, Keeps, Request
  <2> QED BY <2>1, <2>2, <2>3 DEF Moves
<1> QED BY <1>1, <1>2, <1>3, <1>4 DEF PutStep

\* A step of GET /profile before its verdict does, too.
LEMMA UseMoves ==
  ASSUME Typed, NEW u \in Uses, UseStep(u), NEW r \in Requests
  PROVE  Moves(r)
<1> u \in Requests /\ req[u] \in Request /\ req \in [Requests -> Request]
  BY DEF Typed, TypeOK, Requests
<1>1. ASSUME NEW s \in Subjects, UseReceived(u, s) PROVE Moves(r)
  <2>1. r # u => Stays(r)
    BY <1>1 DEF UseReceived, Stays
  <2>2. r = u => Arrives(r)
    BY <1>1 DEF UseReceived, Arrives, Request
  <2> QED BY <2>1, <2>2 DEF Moves
<1>2. ASSUME UnlockRefused(u) \/ UnlockUnavailable(u) PROVE Moves(r)
  <2>1. PICK code : Answer(u, code)
    BY <1>2 DEF UnlockRefused, UnlockUnavailable
  <2>2. r # u => Stays(r)
    BY <2>1 DEF Answer, Stays
  <2>3. r = u => Proceeds(r)
    BY <1>2, <2>1 DEF UnlockRefused, UnlockUnavailable, Answer, Proceeds, Keeps,
                      Onward, Request
  <2> QED BY <2>2, <2>3 DEF Moves
<1>3. ASSUME Unlock(u) PROVE Moves(r)
  <2>1. r # u => Stays(r)
    BY <1>3 DEF Unlock, Stays
  <2>2. r = u => Unlocks(r)
    BY <1>3 DEF Unlock, Unlocks, Readable, Request
  <2> QED BY <2>1, <2>2 DEF Moves
<1>4. ASSUME NEW v \in Verdicts, UseAnswered(u, v) PROVE Moves(r)
  <2>1. r # u => Stays(r)
    BY <1>4 DEF UseAnswered, Answer, Stays
  <2>2. r = u /\ v = "null" => Proceeds(r)
    BY <1>4 DEF UseAnswered, Answer, Proceeds, Keeps, Onward, Request
  <2>3. r = u /\ v # "null" => Judges(r)
    BY <1>4 DEF UseAnswered, Judges, Stays, Keeps, Request
  <2> QED BY <2>1, <2>2, <2>3 DEF Moves
<1> QED BY <1>1, <1>2, <1>3, <1>4 DEF UseStep

\* So does every step of a write.
LEMMA WriteMoves ==
  ASSUME Typed, NEW w \in Requests, WriteStep(w), NEW r \in Requests
  PROVE  Moves(r)
<1> req[w] \in Request /\ req \in [Requests -> Request]
  BY DEF Typed, TypeOK
<1>1. r # w => Stays(r)
  BY DEF WriteStep, RecordUse, MarkUse, WriteLost, OrphanLands, OrphanVanishes,
         Answer, Goto, Stays
<1>2. r = w => Proceeds(r)
  <2>1. RecordUse(w) => Proceeds(w)
    BY DEF RecordUse, Proceeds, Keeps, Onward, Request
  <2>2. MarkUse(w) => Proceeds(w)
    BY DEF MarkUse, Answer, Proceeds, Keeps, Onward, Request
  <2>3. WriteLost(w) => Proceeds(w)
    BY DEF WriteLost, OrphanOf, Proceeds, Keeps, Onward, Request
  <2>4. OrphanLands(w) \/ OrphanVanishes(w) => Proceeds(w)
    BY DEF OrphanLands, OrphanVanishes, Goto, Proceeds, Keeps, Onward, Request
  <2> QED BY <2>1, <2>2, <2>3, <2>4 DEF WriteStep
<1> QED BY <1>1, <1>2 DEF Moves

\* Every step of the system moves every request in one of these ways.
LEMMA AllMoves ==
  ASSUME Typed, [Next]_vars, NEW r \in Requests
  PROVE  Moves(r)
<1>1. ASSUME NEW k \in Keys, Restart(k) PROVE Moves(r)
  <2>1. req[r].pc \in {"idle", "done", "orphan_upsert", "orphan_mark"} => Stays(r)
    BY <1>1 DEF Restart, Stays
  <2>2. req[r].pc \notin {"idle", "done", "orphan_upsert", "orphan_mark"}
           => Proceeds(r)
    <3> HAVE req[r].pc \notin {"idle", "done", "orphan_upsert", "orphan_mark"}
    <3>1. Onward(req[r].pc, OrphanOf(req[r].pc))
      BY DEF Onward, OrphanOf
    <3>2. req'[r].pc = OrphanOf(req[r].pc)
      <4>1. req[r] \in Request
        BY DEF Typed, TypeOK
      <4> QED BY <1>1, <4>1 DEF Restart, Request
    <3> QED BY <1>1, <3>1, <3>2, RestartOne DEF Proceeds, Keeps
  <2> QED BY <1>1, <2>1, <2>2 DEF Moves, Restart
<1>2. ASSUME NEW a \in Subjects, NEW b \in Subjects, Transplant(a, b)
      PROVE  Moves(r)
  BY <1>2 DEF Transplant, Moves, Stays
<1>3. CASE UNCHANGED vars
  BY <1>3 DEF vars, Moves, Stays
<1> QED BY <1>1, <1>2, <1>3, PutMoves, UseMoves, WriteMoves DEF Next

\* What LinkedIn said of a cookie is never unsaid.
LEMMA AllMovesAnswers ==
  ASSUME Typed, [Next]_vars
  PROVE  answers \subseteq answers'
<1>1. CASE \E p \in Puts : PutStep(p)
  BY <1>1 DEF PutStep, PutRefused, PutReceived, PutStored, PutVerified
<1>2. CASE \E u \in Uses : UseStep(u)
  BY <1>2 DEF UseStep, UseReceived, Unlock, UnlockRefused, UnlockUnavailable,
              UseAnswered
<1>3. CASE \E r \in Requests : WriteStep(r)
  BY <1>3 DEF WriteStep, RecordUse, MarkUse, WriteLost, OrphanLands, OrphanVanishes
<1>4. CASE \/ \E k \in Keys : Restart(k)
           \/ \E a, b \in Subjects : Transplant(a, b)
           \/ UNCHANGED vars
  BY <1>4 DEF Restart, Transplant, vars
<1> QED BY <1>1, <1>2, <1>3, <1>4 DEF Next

\* The ways a subject's row may change in a step.
RowStays(s)    == rows'[s] = rows[s]
OthersStay(s)  == \A t \in Subjects \ {s} : RowStays(t)
RowReplaced(s) == \E p \in Puts : /\ req[p].pc \in {"upserting", "orphan_upsert"}
                                  /\ req'[p].pc \in {"verifying", "done"}
                                  /\ req[p].subject = s
                                  /\ rows'[s] = Fresh(p)
                                  /\ OthersStay(s)
RowMarked(s)   == \E r \in Requests :
                     /\ req[r].pc \in {"marking", "orphan_mark"}
                     /\ req[r].subject = s
                     /\ rows[s] # None /\ rows'[s] # None
                     /\ rows[s].stored_at = req[r].stored_at
                     /\ rows'[s].stored_at = rows[s].stored_at
                     /\ rows'[s].ciphertext = rows[s].ciphertext
                     /\ rows'[s].last_use_ok = req[r].verdict
                     /\ OthersStay(s)
RowMisfiled(s) == /\ rows[s] # None /\ rows'[s] # None
                  /\ rows'[s].stored_at = rows[s].stored_at
                  /\ rows'[s].last_use_ok = rows[s].last_use_ok
                  /\ ~BoundTo(s, rows'[s])

RowMoves(s) == RowStays(s) \/ RowReplaced(s) \/ RowMarked(s) \/ RowMisfiled(s)

\* An upsert replaces its own subject's row and no other.
LEMMA UpsertMoves ==
  ASSUME Typed, NEW p \in Requests, UpsertRow(p),
         req[p].pc \in {"upserting", "orphan_upsert"},
         req'[p].pc \in {"verifying", "done"}, NEW s \in Subjects
  PROVE  RowMoves(s)
<1>1. p \in Puts /\ req[p].subject \in Subjects
  BY DEF Typed, HeldOK, Holding
<1>2. s # req[p].subject => RowStays(s)
  BY DEF UpsertRow, RowStays, Typed, TypeOK
<1>3. s = req[p].subject => RowReplaced(s)
  BY <1>1 DEF UpsertRow, RowReplaced, OthersStay, RowStays, Typed, TypeOK
<1> QED BY <1>2, <1>3 DEF RowMoves

\* A verdict's write marks the row it was given about, or none.
LEMMA MarkMoves ==
  ASSUME Typed, NEW r \in Requests, MarkRow(r),
         req[r].pc \in {"marking", "orphan_mark"}, NEW s \in Subjects
  PROVE  RowMoves(s)
<1>1. req[r].subject \in Subjects
  BY DEF Typed, HeldOK, Holding
<1>2. CASE ~Matches(r)
  BY <1>2 DEF MarkRow, RowMoves, RowStays
<1>3. CASE Matches(r) /\ s # req[r].subject
  BY <1>3 DEF MarkRow, RowMoves, RowStays, Typed, TypeOK
<1>4. CASE Matches(r) /\ s = req[r].subject
  <2> DEFINE new == [rows[s] EXCEPT !.last_used_at = req[r].at,
                                    !.last_use_ok  = req[r].verdict]
  <2>1. rows[s] \in Row /\ rows[s].stored_at = req[r].stored_at
    BY <1>4 DEF Matches, Typed, TypeOK
  <2>2. rows'[s] = new
    BY <1>1, <1>4 DEF MarkRow, Typed, TypeOK
  <2>3. rows'[s] \in Row \cup {None}
    BY MarkRowType
  <2>4. /\ new.stored_at = rows[s].stored_at
        /\ new.ciphertext = rows[s].ciphertext
        /\ new.last_use_ok = req[r].verdict
    BY <2>1 DEF Row
  <2>5. new \in Row
    BY <1>1, <2>1 DEF Row, Typed, TypeOK, HeldOK, Request
  <2>6. rows[s] # None /\ rows'[s] # None
    BY <2>1, <2>2, <2>5, NoneIsNoData
  <2>7. OthersStay(s)
    BY <1>4 DEF MarkRow, OthersStay, RowStays, Typed, TypeOK
  <2> QED BY <1>4, <2>1, <2>2, <2>4, <2>6, <2>7 DEF RowMarked, RowMoves
<1> QED BY <1>2, <1>3, <1>4

\* Every step of the system moves every row in one of these ways.
LEMMA AllRowMoves ==
  ASSUME Typed, [Next]_vars, NEW s \in Subjects
  PROVE  RowMoves(s)
<1>1. ASSUME NEW p \in Puts, PutStep(p) PROVE RowMoves(s)
  <2>1. CASE PutStored(p)
    <3>1. req[p].pc = "upserting" /\ req'[p].pc = "verifying" /\ p \in Requests
      BY <2>1 DEF PutStored, Goto, Typed, TypeOK, Requests, Request
    <3> QED BY <2>1, <3>1, UpsertMoves DEF PutStored
  <2>2. CASE UNCHANGED rows
    BY <2>2 DEF RowMoves, RowStays
  <2> QED BY <1>1, <2>1, <2>2 DEF PutStep, PutRefused, PutReceived, PutVerified
<1>2. ASSUME NEW u \in Uses, UseStep(u) PROVE RowMoves(s)
  BY <1>2 DEF UseStep, UseReceived, UnlockRefused, UnlockUnavailable, Unlock,
              UseAnswered, RowMoves, RowStays
<1>3. ASSUME NEW r \in Requests, WriteStep(r) PROVE RowMoves(s)
  <2>1. CASE MarkUse(r)
    BY <2>1, MarkMoves DEF MarkUse
  <2>2. CASE OrphanLands(r)
    <3>1. req'[r].pc = "done"
      BY <2>2 DEF OrphanLands, Goto, Typed, TypeOK, Request
    <3> QED BY <2>2, <3>1, UpsertMoves, MarkMoves DEF OrphanLands
  <2>3. CASE UNCHANGED rows
    BY <2>3 DEF RowMoves, RowStays
  <2> QED BY <1>3, <2>1, <2>2, <2>3 DEF WriteStep, RecordUse, WriteLost, OrphanVanishes
<1>4. ASSUME NEW a \in Subjects, NEW b \in Subjects, Transplant(a, b)
      PROVE  RowMoves(s)
  <2>1. s # b => RowStays(s)
    BY <1>4 DEF Transplant, RowStays, Typed, TypeOK
  <2>2. s = b => RowMisfiled(s)
    <3> HAVE s = b
    <3> DEFINE new == [rows[b] EXCEPT !.ciphertext = rows[a].ciphertext]
    <3>1. rows[a] \in Row /\ rows[b] \in Row /\ rows[a].ciphertext.subject = a
      BY <1>4 DEF Transplant, BoundTo, Typed, TypeOK
    <3>2. rows'[b] = new
      BY <1>4 DEF Transplant, Typed, TypeOK
    <3>3. new \in Row /\ new.stored_at = rows[b].stored_at
          /\ new.last_use_ok = rows[b].last_use_ok
          /\ new.ciphertext = rows[a].ciphertext
      BY <3>1 DEF Row
    <3>4. rows'[b] # None /\ rows[b] # None
      BY <3>1, <3>2, <3>3, NoneIsNoData
    <3> QED BY <1>4, <3>1, <3>2, <3>3, <3>4 DEF Transplant, RowMisfiled, BoundTo
  <2> QED BY <2>1, <2>2 DEF RowMoves
<1>5. CASE \E k \in Keys : Restart(k)
  BY <1>5 DEF Restart, RowMoves, RowStays
<1>6. CASE UNCHANGED vars
  BY <1>6 DEF vars, RowMoves, RowStays
<1> QED BY <1>1, <1>2, <1>3, <1>4, <1>5, <1>6 DEF Next

-----------------------------------------------------------------------------
(* Where what a request holds comes from *)

\* No stamp before the request has got that far.
Unstamped ==
  \A r \in Requests : req[r].pc \in {"idle", "unlocking"} => req[r].stored_at = Never

\* p supplied ciphertext c for subject s under the stamp t.
Supplied(p, s, c, t) ==
  req[p].subject = s /\ req[p].ciphertext = c /\ req[p].stored_at = t

\* Whatever a request holds, some PUT of its subject supplied.
HeldWasSupplied ==
  \A r \in Requests :
     req[r].pc \in Holding =>
        \E p \in Puts : Supplied(p, req[r].subject, req[r].ciphertext,
                                 req[r].stored_at)

\* A row carries the stamp of a committed PUT of its subject and, unless it
\* was transplanted, that PUT's ciphertext.
RowWasSupplied ==
  \A s \in Subjects :
     rows[s] # None =>
        \E p \in Puts : /\ req[p].subject = s
                        /\ req[p].stored_at = rows[s].stored_at
                        /\ Committed(p)
                        /\ BoundTo(s, rows[s]) =>
                              req[p].ciphertext = rows[s].ciphertext

\* A verdict on its way to the table was given about the cookie it goes with.
VerdictWasGiven ==
  \A r \in Requests :
     req[r].pc \in Judged =>
        <<req[r].ciphertext.cookie, req[r].verdict>> \in answers

\* A PUT past its upsert has left a row behind.
VerifiedIsStored ==
  \A p \in Puts :
     req[p].pc \in {"verifying", "recording", "marking", "orphan_mark"} =>
        rows[req[p].subject] # None

Provenance == Unstamped /\ HeldWasSupplied /\ RowWasSupplied
              /\ VerdictWasGiven /\ VerifiedIsStored

\* A PUT keeps what it supplied, and stays committed.
LEMMA PutKept ==
  ASSUME Typed, Unstamped, [Next]_vars, NEW p \in Puts, req[p].stored_at # Never
  PROVE  Keeps(p) /\ (Committed(p) => Committed(p)')
<1>1. p \in Requests /\ p \notin Uses
  BY RequestsDisjoint DEF Requests
<1>2. req[p].pc \notin {"idle", "unlocking"}
  BY <1>1 DEF Unstamped
<1>3. Stays(p) \/ Stores(p) \/ Judges(p) \/ Proceeds(p)
  BY <1>1, <1>2, AllMoves DEF Moves, Arrives, Receives, Unlocks
<1>4. Stays(p) => Keeps(p) /\ (Committed(p) => Committed(p)')
  BY DEF Stays, Keeps, Committed
<1>5. Stores(p) => Keeps(p) /\ Committed(p)'
  BY DEF Stores, Committed
<1>6. Judges(p) => Keeps(p) /\ Committed(p)'
  BY DEF Judges, Committed
<1>7. Proceeds(p) => Keeps(p) /\ (Committed(p) => Committed(p)')
  BY DEF Proceeds, Onward, Committed
<1> QED BY <1>3, <1>4, <1>5, <1>6, <1>7

\* With no row and no request there is nothing to account for.
LEMMA ProvenanceInit == Init => Provenance
BY DEF Init, Provenance, Unstamped, HeldWasSupplied, RowWasSupplied,
       VerdictWasGiven, VerifiedIsStored, Holding, Judged, Requests

\* Every step accounts for what it writes and hands out.
LEMMA ProvenanceStep ==
  ASSUME Typed, Typed', Provenance, [Next]_vars
  PROVE  Provenance'
<1> USE DEF Provenance
<1>1. Unstamped'
  <2> SUFFICES ASSUME NEW r \in Requests, req'[r].pc \in {"idle", "unlocking"}
               PROVE  req'[r].stored_at = Never
    BY DEF Unstamped
  <2>1. Stays(r) \/ Arrives(r)
    BY AllMoves DEF Moves, Receives, Stores, Unlocks, Judges, Proceeds, Onward
  <2> QED BY <2>1 DEF Stays, Arrives, Unstamped
<1>2. HeldWasSupplied'
  <2> SUFFICES ASSUME NEW r \in Requests, req'[r].pc \in Holding
               PROVE  \E p \in Puts :
                         Supplied(p, req[r].subject, req[r].ciphertext,
                                  req[r].stored_at)'
    BY DEF HeldWasSupplied
  <2>1. CASE Keeps(r) /\ req[r].pc \in Holding
    <3>1. PICK p \in Puts : Supplied(p, req[r].subject, req[r].ciphertext,
                                     req[r].stored_at)
      BY <2>1 DEF HeldWasSupplied
    <3>2. req[p].stored_at # Never
      BY <2>1, <3>1 DEF Supplied, Typed, HeldOK, Times, Never
    <3> QED BY <2>1, <3>1, <3>2, PutKept DEF Supplied, Keeps
  <2>2. CASE Receives(r)
    BY <2>2 DEF Receives, Supplied
  <2>3. CASE Unlocks(r)
    <3> DEFINE s == req[r].subject
    <3>1. s \in Subjects
      BY <2>3 DEF Unlocks, Typed, HeldOK
    <3>2. PICK p \in Puts : /\ req[p].subject = s
                            /\ req[p].stored_at = rows[s].stored_at
                            /\ req[p].ciphertext = rows[s].ciphertext
      BY <2>3, <3>1 DEF Unlocks, RowWasSupplied
    <3>3. req[p].stored_at # Never
      BY <2>3, <3>1, <3>2 DEF Unlocks, Typed, TypeOK, Row, Times, Never
    <3> QED BY <2>3, <3>2, <3>3, PutKept DEF Unlocks, Supplied, Keeps
  <2>4. \/ Keeps(r) /\ req[r].pc \in Holding
        \/ Receives(r) \/ Unlocks(r)
    BY AllMoves DEF Moves, Stays, Arrives, Stores, Judges, Proceeds, Onward,
                    Keeps, Holding
  <2> QED BY <2>1, <2>2, <2>3, <2>4
<1>3. RowWasSupplied'
  <2> SUFFICES ASSUME NEW s \in Subjects, rows'[s] # None
               PROVE  \E p \in Puts : /\ req'[p].subject = s
                                      /\ req'[p].stored_at = rows'[s].stored_at
                                      /\ Committed(p)'
                                      /\ BoundTo(s, rows'[s]) =>
                                            req'[p].ciphertext = rows'[s].ciphertext
    BY DEF RowWasSupplied, BoundTo
  <2>1. CASE RowReplaced(s)
    <3>1. PICK p \in Puts : /\ req[p].pc \in {"upserting", "orphan_upsert"}
                            /\ req'[p].pc \in {"verifying", "done"}
                            /\ req[p].subject = s
                            /\ rows'[s] = Fresh(p)
      BY <2>1 DEF RowReplaced
    <3>2. p \in Requests /\ req[p].stored_at # Never
      BY <3>1 DEF Typed, HeldOK, Holding, Times, Never, Requests
    <3>3. Keeps(p)
      BY <3>2, PutKept
    <3>4. /\ rows'[s].stored_at = req[p].stored_at
          /\ rows'[s].ciphertext = req[p].ciphertext
      BY <3>1 DEF Fresh
    <3> QED BY <3>1, <3>3, <3>4 DEF Keeps, Committed
  <2>2. CASE \/ RowStays(s) \/ RowMarked(s) \/ RowMisfiled(s)
    <3>1. /\ rows[s] # None /\ rows'[s].stored_at = rows[s].stored_at
          /\ BoundTo(s, rows'[s]) => rows'[s].ciphertext = rows[s].ciphertext
      BY <2>2 DEF RowStays, RowMarked, RowMisfiled
    <3>2. PICK p \in Puts : /\ req[p].subject = s
                            /\ req[p].stored_at = rows[s].stored_at
                            /\ Committed(p)
                            /\ BoundTo(s, rows[s]) =>
                                  req[p].ciphertext = rows[s].ciphertext
      BY <3>1 DEF RowWasSupplied
    <3>3. req[p].stored_at # Never
      BY <3>1, <3>2 DEF Typed, TypeOK, Row, Times, Never
    <3>4. Keeps(p) /\ Committed(p)'
      BY <3>2, <3>3, PutKept
    <3> QED BY <3>1, <3>2, <3>4 DEF Keeps, BoundTo
  <2> QED BY <2>1, <2>2, AllRowMoves DEF RowMoves
<1>4. VerdictWasGiven'
  <2> SUFFICES ASSUME NEW r \in Requests, req'[r].pc \in Judged
               PROVE  <<req'[r].ciphertext.cookie, req'[r].verdict>> \in answers'
    BY DEF VerdictWasGiven
  <2>1. \/ Judges(r)
        \/ /\ req[r].pc \in Judged /\ req'[r].ciphertext = req[r].ciphertext
           /\ req'[r].verdict = req[r].verdict
    BY AllMoves DEF Moves, Stays, Arrives, Receives, Stores, Unlocks, Proceeds,
                    Onward, Keeps, Judged
  <2> QED BY <2>1, AllMovesAnswers DEF Judges, VerdictWasGiven
<1>5. VerifiedIsStored'
  <2> SUFFICES ASSUME NEW p \in Puts,
                      req'[p].pc \in {"verifying", "recording", "marking",
                                      "orphan_mark"}
               PROVE  rows'[req'[p].subject] # None
    BY DEF VerifiedIsStored
  <2>1. p \in Requests /\ p \notin Uses
    BY RequestsDisjoint DEF Requests
  <2>2. CASE Stores(p)
    <3>1. req[p].subject \in Subjects /\ Fresh(p) \in Row
      BY <2>1, <2>2 DEF Stores, Typed, HeldOK, Holding, Fresh, Row, Verdicts
    <3> QED BY <2>2, <3>1, NoneIsNoData DEF Stores, Keeps, UpsertRow, Typed, TypeOK
  <2>3. CASE /\ Keeps(p)
             /\ req[p].pc \in {"verifying", "recording", "marking", "orphan_mark"}
    <3> DEFINE s == req[p].subject
    <3>1. s \in Subjects /\ rows[s] # None
      BY <2>1, <2>3 DEF VerifiedIsStored, Typed, HeldOK, Holding
    <3>2. RowReplaced(s) => rows'[s] # None
      <4> SUFFICES ASSUME NEW q \in Puts,
                          req[q].pc \in {"upserting", "orphan_upsert"},
                          rows'[s] = Fresh(q)
                   PROVE  rows'[s] # None
        BY DEF RowReplaced
      <4>1. Fresh(q) \in Row
        BY DEF Typed, HeldOK, Holding, Requests, Fresh, Row, Verdicts
      <4> QED BY <4>1, NoneIsNoData
    <3>3. rows'[s] # None
      BY <3>1, <3>2, AllRowMoves DEF RowMoves, RowStays, RowMarked, RowMisfiled
    <3> QED BY <2>3, <3>3 DEF Keeps
  <2>4. \/ Stores(p)
        \/ /\ Keeps(p)
           /\ req[p].pc \in {"verifying", "recording", "marking", "orphan_mark"}
    <3>1. req[p].pc \notin {"fetching"}
      BY <2>1 DEF Typed, HeldOK
    <3> QED BY <2>1, <3>1, AllMoves DEF Moves, Stays, Arrives, Receives, Unlocks, Judges,
                           Proceeds, Onward, Keeps
  <2> QED BY <2>2, <2>3, <2>4
<1> QED BY <1>1, <1>2, <1>3, <1>4, <1>5

\* Every row, and whatever a request took out of one, comes from a PUT of
\* that very subject; every verdict on its way to the table, from LinkedIn.
THEOREM ProvenanceCorrect == Spec => []Provenance
<1>1. Provenance /\ Typed /\ Typed' /\ [Next]_vars => Provenance'
  BY ProvenanceStep
<1> QED BY <1>1, ProvenanceInit, TypeCorrect, PTL DEF Spec, Typed

\* A profile request talks to LinkedIn only under a cookie its own subject
\* supplied, whatever is moved about in the table.
THEOREM OwnCookie == Spec => []ActsUnderOwnCookie
<1>1. Provenance => ActsUnderOwnCookie
  <2> SUFFICES ASSUME Provenance, NEW u \in Uses,
                      req[u].pc \in {"fetching", "recording", "marking"}
               PROVE  \E p \in Puts : /\ req[p].subject = req[u].subject
                                      /\ req[p].ciphertext = req[u].ciphertext
    BY DEF ActsUnderOwnCookie
  <2>1. \E p \in Puts : Supplied(p, req[u].subject, req[u].ciphertext,
                                 req[u].stored_at)
    BY DEF Provenance, HeldWasSupplied, Holding, Requests
  <2> QED BY <2>1 DEF Supplied
<1> QED BY <1>1, ProvenanceCorrect, PTL

\* From the moment LinkedIn is asked about a PUT's cookie, that cookie or
\* another PUT's is in the subject's row, and stays there.
THEOREM StoredFirst == Spec => []CredentialSurvivesVerification
<1>1. Provenance /\ TypeOK /\ HeldOK => CredentialSurvivesVerification
  <2> SUFFICES ASSUME Provenance, TypeOK, HeldOK, NEW p \in Puts,
                      req[p].pc \in {"verifying", "recording", "marking",
                                     "orphan_mark"}
               PROVE  /\ rows[req[p].subject] # None
                      /\ \E q \in Puts :
                            /\ req[q].subject = req[p].subject
                            /\ req[q].stored_at = rows[req[p].subject].stored_at
                            /\ Committed(q)
    BY DEF CredentialSurvivesVerification
  <2>1. rows[req[p].subject] # None /\ req[p].subject \in Subjects
    BY DEF Provenance, VerifiedIsStored, HeldOK, Holding, Requests
  <2> QED BY <2>1 DEF Provenance, RowWasSupplied
<1> QED BY <1>1, ProvenanceCorrect, TypeCorrect, PTL

-----------------------------------------------------------------------------
(* With a clock that ticks between two readings *)

\* Every stamp lies behind the clock, and no two PUTs share one.
StampsDistinct ==
  /\ \A p \in Puts : req[p].stored_at <= now
  /\ \A p, q \in Puts : req[p].stored_at # Never /\ p # q =>
                           req[p].stored_at # req[q].stored_at

\* A clock that ticks between two readings gives every PUT its own stored_at.
LEMMA StampsDistinctStep ==
  ASSUME MinTick > 0, Typed, Typed', Unstamped, StampsDistinct, [Next]_vars
  PROVE  StampsDistinct'
<1>0. \A p \in Puts : p \in Requests /\ p \notin Uses
  BY RequestsDisjoint DEF Requests
<1>1. now <= now' /\ now \in Nat /\ now' \in Nat
  <2>1. \A t \in Times : ReadClock(t) => now' >= now
    BY MinTickAssumption DEF ReadClock, Times, Typed, TypeOK
  <2>2. \/ UNCHANGED now
        \/ \E t \in Times : ReadClock(t)
    BY DEF Next, vars, PutStep, UseStep, WriteStep, PutRefused, PutReceived,
           PutStored, PutVerified, UseReceived, UnlockRefused, UnlockUnavailable,
           Unlock, UseAnswered, RecordUse, MarkUse, WriteLost, OrphanLands,
           OrphanVanishes, Restart, Transplant
  <2> QED BY <2>1, <2>2 DEF Typed, TypeOK
<1>2. \A p \in Puts : /\ req[p].stored_at \in Nat
                      /\ req'[p].stored_at \in Nat
  BY <1>0 DEF Typed, TypeOK, Request, Times, Never
<1>3. ASSUME NEW p \in Puts, ~Receives(p)
      PROVE  req'[p].stored_at = req[p].stored_at
  BY <1>0, <1>3, AllMoves DEF Moves, Stays, Arrives, Stores, Unlocks, Judges,
                             Proceeds, Keeps
<1>4. ASSUME NEW p \in Puts, Receives(p)
      PROVE  /\ now < req'[p].stored_at /\ now' = req'[p].stored_at
             /\ \A q \in Puts \ {p} : req'[q].stored_at = req[q].stored_at
  <2>1. now + MinTick <= req'[p].stored_at /\ now' = req'[p].stored_at
    BY <1>4 DEF Receives, ReadClock
  <2>2. \A q \in Puts \ {p} : req'[q] = req[q]
    BY <1>0, <1>4 DEF Receives, Stays
  <2> QED BY <1>1, <1>2, <2>1, <2>2, MinTickAssumption
<1>5. CASE \A p \in Puts : ~Receives(p)
  BY <1>1, <1>2, <1>3, <1>5 DEF StampsDistinct
<1>6. ASSUME NEW p \in Puts, Receives(p) PROVE StampsDistinct'
  BY <1>1, <1>2, <1>4, <1>6 DEF StampsDistinct
<1> QED BY <1>5, <1>6

\* When stamps are distinct, a verdict only lands on the row it was given
\* about: the stored_at in _MARK_USE_SQL's predicate identifies the cookie.
LEMMA VerdictStep ==
  ASSUME Typed, Typed', Provenance, StampsDistinct, VerdictBelongsToCookie,
         [Next]_vars
  PROVE  VerdictBelongsToCookie'
<1> SUFFICES ASSUME NEW s \in Subjects, rows'[s] # None, BoundTo(s, rows'[s]),
                    rows'[s].last_use_ok # "null"
             PROVE  <<rows'[s].ciphertext.cookie, rows'[s].last_use_ok>> \in answers'
  BY DEF VerdictBelongsToCookie, BoundTo
<1>1. CASE RowStays(s)
  BY <1>1, AllMovesAnswers DEF RowStays, VerdictBelongsToCookie, BoundTo
<1>2. CASE RowMarked(s)
  <2>1. PICK r \in Requests :
           /\ req[r].pc \in {"marking", "orphan_mark"}
           /\ req[r].subject = s
           /\ rows[s] # None
           /\ rows[s].stored_at = req[r].stored_at
           /\ rows'[s].ciphertext = rows[s].ciphertext
           /\ rows'[s].last_use_ok = req[r].verdict
    BY <1>2 DEF RowMarked
  <2>2. PICK p \in Puts : Supplied(p, s, req[r].ciphertext, req[r].stored_at)
    BY <2>1 DEF Provenance, HeldWasSupplied, Holding
  <2>3. PICK q \in Puts : /\ req[q].stored_at = rows[s].stored_at
                          /\ BoundTo(s, rows[s]) =>
                                req[q].ciphertext = rows[s].ciphertext
    BY <2>1 DEF Provenance, RowWasSupplied
  <2>4. rows[s].stored_at # Never
    BY <2>1 DEF Typed, TypeOK, Row, Times, Never
  <2>5. p = q
    BY <2>1, <2>2, <2>3, <2>4 DEF Supplied, StampsDistinct
  <2>6. rows'[s].ciphertext = req[r].ciphertext
    BY <2>1, <2>2, <2>3, <2>5 DEF Supplied, BoundTo
  <2>7. <<req[r].ciphertext.cookie, req[r].verdict>> \in answers
    BY <2>1 DEF Provenance, VerdictWasGiven, Judged
  <2> QED BY <2>1, <2>6, <2>7, AllMovesAnswers
<1>3. ~RowReplaced(s)
  <2>1. \A p \in Puts : Fresh(p).last_use_ok = "null"
    BY DEF Fresh
  <2> QED BY <2>1 DEF RowReplaced
<1>4. ~RowMisfiled(s)
  BY DEF RowMisfiled
<1> QED BY <1>1, <1>2, <1>3, <1>4, AllRowMoves DEF RowMoves

\* If the clock ticks between two readings, the verdict in a row was given by
\* LinkedIn about the cookie in that row: no late verdict of a replaced cookie
\* survives, however requests, lost writes and restarts interleave.
THEOREM VerdictCorrect ==
  ASSUME MinTick > 0
  PROVE  Spec => []VerdictBelongsToCookie
<1> DEFINE Inv == StampsDistinct /\ VerdictBelongsToCookie
<1>1. Init => Inv
  BY DEF Init, StampsDistinct, VerdictBelongsToCookie, Requests, Never
<1>2. Inv /\ Typed /\ Typed' /\ Provenance /\ [Next]_vars => Inv'
  BY StampsDistinctStep, VerdictStep DEF Provenance
<1>3. Inv => VerdictBelongsToCookie
  OBVIOUS
<1> QED BY <1>1, <1>2, <1>3, TypeCorrect, ProvenanceCorrect, PTL DEF Spec, Typed

-----------------------------------------------------------------------------
(* The vault implements the register *)

\* A request has a verdict from the moment LinkedIn gave one, and not before.
VerdictsInPhase ==
  \A r \in Requests :
     /\ req[r].pc \in Judged => req[r].verdict # "null"
     /\ req[r].pc \in {"idle", "upserting", "verifying", "unlocking", "fetching"} =>
           req[r].verdict = "null"

\* Nothing the vault does gives a request a verdict LinkedIn did not give.
LEMMA VerdictsInPhaseStep ==
  ASSUME Typed, VerdictsInPhase, [Next]_vars
  PROVE  VerdictsInPhase'
<1> SUFFICES ASSUME NEW r \in Requests
             PROVE  /\ req'[r].pc \in Judged => req'[r].verdict # "null"
                    /\ req'[r].pc \in {"idle", "upserting", "verifying",
                                       "unlocking", "fetching"} =>
                          req'[r].verdict = "null"
  BY DEF VerdictsInPhase
<1>1. CASE Judges(r)
  BY <1>1 DEF Judges
<1>2. CASE Proceeds(r)
  BY <1>2 DEF Proceeds, Onward, VerdictsInPhase, Judged
<1>3. CASE \/ Stays(r) \/ Arrives(r) \/ Receives(r) \/ Stores(r) \/ Unlocks(r)
  BY <1>3 DEF Stays, Arrives, Receives, Stores, Unlocks, VerdictsInPhase, Judged
<1> QED BY <1>1, <1>2, <1>3, AllMoves DEF Moves

\* Unless LinkedIn says something, nobody was told anything new.
LEMMA ToldKept ==
  ASSUME Typed, VerdictsInPhase, [Next]_vars, \A r \in Requests : ~Judges(r)
  PROVE  Told' = Told
<1>1. ASSUME NEW r \in Requests
      PROVE  /\ req'[r].verdict = req[r].verdict
             /\ req[r].verdict # "null" => /\ req'[r].subject = req[r].subject
                                           /\ req'[r].stored_at = req[r].stored_at
  BY AllMoves DEF Moves, Stays, Arrives, Receives, Stores, Unlocks, Proceeds, Keeps,
                  VerdictsInPhase
<1> QED BY <1>1 DEF Told

\* LinkedIn's answer is heard of the session it was given on.
LEMMA JudgesImplements ==
  ASSUME Typed, Typed', VerdictsInPhase, NEW r \in Requests, Judges(r)
  PROVE  \E s \in Subjects : Register!Hear(s)
<1> DEFINE s == req[r].subject
           t == req[r].stored_at
           v == req'[r].verdict
<1>1. s \in Subjects /\ t \in Times /\ v \in Register!Sayings
  BY DEF Judges, Typed, HeldOK, TypeOK, Holding, Request, Verdicts, Register!Sayings
<1>2. req[r].verdict = "null"
  BY DEF Judges, VerdictsInPhase
<1>3. \A q \in Requests \ {r} : req'[q] = req[q]
  BY DEF Judges, Stays
<1>4. Told' = Told \cup {<<s, t, v>>}
  BY <1>2, <1>3 DEF Judges, Keeps, Told
<1>5. StoredAt' = StoredAt /\ LastUseOk' = LastUseOk
  BY DEF Judges, StoredAt, LastUseOk
<1> QED BY <1>1, <1>4, <1>5 DEF Register!Hear

\* An upsert stores a session of which nothing is known.
LEMMA ReplacedImplements ==
  ASSUME Typed, Typed', Told' = Told, NEW s \in Subjects, RowReplaced(s)
  PROVE  Register!Store(s)
<1>1. PICK p \in Puts : /\ req[p].pc \in {"upserting", "orphan_upsert"}
                        /\ rows'[s] = Fresh(p)
  BY DEF RowReplaced
<1>2. req[p].stored_at \in Times /\ Fresh(p) \in Row
  BY <1>1 DEF Typed, HeldOK, Holding, Requests, Fresh, Row, Verdicts
<1>3. rows'[s] # None /\ Fresh(p).stored_at = req[p].stored_at
      /\ Fresh(p).last_use_ok = "null"
  BY <1>1, <1>2, NoneIsNoData DEF Fresh
<1>4. \A t \in Subjects \ {s} : rows'[t] = rows[t]
  BY DEF RowReplaced, OthersStay, RowStays
<1>5. StoredAt' = [StoredAt EXCEPT ![s] = req[p].stored_at]
  BY <1>1, <1>3, <1>4 DEF StoredAt
<1>6. LastUseOk' = [LastUseOk EXCEPT ![s] = "null"]
  BY <1>1, <1>3, <1>4 DEF LastUseOk
<1> QED BY <1>2, <1>5, <1>6 DEF Register!Store

\* A mark is something learned of the session it was given on.
LEMMA MarkedImplements ==
  ASSUME Typed, Typed', VerdictsInPhase, Told' = Told,
         NEW s \in Subjects, RowMarked(s)
  PROVE  Register!Learn(s)
<1>1. PICK r \in Requests :
         /\ req[r].pc \in {"marking", "orphan_mark"}
         /\ req[r].subject = s
         /\ rows[s] # None /\ rows'[s] # None
         /\ rows[s].stored_at = req[r].stored_at
         /\ rows'[s].stored_at = rows[s].stored_at
         /\ rows'[s].last_use_ok = req[r].verdict
  BY DEF RowMarked
<1>2. req[r].verdict \in Register!Sayings
  BY <1>1 DEF VerdictsInPhase, Judged, Typed, TypeOK, Request, Verdicts,
              Register!Sayings
<1>3. \A t \in Subjects \ {s} : rows'[t] = rows[t]
  BY DEF RowMarked, OthersStay, RowStays
<1>4. <<s, StoredAt[s], req[r].verdict>> \in Told
  BY <1>1, <1>2 DEF Told, StoredAt, Register!Sayings
<1>5. StoredAt' = StoredAt
  BY <1>1, <1>3 DEF StoredAt
<1>6. LastUseOk' = [LastUseOk EXCEPT ![s] = req[r].verdict]
  BY <1>1, <1>3 DEF LastUseOk
<1> QED BY <1>2, <1>4, <1>5, <1>6 DEF Register!Learn

\* The vault, with its table, its lost statements and its restarts, implements
\* the register: what is shown of a stored session was said of that session.
THEOREM Implements == Spec => ImplementsSessionRegister
<1>1. Init => VerdictsInPhase /\ Register!Init
  BY DEF Init, VerdictsInPhase, Judged, Register!Init, Register!Verdicts,
         StoredAt, LastUseOk, Told, Verdicts
<1>2. ASSUME Typed, Typed', VerdictsInPhase, [Next]_vars
      PROVE  Register!Next \/ UNCHANGED <<StoredAt, LastUseOk, Told>>
  <2>1. CASE \E r \in Requests : Judges(r)
    BY <1>2, <2>1, JudgesImplements DEF Register!Next
  <2>2. CASE \A r \in Requests : ~Judges(r)
    <3>1. Told' = Told
      BY <1>2, <2>2, ToldKept
    <3>2. CASE \E s \in Subjects : RowReplaced(s) \/ RowMarked(s)
      BY <1>2, <3>1, <3>2, ReplacedImplements, MarkedImplements DEF Register!Next
    <3>3. CASE \A s \in Subjects : RowStays(s) \/ RowMisfiled(s)
      BY <3>1, <3>3 DEF RowStays, RowMisfiled, StoredAt, LastUseOk
    <3> QED BY <1>2, <3>2, <3>3, AllRowMoves DEF RowMoves
  <2> QED BY <2>1, <2>2
<1>3. Typed /\ VerdictsInPhase /\ [Next]_vars => VerdictsInPhase'
  BY VerdictsInPhaseStep
<1>4. Typed /\ Typed' /\ VerdictsInPhase /\ [Next]_vars
        => [Register!Next]_(Register!vars)
  BY <1>2 DEF Register!vars
<1> QED BY <1>1, <1>3, <1>4, TypeCorrect, PTL
        DEF Spec, ImplementsSessionRegister, Register!Spec, Typed
=============================================================================
