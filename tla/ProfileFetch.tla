---------------------------- MODULE ProfileFetch ----------------------------
(***************************************************************************)
(* One retrieval from LinkedIn: VoyagerClient.fetch_profile                *)
(* (app/linkedin/client.py) under the deadline get_profile puts on it.     *)
(*                                                                         *)
(* The core profile is asked for first and alone, decorated, and once more *)
(* undecorated if LinkedIn refused the decoration; then the sections are   *)
(* asked for at once.  A 403 that is not a wall waits for one `me` probe,  *)
(* shared by all of them.  One client serves one request.                  *)
(*                                                                         *)
(* A reply is what the classifier looks at: a status, whether it is a wall *)
(* (by destination or content type), and what a readable body holds.  The  *)
(* truth about the session and the member is part of the state: LinkedIn's *)
(* replies follow it, and the properties are about it.                     *)
(***************************************************************************)
EXTENDS Integers

CONSTANTS
  SectionCount,  \* Cardinality of SECTION_RESOURCES
  CallTime,      \* a call is over before this; larger than Deadline: no bound
  Deadline,      \* PROFILE_FETCH_DEADLINE_SECONDS
  None           \* no reply

ASSUME ConstantsAssumption ==
  SectionCount \in Nat /\ CallTime \in Nat /\ Deadline \in Nat

Core      == 0
Sections  == 1..SectionCount       \* in the order of SECTION_RESOURCES
Resources == {Core} \cup Sections

\* Status 0 is a call that brought no response: DNS, TLS, reset, timeout.
Statuses == {0, 200, 400, 401, 403, 404, 410, 429, 500, 999}

\* A 200 that is no wall: what was asked for, a collection of nothing, a
\* reference to an entity that did not come along, another member, an entity
\* without its key, or nothing the client can read.
Bodies == {"none", "asked_for", "empty", "unresolved", "stranger", "keyless",
           "malformed"}

Replies == {p \in [status : Statuses, walled : BOOLEAN, body : Bodies] :
              /\ p.body # "none" <=> p.status = 200 /\ ~p.walled
              /\ p.status = 0 => ~p.walled}

ASSUME NoneIsNoReply == None \notin Replies

ErrorCodes == {"SESSION_EXPIRED", "RATE_LIMITED", "UPSTREAM_CHALLENGE",
               "UPSTREAM_ERROR", "PROFILE_NOT_FOUND"}

VARIABLES
  session,       \* the truth: LinkedIn accepts the cookie, or not any more
  visible,       \* the truth: there is a profile for this member to see
  decorated,     \* the core request in flight carries decorationId
  ask,           \* resource -> the state of its call
  probe,         \* _probe_done and _probe_verdict
  probed_at,     \* when the probe was sent
  calls,         \* call_count
  now,           \* time since the deadline was set
  outcome        \* what the fetch returned or raised

vars == <<session, visible, decorated, ask, probe, probed_at, calls, now, outcome>>

Ask == [pc    : {"idle", "asked", "refused", "settled"},
        since : Nat,
        reply : Replies \cup {None}]

Outcome == [code  : {"none", "profile"} \cup ErrorCodes,
            cause : {"none", "member_mismatch", "deadline"}]

TypeOK ==
  /\ session \in {"live", "dead"}
  /\ visible \in BOOLEAN
  /\ decorated \in BOOLEAN
  /\ ask \in [Resources -> Ask]
  /\ probe \in {"unused", "asked", "live", "dead", "unclear"}
  /\ probed_at \in Nat
  /\ calls \in Nat
  /\ now \in Nat
  /\ outcome \in Outcome

Unasked == [pc |-> "idle", since |-> 0, reply |-> None]
Asked   == [pc |-> "asked", since |-> now, reply |-> None]

Raise(code, cause) == outcome' = [code |-> code, cause |-> cause]
Running == outcome.code = "none"

Init ==
  /\ session \in {"live", "dead"}
  /\ visible \in BOOLEAN
  /\ decorated = TRUE
  /\ ask = [r \in Resources |->
              IF r = Core THEN [Unasked EXCEPT !.pc = "asked"] ELSE Unasked]
  /\ probe = "unused" /\ probed_at = 0
  /\ calls = 1
  /\ now = 0
  /\ outcome = [code |-> "none", cause |-> "none"]

-----------------------------------------------------------------------------
(* LinkedIn *)

\* What LinkedIn may reply to a profile resource.  Walls, throttling, outages
\* and unreadable bodies come whenever they like; data needs a live session, a
\* 401 a dead one, and what is said of the member is true.  A section may be
\* refused for reasons of its own.
MayReply(r, p) ==
  /\ p \in Replies
  /\ p.body \notin {"none", "malformed"} => session = "live"
  /\ p.body \in {"stranger", "keyless"} => r = Core
  /\ p.status = 401 => session = "dead"
  /\ r = Core =>
       /\ p.body = "asked_for" => visible
       /\ p.body = "empty" => ~visible
       /\ p.status = 403 /\ ~p.walled => session = "dead" \/ ~visible
       /\ p.status = 404 /\ ~p.walled => ~visible

\* `me` names the owner of a live session only.
MayReplyToMe(p) ==
  /\ p \in Replies
  /\ p.body \notin {"empty", "unresolved", "stranger"}
  /\ p.body = "asked_for" => session = "live"

SessionDies ==
  /\ Running
  /\ session = "live"
  /\ session' = "dead"
  /\ UNCHANGED <<visible, decorated, ask, probe, probed_at, calls, now, outcome>>

-----------------------------------------------------------------------------
(* Classification *)

\* Mutant: the wall is recognised before the explicit refusal.
ClassifiedWallFirst(p, me) ==
  IF p.status = 429               THEN "RATE_LIMITED"
  ELSE IF p.status = 999          THEN "UPSTREAM_CHALLENGE"
  ELSE IF p.walled                THEN IF me THEN "SESSION_EXPIRED"
                                             ELSE "UPSTREAM_CHALLENGE"
  ELSE IF p.status \in {401, 403} THEN "SESSION_EXPIRED"
  ELSE IF p.status = 404          THEN "PROFILE_NOT_FOUND"
  ELSE "UPSTREAM_ERROR"

\* _classify and the except clauses of _request, for a reply that is an error.
Classified(p, me) ==
  IF p.status = 429               THEN "RATE_LIMITED"
  ELSE IF p.status \in {401, 403} THEN "SESSION_EXPIRED"
  ELSE IF p.status = 999          THEN "UPSTREAM_CHALLENGE"
  ELSE IF p.walled                THEN IF me THEN "SESSION_EXPIRED"
                                             ELSE "UPSTREAM_CHALLENGE"
  ELSE IF p.status = 404          THEN "PROFILE_NOT_FOUND"
  ELSE "UPSTREAM_ERROR"

\* The causes in DECORATION_RETRY_CAUSES: a 400, a 410, an unreadable 200.
RefusesDecoration(p) ==
  ~p.walled /\ (p.status \in {400, 410} \/ p.body = "malformed")

\* _reconsider_refusal: a 403 that is not delivered as a wall.
Reconsidered(p) == p.status = 403 /\ ~p.walled

\* Mutant: a probe that could not decide counts as a live session.
AfterProbeOptimistic ==
  IF probe \in {"live", "unclear"} THEN "PROFILE_NOT_FOUND" ELSE "SESSION_EXPIRED"

\* ... refined by the probe's verdict, or left as it was.
AfterProbe == IF probe = "live" THEN "PROFILE_NOT_FOUND" ELSE "SESSION_EXPIRED"

\* _probe_session over check_session.
ProbeVerdict(p) ==
  IF p.body = "asked_for" THEN "live"
  ELSE IF p.body = "keyless" \/ Classified(p, TRUE) = "SESSION_EXPIRED"
    THEN "dead"
  ELSE "unclear"

\* Mutant: throttling is left to the section it happened to.
SystemicButThrottled == {"SESSION_EXPIRED", "UPSTREAM_CHALLENGE"}

\* SYSTEMIC_CODES.
Systemic == {"SESSION_EXPIRED", "RATE_LIMITED", "UPSTREAM_CHALLENGE"}

\* The code a settled section raised or recorded.
SectionCode(s) ==
  LET p == ask[s].reply
  IN  IF Reconsidered(p) THEN AfterProbe ELSE Classified(p, FALSE)

SectionOk(s) == ask[s].reply.body \in {"asked_for", "empty", "unresolved"}

Aborts(s) == ~SectionOk(s) /\ SectionCode(s) \in Systemic

-----------------------------------------------------------------------------
(* _fetch_core *)

\* A refused decoration buys one more call, without it.
CoreRetried(p) ==
  /\ Running /\ ask[Core].pc = "asked" /\ MayReply(Core, p)
  /\ decorated /\ RefusesDecoration(p)
  /\ decorated' = FALSE
  /\ ask' = [ask EXCEPT ![Core] = Asked]
  /\ calls' = calls + 1
  /\ UNCHANGED <<session, visible, probe, probed_at, now, outcome>>

\* The profile asked for: the sections are asked for at once.
CoreRead(p) ==
  /\ Running /\ ask[Core].pc = "asked" /\ MayReply(Core, p)
  /\ p.body = "asked_for"
  /\ ask' = [r \in Resources |->
               IF r = Core THEN [ask[Core] EXCEPT !.pc = "settled", !.reply = p]
                           ELSE Asked]
  /\ calls' = calls + SectionCount
  /\ UNCHANGED <<session, visible, decorated, probe, probed_at, now, outcome>>

\* Anything else ends the fetch, a reconsidered 403 aside.
CoreFailed(p) ==
  /\ Running /\ ask[Core].pc = "asked" /\ MayReply(Core, p)
  /\ p.body # "asked_for"
  /\ ~Reconsidered(p)
  /\ ~(decorated /\ RefusesDecoration(p))
  /\ ask' = [ask EXCEPT ![Core] =
               [@ EXCEPT !.pc = "settled", !.reply = p]]
  /\ IF p.body \in {"empty", "unresolved"} THEN Raise("PROFILE_NOT_FOUND", "none")
     ELSE IF p.body = "stranger" THEN Raise("UPSTREAM_ERROR", "member_mismatch")
     ELSE Raise(Classified(p, FALSE), "none")
  /\ UNCHANGED <<session, visible, decorated, probe, probed_at, calls, now>>

-----------------------------------------------------------------------------
(* _fetch_section and _fetch_sections *)

SectionAnswered(s, p) ==
  /\ Running /\ ask[s].pc = "asked" /\ MayReply(s, p)
  /\ ~Reconsidered(p)
  /\ ask' = [ask EXCEPT ![s] =
               [@ EXCEPT !.pc = "settled", !.reply = p]]
  /\ UNCHANGED <<session, visible, decorated, probe, probed_at, calls, now, outcome>>

\* Mutant: the first systemic failure is raised as soon as it is there.
FanInAtFirstFailure ==
  /\ Running /\ ask[Core].pc = "settled"
  /\ \/ /\ \A s \in Sections : ask[s].pc = "settled" /\ ~Aborts(s)
        /\ Raise("profile", "none")
     \/ \E s \in Sections : /\ ask[s].pc = "settled" /\ Aborts(s)
                            /\ Raise(SectionCode(s), "none")
  /\ UNCHANGED <<session, visible, decorated, ask, probe, probed_at, calls, now>>

\* gather has every result; the first systemic failure is raised.
FanIn ==
  /\ Running /\ ask[Core].pc = "settled"
  /\ \A s \in Sections : ask[s].pc = "settled"
  /\ \/ /\ \A s \in Sections : ~Aborts(s)
        /\ Raise("profile", "none")
     \/ \E s \in Sections : /\ Aborts(s) /\ \A u \in 1..(s - 1) : ~Aborts(u)
                            /\ Raise(SectionCode(s), "none")
  /\ UNCHANGED <<session, visible, decorated, ask, probe, probed_at, calls, now>>

-----------------------------------------------------------------------------
(* _reconsider_refusal, _session_is_alive *)

Refused(r, p) ==
  /\ Running /\ ask[r].pc = "asked" /\ MayReply(r, p)
  /\ Reconsidered(p)
  /\ ask' = [ask EXCEPT ![r] =
               [@ EXCEPT !.pc = "refused", !.reply = p]]
  /\ UNCHANGED <<session, visible, decorated, probe, probed_at, calls, now, outcome>>

\* Mutant: the memo without the lock.
ProbeSentUnlocked(r) ==
  /\ Running /\ ask[r].pc = "refused"
  /\ probe \in {"unused", "asked"}
  /\ probe' = "asked" /\ probed_at' = now
  /\ calls' = calls + 1
  /\ UNCHANGED <<session, visible, decorated, ask, now, outcome>>

\* The first to take the lock probes; the others wait for it.
ProbeSent(r) ==
  /\ Running /\ ask[r].pc = "refused"
  /\ probe = "unused"
  /\ probe' = "asked" /\ probed_at' = now
  /\ calls' = calls + 1
  /\ UNCHANGED <<session, visible, decorated, ask, now, outcome>>

ProbeAnswered(p) ==
  /\ Running /\ probe = "asked" /\ MayReplyToMe(p)
  /\ probe' = ProbeVerdict(p)
  /\ UNCHANGED <<session, visible, decorated, ask, probed_at, calls, now, outcome>>

\* The verdict is there, remembered or new: the refusal is settled by it.
RefusalSettled(r) ==
  /\ Running /\ ask[r].pc = "refused"
  /\ probe \in {"live", "dead", "unclear"}
  /\ ask' = [ask EXCEPT ![r].pc = "settled"]
  /\ IF r = Core THEN Raise(AfterProbe, "none") ELSE UNCHANGED outcome
  /\ UNCHANGED <<session, visible, decorated, probe, probed_at, calls, now>>

-----------------------------------------------------------------------------
(* The deadline *)

InFlight == {r \in Resources : ask[r].pc = "asked"}

\* The event loop has nothing to run: every task awaits a reply, or the probe
\* that another has sent, or gather its tasks.
Waiting ==
  /\ \A r \in Resources : ask[r].pc = "refused" => probe = "asked"
  /\ ask[Core].pc = "settled" => \E s \in Sections : ask[s].pc # "settled"

\* Calls take time and the program none.  No call reaches CallTime, and nothing
\* here happens after the deadline.
Tick ==
  /\ Running
  /\ Waiting
  /\ now < Deadline
  /\ \A r \in InFlight : now + 1 - ask[r].since < CallTime
  /\ probe = "asked" => now + 1 - probed_at < CallTime
  /\ now' = now + 1
  /\ UNCHANGED <<session, visible, decorated, ask, probe, probed_at, calls, outcome>>

\* Mutant: the deadline is put on the fan-out only.
DeadlinePassesInFanOut ==
  /\ Running /\ now >= Deadline
  /\ ask[Core].pc = "settled"
  /\ Raise("UPSTREAM_ERROR", "deadline")
  /\ UNCHANGED <<session, visible, decorated, ask, probe, probed_at, calls, now>>

\* asyncio.timeout cancels the fetch; its threads go on, to no effect.
DeadlinePasses ==
  /\ Running /\ now >= Deadline
  /\ Raise("UPSTREAM_ERROR", "deadline")
  /\ UNCHANGED <<session, visible, decorated, ask, probe, probed_at, calls, now>>

-----------------------------------------------------------------------------
CoreStep == \E p \in Replies : CoreRetried(p) \/ CoreRead(p) \/ CoreFailed(p)

SectionStep(s) == \E p \in Replies : SectionAnswered(s, p)

RefusalStep(r) ==
  (\E p \in Replies : Refused(r, p)) \/ ProbeSent(r) \/ RefusalSettled(r)

Next ==
  \/ CoreStep
  \/ \E s \in Sections : SectionStep(s)
  \/ FanIn
  \/ \E r \in Resources : RefusalStep(r)
  \/ \E p \in Replies : ProbeAnswered(p)
  \/ DeadlinePasses
  \/ SessionDies
  \/ Tick

Spec == Init /\ [][Next]_vars

\* What the event loop runs next, if there is anything.
Ready == FanIn \/ \E r \in Resources : ProbeSent(r) \/ RefusalSettled(r)

\* Time passes, and the event loop runs what is ready and fires its timer.
\* Nothing is assumed of LinkedIn or of the transport.
FairSpec == Spec /\ WF_vars(Tick) /\ WF_vars(Ready) /\ WF_vars(DeadlinePasses)

-----------------------------------------------------------------------------
(* What the handler makes of the outcome *)

\* ApiError.retryable: whether the cache may answer instead.
Retryable ==
  /\ outcome.code \in {"RATE_LIMITED", "UPSTREAM_CHALLENGE", "UPSTREAM_ERROR"}
  /\ outcome.cause # "member_mismatch"

-----------------------------------------------------------------------------
(* Properties *)

\* A 404 is about the member: it is never a dead cookie in disguise, although
\* LinkedIn refuses both with a 403 and the session may die between the
\* refusal and the probe.  (A reference to a profile that did not come along is
\* reported the same way, and says nothing of the member.)
NotFoundIsAboutTheMember ==
  /\ outcome.code = "PROFILE_NOT_FOUND"
  /\ ask[Core].reply.body # "unresolved"
  => ~visible

\* A cookie LinkedIn refused in so many words is reported, not covered by a
\* cached record, whatever page the refusal was delivered with and whatever the
\* probe made of it.  What the code does not promise: the deadline may pass
\* while the refused core call waits for the probe, or while other sections
\* than the refused one are under way, which leaves a timeout the cache may
\* cover; and of the sections' failures the first in their order is raised, so
\* that throttling or a challenge before it hides an expired session.
RefusalIsTold ==
  /\ /\ ask[Core].pc \in {"refused", "settled"}
     /\ ask[Core].reply.status \in {401, 403}
     /\ Retryable
     => outcome.cause = "deadline" /\ ask[Core].pc = "refused"
  /\ \A s \in Sections :
        /\ ask[s].pc = "settled" /\ Aborts(s)
        /\ SectionCode(s) = "SESSION_EXPIRED"
        /\ Retryable
        /\ outcome.cause # "deadline"
        => \E u \in 1..(s - 1) : Aborts(u) /\ SectionCode(u) # "SESSION_EXPIRED"

\* A 200 has no section in it that was lost to throttling, a wall, a bot verdict
\* or a 401, and one lost to a 403 only if `me` was answered with the cookie
\* during this fetch.  (That answer is remembered: a session that dies after it
\* can still cost the 200 a section, as no property can deny of this code.)
OnlyForgivableLosses ==
  outcome.code = "profile" =>
     \A s \in Sections :
        /\ ask[s].reply.status \notin {429, 401, 999}
        /\ ~ask[s].reply.walled
        /\ ask[s].reply.status = 403 => probe = "live"

\* The answer waits for every call it started: nothing of a fetch runs on
\* unobserved, unless the deadline abandoned it.
NothingRunsOn ==
  ~Running /\ outcome.cause # "deadline" =>
     InFlight = {} /\ probe # "asked"

\* Beyond one call per resource a fetch makes one for a refused decoration and
\* one for `me`, however many sections are refused at once.
CallsAccountedFor ==
  calls <= 1 + SectionCount + (IF decorated THEN 0 ELSE 1)
                            + (IF probe = "unused" THEN 0 ELSE 1)

\* Every fetch ends, though the transport ignore its own timeout.
FetchEnds == <>(outcome.code # "none")

\* The deadline only catches a wedged fetch: it does not fire while every call
\* keeps to its timeout (docs/limitations.md).
DeadlineOnlyWhenWedged == outcome.cause # "deadline"
=============================================================================
