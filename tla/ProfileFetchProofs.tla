------------------------- MODULE ProfileFetchProofs -------------------------
(***************************************************************************)
(* Theorems about ProfileFetch, for any number of sections, any timeout    *)
(* and any deadline.                                                       *)
(***************************************************************************)
EXTENDS ProfileFetch, TLAPS

\* The core call is over before the sections begin, and while it runs nothing
\* has been refused.
Phases ==
  /\ ask[Core].pc # "idle"
  /\ ask[Core].pc = "asked" => probe = "unused"
  /\ ask[Core].pc # "settled" => \A s \in Sections : ask[s].pc = "idle"
  /\ Running /\ ask[Core].pc = "settled" =>
       /\ ask[Core].reply.body = "asked_for"
       /\ \A s \in Sections : ask[s].pc # "idle"
  /\ probe = "asked" => \E r \in Resources : ask[r].pc = "refused"

\* A call that was answered has its reply, a refused one a 403 that is true.
Refusals ==
  /\ \A r \in Resources :
        /\ ask[r].pc \in {"refused", "settled"} => ask[r].reply \in Replies
        /\ ask[r].pc = "refused" => Reconsidered(ask[r].reply)
  /\ ask[Core].pc = "refused" => session = "dead" \/ ~visible
  /\ ask[Core].pc = "refused" /\ probe = "live" => ~visible

\* The sections' calls are not spent before the core call is over.
Budget ==
  calls <= 1 + (IF ask[Core].pc = "settled" THEN SectionCount ELSE 0)
             + (IF decorated THEN 0 ELSE 1)
             + (IF probe = "unused" THEN 0 ELSE 1)

Truthful == /\ NotFoundIsAboutTheMember /\ RefusalIsTold
            /\ OnlyForgivableLosses /\ NothingRunsOn

Inv == TypeOK /\ Phases /\ Refusals /\ Budget /\ Truthful

-----------------------------------------------------------------------------
(* Facts about replies *)

\* A readable body comes with a 200 that is no wall.
LEMMA BodyFacts ==
  ASSUME NEW p \in Replies, p.body # "none"
  PROVE  p.status = 200 /\ ~p.walled
BY DEF Replies

\* Core is none of the sections.
LEMMA CoreIsNoSection == Core \in Resources /\ Core \notin Sections
                           /\ Sections \subseteq Resources
BY ConstantsAssumption DEF Core, Sections, Resources

\* Classification yields a code, and only a 404 that is no wall a missing
\* profile.
LEMMA ClassifiedFacts ==
  ASSUME NEW p \in Replies
  PROVE  /\ Classified(p, FALSE) \in ErrorCodes
         /\ Classified(p, FALSE) = "PROFILE_NOT_FOUND" =>
              p.status = 404 /\ ~p.walled
         /\ p.status \in {401, 403} => Classified(p, FALSE) = "SESSION_EXPIRED"
BY DEF Classified, ErrorCodes

\* What happens to the account is systemic.
LEMMA AccountIsSystemic ==
  ASSUME NEW p \in Replies, ~Reconsidered(p),
         p.status \in {429, 401, 999} \/ p.walled
  PROVE  Classified(p, FALSE) \in Systemic
BY DEF Classified, Systemic, Reconsidered

\* While the fetch runs, nothing has been claimed of its outcome.
LEMMA RunningIsTruthful == Running => Truthful
BY DEF Running, Truthful, NotFoundIsAboutTheMember, RefusalIsTold,
       OnlyForgivableLosses, NothingRunsOn, Retryable

-----------------------------------------------------------------------------
\* The first call, undecided.
LEMMA InvInit == Init => Inv
<1> SUFFICES ASSUME Init PROVE Inv
  OBVIOUS
<1> USE CoreIsNoSection
<1>1. TypeOK
  <2>1. Unasked \in Ask /\ [Unasked EXCEPT !.pc = "asked"] \in Ask
    BY DEF Unasked, Ask
  <2>2. ask \in [Resources -> Ask]
    BY <2>1 DEF Init
  <2>3. outcome \in Outcome
    BY DEF Init, Outcome
  <2> QED BY <2>2, <2>3 DEF Init, TypeOK
<1>2. /\ ask[Core].pc = "asked" /\ \A s \in Sections : ask[s].pc = "idle"
  BY DEF Init, Unasked
<1>3. Phases /\ Refusals /\ Budget
  BY <1>2, ConstantsAssumption DEF Init, Phases, Refusals, Budget, Resources
<1>4. Running
  BY DEF Init, Running
<1> QED BY <1>1, <1>3, <1>4, RunningIsTruthful DEF Inv

-----------------------------------------------------------------------------
(* The core call *)

\* The undecorated request spends the call the decoration is granted.
LEMMA RetryStep == ASSUME Inv, NEW p \in Replies, CoreRetried(p) PROVE Inv'
<1> USE CoreIsNoSection
<1>1. Asked \in Ask /\ Asked.pc = "asked"
  BY DEF Asked, Ask, Inv, TypeOK
<1>2. /\ ask' = [ask EXCEPT ![Core] = Asked] /\ ask \in [Resources -> Ask]
      /\ ask[Core].pc = "asked" /\ probe = "unused"
  BY DEF CoreRetried, Inv, TypeOK, Phases
<1>3. ask'[Core] = Asked /\ \A s \in Sections : ask'[s] = ask[s]
  BY <1>2
<1>4. TypeOK'
  <2>1. decorated' \in BOOLEAN
    BY DEF CoreRetried
  <2>2. ask' \in [Resources -> Ask] /\ calls' \in Nat
    BY <1>1, <1>2 DEF CoreRetried, Inv, TypeOK
  <2> QED BY <2>1, <2>2 DEF CoreRetried, Inv, TypeOK
<1>5. Phases'
  BY <1>1, <1>2, <1>3 DEF CoreRetried, Inv, Phases, Running
<1>6. Refusals'
  BY <1>1, <1>3 DEF CoreRetried, Inv, Refusals, Resources
<1>7. Budget'
  BY <1>1, <1>2, <1>3, ConstantsAssumption DEF CoreRetried, Inv, TypeOK, Budget
<1>8. Running'
  BY DEF CoreRetried, Running
<1>9. Truthful'
  BY <1>8, RunningIsTruthful, PTL
<1> QED BY <1>4, <1>5, <1>6, <1>7, <1>9 DEF Inv

\* Reading the core profile asks for every section.
LEMMA ReadStep == ASSUME Inv, NEW p \in Replies, CoreRead(p) PROVE Inv'
<1> USE CoreIsNoSection
<1> DEFINE done == [ask[Core] EXCEPT !.pc = "settled", !.reply = p]
<1>1. /\ ask' = [r \in Resources |-> IF r = Core THEN done ELSE Asked]
      /\ ask \in [Resources -> Ask] /\ ask[Core].pc = "asked"
      /\ probe = "unused" /\ p.body = "asked_for"
  BY DEF CoreRead, Inv, TypeOK, Phases
<1>2. Asked \in Ask /\ Asked.pc = "asked" /\ Asked.reply = None
  BY DEF Asked, Ask, Inv, TypeOK
<1>3. done \in Ask /\ done.pc = "settled" /\ done.reply = p
  BY <1>1 DEF Ask
<1>4. ask'[Core] = done /\ \A s \in Sections : ask'[s] = Asked
  BY <1>1
<1>5. TypeOK'
  BY <1>1, <1>2, <1>3, ConstantsAssumption DEF CoreRead, Inv, TypeOK
<1>6. Phases'
  BY <1>1, <1>2, <1>3, <1>4 DEF CoreRead, Phases
<1>7. Refusals'
  BY <1>2, <1>3, <1>4 DEF Refusals, Resources
<1>8. Budget'
  <2>1. ask'[Core].pc = "settled" /\ calls' = calls + SectionCount
    BY <1>3, <1>4 DEF CoreRead
  <2> QED BY <1>1, <2>1, ConstantsAssumption DEF CoreRead, Inv, TypeOK, Budget
<1>9. Running'
  BY DEF CoreRead, Running
<1>10. Truthful'
  BY <1>9, RunningIsTruthful, PTL
<1> QED BY <1>5, <1>6, <1>7, <1>8, <1>10 DEF Inv

\* A failed core call ends the fetch, before anything else was sent.
LEMMA FailStep == ASSUME Inv, NEW p \in Replies, CoreFailed(p) PROVE Inv'
<1> USE CoreIsNoSection
<1> DEFINE done == [ask[Core] EXCEPT !.pc = "settled", !.reply = p]
<1>1. /\ ask' = [ask EXCEPT ![Core] = done]
      /\ ask \in [Resources -> Ask] /\ ask[Core].pc = "asked"
      /\ probe = "unused" /\ MayReply(Core, p) /\ ~Reconsidered(p)
      /\ UNCHANGED <<session, visible, decorated, probe, probed_at, calls, now>>
  BY DEF CoreFailed, Inv, TypeOK, Phases
<1>2. done \in Ask /\ done.pc = "settled" /\ done.reply = p
  BY <1>1 DEF Ask
<1>3. ask'[Core] = done /\ \A s \in Sections : ask'[s] = ask[s]
  BY <1>1
<1>4. \A s \in Sections : ask'[s].pc = "idle"
  BY <1>1, <1>3 DEF Inv, Phases
<1>5. /\ outcome' \in Outcome /\ ~Running'
      /\ outcome'.code # "profile"
      /\ outcome'.code = "PROFILE_NOT_FOUND" =>
           \/ p.body \in {"empty", "unresolved"}
           \/ p.status = 404 /\ ~p.walled
      /\ p.status \in {401, 403} => outcome'.code = "SESSION_EXPIRED"
  <2>1. CASE p.body \in {"empty", "unresolved"}
    BY <2>1, BodyFacts DEF CoreFailed, Raise, Outcome, Running, ErrorCodes
  <2>2. CASE p.body = "stranger"
    BY <2>2, BodyFacts DEF CoreFailed, Raise, Outcome, Running, ErrorCodes
  <2>3. CASE p.body \notin {"empty", "unresolved", "stranger"}
    <3> DEFINE code == Classified(p, FALSE)
    <3>1. outcome' = [code |-> code, cause |-> "none"]
      BY <2>3 DEF CoreFailed, Raise
    <3>2. /\ code \in ErrorCodes
          /\ code = "PROFILE_NOT_FOUND" => p.status = 404 /\ ~p.walled
          /\ p.status \in {401, 403} => code = "SESSION_EXPIRED"
      BY ClassifiedFacts
    <3> HIDE DEF code
    <3> QED BY <3>1, <3>2 DEF Outcome, Running, ErrorCodes
  <2> QED BY <2>1, <2>2, <2>3
<1>6. TypeOK'
  BY <1>1, <1>2, <1>5 DEF Inv, TypeOK
<1>7. Phases'
  BY <1>1, <1>2, <1>3, <1>5 DEF Inv, Phases
<1>8. Refusals'
  BY <1>2, <1>3 DEF Inv, Refusals, Resources
<1>9. Budget'
  BY <1>1, <1>2, <1>3, ConstantsAssumption DEF Inv, TypeOK, Budget
<1>10. Truthful'
  <2>1. NotFoundIsAboutTheMember'
    BY <1>1, <1>2, <1>3, <1>5 DEF NotFoundIsAboutTheMember, MayReply
  <2>2. RefusalIsTold'
    BY <1>2, <1>3, <1>4, <1>5 DEF RefusalIsTold, Retryable
  <2>3. OnlyForgivableLosses' /\ NothingRunsOn'
    BY <1>1, <1>2, <1>3, <1>4, <1>5
       DEF OnlyForgivableLosses, NothingRunsOn, InFlight, Resources
  <2> QED BY <2>1, <2>2, <2>3 DEF Truthful
<1> QED BY <1>6, <1>7, <1>8, <1>9, <1>10 DEF Inv

-----------------------------------------------------------------------------
(* The sections, and the calls refused *)

\* A section that is anything but unasked has the core call behind it.
LEMMA SectionAfterCore ==
  ASSUME Inv, NEW s \in Sections, ask[s].pc # "idle"
  PROVE  ask[Core].pc = "settled"
BY DEF Inv, Phases

\* A section is answered.
LEMMA SectionAnsweredStep ==
  ASSUME Inv, NEW s \in Sections, NEW p \in Replies, SectionAnswered(s, p)
  PROVE  Inv'
<1> USE CoreIsNoSection
<1> DEFINE done == [ask[s] EXCEPT !.pc = "settled", !.reply = p]
<1>1. /\ ask' = [ask EXCEPT ![s] = done]
      /\ ask \in [Resources -> Ask] /\ ask[s].pc = "asked"
      /\ UNCHANGED <<session, visible, decorated, probe, probed_at, calls, now,
                     outcome>>
  BY DEF SectionAnswered, Inv, TypeOK
<1>2. done \in Ask /\ done.pc = "settled" /\ done.reply = p
  BY <1>1 DEF Ask
<1>3. ask'[s] = done /\ \A r \in Resources \ {s} : ask'[r] = ask[r]
  BY <1>1
<1>4. ask[Core].pc = "settled" /\ ask'[Core] = ask[Core]
  BY <1>1, <1>3, SectionAfterCore
<1>5. TypeOK'
  BY <1>1, <1>2 DEF Inv, TypeOK
<1>6. Phases'
  BY <1>1, <1>2, <1>3, <1>4 DEF Inv, Phases, Running
<1>7. Refusals'
  BY <1>1, <1>2, <1>3, <1>4 DEF Inv, Refusals
<1>8. Budget'
  BY <1>1, <1>4 DEF Inv, Budget
<1>9. Running'
  BY <1>1 DEF SectionAnswered, Running
<1>10. Truthful'
  BY <1>9, RunningIsTruthful, PTL
<1> QED BY <1>5, <1>6, <1>7, <1>8, <1>10 DEF Inv

\* A call is refused with a 403.
LEMMA RefusedStep ==
  ASSUME Inv, NEW r \in Resources, NEW p \in Replies, Refused(r, p)
  PROVE  Inv'
<1> USE CoreIsNoSection
<1> DEFINE done == [ask[r] EXCEPT !.pc = "refused", !.reply = p]
<1>1. /\ ask' = [ask EXCEPT ![r] = done]
      /\ ask \in [Resources -> Ask] /\ ask[r].pc = "asked"
      /\ Reconsidered(p) /\ MayReply(r, p)
      /\ UNCHANGED <<session, visible, decorated, probe, probed_at, calls, now,
                     outcome>>
  BY DEF Refused, Inv, TypeOK
<1>2. done \in Ask /\ done.pc = "refused" /\ done.reply = p
  BY <1>1 DEF Ask
<1>3. ask'[r] = done /\ \A q \in Resources \ {r} : ask'[q] = ask[q]
  BY <1>1
<1>4. r # Core => ask[Core].pc = "settled" /\ ask'[Core] = ask[Core]
  BY <1>1, <1>3, SectionAfterCore DEF Resources
<1>5. r = Core => /\ probe = "unused"
                  /\ session = "dead" \/ ~visible
                  /\ \A s \in Sections : ask'[s].pc = "idle"
  BY <1>1, <1>3 DEF Inv, Phases, MayReply, Reconsidered
<1>6. TypeOK'
  BY <1>1, <1>2 DEF Inv, TypeOK
<1>7. Phases'
  <2>1. CASE r = Core
    BY <2>1, <1>1, <1>2, <1>3, <1>5 DEF Inv, Phases
  <2>2. CASE r # Core
    BY <2>2, <1>1, <1>2, <1>3, <1>4 DEF Inv, Phases, Running
  <2> QED BY <2>1, <2>2
<1>8. Refusals'
  <2>1. CASE r = Core
    BY <2>1, <1>1, <1>2, <1>3, <1>5 DEF Inv, Refusals
  <2>2. CASE r # Core
    BY <2>2, <1>1, <1>2, <1>3, <1>4 DEF Inv, Refusals
  <2> QED BY <2>1, <2>2
<1>9. Budget'
  <2>1. CASE r = Core
    BY <2>1, <1>1, <1>2, <1>3 DEF Inv, Budget
  <2>2. CASE r # Core
    BY <2>2, <1>1, <1>4 DEF Inv, Budget
  <2> QED BY <2>1, <2>2
<1>10. Running'
  BY <1>1 DEF Refused, Running
<1>11. Truthful'
  BY <1>10, RunningIsTruthful, PTL
<1> QED BY <1>6, <1>7, <1>8, <1>9, <1>11 DEF Inv

\* The probe is sent once, and is the call it is granted.
LEMMA ProbeSentStep ==
  ASSUME Inv, NEW r \in Resources, ProbeSent(r) PROVE Inv'
<1> USE CoreIsNoSection
<1>1. /\ ask' = ask /\ ask[r].pc = "refused" /\ probe = "unused"
      /\ probe' = "asked" /\ calls' = calls + 1 /\ probed_at' = now
      /\ UNCHANGED <<session, visible, decorated, now, outcome>>
  BY DEF ProbeSent
<1>2. ask[Core].pc # "asked"
  BY <1>1 DEF Inv, Phases, Resources
<1>3. TypeOK'
  BY <1>1 DEF Inv, TypeOK
<1>4. Phases'
  BY <1>1, <1>2 DEF Inv, Phases, Running
<1>5. Refusals'
  BY <1>1 DEF Inv, Refusals
<1>6. Budget'
  BY <1>1, ConstantsAssumption DEF Inv, TypeOK, Budget
<1>7. Running'
  BY <1>1 DEF ProbeSent, Running
<1>8. Truthful'
  BY <1>7, RunningIsTruthful, PTL
<1> QED BY <1>3, <1>4, <1>5, <1>6, <1>8 DEF Inv

\* The probe comes back: "live" was true when it was said, so a 403 that came
\* before it was not about the session.
LEMMA ProbeAnsweredStep ==
  ASSUME Inv, NEW p \in Replies, ProbeAnswered(p) PROVE Inv'
<1>1. /\ ask' = ask /\ probe = "asked" /\ probe' = ProbeVerdict(p)
      /\ MayReplyToMe(p)
      /\ UNCHANGED <<session, visible, decorated, probed_at, calls, now, outcome>>
  BY DEF ProbeAnswered
<1>2. /\ probe' \in {"live", "dead", "unclear"}
      /\ probe' = "live" => session = "live"
  BY <1>1 DEF ProbeVerdict, MayReplyToMe
<1>3. TypeOK'
  BY <1>1, <1>2 DEF Inv, TypeOK
<1>4. Phases'
  BY <1>1, <1>2 DEF Inv, Phases, Running
<1>5. Refusals'
  BY <1>1, <1>2 DEF Inv, Refusals
<1>6. Budget'
  BY <1>1, <1>2 DEF Inv, Budget
<1>7. Running'
  BY <1>1 DEF ProbeAnswered, Running
<1>8. Truthful'
  BY <1>7, RunningIsTruthful, PTL
<1> QED BY <1>3, <1>4, <1>5, <1>6, <1>8 DEF Inv

\* A refusal is settled by the probe; on the core call that ends the fetch.
LEMMA SettledStep ==
  ASSUME Inv, NEW r \in Resources, RefusalSettled(r) PROVE Inv'
<1> USE CoreIsNoSection
<1> DEFINE done == [ask[r] EXCEPT !.pc = "settled"]
<1>1. /\ ask' = [ask EXCEPT ![r] = done] /\ ask \in [Resources -> Ask]
      /\ ask[r].pc = "refused" /\ probe \in {"live", "dead", "unclear"}
      /\ UNCHANGED <<session, visible, decorated, probe, probed_at, calls, now>>
  BY DEF RefusalSettled, Inv, TypeOK
<1>2. done \in Ask /\ done.pc = "settled" /\ done.reply = ask[r].reply
  BY <1>1 DEF Ask
<1>3. ask'[r] = done /\ \A q \in Resources \ {r} : ask'[q] = ask[q]
  BY <1>1
<1>4. ask[r].reply \in Replies /\ Reconsidered(ask[r].reply)
  BY <1>1 DEF Inv, Refusals
<1>5. Refusals'
  BY <1>1, <1>2, <1>3, <1>4 DEF Inv, Refusals
<1>6. CASE r # Core
  <2>1. /\ ask[Core].pc = "settled" /\ ask'[Core] = ask[Core]
        /\ outcome' = outcome
    BY <1>1, <1>3, <1>6, SectionAfterCore DEF Resources, RefusalSettled
  <2>2. TypeOK' /\ Phases' /\ Budget'
    BY <1>1, <1>2, <1>3, <2>1 DEF Inv, TypeOK, Phases, Budget, Running
  <2>3. Running'
    BY <2>1 DEF RefusalSettled, Running
  <2>4. Truthful'
    BY <2>3, RunningIsTruthful, PTL
  <2> QED BY <1>5, <2>2, <2>4 DEF Inv
<1>7. CASE r = Core
  <2>1. outcome' = [code |-> AfterProbe, cause |-> "none"]
    BY <1>7 DEF RefusalSettled, Raise
  <2>2. /\ AfterProbe \in {"PROFILE_NOT_FOUND", "SESSION_EXPIRED"}
        /\ AfterProbe = "PROFILE_NOT_FOUND" => probe = "live"
    BY DEF AfterProbe
  <2>3. \A s \in Sections : ask'[s].pc = "idle"
    BY <1>1, <1>3, <1>7 DEF Inv, Phases
  <2>4. outcome' \in Outcome /\ ~Running' /\ outcome'.code # "profile"
    BY <2>1, <2>2 DEF Outcome, ErrorCodes, Running
  <2>5. TypeOK'
    BY <1>1, <1>2, <2>4 DEF Inv, TypeOK
  <2>6. Phases'
    BY <1>1, <1>2, <1>3, <1>7, <2>4 DEF Phases
  <2>7. Budget'
    BY <1>1, <1>2, <1>3, <1>7, ConstantsAssumption DEF Inv, TypeOK, Budget
  <2>8. NotFoundIsAboutTheMember'
    BY <1>1, <1>7, <2>1, <2>2 DEF NotFoundIsAboutTheMember, Inv, Refusals
  <2>9. RefusalIsTold'
    BY <2>1, <2>2, <2>3 DEF RefusalIsTold, Retryable
  <2>10. OnlyForgivableLosses' /\ NothingRunsOn'
    BY <1>1, <1>2, <1>3, <1>7, <2>3, <2>4
       DEF OnlyForgivableLosses, NothingRunsOn, InFlight, Resources
  <2> QED BY <1>5, <2>5, <2>6, <2>7, <2>8, <2>9, <2>10 DEF Inv, Truthful
<1> QED BY <1>6, <1>7

\* gather has every result: none of them is running, and a profile comes of it
\* only if none of them was about the account.
LEMMA FanInStep == ASSUME Inv, FanIn PROVE Inv'
<1> USE CoreIsNoSection
<1>1. /\ UNCHANGED <<session, visible, decorated, ask, probe, probed_at, calls, now>>
      /\ Running /\ ask[Core].pc = "settled"
      /\ \A s \in Sections : ask[s].pc = "settled"
  BY DEF FanIn
<1>2. /\ outcome' \in Outcome /\ ~Running'
      /\ outcome'.code # "PROFILE_NOT_FOUND"
      /\ outcome'.code = "profile" => \A s \in Sections : ~Aborts(s)
  <2>1. CASE (\A s \in Sections : ~Aborts(s)) /\ Raise("profile", "none")
    BY <2>1 DEF Raise, Outcome, Running
  <2>2. CASE \E s \in Sections : Aborts(s) /\ Raise(SectionCode(s), "none")
    <3>1. PICK s \in Sections : Aborts(s) /\ Raise(SectionCode(s), "none")
      BY <2>2
    <3> DEFINE code == SectionCode(s)
    <3>2. outcome' = [code |-> code, cause |-> "none"] /\ code \in Systemic
      BY <3>1 DEF Raise, Aborts
    <3> HIDE DEF code
    <3> QED BY <3>2 DEF Outcome, Running, Systemic, ErrorCodes
  <2> QED BY <2>1, <2>2 DEF FanIn
<1>3. TypeOK' /\ Phases' /\ Refusals' /\ Budget'
  BY <1>1, <1>2 DEF Inv, TypeOK, Phases, Refusals, Budget
<1>4. NotFoundIsAboutTheMember'
  BY <1>2 DEF NotFoundIsAboutTheMember
<1>5. RefusalIsTold'
  <2>1. ask[Core].reply \in Replies /\ ask[Core].reply.body = "asked_for"
    BY <1>1 DEF Inv, Phases, Refusals
  <2>2. ask[Core].reply.status = 200
    BY <2>1, BodyFacts
  <2>3. ASSUME NEW s \in Sections, Aborts(s),
               SectionCode(s) = "SESSION_EXPIRED", Retryable'
        PROVE  \E u \in 1..(s - 1) : Aborts(u) /\ SectionCode(u) # "SESSION_EXPIRED"
    <3>1. PICK u \in Sections :
            /\ Aborts(u) /\ \A w \in 1..(u - 1) : ~Aborts(w)
            /\ Raise(SectionCode(u), "none")
      BY <2>3 DEF FanIn, Raise, Retryable
    <3> DEFINE code == SectionCode(u)
    <3>2. outcome' = [code |-> code, cause |-> "none"]
      BY <3>1 DEF Raise
    <3> HIDE DEF code
    <3>3. code # "SESSION_EXPIRED"
      BY <2>3, <3>2 DEF Retryable
    <3>4. SectionCode(u) # "SESSION_EXPIRED"
      BY <3>3 DEF code
    <3>5. s # u /\ ~(s \in 1..(u - 1))
      BY <2>3, <3>1, <3>4
    <3>6. u \in 1..(s - 1)
      BY <3>5, ConstantsAssumption DEF Sections
    <3> QED BY <3>1, <3>4, <3>6
  <2>4. \A s \in Sections : /\ Aborts(s)' = Aborts(s)
                            /\ SectionCode(s)' = SectionCode(s)
                            /\ \A u \in 1..(s - 1) : /\ Aborts(u)' = Aborts(u)
                                                     /\ SectionCode(u)' = SectionCode(u)
    BY <1>1 DEF Aborts, SectionOk, SectionCode, AfterProbe
  <2>5. ASSUME NEW s \in Sections, Aborts(s)',
               SectionCode(s)' = "SESSION_EXPIRED", Retryable'
        PROVE  \E u \in 1..(s - 1) : Aborts(u)' /\ SectionCode(u)' # "SESSION_EXPIRED"
    <3>1. PICK u \in 1..(s - 1) : Aborts(u) /\ SectionCode(u) # "SESSION_EXPIRED"
      BY <2>3, <2>4, <2>5
    <3> QED BY <3>1, <2>4
  <2> QED BY <1>1, <2>2, <2>5 DEF RefusalIsTold
<1>6. OnlyForgivableLosses'
  <2> SUFFICES ASSUME NEW s \in Sections, ~Aborts(s)
               PROVE  /\ ask[s].reply.status \notin {429, 401, 999}
                      /\ ~ask[s].reply.walled
                      /\ ask[s].reply.status = 403 => probe = "live"
    BY <1>1, <1>2 DEF OnlyForgivableLosses
  <2> DEFINE p == ask[s].reply
  <2>1. p \in Replies
    BY <1>1 DEF Inv, Refusals
  <2>2. CASE SectionOk(s)
    BY <2>1, <2>2, BodyFacts DEF SectionOk
  <2>3. CASE ~SectionOk(s) /\ Reconsidered(p)
    <3>1. AfterProbe \notin Systemic
      BY <2>3 DEF Aborts, SectionCode
    <3>2. probe = "live"
      BY <3>1 DEF AfterProbe, Systemic
    <3> QED BY <2>3, <3>2 DEF Reconsidered
  <2>4. CASE ~SectionOk(s) /\ ~Reconsidered(p)
    <3>1. Classified(p, FALSE) \notin Systemic
      BY <2>4 DEF Aborts, SectionCode
    <3>2. ~Reconsidered(p)
      BY <2>4
    <3> HIDE DEF p
    <3>3. ~(p.status \in {429, 401, 999} \/ p.walled)
      BY <2>1, <3>1, <3>2, AccountIsSystemic
    <3>4. p.status # 403
      BY <3>2, <3>3 DEF Reconsidered
    <3> QED BY <3>3, <3>4 DEF p
  <2> QED BY <2>2, <2>3, <2>4
<1>7. NothingRunsOn'
  BY <1>1 DEF NothingRunsOn, InFlight, Inv, Phases, Resources
<1> QED BY <1>3, <1>4, <1>5, <1>6, <1>7 DEF Inv, Truthful

-----------------------------------------------------------------------------
(* Time, and the truth changing *)

\* The deadline makes no claim.
LEMMA DeadlineStep == ASSUME Inv, DeadlinePasses PROVE Inv'
<1>1. /\ UNCHANGED <<session, visible, decorated, ask, probe, probed_at, calls, now>>
      /\ outcome' = [code |-> "UPSTREAM_ERROR", cause |-> "deadline"]
  BY DEF DeadlinePasses, Raise
<1>2. TypeOK' /\ Phases' /\ Refusals' /\ Budget'
  BY <1>1 DEF Inv, TypeOK, Phases, Refusals, Budget, Outcome, ErrorCodes, Running
<1>3. ~(ask[Core].pc = "settled" /\ ask[Core].reply.status \in {401, 403})
  BY BodyFacts, CoreIsNoSection DEF DeadlinePasses, Inv, Phases, Refusals
<1>4. Truthful'
  BY <1>1, <1>3 DEF Truthful, NotFoundIsAboutTheMember, RefusalIsTold,
              OnlyForgivableLosses, NothingRunsOn
<1> QED BY <1>2, <1>4 DEF Inv

\* A session that dies takes no earlier refusal's ground away.
LEMMA DiesStep == ASSUME Inv, SessionDies PROVE Inv'
<1>1. /\ UNCHANGED <<visible, decorated, ask, probe, probed_at, calls, now, outcome>>
      /\ session' = "dead" /\ Running
  BY DEF SessionDies
<1>2. TypeOK' /\ Phases' /\ Refusals' /\ Budget'
  BY <1>1 DEF Inv, TypeOK, Phases, Refusals, Budget, Running
<1>3. Running'
  BY <1>1 DEF Running
<1>4. Truthful'
  BY <1>3, RunningIsTruthful, PTL
<1> QED BY <1>2, <1>4 DEF Inv

\* Time changes nothing but the clock.
LEMMA TickStep == ASSUME Inv, Tick PROVE Inv'
<1>1. /\ UNCHANGED <<session, visible, decorated, ask, probe, probed_at, calls, outcome>>
      /\ now' = now + 1 /\ Running
  BY DEF Tick
<1>2. TypeOK' /\ Phases' /\ Refusals' /\ Budget'
  BY <1>1 DEF Inv, TypeOK, Phases, Refusals, Budget, Running
<1>3. Running'
  BY <1>1 DEF Running
<1>4. Truthful'
  BY <1>3, RunningIsTruthful, PTL
<1> QED BY <1>2, <1>4 DEF Inv

-----------------------------------------------------------------------------
\* Every step preserves the invariant.
LEMMA InvStep == Inv /\ [Next]_vars => Inv'
<1> SUFFICES ASSUME Inv, [Next]_vars PROVE Inv'
  OBVIOUS
<1>1. CASE CoreStep
  BY <1>1, RetryStep, ReadStep, FailStep DEF CoreStep
<1>2. CASE \E s \in Sections : SectionStep(s)
  BY <1>2, SectionAnsweredStep DEF SectionStep
<1>3. CASE FanIn
  BY <1>3, FanInStep
<1>4. CASE \E r \in Resources : RefusalStep(r)
  BY <1>4, RefusedStep, ProbeSentStep, SettledStep DEF RefusalStep
<1>5. CASE \E p \in Replies : ProbeAnswered(p)
  BY <1>5, ProbeAnsweredStep
<1>6. CASE DeadlinePasses \/ SessionDies \/ Tick
  BY <1>6, DeadlineStep, DiesStep, TickStep
<1>7. CASE UNCHANGED vars
  <2>1. TypeOK' /\ Phases' /\ Refusals' /\ Budget'
    BY <1>7 DEF vars, Inv, TypeOK, Phases, Refusals, Budget, Running
  <2>2. \A s \in Sections : /\ Aborts(s)' = Aborts(s)
                            /\ SectionCode(s)' = SectionCode(s)
                            /\ \A u \in 1..(s - 1) : /\ Aborts(u)' = Aborts(u)
                                                     /\ SectionCode(u)' = SectionCode(u)
    BY <1>7 DEF vars, Aborts, SectionOk, SectionCode, AfterProbe
  <2>3. RefusalIsTold /\ Retryable' = Retryable
    BY <1>7 DEF vars, Inv, Truthful, Retryable
  <2>4. RefusalIsTold'
    BY <1>7, <2>2, <2>3 DEF vars, RefusalIsTold
  <2>5. NotFoundIsAboutTheMember' /\ OnlyForgivableLosses' /\ NothingRunsOn'
    BY <1>7 DEF vars, Inv, Truthful, Running, NotFoundIsAboutTheMember,
       OnlyForgivableLosses, NothingRunsOn, InFlight
  <2> QED BY <2>1, <2>4, <2>5 DEF Inv, Truthful
<1> QED BY <1>1, <1>2, <1>3, <1>4, <1>5, <1>6, <1>7 DEF Next

\* The invariant holds in every state of a fetch.
THEOREM InvCorrect == Spec => []Inv
BY InvInit, InvStep, PTL DEF Spec

\* Every variable keeps its type.
THEOREM TypeCorrect == Spec => []TypeOK
<1>1. Inv => TypeOK
  BY DEF Inv
<1> QED BY <1>1, InvCorrect, PTL

\* A 404 is never a dead cookie in disguise.
THEOREM NotFoundCorrect == Spec => []NotFoundIsAboutTheMember
<1>1. Inv => NotFoundIsAboutTheMember
  BY DEF Inv, Truthful
<1> QED BY <1>1, InvCorrect, PTL

\* A refused cookie is reported, unless the deadline ends the wait for the probe
\* or for other sections, or an earlier section's failure is raised instead.
THEOREM RefusalTold == Spec => []RefusalIsTold
<1>1. Inv => RefusalIsTold
  BY DEF Inv, Truthful
<1> QED BY <1>1, InvCorrect, PTL

\* A 200 has no section in it lost to throttling, a wall, a bot verdict or a 401,
\* and one lost to a 403 only where `me` had answered with the cookie.
THEOREM LossesForgivable == Spec => []OnlyForgivableLosses
<1>1. Inv => OnlyForgivableLosses
  BY DEF Inv, Truthful
<1> QED BY <1>1, InvCorrect, PTL

\* Nothing of a fetch runs on unobserved.
THEOREM FanInComplete == Spec => []NothingRunsOn
<1>1. Inv => NothingRunsOn
  BY DEF Inv, Truthful
<1> QED BY <1>1, InvCorrect, PTL

\* One call per resource, one for the decoration, one for the probe.
THEOREM CallBudget == Spec => []CallsAccountedFor
<1>1. Inv => CallsAccountedFor
  BY ConstantsAssumption DEF Inv, TypeOK, Budget, CallsAccountedFor
<1> QED BY <1>1, InvCorrect, PTL

-----------------------------------------------------------------------------
(* No fetch waits in vain *)

\* What a fetch that is not over waits for is a call or the probe, on its way.
AwaitsLinkedIn == Running /\ Waiting => InFlight # {} \/ probe = "asked"

LEMMA SomethingAwaited ==
  ASSUME Inv, Running, Waiting
  PROVE  InFlight # {} \/ probe = "asked"
<1>1. ask[Core].pc \in {"asked", "refused", "settled"}
  BY CoreIsNoSection DEF Inv, TypeOK, Ask, Phases
<1>2. CASE ask[Core].pc = "asked"
  BY <1>2, CoreIsNoSection DEF InFlight
<1>3. CASE ask[Core].pc = "refused"
  BY <1>3, CoreIsNoSection DEF Waiting
<1>4. CASE ask[Core].pc = "settled"
  <2>1. PICK s \in Sections : ask[s].pc # "settled"
    BY <1>4 DEF Waiting
  <2>2. s \in Resources /\ ask[s].pc \in {"asked", "refused"}
    BY <1>4, <2>1, CoreIsNoSection DEF Inv, TypeOK, Ask, Phases
  <2> QED BY <2>2 DEF InFlight, Waiting
<1> QED BY <1>1, <1>2, <1>3, <1>4

\* No task waits for a probe nobody sent, for a lock nobody holds, or for tasks
\* that wait for it: what a fetch waits for is always LinkedIn, so that the
\* transport's timeouts, or the deadline, end it.
THEOREM NeverStuck == Spec => []AwaitsLinkedIn
<1>1. Inv => AwaitsLinkedIn
  BY SomethingAwaited DEF AwaitsLinkedIn
<1> QED BY <1>1, InvCorrect, PTL

-----------------------------------------------------------------------------
(* The deadline and the calls that can follow each other *)

\* Ticks that pass at most before a call is over.
Longest == CallTime - 1

\* What the calls made one after the other may have taken before those in
\* flight were sent: a refused decorated call, and the core call.
Spent == (IF decorated THEN 0 ELSE Longest)
           + (IF ask[Core].pc = "settled" THEN Longest ELSE 0)

\* When the calls in flight were sent, how late each can be, and the probe
\* after them.
Timely ==
  Running =>
    /\ now <= Spent + 2 * Longest
    /\ probe = "unused" => now <= Spent + Longest
    /\ probe = "asked" => probed_at <= Spent + Longest /\ now <= probed_at + Longest
    /\ \A r \in Resources :
         ask[r].pc = "asked" => ask[r].since <= Spent /\ now <= ask[r].since + Longest

\* A fetch the deadline ended had its decoration refused, and after the core
\* profile a section refused as well: each cost a call more.
DeadlineAfterRefusals ==
  outcome.cause = "deadline" =>
    ~decorated /\ ask[Core].pc = "settled" /\ probe # "unused"

\* A fetch that runs has no cause yet.
Undecided == Running => outcome.cause = "none"

\* No fetch outlasts four calls.
FourCalls == now <= 4 * Longest

\* The clock, the calls and the probe's time are numbers.
LEMMA TimeTypes ==
  ASSUME 0 < CallTime, Inv
  PROVE  /\ now \in Nat /\ probed_at \in Nat
         /\ ask \in [Resources -> Ask]
         /\ \A r \in Resources : ask[r].since \in Nat
         /\ Longest \in Nat /\ CallTime = Longest + 1 /\ Deadline \in Nat
         /\ Spent \in Nat
BY ConstantsAssumption DEF Inv, TypeOK, Ask, Longest, Spent

\* The first call begins with the fetch.
LEMMA TimelyInit == ASSUME 0 < CallTime, Init PROVE Timely
<1>1. Longest \in Nat
  BY ConstantsAssumption DEF Longest
<1>2. /\ now = 0 /\ probe = "unused" /\ decorated /\ ask[Core].pc = "asked"
      /\ \A r \in Resources : ask[r].since = 0
  BY CoreIsNoSection DEF Init, Unasked
<1> QED BY <1>1, <1>2 DEF Timely, Spent

\* The undecorated call begins when the decorated one is over.
LEMMA RetryTimely ==
  ASSUME 0 < CallTime, Inv, Timely, NEW p \in Replies, CoreRetried(p)
  PROVE  Timely'
<1>1. /\ ask' = [ask EXCEPT ![Core] = Asked] /\ ask[Core].pc = "asked"
      /\ Running /\ decorated /\ ~decorated'
      /\ UNCHANGED <<probe, probed_at, now>>
  BY DEF CoreRetried
<1>2. ask'[Core].pc = "asked" /\ ask'[Core].since = now
  BY <1>1, TimeTypes, CoreIsNoSection DEF Asked
<1>3. \A s \in Sections : ask'[s].pc = "idle"
  BY <1>1, TimeTypes, CoreIsNoSection DEF Inv, Phases
<1>4. probe = "unused"
  BY <1>1 DEF Inv, Phases
<1>5. Spent = 0 /\ Spent' = Longest /\ now <= Longest
  BY <1>1, <1>2, <1>4, TimeTypes DEF Timely, Spent, Longest
<1>6. \A r \in Resources : r = Core \/ r \in Sections
  BY DEF Resources, Sections, Core
<1> QED BY <1>1, <1>2, <1>3, <1>4, <1>5, <1>6, TimeTypes DEF Timely, Longest

\* The sections' calls begin when the core call is over.
LEMMA ReadTimely ==
  ASSUME 0 < CallTime, Inv, Timely, NEW p \in Replies, CoreRead(p)
  PROVE  Timely'
<1>1. /\ ask' = [r \in Resources |->
                   IF r = Core THEN [ask[Core] EXCEPT !.pc = "settled", !.reply = p]
                               ELSE Asked]
      /\ ask[Core].pc = "asked" /\ Running
      /\ UNCHANGED <<probe, probed_at, now, decorated>>
  BY DEF CoreRead
<1>2. ask'[Core].pc = "settled"
  BY <1>1, TimeTypes, CoreIsNoSection DEF Ask
<1>3. \A s \in Sections : ask'[s].pc = "asked" /\ ask'[s].since = now
  BY <1>1, CoreIsNoSection DEF Asked
<1>4. probe = "unused"
  BY <1>1 DEF Inv, Phases
<1>5. Spent' = Spent + Longest /\ now <= Spent'
  BY <1>1, <1>2, <1>4, TimeTypes DEF Timely, Spent, Longest
<1>6. \A r \in Resources : r = Core \/ r \in Sections
  BY DEF Resources, Sections, Core
<1>7. Spent' \in Nat
  BY <1>5, TimeTypes
<1>8. \A r \in Resources :
         ask'[r].pc = "asked" => ask'[r].since <= Spent' /\ now <= ask'[r].since + Longest
  BY <1>2, <1>3, <1>5, <1>6, TimeTypes
<1>9. now <= Spent' + 2 * Longest /\ now <= Spent' + Longest
  BY <1>5, <1>7, TimeTypes
<1>10. Longest' = Longest
  BY DEF Longest
<1> QED BY <1>1, <1>4, <1>8, <1>9, <1>10 DEF Timely

\* A call that comes to its end, whichever, leaves the others as timely.
LEMMA EndTimely ==
  ASSUME 0 < CallTime, Inv, Timely, NEW r \in Resources,
         ask[r].pc \in {"asked", "refused"},
         ask'[r].pc \in {"refused", "settled"},
         \A q \in Resources \ {r} : ask'[q] = ask[q],
         Running, r = Core => ask'[r].pc = "refused",
         UNCHANGED <<probe, probed_at, now, decorated>>
  PROVE  Timely'
<1>1. ask'[Core].pc = "settled" <=> ask[Core].pc = "settled"
  BY CoreIsNoSection
<1>2. Spent' = Spent
  BY <1>1 DEF Spent, Longest
<1>3. \A q \in Resources : ask'[q].pc = "asked" => ask'[q] = ask[q]
  OBVIOUS
<1> QED BY <1>2, <1>3 DEF Timely, Longest

\* The probe begins while the calls that were in flight may still be.
LEMMA ProbeTimely ==
  ASSUME 0 < CallTime, Inv, Timely, NEW r \in Resources, ProbeSent(r)
  PROVE  Timely'
<1>1. Spent' = Spent
  BY DEF ProbeSent, Spent, Longest
<1> QED BY <1>1, TimeTypes DEF ProbeSent, Timely, Longest, Running

\* A clock that moves does so while something is awaited that is not yet late.
LEMMA TickTimely ==
  ASSUME 0 < CallTime, Inv, Timely, Tick
  PROVE  Timely' /\ now' <= 4 * Longest
<1>1. /\ Running /\ Waiting /\ now' = now + 1
      /\ \A r \in InFlight : now + 1 - ask[r].since < CallTime
      /\ probe = "asked" => now + 1 - probed_at < CallTime
      /\ UNCHANGED <<decorated, ask, probe, probed_at>>
  BY DEF Tick
<1>2. Spent' = Spent /\ Spent <= 2 * Longest
  BY <1>1, TimeTypes DEF Spent, Longest
<1>3. \A r \in InFlight : now' <= ask[r].since + Longest /\ ask[r].since <= Spent
  BY <1>1, TimeTypes DEF InFlight, Timely
<1>4. probe = "asked" => now' <= probed_at + Longest /\ probed_at <= Spent + Longest
  BY <1>1, TimeTypes DEF Timely
<1>5. InFlight # {} => now' <= Spent + Longest
  BY <1>1, <1>3, TimeTypes DEF InFlight
<1>6. /\ now' <= Spent + 2 * Longest
      /\ probe = "unused" => now' <= Spent + Longest
  <2>1. InFlight # {} \/ probe = "asked"
    BY <1>1, SomethingAwaited
  <2> QED BY <1>1, <1>4, <1>5, <2>1, TimeTypes
<1>7. \A r \in Resources :
         ask[r].pc = "asked" => ask[r].since <= Spent /\ now' <= ask[r].since + Longest
  BY <1>3 DEF InFlight
<1>8. Timely'
  BY <1>1, <1>2, <1>4, <1>6, <1>7 DEF Timely, Longest
<1> QED BY <1>1, <1>2, <1>6, <1>8, TimeTypes

\* The steps of a fetch keep its calls in time.
LEMMA TimelyStep ==
  ASSUME 0 < CallTime, Inv, Timely, [Next]_vars
  PROVE  Timely'
<1>1. ASSUME ~Running' PROVE Timely'
  BY <1>1 DEF Timely
<1>2. ask \in [Resources -> Ask]
  BY TimeTypes
<1>3. ASSUME NEW p \in Replies, CoreFailed(p) PROVE Timely'
  <2> DEFINE code == Classified(p, FALSE)
  <2>1. code # "none"
    BY DEF Classified
  <2>2. outcome' \in {[code |-> "PROFILE_NOT_FOUND", cause |-> "none"],
                      [code |-> "UPSTREAM_ERROR", cause |-> "member_mismatch"],
                      [code |-> code, cause |-> "none"]}
    BY <1>3 DEF CoreFailed, Raise
  <2> HIDE DEF code
  <2>3. outcome'.code # "none"
    BY <2>1, <2>2
  <2> QED BY <1>1, <2>3 DEF Running
<1>4. ASSUME NEW s \in Sections, NEW p \in Replies, SectionAnswered(s, p)
      PROVE  Timely'
  <2>1. /\ ask'[s].pc = "settled" /\ ask[s].pc = "asked" /\ Running
        /\ \A q \in Resources \ {s} : ask'[q] = ask[q]
        /\ UNCHANGED <<probe, probed_at, now, decorated>>
    BY <1>2, <1>4, CoreIsNoSection DEF SectionAnswered, Ask
  <2> QED BY <2>1, EndTimely, CoreIsNoSection
<1>5. ASSUME NEW r \in Resources, NEW p \in Replies, Refused(r, p)
      PROVE  Timely'
  <2>1. /\ ask'[r].pc = "refused" /\ ask[r].pc = "asked" /\ Running
        /\ \A q \in Resources \ {r} : ask'[q] = ask[q]
        /\ UNCHANGED <<probe, probed_at, now, decorated>>
    BY <1>2, <1>5 DEF Refused, Ask
  <2> QED BY <2>1, EndTimely
<1>6. ASSUME NEW r \in Resources, RefusalSettled(r) PROVE Timely'
  <2>1. /\ ask'[r].pc = "settled" /\ ask[r].pc = "refused" /\ Running
        /\ \A q \in Resources \ {r} : ask'[q] = ask[q]
        /\ UNCHANGED <<probe, probed_at, now, decorated>>
    BY <1>2, <1>6 DEF RefusalSettled, Ask
  <2>2. CASE r = Core
    BY <1>1, <1>6, <2>2 DEF RefusalSettled, Raise, AfterProbe, Running
  <2>3. CASE r # Core
    BY <2>1, <2>3, EndTimely
  <2> QED BY <2>2, <2>3
<1>7. CASE FanIn
  <2>1. CASE Raise("profile", "none")
    BY <1>1, <2>1 DEF Raise, Running
  <2>2. CASE \E s \in Sections : Aborts(s) /\ Raise(SectionCode(s), "none")
    <3>1. PICK s \in Sections : Aborts(s) /\ Raise(SectionCode(s), "none")
      BY <2>2
    <3> DEFINE code == SectionCode(s)
    <3>2. outcome' = [code |-> code, cause |-> "none"] /\ code \in Systemic
      BY <3>1 DEF Raise, Aborts
    <3> HIDE DEF code
    <3>3. outcome'.code # "none"
      BY <3>2 DEF Systemic
    <3> QED BY <1>1, <3>3 DEF Running
  <2> QED BY <1>7, <2>1, <2>2 DEF FanIn
<1>8. ASSUME NEW p \in Replies, ProbeAnswered(p) PROVE Timely'
  <2>1. probe' \in {"live", "dead", "unclear"}
    BY <1>8 DEF ProbeAnswered, ProbeVerdict
  <2>2. UNCHANGED <<ask, decorated, probed_at, now, outcome>> /\ Running
    BY <1>8 DEF ProbeAnswered
  <2>3. Spent' = Spent
    BY <2>2 DEF Spent, Longest
  <2> QED BY <2>1, <2>2, <2>3 DEF Timely, Longest
<1>9. CASE DeadlinePasses
  BY <1>1, <1>9 DEF DeadlinePasses, Raise, Running
<1>10. CASE SessionDies \/ UNCHANGED vars
  <2>1. UNCHANGED <<ask, decorated, probe, probed_at, now, outcome>>
    BY <1>10 DEF SessionDies, vars
  <2>2. Spent' = Spent
    BY <2>1 DEF Spent, Longest
  <2> QED BY <2>1, <2>2 DEF Timely, Running, Longest
<1>11. CASE Tick
  BY <1>11, TickTimely
<1> QED BY <1>3, <1>4, <1>5, <1>6, <1>7, <1>8, <1>9, <1>10, <1>11,
           RetryTimely, ReadTimely, ProbeTimely
        DEF Next, CoreStep, SectionStep, RefusalStep

\* Only a clock that moves makes a fetch longer.
LEMMA FourCallsStep ==
  ASSUME 0 < CallTime, Inv, Timely, FourCalls, [Next]_vars
  PROVE  FourCalls'
<1>1. CASE Tick
  BY <1>1, TickTimely DEF FourCalls, Longest
<1>2. ASSUME now' = now PROVE FourCalls'
  BY <1>2 DEF FourCalls, Longest
<1>3. Tick \/ now' = now
  BY DEF Next, vars, CoreStep, CoreRetried, CoreRead, CoreFailed, SectionStep,
         SectionAnswered, FanIn, RefusalStep, Refused, ProbeSent, RefusalSettled,
         ProbeAnswered, DeadlinePasses, SessionDies
<1> QED BY <1>1, <1>2, <1>3

\* What a step may make of the outcome, if it is not the deadline.
LEMMA OutcomeSteps ==
  ASSUME [Next]_vars, ~DeadlinePasses
  PROVE  \/ outcome' = outcome
         \/ outcome' = [code |-> "UPSTREAM_ERROR", cause |-> "member_mismatch"]
         \/ outcome'.cause = "none"
<1> DEFINE Goal == \/ outcome' = outcome
                   \/ outcome' = [code |-> "UPSTREAM_ERROR", cause |-> "member_mismatch"]
                   \/ outcome'.cause = "none"
<1>1. ASSUME NEW code, Raise(code, "none") PROVE Goal
  BY <1>1 DEF Raise
<1>2. CASE \E p \in Replies : CoreFailed(p)
  BY <1>1, <1>2 DEF CoreFailed, Raise
<1>3. CASE FanIn
  BY <1>1, <1>3 DEF FanIn
<1>4. CASE \E r \in Resources : RefusalSettled(r)
  BY <1>1, <1>4 DEF RefusalSettled
<1>5. ASSUME ~(\E p \in Replies : CoreFailed(p)), ~FanIn,
             ~(\E r \in Resources : RefusalSettled(r))
      PROVE  Goal
  BY <1>5 DEF Next, vars, CoreStep, CoreRetried, CoreRead, SectionStep,
     SectionAnswered, RefusalStep, Refused, ProbeSent, ProbeAnswered, SessionDies,
     Tick
<1> QED BY <1>2, <1>3, <1>4, <1>5

\* The deadline finds the fetch in its fourth call, and the outcome stays.
LEMMA RefusalsStep ==
  ASSUME 0 < CallTime, 3 * (CallTime - 1) < Deadline,
         Inv, Timely, Undecided, DeadlineAfterRefusals, [Next]_vars
  PROVE  (Undecided /\ DeadlineAfterRefusals)'
<1>1. CASE ~Running
  <2>1. UNCHANGED vars
    BY <1>1 DEF Next, CoreStep, CoreRetried, CoreRead, CoreFailed, SectionStep,
         SectionAnswered, FanIn, RefusalStep, Refused, ProbeSent, RefusalSettled,
         ProbeAnswered, DeadlinePasses, SessionDies, Tick
  <2> QED BY <2>1 DEF Undecided, Running, DeadlineAfterRefusals, vars
<1>2. CASE DeadlinePasses
  <2>1. Running /\ now >= Deadline /\ UNCHANGED <<ask, decorated, probe>>
    BY <1>2 DEF DeadlinePasses
  <2>2. now > 3 * Longest
    BY <2>1, TimeTypes
  <2>3. Spent + Longest > 2 * Longest /\ (probe = "unused" => Spent > 2 * Longest)
    BY <2>1, <2>2, TimeTypes DEF Timely
  <2>4. ~decorated /\ ask[Core].pc = "settled" /\ probe # "unused"
    BY <2>3, TimeTypes DEF Spent
  <2>5. ~Running'
    BY <1>2 DEF DeadlinePasses, Raise, Running
  <2> QED BY <2>1, <2>4, <2>5 DEF Undecided, DeadlineAfterRefusals
<1>3. CASE Running /\ ~DeadlinePasses
  BY <1>3, OutcomeSteps DEF Undecided, DeadlineAfterRefusals, Running
<1> QED BY <1>1, <1>2, <1>3

\* Every fetch whose calls keep to their timeout is over in the time of four
\* calls, for any number of sections: the core call, the one without the
\* decoration, the sections' together, the probe.
THEOREM FourCallsAtMost ==
  ASSUME 0 < CallTime PROVE Spec => []FourCalls
<1>1. Init => Timely /\ FourCalls
  BY TimelyInit, ConstantsAssumption DEF Init, FourCalls, Longest
<1>2. Inv /\ Timely /\ FourCalls /\ [Next]_vars => (Timely /\ FourCalls)'
  BY TimelyStep, FourCallsStep
<1> QED BY <1>1, <1>2, InvCorrect, PTL DEF Spec

\* With a deadline of three calls, as 45 s are of 15, a deadline that ends a
\* fetch whose calls keep to their timeout has found the longest chain: a
\* refused decoration, the core profile, and a refused section with the probe.
\* That this chain exists is what DeadlineOnlyWhenWedged is violated by.
THEOREM DeadlineNeedsRefusals ==
  ASSUME 0 < CallTime, 3 * (CallTime - 1) < Deadline
  PROVE  Spec => []DeadlineAfterRefusals
<1>1. Init => Timely /\ Undecided /\ DeadlineAfterRefusals
  BY TimelyInit DEF Init, Undecided, DeadlineAfterRefusals
<1>2. Inv /\ Timely /\ Undecided /\ DeadlineAfterRefusals /\ [Next]_vars
        => (Timely /\ Undecided /\ DeadlineAfterRefusals)'
  BY TimelyStep, RefusalsStep
<1> QED BY <1>1, <1>2, InvCorrect, PTL DEF Spec
=============================================================================
