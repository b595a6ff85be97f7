------------------------ MODULE RequestPipelineProofs ------------------------
(***************************************************************************)
(* Theorems about RequestPipeline, for every set of path names and methods. *)
(***************************************************************************)
EXTENDS RequestPipeline, TLAPS

\* The caller has a valid token, and the key to check it was there.
Authenticated ==
  /\ request.credentials = "bearer"
  /\ request.faults = {}
  /\ request.keys = "held"

\* The token itself is found wanting, by what was there to check it with.
TokenFails ==
  /\ request.credentials = "bearer"
  /\ \/ request.faults \cap Unusable # {}
     \/ request.keys = "unknown"
     \/ request.keys = "held" /\ request.faults # {}

ThisMatches == Matched(request.name, request.slash, request.method)

\* A body is read: this is PUT /session.
BodyIsRead == ThisMatches /\ ReadsBody(request.name, request.method)

\* What a failure says of the request.
Blamed ==
  CASE failure = "no_token"   -> request.credentials # "bearer"
    [] failure = "bad_token"  -> TokenFails
    [] failure = "no_keys"    -> /\ request.credentials = "bearer"
                                 /\ request.keys = "unavailable"
    [] failure = "unreadable" -> BodyIsRead /\ request.input = "unreadable"
    [] failure = "invalid"    -> \/ BodyIsRead /\ request.input = "malformed"
                                 \/ Authenticated
    [] OTHER                  -> Authenticated

\* Where the request is, the catch-all is there for what no route matches.
RouteOK ==
  stage # "routing" =>
    endpoint = IF ThisMatches THEN request.name ELSE "unmatched"

StageOK ==
  /\ stage = "body" => BodyIsRead
  /\ stage \in {"validation", "handling"} => Authenticated
  /\ stage \notin {"raised", "done"} => failure = "none"
  /\ stage = "raised" => failure \in Failures /\ Blamed

\* An answer is the failure's, or a handler's success, or a redirect that a
\* real route answers.
Failed == failure \in Failures /\ Blamed /\ answer = Rendered(failure)
Served == failure = "none" /\ Authenticated /\ endpoint # "unmatched"
            /\ answer = Success(200)
Sent   == failure = "none" /\ Authenticated /\ endpoint = "unmatched"
            /\ Redirected /\ answer = Success(307)

AnswerOK == stage = "done" => Failed \/ Served \/ Sent

\* A client that was redirected is at a real route.
HopsOK == hops = 0 \/ (hops = 1 /\ ThisMatches)

Inv == TypeOK /\ RouteOK /\ StageOK /\ AnswerOK /\ HopsOK

\* What the taxonomy's table says of each failure it names ...
LEMMA Taxonomy ==
  ASSUME NEW what \in DOMAIN CodeOf
  PROVE  /\ what \in {"no_token", "bad_token", "no_keys", "bad_url", "no_session",
                     "dead_session", "missing", "throttled", "challenged",
                     "outage", "mismatch"}
         /\ CodeOf[what] # "INTERNAL_ERROR"
         /\ ERROR_SPECS[CodeOf[what]].status \in {400, 401, 404, 428, 429, 502}
         /\ ERROR_SPECS[CodeOf[what]].status = 401 <=> what \in {"no_token", "bad_token"}
         /\ Retryable(what) <=> what \in Passing
<1>1. what \in {"no_token", "bad_token", "no_keys", "bad_url", "no_session",
                "dead_session", "missing", "throttled", "challenged",
                "outage", "mismatch"}
  BY DEF CodeOf
<1>2. CodeOf[what] # "INTERNAL_ERROR"
  BY DEF CodeOf
<1>3. /\ ERROR_SPECS[CodeOf[what]].status \in {400, 401, 404, 428, 429, 502}
      /\ ERROR_SPECS[CodeOf[what]].status = 401 <=> what \in {"no_token", "bad_token"}
  BY <1>1 DEF CodeOf, ERROR_SPECS, Row
<1>4. Retryable(what) <=> what \in Passing
  BY <1>1 DEF CodeOf, ERROR_SPECS, Row, Retryable, Narrowed, Passing
<1> QED BY <1>1, <1>2, <1>3, <1>4

\* ... and what is made of the others, by their status.
LEMMA Fallback ==
  ASSUME NEW what \in Failures \ DOMAIN CodeOf
  PROVE  /\ what \in {"unreadable", "invalid", "no_path", "wrong_method",
                     "datastore", "bug"}
         /\ StatusOf[what] \in {400, 404, 405, 422, 500, 503}
         /\ FallbackCode(StatusOf[what]) = "INTERNAL_ERROR" <=> what = "bug"
         /\ StatusOf[what] >= 500 <=> what \in Passing
         /\ what = "unreadable" => FallbackCode(StatusOf[what]) = "BAD_REQUEST"
         /\ what = "invalid"    => FallbackCode(StatusOf[what]) = "INVALID_REQUEST"
<1>1. what \in {"unreadable", "invalid", "no_path", "wrong_method", "datastore", "bug"}
  BY DEF CodeOf, Failures, HandlerFailures
<1>2. /\ what = "unreadable"   => StatusOf[what] = 400
      /\ what = "invalid"      => StatusOf[what] = 422
      /\ what = "no_path"      => StatusOf[what] = 404
      /\ what = "wrong_method" => StatusOf[what] = 405
      /\ what = "datastore"    => StatusOf[what] = 503
      /\ what = "bug"          => StatusOf[what] = 500
  BY DEF StatusOf
<1>3. StatusOf[what] >= 500 <=> what \in Passing
  BY <1>1, <1>2 DEF Passing
<1>4. /\ FallbackCode(StatusOf[what]) = "INTERNAL_ERROR" <=> what = "bug"
      /\ what = "unreadable" => FallbackCode(StatusOf[what]) = "BAD_REQUEST"
      /\ what = "invalid"    => FallbackCode(StatusOf[what]) = "INVALID_REQUEST"
  BY <1>1, <1>2 DEF FallbackCode
<1> QED BY <1>1, <1>2, <1>3, <1>4

\* Every failure has an answer the service documents.
LEMMA EveryFailureHasAnAnswer ==
  ASSUME NEW what \in Failures
  PROVE  Rendered(what) \in Answer
<1>1. Challenge(what) \in {"none", "Bearer", "invalid_token"}
  BY DEF Challenge
<1>2. CASE what \in DOMAIN CodeOf
  <2>1. CodeOf[what] \in Codes /\ CodeOf[what] \in DOMAIN ERROR_SPECS
    BY <1>2 DEF CodeOf, Codes, ERROR_SPECS
  <2>2. ERROR_SPECS[CodeOf[what]].status \in {400, 401, 404, 428, 429, 502}
    BY <2>1 DEF ERROR_SPECS, Row
  <2> QED BY <1>1, <1>2, <2>1, <2>2 DEF Rendered, Answer, Retryable
<1>3. CASE what \notin DOMAIN CodeOf
  <2>1. StatusOf[what] \in {400, 404, 405, 422, 500, 503}
    BY <1>3 DEF CodeOf, StatusOf, Failures, HandlerFailures
  <2>2. FallbackCode(StatusOf[what]) \in Codes
    BY <2>1 DEF FallbackCode, Codes
  <2> QED BY <1>3, <2>1, <2>2 DEF Rendered, Answer
<1> QED BY <1>2, <1>3

\* A failure's answer is one the service documents, and says of the failure
\* what the properties ask.
LEMMA OnTheWire ==
  ASSUME NEW what \in Failures
  PROVE  /\ Rendered(what) \in Answer
         /\ Rendered(what).status \notin {200, 307}
         /\ Rendered(what).retryable <=> what \in Passing
         /\ Rendered(what).code = "INTERNAL_ERROR" <=> what = "bug"
         /\ Rendered(what).challenge =
              CASE what = "no_token"  -> "Bearer"
                [] what = "bad_token" -> "invalid_token"
                [] OTHER              -> "none"
         /\ Rendered(what).status = 401 <=> what \in {"no_token", "bad_token"}
         /\ what = "no_token"   => Rendered(what) = Refusal("Bearer")
         /\ what = "bad_token"  => Rendered(what) = Refusal("invalid_token")
         /\ what = "no_keys"    => Rendered(what) = KeysUnavailable
         /\ what = "unreadable" => Rendered(what).code = "BAD_REQUEST"
         /\ what = "invalid"    => Rendered(what).code = "INVALID_REQUEST"
<1>1. Rendered(what) \in Answer
  BY EveryFailureHasAnAnswer
<1>2. Rendered(what).challenge = Challenge(what)
  BY DEF Rendered, Challenge, CodeOf
<1>3. CASE what \in DOMAIN CodeOf
  <2>1. /\ Rendered(what).status = ERROR_SPECS[CodeOf[what]].status
        /\ Rendered(what).code = CodeOf[what]
        /\ Rendered(what).retryable <=> Retryable(what)
    BY <1>3 DEF Rendered
  <2>2. ASSUME what \in {"no_token", "bad_token"}
        PROVE  Rendered(what) = Refusal(Challenge(what))
    <3>1. CodeOf[what] = "UNAUTHENTICATED"
      BY <2>2 DEF CodeOf
    <3>2. ERROR_SPECS[CodeOf[what]].status = 401 /\ Retryable(what) = FALSE
      BY <3>1 DEF ERROR_SPECS, Row, Retryable
    <3> QED BY <1>3, <3>1, <3>2 DEF Rendered, Refusal
  <2>3. ASSUME what = "no_keys"
        PROVE  Rendered(what) = KeysUnavailable
    <3>1. CodeOf[what] = "UPSTREAM_ERROR"
      BY <2>3 DEF CodeOf
    <3>2. ERROR_SPECS[CodeOf[what]].status = 502 /\ Retryable(what) = TRUE
      BY <2>3, <3>1 DEF ERROR_SPECS, Row, Retryable, Narrowed
    <3>3. Challenge(what) = "none"
      BY <2>3 DEF Challenge
    <3> QED BY <1>3, <3>1, <3>2, <3>3 DEF Rendered, KeysUnavailable
  <2> QED BY <1>1, <1>2, <1>3, <2>1, <2>2, <2>3, Taxonomy DEF Challenge
<1>4. CASE what \notin DOMAIN CodeOf
  <2>1. /\ Rendered(what).status = StatusOf[what]
        /\ Rendered(what).code = FallbackCode(StatusOf[what])
        /\ Rendered(what).retryable <=> StatusOf[what] >= 500
    BY <1>4 DEF Rendered
  <2> QED BY <1>1, <1>2, <1>4, <2>1, Fallback DEF Challenge
<1> QED BY <1>3, <1>4

\* A request that has just arrived.
LEMMA InvInit == Init => Inv
BY DEF Init, Inv, TypeOK, RouteOK, StageOK, AnswerOK, HopsOK

\* Every step.
LEMMA InvStep == Inv /\ [Next]_vars => Inv'
<1> SUFFICES ASSUME Inv, [Next]_vars PROVE Inv'
  OBVIOUS
<1> USE DEF Inv, TypeOK
<1>1. CASE Route
  <2>1. TypeOK'
    BY <1>1 DEF Route, Matched, Serves
  <2>2. RouteOK' /\ HopsOK'
    BY <1>1 DEF Route, RouteOK, HopsOK, ThisMatches
  <2>3. StageOK'
    <3>1. failure = "none" /\ failure' = "none" /\ stage' \in {"body", "token"}
      BY <1>1 DEF Route, StageOK
    <3>2. stage' = "body" => BodyIsRead'
      BY <1>1 DEF Route, BodyIsRead, ThisMatches, Matched, Serves
    <3> QED BY <3>1, <3>2 DEF StageOK
  <2>4. AnswerOK'
    BY <1>1 DEF Route, AnswerOK
  <2> QED BY <2>1, <2>2, <2>3, <2>4
<1>2. CASE ReadBody
  <2>1. RouteOK' /\ HopsOK' /\ TypeOK'
    BY <1>2 DEF ReadBody, Raise, Proceed, RouteOK, HopsOK, ThisMatches, Failures
  <2>2. StageOK' /\ AnswerOK'
    BY <1>2 DEF ReadBody, Raise, Proceed, StageOK, AnswerOK, Blamed, BodyIsRead,
                ThisMatches, Failures
  <2> QED BY <2>1, <2>2
<1>3. CASE RequireClaims
  <2>1. RouteOK' /\ HopsOK' /\ TypeOK'
    BY <1>3 DEF RequireClaims, Raise, Proceed, RouteOK, HopsOK, ThisMatches, Failures
  <2>2. stage' # "done" /\ request' = request /\ failure = "none"
    BY <1>3 DEF RequireClaims, Raise, Proceed, StageOK
  <2>3. StageOK' /\ AnswerOK'
    <3>1. CASE Proceed("validation") /\ Authenticated
      BY <2>2, <3>1 DEF Proceed, StageOK, AnswerOK, Authenticated
    <3>2. ASSUME NEW what \in Failures, Raise(what), Blamed'
          PROVE  StageOK' /\ AnswerOK'
      <4>1. failure' = what /\ stage' = "raised"
        BY <3>2 DEF Raise
      <4> QED BY <2>2, <3>2, <4>1 DEF StageOK, AnswerOK
    <3>3. CASE Raise("no_token") /\ request.credentials # "bearer"
      <4>1. Blamed' /\ "no_token" \in Failures
        BY <2>2, <3>3 DEF Raise, Blamed, Failures
      <4> QED BY <3>2, <3>3, <4>1
    <3>4. CASE Raise("bad_token") /\ TokenFails
      <4>1. Blamed' /\ "bad_token" \in Failures
        BY <2>2, <3>4 DEF Raise, Blamed, TokenFails, Failures
      <4> QED BY <3>2, <3>4, <4>1
    <3>5. CASE /\ Raise("no_keys")
               /\ request.credentials = "bearer" /\ request.keys = "unavailable"
      <4>1. Blamed' /\ "no_keys" \in Failures
        BY <2>2, <3>5 DEF Raise, Blamed, Failures
      <4> QED BY <3>2, <3>5, <4>1
    <3> QED BY <1>3, <3>1, <3>3, <3>4, <3>5 DEF RequireClaims, TokenFails, Authenticated
  <2> QED BY <2>1, <2>3
<1>4. CASE Validate
  <2>1. RouteOK' /\ HopsOK' /\ TypeOK'
    BY <1>4 DEF Validate, Raise, Proceed, RouteOK, HopsOK, ThisMatches, Failures
  <2>2. StageOK' /\ AnswerOK'
    BY <1>4 DEF Validate, Raise, Proceed, StageOK, AnswerOK, Blamed,
                Authenticated, Failures
  <2> QED BY <2>1, <2>2
<1>5. CASE Handle
  <2>1. CASE \E what \in CanRaise : Raise(what)
    <3>1. PICK what \in CanRaise : Raise(what)
      BY <2>1
    <3>2. /\ what \in Failures
          /\ what \notin {"no_token", "bad_token", "no_keys", "unreadable", "invalid"}
      BY <3>1 DEF CanRaise, Failures, HandlerFailures
    <3>3. RouteOK' /\ HopsOK' /\ TypeOK'
      BY <1>5, <3>1, <3>2 DEF Handle, Raise, RouteOK, HopsOK, ThisMatches
    <3>4. StageOK' /\ AnswerOK'
      BY <1>5, <3>1, <3>2 DEF Handle, Raise, StageOK, AnswerOK, Blamed, Authenticated
    <3> QED BY <3>3, <3>4
  <2>2. CASE Succeed(200)
    <3>1. answer' = Success(200) /\ Success(200)' = Success(200)
      BY <2>2 DEF Succeed, Success
    <3>2. Success(200) \in Answer
      BY DEF Success, Answer
    <3>3. RouteOK' /\ HopsOK' /\ TypeOK'
      BY <1>5, <2>2, <3>1, <3>2 DEF Handle, Succeed, RouteOK, HopsOK, ThisMatches
    <3>4. StageOK' /\ Served'
      BY <1>5, <2>2, <3>1 DEF Handle, Succeed, StageOK, Served, Authenticated
    <3> QED BY <3>3, <3>4 DEF AnswerOK
  <2> QED BY <1>5, <2>1, <2>2 DEF Handle
<1>6. CASE AnswerUnmatchedPath
  <2>1. CASE Redirected /\ Succeed(307)
    <3>1. answer' = Success(307) /\ Success(307)' = Success(307)
      BY <2>1 DEF Succeed, Success
    <3>2. Success(307) \in Answer
      BY DEF Success, Answer
    <3>3. RouteOK' /\ HopsOK' /\ TypeOK'
      BY <1>6, <2>1, <3>1, <3>2 DEF AnswerUnmatchedPath, Succeed, RouteOK, HopsOK,
                                   ThisMatches
    <3>4. StageOK' /\ Sent'
      BY <1>6, <2>1, <3>1 DEF AnswerUnmatchedPath, Succeed, StageOK, Sent,
                              Authenticated, Redirected
    <3> QED BY <3>3, <3>4 DEF AnswerOK
  <2>2. CASE Raise("wrong_method") \/ Raise("no_path")
    <3>1. RouteOK' /\ HopsOK' /\ TypeOK'
      BY <1>6, <2>2 DEF AnswerUnmatchedPath, Raise, RouteOK, HopsOK, ThisMatches,
                        Failures
    <3>2. StageOK' /\ AnswerOK'
      BY <1>6, <2>2 DEF AnswerUnmatchedPath, Raise, StageOK, AnswerOK, Blamed,
                        Authenticated, Failures
    <3> QED BY <3>1, <3>2
  <2> QED BY <1>6, <2>1, <2>2 DEF AnswerUnmatchedPath
<1>7. CASE Render
  <2>1. failure \in Failures /\ Blamed /\ Blamed'
    BY <1>7 DEF Render, StageOK, Blamed, TokenFails, BodyIsRead, ThisMatches,
                Authenticated
  <2>2. Rendered(failure)' = Rendered(failure)
    BY <1>7 DEF Render
  <2>3. RouteOK' /\ HopsOK' /\ TypeOK'
    BY <1>7, <2>1, <2>2, OnTheWire DEF Render, RouteOK, HopsOK, ThisMatches
  <2>4. StageOK' /\ Failed'
    BY <1>7, <2>1, <2>2 DEF Render, StageOK, Failed
  <2> QED BY <2>3, <2>4 DEF AnswerOK
<1>8. CASE Follow
  <2>1. Sent
    BY <1>8, OnTheWire DEF Follow, AnswerOK, Failed, Served, Success
  <2>2. ~ThisMatches /\ hops = 0
    BY <1>8, <2>1 DEF Follow, Sent, RouteOK, HopsOK, ThisMatches, Matched, Serves
  <2>3. request' = [request EXCEPT !.slash = ~request.slash] /\ request' \in Request
    BY <1>8 DEF Follow, Request
  <2>4. ThisMatches'
    BY <2>1, <2>3 DEF Sent, Redirected, FullMatch, ThisMatches, Request
  <2>5. TypeOK'
    BY <1>8, <2>3 DEF Follow
  <2>6. RouteOK' /\ StageOK' /\ AnswerOK'
    BY <1>8, <2>1 DEF Follow, RouteOK, StageOK, AnswerOK, Sent
  <2>7. HopsOK'
    BY <1>8, <2>2, <2>4 DEF Follow, HopsOK
  <2> QED BY <2>5, <2>6, <2>7
<1>9. CASE UNCHANGED vars
  BY <1>9 DEF vars, RouteOK, StageOK, AnswerOK, HopsOK, Failed, Served, Sent, Blamed,
     TokenFails, BodyIsRead, Authenticated, ThisMatches, Redirected, Success
<1> QED BY <1>1, <1>2, <1>3, <1>4, <1>5, <1>6, <1>7, <1>8, <1>9 DEF Next

\* The invariant holds of every behaviour.
THEOREM InvCorrect == Spec => []Inv
<1> QED BY InvInit, InvStep, PTL DEF Spec

\* The state keeps its type: every answer has a status, a code and headers the
\* service documents, whatever was raised.
THEOREM TypeCorrect == Spec => []TypeOK
<1>1. Inv => TypeOK
  BY DEF Inv
<1> QED BY <1>1, InvCorrect, PTL

\* Nobody without a valid token is told anything but that, a body that cannot
\* be parsed aside.
THEOREM TokenFirst == Spec => []AuthenticationComesFirst
<1>1. Inv => AuthenticationComesFirst
  <2> SUFFICES ASSUME Inv, Done, request.credentials # "bearer" \/ request.faults # {}
               PROVE  AuthenticationComesFirst
    BY DEF AuthenticationComesFirst
  <2>1. Failed
    BY DEF Inv, AnswerOK, Done, Served, Sent, Authenticated
  <2>2. ~Authenticated
    BY DEF Authenticated
  <2>3. failure \in {"no_token", "bad_token", "no_keys", "unreadable", "invalid"}
    BY <2>1, <2>2 DEF Failed, Blamed
  <2>4. BodyIsRead => ReadsBody(request.name, request.method) /\ ~request.slash
    BY DEF BodyIsRead, ThisMatches, Matched
  <2> QED BY <2>1, <2>2, <2>3, <2>4, OnTheWire DEF Failed, Blamed, TokenFails,
                                               AuthenticationComesFirst
<1> QED BY <1>1, InvCorrect, PTL

\* Challenges and refusals go together, and only a token that was looked at and
\* found wanting is blamed.
THEOREM ChallengeFits == Spec => []ChallengeFitsTheToken
<1>1. Inv => ChallengeFitsTheToken
  <2> SUFFICES ASSUME Inv, Done PROVE ChallengeFitsTheToken
    BY DEF ChallengeFitsTheToken
  <2>1. CASE Failed
    <3>1. failure \in Failures /\ answer = Rendered(failure) /\ Blamed
      BY <2>1 DEF Failed
    <3>2. failure = "no_token" => request.credentials # "bearer"
      BY <3>1 DEF Blamed
    <3>3. failure = "bad_token" => TokenFails
      BY <3>1 DEF Blamed
    <3> QED BY <3>1, <3>2, <3>3, OnTheWire DEF TokenFails, ChallengeFitsTheToken
  <2>2. CASE Served \/ Sent
    BY <2>2 DEF Served, Sent, Success, ChallengeFitsTheToken
  <2> QED BY <2>1, <2>2 DEF Inv, AnswerOK, Done
<1> QED BY <1>1, InvCorrect, PTL

\* "retryable" is true exactly of what can pass.
THEOREM RetryHonest == Spec => []RetryAdviceIsHonest
<1>1. Inv => RetryAdviceIsHonest
  BY OnTheWire DEF Inv, AnswerOK, Done, Failed, Served, Sent, Success, Passing,
                   RetryAdviceIsHonest
<1> QED BY <1>1, InvCorrect, PTL

\* INTERNAL_ERROR is a bug of the service and nothing else.
THEOREM OnlyBugsAreInternal == Spec => []InternalErrorIsABug
<1>1. Inv => InternalErrorIsABug
  BY OnTheWire DEF Inv, AnswerOK, Done, Failed, Served, Sent, Success,
                   InternalErrorIsABug
<1> QED BY <1>1, InvCorrect, PTL

\* The catch-all never sends a client to a path it answers itself.
THEOREM RedirectEnds == Spec => []RedirectLeadsToARoute
<1>1. Inv => RedirectLeadsToARoute
  BY DEF Inv, HopsOK, RouteOK, ThisMatches, Matched, Serves, Done, RedirectLeadsToARoute
<1> QED BY <1>1, InvCorrect, PTL
=============================================================================
