--------------------------- MODULE RequestPipeline ---------------------------
(***************************************************************************)
(* What happens to one request under /api/v1 before, around and after its  *)
(* handler: routing and the catch-all (app/api/v1/__init__.py), FastAPI's  *)
(* reading of the body, token verification (require_claims in app/auth.py), *)
(* validation, and the typed envelope every failure is rendered in         *)
(* (app/errors.py).  A client may follow the catch-all's redirect.         *)
(*                                                                         *)
(* What the profile and session handlers do is ProfileEndpoint; here they  *)
(* end in success or in one of the failures they can raise.                *)
(***************************************************************************)
EXTENDS Integers, FiniteSets

CONSTANTS
  Names,      \* what a path says after /api/v1/
  Methods     \* the methods clients send, invented ones included

VARIABLES
  request,    \* the request in hand
  stage,      \* how far it is
  endpoint,   \* the route it matched
  failure,    \* the exception in flight, by what it says went wrong
  answer,
  hops        \* redirects the client has followed

vars == <<request, stage, endpoint, failure, answer, hops>>

\* The methods each real route declares.
Serves == [profile |-> {"GET"}, session |-> {"GET", "PUT"}]

PROBED_METHODS == {"GET", "POST", "PUT", "PATCH", "DELETE", "HEAD", "OPTIONS"}

\* What can be wrong with a bearer token: found before its signing key is
\* looked up, or by jwt.decode and the claim checks after it.
Unusable == {"header", "alg", "kid"}
Untrue   == {"signature", "claims", "typ", "iat", "sub"}

\* The path is /api/v1/name, slash that it ends in one more "/"; keys is what
\* JwksCache.signing_key has for the token's kid; input, what the route's own
\* arguments are worth.
Request ==
  [name : Names, slash : BOOLEAN, method : Methods,
   credentials : {"none", "several", "other", "bearer"},
   faults : {f \in SUBSET (Unusable \cup Untrue) : Cardinality(f) <= 2},
   keys : {"held", "unknown", "unavailable"},
   input : {"good", "unusable", "invalid", "malformed", "unreadable"}]

HandlerFailures == {"no_session", "dead_session", "missing", "throttled",
                    "challenged", "outage", "mismatch", "datastore", "bug"}
Failures == HandlerFailures \cup
  {"no_token", "bad_token", "no_keys", "unreadable", "invalid", "bad_url",
   "wrong_method", "no_path"}

Codes == {"UNAUTHENTICATED", "INVALID_URL", "NO_SESSION", "SESSION_EXPIRED",
          "PROFILE_NOT_FOUND", "RATE_LIMITED", "UPSTREAM_CHALLENGE",
          "UPSTREAM_ERROR", "BAD_REQUEST", "NOT_FOUND", "METHOD_NOT_ALLOWED",
          "INVALID_REQUEST", "SERVICE_UNAVAILABLE", "INTERNAL_ERROR"}

Answer == [status : {200, 307, 400, 401, 404, 405, 422, 428, 429, 500, 502, 503},
           code : Codes \cup {"none"}, retryable : BOOLEAN,
           challenge : {"none", "Bearer", "invalid_token"}]

NoAnswer == [status |-> 0]

TypeOK ==
  /\ request \in Request
  /\ stage \in {"routing", "body", "token", "validation", "handling",
                "raised", "done"}
  /\ endpoint \in {"profile", "session", "unmatched"}
  /\ failure \in Failures \cup {"none"}
  /\ IF stage = "done" THEN answer \in Answer ELSE answer = NoAnswer
  /\ hops \in Nat

Init ==
  /\ request \in Request
  /\ request.credentials # "bearer" => request.faults = {} /\ request.keys = "held"
  /\ stage = "routing"
  /\ endpoint = "unmatched"
  /\ failure = "none"
  /\ answer = NoAnswer
  /\ hops = 0

-----------------------------------------------------------------------------
(* Routing *)

\* A real route matches this path and this method.
Matched(name, slash, method) ==
  /\ ~slash
  /\ name \in DOMAIN Serves
  /\ method \in Serves[name]

\* Mutant: it forgets to skip its own routes, which match anything.
FullMatchOfAnything(name, slash, method) == TRUE

\* _full_match: the same question, asked by the catch-all of every route but
\* its own.
FullMatch(name, slash, method) == Matched(name, slash, method)

ReadsBody(name, method) == name = "session" /\ method = "PUT"

\* Mutant: the catch-all carries no dependency.
RouteUnguarded ==
  /\ stage = "routing"
  /\ endpoint' = IF Matched(request.name, request.slash, request.method)
                 THEN request.name ELSE "unmatched"
  /\ stage' = CASE endpoint' = "unmatched" -> "handling"
                [] ReadsBody(request.name, request.method) -> "body"
                [] OTHER -> "token"
  /\ UNCHANGED <<request, failure, answer, hops>>

\* The first full match wins; the catch-all is last and matches any method.
Route ==
  /\ stage = "routing"
  /\ endpoint' = IF Matched(request.name, request.slash, request.method)
                 THEN request.name ELSE "unmatched"
  /\ stage' = IF endpoint' # "unmatched" /\ ReadsBody(request.name, request.method)
              THEN "body" ELSE "token"
  /\ UNCHANGED <<request, failure, answer, hops>>

Proceed(next) ==
  /\ stage' = next
  /\ UNCHANGED <<request, endpoint, failure, answer, hops>>

Raise(what) ==
  /\ stage' = "raised"
  /\ failure' = what
  /\ UNCHANGED <<request, endpoint, answer, hops>>

-----------------------------------------------------------------------------
(* Before the handler *)

\* FastAPI reads the body before it runs any dependency: bytes that are no
\* text are a 400, text that is no JSON is a 422.
ReadBody ==
  /\ stage = "body"
  /\ CASE request.input = "unreadable" -> Raise("unreadable")
       [] request.input = "malformed"  -> Raise("invalid")
       [] OTHER                        -> Proceed("token")

\* require_claims: one header with one bearer token, then the checks the key
\* is not needed for, then the key, then the rest.
RequireClaims ==
  /\ stage = "token"
  /\ \/ request.credentials # "bearer" /\ Raise("no_token")
     \/ request.credentials = "bearer" /\ request.faults \cap Unusable # {}
        /\ Raise("bad_token")
     \/ /\ request.credentials = "bearer" /\ request.faults \cap Unusable = {}
        /\ \/ request.keys = "unavailable" /\ Raise("no_keys")
           \/ request.keys = "unknown" /\ Raise("bad_token")
           \/ request.keys = "held" /\ request.faults # {} /\ Raise("bad_token")
           \/ request.keys = "held" /\ request.faults = {} /\ Proceed("validation")

\* The url parameter of GET /profile, the body of PUT /session.
TakesInput(name, method) == name = "profile" \/ ReadsBody(name, method)

Validate ==
  /\ stage = "validation"
  /\ IF endpoint # "unmatched" /\ TakesInput(request.name, request.method)
        /\ request.input = "invalid"
     THEN Raise("invalid") ELSE Proceed("handling")

-----------------------------------------------------------------------------
(* Handlers *)

Success(status) ==
  [status |-> status, code |-> "none", retryable |-> FALSE, challenge |-> "none"]

Succeed(status) ==
  /\ stage' = "done"
  /\ answer' = Success(status)
  /\ UNCHANGED <<request, endpoint, failure, hops>>

\* What the handler of a real route can raise.
CanRaise ==
  CASE endpoint = "profile" /\ request.input = "unusable" -> {"bad_url"}
    [] endpoint = "profile" -> HandlerFailures
    [] ReadsBody(request.name, request.method) /\ request.input = "unusable" ->
         {"no_session", "dead_session"}
    [] OTHER -> {"datastore", "bug"}

Handle ==
  /\ stage = "handling"
  /\ endpoint # "unmatched"
  /\ \/ \E what \in CanRaise : Raise(what)
     \/ /\ TakesInput(request.name, request.method) => request.input # "unusable"
        /\ Succeed(200)

\* answer_unmatched_path: the trailing-slash variant that a real route
\* answers, else the methods a real route would have, else nothing.
Redirected ==
  FullMatch(request.name, ~request.slash, request.method)
MethodsAnswering ==
  {m \in PROBED_METHODS : FullMatch(request.name, request.slash, m)}

AnswerUnmatchedPath ==
  /\ stage = "handling"
  /\ endpoint = "unmatched"
  /\ CASE Redirected            -> Succeed(307)
       [] MethodsAnswering # {} -> Raise("wrong_method")
       [] OTHER                 -> Raise("no_path")

-----------------------------------------------------------------------------
(* Errors *)

Row(status, retryable) == [status |-> status, retryable |-> retryable]

ERROR_SPECS ==
  [UNAUTHENTICATED    |-> Row(401, FALSE), INVALID_URL        |-> Row(400, FALSE),
   NO_SESSION         |-> Row(428, FALSE), SESSION_EXPIRED    |-> Row(428, FALSE),
   PROFILE_NOT_FOUND  |-> Row(404, FALSE), RATE_LIMITED       |-> Row(429, TRUE),
   UPSTREAM_CHALLENGE |-> Row(502, TRUE),  UPSTREAM_ERROR     |-> Row(502, TRUE)]

\* The code of each ApiError raise site ...
CodeOf ==
  [no_token |-> "UNAUTHENTICATED", bad_token |-> "UNAUTHENTICATED",
   no_keys |-> "UPSTREAM_ERROR", bad_url |-> "INVALID_URL",
   no_session |-> "NO_SESSION", dead_session |-> "SESSION_EXPIRED",
   missing |-> "PROFILE_NOT_FOUND", throttled |-> "RATE_LIMITED",
   challenged |-> "UPSTREAM_CHALLENGE", outage |-> "UPSTREAM_ERROR",
   mismatch |-> "UPSTREAM_ERROR"]

\* ... the one that narrows its row's retryable, at the client's raise site and
\* at the handler's ...
Narrowed == {"mismatch"}

\* ... and the statuses of the exceptions the taxonomy does not name.
StatusOf ==
  [unreadable |-> 400, invalid |-> 422, no_path |-> 404, wrong_method |-> 405,
   datastore |-> 503, bug |-> 500]

\* Mutant: the row every raised 400 seemed to supersede is dropped.
FallbackCodeWithout400(status) ==
  CASE status = 404 -> "NOT_FOUND"
    [] status = 405 -> "METHOD_NOT_ALLOWED"
    [] status = 422 -> "INVALID_REQUEST"
    [] status = 503 -> "SERVICE_UNAVAILABLE"
    [] OTHER        -> "INTERNAL_ERROR"

FallbackCode(status) ==
  CASE status = 400 -> "BAD_REQUEST"
    [] status = 404 -> "NOT_FOUND"
    [] status = 405 -> "METHOD_NOT_ALLOWED"
    [] status = 422 -> "INVALID_REQUEST"
    [] status = 503 -> "SERVICE_UNAVAILABLE"
    [] OTHER        -> "INTERNAL_ERROR"

\* Mutant: a gate that reads the row and not the error.
RetryableBySpec(what) == ERROR_SPECS[CodeOf[what]].retryable

\* ApiError.retryable: the row's value, unless the raise site narrowed it.
Retryable(what) == ERROR_SPECS[CodeOf[what]].retryable /\ what \notin Narrowed

\* Mutant: every rejection blames the token.
ChallengeAlways(what) ==
  IF what \in {"bad_token", "no_token"} THEN "invalid_token" ELSE "none"

\* _reject: the error parameter only for a credential that was presented.
Challenge(what) ==
  CASE what = "bad_token" -> "invalid_token"
    [] what = "no_token"  -> "Bearer"
    [] OTHER              -> "none"

\* ApiError.to_response and envelope.
Rendered(what) ==
  IF what \in DOMAIN CodeOf
  THEN [status |-> ERROR_SPECS[CodeOf[what]].status, code |-> CodeOf[what],
        retryable |-> Retryable(what), challenge |-> Challenge(what)]
  ELSE [status |-> StatusOf[what], code |-> FallbackCode(StatusOf[what]),
        retryable |-> StatusOf[what] >= 500, challenge |-> "none"]

Render ==
  /\ stage = "raised"
  /\ stage' = "done"
  /\ answer' = Rendered(failure)
  /\ UNCHANGED <<request, endpoint, failure, hops>>

-----------------------------------------------------------------------------

\* Bound: redirects a client follows before it gives up.
MaxHops == 2

\* The client repeats the request at the redirect's target: same method, the
\* path with its last slash removed or one added.
Follow ==
  /\ stage = "done"
  /\ answer.status = 307
  /\ hops < MaxHops
  /\ request' = [request EXCEPT !.slash = ~request.slash]
  /\ stage' = "routing"
  /\ endpoint' = "unmatched"
  /\ answer' = NoAnswer
  /\ hops' = hops + 1
  /\ UNCHANGED failure

Next ==
  \/ Route
  \/ ReadBody
  \/ RequireClaims
  \/ Validate
  \/ Handle
  \/ AnswerUnmatchedPath
  \/ Render
  \/ Follow

Spec == Init /\ [][Next]_vars

-----------------------------------------------------------------------------
(* Properties *)

Done == stage = "done"

Refusal(challenge) ==
  [status |-> 401, code |-> "UNAUTHENTICATED", retryable |-> FALSE,
   challenge |-> challenge]

KeysUnavailable ==
  [status |-> 502, code |-> "UPSTREAM_ERROR", retryable |-> TRUE,
   challenge |-> "none"]

\* A caller without a valid token is told the same whatever path, method or
\* input it sent, real or not: the answer is decided by its credentials alone.
\* The one exception is a body that cannot be parsed, a 400 or a 422, which the
\* comment at app/api/v1/__init__.py:99 accepts.
AuthenticationComesFirst ==
  Done /\ (request.credentials # "bearer" \/ request.faults # {}) =>
    \/ request.credentials # "bearer" /\ answer = Refusal("Bearer")
    \/ request.credentials = "bearer" /\ answer = Refusal("invalid_token")
    \/ /\ request.credentials = "bearer" /\ request.keys = "unavailable"
       /\ answer = KeysUnavailable
    \/ ReadsBody(request.name, request.method) /\ ~request.slash
       /\ \/ request.input = "unreadable" /\ answer.code = "BAD_REQUEST"
          \/ request.input = "malformed" /\ answer.code = "INVALID_REQUEST"

\* A 401 carries a challenge and nothing else does; it blames a token exactly
\* when one was presented; and it is never given to a token for want of keys to
\* check it with: without them only what needs no key is held against it.  A
\* key id that the keys held do not know counts against the token, although the
\* realm may have published it since.
ChallengeFitsTheToken ==
  Done =>
    /\ answer.status = 401 <=> answer.challenge # "none"
    /\ answer.status = 401 =>
         (answer.challenge = "invalid_token" <=> request.credentials = "bearer")
    /\ answer.status = 401 /\ request.credentials = "bearer" =>
         \/ request.faults \cap Unusable # {}
         \/ request.keys = "unknown"
         \/ request.keys = "held" /\ request.faults # {}

\* What may have gone away by the next time the same request is sent.
Passing == {"no_keys", "throttled", "challenged", "outage", "datastore", "bug"}

\* The answer says "retry" exactly when what went wrong can pass: never for a
\* URL that names another member, whose code's row says otherwise.
RetryAdviceIsHonest ==
  Done => (answer.retryable <=> failure \in Passing)

\* INTERNAL_ERROR is a bug of this service and nothing else, so that a 4xx
\* never says the service failed.
InternalErrorIsABug ==
  Done => (answer.code = "INTERNAL_ERROR" <=> failure = "bug")

\* A redirect leads to a real route in one hop: the catch-all does not send a
\* client to another path it answers itself.
RedirectLeadsToARoute ==
  /\ hops <= 1
  /\ hops = 1 /\ Done => endpoint # "unmatched"
=============================================================================
