CONSTANTS
  Names = {"profile", "session", "absent", ""}
  Methods = {"GET", "PUT", "TRACE"}
SPECIFICATION Spec
INVARIANTS
  AuthenticationComesFirst
  ChallengeFitsTheToken
  RetryAdviceIsHonest
  InternalErrorIsABug
  RedirectLeadsToARoute
CHECK_DEADLOCK FALSE
