SPECIFICATION Spec

CONSTANTS
  Subjects = {s1, s2}
  Cookies = {c1, c2}
  BadCookies = {bad}
  Keys = {k1, k2}
  Puts = {p1, p2}
  Uses = {u1}
  MaxTime = 5
  MinTick = 1
  None = None

INVARIANTS
  VerdictBelongsToCookie
  CredentialSurvivesVerification
  ActsUnderOwnCookie

PROPERTY
  ImplementsSessionRegister

SYMMETRY Symmetry
