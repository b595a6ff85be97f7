--------------------------- MODULE LastGoodRecord ---------------------------
(***************************************************************************)
(* What the response cache promises, with no datastore in it: per profile, *)
(* one record, the last good one, known by the time it was read from       *)
(* LinkedIn.  It only moves forward, and a stale answer is that record of  *)
(* the profile asked for.                                                  *)
(***************************************************************************)
EXTENDS Naturals

CONSTANTS Profiles, Requests, Times, None

Nothing == 0       \* no record yet; no time shown

VARIABLES
  last,            \* profile -> time the last good record was read, or Nothing
  asked,           \* request -> the profile it is for, None before it arrives
  shown            \* request -> what it was answered with

vars == <<last, asked, shown>>

Kinds == {"none", "live", "stale", "error"}

Shown(kind, time) == [kind |-> kind, fetched_at |-> time]

TypeOK ==
  /\ last \in [Profiles -> Times \cup {Nothing}]
  /\ asked \in [Requests -> Profiles \cup {None}]
  /\ shown \in [Requests -> [kind : Kinds, fetched_at : Times \cup {Nothing}]]

Init ==
  /\ last = [p \in Profiles |-> Nothing]
  /\ asked = [r \in Requests |-> None]
  /\ shown = [r \in Requests |-> Shown("none", Nothing)]

Pending(r) == asked[r] # None /\ shown[r].kind = "none"

Ask(r, p) ==
  /\ asked[r] = None
  /\ asked' = [asked EXCEPT ![r] = p]
  /\ UNCHANGED <<last, shown>>

\* A retrieval becomes the last good record unless a newer one already is.
Keep(p, t) ==
  /\ t >= last[p]
  /\ last' = [last EXCEPT ![p] = t]
  /\ UNCHANGED <<asked, shown>>

AnswerLive(r, t) ==
  /\ Pending(r)
  /\ shown' = [shown EXCEPT ![r] = Shown("live", t)]
  /\ UNCHANGED <<last, asked>>

AnswerStale(r) ==
  /\ Pending(r)
  /\ last[asked[r]] # Nothing
  /\ shown' = [shown EXCEPT ![r] = Shown("stale", last[asked[r]])]
  /\ UNCHANGED <<last, asked>>

AnswerError(r) ==
  /\ Pending(r)
  /\ shown' = [shown EXCEPT ![r] = Shown("error", Nothing)]
  /\ UNCHANGED <<last, asked>>

\* Several callers may lose their connection in one step.
Disconnect(R) ==
  /\ \A r \in R : Pending(r)
  /\ shown' = [r \in Requests |-> IF r \in R THEN Shown("error", Nothing)
                                             ELSE shown[r]]
  /\ UNCHANGED <<last, asked>>

Next ==
  \/ \E p \in Profiles, t \in Times : Keep(p, t)
  \/ \E r \in Requests :
        \/ \E p \in Profiles : Ask(r, p)
        \/ \E t \in Times : AnswerLive(r, t)
        \/ AnswerStale(r)
        \/ AnswerError(r)
  \/ \E R \in SUBSET Requests : Disconnect(R)

Spec == Init /\ [][Next]_vars
=============================================================================
