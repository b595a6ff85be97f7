--------------------------- MODULE SessionRegister ---------------------------
(***************************************************************************)
(* What the session store promises of the verdicts it shows, with no       *)
(* cookies, statements or processes in it: per subject, the session that   *)
(* is stored and what is known of it.  Storing one forgets what was known  *)
(* of another, and nothing is learned that was not said of the session     *)
(* stored now.                                                             *)
(***************************************************************************)
CONSTANTS
  Subjects,
  Stamps,        \* what tells one stored session from the next
  None           \* nothing stored

VARIABLES
  stored,        \* subject -> the stamp of its session, or None
  known,         \* subject -> what is known of it
  said           \* history: whose session, which one, and what was said of it

vars == <<stored, known, said>>

Sayings  == {"true", "false"}
Verdicts == Sayings \cup {"null"}

\* Any sessions may be stored, with anything known of them.
Init ==
  /\ stored \in [Subjects -> Stamps \cup {None}]
  /\ known \in [Subjects -> Verdicts]
  /\ said = {}

Store(s) ==
  /\ \E t \in Stamps : stored' = [stored EXCEPT ![s] = t]
  /\ known' = [known EXCEPT ![s] = "null"]
  /\ UNCHANGED said

Hear(s) ==
  /\ \E t \in Stamps, v \in Sayings : said' = said \cup {<<s, t, v>>}
  /\ UNCHANGED <<stored, known>>

Learn(s) ==
  /\ \E v \in Sayings : /\ <<s, stored[s], v>> \in said
                        /\ known' = [known EXCEPT ![s] = v]
  /\ UNCHANGED <<stored, said>>

Next == \E s \in Subjects : Store(s) \/ Hear(s) \/ Learn(s)

Spec == Init /\ [][Next]_vars
=============================================================================
