------------------------------ MODULE Bootstrap ------------------------------
(***************************************************************************)
(* Starting the API: the lifespan of app/main.py over bootstrap of         *)
(* app/db.py.  Several containers start against one database, create the   *)
(* schema if it is not there, and serve only once it is.                   *)
(*                                                                         *)
(* An attempt is one transaction: the advisory lock, then the DDL.  CREATE *)
(* ... IF NOT EXISTS looks first and inserts into the catalogue afterwards, *)
(* so without the lock the second of two inserts fails.  A container may   *)
(* be killed at any moment and a connection may be lost; the backend       *)
(* behind it notices later and keeps what it holds until then.             *)
(***************************************************************************)
EXTENDS Integers

CONSTANTS
  Containers,    \* API containers, over one volume
  Statements,    \* number of BOOTSTRAP_STATEMENTS; each creates one object
  Attempts,      \* BOOTSTRAP_ATTEMPTS
  MaxFaults,     \* bound on killed containers and lost connections
  Ghost,         \* a backend whose client is gone
  None           \* nobody

ASSUME ConstantsAssumption ==
  /\ Statements \in Nat
  /\ Attempts \in Nat \ {0}
  /\ MaxFaults \in Nat

ASSUME NobodyAssumption ==
  Ghost \notin Containers /\ None \notin Containers /\ Ghost # None

Objects == 1..Statements

VARIABLES
  tables,    \* the objects committed in the volume
  holder,    \* who holds BOOTSTRAP_LOCK_ID
  created,   \* what each open transaction has created and not committed
  api,       \* each container: where its lifespan is
  faults     \* kills and lost connections so far

vars == <<tables, holder, created, api, faults>>

Container == [pc        : {"down", "connecting", "locking", "creating",
                           "inserting", "sleeping", "serving", "failed"},
              attempt   : 1..Attempts,
              statement : 1..(Statements + 1),  \* the next of BOOTSTRAP_STATEMENTS
              lost_race : BOOLEAN]              \* history: a UniqueViolation

TypeOK ==
  /\ tables \subseteq Objects
  /\ holder \in Containers \cup {Ghost, None}
  /\ created \in [Containers \cup {Ghost} -> SUBSET Objects]
  /\ api \in [Containers -> Container]
  /\ faults \in Nat

\* A new volume, or one an earlier build, with fewer statements, left behind.
Init ==
  /\ \E k \in 0..Statements : tables = 1..k
  /\ holder = None
  /\ created = [b \in Containers \cup {Ghost} |-> {}]
  /\ api = [c \in Containers |-> [pc |-> "down", attempt |-> 1, statement |-> 1,
                                  lost_race |-> FALSE]]
  /\ faults = 0

-----------------------------------------------------------------------------
Goto(c, phase) == api' = [api EXCEPT ![c].pc = phase]

\* The container starts, or Docker starts it again.
Start(c) ==
  /\ api[c].pc \in {"down", "failed"}
  /\ api' = [api EXCEPT ![c].pc = "connecting", ![c].attempt = 1]
  /\ UNCHANGED <<tables, holder, created, faults>>

Connect(c) ==
  /\ api[c].pc = "connecting"
  /\ Goto(c, "locking")
  /\ UNCHANGED <<tables, holder, created, faults>>

\* Mutant: CREATE ... IF NOT EXISTS is trusted to be safe by itself.
TakeNoLock(c) ==
  /\ api[c].pc = "locking"
  /\ api' = [api EXCEPT ![c].pc = "creating", ![c].statement = 1]
  /\ UNCHANGED <<tables, holder, created, faults>>

\* pg_advisory_xact_lock, first in the transaction.
TakeLock(c) ==
  /\ api[c].pc = "locking"
  /\ holder = None
  /\ holder' = c
  /\ api' = [api EXCEPT ![c].pc = "creating", ![c].statement = 1]
  /\ UNCHANGED <<tables, created, faults>>

\* CREATE ... IF NOT EXISTS looks for the object, and finds it ...
ObjectExists(c) ==
  LET s == api[c].statement
  IN  /\ api[c].pc = "creating"
      /\ s \in tables
      /\ api' = [api EXCEPT ![c].statement = s + 1]
      /\ UNCHANGED <<tables, holder, created, faults>>

\* ... or does not, and goes on to insert it.
ObjectMissing(c) ==
  /\ api[c].pc = "creating"
  /\ api[c].statement \in Objects \ tables
  /\ Goto(c, "inserting")
  /\ UNCHANGED <<tables, holder, created, faults>>

\* Mutant: pg_advisory_lock, which outlives the transaction, without an unlock.
ReleasedNever(c) == holder

\* The lock is the transaction's: it goes with it.
Released(c) == IF holder = c THEN None ELSE holder

\* Mutant: the last attempt failing is logged, and the container serves.
AfterFailureLenient(c) ==
  IF api[c].attempt < Attempts THEN "sleeping" ELSE "serving"

\* A psycopg.Error: another attempt after a pause, or a RuntimeError that
\* aborts the startup.
AfterFailure(c) ==
  IF api[c].attempt < Attempts THEN "sleeping" ELSE "failed"

\* Mutant: autocommit, every statement a transaction of its own.
InsertAlone(c) ==
  LET s == api[c].statement
  IN  /\ api[c].pc = "inserting"
      /\ s \notin tables
      /\ tables' = tables \cup {s}
      /\ api' = [api EXCEPT ![c].pc = "creating", ![c].statement = s + 1]
      /\ UNCHANGED <<created, holder, faults>>

\* The insert waits for another transaction that has inserted the same object.
\* If the object appeared since the look, it is a UniqueViolation.
Insert(c) ==
  LET s == api[c].statement
  IN  /\ api[c].pc = "inserting"
      /\ \A b \in Containers \cup {Ghost} : s \notin created[b]
      /\ IF s \notin tables
           THEN /\ created' = [created EXCEPT ![c] = @ \cup {s}]
                /\ api' = [api EXCEPT ![c].pc = "creating", ![c].statement = s + 1]
                /\ UNCHANGED holder
           ELSE /\ created' = [created EXCEPT ![c] = {}]
                /\ api' = [api EXCEPT ![c].pc = AfterFailure(c),
                                      ![c].lost_race = TRUE]
                /\ holder' = Released(c)
      /\ UNCHANGED <<tables, faults>>

Sleep(c) ==
  /\ api[c].pc = "sleeping"
  /\ api' = [api EXCEPT ![c].pc = "connecting", ![c].attempt = @ + 1]
  /\ UNCHANGED <<tables, holder, created, faults>>

AtCommit(c) == api[c].pc = "creating" /\ api[c].statement = Statements + 1

\* Leaving the `with`: the DDL becomes visible and the lock is free, at once.
Commit(c) ==
  /\ AtCommit(c)
  /\ tables' = tables \cup created[c]
  /\ created' = [created EXCEPT ![c] = {}]
  /\ holder' = Released(c)
  /\ Goto(c, "serving")
  /\ UNCHANGED faults

-----------------------------------------------------------------------------
(* Faults *)

InTransaction(c) == api[c].pc \in {"locking", "creating", "inserting"}

\* The server rolls back at once, or its backend has yet to notice.
RolledBack(c) ==
  /\ created' = [created EXCEPT ![c] = {}]
  /\ holder' = Released(c)
  /\ UNCHANGED tables

LeftBehind(c) ==
  /\ holder = c
  /\ created' = [created EXCEPT ![c] = {}, ![Ghost] = created[c]]
  /\ holder' = Ghost
  /\ UNCHANGED tables

\* It was committing: the commit is done, and nobody is told.
CommitUnconfirmed(c) ==
  /\ AtCommit(c)
  /\ tables' = tables \cup created[c]
  /\ created' = [created EXCEPT ![c] = {}]
  /\ holder' = Released(c)

ConnectionLost(c) == RolledBack(c) \/ LeftBehind(c) \/ CommitUnconfirmed(c)

\* A psycopg.Error that is the connection's: refused, reset, or restarted.
AttemptFails(c) ==
  /\ faults < MaxFaults
  /\ \/ api[c].pc = "connecting" /\ UNCHANGED <<tables, holder, created>>
     \/ InTransaction(c) /\ ConnectionLost(c)
  /\ Goto(c, AfterFailure(c))
  /\ faults' = faults + 1

\* The container is killed, wherever it is.
Kill(c) ==
  /\ faults < MaxFaults
  /\ api[c].pc \notin {"down", "failed"}
  /\ \/ ~InTransaction(c) /\ UNCHANGED <<tables, holder, created>>
     \/ InTransaction(c) /\ ConnectionLost(c)
  /\ Goto(c, "down")
  /\ faults' = faults + 1

\* The backend finds its client gone and rolls back.
GhostRollsBack ==
  /\ holder = Ghost
  /\ created' = [created EXCEPT ![Ghost] = {}]
  /\ holder' = None
  /\ UNCHANGED <<tables, api, faults>>

-----------------------------------------------------------------------------
ContainerStep(c) ==
  \/ Start(c) \/ Connect(c) \/ TakeLock(c)
  \/ ObjectExists(c) \/ ObjectMissing(c) \/ Insert(c)
  \/ Commit(c) \/ Sleep(c)

Next ==
  \/ \E c \in Containers : ContainerStep(c) \/ AttemptFails(c) \/ Kill(c)
  \/ GhostRollsBack

Spec == Init /\ [][Next]_vars

\* The code goes on where it is, Docker restarts what exited (`restart:
\* unless-stopped`), and a backend finds out that its client is gone.
Fairness ==
  /\ \A c \in Containers : WF_vars(ContainerStep(c))
  /\ WF_vars(GhostRollsBack)

FairSpec == Spec /\ Fairness

-----------------------------------------------------------------------------
(* Properties *)

\* Whoever answers requests has its schema, however the containers' starts,
\* deaths and lost commits overlap (lifespan, app/main.py).
ServingMeansSchema ==
  \A c \in Containers : api[c].pc = "serving" => tables = Objects

\* Two containers starting at once never trip over each other: the warning in
\* the log is about Postgres, not about the other container
\* (BOOTSTRAP_LOCK_ID, app/db.py).
RaceNeverLost == \A c \in Containers : ~api[c].lost_race

\* The volume goes from what an earlier build left straight to the whole
\* schema: nobody finds half of it, not even after a kill during the DDL.
NeverHalfASchema == [][tables' # tables => tables' = Objects]_vars

\* Once the faults are over every container serves: no lock is left behind by
\* a killed one, and running out of attempts is not for ever.
EveryContainerServes ==
  \A c \in Containers : <>[](api[c].pc = "serving")
=============================================================================
