--------------------------- MODULE BootstrapProofs ---------------------------
(***************************************************************************)
(* Theorems about Bootstrap, for any number of containers, statements,     *)
(* attempts and faults.                                                    *)
(***************************************************************************)
EXTENDS Bootstrap, TLAPS

Backends == Containers \cup {Ghost}

InDDL(c) == api[c].pc \in {"creating", "inserting"}

\* Whoever is at the DDL holds the lock, and nobody else but a ghost does.
LockOK == \A c \in Containers : InDDL(c) <=> holder = c

\* Only the holder has created anything it has not committed.
CreatedOK == \A b \in Backends : holder # b => created[b] = {}

\* What the statements behind it were to create is there or its own.
StatementsOK ==
  \A c \in Containers :
     InDDL(c) => /\ 1..(api[c].statement - 1) \subseteq tables \cup created[c]
                 /\ api[c].pc = "inserting" => api[c].statement \in Objects \ tables

\* Another attempt is slept on only while there is one.
AttemptsOK == \A c \in Containers : api[c].pc = "sleeping" => api[c].attempt < Attempts

Inv == /\ TypeOK /\ LockOK /\ CreatedOK /\ StatementsOK /\ AttemptsOK
       /\ ServingMeansSchema /\ RaceNeverLost

\* A new or an older volume satisfies the invariant.
LEMMA InvInit == Init => Inv
<1> SUFFICES ASSUME Init PROVE Inv
  OBVIOUS
<1>1. \A c \in Containers : api[c] \in Container /\ api[c].pc = "down" /\ ~api[c].lost_race
  <2> DEFINE rec == [pc |-> "down", attempt |-> 1, statement |-> 1,
                     lost_race |-> FALSE]
  <2>1. 1 \in 1..Attempts /\ 1 \in 1..(Statements + 1)
    BY ConstantsAssumption
  <2>2. rec \in Container /\ rec.pc = "down" /\ ~rec.lost_race
    BY <2>1 DEF Container
  <2>3. \A c \in Containers : api[c] = rec
    BY DEF Init
  <2> HIDE DEF rec
  <2> QED BY <2>2, <2>3
<1>2. TypeOK
  <2>1. tables \subseteq Objects
    BY ConstantsAssumption DEF Init, Objects
  <2> QED BY <1>1, <2>1, NobodyAssumption DEF Init, TypeOK
<1>3. LockOK /\ CreatedOK /\ StatementsOK
  BY <1>1, NobodyAssumption DEF Init, LockOK, CreatedOK, StatementsOK, InDDL, Backends
<1>4. AttemptsOK /\ ServingMeansSchema /\ RaceNeverLost
  BY <1>1 DEF AttemptsOK, ServingMeansSchema, RaceNeverLost
<1> QED BY <1>2, <1>3, <1>4 DEF Inv

\* A container moves about outside the DDL: nothing but its record changes.
LEMMA MovesOutside ==
  ASSUME Inv, NEW c \in Containers, NEW rec \in Container,
         api' = [api EXCEPT ![c] = rec],
         UNCHANGED <<tables, holder, created>>, faults' \in Nat,
         ~InDDL(c), rec.pc \notin {"creating", "inserting"},
         rec.pc = "sleeping" => rec.attempt < Attempts,
         rec.pc = "serving" => tables = Objects,
         ~rec.lost_race
  PROVE  Inv'
<1>1. api'[c] = rec /\ \A d \in Containers \ {c} : api'[d] = api[d]
  BY DEF Inv, TypeOK
<1>2. TypeOK'
  BY DEF Inv, TypeOK
<1>3. LockOK' /\ CreatedOK' /\ StatementsOK'
  BY <1>1 DEF Inv, LockOK, CreatedOK, StatementsOK, InDDL
<1>4. AttemptsOK' /\ ServingMeansSchema' /\ RaceNeverLost'
  BY <1>1 DEF Inv, AttemptsOK, ServingMeansSchema, RaceNeverLost
<1> QED BY <1>2, <1>3, <1>4 DEF Inv

\* A container goes on with the DDL, under the lock it holds or takes.
LEMMA MovesInside ==
  ASSUME Inv, NEW c \in Containers, NEW rec \in Container, NEW made \in SUBSET Objects,
         api' = [api EXCEPT ![c] = rec],
         holder \in {c, None}, holder' = c,
         created' = [created EXCEPT ![c] = made],
         UNCHANGED <<tables, faults>>,
         rec.pc \in {"creating", "inserting"},
         1..(rec.statement - 1) \subseteq tables \cup made,
         rec.pc = "inserting" => rec.statement \in Objects \ tables,
         ~rec.lost_race
  PROVE  Inv'
<1>1. api'[c] = rec /\ \A d \in Containers \ {c} : api'[d] = api[d]
  BY DEF Inv, TypeOK
<1>2. created'[c] = made /\ \A b \in Backends \ {c} : created'[b] = created[b]
  BY DEF Inv, TypeOK, Backends
<1>3. TypeOK'
  BY DEF Inv, TypeOK
<1>4. LockOK'
  BY <1>1, NobodyAssumption DEF Inv, LockOK, InDDL
<1>5. CreatedOK'
  BY <1>2, NobodyAssumption DEF Inv, CreatedOK, Backends
<1>6. StatementsOK'
  BY <1>1, <1>2, NobodyAssumption DEF Inv, LockOK, StatementsOK, InDDL
<1>7. AttemptsOK' /\ ServingMeansSchema' /\ RaceNeverLost'
  BY <1>1 DEF Inv, AttemptsOK, ServingMeansSchema, RaceNeverLost
<1> QED BY <1>3, <1>4, <1>5, <1>6, <1>7 DEF Inv

\* The holder leaves the DDL: committed, rolled back, or left to a ghost.
LEMMA MovesOut ==
  ASSUME Inv, NEW c \in Containers, NEW rec \in Container, holder = c,
         api' = [api EXCEPT ![c] = rec],
         holder' \in {None, Ghost}, created'[c] = {},
         created' \in [Backends -> SUBSET Objects],
         \A b \in Backends \ {c} : created'[b] = created[b] \/ b = holder',
         tables' = tables \/ tables' = Objects, faults' \in Nat,
         rec.pc \notin {"creating", "inserting"},
         rec.pc = "sleeping" => rec.attempt < Attempts,
         rec.pc = "serving" => tables' = Objects,
         ~rec.lost_race
  PROVE  Inv'
<1>1. api'[c] = rec /\ \A d \in Containers \ {c} : api'[d] = api[d]
  BY DEF Inv, TypeOK
<1>2. TypeOK'
  BY DEF Inv, TypeOK, Backends
<1>3. \A d \in Containers : ~InDDL(d)'
  BY <1>1 DEF Inv, LockOK, InDDL
<1>4. LockOK' /\ StatementsOK'
  BY <1>3, NobodyAssumption DEF LockOK, StatementsOK, InDDL
<1>5. CreatedOK'
  BY DEF Inv, CreatedOK
<1>6. AttemptsOK' /\ ServingMeansSchema' /\ RaceNeverLost'
  BY <1>1 DEF Inv, TypeOK, AttemptsOK, ServingMeansSchema, RaceNeverLost
<1> QED BY <1>2, <1>4, <1>5, <1>6 DEF Inv

\* A commit comes when every statement is behind: it makes the schema whole.
LEMMA CommitMakesSchema ==
  ASSUME Inv, NEW c \in Containers, AtCommit(c)
  PROVE  holder = c /\ tables \cup created[c] = Objects
<1>1. holder = c
  BY DEF Inv, LockOK, InDDL, AtCommit
<1>2. Objects \subseteq tables \cup created[c]
  BY ConstantsAssumption DEF Inv, StatementsOK, InDDL, AtCommit, Objects
<1> QED BY <1>1, <1>2 DEF Inv, TypeOK

\* The actions of a container on its way, one by one.
LEMMA ContainerStepKeeps ==
  ASSUME Inv, NEW c \in Containers, ContainerStep(c)
  PROVE  Inv'
<1>0. /\ api[c] \in Container /\ api \in [Containers -> Container]
      /\ faults \in Nat /\ ~api[c].lost_race
  BY DEF Inv, TypeOK, RaceNeverLost
<1>1. CASE Start(c)
  <2> DEFINE rec == [api[c] EXCEPT !.pc = "connecting", !.attempt = 1]
  <2>0. 1 \in 1..Attempts
    BY ConstantsAssumption
  <2>1. rec \in Container /\ rec.pc = "connecting" /\ ~rec.lost_race
    BY <1>0, <2>0 DEF Container
  <2>2. api' = [api EXCEPT ![c] = rec] /\ ~InDDL(c)
    BY <1>0, <1>1 DEF Start, InDDL
  <2> QED BY <1>0, <1>1, <2>1, <2>2, MovesOutside DEF Start
<1>2. CASE Connect(c)
  <2> DEFINE rec == [api[c] EXCEPT !.pc = "locking"]
  <2>1. rec \in Container /\ rec.pc = "locking" /\ ~rec.lost_race
    BY <1>0 DEF Container
  <2>2. api' = [api EXCEPT ![c] = rec] /\ ~InDDL(c)
    BY <1>0, <1>2 DEF Connect, Goto, InDDL
  <2> QED BY <1>0, <1>2, <2>1, <2>2, MovesOutside DEF Connect
<1>3. CASE TakeLock(c)
  <2> DEFINE rec == [api[c] EXCEPT !.pc = "creating", !.statement = 1]
  <2>0. 1 \in 1..(Statements + 1) /\ 1..(1 - 1) = {}
    BY ConstantsAssumption
  <2>1. rec \in Container /\ rec.pc = "creating" /\ rec.statement = 1
        /\ ~rec.lost_race
    BY <1>0, <2>0 DEF Container
  <2>2. api' = [api EXCEPT ![c] = rec]
    BY <1>0, <1>3 DEF TakeLock
  <2>3. created' = [created EXCEPT ![c] = created[c]] /\ created[c] \in SUBSET Objects
    BY <1>3 DEF TakeLock, Inv, TypeOK
  <2>4. /\ 1..(rec.statement - 1) \subseteq tables \cup created[c]
        /\ holder = None /\ holder' = c /\ UNCHANGED <<tables, faults>>
    BY <1>3, <2>0, <2>1 DEF TakeLock
  <2> HIDE DEF rec
  <2> QED BY <2>1, <2>2, <2>3, <2>4, MovesInside
<1>4. CASE ObjectExists(c)
  <2> DEFINE s == api[c].statement
             rec == [api[c] EXCEPT !.statement = s + 1]
  <2>1. s \in 1..Statements /\ s \in tables
    BY <1>4 DEF ObjectExists, Inv, TypeOK, Objects
  <2>2. /\ rec \in Container /\ rec.pc = "creating" /\ rec.statement = s + 1
        /\ ~rec.lost_race
    BY <1>0, <1>4, <2>1, ConstantsAssumption DEF ObjectExists, Container
  <2>3. api' = [api EXCEPT ![c] = rec]
    BY <1>0, <1>4 DEF ObjectExists
  <2>4. created' = [created EXCEPT ![c] = created[c]] /\ created[c] \in SUBSET Objects
    BY <1>4 DEF ObjectExists, Inv, TypeOK
  <2>5. holder = c /\ 1..(s - 1) \subseteq tables \cup created[c]
    BY <1>4 DEF ObjectExists, Inv, LockOK, StatementsOK, InDDL
  <2>6. 1..(rec.statement - 1) \subseteq tables \cup created[c]
    BY <2>1, <2>2, <2>5, ConstantsAssumption
  <2> QED BY <1>4, <2>2, <2>3, <2>4, <2>5, <2>6, MovesInside DEF ObjectExists
<1>5. CASE ObjectMissing(c)
  <2> DEFINE rec == [api[c] EXCEPT !.pc = "inserting"]
  <2>1. /\ rec \in Container /\ rec.pc = "inserting"
        /\ rec.statement = api[c].statement /\ ~rec.lost_race
    BY <1>0 DEF Container
  <2>2. api' = [api EXCEPT ![c] = rec]
    BY <1>0, <1>5 DEF ObjectMissing, Goto
  <2>3. created' = [created EXCEPT ![c] = created[c]] /\ created[c] \in SUBSET Objects
    BY <1>5 DEF ObjectMissing, Inv, TypeOK
  <2>4. holder = c /\ 1..(rec.statement - 1) \subseteq tables \cup created[c]
    BY <1>5, <2>1 DEF ObjectMissing, Inv, LockOK, StatementsOK, InDDL
  <2> QED BY <1>5, <2>1, <2>2, <2>3, <2>4, MovesInside DEF ObjectMissing
<1>6. CASE Insert(c)
  <2> DEFINE s == api[c].statement
             rec == [api[c] EXCEPT !.pc = "creating", !.statement = s + 1]
             made == created[c] \cup {s}
  <2>1. /\ holder = c /\ s \in Objects \ tables
        /\ 1..(s - 1) \subseteq tables \cup created[c]
    BY <1>6 DEF Insert, Inv, LockOK, StatementsOK, InDDL
  <2>2. /\ api' = [api EXCEPT ![c].pc = "creating", ![c].statement = s + 1]
        /\ created' = [created EXCEPT ![c] = @ \cup {s}]
        /\ UNCHANGED <<tables, holder, faults>>
    BY <1>6, <2>1 DEF Insert
  <2>0. s + 1 \in 1..(Statements + 1)
    BY <2>1, ConstantsAssumption DEF Objects
  <2>3. /\ rec \in Container /\ rec.pc = "creating" /\ rec.statement = s + 1
        /\ ~rec.lost_race
    BY <1>0, <2>0 DEF Container
  <2>4. api' = [api EXCEPT ![c] = rec]
    BY <1>0, <2>2
  <2>5. created' = [created EXCEPT ![c] = made] /\ made \in SUBSET Objects
    BY <2>1, <2>2 DEF Inv, TypeOK
  <2>6. 1..(rec.statement - 1) \subseteq tables \cup made
    BY <2>1, <2>3, ConstantsAssumption DEF Objects
  <2> QED BY <2>1, <2>2, <2>3, <2>4, <2>5, <2>6, MovesInside
<1>7. CASE Commit(c)
  <2> DEFINE rec == [api[c] EXCEPT !.pc = "serving"]
  <2>1. holder = c /\ tables \cup created[c] = Objects
    BY <1>7, CommitMakesSchema DEF Commit
  <2>2. rec \in Container /\ rec.pc = "serving" /\ ~rec.lost_race
    BY <1>0 DEF Container
  <2>3. /\ api' = [api EXCEPT ![c] = rec] /\ tables' = Objects /\ holder' = None
        /\ created' = [created EXCEPT ![c] = {}] /\ faults' = faults
    BY <1>0, <1>7, <2>1 DEF Commit, Goto, Released
  <2>4. created' \in [Backends -> SUBSET Objects] /\ created'[c] = {}
        /\ \A b \in Backends \ {c} : created'[b] = created[b]
    BY <2>3 DEF Inv, TypeOK, Backends
  <2> QED BY <1>0, <2>1, <2>2, <2>3, <2>4, MovesOut
<1>8. CASE Sleep(c)
  <2> DEFINE rec == [api[c] EXCEPT !.pc = "connecting", !.attempt = @ + 1]
  <2>1. api[c].attempt < Attempts /\ api[c].attempt \in 1..Attempts
    BY <1>0, <1>8 DEF Sleep, Inv, AttemptsOK, Container
  <2>2. api[c].attempt + 1 \in 1..Attempts
    BY <2>1, ConstantsAssumption
  <2>3. rec \in Container /\ rec.pc = "connecting" /\ ~rec.lost_race
    BY <1>0, <2>2 DEF Container
  <2>4. api' = [api EXCEPT ![c] = rec] /\ ~InDDL(c)
    BY <1>0, <1>8 DEF Sleep, InDDL
  <2> QED BY <1>0, <1>8, <2>3, <2>4, MovesOutside DEF Sleep
<1> QED BY <1>1, <1>2, <1>3, <1>4, <1>5, <1>6, <1>7, <1>8 DEF ContainerStep

\* A fault takes a container out of wherever it was.
LEMMA FaultKeeps ==
  ASSUME Inv, NEW c \in Containers, NEW phase \in {"down", "sleeping", "failed"},
         phase = "sleeping" => api[c].attempt < Attempts,
         Goto(c, phase), faults' = faults + 1,
         \/ ~InTransaction(c) /\ UNCHANGED <<tables, holder, created>>
         \/ InTransaction(c) /\ ConnectionLost(c)
  PROVE  Inv'
<1> DEFINE rec == [api[c] EXCEPT !.pc = phase]
<1>1. /\ rec \in Container /\ rec.pc = phase /\ rec.attempt = api[c].attempt
      /\ ~rec.lost_race /\ faults' \in Nat /\ api' = [api EXCEPT ![c] = rec]
  BY DEF Inv, TypeOK, Container, RaceNeverLost, Goto
<1>2. ASSUME ~InDDL(c) PROVE Inv'
  <2>1. holder # c /\ created[c] = {}
    BY <1>2 DEF Inv, LockOK, CreatedOK, Backends
  <2>2. UNCHANGED <<tables, holder, created>>
    <3>1. CASE ~InTransaction(c)
      BY <3>1 DEF InTransaction
    <3>2. CASE RolledBack(c)
      BY <2>1, <3>2 DEF RolledBack, Released, Inv, TypeOK
    <3>3. CASE LeftBehind(c)
      BY <2>1, <3>3 DEF LeftBehind
    <3>4. CASE CommitUnconfirmed(c)
      BY <1>2, <3>4 DEF CommitUnconfirmed, AtCommit, InDDL
    <3> QED BY <3>1, <3>2, <3>3, <3>4 DEF ConnectionLost
  <2> QED BY <1>1, <1>2, <2>2, MovesOutside
<1>3. ASSUME InDDL(c) PROVE Inv'
  <2>1. holder = c /\ ConnectionLost(c)
    BY <1>3 DEF Inv, LockOK, InDDL, InTransaction
  <2>2. CASE RolledBack(c)
    <3>1. /\ created' = [created EXCEPT ![c] = {}] /\ holder' = None
          /\ tables' = tables
      BY <2>1, <2>2 DEF RolledBack, Released
    <3>2. created' \in [Backends -> SUBSET Objects] /\ created'[c] = {}
          /\ \A b \in Backends \ {c} : created'[b] = created[b]
      BY <3>1 DEF Inv, TypeOK, Backends
    <3> QED BY <1>1, <2>1, <3>1, <3>2, MovesOut
  <2>3. CASE LeftBehind(c)
    <3>1. /\ created' = [created EXCEPT ![c] = {}, ![Ghost] = created[c]]
          /\ holder' = Ghost /\ tables' = tables
      BY <2>3 DEF LeftBehind
    <3>2. created' \in [Backends -> SUBSET Objects] /\ created'[c] = {}
          /\ \A b \in Backends \ {c} : created'[b] = created[b] \/ b = Ghost
      BY <3>1, NobodyAssumption DEF Inv, TypeOK, Backends
    <3> QED BY <1>1, <2>1, <3>1, <3>2, MovesOut
  <2>4. CASE CommitUnconfirmed(c)
    <3>1. tables \cup created[c] = Objects
      BY <2>4, CommitMakesSchema DEF CommitUnconfirmed
    <3>2. /\ created' = [created EXCEPT ![c] = {}] /\ holder' = None
          /\ tables' = Objects
      BY <2>1, <2>4, <3>1 DEF CommitUnconfirmed, Released
    <3>3. created' \in [Backends -> SUBSET Objects] /\ created'[c] = {}
          /\ \A b \in Backends \ {c} : created'[b] = created[b]
      BY <3>2 DEF Inv, TypeOK, Backends
    <3> QED BY <1>1, <2>1, <3>2, <3>3, MovesOut
  <2> QED BY <2>1, <2>2, <2>3, <2>4 DEF ConnectionLost
<1> QED BY <1>2, <1>3

\* The ghost goes, and takes its lock with it.
LEMMA GhostKeeps == Inv /\ GhostRollsBack => Inv'
<1> SUFFICES ASSUME Inv, GhostRollsBack PROVE Inv'
  OBVIOUS
<1>1. TypeOK'
  BY NobodyAssumption DEF GhostRollsBack, Inv, TypeOK
<1>2. \A c \in Containers : ~InDDL(c)
  BY NobodyAssumption DEF GhostRollsBack, Inv, LockOK
<1>3. LockOK' /\ StatementsOK' /\ AttemptsOK' /\ ServingMeansSchema' /\ RaceNeverLost'
  BY <1>2, NobodyAssumption
     DEF GhostRollsBack, Inv, LockOK, StatementsOK, AttemptsOK, ServingMeansSchema,
         RaceNeverLost, InDDL
<1>4. CreatedOK'
  BY DEF GhostRollsBack, Inv, TypeOK, CreatedOK, Backends
<1> QED BY <1>1, <1>3, <1>4 DEF Inv

\* Every step keeps the invariant.
LEMMA InvStep == Inv /\ [Next]_vars => Inv'
<1> SUFFICES ASSUME Inv, [Next]_vars PROVE Inv'
  OBVIOUS
<1>1. ASSUME NEW c \in Containers, ContainerStep(c) PROVE Inv'
  BY <1>1, ContainerStepKeeps
<1>2. ASSUME NEW c \in Containers, AttemptFails(c) PROVE Inv'
  <2>1. /\ AfterFailure(c) \in {"down", "sleeping", "failed"}
        /\ AfterFailure(c) = "sleeping" => api[c].attempt < Attempts
    BY DEF AfterFailure
  <2>2. \/ ~InTransaction(c) /\ UNCHANGED <<tables, holder, created>>
        \/ InTransaction(c) /\ ConnectionLost(c)
    BY <1>2 DEF AttemptFails, InTransaction
  <2> QED BY <1>2, <2>1, <2>2, FaultKeeps DEF AttemptFails
<1>3. ASSUME NEW c \in Containers, Kill(c) PROVE Inv'
  BY <1>3, FaultKeeps DEF Kill
<1>4. CASE UNCHANGED vars
  BY <1>4 DEF vars, Inv, TypeOK, LockOK, CreatedOK, StatementsOK, AttemptsOK,
              ServingMeansSchema, RaceNeverLost, InDDL
<1> QED BY <1>1, <1>2, <1>3, <1>4, GhostKeeps DEF Next

\* The tables change only by a commit that makes them whole.
LEMMA CommitsAreWhole ==
  ASSUME Inv, [Next]_vars, tables' # tables
  PROVE  tables' = Objects
<1>1. PICK c \in Containers : /\ AtCommit(c)
                              /\ tables' = tables \cup created[c]
  <2>1. ASSUME NEW c \in Containers, ContainerStep(c) PROVE Commit(c)
    <3>1. ~Insert(c)
      BY DEF Insert
    <3> QED BY <2>1, <3>1 DEF ContainerStep, Start, Connect, TakeLock, ObjectExists,
                            ObjectMissing, Sleep
  <2>2. ASSUME NEW c \in Containers, AttemptFails(c) \/ Kill(c)
        PROVE  CommitUnconfirmed(c)
    BY <2>2 DEF AttemptFails, Kill, ConnectionLost, RolledBack, LeftBehind
  <2>3. ~GhostRollsBack
    BY DEF GhostRollsBack
  <2> QED BY <2>1, <2>2, <2>3 DEF Next, vars, Commit, CommitUnconfirmed
<1> QED BY <1>1, CommitMakesSchema

-----------------------------------------------------------------------------
\* The invariant the theorems below rest on: a container at the DDL holds the
\* lock, and what it has left behind is in the tables or its own.
THEOREM InvCorrect == Spec => []Inv
BY InvInit, InvStep, PTL DEF Spec

\* The state of the volume, the lock and the containers keeps its type.
THEOREM TypeCorrect == Spec => []TypeOK
<1>1. Inv => TypeOK
  BY DEF Inv
<1> QED BY <1>1, InvCorrect, PTL

\* A container that serves has its whole schema, for any number of containers
\* and faults, kills in the middle of the DDL and unconfirmed commits included.
THEOREM SchemaFirst == Spec => []ServingMeansSchema
<1>1. Inv => ServingMeansSchema
  BY DEF Inv
<1> QED BY <1>1, InvCorrect, PTL

\* No container ever loses the race CREATE ... IF NOT EXISTS leaves open.
THEOREM NoRace == Spec => []RaceNeverLost
<1>1. Inv => RaceNeverLost
  BY DEF Inv
<1> QED BY <1>1, InvCorrect, PTL

\* The volume goes from what an older build left to the whole schema at once.
THEOREM WholeSchema == Spec => NeverHalfASchema
<1>1. Inv /\ [Next]_vars => [tables' # tables => tables' = Objects]_vars
  BY CommitsAreWhole
<1> QED BY <1>1, InvCorrect, PTL DEF Spec, NeverHalfASchema

-----------------------------------------------------------------------------
(* No start waits in vain *)

\* A container that nothing holds up: its next statement can be carried out.
CanGoOn(c) ==
  \/ api[c].pc \in {"down", "failed", "connecting", "sleeping"}
  \/ api[c].pc = "locking" /\ holder = None
  \/ api[c].pc = "creating" /\ (api[c].statement \in Objects \/ AtCommit(c))
  \/ /\ api[c].pc = "inserting"
     /\ \A b \in Backends : api[c].statement \notin created[b]

\* A container serves, goes on, or waits for a ghost or for another that does.
NobodyStuck ==
  \A c \in Containers :
     \/ api[c].pc = "serving" \/ CanGoOn(c)
     \/ holder = Ghost
     \/ \E d \in Containers : holder = d /\ CanGoOn(d)

\* What a transaction has created is behind it.
CreatedBehind ==
  \A c \in Containers :
     InDDL(c) => created[c] \subseteq 1..(api[c].statement - 1)

\* One container's step leaves the others' transactions as they are.
LEMMA BehindOne ==
  ASSUME CreatedBehind, NEW c \in Containers,
         \A d \in Containers \ {c} : api'[d] = api[d] /\ created'[d] = created[d],
         InDDL(c)' => created'[c] \subseteq 1..(api'[c].statement - 1)
  PROVE  CreatedBehind'
BY DEF CreatedBehind, InDDL

\* Every step puts what it creates behind the transaction it belongs to.
LEMMA BehindStep ==
  ASSUME Inv, CreatedBehind, [Next]_vars
  PROVE  CreatedBehind'
<1>0. /\ api \in [Containers -> Container] /\ created \in [Backends -> SUBSET Objects]
      /\ \A c \in Containers : ~InDDL(c) => created[c] = {}
      /\ \A c \in Containers : api[c].statement \in 1..(Statements + 1)
  BY DEF Inv, TypeOK, LockOK, CreatedOK, Backends, Container
<1>1. ASSUME NEW c \in Containers, ContainerStep(c) PROVE CreatedBehind'
  <2>1. CASE Start(c) \/ Connect(c) \/ Sleep(c)
    <3>1. ~InDDL(c)' /\ created' = created
          /\ \A d \in Containers \ {c} : api'[d] = api[d]
      BY <1>0, <2>1 DEF Start, Connect, Sleep, Goto, InDDL, Container
    <3> QED BY <3>1, BehindOne
  <2>2. CASE TakeLock(c)
    <3>1. /\ created' = created /\ created[c] = {}
          /\ \A d \in Containers \ {c} : api'[d] = api[d]
      BY <1>0, <2>2 DEF TakeLock, InDDL
    <3> QED BY <3>1, BehindOne
  <2>3. CASE ObjectExists(c) \/ ObjectMissing(c)
    <3>1. /\ created' = created /\ InDDL(c)
          /\ api'[c].statement >= api[c].statement
          /\ api'[c].statement \in Nat /\ api[c].statement \in Nat
          /\ \A d \in Containers \ {c} : api'[d] = api[d]
      BY <1>0, <2>3, ConstantsAssumption
         DEF ObjectExists, ObjectMissing, Goto, InDDL, Container
    <3>2. created[c] \subseteq 1..(api[c].statement - 1)
      BY <3>1 DEF CreatedBehind
    <3> QED BY <3>1, <3>2, BehindOne
  <2>4. CASE Insert(c)
    <3> DEFINE s == api[c].statement
    <3>1. InDDL(c) /\ s \in Objects \ tables /\ s \in Nat
      BY <1>0, <2>4, ConstantsAssumption
         DEF Insert, InDDL, Inv, StatementsOK, Objects
    <3>2. /\ created' = [created EXCEPT ![c] = @ \cup {s}]
          /\ api' = [api EXCEPT ![c].pc = "creating", ![c].statement = s + 1]
      BY <2>4, <3>1 DEF Insert
    <3>3. /\ created'[c] = created[c] \cup {s} /\ api'[c].statement = s + 1
          /\ \A d \in Containers \ {c} : api'[d] = api[d] /\ created'[d] = created[d]
      BY <1>0, <3>2 DEF Backends, Container
    <3>4. created[c] \subseteq 1..(s - 1)
      BY <3>1 DEF CreatedBehind
    <3>5. created'[c] \subseteq 1..(api'[c].statement - 1)
      BY <3>1, <3>3, <3>4 DEF Objects
    <3> QED BY <3>3, <3>5, BehindOne
  <2>5. CASE Commit(c)
    <3>1. /\ created'[c] = {}
          /\ \A d \in Containers \ {c} : api'[d] = api[d] /\ created'[d] = created[d]
      BY <1>0, <2>5 DEF Commit, Goto, Backends
    <3> QED BY <3>1, BehindOne
  <2> QED BY <1>1, <2>1, <2>2, <2>3, <2>4, <2>5 DEF ContainerStep
<1>2. ASSUME NEW c \in Containers, AttemptFails(c) \/ Kill(c) PROVE CreatedBehind'
  <2>1. PICK phase \in {"down", "sleeping", "failed"} : Goto(c, phase)
    BY <1>2 DEF AttemptFails, Kill, AfterFailure
  <2>2. ~InDDL(c)' /\ \A d \in Containers \ {c} : api'[d] = api[d]
    BY <1>0, <2>1 DEF Goto, InDDL, Container
  <2>3. \A d \in Containers \ {c} : created'[d] = created[d]
    BY <1>0, <1>2, NobodyAssumption
       DEF AttemptFails, Kill, ConnectionLost, RolledBack, LeftBehind,
           CommitUnconfirmed, Backends
  <2> QED BY <2>2, <2>3, BehindOne
<1>3. CASE GhostRollsBack
  BY <1>0, <1>3, NobodyAssumption DEF GhostRollsBack, CreatedBehind, InDDL, Backends
<1>4. CASE UNCHANGED vars
  BY <1>4 DEF vars, CreatedBehind, InDDL
<1> QED BY <1>1, <1>2, <1>3, <1>4 DEF Next

\* The holder of the lock is never held up.
LEMMA HolderGoesOn ==
  ASSUME Inv, CreatedBehind, NEW c \in Containers, InDDL(c)
  PROVE  CanGoOn(c)
<1>1. api[c].statement \in 1..(Statements + 1) /\ holder = c
  BY DEF Inv, TypeOK, Container, LockOK
<1>2. CASE api[c].pc = "creating"
  <2>1. api[c].statement \in Objects \/ api[c].statement = Statements + 1
    BY <1>1, ConstantsAssumption DEF Objects
  <2> QED BY <1>2, <2>1 DEF CanGoOn, AtCommit
<1>3. CASE api[c].pc = "inserting"
  <2>1. \A b \in Backends \ {c} : created[b] = {}
    BY <1>1 DEF Inv, CreatedOK
  <2>2. api[c].statement \notin created[c]
    BY <1>1, ConstantsAssumption DEF CreatedBehind
  <2> QED BY <1>3, <2>1, <2>2 DEF CanGoOn
<1> QED BY <1>2, <1>3 DEF InDDL

\* No container waits for a lock nobody will give back, or for an object that
\* another transaction, or its own, has inserted and not committed: the lock is
\* free, a ghost's, or that of a container nothing holds up.
THEOREM NobodyWaitsInVain == Spec => []NobodyStuck
<1>1. Init => CreatedBehind
  BY NobodyAssumption DEF Init, CreatedBehind, InDDL
<1>2. Inv /\ CreatedBehind /\ [Next]_vars => CreatedBehind'
  BY BehindStep
<1>3. Inv /\ CreatedBehind => NobodyStuck
  <2> SUFFICES ASSUME Inv, CreatedBehind, NEW c \in Containers,
                      api[c].pc # "serving", ~CanGoOn(c), holder # Ghost
               PROVE  \E d \in Containers : holder = d /\ CanGoOn(d)
    BY DEF NobodyStuck
  <2>1. api[c].pc = "locking" /\ holder # None
    BY HolderGoesOn DEF CanGoOn, InDDL, Inv, TypeOK, Container
  <2>2. holder \in Containers
    BY <2>1 DEF Inv, TypeOK
  <2>3. InDDL(holder)
    BY <2>2 DEF Inv, LockOK
  <2> QED BY <2>2, <2>3, HolderGoesOn
<1> QED BY <1>1, <1>2, <1>3, InvCorrect, PTL DEF Spec
=============================================================================
