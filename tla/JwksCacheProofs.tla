--------------------------- MODULE JwksCacheProofs ---------------------------
(***************************************************************************)
(* Theorems about JwksCache, for every set of kids and threads and every   *)
(* TTL, floor and clock: first what holds however long a refreshing call   *)
(* takes, then what holds where one is done within the floor.              *)
(***************************************************************************)
EXTENDS JwksCache, TLAPS

\* A call in flight is about a kid, and a document is what it waits to install.
CallOK ==
  \A t \in Threads :
     /\ InFlight(t) => call[t].kid \in Kids
     /\ call[t].document # None => call[t].pc = "installing"

\* Keys once held stay held until the call is answered.
KeysKept ==
  \A t \in Threads : InFlight(t) /\ call[t].had_keys => held.kids # {}

\* What needs no clock.
Base == TypeOK /\ CallOK /\ KeysKept /\ UnavailableOnlyWithoutKeys

\* The in-flight call is the one that took the slot, and is not yet overdue.
SlotOK ==
  \A t \in Threads :
     InFlight(t) => /\ call[t].started = attempted_at
                    /\ attempted_at \in Nat
                    /\ now - attempted_at <= CallTime

\* Documents come in the order of the realm's versions.
DocumentsOrdered ==
  /\ held.version <= realm.version
  /\ \A t \in Threads :
        /\ call[t].document # None => held.version <= call[t].document.version
        /\ call[t].document # None => call[t].document.version <= realm.version

\* A kid in any document is published or withdrawn, and one that is both held
\* and published is in every usable document on its way.
KidsAccounted ==
  /\ realm.kids \cap retired = {}
  /\ held.kids \subseteq realm.kids \cup retired
  /\ trusted \subseteq held.kids \cap realm.kids
  /\ \A t \in Threads :
        Usable(call[t].document) =>
           /\ call[t].document.kids \subseteq realm.kids \cup retired
           /\ held.kids \cap realm.kids \subseteq call[t].document.kids

Inv == Base /\ SlotOK /\ OneFetchAtATime /\ DocumentsOrdered /\ KidsAccounted

-----------------------------------------------------------------------------
(* However long a call takes *)

\* The empty cache holds nothing and answers nobody.
LEMMA BaseInit == Init => Base
<1> SUFFICES ASSUME Init PROVE Base
  OBVIOUS
<1>1. TypeOK
  <2>1. realm \in KeySet /\ realm.kids # {}
    BY DEF Init, KeySet
  <2>2. held \in KeySet
    BY DEF Init, KeySet, EmptySet
  <2>3. call \in [Threads -> Call]
    BY DEF Init, Call, Answers
  <2> QED BY <2>1, <2>2, <2>3 DEF Init, TypeOK
<1>2. CallOK /\ KeysKept /\ UnavailableOnlyWithoutKeys
  BY DEF Init, CallOK, KeysKept, UnavailableOnlyWithoutKeys, InFlight
<1> QED BY <1>1, <1>2 DEF Base

\* A call answered in its first critical section.
LEMMA CacheBase ==
  ASSUME Base, NEW t \in Threads, NEW kid \in Kids, AnsweredFromCache(t, kid)
  PROVE  /\ Base'
         /\ ~InFlight(t)' /\ call'[t].document = None
         /\ \A u \in Threads \ {t} : call'[u] = call[u]
         /\ trusted' = Vouched(kid, held.kids)
         /\ UNCHANGED <<realm, retired, held, loaded_at, attempted_at, now>>
<1> DEFINE new == [pc |-> "idle", kid |-> kid, started |-> None,
                   document |-> None, had_keys |-> held.kids # {},
                   answer |-> Verdict(kid, held.kids)]
<1>1. /\ call' = [call EXCEPT ![t] = new]
      /\ call \in [Threads -> Call]
      /\ trusted' = Vouched(kid, held.kids)
      /\ UNCHANGED <<realm, retired, held, loaded_at, attempted_at, now>>
  BY DEF AnsweredFromCache, Base, TypeOK
<1>2. new.answer \in Answers /\ (new.answer = "unavailable" => ~new.had_keys)
  BY DEF Verdict, Answers
<1>3. new \in Call /\ new.pc = "idle" /\ new.document = None
  BY <1>2 DEF Call
<1>4. /\ call'[t] = new
      /\ \A u \in Threads \ {t} : call'[u] = call[u]
  BY <1>1
<1>5. TypeOK'
  BY <1>1, <1>3 DEF Base, TypeOK, Vouched
<1>6. CallOK' /\ KeysKept' /\ UnavailableOnlyWithoutKeys'
  BY <1>1, <1>2, <1>3, <1>4 DEF Base, CallOK, KeysKept,
     UnavailableOnlyWithoutKeys, InFlight
<1> QED BY <1>1, <1>3, <1>4, <1>5, <1>6 DEF Base, InFlight

\* A call that goes to fetch.
LEMMA ClaimBase ==
  ASSUME Base, NEW t \in Threads, NEW kid \in Kids, RefreshClaimed(t, kid)
  PROVE  /\ Base'
         /\ call'[t].document = None /\ call'[t].started = now
         /\ \A u \in Threads \ {t} : call'[u] = call[u]
         /\ attempted_at' = now /\ now \in Nat
         /\ UNCHANGED <<realm, retired, held, loaded_at, now, trusted>>
<1> DEFINE new == [pc |-> "fetching", kid |-> kid, started |-> now,
                   document |-> None, had_keys |-> held.kids # {},
                   answer |-> "none"]
<1>1. /\ call' = [call EXCEPT ![t] = new]
      /\ call \in [Threads -> Call]
      /\ attempted_at' = now /\ now \in Nat
      /\ UNCHANGED <<realm, retired, held, loaded_at, now, trusted>>
  BY DEF RefreshClaimed, Base, TypeOK
<1>2. new \in Call
  BY <1>1 DEF Call, Answers
<1>3. /\ call'[t] = new
      /\ \A u \in Threads \ {t} : call'[u] = call[u]
  BY <1>1
<1>4. TypeOK'
  BY <1>1, <1>2 DEF Base, TypeOK
<1>5. CallOK' /\ KeysKept' /\ UnavailableOnlyWithoutKeys'
  BY <1>1, <1>3 DEF Base, CallOK, KeysKept, UnavailableOnlyWithoutKeys, InFlight
<1> QED BY <1>1, <1>3, <1>4, <1>5 DEF Base

\* What arrives is the realm's set as it is, an emptied one, or nothing.
LEMMA FetchBase ==
  ASSUME Base, NEW t \in Threads,
         (\E kids \in SUBSET Kids : KeycloakAnswers(t, kids)) \/ FetchFailed(t)
  PROVE  /\ Base'
         /\ call'[t].document # None =>
              /\ call'[t].document.version = realm.version
              /\ call'[t].document.kids \in {realm.kids, {}}
         /\ InFlight(t) /\ call'[t].started = call[t].started
         /\ \A u \in Threads \ {t} : call'[u] = call[u]
         /\ UNCHANGED <<realm, retired, held, loaded_at, attempted_at, now, trusted>>
<1>1. PICK document \in KeySet \cup {None} :
        /\ document # None => /\ document.version = realm.version
                              /\ document.kids \in {realm.kids, {}}
        /\ call' = [call EXCEPT ![t].pc = "installing", ![t].document = document]
  <2>1. CASE FetchFailed(t)
    <3>1. call[t].document = None
      BY <2>1 DEF FetchFailed, Base, CallOK
    <3>2. call' = [call EXCEPT ![t].pc = "installing", ![t].document = None]
      BY <2>1, <3>1 DEF FetchFailed, Base, TypeOK, Call
    <3> QED BY <3>2
  <2>2. CASE \E kids \in SUBSET Kids : KeycloakAnswers(t, kids)
    <3>1. PICK kids \in SUBSET Kids : KeycloakAnswers(t, kids)
      BY <2>2
    <3> DEFINE document == [version |-> realm.version, kids |-> kids]
    <3>2. document \in KeySet /\ document.version = realm.version
          /\ document.kids \in {realm.kids, {}}
      BY <3>1 DEF KeycloakAnswers, Base, TypeOK, KeySet
    <3> QED BY <3>1, <3>2 DEF KeycloakAnswers
  <2> QED BY <2>1, <2>2
<1>2. /\ call[t].pc = "fetching" /\ call \in [Threads -> Call]
      /\ UNCHANGED <<realm, retired, held, loaded_at, attempted_at, now, trusted>>
  BY DEF KeycloakAnswers, FetchFailed, Base, TypeOK
<1> DEFINE new == [call[t] EXCEPT !.pc = "installing", !.document = document]
<1>3. /\ call' = [call EXCEPT ![t] = new]
      /\ new \in Call /\ new.pc = "installing" /\ new.document = document
      /\ new.kid = call[t].kid /\ new.started = call[t].started
      /\ new.had_keys = call[t].had_keys /\ new.answer = call[t].answer
  BY <1>1, <1>2 DEF Call
<1>4. /\ call'[t] = new
      /\ \A u \in Threads \ {t} : call'[u] = call[u]
  BY <1>2, <1>3
<1>5. TypeOK'
  BY <1>2, <1>3 DEF Base, TypeOK
<1>6. CallOK' /\ KeysKept' /\ UnavailableOnlyWithoutKeys'
  BY <1>2, <1>3, <1>4 DEF Base, CallOK, KeysKept, UnavailableOnlyWithoutKeys, InFlight
<1> QED BY <1>1, <1>2, <1>3, <1>4, <1>5, <1>6 DEF Base, InFlight

\* Only a document with a key in it is installed, so keys held are not lost
\* for want of others.
LEMMA InstallBase ==
  ASSUME Base, NEW t \in Threads, Installed(t)
  PROVE  /\ Base'
         /\ InFlight(t) /\ ~InFlight(t)' /\ call'[t].document = None
         /\ \A u \in Threads \ {t} : call'[u] = call[u]
         /\ held' = IF Usable(call[t].document) THEN call[t].document ELSE held
         /\ trusted' = Vouched(call[t].kid, held'.kids)
         /\ UNCHANGED <<realm, retired, attempted_at, now>>
<1> DEFINE document == call[t].document
           kid == call[t].kid
<1>1. /\ call[t].pc = "installing" /\ call[t] \in Call /\ InFlight(t)
      /\ call \in [Threads -> Call] /\ kid \in Kids
  BY DEF Installed, InFlight, Base, TypeOK, CallOK
<1>2. /\ held' = IF Usable(document) THEN document ELSE held
      /\ loaded_at' = IF Usable(document) THEN now ELSE loaded_at
      /\ trusted' = Vouched(kid, held'.kids)
      /\ UNCHANGED <<realm, retired, attempted_at, now>>
  BY DEF Installed
<1> DEFINE new == [call[t] EXCEPT !.pc = "idle", !.document = None,
                                  !.answer = Verdict(kid, held'.kids)]
<1>3. held' \in KeySet /\ (held.kids # {} => held'.kids # {})
  BY <1>1, <1>2 DEF Usable, Base, TypeOK, Call
<1>4. held'.kids \in SUBSET Kids
  BY <1>3 DEF KeySet
<1>5. Verdict(kid, held'.kids) \in Answers
  BY DEF Verdict, Answers
<1>6. /\ new \in Call /\ new.pc = "idle" /\ new.document = None
      /\ new.had_keys = call[t].had_keys /\ new.answer = Verdict(kid, held'.kids)
  BY <1>1, <1>5 DEF Call
<1>7. call' = [call EXCEPT ![t] = new]
  BY DEF Installed
<1>8. /\ call'[t] = new
      /\ \A u \in Threads \ {t} : call'[u] = call[u]
  BY <1>1, <1>7
<1>9. TypeOK'
  BY <1>1, <1>2, <1>3, <1>6, <1>7 DEF Base, TypeOK, Vouched
<1>10. CallOK' /\ KeysKept'
  BY <1>3, <1>6, <1>8 DEF Base, CallOK, KeysKept, InFlight
<1>11. UnavailableOnlyWithoutKeys'
  <2>1. call[t].had_keys => held'.kids # {}
    BY <1>1, <1>3 DEF Base, KeysKept
  <2>2. new.answer = "unavailable" => ~new.had_keys
    BY <1>6, <2>1 DEF Verdict
  <2> QED BY <1>8, <2>2 DEF Base, UnavailableOnlyWithoutKeys
<1> QED BY <1>1, <1>2, <1>6, <1>8, <1>9, <1>10, <1>11 DEF Base, InFlight

\* The realm publishes another set, or time passes.
LEMMA AroundBase ==
  ASSUME Base, (\E K \in SUBSET Kids : Rotate(K)) \/ Tick
  PROVE  Base' /\ UNCHANGED <<held, call>>
<1>1. UNCHANGED <<held, loaded_at, attempted_at, call>>
  BY DEF Rotate, Tick
<1>2. realm' \in KeySet /\ realm'.kids # {} /\ retired' \subseteq Kids
      /\ trusted' \subseteq Kids /\ now' \in Nat
  <2>1. /\ realm.version \in Nat /\ realm.kids \subseteq Kids /\ now \in Nat
        /\ retired \subseteq Kids /\ trusted \subseteq Kids
        /\ realm \in KeySet /\ realm.kids # {}
    BY DEF Base, TypeOK, KeySet
  <2>2. CASE Tick
    BY <2>1, <2>2 DEF Tick
  <2>3. CASE \E K \in SUBSET Kids : Rotate(K)
    <3>1. PICK K \in SUBSET Kids : Rotate(K)
      BY <2>3
    <3> QED BY <2>1, <3>1 DEF Rotate, KeySet
  <2> QED BY <2>2, <2>3
<1>3. TypeOK'
  BY <1>1, <1>2 DEF Base, TypeOK
<1>4. CallOK' /\ KeysKept' /\ UnavailableOnlyWithoutKeys'
  BY <1>1 DEF Base, CallOK, KeysKept, UnavailableOnlyWithoutKeys, InFlight
<1> QED BY <1>1, <1>3, <1>4 DEF Base

\* It holds of every behaviour, whatever CallTime and Floor are.
LEMMA BaseCorrect == Spec => []Base
<1>1. Base /\ [Next]_vars => Base'
  <2>1. CASE UNCHANGED vars
    BY <2>1 DEF vars, Base, TypeOK, CallOK, KeysKept, UnavailableOnlyWithoutKeys, InFlight
  <2>2. ASSUME Base, NEW t \in Threads, SigningKey(t) PROVE Base'
    BY <2>2, CacheBase, ClaimBase, FetchBase, InstallBase DEF SigningKey
  <2> QED BY <2>1, <2>2, AroundBase DEF Next
<1> QED BY <1>1, BaseInit, PTL DEF Spec

\* The cache's state keeps its type: clocks are readings, documents are key
\* sets, and the realm is never without a key.
THEOREM TypeCorrect == Spec => []TypeOK
<1>1. Base => TypeOK
  BY DEF Base
<1> QED BY <1>1, BaseCorrect, PTL

\* A process that held keys when a call began does not answer it 502, however
\* refreshes overlap: it needs no floor and no timeout.
THEOREM UnavailableWithoutKeys == Spec => []UnavailableOnlyWithoutKeys
<1>1. Base => UnavailableOnlyWithoutKeys
  BY DEF Base
<1> QED BY <1>1, BaseCorrect, PTL

-----------------------------------------------------------------------------
(* Where a call is done within the floor *)

\* The empty cache satisfies the invariant.
LEMMA InvInit == Init => Inv
<1> SUFFICES ASSUME Init PROVE Inv
  OBVIOUS
<1>1. SlotOK /\ OneFetchAtATime
  BY DEF Init, SlotOK, OneFetchAtATime, InFlight
<1>2. DocumentsOrdered /\ KidsAccounted
  BY DEF Init, DocumentsOrdered, KidsAccounted, Usable, EmptySet
<1> QED BY <1>1, <1>2, BaseInit DEF Inv

\* A call answered in its first critical section leaves the cache as it is.
LEMMA CacheStep ==
  ASSUME Inv, NEW t \in Threads, NEW kid \in Kids, AnsweredFromCache(t, kid)
  PROVE  Inv' /\ held' = held
<1>1. /\ Base' /\ ~InFlight(t)' /\ call'[t].document = None
      /\ \A u \in Threads \ {t} : call'[u] = call[u]
      /\ trusted' = Vouched(kid, held.kids)
      /\ UNCHANGED <<realm, retired, held, loaded_at, attempted_at, now>>
  BY CacheBase DEF Inv
<1>2. SlotOK' /\ OneFetchAtATime'
  BY <1>1 DEF Inv, SlotOK, OneFetchAtATime, InFlight
<1>3. DocumentsOrdered'
  BY <1>1 DEF Inv, DocumentsOrdered
<1>4. KidsAccounted'
  <2>1. \A u \in Threads : Usable(call'[u].document) =>
           call'[u].document = call[u].document
    BY <1>1 DEF Usable
  <2> QED BY <1>1, <2>1 DEF Inv, KidsAccounted, Usable, Vouched
<1> QED BY <1>1, <1>2, <1>3, <1>4 DEF Inv

\* The slot is only claimed when no call is in flight.
LEMMA ClaimStep ==
  ASSUME CallTime < Floor, Inv, NEW t \in Threads, NEW kid \in Kids,
         RefreshClaimed(t, kid)
  PROVE  Inv' /\ held' = held
<1>1. /\ Base' /\ call'[t].document = None /\ call'[t].started = now
      /\ \A u \in Threads \ {t} : call'[u] = call[u]
      /\ attempted_at' = now /\ now \in Nat
      /\ UNCHANGED <<realm, retired, held, loaded_at, now, trusted>>
  BY ClaimBase DEF Inv
<1>2. \A u \in Threads : ~InFlight(u)
  <2> SUFFICES ASSUME NEW u \in Threads, InFlight(u) PROVE FALSE
    OBVIOUS
  <2>1. attempted_at \in Nat /\ now - attempted_at <= CallTime
    BY DEF Inv, SlotOK
  <2>2. now - attempted_at >= Floor
    BY <2>1, NoneIsNoData DEF RefreshClaimed, Claims, MayRefetch
  <2> QED BY <1>1, <2>1, <2>2, ConstantsAssumption
<1>3. \A u \in Threads : InFlight(u)' => u = t
  BY <1>1, <1>2 DEF InFlight
<1>4. SlotOK' /\ OneFetchAtATime'
  BY <1>1, <1>3, ConstantsAssumption DEF SlotOK, OneFetchAtATime
<1>5. DocumentsOrdered' /\ KidsAccounted'
  BY <1>1 DEF Inv, DocumentsOrdered, KidsAccounted, Usable
<1> QED BY <1>1, <1>4, <1>5 DEF Inv

\* A document is of the realm's present version.
LEMMA FetchStep ==
  ASSUME Inv, NEW t \in Threads,
         (\E kids \in SUBSET Kids : KeycloakAnswers(t, kids)) \/ FetchFailed(t)
  PROVE  Inv' /\ held' = held
<1>1. /\ Base'
      /\ call'[t].document # None =>
           /\ call'[t].document.version = realm.version
           /\ call'[t].document.kids \in {realm.kids, {}}
      /\ InFlight(t) /\ call'[t].started = call[t].started
      /\ \A u \in Threads \ {t} : call'[u] = call[u]
      /\ UNCHANGED <<realm, retired, held, loaded_at, attempted_at, now, trusted>>
  BY FetchBase DEF Inv
<1>2. SlotOK' /\ OneFetchAtATime'
  BY <1>1 DEF Inv, SlotOK, OneFetchAtATime, InFlight
<1>3. DocumentsOrdered'
  <2>1. held.version <= realm.version /\ realm.version \in Nat
    BY DEF Inv, Base, DocumentsOrdered, TypeOK, KeySet
  <2> QED BY <1>1, <2>1 DEF Inv, DocumentsOrdered
<1>4. KidsAccounted'
  BY <1>1 DEF Inv, KidsAccounted, Usable
<1> QED BY <1>1, <1>2, <1>3, <1>4 DEF Inv

\* Installing moves the cache forward, or leaves it.
LEMMA InstallStep ==
  ASSUME Inv, NEW t \in Threads, Installed(t)
  PROVE  Inv' /\ held'.version >= held.version
<1> DEFINE document == call[t].document
           kid == call[t].kid
<1>1. /\ Base' /\ InFlight(t) /\ ~InFlight(t)' /\ call'[t].document = None
      /\ \A u \in Threads \ {t} : call'[u] = call[u]
      /\ held' = IF Usable(document) THEN document ELSE held
      /\ trusted' = Vouched(kid, held'.kids)
      /\ UNCHANGED <<realm, retired, attempted_at, now>>
  BY InstallBase DEF Inv
<1>2. held'.version >= held.version /\ held'.version <= realm.version
  <2>1. held.version \in Nat /\ call[t] \in Call
    BY DEF Inv, Base, TypeOK, KeySet
  <2> QED BY <1>1, <2>1 DEF Usable, Inv, Call, KeySet, DocumentsOrdered
<1>3. \A u \in Threads : ~InFlight(u)' /\ call'[u].document = None
  <2>1. \A u \in Threads \ {t} : ~InFlight(u) /\ call[u].document = None
    BY <1>1 DEF Inv, Base, OneFetchAtATime, CallOK, InFlight
  <2> QED BY <1>1, <2>1 DEF InFlight
<1>4. SlotOK' /\ OneFetchAtATime'
  BY <1>3 DEF SlotOK, OneFetchAtATime
<1>5. DocumentsOrdered'
  BY <1>1, <1>2, <1>3 DEF DocumentsOrdered
<1>6. KidsAccounted'
  <2>1. trusted \subseteq held'.kids
    BY <1>1 DEF Inv, KidsAccounted
  <2>2. held'.kids \subseteq realm.kids \cup retired
    BY <1>1 DEF Inv, KidsAccounted
  <2> QED BY <1>1, <1>3, <2>1, <2>2 DEF Inv, KidsAccounted, Usable, Vouched
<1> QED BY <1>1, <1>2, <1>4, <1>5, <1>6 DEF Inv

\* A rotation withdraws kids for good and brings in new ones.
LEMMA RotateStep ==
  ASSUME Inv, NEW K \in SUBSET Kids, Rotate(K)
  PROVE  Inv' /\ held' = held
<1>1. /\ realm' = [version |-> realm.version + 1, kids |-> K]
      /\ retired' = retired \cup (realm.kids \ K)
      /\ trusted' = trusted \cap K
      /\ K # {} /\ K \cap retired = {}
      /\ UNCHANGED <<held, loaded_at, attempted_at, now, call>>
  BY DEF Rotate
<1>2. realm.version \in Nat /\ Base'
  BY AroundBase DEF Inv, Base, TypeOK, KeySet
<1>3. SlotOK' /\ OneFetchAtATime'
  BY <1>1 DEF Inv, SlotOK, OneFetchAtATime, InFlight
<1>4. DocumentsOrdered'
  <2>1. \A t \in Threads : call[t].document # None =>
           call[t].document.version \in Nat
    BY DEF Inv, Base, TypeOK, Call, KeySet
  <2>2. held.version \in Nat
    BY DEF Inv, Base, TypeOK, KeySet
  <2> QED BY <1>1, <1>2, <2>1, <2>2 DEF Inv, DocumentsOrdered
<1>5. KidsAccounted'
  BY <1>1 DEF Inv, KidsAccounted, Usable
<1> QED BY <1>1, <1>2, <1>3, <1>4, <1>5 DEF Inv

\* Time passes.
LEMMA TickStep ==
  ASSUME Inv, Tick
  PROVE  Inv' /\ held' = held
<1>1. /\ now' = now + 1 /\ now \in Nat /\ Base'
      /\ UNCHANGED <<realm, retired, held, loaded_at, attempted_at, call, trusted>>
  BY AroundBase DEF Tick, Inv, Base, TypeOK
<1>2. SlotOK'
  <2> SUFFICES ASSUME NEW t \in Threads, InFlight(t)
               PROVE  /\ call[t].started = attempted_at
                      /\ attempted_at \in Nat
                      /\ now' - attempted_at <= CallTime
    BY <1>1 DEF SlotOK, InFlight
  <2>1. call[t].started = attempted_at /\ attempted_at \in Nat
    BY DEF Inv, SlotOK
  <2>2. now - attempted_at < CallTime
    BY <2>1 DEF Tick
  <2> QED BY <1>1, <2>1, <2>2, ConstantsAssumption
<1>3. OneFetchAtATime' /\ DocumentsOrdered' /\ KidsAccounted'
  BY <1>1 DEF Inv, OneFetchAtATime, DocumentsOrdered, KidsAccounted, InFlight, Usable
<1> QED BY <1>1, <1>2, <1>3 DEF Inv

\* One step keeps the invariant and never moves the key set back.
LEMMA InvStep ==
  ASSUME CallTime < Floor, Inv, [Next]_vars
  PROVE  Inv' /\ held'.version >= held.version
<1> held.version \in Nat
  BY DEF Inv, Base, TypeOK, KeySet
<1>1. ASSUME NEW t \in Threads, SigningKey(t)
      PROVE  Inv' /\ held'.version >= held.version
  BY <1>1, CacheStep, ClaimStep, FetchStep, InstallStep DEF SigningKey
<1>2. ASSUME NEW K \in SUBSET Kids, Rotate(K)
      PROVE  Inv' /\ held'.version >= held.version
  BY <1>2, RotateStep
<1>3. CASE Tick
  BY <1>3, TickStep
<1>4. CASE UNCHANGED vars
  BY <1>4 DEF vars, Inv, Base, TypeOK, CallOK, SlotOK, OneFetchAtATime, DocumentsOrdered,
     KidsAccounted, KeysKept, UnavailableOnlyWithoutKeys, InFlight, Usable
<1> QED BY <1>1, <1>2, <1>3, <1>4 DEF Next

\* The invariant holds of every behaviour.
THEOREM InvCorrect ==
  ASSUME CallTime < Floor
  PROVE  Spec => []Inv
<1>1. Inv /\ [Next]_vars => Inv'
  BY InvStep
<1> QED BY <1>1, InvInit, PTL DEF Spec

\* Two refreshes never overlap: the slot claimed under the lock and the floor
\* together serialise what happens outside the lock.
THEOREM OneFetch ==
  ASSUME CallTime < Floor
  PROVE  Spec => []OneFetchAtATime
<1>1. Inv => OneFetchAtATime
  BY DEF Inv
<1> QED BY <1>1, InvCorrect, PTL

\* Documents fetched outside the lock are installed in the realm's order.
THEOREM NeverMovesBack ==
  ASSUME CallTime < Floor
  PROVE  Spec => KeySetNeverMovesBack
<1>1. Inv /\ [Next]_vars => [held'.version >= held.version]_vars
  BY InvStep
<1> QED BY <1>1, InvCorrect, PTL DEF Spec, KeySetNeverMovesBack

\* A key a token was accepted under is held for as long as it is published.
THEOREM AcceptedStaysHeld ==
  ASSUME CallTime < Floor
  PROVE  Spec => []AcceptedKeyStaysHeld
<1>1. Inv => AcceptedKeyStaysHeld
  BY DEF Inv, KidsAccounted, AcceptedKeyStaysHeld
<1> QED BY <1>1, InvCorrect, PTL
=============================================================================
