------------------------------ MODULE JwksCache ------------------------------
(***************************************************************************)
(* The signing-key cache in front of every authenticated request: JwksCache *)
(* of app/auth.py, called from the threadpool FastAPI runs require_claims  *)
(* in.                                                                     *)
(*                                                                         *)
(* A call looks the kid up and decides whether it refreshes in one         *)
(* critical section, fetches outside the lock, installs what came and      *)
(* looks again in a second one.  Other calls go on meanwhile.              *)
(*                                                                         *)
(* A key is its kid; a document is the version of the realm's key set it   *)
(* was read from and the usable signature keys in it.  `now` is            *)
(* time.monotonic() in units of the model, and the cache is gone with the  *)
(* process, so a restart is an initial state.                              *)
(***************************************************************************)
EXTENDS Integers

CONSTANTS
  Kids,          \* key ids tokens may name
  Threads,       \* threadpool workers, each serving one call after another
  Ttl,           \* JWKS_TTL_SECONDS
  Floor,         \* JWKS_MIN_REFRESH_INTERVAL_SECONDS
  CallTime,      \* longest a refreshing call takes from claim to install
  MaxTime,       \* bound on the clock
  MaxVersion,    \* bound on the realm's rotations
  None           \* never; no document; no kid

ASSUME ConstantsAssumption ==
  /\ Ttl \in Nat /\ Floor \in Nat /\ CallTime \in Nat
  /\ MaxTime \in Nat /\ MaxVersion \in Nat

KeySet   == [version : Nat, kids : SUBSET Kids]
EmptySet == [version |-> 0, kids |-> {}]

ASSUME NoneIsNoData == None \notin Nat \cup KeySet \cup Kids

VARIABLES
  realm,         \* what Keycloak publishes
  retired,       \* kids it has withdrawn; a kid is not used again
  held,          \* self._keys
  loaded_at,     \* self._loaded_at
  attempted_at,  \* self._attempted_at
  now,
  call,          \* what each thread is doing
  trusted        \* history: kids accepted, and still published since

vars == <<realm, retired, held, loaded_at, attempted_at, now, call, trusted>>

Answers == {"none", "key", "unknown_kid", "unavailable"}

Call == [pc       : {"idle", "fetching", "installing"},
         kid      : Kids \cup {None},
         started  : Nat \cup {None},
         document : KeySet \cup {None},
         had_keys : BOOLEAN,    \* history: keys were held when it began
         answer   : Answers]

TypeOK ==
  /\ realm \in KeySet /\ realm.kids # {}
  /\ retired \subseteq Kids
  /\ held \in KeySet
  /\ loaded_at \in Nat \cup {None}
  /\ attempted_at \in Nat \cup {None}
  /\ now \in Nat
  /\ call \in [Threads -> Call]
  /\ trusted \subseteq Kids

Init ==
  /\ \E K \in (SUBSET Kids) \ {{}} : realm = [version |-> 1, kids |-> K]
  /\ retired = {}
  /\ held = EmptySet
  /\ loaded_at = None /\ attempted_at = None
  /\ now = 0
  /\ call = [t \in Threads |->
               [pc |-> "idle", kid |-> None, started |-> None,
                document |-> None, had_keys |-> FALSE,
                answer |-> "none"]]
  /\ trusted = {}

-----------------------------------------------------------------------------
\* The two discriminators at the end of signing_key, and the key itself.
Verdict(kid, keys) ==
  CASE kid \in keys                -> "key"
    [] kid \notin keys /\ keys # {} -> "unknown_kid"
    [] OTHER                       -> "unavailable"

\* `trusted` after a call for kid is answered out of `keys`.
Vouched(kid, keys) == trusted \cup ({kid} \cap keys \cap realm.kids)

Stale == loaded_at # None => now - loaded_at >= Ttl

\* Mutant: the floor only restrains refetches for an unknown kid.
MayRefetchWhenStale ==
  attempted_at # None /\ ~Stale => now - attempted_at >= Floor

MayRefetch == attempted_at # None => now - attempted_at >= Floor

\* _claim_refresh: this call performs the fetch.
Claims(kid) == (Stale \/ kid \notin held.kids) /\ MayRefetch

InFlight(t) == call[t].pc \in {"fetching", "installing"}

-----------------------------------------------------------------------------
(* signing_key *)

\* Not claimed: answered from what is held, in the first critical section.
AnsweredFromCache(t, kid) ==
  /\ ~InFlight(t)
  /\ ~Claims(kid)
  /\ call' = [call EXCEPT ![t] =
                [pc |-> "idle", kid |-> kid, started |-> None,
                 document |-> None, had_keys |-> held.kids # {},
                 answer |-> Verdict(kid, held.kids)]]
  /\ trusted' = Vouched(kid, held.kids)
  /\ UNCHANGED <<realm, retired, held, loaded_at, attempted_at, now>>

\* Claimed: the slot is taken under the lock, the fetch starts outside it.
RefreshClaimed(t, kid) ==
  /\ ~InFlight(t)
  /\ Claims(kid)
  /\ attempted_at' = now
  /\ call' = [call EXCEPT ![t] =
                [pc |-> "fetching", kid |-> kid, started |-> now,
                 document |-> None, had_keys |-> held.kids # {},
                 answer |-> "none"]]
  /\ UNCHANGED <<realm, retired, held, loaded_at, now, trusted>>

\* A document: the realm's keys as they are at that moment, or one of which
\* _signature_keys keeps nothing.  An entry it always drops (another use, another
\* algorithm, no kid) is none of Kids.
KeycloakAnswers(t, kids) ==
  /\ call[t].pc = "fetching"
  /\ kids \in {realm.kids, {}}
  /\ call' = [call EXCEPT ![t].pc = "installing",
                          ![t].document = [version |-> realm.version,
                                           kids    |-> kids]]
  /\ UNCHANGED <<realm, retired, held, loaded_at, attempted_at, now, trusted>>

\* _fetch_document returned None.
FetchFailed(t) ==
  /\ call[t].pc = "fetching"
  /\ call' = [call EXCEPT ![t].pc = "installing"]
  /\ UNCHANGED <<realm, retired, held, loaded_at, attempted_at, now, trusted>>

\* Mutant: whatever document arrived replaces the keys held.
UsableAnyway(document) == document # None

\* _install adopts only a document with a usable key in it.
Usable(document) == document # None /\ document.kids # {}

\* The second critical section, and the answer.
Installed(t) ==
  LET document == call[t].document
      kid      == call[t].kid
  IN  /\ call[t].pc = "installing"
      /\ held'      = IF Usable(document) THEN document ELSE held
      /\ loaded_at' = IF Usable(document) THEN now ELSE loaded_at
      /\ call' = [call EXCEPT ![t].pc = "idle", ![t].document = None,
                              ![t].answer = Verdict(kid, held'.kids)]
      /\ trusted' = Vouched(kid, held'.kids)
      /\ UNCHANGED <<realm, retired, attempted_at, now>>

-----------------------------------------------------------------------------
(* Around the cache *)

\* The realm publishes another set: new kids, and some withdrawn for good.
Rotate(K) ==
  /\ realm.version < MaxVersion
  /\ K # {} /\ K # realm.kids /\ K \cap retired = {}
  /\ realm' = [version |-> realm.version + 1, kids |-> K]
  /\ retired' = retired \cup (realm.kids \ K)
  /\ trusted' = trusted \cap K
  /\ UNCHANGED <<held, loaded_at, attempted_at, now, call>>

\* No refreshing call outlasts CallTime.
Tick ==
  /\ now < MaxTime
  /\ \A t \in Threads : InFlight(t) => now - call[t].started < CallTime
  /\ now' = now + 1
  /\ UNCHANGED <<realm, retired, held, loaded_at, attempted_at, call, trusted>>

-----------------------------------------------------------------------------
SigningKey(t) ==
  \/ \E kid \in Kids : AnsweredFromCache(t, kid) \/ RefreshClaimed(t, kid)
  \/ \E kids \in SUBSET Kids : KeycloakAnswers(t, kids)
  \/ FetchFailed(t)
  \/ Installed(t)

Next ==
  \/ \E t \in Threads : SigningKey(t)
  \/ \E K \in SUBSET Kids : Rotate(K)
  \/ Tick

Spec == Init /\ [][Next]_vars

-----------------------------------------------------------------------------
(* Properties *)

\* Keycloak sees one refresh at a time, however many calls miss at once and
\* for whatever reason (the slot claimed under the lock, the floor over every
\* refresh), as long as a call is done within the floor.
OneFetchAtATime ==
  \A t, u \in Threads : InFlight(t) /\ InFlight(u) => t = u

\* The keys held never go back to an earlier state of the realm, although
\* documents are fetched outside the lock and installed later.
KeySetNeverMovesBack == [][held'.version >= held.version]_vars

\* A key some token was accepted under is held as long as the realm publishes
\* it, through failed refreshes, empty documents and other keys' rotation: a
\* token that worked does not turn into a 401.
AcceptedKeyStaysHeld == trusted \subseteq held.kids

\* 502 is for a process that has never held a key set: a call that began with
\* one is answered about its token, whatever becomes of the refresh.
UnavailableOnlyWithoutKeys ==
  \A t \in Threads : call[t].answer = "unavailable" => ~call[t].had_keys
=============================================================================
