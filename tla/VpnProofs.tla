----------------------------- MODULE VpnProofs -----------------------------
(***************************************************************************)
(* For any number of callers, torrents, addresses and any cache validity:  *)
(* types, and that a valid cache entry is recent.                          *)
(***************************************************************************)
EXTENDS VpnGuard, TLAPS

(* A check that is about to store has an address no older than its reading *)
(* of the clock, from which the entry's validity counts.                   *)
LookedUpSince ==
  \A c \in Checkers : at[c] = "store" => got[c].age <= elapsed[c]

Recent == ValidIsRecent /\ LookedUpSince

-----------------------------------------------------------------------------
(* Whatever check interval is configured, an entry is valid for 15 to 120  *)
(* seconds.                                                                *)
THEOREM ValidityIsBounded ==
  ASSUME NEW interval \in Int
  PROVE  CacheTTL(interval) \in 15 .. 120
BY SMT DEF CacheTTL

(* The policy always gives one of the three states, and never SAFE without *)
(* a tunnel as the default route.                                          *)
LEMMA EvaluateStates ==
  ASSUME NEW s \in Signals
  PROVE  /\ Evaluate(s) \in {"SAFE", "UNSAFE", "UNKNOWN"}
         /\ Evaluate(s) = "SAFE" => s.tunnel
BY DEF Evaluate, Signals

-----------------------------------------------------------------------------
(* What an answer does to the types of the checker's locals.               *)
LEMMA AnswerTypes ==
  ASSUME TypeOK, NEW c \in Checkers, NEW address \in Addresses,
         Answer(c, address)
  PROVE  /\ reply' \in [Checkers -> Replies]
         /\ read' \in [Checkers -> [hard : BOOLEAN, tunnel : BOOLEAN,
                                    route : BOOLEAN, home : BOOLEAN]]
         /\ seen' \in [Checkers -> Addresses]
         /\ got' \in [Checkers -> [address : Addresses, age : 0 .. TTL]]
         /\ elapsed' \in [Checkers -> 0 .. TTL]
         /\ at' \in [Checkers -> Places \cup {"PauseAll", "AddMagnet", "BlockAdd"}]
<1> DEFINE s == [tunnel |-> read[c].tunnel, route |-> read[c].route,
                 home |-> read[c].home \/ address.ip \in HomeIPs,
                 ipHome |-> address.ip \in HomeIPs,
                 asnVPN |-> address.asnVPN]
<1>1. s \in Signals
  BY DEF TypeOK, DetectorTypeOK, Addresses, Signals
<1>2. Evaluate(s) \in Replies
  BY <1>1, EvaluateStates DEF Replies
<1>3. reply' \in [Checkers -> Replies]
  BY <1>2 DEF Answer, TypeOK, DetectorTypeOK, Replies
<1>4. NoRead \in [hard : BOOLEAN, tunnel : BOOLEAN, route : BOOLEAN, home : BOOLEAN]
  BY DEF NoRead
<1>5. NoAddress \in Addresses
  BY DEF NoAddress, Addresses
<1>6. 0 \in 0 .. TTL
  BY TTLAssumption
<1>7. read' \in [Checkers -> [hard : BOOLEAN, tunnel : BOOLEAN,
                              route : BOOLEAN, home : BOOLEAN]]
  BY <1>4 DEF Answer, TypeOK, DetectorTypeOK
<1>8. seen' \in [Checkers -> Addresses]
  BY <1>5 DEF Answer, TypeOK, DetectorTypeOK
<1>9. got' \in [Checkers -> [address : Addresses, age : 0 .. TTL]]
  BY <1>5, <1>6 DEF Answer, TypeOK, DetectorTypeOK
<1>10. elapsed' \in [Checkers -> 0 .. TTL]
  BY <1>6 DEF Answer, TypeOK, DetectorTypeOK
<1>11. at' \in [Checkers -> Places \cup {"PauseAll", "AddMagnet", "BlockAdd"}]
  BY DEF Answer, Go, TypeOK, Places
<1> QED
  BY <1>3, <1>7, <1>8, <1>9, <1>10, <1>11

(* An answer keeps what is known of the checks about to store.             *)
LEMMA AnswerKeepsLookedUp ==
  ASSUME TypeOK, LookedUpSince, NEW c \in Checkers, NEW address, Answer(c, address)
  PROVE  LookedUpSince'
<1> SUFFICES ASSUME NEW d \in Checkers, at'[d] = "store"
             PROVE  got'[d].age <= elapsed'[d]
  BY DEF LookedUpSince
<1>1. d # c /\ at[d] = "store"
  BY DEF Answer, Go, TypeOK
<1>2. got'[d] = got[d] /\ elapsed'[d] = elapsed[d]
  BY <1>1 DEF Answer, TypeOK, DetectorTypeOK
<1> QED
  BY <1>1, <1>2 DEF LookedUpSince

(* What is written to the cache has the type of the cache.                 *)
LEMMA EntryType ==
  ASSUME NEW address \in Addresses, NEW left \in 0 .. TTL, NEW age \in 0 .. TTL
  PROVE  /\ Entry(address, left, age)
              \in [address : Addresses, left : 0 .. TTL, age : 0 .. TTL]
         /\ Entry(address, left, age).left = left
         /\ left > 0 => Entry(address, left, age).age = age
BY TTLAssumption DEF Entry

LEMMA LaterType ==
  ASSUME NEW n \in 0 .. TTL
  PROVE  Later(n) \in 0 .. TTL /\ Later(n) <= n + 1
BY TTLAssumption DEF Later

(* Time keeps the order of two ages.                                       *)
LEMMA LaterMonotonic ==
  ASSUME NEW n \in 0 .. TTL, NEW k \in 0 .. TTL, n <= k
  PROVE  Later(n) <= Later(k)
BY TTLAssumption DEF Later

-----------------------------------------------------------------------------
LEMMA InitTypes == Init => TypeOK
BY TTLAssumption DEF Init, DetectorInit, TypeOK, DetectorTypeOK, NoAddress,
   NoRead, Addresses, Places, Replies

(* One step of a check keeps the types.                                    *)
LEMMA AskTypes ==
  ASSUME TypeOK, NEW c \in Checkers, Ask(c)
  PROVE  TypeOK'
<1> USE DEF TypeOK, DetectorTypeOK
<1>1. CASE ReadRoute(c)
  <2>1. read' \in [Checkers -> [hard : BOOLEAN, tunnel : BOOLEAN,
                               route : BOOLEAN, home : BOOLEAN]]
    BY <1>1, NetworkAssumption DEF ReadRoute
  <2>2. at' \in [Checkers -> Places \cup {"PauseAll", "AddMagnet", "BlockAdd"}]
    BY <1>1 DEF ReadRoute, Go, Places
  <2> QED
    BY <1>1, <2>1, <2>2 DEF ReadRoute, Ask
<1>2. CASE ReadCache(c)
  <2>1. CASE Answer(c, cache.address)
    <3>1. cache.address \in Addresses
      OBVIOUS
    <3> QED
      BY <1>2, <2>1, <3>1, AnswerTypes DEF ReadCache, Ask
  <2>2. CASE /\ seen' = [seen EXCEPT ![c] = cache.address]
             /\ Go(c, "lookup")
             /\ UNCHANGED <<read, got, elapsed, reply>>
    <3>1. at' \in [Checkers -> Places \cup {"PauseAll", "AddMagnet", "BlockAdd"}]
      BY <2>2 DEF Go, Places
    <3>2. seen' \in [Checkers -> Addresses]
      BY <2>2
    <3> QED
      BY <1>2, <2>2, <3>1, <3>2 DEF ReadCache, Ask
  <2> QED
    BY <1>2, <2>1, <2>2 DEF ReadCache
<1>3. CASE Lookup(c)
  <2>1. CASE Answer(c, seen[c])
    <3>1. seen[c] \in Addresses
      OBVIOUS
    <3> QED
      BY <1>3, <2>1, <3>1, AnswerTypes DEF Lookup, Ask
  <2>2. ASSUME NEW told \in BOOLEAN,
               got' = [got EXCEPT ![c] =
                 [address |-> [ip |-> net.ip,
                               asnVPN |-> told /\ net.ip \in VpnIPs],
                  age |-> 0]],
               Go(c, "store"),
               seen' = [seen EXCEPT ![c] = NoAddress],
               UNCHANGED <<read, elapsed, reply>>
        PROVE  TypeOK'
    <3>1. [address |-> [ip |-> net.ip, asnVPN |-> told /\ net.ip \in VpnIPs],
           age |-> 0] \in [address : Addresses, age : 0 .. TTL]
      <4>1. net.ip \in IPs
        BY NetworkAssumption
      <4> QED
        BY <4>1, TTLAssumption DEF Addresses
    <3>2. got' \in [Checkers -> [address : Addresses, age : 0 .. TTL]]
      BY <2>2, <3>1
    <3>3. at' \in [Checkers -> Places \cup {"PauseAll", "AddMagnet", "BlockAdd"}]
      BY <2>2 DEF Go, Places
    <3>4. seen' \in [Checkers -> Addresses]
      BY <2>2 DEF NoAddress, Addresses
    <3> QED
      BY <1>3, <2>2, <3>2, <3>3, <3>4 DEF Lookup, Ask
  <2> QED
    BY <1>3, <2>1, <2>2 DEF Lookup
<1>4. CASE Store(c)
  <2>1. got[c].address \in Addresses /\ got[c].age \in 0 .. TTL
    OBVIOUS
  <2>2. TTL - elapsed[c] \in 0 .. TTL
    BY TTLAssumption
  <2>3. cache' \in [address : Addresses, left : 0 .. TTL, age : 0 .. TTL]
    BY <1>4, <2>1, <2>2, EntryType DEF Store
  <2> QED
    BY <1>4, <2>1, <2>3, AnswerTypes DEF Store, Ask
<1> QED
  BY <1>1, <1>2, <1>3, <1>4 DEF Ask, Check

(* So do the time, the network and the client.                             *)
LEMMA TickTypes ==
  ASSUME TypeOK, Tick, UNCHANGED <<torrent, client>>
  PROVE  TypeOK'
<1> USE DEF TypeOK, DetectorTypeOK
<1>1. cache.address \in Addresses /\ cache.left \in 0 .. TTL /\ cache.age \in 0 .. TTL
  OBVIOUS
<1>2. (IF cache.left > 0 THEN cache.left - 1 ELSE 0) \in 0 .. TTL
  BY <1>1, TTLAssumption
<1>3. Later(cache.age) \in 0 .. TTL
  BY <1>1, LaterType
<1>4. cache' \in [address : Addresses, left : 0 .. TTL, age : 0 .. TTL]
  BY <1>1, <1>2, <1>3, EntryType DEF Tick
<1>5. elapsed' \in [Checkers -> 0 .. TTL]
  BY LaterType DEF Tick
<1>6. got' \in [Checkers -> [address : Addresses, age : 0 .. TTL]]
  <2> SUFFICES ASSUME NEW d \in Checkers
               PROVE  (IF at[d] = "store" THEN [got[d] EXCEPT !.age = Later(@)]
                       ELSE got[d]) \in [address : Addresses, age : 0 .. TTL]
    BY DEF Tick
  <2>1. Later(got[d].age) \in 0 .. TTL
    BY LaterType
  <2> QED
    BY <2>1
<1> QED
  BY <1>4, <1>5, <1>6 DEF Tick

LEMMA PauseTypes ==
  ASSUME TypeOK, NEW c \in Checkers, PauseAll(c)
  PROVE  TypeOK'
<1>1. at' \in [Checkers -> Places \cup {"PauseAll", "AddMagnet", "BlockAdd"}]
  BY DEF PauseAll, Go, Places, TypeOK
<1>2. torrent' \in [Torrents -> {"absent", "waiting", "downloading", "paused"}]
  BY DEF PauseAll, TypeOK
<1> QED
  BY <1>1, <1>2 DEF PauseAll, TypeOK, DetectorTypeOK, local

LEMMA ContinueTypes ==
  ASSUME TypeOK, NEW c \in Checkers,
         NEW there \in {"idle", "PauseAll", "AddMagnet", "BlockAdd"},
         Continue(c, there)
  PROVE  TypeOK'
<1>1. at' \in [Checkers -> Places \cup {"PauseAll", "AddMagnet", "BlockAdd"}]
  BY DEF Continue, Go, Places, TypeOK
<1>2. reply' \in [Checkers -> Replies]
  BY DEF Continue, TypeOK, DetectorTypeOK, Replies
<1> QED
  BY <1>1, <1>2 DEF Continue, TypeOK, DetectorTypeOK, local

(* A loop or an adder goes on to one of these places.                      *)
LEMMA Decisions ==
  ASSUME NEW c \in Checkers, SyncDecides(c) \/ AddDecides(c)
  PROVE  \E there \in {"idle", "PauseAll", "AddMagnet", "BlockAdd"} :
           Continue(c, there)
BY DEF SyncDecides, AddDecides

-----------------------------------------------------------------------------
(* TypeOK: in every behaviour every variable keeps its type, in particular *)
(* the validity of the cache never goes below zero nor above TTL.          *)
THEOREM GuardTypeCorrect == Spec => []TypeOK
<1>1. TypeOK /\ [Next]_vars => TypeOK'
  <2> SUFFICES ASSUME TypeOK, [Next]_vars
               PROVE  TypeOK'
    OBVIOUS
  <2>1. ASSUME NEW c \in Checkers, Call(c)
        PROVE  TypeOK'
    <3>1. CASE Ask(c)
      BY <3>1, AskTypes
    <3>2. CASE SyncDecides(c) \/ AddDecides(c)
      BY <3>2, Decisions, ContinueTypes
    <3>3. CASE SyncPauseAll(c) \/ AddBlocked(c)
      BY <3>3, PauseTypes DEF SyncPauseAll, AddBlocked
    <3>4. CASE AddMagnet(c)
      <4>1. at' \in [Checkers -> Places \cup {"PauseAll", "AddMagnet", "BlockAdd"}]
        BY <3>4 DEF AddMagnet, Go, Places, TypeOK
      <4>2. torrent' \in [Torrents -> {"absent", "waiting", "downloading", "paused"}]
        BY <3>4 DEF AddMagnet, TypeOK
      <4> QED
        BY <3>4, <4>1, <4>2 DEF AddMagnet, TypeOK, DetectorTypeOK, local
    <3> QED
      BY <2>1, <3>1, <3>2, <3>3, <3>4 DEF Call
  <2>2. CASE ClientChanges \/ PeersFound
    BY <2>2 DEF ClientChanges, PeersFound, TypeOK, DetectorTypeOK, detector, local
  <2>3. CASE Environment
    <3>1. CASE Tick
      BY <2>3, <3>1, TickTypes DEF Environment
    <3>2. CASE NetworkChanges
      BY <2>3, <3>2 DEF Environment, NetworkChanges, TypeOK, DetectorTypeOK, local
    <3>3. CASE BreaksOrRecovers
      BY <2>3, <3>3 DEF Environment, BreaksOrRecovers, TypeOK, DetectorTypeOK, local
    <3> QED
      BY <2>3, <3>1, <3>2, <3>3 DEF Environment
  <2>4. CASE UNCHANGED vars
    BY <2>4 DEF vars, detector, local, TypeOK, DetectorTypeOK
  <2> QED
    BY <2>1, <2>2, <2>3, <2>4 DEF Next
<1> QED
  BY <1>1, InitTypes, PTL DEF Spec

-----------------------------------------------------------------------------
LEMMA InitRecent == Init => Recent
BY DEF Init, DetectorInit, Recent, ValidIsRecent, LookedUpSince

(* One step of a check.  Only Lookup brings a check to the store, with an  *)
(* address of age zero, and only Store writes the cache.                   *)
LEMMA AskRecent ==
  ASSUME TypeOK, Recent, NEW c \in Checkers, Ask(c)
  PROVE  Recent'
<1> USE DEF Recent
<1>1. CASE ReadRoute(c)
  BY <1>1 DEF ReadRoute, Go, TypeOK, ValidIsRecent, LookedUpSince
<1>2. CASE ReadCache(c)
  <2>1. ValidIsRecent'
    BY <1>2 DEF ReadCache, ValidIsRecent
  <2>2. LookedUpSince'
    <3>1. CASE Answer(c, cache.address)
      BY <3>1, AnswerKeepsLookedUp
    <3>2. CASE Go(c, "lookup") /\ UNCHANGED <<read, got, elapsed, reply>>
      BY <3>2 DEF Go, TypeOK, LookedUpSince
    <3> QED
      BY <1>2, <3>1, <3>2 DEF ReadCache
  <2> QED
    BY <2>1, <2>2
<1>3. CASE Lookup(c)
  <2>1. ValidIsRecent'
    BY <1>3 DEF Lookup, ValidIsRecent
  <2>2. LookedUpSince'
    <3>1. CASE Answer(c, seen[c])
      BY <3>1, AnswerKeepsLookedUp
    <3>2. ASSUME NEW told \in BOOLEAN,
                 got' = [got EXCEPT ![c] =
                   [address |-> [ip |-> net.ip,
                                 asnVPN |-> told /\ net.ip \in VpnIPs],
                    age |-> 0]],
                 Go(c, "store"),
                 UNCHANGED <<read, elapsed, reply>>
          PROVE  LookedUpSince'
      <4>1. got'[c].age = 0 /\ elapsed'[c] \in 0 .. TTL
        BY <3>2 DEF TypeOK, DetectorTypeOK
      <4>2. \A d \in Checkers \ {c} :
              at'[d] = at[d] /\ got'[d] = got[d] /\ elapsed'[d] = elapsed[d]
        BY <3>2 DEF Go, TypeOK, DetectorTypeOK
      <4> QED
        BY <4>1, <4>2, TTLAssumption DEF LookedUpSince
    <3> QED
      BY <1>3, <3>1, <3>2 DEF Lookup
  <2> QED
    BY <2>1, <2>2
<1>4. CASE Store(c)
  <2>1. LookedUpSince'
    BY <1>4, AnswerKeepsLookedUp DEF Store
  <2>2. got[c].age <= elapsed[c]
    BY <1>4 DEF Store, LookedUpSince
  <2>3. /\ got[c].address \in Addresses
        /\ got[c].age \in 0 .. TTL
        /\ elapsed[c] \in 0 .. TTL
        /\ TTL - elapsed[c] \in 0 .. TTL
    BY TTLAssumption DEF TypeOK, DetectorTypeOK
  <2>4. /\ cache'.left = TTL - elapsed[c]
        /\ cache'.left > 0 => cache'.age = got[c].age
    <3>1. PICK left \in 0 .. TTL : left = TTL - elapsed[c]
      BY <2>3
    <3>2. cache' = Entry(got[c].address, left, got[c].age)
      BY <1>4, <3>1 DEF Store
    <3>3. cache'.left = left /\ (left > 0 => cache'.age = got[c].age)
      BY <2>3, <3>2, EntryType
    <3> QED
      BY <3>1, <3>3
  <2>5. ValidIsRecent'
    BY <2>2, <2>3, <2>4, TTLAssumption DEF ValidIsRecent
  <2> QED
    BY <2>1, <2>5
<1> QED
  BY <1>1, <1>2, <1>3, <1>4 DEF Ask, Check

(* Time ages the entry by what it takes from its validity, and no looked   *)
(* up address by more than its check.                                      *)
LEMMA TickRecent ==
  ASSUME TypeOK, Recent, Tick
  PROVE  Recent'
<1> USE DEF Recent
<1>1. cache.address \in Addresses /\ cache.left \in 0 .. TTL /\ cache.age \in 0 .. TTL
  BY DEF TypeOK, DetectorTypeOK
<1>2. ValidIsRecent'
  <2> SUFFICES ASSUME cache'.left > 0
               PROVE  cache'.age + cache'.left <= TTL
    BY DEF ValidIsRecent
  <2> DEFINE left == IF cache.left > 0 THEN cache.left - 1 ELSE 0
  <2>1. left \in 0 .. TTL
    BY <1>1, TTLAssumption
  <2>2. Later(cache.age) \in 0 .. TTL /\ Later(cache.age) <= cache.age + 1
    BY <1>1, LaterType
  <2>3. cache' = Entry(cache.address, left, Later(cache.age))
    BY DEF Tick
  <2> HIDE DEF left
  <2>4. cache'.left = left /\ (left > 0 => cache'.age = Later(cache.age))
    BY <1>1, <2>1, <2>2, <2>3, EntryType
  <2>5. cache.left > 0 /\ left = cache.left - 1
    BY <2>4, <1>1 DEF left
  <2> QED
    BY <1>1, <2>2, <2>4, <2>5, TTLAssumption DEF ValidIsRecent
<1>3. LookedUpSince'
  <2> SUFFICES ASSUME NEW d \in Checkers, at'[d] = "store"
               PROVE  got'[d].age <= elapsed'[d]
    BY DEF LookedUpSince
  <2>1. at[d] = "store"
    BY DEF Tick
  <2>2. got[d].age \in 0 .. TTL /\ elapsed[d] \in 0 .. TTL
    BY DEF TypeOK, DetectorTypeOK
  <2>3. got[d].age <= elapsed[d]
    BY <2>1 DEF LookedUpSince
  <2>4. got'[d].age = Later(got[d].age) /\ elapsed'[d] = Later(elapsed[d])
    BY <2>1 DEF Tick, TypeOK, DetectorTypeOK
  <2> QED
    BY <2>2, <2>3, <2>4, LaterMonotonic
<1> QED
  BY <1>2, <1>3

(* What a caller does next neither stores nor touches the cache.           *)
LEMMA GoingOnIsRecent ==
  ASSUME TypeOK, Recent, NEW c \in Checkers,
         NEW there \in {"idle", "PauseAll", "AddMagnet", "BlockAdd"},
         Go(c, there), UNCHANGED <<cache, got, elapsed>>
  PROVE  Recent'
BY DEF Go, TypeOK, Recent, ValidIsRecent, LookedUpSince

-----------------------------------------------------------------------------
(* ValidIsRecent: with any number of checks whose lookups take any time    *)
(* and are stored in any order, an address the detector answers from its   *)
(* cache without a lookup was the public address at most TTL ago.          *)
THEOREM CacheStaysRecent == Spec => []ValidIsRecent
<1>1. TypeOK /\ Recent /\ [Next]_vars => Recent'
  <2> SUFFICES ASSUME TypeOK, Recent, [Next]_vars
               PROVE  Recent'
    OBVIOUS
  <2>1. ASSUME NEW c \in Checkers, Call(c)
        PROVE  Recent'
    <3>1. CASE Ask(c)
      BY <3>1, AskRecent
    <3>2. CASE SyncDecides(c) \/ AddDecides(c)
      BY <3>2, Decisions, GoingOnIsRecent DEF Continue, local
    <3>3. CASE SyncPauseAll(c) \/ AddBlocked(c)
      BY <3>3, GoingOnIsRecent DEF SyncPauseAll, AddBlocked, PauseAll, local
    <3>4. CASE AddMagnet(c)
      BY <3>4, GoingOnIsRecent DEF AddMagnet, local
    <3> QED
      BY <2>1, <3>1, <3>2, <3>3, <3>4 DEF Call
  <2>2. CASE ClientChanges \/ PeersFound
    BY <2>2 DEF ClientChanges, PeersFound, detector, local, Recent, ValidIsRecent,
       LookedUpSince
  <2>3. CASE Environment
    <3>1. CASE Tick
      BY <3>1, TickRecent
    <3>2. CASE NetworkChanges \/ BreaksOrRecovers
      BY <3>2 DEF NetworkChanges, BreaksOrRecovers, local, Recent,
         ValidIsRecent, LookedUpSince
    <3> QED
      BY <2>3, <3>1, <3>2 DEF Environment
  <2>4. CASE UNCHANGED vars
    BY <2>4 DEF vars, detector, local, Recent, ValidIsRecent, LookedUpSince
  <2> QED
    BY <2>1, <2>2, <2>3, <2>4 DEF Next
<1> QED
  BY <1>1, InitRecent, GuardTypeCorrect, PTL DEF Spec, Recent
=============================================================================
