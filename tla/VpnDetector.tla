---------------------------- MODULE VpnDetector ----------------------------
(***************************************************************************)
(* internal/vpn: the policy (policy.go) and SystemDetector (detector.go),  *)
(* asked by several callers at once.  A check reads the default route,     *)
(* takes the public address from the cache or looks it up without holding  *)
(* the lock, and evaluates what it has.                                    *)
(*                                                                         *)
(* Time is relative: the cache carries what is left of its validity, a     *)
(* check the time since it read the clock.                                 *)
(***************************************************************************)
EXTENDS Integers

CONSTANTS
  Checkers,   \* concurrent callers of Gate.Status
  IPs,        \* public addresses
  Networks,   \* network situations the instance visits
  HomeIPs,    \* vpn.home_public_ips
  VpnIPs,     \* addresses whose ASN is in vpn.allowed_vpn_asns
  TTL         \* cache validity, in ticks

None == "none"

(* iface: what the default route goes through, "tunnel" if its name has an *)
(* allowed prefix, None if there is no default route.  home: whether SSID  *)
(* or CIDR are those of the home network.  ip: the public address.         *)
ASSUME NetworkAssumption ==
  /\ Networks \subseteq [iface : {"tunnel", "plain", None}, home : BOOLEAN,
                         ip : IPs]
  /\ None \notin IPs
ASSUME TTLAssumption == TTL \in Nat /\ TTL > 0

(* The cache validity in seconds, of the configured check interval.        *)
CacheTTL(interval) ==
  LET n == interval * 3 IN
  IF interval <= 0 THEN 30 ELSE IF n < 15 THEN 15 ELSE IF n > 120 THEN 120 ELSE n

Signals == [tunnel : BOOLEAN, route : BOOLEAN, home : BOOLEAN,
            ipHome : BOOLEAN, asnVPN : BOOLEAN]

Evaluate(s) ==
  IF s.tunnel /\ (~ s.ipHome \/ s.asnVPN) THEN "SAFE"
  ELSE IF ~ s.tunnel /\ (s.route \/ s.home \/ s.ipHome) THEN "UNSAFE"
  ELSE "UNKNOWN"

VARIABLES
  net,      \* the network as it is
  broken,   \* what does not work just now: "commands", "lookups"
  cache,    \* an address, the ticks it stays valid, and while it is valid
            \* (not in the code) the ticks since it was looked up
  at,       \* per checker: where it is
  read,     \* what it read of the default route
  seen,     \* its copy of the cache
  got,      \* the address it looked up, and (not in the code) its age
  elapsed,  \* ticks since it read the clock
  reply     \* what Gate.Status has returned to it

local == <<read, seen, got, elapsed>>
detector == <<net, broken, cache, at, local, reply>>

NoAddress == [ip |-> None, asnVPN |-> FALSE]
NoRead == [hard |-> FALSE, tunnel |-> FALSE, route |-> FALSE, home |-> FALSE]
Addresses == [ip : IPs \cup {None}, asnVPN : BOOLEAN]
Replies == {"SAFE", "UNSAFE", "UNKNOWN", "ERROR", None}
Places == {"idle", "cache", "lookup", "store", "answered"}

DetectorTypeOK ==
  /\ net \in Networks
  /\ broken \subseteq {"commands", "lookups"}
  /\ cache \in [address : Addresses, left : 0 .. TTL, age : 0 .. TTL]
  /\ read \in [Checkers -> [hard : BOOLEAN, tunnel : BOOLEAN,
                            route : BOOLEAN, home : BOOLEAN]]
  /\ seen \in [Checkers -> Addresses]
  /\ got \in [Checkers -> [address : Addresses, age : 0 .. TTL]]
  /\ elapsed \in [Checkers -> 0 .. TTL]
  /\ reply \in [Checkers -> Replies]

DetectorInit ==
  /\ net \in Networks
  /\ broken = {}
  /\ cache = [address |-> NoAddress, left |-> 0, age |-> 0]
  /\ at = [c \in Checkers |-> "idle"]
  /\ read = [c \in Checkers |-> NoRead]
  /\ seen = [c \in Checkers |-> NoAddress]
  /\ got = [c \in Checkers |-> [address |-> NoAddress, age |-> 0]]
  /\ elapsed = [c \in Checkers |-> 0]
  /\ reply = [c \in Checkers |-> None]

-----------------------------------------------------------------------------
Go(c, there) == at' = [at EXCEPT ![c] = there]

(* Check has all its signals and Gate.Status returns.                      *)
Answer(c, address) ==
  /\ reply' = [reply EXCEPT ![c] =
       IF read[c].hard THEN "ERROR"
       ELSE Evaluate([tunnel |-> read[c].tunnel, route |-> read[c].route,
                      home |-> read[c].home \/ address.ip \in HomeIPs,
                      ipHome |-> address.ip \in HomeIPs,
                      asnVPN |-> address.asnVPN])]
  /\ Go(c, "answered")
  /\ read' = [read EXCEPT ![c] = NoRead]
  /\ seen' = [seen EXCEPT ![c] = NoAddress]
  /\ got' = [got EXCEPT ![c] = [address |-> NoAddress, age |-> 0]]
  /\ elapsed' = [elapsed EXCEPT ![c] = 0]

(* The commands fail, or there is no default route: the check goes on, and *)
(* returns an error in the end.                                            *)
ReadRoute(c) ==
  /\ at[c] = "idle"
  /\ LET ok == "commands" \notin broken /\ net.iface # None IN
     read' = [read EXCEPT ![c] =
       [hard |-> ~ ok, route |-> ok, tunnel |-> ok /\ net.iface = "tunnel",
        home |-> net.home]]
  /\ Go(c, "cache")
  /\ UNCHANGED <<net, broken, cache, seen, got, elapsed, reply>>

(* Mutant: the expiry is not looked at.                                    *)
ReadCacheForever(c) ==
  /\ at[c] = "cache"
  /\ \/ /\ cache.address.ip # None
        /\ Answer(c, cache.address)
     \/ /\ cache.address.ip = None
        /\ seen' = [seen EXCEPT ![c] = cache.address]
        /\ Go(c, "lookup")
        /\ UNCHANGED <<read, got, elapsed, reply>>
  /\ UNCHANGED <<net, broken, cache>>

(* A valid entry is the answer; any other is kept for a failed lookup.     *)
ReadCache(c) ==
  /\ at[c] = "cache"
  /\ \/ /\ cache.address.ip # None /\ cache.left > 0
        /\ Answer(c, cache.address)
     \/ /\ cache.address.ip = None \/ cache.left = 0
        /\ seen' = [seen EXCEPT ![c] = cache.address]
        /\ Go(c, "lookup")
        /\ UNCHANGED <<read, got, elapsed, reply>>
  /\ UNCHANGED <<net, broken, cache>>

(* The services are asked in turn.  Some of them do not tell the ASN.      *)
Lookup(c) ==
  /\ at[c] = "lookup"
  /\ \/ /\ "lookups" \notin broken /\ net.iface # None
        /\ \E told \in BOOLEAN :
             got' = [got EXCEPT ![c] =
               [address |-> [ip |-> net.ip,
                             asnVPN |-> told /\ net.ip \in VpnIPs],
                age |-> 0]]
        /\ Go(c, "store")
        /\ seen' = [seen EXCEPT ![c] = NoAddress]
        /\ UNCHANGED <<read, elapsed, reply>>
     \/ /\ "lookups" \in broken \/ net.iface = None
        /\ Answer(c, seen[c])
  /\ UNCHANGED <<net, broken, cache>>

Entry(address, left, age) ==
  [address |-> address, left |-> left, age |-> IF left = 0 THEN 0 ELSE age]

(* Mutant: the entry is valid from the moment it is written.               *)
StoreFromNow(c) ==
  /\ at[c] = "store"
  /\ cache' = Entry(got[c].address, TTL, got[c].age)
  /\ Answer(c, got[c].address)
  /\ UNCHANGED <<net, broken>>

(* The entry is valid from the moment the check read the clock.            *)
Store(c) ==
  /\ at[c] = "store"
  /\ cache' = Entry(got[c].address, TTL - elapsed[c], got[c].age)
  /\ Answer(c, got[c].address)
  /\ UNCHANGED <<net, broken>>

Check(c) == ReadRoute(c) \/ ReadCache(c) \/ Lookup(c) \/ Store(c)

-----------------------------------------------------------------------------
Later(n) == IF n < TTL THEN n + 1 ELSE n

(* Mutant: the validity of the entry goes below zero.                      *)
TickNoFloor ==
  /\ cache' = Entry(cache.address, cache.left - 1, Later(cache.age))
  /\ UNCHANGED <<net, broken, at, local, reply>>

Tick ==
  /\ cache' = Entry(cache.address, IF cache.left > 0 THEN cache.left - 1 ELSE 0,
                    Later(cache.age))
  /\ elapsed' = [c \in Checkers |->
       IF at[c] \in {"lookup", "store"} THEN Later(elapsed[c]) ELSE elapsed[c]]
  /\ got' = [c \in Checkers |->
       IF at[c] = "store" THEN [got[c] EXCEPT !.age = Later(@)] ELSE got[c]]
  /\ UNCHANGED <<net, broken, at, read, seen, reply>>

NetworkChanges ==
  /\ net' \in Networks \ {net}
  /\ UNCHANGED <<broken, cache, at, local, reply>>

(* One thing is out of order at a time.                                    *)
BreaksOrRecovers ==
  /\ \/ broken = {} /\ \E b \in {"commands", "lookups"} : broken' = {b}
     \/ broken # {} /\ broken' = {}
  /\ UNCHANGED <<net, cache, at, local, reply>>

-----------------------------------------------------------------------------
(* A valid cache entry is never older than the validity of an entry,       *)
(* however slow the lookups are and in whatever order they are stored.     *)
ValidIsRecent ==
  cache.left > 0 => cache.age + cache.left <= TTL
=============================================================================
