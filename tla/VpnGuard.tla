------------------------------ MODULE VpnGuard ------------------------------
(***************************************************************************)
(* What internal/app/service.go does with the VPN state: the loop's sync   *)
(* pauses everything unless it is SAFE, AddMagnet refuses.  (The resume of *)
(* a torrent does not ask: see Pipeline.)  The torrent client is external: *)
(* a request takes effect or, while the client is out of order, does       *)
(* nothing.  A started torrent waits for its first peer, then it counts as *)
(* downloading.                                                            *)
(*                                                                         *)
(* vpn.require_safe_for_magnet_adds is on, as it is by default.            *)
(***************************************************************************)
EXTENDS VpnDetector

CONSTANTS
  Loops,         \* checkers that run SyncCompletedDownloads again and again
  Adders,        \* checkers that run AddMagnet
  Torrents

ASSUME CallerAssumption ==
  Loops \cup Adders = Checkers /\ Loops \cap Adders = {}

VARIABLES
  torrent,   \* the torrent client: the state of each magnet
  client     \* whether the torrent client answers

vars == <<detector, torrent, client>>

TypeOK ==
  /\ DetectorTypeOK
  /\ at \in [Checkers -> Places \cup {"PauseAll", "AddMagnet", "BlockAdd"}]
  /\ torrent \in [Torrents -> {"absent", "waiting", "downloading", "paused"}]
  /\ client \in BOOLEAN

Init ==
  /\ DetectorInit
  /\ torrent = [t \in Torrents |-> "absent"]
  /\ client = TRUE

-----------------------------------------------------------------------------
(* The caller acts on the state it was given and forgets it.               *)
Continue(c, there) ==
  /\ Go(c, there)
  /\ reply' = [reply EXCEPT ![c] = None]
  /\ UNCHANGED <<net, broken, cache, local, torrent, client>>

(* qBittorrent and uTorrent are asked to pause all; Transmission to stop   *)
(* the recently active, which may leave out those waiting for a peer.      *)
PauseAll(c) ==
  /\ \E left \in SUBSET {t \in Torrents : torrent[t] = "waiting"} :
       torrent' = [t \in Torrents |->
                     IF client /\ t \notin left
                        /\ torrent[t] \in {"waiting", "downloading"}
                     THEN "paused" ELSE torrent[t]]
  /\ Go(c, "idle")
  /\ UNCHANGED <<net, broken, cache, local, reply, client>>

Ask(c) ==
  /\ Check(c)
  /\ UNCHANGED <<torrent, client>>

(* Mutant: only the UNSAFE state pauses.                                   *)
SyncDecidesUnsafe(c) ==
  /\ c \in Loops /\ at[c] = "answered"
  /\ Continue(c, IF reply[c] = "UNSAFE" THEN "PauseAll" ELSE "idle")

(* An error of the detector ends the sync before the pause.                *)
SyncDecides(c) ==
  /\ c \in Loops /\ at[c] = "answered"
  /\ Continue(c, IF reply[c] \in {"UNSAFE", "UNKNOWN"} THEN "PauseAll" ELSE "idle")

SyncPauseAll(c) ==
  /\ c \in Loops /\ at[c] = "PauseAll"
  /\ PauseAll(c)

AddDecides(c) ==
  /\ c \in Adders /\ at[c] = "answered"
  /\ Continue(c, CASE reply[c] = "SAFE" -> "AddMagnet"
                   [] reply[c] = "ERROR" -> "idle"
                   [] OTHER -> "BlockAdd")

(* The error of the pause is ignored.                                      *)
AddBlocked(c) ==
  /\ c \in Adders /\ at[c] = "BlockAdd"
  /\ PauseAll(c)

AddMagnet(c) ==
  /\ c \in Adders /\ at[c] = "AddMagnet"
  /\ \/ /\ client
        /\ \E t \in Torrents : torrent[t] = "absent"
                               /\ torrent' = [torrent EXCEPT ![t] = "waiting"]
     \/ UNCHANGED torrent     \* refused, or known already
  /\ Go(c, "idle")
  /\ UNCHANGED <<net, broken, cache, local, reply, client>>

Call(c) == \/ Ask(c) \/ SyncDecides(c) \/ SyncPauseAll(c)
           \/ AddDecides(c) \/ AddBlocked(c) \/ AddMagnet(c)

-----------------------------------------------------------------------------
(* The client is out of order only while everything else works.            *)
ClientChanges ==
  /\ broken = {}
  /\ client' = ~ client
  /\ UNCHANGED <<detector, torrent>>

(* The first peer of a torrent answers.                                    *)
PeersFound ==
  /\ \E t \in Torrents : /\ torrent[t] = "waiting"
                         /\ torrent' = [torrent EXCEPT ![t] = "downloading"]
  /\ UNCHANGED <<detector, client>>

Environment ==
  /\ Tick \/ NetworkChanges \/ (client /\ BreaksOrRecovers)
  /\ UNCHANGED <<torrent, client>>

Next ==
  \/ \E c \in Checkers : Call(c)
  \/ ClientChanges
  \/ PeersFound
  \/ Environment

Spec == Init /\ [][Next]_vars

(* Every call returns (commands and lookups have deadlines), a loop's      *)
(* ticker starts the next cycle, and time passes.  Nobody need add.        *)
Fairness ==
  /\ \A c \in Loops : WF_vars(Call(c))
  /\ \A c \in Adders : WF_vars(at[c] # "idle" /\ Call(c))
  /\ WF_vars(Tick /\ UNCHANGED <<torrent, client>>)

LiveSpec == Spec /\ Fairness

-----------------------------------------------------------------------------
Exposed == net.iface = "plain" \/ (net.iface = "tunnel" /\ net.ip \in HomeIPs)
Protected == net.iface = "tunnel" /\ net.ip \notin HomeIPs
Downloading == \E t \in Torrents : torrent[t] = "downloading"

(* When the VPN stays off, or the tunnel stays up and leaks the home       *)
(* address, nothing downloads in the end, whatever was cached, whichever   *)
(* lookups and adds were under way and whatever finds its peers later,     *)
(* provided that the detector's commands, the lookups and the torrent      *)
(* client work.  For instances in which no home address has an ASN of the  *)
(* VPN.                                                                    *)
ExposurePauses ==
  <>[](Exposed /\ broken = {} /\ client) => <>[]~ Downloading

(* When the VPN stays on, adds are let through again, whatever was cached. *)
ProtectionIsSeen ==
  <>[](Protected /\ broken = {})
    => \A c \in Checkers : <>[](reply[c] \in {"SAFE", None})

(* The UNKNOWN state pauses everything.  Gate.Status answers UNKNOWN, with *)
(* an error, while the detector's commands fail.                           *)
UnknownPauses ==
  <>[](Exposed /\ "commands" \in broken /\ client) => <>[]~ Downloading
=============================================================================
