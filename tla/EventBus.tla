------------------------------ MODULE EventBus ------------------------------
(***************************************************************************)
(* internal/events/bus.go: publishers send every message to each           *)
(* subscriber's buffered channel.  Publish holds the read lock from its    *)
(* first to its last send, Subscribe and Unsubscribe need the write lock.  *)
(* A message is a trigger to look again, so a channel is a count.          *)
(***************************************************************************)
EXTENDS Naturals

CONSTANTS
  Publishers,    \* goroutines that call Publish
  Streams,       \* connections; each has at most one channel at a time
  Buffer         \* capacity of a channel

ASSUME BufferAssumption == Buffer \in Nat \ {0}

VARIABLES
  subs,          \* streams whose channel is in the bus; the others are closed
  queued,        \* messages in each channel, none in one that is closed
  left           \* channels that a Publish in progress has still to visit

bus == <<subs, queued, left>>

BusTypeOK ==
  /\ subs \subseteq Streams
  /\ queued \in [Streams -> 0 .. Buffer]
  /\ left \in [Publishers -> SUBSET Streams]

EmptyBus ==
  /\ subs = {}
  /\ queued = [s \in Streams |-> 0]
  /\ left = [p \in Publishers |-> {}]

\* The write lock is free when no Publish is between two sends.
Unlocked == \A p \in Publishers : left[p] = {}

\* The channel is a new one, as the stream's number is used again.
Subscribe(s) ==
  /\ Unlocked
  /\ subs' = subs \cup {s}
  /\ UNCHANGED <<queued, left>>

\* Mutant: the channel is closed without the lock.
UnsubscribeUnlocked(s) ==
  /\ subs' = subs \ {s}
  /\ queued' = [queued EXCEPT ![s] = 0]
  /\ UNCHANGED left

Unsubscribe(s) ==
  /\ Unlocked
  /\ subs' = subs \ {s}
  /\ queued' = [queued EXCEPT ![s] = 0]
  /\ UNCHANGED left

PublishBegin(p) ==
  /\ left[p] = {}
  /\ left' = [left EXCEPT ![p] = subs]
  /\ UNCHANGED <<subs, queued>>

\* Mutant: the send waits for room in the channel.
PublishSendWaits(p, s) ==
  /\ s \in left[p] /\ queued[s] < Buffer
  /\ left' = [left EXCEPT ![p] = @ \ {s}]
  /\ queued' = [queued EXCEPT ![s] = @ + 1]
  /\ UNCHANGED subs

\* Mutant: one message more than fits.
PublishSendOverfull(p, s) ==
  /\ s \in left[p]
  /\ left' = [left EXCEPT ![p] = @ \ {s}]
  /\ queued' = [queued EXCEPT ![s] = IF @ <= Buffer THEN @ + 1 ELSE @]
  /\ UNCHANGED subs

\* The send does not wait: a full channel loses the message.
PublishSend(p, s) ==
  /\ s \in left[p]
  /\ left' = [left EXCEPT ![p] = @ \ {s}]
  /\ queued' = [queued EXCEPT ![s] = IF @ < Buffer THEN @ + 1 ELSE @]
  /\ UNCHANGED subs

Take(s) ==
  /\ queued[s] > 0
  /\ queued' = [queued EXCEPT ![s] = @ - 1]
  /\ UNCHANGED <<subs, left>>

(* No Publish is about to send on a channel that an Unsubscribe has taken  *)
(* out and closed: the panic would end the process (bus.go:45).            *)
NoSendOnClosed == \A p \in Publishers : left[p] \subseteq subs
=============================================================================
