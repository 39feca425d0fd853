------------------------------ MODULE LivePage ------------------------------
(***************************************************************************)
(* The web command with its page: handleStream and the script of the page  *)
(* in internal/web/server.go.  A stream is one EventSource connection with *)
(* the handler goroutine at its other end; either end may take the loss of *)
(* the connection for a live one.  The page shows versions of the data: in *)
(* the overview, sent on the stream every 3 s and fetched at the load, by  *)
(* the buttons and when the stream reports an error, and in the panes,     *)
(* fetched every 5 s and at every message.                                 *)
(***************************************************************************)
EXTENDS WebCommand

CONSTANT None    \* no stream

ASSUME NoneAssumption == None \notin Streams

VARIABLES
  handler,         \* where the handler of each stream is
  live,            \* streams whose connection works
  es,              \* the page's EventSource
  panesReplies,    \* versions that fetches of the panes are bringing
  overviewReplies, \* versions that fetches of the overview are bringing
  panes,           \* version the panes show, 0 before the first
  overview         \* version the overview shows

streams == <<handler, live>>
fetches == <<panesReplies, overviewReplies>>
shown == <<panes, overview>>
vars == <<bus, command, streams, es, fetches, shown>>

Versions == 1 .. MaxVersion

TypeOK ==
  /\ CommandTypeOK
  /\ handler \in [Streams -> {"none", "start", "loop", "return"}]
  /\ live \subseteq Streams
  /\ es \in Streams \cup {None}
  /\ panesReplies \subseteq Versions /\ overviewReplies \subseteq Versions
  /\ panes \in 0 .. MaxVersion /\ overview \in Versions

\* The page has been loaded and has its first overview, not yet its panes.
Init ==
  /\ CommandInit
  /\ handler = [s \in Streams |-> "none"]
  /\ live = {}
  /\ es = None
  /\ panesReplies = {} /\ overviewReplies = {}
  /\ panes = 0 /\ overview = 1

-----------------------------------------------------------------------------
(* Fetches of the page.  A request reads the data when the server handles  *)
(* it and its reply is under way for any time; replies may overtake each   *)
(* other, and the last one to arrive is what the page shows.  Replies with *)
(* the same version are one.                                               *)

\* What the server answers, if the request reaches it.
Reply == IF Accepting THEN {version} ELSE {}

\* refreshCollections
Refresh == panesReplies' = panesReplies \cup Reply

FetchOverview == overviewReplies' = overviewReplies \cup Reply

\* Mutant: only the load refreshes by itself.
RefreshAtLoad ==
  /\ panes = 0 /\ Accepting /\ Refresh
  /\ UNCHANGED <<bus, command, streams, es, overviewReplies, shown>>

\* setInterval(refreshCollections, 5000) and the load; the buttons ask for
\* panes and overview at once, the server answers them in either order.
RefreshPanes ==
  /\ Accepting /\ Refresh
  /\ UNCHANGED <<bus, command, streams, es, overviewReplies, shown>>

\* The load, the refresh button and the end of a cycle that was asked for.
RefreshOverview ==
  /\ Accepting /\ FetchOverview
  /\ UNCHANGED <<bus, command, streams, es, panesReplies, shown>>

RenderPanes ==
  /\ \E v \in panesReplies : /\ panes' = v
                             /\ panesReplies' = panesReplies \ {v}
  /\ UNCHANGED <<bus, command, streams, es, overviewReplies, overview>>

RenderOverview ==
  /\ \E v \in overviewReplies : /\ overview' = v
                                /\ overviewReplies' = overviewReplies \ {v}
  /\ UNCHANGED <<bus, command, streams, es, panesReplies, panes>>

\* One of the four collections fails: Promise.all rejects, nothing is
\* rendered.
PanesFail ==
  /\ Fault
  /\ \E v \in panesReplies : panesReplies' = panesReplies \ {v}
  /\ UNCHANGED <<bus, main, listening, pc, version, streams, es,
                 overviewReplies, shown>>

-----------------------------------------------------------------------------
(* The handler of a stream.  What it writes to a connection that is gone   *)
(* is lost, and the error may show only later.                             *)

HandlerGo(s, there) == handler' = [handler EXCEPT ![s] = there]

Arrives(s) == s = es /\ s \in live

HandlerSubscribes(s) ==
  /\ handler[s] = "start"
  /\ Subscribe(s)
  /\ HandlerGo(s, "loop")
  /\ UNCHANGED <<command, live, es, fetches, shown>>

\* Mutant: the overview is sent when there is a message.
SendOverviewAfterMessage(s) ==
  /\ handler[s] = "loop" /\ queued[s] > 0
  /\ Arrives(s) /\ overview' = version
  /\ UNCHANGED <<bus, command, streams, es, fetches, panes>>

\* At once and then at every tick.
SendOverview(s) ==
  /\ handler[s] = "loop"
  /\ Arrives(s) /\ overview' = version
  /\ UNCHANGED <<bus, command, streams, es, fetches, panes>>

\* The VPN state or the statistics fail: the page asks by itself.
SendOverviewError(s) ==
  /\ handler[s] = "loop" /\ Fault
  /\ Arrives(s) /\ FetchOverview
  /\ UNCHANGED <<bus, main, listening, pc, version, streams, es,
                 panesReplies, shown>>

\* The page refreshes, unless the message (torrent_open_folder) is none of
\* those it listens to.
SendMessage(s) ==
  /\ handler[s] = "loop"
  /\ Take(s)
  /\ \/ Arrives(s) /\ Refresh
     \/ UNCHANGED panesReplies
  /\ UNCHANGED <<command, streams, es, overviewReplies, shown>>

\* A write fails or the request's context ends.
HandlerReturns(s) ==
  /\ handler[s] = "loop" /\ s \notin live
  /\ HandlerGo(s, "return")
  /\ UNCHANGED <<bus, command, live, es, fetches, shown>>

\* Mutant: the handler returns without the deferred Unsubscribe.
HandlerForgets(s) ==
  /\ handler[s] = "return" /\ UNCHANGED bus
  /\ HandlerGo(s, "none")
  /\ UNCHANGED <<command, live, es, fetches, shown>>

HandlerUnsubscribes(s) ==
  /\ handler[s] = "return"
  /\ Unsubscribe(s)
  /\ HandlerGo(s, "none")
  /\ UNCHANGED <<command, live, es, fetches, shown>>

HandlerNext(s) ==
  \/ HandlerSubscribes(s) \/ SendOverview(s) \/ SendOverviewError(s)
  \/ SendMessage(s) \/ HandlerReturns(s) \/ HandlerUnsubscribes(s)

-----------------------------------------------------------------------------
(* Connections.                                                            *)

\* A connection refused is tried again after retryMs.  Streams are alike:
\* a new connection gets any free one, always the same.
Connect(s) ==
  /\ es = None /\ Accepting
  /\ handler[s] = "none" /\ s = CHOOSE t \in Streams : handler[t] = "none"
  /\ es' = s /\ live' = live \cup {s}
  /\ HandlerGo(s, "start")
  /\ UNCHANGED <<bus, command, fetches, shown>>

\* es.onerror: the page sees that its connection is gone.
OnError ==
  /\ es # None /\ es \notin live
  /\ es' = None
  /\ UNCHANGED <<bus, command, streams, fetches, shown>>

\* The network drops the connection.
Cut(s) ==
  /\ s \in live /\ Fault
  /\ live' = live \ {s}
  /\ UNCHANGED <<bus, main, listening, pc, version, handler, es, fetches,
                 shown>>

\* With the process every handler ends, without its deferred calls.
ProcessEnds ==
  /\ Exit \/ Kill
  /\ handler' = [s \in Streams |-> "none"]
  /\ live' = {}
  /\ UNCHANGED <<es, fetches, shown>>

Next ==
  \/ (CommandNext \/ Start) /\ UNCHANGED <<streams, es, fetches, shown>>
  \/ \E s \in Streams : HandlerNext(s) \/ Connect(s) \/ Cut(s)
  \/ ProcessEnds
  \/ RefreshPanes \/ RenderPanes \/ PanesFail
  \/ RefreshOverview \/ RenderOverview
  \/ OnError

Spec == Init /\ [][Next]_vars

-----------------------------------------------------------------------------
(* Fairness.  Cycles, requests and sends end; the two tickers, the         *)
(* intervals and the reconnection fire; the page's host notices a dead     *)
(* connection.  Cancelled is strongly fair since select chooses among the  *)
(* ready cases at random.  Signals, changes, requests, buttons, restarts   *)
(* and faults need not happen.                                             *)
Others == UNCHANGED <<streams, es, fetches, shown>>

Fairness ==
  /\ \A p \in Publishers :
       WF_vars((Publish(p) \/ Send(p) \/ Finish(p)) /\ Others)
  /\ SF_vars(Cancelled /\ Others)
  /\ WF_vars(Drained /\ Others)
  /\ WF_vars(Exit /\ ProcessEnds)
  /\ \A s \in Streams :
       /\ SF_vars(\/ HandlerSubscribes(s) \/ HandlerReturns(s)
                  \/ HandlerUnsubscribes(s))
       /\ WF_vars(SendOverview(s)) /\ WF_vars(SendMessage(s))
  /\ WF_vars(\E s \in Streams : Connect(s)) /\ WF_vars(OnError)
  /\ WF_vars(RefreshPanes)
  /\ WF_vars(RenderPanes) /\ WF_vars(RenderOverview)

LiveSpec == Spec /\ Fairness

-----------------------------------------------------------------------------
(* Properties.  NoSendOnClosed is stated in EventBus.                      *)

(* cmdWeb never ends, except by a kill, while the worker may still be in a *)
(* cycle: the store is closed after it (cli.go:443).                       *)
WorkerDrained == [][Up /\ main' = "down" => pc[Worker] = "done"]_vars

(* Once it is asked to stop, the command ends although a page keeps its    *)
(* stream open for ever and the select may prefer the ticker (cli.go:442). *)
StopEnds == main = "draining" ~> ~ Up

(* A Publish in progress comes to its end, whatever the subscribers do: it *)
(* waits neither for a full channel nor, with its lock held, for a handler *)
(* that wants the lock to leave (bus.go:41).                               *)
PublishEnds == \A p \in Publishers : left[p] # {} ~> left[p] = {}

(* The channel of a connection that is gone leaves the bus (server.go:407).*)
DeadStreamLeavesBus ==
  \A s \in Streams : s \in subs /\ s \notin live ~> s \notin subs

(* If the server stays up, the panes come to show the data and go on doing *)
(* so, although some changes are not published, messages are lost with     *)
(* full channels and connections, a refresh whose fetches fail in part     *)
(* renders nothing, and replies overtake each other (server.go page,       *)
(* refreshCollections).                                                    *)
PanesCatchUp == <>[]Accepting => <>[](panes = version)

(* Likewise the overview.  By itself only the stream brings it, so the     *)
(* page has to find its way back to one; what the buttons and the load     *)
(* fetch may come later than what the stream has sent since, and the page  *)
(* must not stay at it (server.go page, fetchOverview, startSSE).          *)
OverviewCatchesUp == <>[]Accepting => <>[](overview = version)
=============================================================================
