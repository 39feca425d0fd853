--------------------------- MODULE LivePageProofs ---------------------------
(***************************************************************************)
(* For any publishers, streams, buffer and bounds: types, no send on a     *)
(* closed channel, and no end of the command before the worker's.          *)
(***************************************************************************)
EXTENDS LivePage, TLAPS

(* The server is shut down only after the worker has returned.             *)
StopsDrained == main = "stopping" => pc[Worker] = "done"

Inv == TypeOK /\ NoSendOnClosed /\ StopsDrained

-----------------------------------------------------------------------------
LEMMA InitInv == Init => Inv
BY BufferAssumption, WorkerAssumption, WebBounds
   DEF Init, CommandInit, EmptyBus, AtStart, Inv, TypeOK, CommandTypeOK,
       BusTypeOK, Running, Versions, NoSendOnClosed, StopsDrained

(* Every step keeps the types.                                             *)
LEMMA TypesKept ==
  ASSUME Inv, [Next]_vars
  PROVE  TypeOK'
<1> USE BufferAssumption, WorkerAssumption, WebBounds
    DEF Inv, TypeOK, CommandTypeOK, BusTypeOK, Running, Versions
<1>1. ASSUME NEW p \in Publishers, RequestArrives(p), Others
      PROVE  TypeOK'
  BY <1>1 DEF RequestArrives, Go, Requests, bus, command, streams, fetches,
     shown, Others
<1>2. ASSUME NEW p \in Publishers, Change(p), Others
      PROVE  TypeOK'
  BY <1>2 DEF Change, Go, bus, command, streams, fetches, shown, Others
<1>3. ASSUME NEW p \in Publishers, Publish(p), Others
      PROVE  TypeOK'
  BY <1>3 DEF Publish, PublishBegin, Go, bus, command, streams, fetches,
     shown, Others
<1>4. ASSUME NEW p \in Publishers, Send(p), Others
      PROVE  TypeOK'
  BY <1>4 DEF Send, PublishSend, bus, command, streams, fetches, shown, Others
<1>5. ASSUME NEW p \in Publishers, Finish(p), Others
      PROVE  TypeOK'
  BY <1>5 DEF Finish, Go, bus, command, streams, fetches, shown, Others
<1>6. ASSUME Tick, Others
      PROVE  TypeOK'
  BY <1>6 DEF Tick, Go, bus, command, streams, fetches, shown, Others
<1>7. ASSUME Cancelled, Others
      PROVE  TypeOK'
  BY <1>7 DEF Cancelled, Go, bus, command, streams, fetches, shown, Others
<1>8. ASSUME Signal, Others
      PROVE  TypeOK'
  BY <1>8 DEF Signal, Fault, bus, command, streams, fetches, shown, Others
<1>9. ASSUME ListenFails, Others
      PROVE  TypeOK'
  <2>1. listening' \in BOOLEAN /\ main' = "draining" /\ Fault
    BY <1>9 DEF ListenFails
  <2>2. faults' \in 0 .. MaxFaults
    BY <2>1 DEF Fault
  <2>3. UNCHANGED <<bus, pc, version>> /\ Others
    BY <1>9 DEF ListenFails
  <2> QED
    BY <2>1, <2>2, <2>3 DEF bus, streams, fetches, shown, Others
<1>10. ASSUME Drained, Others
      PROVE  TypeOK'
  BY <1>10 DEF Drained, bus, command, streams, fetches, shown, Others
<1>11. ASSUME Start, Others
      PROVE  TypeOK'
  BY <1>11 DEF Start, AtStart, bus, command, streams, fetches, shown, Others
<1>12. ASSUME NEW s \in Streams, HandlerSubscribes(s)
      PROVE  TypeOK'
  BY <1>12 DEF HandlerSubscribes, Subscribe, HandlerGo, bus, command, streams,
     fetches, shown
<1>13. ASSUME NEW s \in Streams, SendOverview(s)
      PROVE  TypeOK'
  BY <1>13 DEF SendOverview, bus, command, streams, fetches, shown
<1>14. ASSUME NEW s \in Streams, SendOverviewError(s)
      PROVE  TypeOK'
  BY <1>14 DEF SendOverviewError, Fault, FetchOverview, Reply, bus, command,
     streams, fetches, shown
<1>15. ASSUME NEW s \in Streams, SendMessage(s)
      PROVE  TypeOK'
  <2>1. queued' \in [Streams -> 0 .. Buffer]
    BY <1>15 DEF SendMessage, Take
  <2>2. panesReplies' \subseteq Versions
    BY <1>15 DEF SendMessage, Refresh, Reply
  <2>3. UNCHANGED <<subs, left, command, streams, es, overviewReplies, shown>>
    BY <1>15 DEF SendMessage, Take
  <2> QED
    BY <2>1, <2>2, <2>3 DEF command, streams, shown
<1>16. ASSUME NEW s \in Streams, HandlerReturns(s)
      PROVE  TypeOK'
  BY <1>16 DEF HandlerReturns, HandlerGo, bus, command, streams, fetches, shown
<1>17. ASSUME NEW s \in Streams, HandlerUnsubscribes(s)
      PROVE  TypeOK'
  BY <1>17 DEF HandlerUnsubscribes, Unsubscribe, HandlerGo, bus, command,
     streams, fetches, shown
<1>18. ASSUME NEW s \in Streams, Connect(s)
      PROVE  TypeOK'
  BY <1>18 DEF Connect, HandlerGo, bus, command, streams, fetches, shown
<1>19. ASSUME NEW s \in Streams, Cut(s)
      PROVE  TypeOK'
  BY <1>19 DEF Cut, Fault, bus, command, streams, fetches, shown
<1>20. ASSUME ProcessEnds
      PROVE  TypeOK'
  <2>1. MemoryLost /\ UNCHANGED version /\ main' \in {"down", "killed"}
    BY <1>20 DEF ProcessEnds, Exit, Kill
  <2>2. faults' \in 0 .. MaxFaults
    <3>1. CASE Exit
      BY <3>1 DEF Exit
    <3>2. CASE Kill
      <4>1. Fault
        BY <3>2 DEF Kill
      <4> QED
        BY <4>1 DEF Fault
    <3> QED
      BY <1>20, <3>1, <3>2 DEF ProcessEnds
  <2>3. BusTypeOK'
    <3>1. 0 \in 0 .. Buffer
      OBVIOUS
    <3>2. queued' \in [Streams -> 0 .. Buffer]
      BY <2>1, <3>1 DEF MemoryLost
    <3>3. subs' \subseteq Streams /\ left' \in [Publishers -> SUBSET Streams]
      BY <2>1 DEF MemoryLost
    <3> QED
      BY <3>2, <3>3
  <2>6. listening' \in BOOLEAN
    BY <2>1, Zenon DEF MemoryLost
  <2>4. pc' \in [Publishers -> {"idle", "busy", "publish", "done"}]
    BY <2>1 DEF MemoryLost
  <2>5. handler' \in [Streams -> {"none", "start", "loop", "return"}]
        /\ live' \subseteq Streams /\ UNCHANGED <<es, fetches, shown>>
    BY <1>20 DEF ProcessEnds
  <2> QED
    BY <2>1, <2>2, <2>3, <2>4, <2>5, <2>6 DEF fetches, shown
<1>21. ASSUME RefreshPanes
      PROVE  TypeOK'
  BY <1>21 DEF RefreshPanes, Refresh, Reply, bus, command, streams, fetches,
     shown
<1>22. ASSUME RenderPanes
      PROVE  TypeOK'
  BY <1>22 DEF RenderPanes, bus, command, streams, fetches, shown
<1>23. ASSUME RenderOverview
      PROVE  TypeOK'
  BY <1>23 DEF RenderOverview, bus, command, streams, fetches, shown
<1>24. ASSUME PanesFail
      PROVE  TypeOK'
  BY <1>24 DEF PanesFail, Fault, bus, command, streams, fetches, shown
<1>25. ASSUME OnError
      PROVE  TypeOK'
  BY <1>25 DEF OnError, bus, command, streams, fetches, shown
<1>26. ASSUME RefreshOverview
      PROVE  TypeOK'
  BY <1>26 DEF RefreshOverview, FetchOverview, Reply, bus, command, streams,
     fetches, shown
<1>27. CASE UNCHANGED vars
  BY <1>27 DEF vars, bus, command, streams, fetches, shown
<1> QED
  BY <1>1, <1>2, <1>3, <1>4, <1>5, <1>6, <1>7, <1>8, <1>9, <1>10, <1>11,
     <1>12, <1>13, <1>14, <1>15, <1>16, <1>17, <1>18, <1>19, <1>20, <1>21,
     <1>22, <1>23, <1>24, <1>25, <1>26,
     <1>27 DEF Next, CommandNext, HandlerNext,
     Others

(* A Publish in progress holds the lock, so only it changes what it has yet *)
(* to visit, and nobody takes a channel away from it.                      *)
LEMMA SendsKept ==
  ASSUME Inv, [Next]_vars
  PROVE  NoSendOnClosed'
<1> USE DEF Inv, TypeOK, CommandTypeOK, BusTypeOK, NoSendOnClosed, Unlocked
<1>1. ASSUME NEW p \in Publishers, RequestArrives(p), Others
      PROVE  NoSendOnClosed'
  BY <1>1 DEF RequestArrives, Go, Requests, bus, command, streams, fetches,
     shown, Others
<1>2. ASSUME NEW p \in Publishers, Change(p), Others
      PROVE  NoSendOnClosed'
  BY <1>2 DEF Change, Go, bus, command, streams, fetches, shown, Others
<1>3. ASSUME NEW p \in Publishers, Publish(p), Others
      PROVE  NoSendOnClosed'
  BY <1>3 DEF Publish, PublishBegin, Go, bus, command, streams, fetches,
     shown, Others
<1>4. ASSUME NEW p \in Publishers, Send(p), Others
      PROVE  NoSendOnClosed'
  BY <1>4 DEF Send, PublishSend, bus, command, streams, fetches, shown, Others
<1>5. ASSUME NEW p \in Publishers, Finish(p), Others
      PROVE  NoSendOnClosed'
  BY <1>5 DEF Finish, Go, bus, command, streams, fetches, shown, Others
<1>6. ASSUME Tick, Others
      PROVE  NoSendOnClosed'
  BY <1>6 DEF Tick, Go, bus, command, streams, fetches, shown, Others
<1>7. ASSUME Cancelled, Others
      PROVE  NoSendOnClosed'
  BY <1>7 DEF Cancelled, Go, bus, command, streams, fetches, shown, Others
<1>8. ASSUME Signal, Others
      PROVE  NoSendOnClosed'
  BY <1>8 DEF Signal, Fault, bus, command, streams, fetches, shown, Others
<1>9. ASSUME ListenFails, Others
      PROVE  NoSendOnClosed'
  BY <1>9 DEF ListenFails, Fault, bus, command, streams, fetches, shown, Others
<1>10. ASSUME Drained, Others
      PROVE  NoSendOnClosed'
  BY <1>10 DEF Drained, bus, command, streams, fetches, shown, Others
<1>11. ASSUME Start, Others
      PROVE  NoSendOnClosed'
  BY <1>11 DEF Start, AtStart, bus, command, streams, fetches, shown, Others
<1>12. ASSUME NEW s \in Streams, HandlerSubscribes(s)
      PROVE  NoSendOnClosed'
  BY <1>12 DEF HandlerSubscribes, Subscribe, HandlerGo, bus, command, streams,
     fetches, shown
<1>13. ASSUME NEW s \in Streams, SendOverview(s)
      PROVE  NoSendOnClosed'
  BY <1>13 DEF SendOverview, bus, command, streams, fetches, shown
<1>14. ASSUME NEW s \in Streams, SendOverviewError(s)
      PROVE  NoSendOnClosed'
  BY <1>14 DEF SendOverviewError, Fault, FetchOverview, Reply, bus, command,
     streams, fetches, shown
<1>15. ASSUME NEW s \in Streams, SendMessage(s)
      PROVE  NoSendOnClosed'
  BY <1>15 DEF SendMessage, Take, Refresh, Reply, bus, command, streams,
     fetches, shown
<1>16. ASSUME NEW s \in Streams, HandlerReturns(s)
      PROVE  NoSendOnClosed'
  BY <1>16 DEF HandlerReturns, HandlerGo, bus, command, streams, fetches, shown
<1>17. ASSUME NEW s \in Streams, HandlerUnsubscribes(s)
      PROVE  NoSendOnClosed'
  BY <1>17 DEF HandlerUnsubscribes, Unsubscribe, HandlerGo, bus, command,
     streams, fetches, shown
<1>18. ASSUME NEW s \in Streams, Connect(s)
      PROVE  NoSendOnClosed'
  BY <1>18 DEF Connect, HandlerGo, bus, command, streams, fetches, shown
<1>19. ASSUME NEW s \in Streams, Cut(s)
      PROVE  NoSendOnClosed'
  BY <1>19 DEF Cut, Fault, bus, command, streams, fetches, shown
<1>20. ASSUME ProcessEnds
      PROVE  NoSendOnClosed'
  BY <1>20 DEF ProcessEnds, Exit, Kill, MemoryLost, Fault, bus, command,
     streams, fetches, shown
<1>21. ASSUME RefreshPanes
      PROVE  NoSendOnClosed'
  BY <1>21 DEF RefreshPanes, Refresh, Reply, bus, command, streams, fetches,
     shown
<1>22. ASSUME RenderPanes
      PROVE  NoSendOnClosed'
  BY <1>22 DEF RenderPanes, bus, command, streams, fetches, shown
<1>23. ASSUME RenderOverview
      PROVE  NoSendOnClosed'
  BY <1>23 DEF RenderOverview, bus, command, streams, fetches, shown
<1>24. ASSUME PanesFail
      PROVE  NoSendOnClosed'
  BY <1>24 DEF PanesFail, Fault, bus, command, streams, fetches, shown
<1>25. ASSUME OnError
      PROVE  NoSendOnClosed'
  BY <1>25 DEF OnError, bus, command, streams, fetches, shown
<1>26. ASSUME RefreshOverview
      PROVE  NoSendOnClosed'
  BY <1>26 DEF RefreshOverview, FetchOverview, Reply, bus, command, streams,
     fetches, shown
<1>27. CASE UNCHANGED vars
  BY <1>27 DEF vars, bus, command, streams, fetches, shown
<1> QED
  BY <1>1, <1>2, <1>3, <1>4, <1>5, <1>6, <1>7, <1>8, <1>9, <1>10, <1>11,
     <1>12, <1>13, <1>14, <1>15, <1>16, <1>17, <1>18, <1>19, <1>20, <1>21,
     <1>22, <1>23, <1>24, <1>25, <1>26,
     <1>27 DEF Next, CommandNext, HandlerNext,
     Others

(* The worker that has returned does not come back before a restart.       *)
LEMMA DrainKept ==
  ASSUME Inv, [Next]_vars
  PROVE  StopsDrained'
<1> USE WorkerAssumption DEF Inv, TypeOK, CommandTypeOK, BusTypeOK, StopsDrained
<1>1. ASSUME NEW p \in Publishers, RequestArrives(p), Others
      PROVE  StopsDrained'
  BY <1>1 DEF RequestArrives, Go, Requests, bus, command, streams, fetches,
     shown, Others
<1>2. ASSUME NEW p \in Publishers, Change(p), Others
      PROVE  StopsDrained'
  BY <1>2 DEF Change, Go, bus, command, streams, fetches, shown, Others
<1>3. ASSUME NEW p \in Publishers, Publish(p), Others
      PROVE  StopsDrained'
  BY <1>3 DEF Publish, PublishBegin, Go, bus, command, streams, fetches,
     shown, Others
<1>4. ASSUME NEW p \in Publishers, Send(p), Others
      PROVE  StopsDrained'
  BY <1>4 DEF Send, PublishSend, bus, command, streams, fetches, shown, Others
<1>5. ASSUME NEW p \in Publishers, Finish(p), Others
      PROVE  StopsDrained'
  BY <1>5 DEF Finish, Go, bus, command, streams, fetches, shown, Others
<1>6. ASSUME Tick, Others
      PROVE  StopsDrained'
  BY <1>6 DEF Tick, Go, bus, command, streams, fetches, shown, Others
<1>7. ASSUME Cancelled, Others
      PROVE  StopsDrained'
  BY <1>7 DEF Cancelled, Go, bus, command, streams, fetches, shown, Others
<1>8. ASSUME Signal, Others
      PROVE  StopsDrained'
  BY <1>8 DEF Signal, Fault, bus, command, streams, fetches, shown, Others
<1>9. ASSUME ListenFails, Others
      PROVE  StopsDrained'
  BY <1>9 DEF ListenFails, Fault, bus, command, streams, fetches, shown, Others
<1>10. ASSUME Drained, Others
      PROVE  StopsDrained'
  BY <1>10 DEF Drained, bus, command, streams, fetches, shown, Others
<1>11. ASSUME Start, Others
      PROVE  StopsDrained'
  BY <1>11 DEF Start, AtStart, bus, command, streams, fetches, shown, Others
<1>12. ASSUME NEW s \in Streams, HandlerSubscribes(s)
      PROVE  StopsDrained'
  BY <1>12 DEF HandlerSubscribes, Subscribe, HandlerGo, bus, command, streams,
     fetches, shown
<1>13. ASSUME NEW s \in Streams, SendOverview(s)
      PROVE  StopsDrained'
  BY <1>13 DEF SendOverview, bus, command, streams, fetches, shown
<1>14. ASSUME NEW s \in Streams, SendOverviewError(s)
      PROVE  StopsDrained'
  BY <1>14 DEF SendOverviewError, Fault, FetchOverview, Reply, bus, command,
     streams, fetches, shown
<1>15. ASSUME NEW s \in Streams, SendMessage(s)
      PROVE  StopsDrained'
  BY <1>15 DEF SendMessage, Take, Refresh, Reply, bus, command, streams,
     fetches, shown
<1>16. ASSUME NEW s \in Streams, HandlerReturns(s)
      PROVE  StopsDrained'
  BY <1>16 DEF HandlerReturns, HandlerGo, bus, command, streams, fetches, shown
<1>17. ASSUME NEW s \in Streams, HandlerUnsubscribes(s)
      PROVE  StopsDrained'
  BY <1>17 DEF HandlerUnsubscribes, Unsubscribe, HandlerGo, bus, command,
     streams, fetches, shown
<1>18. ASSUME NEW s \in Streams, Connect(s)
      PROVE  StopsDrained'
  BY <1>18 DEF Connect, HandlerGo, bus, command, streams, fetches, shown
<1>19. ASSUME NEW s \in Streams, Cut(s)
      PROVE  StopsDrained'
  BY <1>19 DEF Cut, Fault, bus, command, streams, fetches, shown
<1>20. ASSUME ProcessEnds
      PROVE  StopsDrained'
  BY <1>20 DEF ProcessEnds, Exit, Kill, MemoryLost, Fault, bus, command,
     streams, fetches, shown
<1>21. ASSUME RefreshPanes
      PROVE  StopsDrained'
  BY <1>21 DEF RefreshPanes, Refresh, Reply, bus, command, streams, fetches,
     shown
<1>22. ASSUME RenderPanes
      PROVE  StopsDrained'
  BY <1>22 DEF RenderPanes, bus, command, streams, fetches, shown
<1>23. ASSUME RenderOverview
      PROVE  StopsDrained'
  BY <1>23 DEF RenderOverview, bus, command, streams, fetches, shown
<1>24. ASSUME PanesFail
      PROVE  StopsDrained'
  BY <1>24 DEF PanesFail, Fault, bus, command, streams, fetches, shown
<1>25. ASSUME OnError
      PROVE  StopsDrained'
  BY <1>25 DEF OnError, bus, command, streams, fetches, shown
<1>26. ASSUME RefreshOverview
      PROVE  StopsDrained'
  BY <1>26 DEF RefreshOverview, FetchOverview, Reply, bus, command, streams,
     fetches, shown
<1>27. CASE UNCHANGED vars
  BY <1>27 DEF vars, bus, command, streams, fetches, shown
<1> QED
  BY <1>1, <1>2, <1>3, <1>4, <1>5, <1>6, <1>7, <1>8, <1>9, <1>10, <1>11,
     <1>12, <1>13, <1>14, <1>15, <1>16, <1>17, <1>18, <1>19, <1>20, <1>21,
     <1>22, <1>23, <1>24, <1>25, <1>26,
     <1>27 DEF Next, CommandNext, HandlerNext,
     Others

THEOREM Inductive == Spec => []Inv
<1>1. Inv /\ [Next]_vars => Inv'
  BY TypesKept, SendsKept, DrainKept DEF Inv
<1> QED
  BY InitInv, <1>1, PTL DEF Spec

(* The types, for any constants.                                           *)
THEOREM LiveTypes == Spec => []TypeOK
BY Inductive, PTL DEF Inv

(* The bus never panics, for any number of publishers and streams.         *)
THEOREM NoPanic == Spec => []NoSendOnClosed
BY Inductive, PTL DEF Inv

(* The command never ends by itself while the worker is in a cycle.        *)
THEOREM DrainsFirst == Spec => WorkerDrained
<1>1. Inv /\ [Next]_vars => (Up /\ main' = "down" => pc[Worker] = "done")
  <2> SUFFICES ASSUME Inv, [Next]_vars, Up, main' = "down"
               PROVE  pc[Worker] = "done"
    OBVIOUS
  <2>1. Exit
    BY DEF Next, CommandNext, HandlerNext, RequestArrives, Change, Publish,
           Send, Finish, Tick, Cancelled, Signal, ListenFails, Drained, Start,
           HandlerSubscribes, SendOverview, SendOverviewError, SendMessage,
           HandlerReturns, HandlerUnsubscribes, Connect, Cut, ProcessEnds, Kill,
           RefreshPanes, RefreshOverview, RenderPanes, RenderOverview,
           PanesFail, OnError, Up, Running, vars, command
  <2> QED
    BY <2>1 DEF Exit, Inv, StopsDrained
<1> QED
  BY Inductive, <1>1, PTL DEF Spec, WorkerDrained
=============================================================================
