----------------------------- MODULE WebCommand -----------------------------
(***************************************************************************)
(* The process of the web command: cmdWeb and startWebPipelineLoop of      *)
(* internal/cli/cli.go, with the worker and the requests that change data  *)
(* and publish.  The data are a version number: what the overview and the  *)
(* panes would show.  The data outlive the process, the bus does not.      *)
(***************************************************************************)
EXTENDS EventBus

CONSTANTS
  Worker,        \* the publisher that is the pipeline loop
  MaxVersion,    \* bound on changes of the data
  MaxFaults      \* bound on signals, kills, failures and lost connections

ASSUME WorkerAssumption == Worker \in Publishers
ASSUME WebBounds == MaxVersion \in Nat \ {0} /\ MaxFaults \in Nat

VARIABLES
  main,          \* where cmdWeb is
  listening,     \* whether the listener accepts
  pc,            \* where each publisher is
  version,
  faults

command == <<main, listening, pc, version, faults>>

Running == {"serving", "draining", "stopping"}
Up == main \in Running
Accepting == Up /\ listening
Requests == Publishers \ {Worker}

CommandTypeOK ==
  /\ BusTypeOK
  /\ main \in Running \cup {"down", "killed"}
  /\ listening \in BOOLEAN
  /\ pc \in [Publishers -> {"idle", "busy", "publish", "done"}]
  /\ version \in 1 .. MaxVersion
  /\ faults \in 0 .. MaxFaults

\* startWebPipelineLoop runs its first cycle at once.
AtStart == [p \in Publishers |-> IF p = Worker THEN "busy" ELSE "idle"]

CommandInit ==
  /\ EmptyBus
  /\ main = "serving" /\ listening = TRUE
  /\ pc = AtStart
  /\ version = 1 /\ faults = 0

Fault == faults < MaxFaults /\ faults' = faults + 1

Go(p, there) == pc' = [pc EXCEPT ![p] = there]

-----------------------------------------------------------------------------
(* Worker and requests.                                                    *)

\* Opening a folder publishes without changing anything.
RequestArrives(p) ==
  /\ p \in Requests /\ Accepting
  /\ pc[p] = "idle"
  /\ \E there \in {"publish", "busy"} : Go(p, there)
  /\ UNCHANGED <<bus, main, listening, version, faults>>

\* A change is stored first and published after; some (a failed job, a job
\* marked as running) are not published at all.
Change(p) ==
  /\ Up /\ pc[p] = "busy" /\ left[p] = {}
  /\ version < MaxVersion /\ version' = version + 1
  /\ \E there \in {"publish", "busy"} : Go(p, there)
  /\ UNCHANGED <<bus, main, listening, faults>>

Publish(p) ==
  /\ Up /\ pc[p] = "publish"
  /\ PublishBegin(p)
  /\ Go(p, "busy")
  /\ UNCHANGED <<main, listening, version, faults>>

Send(p) ==
  /\ Up
  /\ \E s \in Streams : PublishSend(p, s)
  /\ UNCHANGED command

\* The end of a cycle (at its deadline at the latest) or of a request.
Finish(p) ==
  /\ Up /\ pc[p] = "busy" /\ left[p] = {}
  /\ Go(p, "idle")
  /\ UNCHANGED <<bus, main, listening, version, faults>>

\* The select may take the ticker although the context has ended.
Tick ==
  /\ Up /\ pc[Worker] = "idle"
  /\ Go(Worker, "busy")
  /\ UNCHANGED <<bus, main, listening, version, faults>>

Cancelled ==
  /\ main = "draining" /\ pc[Worker] = "idle"
  /\ Go(Worker, "done")
  /\ UNCHANGED <<bus, main, listening, version, faults>>

-----------------------------------------------------------------------------
(* The main goroutine.                                                     *)

Signal ==
  /\ main = "serving" /\ Fault
  /\ main' = "draining"
  /\ UNCHANGED <<bus, listening, pc, version>>

ListenFails ==
  /\ main = "serving" /\ Fault
  /\ main' = "draining" /\ listening' = FALSE
  /\ UNCHANGED <<bus, pc, version>>

\* Mutant: the server is shut down while the worker is in a cycle.
DrainedAtOnce ==
  /\ main = "draining"
  /\ listening /\ main' = "stopping" /\ listening' = FALSE
  /\ UNCHANGED <<bus, pc, version, faults>>

\* Shutdown closes the listener; after a listen error there is none.
Drained ==
  /\ main = "draining" /\ pc[Worker] = "done"
  /\ listening /\ main' = "stopping" /\ listening' = FALSE
  /\ UNCHANGED <<bus, pc, version, faults>>

\* The memory of the process is gone, requests are cut off where they are.
MemoryLost ==
  /\ subs' = {}
  /\ queued' = [s \in Streams |-> 0]
  /\ left' = [p \in Publishers |-> {}]
  /\ pc' = [p \in Publishers |-> "done"]
  /\ listening' = FALSE

\* Mutant: Shutdown without a deadline waits for the streams.
ExitWhenQuiet ==
  /\ \/ main = "stopping" /\ subs = {}
     \/ main = "draining" /\ pc[Worker] = "done" /\ ~ listening
  /\ main' = "down"
  /\ MemoryLost
  /\ UNCHANGED <<version, faults>>

\* Shutdown waits for requests and streams, for 5 s at most; its error is
\* ignored.  After a listen error the command returns without Shutdown.
Exit ==
  /\ \/ main = "stopping"
     \/ main = "draining" /\ pc[Worker] = "done" /\ ~ listening
  /\ main' = "down"
  /\ MemoryLost
  /\ UNCHANGED <<version, faults>>

Kill ==
  /\ Up /\ Fault
  /\ main' = "killed"
  /\ MemoryLost
  /\ UNCHANGED version

Start ==
  /\ ~ Up
  /\ main' = "serving" /\ listening' = TRUE
  /\ pc' = AtStart
  /\ UNCHANGED <<bus, version, faults>>

CommandNext ==
  \/ \E p \in Publishers : \/ RequestArrives(p) \/ Change(p)
                           \/ Publish(p) \/ Send(p) \/ Finish(p)
  \/ Tick \/ Cancelled \/ Signal \/ ListenFails \/ Drained
=============================================================================
