------------------------------ MODULE JobQueue ------------------------------
(***************************************************************************)
(* The statements of internal/queue/store.go on a job table.  The tables   *)
(* conversion_jobs and upload_jobs have the same shape, so one set of      *)
(* operators models both: a table is the sequence of its rows, a row's id  *)
(* is its position (ids are assigned in order and rows are never deleted). *)
(* Each operator is one SQL statement, hence atomic.                       *)
(*                                                                         *)
(* A row keeps the columns the program branches on:                        *)
(*   key       the columns of the table's UNIQUE constraint                *)
(*   status    the job status                                              *)
(*   attempts  the attempts column                                         *)
(*   due       next_attempt_at <= now                                      *)
(***************************************************************************)
EXTENDS Naturals, Sequences

Status == {"queued", "running", "paused", "done", "failed"}

Row(Keys) == [key : Keys, status : Status, attempts : Nat, due : BOOLEAN]

NewRow(k) == [key |-> k, status |-> "queued", attempts |-> 0, due |-> TRUE]

HasKey(tab, k) == \E i \in DOMAIN tab : tab[i].key = k

(* Mutant: an INSERT that lost its conflict clause.                        *)
InsertAlways(tab, k) == Append(tab, NewRow(k))

(* INSERT ... ON CONFLICT DO NOTHING.                                      *)
InsertIgnore(tab, k) == IF HasKey(tab, k) THEN tab ELSE Append(tab, NewRow(k))

Ready(row) == row.status = "queued" /\ row.due

(* SELECT ... WHERE status='queued' AND next_attempt_at <= now ORDER BY id *)
(* LIMIT 1: the singleton of the first ready row, or the empty set.        *)
NextQueued(tab) ==
  {i \in DOMAIN tab : Ready(tab[i]) /\ \A j \in 1 .. i - 1 : ~ Ready(tab[j])}

MarkRunning(tab, id, n) ==
  [tab EXCEPT ![id].status = "running", ![id].attempts = n]

(* Mutant: the status of a download is written to a job.                   *)
MarkCompleted(tab, id) == [tab EXCEPT ![id].status = "completed"]

MarkDone(tab, id) == [tab EXCEPT ![id].status = "done"]

(* Mutant: a failed job always goes back to the queue.                     *)
AlwaysRequeue(tab, id, requeue) ==
  [tab EXCEPT ![id].status = "queued", ![id].due = FALSE]

(* Mutant: the update carries the guard of the pause.                      *)
FailQueuedOnly(tab, id, requeue) ==
  IF tab[id].status # "queued" THEN tab
  ELSE [tab EXCEPT ![id].status = IF requeue THEN "queued" ELSE "failed"]

(* next_attempt_at is now for a failed job and now + backoff for a requeued *)
(* one (retryDecision).                                                    *)
MarkFailed(tab, id, requeue) ==
  [tab EXCEPT ![id].status = IF requeue THEN "queued" ELSE "failed",
              ![id].due = ~ requeue]

(* Mutant: a running job may be paused.                                    *)
PauseUnfinished(tab, id) == tab[id].status \in {"queued", "running"}

CanPause(tab, id) == tab[id].status = "queued"
Pause(tab, id) == [tab EXCEPT ![id].status = "paused"]

(* Mutant: any inactive job may be resumed.                                *)
ResumeInactive(tab, id) == tab[id].status \notin {"queued", "running"}

CanResume(tab, id) == tab[id].status = "paused"
Resume(tab, id) == [tab EXCEPT ![id].status = "queued", ![id].due = TRUE]

(* The clock passes the next_attempt_at of a requeued job.                 *)
Waiting(tab, id) == ~ tab[id].due
BackoffElapsed(tab, id) == [tab EXCEPT ![id].due = TRUE]
=============================================================================
