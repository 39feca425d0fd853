---------------------------- MODULE JobLifecycle ----------------------------
(***************************************************************************)
(* What a job table promises to whoever reads it: the abstract             *)
(* specification that conversion_jobs and upload_jobs implement as long as *)
(* one driver works on them.  Only the status and the attempts of a job    *)
(* are visible; drivers, back-off, crashes and files are not.              *)
(***************************************************************************)
EXTENDS Naturals, Sequences

CONSTANT Budget   \* how often a job may be started

VARIABLE jobs     \* the jobs in the order they were queued

NewJob == [status |-> "queued", attempts |-> 0]

Init == jobs = << >>

Enqueue == jobs' = Append(jobs, NewJob)

(* A start counts as an attempt whatever becomes of it.  A pause may be    *)
(* too late to stop it.                                                    *)
Start(i) ==
  /\ jobs[i].status \in {"queued", "paused"}
  /\ jobs[i].attempts < Budget
  /\ jobs' = [jobs EXCEPT ![i].status = "running", ![i].attempts = @ + 1]

Succeed(i) ==
  /\ jobs[i].status = "running"
  /\ jobs' = [jobs EXCEPT ![i].status = "done"]

Retry(i) ==
  /\ jobs[i].status = "running"
  /\ jobs[i].attempts < Budget
  /\ jobs' = [jobs EXCEPT ![i].status = "queued"]

(* A job is given up only when its budget is used up.                      *)
GiveUp(i) ==
  /\ jobs[i].status = "running"
  /\ jobs[i].attempts = Budget
  /\ jobs' = [jobs EXCEPT ![i].status = "failed"]

Pause(i) ==
  /\ jobs[i].status = "queued"
  /\ jobs' = [jobs EXCEPT ![i].status = "paused"]

Resume(i) ==
  /\ jobs[i].status = "paused"
  /\ jobs' = [jobs EXCEPT ![i].status = "queued"]

Next ==
  \/ Enqueue
  \/ \E i \in DOMAIN jobs : \/ Start(i) \/ Succeed(i) \/ Retry(i)
                            \/ GiveUp(i) \/ Pause(i) \/ Resume(i)

Spec == Init /\ [][Next]_jobs
=============================================================================
