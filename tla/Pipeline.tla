------------------------------ MODULE Pipeline ------------------------------
(***************************************************************************)
(* The download -> conversion -> upload pipeline of internal/app/          *)
(* service.go, run by one or more drivers: the loop of `run --forever` and *)
(* of `web` (LoopDrivers: a failed sync is logged and ProcessOnce still    *)
(* runs), `run --cycles` and the web handler of "run one cycle" (a failed  *)
(* sync ends the cycle).  A driver's step is one call of the service to    *)
(* the store, the VPN gate, the torrent client, the converter or the       *)
(* uploader, and everything the code does until the next call.             *)
(***************************************************************************)
EXTENDS JobQueue, Integers, FiniteSets

CONSTANTS
  Torrents,      \* torrents known to the provider, each with one input path
  OutputOf,      \* buildOutputPath: torrent -> output file
  Drivers,       \* concurrent callers of Sync/ProcessOnce
  LoopDrivers,   \* those that go on after a failed sync
  MaxAttempts,   \* workers.max_attempts
  VPNReadings,   \* what the gate may answer in this instance
  OperatorOn,    \* whether the operator pauses and resumes
  MaxFaults,     \* bound: failed store calls and process crashes
  MaxDay         \* bound: midnights

AllReadings == {"SAFE", "UNSAFE", "UNKNOWN", "ERROR"}

ASSUME OutputAssumption == DOMAIN OutputOf = Torrents
ASSUME DriverAssumption == LoopDrivers \subseteq Drivers
ASSUME BoundAssumption ==
  /\ MaxAttempts \in Int
  /\ MaxFaults \in Nat
  /\ MaxDay \in Nat
ASSUME ReadingAssumption == VPNReadings \subseteq AllReadings /\ VPNReadings # {}

Outputs == {OutputOf[t] : t \in Torrents}
UploadKeys == Outputs \X (0 .. MaxDay)

None == "none"         \* no file, no object, no torrent in hand
Partial == "partial"   \* a file cut short, or being written
Mixed == "mixed"       \* a file that two conversions had open at once

ASSUME NameAssumption == {None, Partial, Mixed} \cap Torrents = {}

VARIABLES
  torrent,    \* provider: state of each torrent
  vpn,        \* what the next gate reading answers
  downloads,  \* table downloads: recorded torrents
  conv,       \* table conversion_jobs, keyed by input (the torrent)
  upl,        \* table upload_jobs, keyed by <<file, day>>
  links,      \* table links: the <<file, day>> of each final_url
  content,    \* processed directory: what each output file holds
  bucket,     \* object storage: what each object holds
  today,      \* the date objectKeyForUpload prints
  faults,     \* failed store calls and crashes so far
  pc, todo, cur, job, att   \* per driver: call it is at, and its locals

world == <<torrent, vpn, today>>
tables == <<downloads, conv, upl, links>>
files == <<content, bucket>>
locals == <<todo, cur, job, att>>
vars == <<world, tables, files, faults, pc, locals>>

ConvPCs == {"MarkConversionRunning", "Convert", "Converting",
            "MarkConversionFailed", "MarkConversionDone", "EnqueueUpload"}
UplPCs == {"MarkUploadRunning", "Upload", "MarkUploadFailed", "MarkUploadDone"}
PCs == {"idle", "PauseAll", "List", "RecordDownload", "EnqueueConversion",
        "NextQueuedConversion", "VPNStatus", "NextQueuedUpload"}
       \cup ConvPCs \cup UplPCs

Contents == {None, Partial, Mixed} \cup Torrents

TypeOK ==
  /\ torrent \in [Torrents -> {"downloading", "paused", "completed"}]
  /\ vpn \in VPNReadings
  /\ downloads \subseteq Torrents
  /\ conv \in Seq(Row(Torrents))
  /\ upl \in Seq(Row(UploadKeys))
  /\ links \subseteq UploadKeys
  /\ content \in [Outputs -> Contents]
  /\ bucket \in [UploadKeys -> Contents]
  /\ today \in 0 .. MaxDay
  /\ faults \in Nat
  /\ pc \in [Drivers -> PCs]
  /\ todo \in [Drivers -> SUBSET Torrents]
  /\ cur \in [Drivers -> Torrents \cup {None}]
  /\ job \in [Drivers -> Nat]
  /\ att \in [Drivers -> Nat]

Init ==
  /\ torrent = [t \in Torrents |-> "downloading"]
  /\ vpn \in VPNReadings
  /\ downloads = {}
  /\ conv = << >>
  /\ upl = << >>
  /\ links = {}
  /\ content = [o \in Outputs |-> None]
  /\ bucket = [k \in UploadKeys |-> None]
  /\ today = 0
  /\ faults = 0
  /\ pc = [d \in Drivers |-> "idle"]
  /\ todo = [d \in Drivers |-> {}]
  /\ cur = [d \in Drivers |-> None]
  /\ job = [d \in Drivers |-> 0]
  /\ att = [d \in Drivers |-> 0]

-----------------------------------------------------------------------------
(* Control of one driver.                                                  *)

At(d, here) == pc[d] = here
Goto(d, there) == pc' = [pc EXCEPT ![d] = there]

(* The end of a cycle: every local goes out of scope.                      *)
EndCycle(d) ==
  /\ Goto(d, "idle")
  /\ todo' = [todo EXCEPT ![d] = {}]
  /\ cur' = [cur EXCEPT ![d] = None]
  /\ job' = [job EXCEPT ![d] = 0]
  /\ att' = [att EXCEPT ![d] = 0]

(* The locals of one half of ProcessOnce, and their end.                   *)
Take(d, id, n) == job' = [job EXCEPT ![d] = id] /\ att' = [att EXCEPT ![d] = n]
EndSync(d) ==
  todo' = [todo EXCEPT ![d] = {}] /\ cur' = [cur EXCEPT ![d] = None]

(* Mutant: the loop gives up the cycle when the sync fails.                *)
SyncAlwaysStops(d) == EndCycle(d)

(* SyncCompletedDownloads returned an error.                               *)
SyncFails(d) ==
  \/ /\ d \in LoopDrivers
     /\ Goto(d, "NextQueuedConversion")
     /\ EndSync(d)
     /\ UNCHANGED <<job, att>>
  \/ d \notin LoopDrivers /\ EndCycle(d)

(* A store call fails and changes nothing: the context has ended or the    *)
(* database refuses.                                                       *)
StoreFault == faults < MaxFaults /\ faults' = faults + 1

(* retryDecision: the attempt budget.                                      *)
Budget == IF MaxAttempts <= 0 THEN 1 ELSE MaxAttempts
RequeueOnceMore(n) == n <= Budget    \* mutant: off by one
Requeue(n) == n < Budget

-----------------------------------------------------------------------------
(* SyncCompletedDownloads                                                  *)

PausedAll == [t \in Torrents |-> IF torrent[t] = "downloading" THEN "paused"
                                 ELSE torrent[t]]

SyncStatus(d) ==
  /\ At(d, "idle")
  /\ \/ vpn = "ERROR" /\ SyncFails(d)
     \/ /\ vpn = "SAFE"
        /\ Goto(d, "List")
        /\ UNCHANGED locals
     \/ /\ vpn \in {"UNSAFE", "UNKNOWN"}
        /\ Goto(d, "PauseAll")
        /\ UNCHANGED locals
  /\ UNCHANGED <<world, tables, files, faults>>

SyncPauseAll(d) ==
  /\ At(d, "PauseAll")
  /\ \/ /\ torrent' = PausedAll
        /\ Goto(d, "List")
        /\ UNCHANGED locals
     \/ SyncFails(d) /\ UNCHANGED torrent     \* the provider refuses
  /\ UNCHANGED <<vpn, today, tables, files, faults>>

(* Mutant: a paused torrent passes for a completed one.                    *)
NotDownloading == {t \in Torrents : torrent[t] # "downloading"}

Completed == {t \in Torrents : torrent[t] = "completed"}

SyncList(d) ==
  /\ At(d, "List")
  /\ \/ /\ todo' = [todo EXCEPT ![d] = Completed]
        /\ Goto(d, "RecordDownload")
        /\ UNCHANGED <<cur, job, att>>
     \/ SyncFails(d)                          \* the provider refuses
  /\ UNCHANGED <<world, tables, files, faults>>

SyncDone(d) ==
  /\ At(d, "RecordDownload")
  /\ todo[d] = {}
  /\ Goto(d, "NextQueuedConversion")
  /\ UNCHANGED <<world, tables, files, faults, locals>>

SyncRecord(d) ==
  /\ At(d, "RecordDownload")
  /\ \E t \in todo[d] :
       \/ /\ downloads' = downloads \cup {t}
          /\ todo' = [todo EXCEPT ![d] = @ \ {t}]
          /\ cur' = [cur EXCEPT ![d] = t]
          /\ Goto(d, "EnqueueConversion")
          /\ UNCHANGED <<faults, job, att>>
       \/ StoreFault /\ SyncFails(d) /\ UNCHANGED downloads
  /\ UNCHANGED <<world, conv, upl, links, files>>

SyncEnqueue(d) ==
  /\ At(d, "EnqueueConversion")
  /\ \/ /\ conv' = InsertIgnore(conv, cur[d])
        /\ cur' = [cur EXCEPT ![d] = None]
        /\ Goto(d, "RecordDownload")
        /\ UNCHANGED <<faults, todo, job, att>>
     \/ StoreFault /\ SyncFails(d) /\ UNCHANGED conv
  /\ UNCHANGED <<world, downloads, upl, links, files>>

-----------------------------------------------------------------------------
(* processConversionOnce                                                   *)

ConvNext(d) ==
  /\ At(d, "NextQueuedConversion")
  /\ \/ \E id \in NextQueued(conv) :
          /\ Take(d, id, conv[id].attempts + 1)
          /\ Goto(d, "MarkConversionRunning")
          /\ UNCHANGED <<faults, todo, cur>>
     \/ /\ NextQueued(conv) = {}
        /\ Goto(d, "VPNStatus")
        /\ UNCHANGED <<faults, locals>>
     \/ StoreFault /\ EndCycle(d)
  /\ UNCHANGED <<world, tables, files>>

ConvMark(d) ==
  /\ At(d, "MarkConversionRunning")
  /\ \/ /\ conv' = MarkRunning(conv, job[d], att[d])
        /\ Goto(d, "Convert")
        /\ UNCHANGED <<faults, locals>>
     \/ StoreFault /\ EndCycle(d) /\ UNCHANGED conv
  /\ UNCHANGED <<world, downloads, upl, links, files>>

Input(d) == conv[job[d]].key
Target(d) == OutputOf[Input(d)]
Writers(o) == {e \in Drivers : pc[e] = "Converting" /\ Target(e) = o}

(* Mutant: a missing input passes for a finished conversion.               *)
ConvStartIgnoresError(d) ==
  /\ At(d, "Convert")
  /\ \/ /\ content' = [content EXCEPT ![Target(d)] = Partial]
        /\ Goto(d, "Converting")
     \/ Goto(d, "MarkConversionDone") /\ UNCHANGED content
  /\ UNCHANGED <<world, tables, bucket, faults, locals>>

(* Convert opens and truncates its output, unless it fails before; whoever *)
(* else has the file open goes on writing where it was.                    *)
ConvStart(d) ==
  /\ At(d, "Convert")
  /\ \/ /\ content' = [content EXCEPT ![Target(d)] =
                         IF Writers(Target(d)) = {} THEN Partial ELSE Mixed]
        /\ Goto(d, "Converting")
     \/ Goto(d, "MarkConversionFailed") /\ UNCHANGED content
  /\ UNCHANGED <<world, tables, bucket, faults, locals>>

(* Mutant: the copy's error is not returned.                               *)
ConvFinishIgnoresError(d) ==
  /\ At(d, "Converting")
  /\ Goto(d, "MarkConversionDone")
  /\ \/ content' = [content EXCEPT ![Target(d)] = Input(d)]
     \/ UNCHANGED content
  /\ UNCHANGED <<world, tables, bucket, faults, locals>>

(* Convert returns.  The file is whole if nobody else had it open; if      *)
(* somebody had, that depends on who truncated it last and how much each   *)
(* had written by then, which the model leaves open.                       *)
ConvFinish(d) ==
  /\ At(d, "Converting")
  /\ \/ /\ \E video \in {Input(d), Mixed} :
             /\ content[Target(d)] = Partial => video = Input(d)
             /\ content' = [content EXCEPT ![Target(d)] = video]
        /\ Goto(d, "MarkConversionDone")
     \/ Goto(d, "MarkConversionFailed") /\ UNCHANGED content
  /\ UNCHANGED <<world, tables, bucket, faults, locals>>

(* The error of MarkConversionFailed is ignored.                           *)
ConvFailed(d) ==
  /\ At(d, "MarkConversionFailed")
  /\ \/ /\ conv' = MarkFailed(conv, job[d], Requeue(att[d]))
        /\ UNCHANGED faults
     \/ StoreFault /\ UNCHANGED conv
  /\ Goto(d, "VPNStatus")
  /\ Take(d, 0, 0)
  /\ UNCHANGED <<world, downloads, upl, links, files, todo, cur>>

ConvDone(d) ==
  /\ At(d, "MarkConversionDone")
  /\ \/ /\ conv' = MarkDone(conv, job[d])
        /\ Goto(d, "EnqueueUpload")
        /\ UNCHANGED <<faults, locals>>
     \/ StoreFault /\ EndCycle(d) /\ UNCHANGED conv
  /\ UNCHANGED <<world, downloads, upl, links, files>>

(* Mutant: the upload is queued only while uploads are open.               *)
EnqueueWhenOpen(d) ==
  /\ At(d, "EnqueueUpload")
  /\ upl' = IF vpn = "UNSAFE" THEN InsertIgnore(upl, <<Target(d), today>>) ELSE upl
  /\ Goto(d, "VPNStatus")
  /\ Take(d, 0, 0)
  /\ UNCHANGED <<world, downloads, conv, links, files, faults, todo, cur>>

ConvEnqueueUpload(d) ==
  /\ At(d, "EnqueueUpload")
  /\ \/ /\ upl' = InsertIgnore(upl, <<Target(d), today>>)
        /\ Goto(d, "VPNStatus")
        /\ Take(d, 0, 0)
        /\ UNCHANGED <<faults, todo, cur>>
     \/ StoreFault /\ EndCycle(d) /\ UNCHANGED upl
  /\ UNCHANGED <<world, downloads, conv, links, files>>

-----------------------------------------------------------------------------
(* processUploadOnce                                                       *)

(* Mutant: uploads wait for the VPN, as downloads do.                      *)
UplStatusSafe(d) ==
  /\ At(d, "VPNStatus")
  /\ \/ /\ vpn = "SAFE"
        /\ Goto(d, "NextQueuedUpload")
        /\ UNCHANGED locals
     \/ vpn # "SAFE" /\ EndCycle(d)
  /\ UNCHANGED <<world, tables, files, faults>>

(* Uploads wait for the home network: UNSAFE is the state that opens them. *)
UplStatus(d) ==
  /\ At(d, "VPNStatus")
  /\ \/ /\ vpn = "UNSAFE"
        /\ Goto(d, "NextQueuedUpload")
        /\ UNCHANGED locals
     \/ vpn # "UNSAFE" /\ EndCycle(d)
  /\ UNCHANGED <<world, tables, files, faults>>

UplNext(d) ==
  /\ At(d, "NextQueuedUpload")
  /\ \/ \E id \in NextQueued(upl) :
          /\ Take(d, id, upl[id].attempts + 1)
          /\ Goto(d, "MarkUploadRunning")
          /\ UNCHANGED <<faults, todo, cur>>
     \/ NextQueued(upl) = {} /\ EndCycle(d) /\ UNCHANGED faults
     \/ StoreFault /\ EndCycle(d)
  /\ UNCHANGED <<world, tables, files>>

UplMark(d) ==
  /\ At(d, "MarkUploadRunning")
  /\ \/ /\ upl' = MarkRunning(upl, job[d], att[d])
        /\ Goto(d, "Upload")
        /\ UNCHANGED <<faults, locals>>
     \/ StoreFault /\ EndCycle(d) /\ UNCHANGED upl
  /\ UNCHANGED <<world, downloads, conv, links, files>>

(* The PUT stores the file; its reply may be an error or be lost all the   *)
(* same, and it may fail without storing anything.                         *)
UplPut(d) ==
  /\ At(d, "Upload")
  /\ \/ /\ bucket' = [bucket EXCEPT ![upl[job[d]].key] =
                        content[upl[job[d]].key[1]]]
        /\ Goto(d, "MarkUploadDone") \/ Goto(d, "MarkUploadFailed")
     \/ Goto(d, "MarkUploadFailed") /\ UNCHANGED bucket
  /\ UNCHANGED <<world, tables, content, faults, locals>>

(* The error of MarkUploadFailed is ignored.                               *)
UplFailed(d) ==
  /\ At(d, "MarkUploadFailed")
  /\ \/ /\ upl' = MarkFailed(upl, job[d], Requeue(att[d]))
        /\ UNCHANGED faults
     \/ StoreFault /\ UNCHANGED upl
  /\ EndCycle(d)
  /\ UNCHANGED <<world, downloads, conv, links, files>>

(* Mutant: two statements instead of one transaction.                      *)
UplDoneThenLink(d) ==
  /\ At(d, "MarkUploadDone")
  /\ upl' = MarkDone(upl, job[d])
  /\ \/ links' = links \cup {upl[job[d]].key} /\ UNCHANGED faults
     \/ StoreFault /\ UNCHANGED links
  /\ EndCycle(d)
  /\ UNCHANGED <<world, downloads, conv, files>>

(* One transaction: the row is done and its link exists, or neither.       *)
UplDone(d) ==
  /\ At(d, "MarkUploadDone")
  /\ \/ /\ upl' = MarkDone(upl, job[d])
        /\ links' = links \cup {upl[job[d]].key}
        /\ UNCHANGED faults
     \/ StoreFault /\ UNCHANGED <<upl, links>>
  /\ EndCycle(d)
  /\ UNCHANGED <<world, downloads, conv, files>>

Sync(d) == \/ SyncStatus(d) \/ SyncPauseAll(d) \/ SyncList(d)
           \/ SyncDone(d) \/ SyncRecord(d) \/ SyncEnqueue(d)
Convert(d) == \/ ConvNext(d) \/ ConvMark(d) \/ ConvStart(d) \/ ConvFinish(d)
              \/ ConvFailed(d) \/ ConvDone(d) \/ ConvEnqueueUpload(d)
Upload(d) == \/ UplStatus(d) \/ UplNext(d) \/ UplMark(d) \/ UplPut(d)
             \/ UplFailed(d) \/ UplDone(d)
Step(d) == Sync(d) \/ Convert(d) \/ Upload(d)

-----------------------------------------------------------------------------
(* The operator: one HTTP request or CLI command each.                     *)

PauseConversionJob(id) ==
  /\ CanPause(conv, id)
  /\ conv' = Pause(conv, id)
  /\ UNCHANGED <<world, downloads, upl, links, files, faults, pc, locals>>

ResumeConversionJob(id) ==
  /\ CanResume(conv, id)
  /\ conv' = Resume(conv, id)
  /\ UNCHANGED <<world, downloads, upl, links, files, faults, pc, locals>>

PauseUploadJob(id) ==
  /\ CanPause(upl, id)
  /\ upl' = Pause(upl, id)
  /\ UNCHANGED <<world, downloads, conv, links, files, faults, pc, locals>>

ResumeUploadJob(id) ==
  /\ CanResume(upl, id)
  /\ upl' = Resume(upl, id)
  /\ UNCHANGED <<world, downloads, conv, links, files, faults, pc, locals>>

PauseTorrent(t) ==
  /\ torrent[t] = "downloading"
  /\ torrent' = [torrent EXCEPT ![t] = "paused"]
  /\ UNCHANGED <<vpn, today, tables, files, faults, pc, locals>>

ResumeTorrent(t) ==
  /\ torrent[t] = "paused"
  /\ torrent' = [torrent EXCEPT ![t] = "downloading"]
  /\ UNCHANGED <<vpn, today, tables, files, faults, pc, locals>>

Operator ==
  /\ OperatorOn
  /\ \/ \E id \in DOMAIN conv :
          PauseConversionJob(id) \/ ResumeConversionJob(id)
     \/ \E id \in DOMAIN upl : PauseUploadJob(id) \/ ResumeUploadJob(id)
     \/ \E t \in Torrents : PauseTorrent(t) \/ ResumeTorrent(t)

-----------------------------------------------------------------------------
(* The environment.                                                        *)

TorrentCompletes(t) ==
  /\ torrent[t] = "downloading"
  /\ torrent' = [torrent EXCEPT ![t] = "completed"]
  /\ UNCHANGED <<vpn, today, tables, files, faults, pc, locals>>

VPNChanges ==
  /\ vpn' \in VPNReadings \ {vpn}
  /\ UNCHANGED <<torrent, today, tables, files, faults, pc, locals>>

Midnight ==
  /\ today < MaxDay
  /\ today' = today + 1
  /\ UNCHANGED <<torrent, vpn, tables, files, faults, pc, locals>>

ConvBackoffElapses(id) ==
  /\ Waiting(conv, id)
  /\ conv' = BackoffElapsed(conv, id)
  /\ UNCHANGED <<world, downloads, upl, links, files, faults, pc, locals>>

UplBackoffElapses(id) ==
  /\ Waiting(upl, id)
  /\ upl' = BackoffElapsed(upl, id)
  /\ UNCHANGED <<world, downloads, conv, links, files, faults, pc, locals>>

ClockTicks ==
  \/ \E id \in DOMAIN conv : ConvBackoffElapses(id)
  \/ \E id \in DOMAIN upl : UplBackoffElapses(id)

(* A process dies, with the drivers in it, and is started again: the       *)
(* tables and the files are what they were, the locals are gone.           *)
Crash(dead) ==
  /\ \E d \in dead : pc[d] # "idle"
  /\ StoreFault
  /\ pc' = [d \in Drivers |-> IF d \in dead THEN "idle" ELSE pc[d]]
  /\ todo' = [d \in Drivers |-> IF d \in dead THEN {} ELSE todo[d]]
  /\ cur' = [d \in Drivers |-> IF d \in dead THEN None ELSE cur[d]]
  /\ job' = [d \in Drivers |-> IF d \in dead THEN 0 ELSE job[d]]
  /\ att' = [d \in Drivers |-> IF d \in dead THEN 0 ELSE att[d]]
  /\ UNCHANGED <<world, tables, files>>

Environment ==
  \/ \E t \in Torrents : TorrentCompletes(t)
  \/ VPNChanges
  \/ Midnight
  \/ ClockTicks
  \/ \E dead \in SUBSET Drivers : Crash(dead)

Next == (\E d \in Drivers : Step(d)) \/ Operator \/ Environment

Spec == Init /\ [][Next]_vars

(* A loop driver's ticker fires again after every cycle and its calls      *)
(* return; time passes.  Nothing is asked of the operator, of the          *)
(* downloads or of the VPN.                                                *)
Fairness ==
  /\ \A d \in LoopDrivers : WF_vars(Step(d))
  /\ WF_vars(ClockTicks)

LiveSpec == Spec /\ Fairness

-----------------------------------------------------------------------------
(* Properties that hold for any drivers, faults and operator.              *)

(* INSERT OR IGNORE on the UNIQUE columns: drivers that list the same      *)
(* completed torrent never queue its conversion, or the upload of one file *)
(* on one day, twice.                                                      *)
OneRowPerKey ==
  /\ \A i, j \in DOMAIN conv : conv[i].key = conv[j].key => i = j
  /\ \A i, j \in DOMAIN upl : upl[i].key = upl[j].key => i = j

(* SyncCompletedDownloads records a download before it queues the          *)
(* conversion: wherever a sync is cut short, a queued conversion has its   *)
(* download row, and its torrent was really complete.                      *)
QueuedIsRecorded ==
  \A i \in DOMAIN conv : /\ conv[i].key \in downloads
                         /\ torrent[conv[i].key] = "completed"

(* An upload is only queued behind an attempted conversion that wrote its  *)
(* file, whichever driver did it and whatever became of that driver.       *)
UploadFollowsConversion ==
  \A i \in DOMAIN upl :
    LET file == upl[i].key[1] IN
    /\ content[file] # None
    /\ \E j \in DOMAIN conv : OutputOf[conv[j].key] = file /\ conv[j].attempts > 0

(* MarkUploadDone's transaction: a finished upload has its link, and a     *)
(* link always names an object that was stored for a known upload job.     *)
LinkIsBacked ==
  /\ \A i \in DOMAIN upl : upl[i].status = "done" => upl[i].key \in links
  /\ \A k \in links : bucket[k] # None /\ HasKey(upl, k)

-----------------------------------------------------------------------------
(* Properties of a single driver, for any faults and operator.             *)

ConvClaimed(id) == \E d \in Drivers : pc[d] \in ConvPCs /\ job[d] = id
UplClaimed(id) == \E d \in Drivers : pc[d] \in UplPCs /\ job[d] = id

(* Retries go up to workers.max_attempts: no attempt is numbered higher.   *)
RetriesUpToMax ==
  /\ \A i \in DOMAIN conv : conv[i].attempts <= Budget
  /\ \A i \in DOMAIN upl : upl[i].attempts <= Budget

(* The attempt budget of retryDecision: no job is started more than        *)
(* max_attempts times, a job offered again still has attempts left, and a  *)
(* job is only given up when it has none.                                  *)
WithinBudget(tab) ==
  \A i \in DOMAIN tab :
    /\ tab[i].attempts <= Budget
    /\ tab[i].status \in {"queued", "paused"} => tab[i].attempts < Budget
    /\ tab[i].status = "failed" => tab[i].attempts = Budget
AttemptBudget == WithinBudget(conv) /\ WithinBudget(upl)

(* What the driver read of its job still holds when it writes the outcome: *)
(* the row is running on the driver's own attempt, and a conversion the    *)
(* driver is about to hand to the uploads is done.                         *)
ClaimHeld ==
  \A d \in Drivers :
    /\ pc[d] \in ConvPCs \ {"MarkConversionRunning"} =>
         /\ conv[job[d]].status =
              IF pc[d] = "EnqueueUpload" THEN "done" ELSE "running"
         /\ conv[job[d]].attempts = att[d]
    /\ pc[d] \in UplPCs \ {"MarkUploadRunning"} =>
         upl[job[d]].status = "running" /\ upl[job[d]].attempts = att[d]

(* A running row nobody works on was stranded by a failed store call or a  *)
(* crash, and each of those strands at most one.                           *)
StrandedConv == {i \in DOMAIN conv : conv[i].status = "running" /\ ~ ConvClaimed(i)}
StrandedUpl == {i \in DOMAIN upl : upl[i].status = "running" /\ ~ UplClaimed(i)}
StrandedByFault == Cardinality(StrandedConv) + Cardinality(StrandedUpl) <= faults

(* A finished or abandoned job never changes again.                        *)
Final(row) == row.status \in {"done", "failed"}
FinalIsFinal ==
  [][/\ \A i \in DOMAIN conv : Final(conv[i]) => conv'[i] = conv[i]
     /\ \A i \in DOMAIN upl : Final(upl[i]) => upl'[i] = upl[i]]_<<conv, upl>>

(* buildOutputPath may give two torrents one file.  Conversions of both    *)
(* have been started: only then may one spoil what the other has made.     *)
Contested(file) ==
  \E i, j \in DOMAIN conv :
    /\ i # j
    /\ \A k \in {i, j} : OutputOf[conv[k].key] = file /\ conv[k].attempts > 0

Whole(video, file) == video \in Torrents /\ OutputOf[video] = file

(* A published link is to a whole video of the file it names, although     *)
(* uploads and conversions work on the same directory and any of them may  *)
(* be cut short; it is to a part of one only if another torrent's          *)
(* conversion has opened the same file (service.go:262).                   *)
LinkedVideoWhole ==
  \A k \in links : \/ Whole(bucket[k], k[1])
                   \/ Contested(k[1]) /\ bucket[k] = Partial

(* The file of a finished conversion keeps its video for the upload, which *)
(* may come much later, unless another torrent's conversion has opened the *)
(* same file; even then it is a video of that name or a part of one        *)
(* (service.go:262).                                                       *)
ConvertedIsKept ==
  \A i \in DOMAIN conv : conv[i].status = "done" =>
    LET file == OutputOf[conv[i].key] IN
    \/ content[file] = conv[i].key
    \/ Contested(file) /\ (Whole(content[file], file) \/ content[file] = Partial)

(* A finished conversion queues one upload, on whatever day, after         *)
(* whatever interruption: a file has no more upload jobs than finished     *)
(* conversions, although the day is part of the key (service.go:317).      *)
UploadsOf(file) == {i \in DOMAIN upl : upl[i].key[1] = file}
DoneFor(file) ==
  {i \in DOMAIN conv : conv[i].status = "done" /\ OutputOf[conv[i].key] = file}
OneUploadPerConversion ==
  \A file \in Outputs :
    Cardinality(UploadsOf(file)) <= Cardinality(DoneFor(file))

(* A finished conversion has its upload queued, or the driver is about to. *)
(* Needs that no store call fails and no process dies.                     *)
DoneIsHandedOn ==
  \A i \in DOMAIN conv : conv[i].status = "done" =>
    \/ \E j \in DOMAIN upl : upl[j].key[1] = OutputOf[conv[i].key]
    \/ \E d \in Drivers : pc[d] = "EnqueueUpload" /\ job[d] = i

(* A job the operator paused does not start.                               *)
PausedDoesNotStart ==
  [][\A i \in DOMAIN conv :
       conv[i].status = "paused" => conv'[i].status # "running"]_conv

-----------------------------------------------------------------------------
(* With a single driver each job table implements JobLifecycle: attempts   *)
(* count starts, a job is retried only within its budget, is given up only *)
(* when the budget is spent, and never leaves done or failed.              *)

Visible(tab) ==
  [i \in DOMAIN tab |-> [status |-> tab[i].status, attempts |-> tab[i].attempts]]

ConvLifecycle == INSTANCE JobLifecycle WITH jobs <- Visible(conv)
UplLifecycle == INSTANCE JobLifecycle WITH jobs <- Visible(upl)

ImplementsLifecycle == ConvLifecycle!Spec /\ UplLifecycle!Spec

-----------------------------------------------------------------------------
(* Liveness, under LiveSpec.                                               *)

Settled(row) == row.status \in {"done", "failed", "paused"}
HasConv(t) == HasKey(conv, t)

(* The loop converts what is queued even if every sync fails: the provider *)
(* or the VPN detector may be down for good.                               *)
ConversionsSettle ==
  \A id \in 1 .. Cardinality(Torrents) :
    (id \in DOMAIN conv /\ conv[id].status = "queued")
      ~> (id \in DOMAIN conv /\ Settled(conv[id]))

(* Once the VPN stays off, every queued upload is tried until it is done   *)
(* or out of attempts.                                                     *)
UploadsSettle ==
  <>[](vpn = "UNSAFE") =>
    \A id \in 1 .. Cardinality(Torrents) :
      (id \in DOMAIN upl /\ upl[id].status = "queued")
        ~> (id \in DOMAIN upl /\ Settled(upl[id]))

(* More cycles queue the upload of every finished conversion.              *)
MissingUploadIsQueued ==
  \A id \in 1 .. Cardinality(Torrents) :
    (id \in DOMAIN conv /\ conv[id].status = "done")
      ~> (\E j \in DOMAIN upl : upl[j].key[1] = OutputOf[conv[id].key])

(* A running job does not stay running.                                    *)
RunningEnds ==
  \A id \in 1 .. Cardinality(Torrents) :
    (id \in DOMAIN conv /\ conv[id].status = "running")
      ~> (id \in DOMAIN conv /\ conv[id].status # "running")
=============================================================================
