----------------------------- MODULE SoloProofs -----------------------------
(***************************************************************************)
(* Theorems about Pipeline with a single driver: for every set of          *)
(* torrents, attempt limit, number of faults and operator.                 *)
(***************************************************************************)
EXTENDS PipelineProofs, FiniteSetTheorems

SoleDriver == \A d, e \in Drivers : d = e

-----------------------------------------------------------------------------
(* A job table, seen from its rows.  A row that is not waiting for another *)
(* attempt has no back-off left to wait for.                               *)

RowOK(row) ==
  /\ row.attempts <= Budget
  /\ row.status \in {"queued", "paused"} => row.attempts < Budget
  /\ row.status = "failed" => row.attempts = Budget
  /\ row.status \in {"running", "done", "failed"} => row.due

TabOK(tab) == \A i \in DOMAIN tab : RowOK(tab[i])

FinalKept(tab, new) == \A i \in DOMAIN tab : Final(tab[i]) => new[i] = tab[i]

(* What the driver knows of the row it has read, and of the row it works   *)
(* on.                                                                     *)
Picked(tab, id, n) ==
  /\ tab[id].status \in {"queued", "paused"}
  /\ tab[id].due
  /\ n = tab[id].attempts + 1

Held(tab, id, n) == tab[id].status = "running" /\ tab[id].attempts = n

LEMMA BudgetType == Budget \in Nat /\ Budget > 0
BY BoundAssumption DEF Budget

(* An update of one row keeps the table in order if the new row is in      *)
(* order and the old one was not final.                                    *)
LEMMA UpdateKeeps ==
  ASSUME NEW K, NEW tab \in Seq(Row(K)), NEW new, NEW id \in DOMAIN tab,
         TabOK(tab), Updates(K, tab, new, id), RowOK(new[id]),
         ~ Final(tab[id]) \/ new[id] = tab[id]
  PROVE  TabOK(new) /\ FinalKept(tab, new)
<1>1. TabOK(new)  BY DEF TabOK, Updates
<1>2. FinalKept(tab, new)  BY DEF FinalKept, Updates
<1> QED  BY <1>1, <1>2

LEMMA StartKeeps ==
  ASSUME NEW K, NEW tab \in Seq(Row(K)), NEW id \in DOMAIN tab, NEW n \in Nat,
         TabOK(tab), Picked(tab, id, n)
  PROVE  /\ TabOK(MarkRunning(tab, id, n))
         /\ FinalKept(tab, MarkRunning(tab, id, n))
         /\ Held(MarkRunning(tab, id, n), id, n)
<1> DEFINE new == MarkRunning(tab, id, n)
<1>1. /\ Updates(K, tab, new, id) /\ new[id].status = "running"
      /\ new[id].attempts = n /\ new[id].due = tab[id].due
  BY MarkRunningUpdates
<1>2. tab[id].attempts \in Nat /\ RowOK(tab[id])  BY RowOf DEF TabOK
<1> HIDE DEF new
<1>3. RowOK(new[id])  BY <1>1, <1>2, BudgetType DEF RowOK, Picked
<1>4. ~ Final(tab[id])  BY DEF Picked, Final
<1>5. TabOK(new) /\ FinalKept(tab, new)  BY <1>1, <1>3, <1>4, UpdateKeeps
<1> QED  BY <1>1, <1>5 DEF Held, new

LEMMA FailKeeps ==
  ASSUME NEW K, NEW tab \in Seq(Row(K)), NEW id \in DOMAIN tab, NEW n \in Nat,
         TabOK(tab), Held(tab, id, n)
  PROVE  /\ TabOK(MarkFailed(tab, id, Requeue(n)))
         /\ FinalKept(tab, MarkFailed(tab, id, Requeue(n)))
<1> DEFINE new == MarkFailed(tab, id, Requeue(n))
<1>0. Requeue(n) \in BOOLEAN  BY DEF Requeue
<1>1. /\ Updates(K, tab, new, id)
      /\ new[id].status = IF Requeue(n) THEN "queued" ELSE "failed"
      /\ new[id].attempts = tab[id].attempts /\ new[id].due = ~ Requeue(n)
  BY <1>0, MarkFailedUpdates
<1>2. RowOK(tab[id])  BY DEF TabOK
<1> HIDE DEF new
<1>3. CASE Requeue(n)
  <2>1. n < Budget  BY <1>3 DEF Requeue
  <2>2. RowOK(new[id])  BY <1>1, <1>2, <1>3, <2>1 DEF RowOK, Held
  <2> QED  BY <1>1, <2>2, UpdateKeeps DEF Held, Final, new
<1>4. CASE ~ Requeue(n)
  <2>1. n = Budget  BY <1>2, <1>4, BudgetType DEF Requeue, RowOK, Held
  <2>2. new[id].due  BY <1>1, <1>4
  <2>3. RowOK(new[id])  BY <1>1, <1>2, <1>4, <2>1, <2>2 DEF RowOK, Held
  <2> QED  BY <1>1, <2>3, UpdateKeeps DEF Held, Final, new
<1> QED  BY <1>3, <1>4

LEMMA DoneKeeps ==
  ASSUME NEW K, NEW tab \in Seq(Row(K)), NEW id \in DOMAIN tab, NEW n \in Nat,
         TabOK(tab), Held(tab, id, n)
  PROVE  /\ TabOK(MarkDone(tab, id)) /\ FinalKept(tab, MarkDone(tab, id))
         /\ MarkDone(tab, id)[id].status = "done"
         /\ MarkDone(tab, id)[id].attempts = n
<1> DEFINE new == MarkDone(tab, id)
<1>1. /\ Updates(K, tab, new, id) /\ new[id].status = "done"
      /\ new[id].attempts = tab[id].attempts /\ new[id].due = tab[id].due
  BY MarkDoneUpdates
<1>2. RowOK(tab[id])  BY DEF TabOK
<1> HIDE DEF new
<1>3. RowOK(new[id])  BY <1>1, <1>2 DEF RowOK, Held
<1>4. TabOK(new) /\ FinalKept(tab, new)
  BY <1>1, <1>3, UpdateKeeps DEF Held, Final
<1> QED  BY <1>1, <1>4 DEF Held, new

(* What the operator and the clock do to any row leaves the driver's       *)
(* knowledge of its own row intact.                                        *)
Undisturbed(tab, new) ==
  \A j \in DOMAIN tab, n \in Nat :
    /\ Picked(tab, j, n) => Picked(new, j, n)
    /\ tab[j].status \in {"running", "done"} => new[j] = tab[j]

LEMMA PauseKeeps ==
  ASSUME NEW K, NEW tab \in Seq(Row(K)), NEW id \in DOMAIN tab,
         TabOK(tab), CanPause(tab, id)
  PROVE  /\ TabOK(Pause(tab, id)) /\ FinalKept(tab, Pause(tab, id))
         /\ Undisturbed(tab, Pause(tab, id))
<1> DEFINE new == Pause(tab, id)
<1>1. /\ Updates(K, tab, new, id) /\ new[id].status = "paused"
      /\ new[id].attempts = tab[id].attempts /\ new[id].due = tab[id].due
  BY PauseUpdates
<1>2. RowOK(tab[id]) /\ tab[id].status = "queued"  BY DEF TabOK, CanPause
<1> HIDE DEF new
<1>3. RowOK(new[id])  BY <1>1, <1>2 DEF RowOK
<1>4. TabOK(new) /\ FinalKept(tab, new)  BY <1>1, <1>2, <1>3, UpdateKeeps DEF Final
<1>5. Undisturbed(tab, new)  BY <1>1, <1>2 DEF Undisturbed, Picked, Updates
<1> QED  BY <1>4, <1>5 DEF new

LEMMA ResumeKeeps ==
  ASSUME NEW K, NEW tab \in Seq(Row(K)), NEW id \in DOMAIN tab,
         TabOK(tab), CanResume(tab, id)
  PROVE  /\ TabOK(Resume(tab, id)) /\ FinalKept(tab, Resume(tab, id))
         /\ Undisturbed(tab, Resume(tab, id))
<1> DEFINE new == Resume(tab, id)
<1>1. /\ Updates(K, tab, new, id) /\ new[id].status = "queued"
      /\ new[id].attempts = tab[id].attempts /\ new[id].due = TRUE
  BY ResumeUpdates
<1>2. RowOK(tab[id]) /\ tab[id].status = "paused"  BY DEF TabOK, CanResume
<1> HIDE DEF new
<1>3. RowOK(new[id])  BY <1>1, <1>2 DEF RowOK
<1>4. TabOK(new) /\ FinalKept(tab, new)  BY <1>1, <1>2, <1>3, UpdateKeeps DEF Final
<1>5. Undisturbed(tab, new)  BY <1>1, <1>2 DEF Undisturbed, Picked, Updates
<1> QED  BY <1>4, <1>5 DEF new

LEMMA BackoffKeeps ==
  ASSUME NEW K, NEW tab \in Seq(Row(K)), NEW id \in DOMAIN tab,
         TabOK(tab), Waiting(tab, id)
  PROVE  /\ TabOK(BackoffElapsed(tab, id)) /\ FinalKept(tab, BackoffElapsed(tab, id))
         /\ Undisturbed(tab, BackoffElapsed(tab, id))
<1> DEFINE new == BackoffElapsed(tab, id)
<1>1. /\ Updates(K, tab, new, id) /\ new[id].status = tab[id].status
      /\ new[id].attempts = tab[id].attempts /\ new[id].due = TRUE
  BY BackoffUpdates
<1>2. RowOK(tab[id]) /\ ~ tab[id].due  BY DEF TabOK, Waiting
<1> HIDE DEF new
<1>3. RowOK(new[id])  BY <1>1, <1>2 DEF RowOK
<1>4. tab[id].status \notin {"running", "done", "failed"}  BY <1>2 DEF RowOK
<1>5. TabOK(new) /\ FinalKept(tab, new)  BY <1>1, <1>3, <1>4, UpdateKeeps DEF Final
<1>6. Undisturbed(tab, new)  BY <1>1, <1>2, <1>4 DEF Undisturbed, Picked, Updates
<1> QED  BY <1>5, <1>6 DEF new

LEMMA InsertKeeps ==
  ASSUME NEW K, NEW tab \in Seq(Row(K)), NEW k \in K, TabOK(tab)
  PROVE  TabOK(InsertIgnore(tab, k)) /\ FinalKept(tab, InsertIgnore(tab, k))
<1> DEFINE new == InsertIgnore(tab, k)
<1>1. /\ \A i \in DOMAIN tab : new[i] = tab[i]
      /\ \A i \in DOMAIN new \ DOMAIN tab : new[i] = NewRow(k)
  BY InsertIgnoreInserts
<1>2. RowOK(NewRow(k))  BY BudgetType DEF RowOK, NewRow
<1> HIDE DEF new
<1>3. TabOK(new)  BY <1>1, <1>2 DEF TabOK
<1>4. FinalKept(tab, new)  BY <1>1 DEF FinalKept
<1> QED  BY <1>3, <1>4 DEF new

-----------------------------------------------------------------------------
(* The inductive invariant: both tables are in order, and the row the      *)
(* driver works on is as the driver believes.                              *)

ConvClaim(d) ==
  /\ pc[d] = "MarkConversionRunning" => Picked(conv, job[d], att[d])
  /\ pc[d] \in {"Convert", "Converting", "MarkConversionFailed",
                "MarkConversionDone"} => Held(conv, job[d], att[d])
  /\ pc[d] = "EnqueueUpload" =>
       conv[job[d]].status = "done" /\ conv[job[d]].attempts = att[d]

UplClaim(d) ==
  /\ pc[d] = "MarkUploadRunning" => Picked(upl, job[d], att[d])
  /\ pc[d] \in {"Upload", "MarkUploadFailed", "MarkUploadDone"} =>
       Held(upl, job[d], att[d])

Claims == \A d \in Drivers : ConvClaim(d) /\ UplClaim(d)

SoloInv == TypeInv /\ TabOK(conv) /\ TabOK(upl) /\ Claims

(* What a step must show.                                                  *)
StepKeeps ==
  /\ TabOK(conv') /\ FinalKept(conv, conv')
  /\ TabOK(upl') /\ FinalKept(upl, upl')
  /\ Claims'

LEMMA FreeClaims ==
  ASSUME SoleDriver, NEW d \in Drivers, pc'[d] \in FreePCs
  PROVE  Claims'
BY DEF SoleDriver, FreePCs, Claims, ConvClaim, UplClaim

LEMMA OneClaim ==
  ASSUME SoleDriver, NEW d \in Drivers, ConvClaim(d)', UplClaim(d)'
  PROVE  Claims'
BY DEF SoleDriver, Claims

LEMMA TablesUntouched ==
  ASSUME SoloInv
  PROVE  /\ UNCHANGED conv => TabOK(conv') /\ FinalKept(conv, conv')
         /\ UNCHANGED upl => TabOK(upl') /\ FinalKept(upl, upl')
BY DEF SoloInv, FinalKept

LEMMA SyncSolo ==
  ASSUME SoleDriver, SoloInv, NEW d \in Drivers, Sync(d)
  PROVE  StepKeeps
<1>1. DataTypes /\ LocalTypes /\ Handles  BY TypeParts DEF SoloInv
<1>2. SyncFails(d) => pc'[d] \in FreePCs
  BY <1>1, SyncFailsMoves DEF FreePCs
<1>3. \A p : Goto(d, p) => pc'[d] = p  BY <1>1 DEF Goto, LocalTypes
<1>4. pc'[d] \in FreePCs
  BY <1>2, <1>3 DEF FreePCs, Sync, SyncStatus, SyncPauseAll, SyncList,
                    SyncDone, SyncRecord, SyncEnqueue
<1>5. Claims'  BY <1>4, FreeClaims
<1>6. CASE SyncEnqueue(d)
  <2>1. cur[d] \in Torrents  BY <1>1, <1>6 DEF SyncEnqueue, At, Handles
  <2>2. UNCHANGED upl /\ (UNCHANGED conv \/ conv' = InsertIgnore(conv, cur[d]))
    BY <1>6 DEF SyncEnqueue
  <2>3. conv \in Seq(Row(Torrents)) /\ TabOK(conv)
    BY <1>1 DEF DataTypes, SoloInv
  <2>4. /\ TabOK(InsertIgnore(conv, cur[d]))
        /\ FinalKept(conv, InsertIgnore(conv, cur[d]))
    BY <2>1, <2>3, InsertKeeps
  <2> QED  BY <1>5, <2>2, <2>4, TablesUntouched DEF StepKeeps
<1>7. CASE ~ SyncEnqueue(d)
  <2>1. UNCHANGED conv /\ UNCHANGED upl
    BY <1>7 DEF Sync, SyncStatus, SyncPauseAll, SyncList, SyncDone, SyncRecord,
                tables
  <2> QED  BY <1>5, <2>1, TablesUntouched DEF StepKeeps
<1> QED  BY <1>6, <1>7

LEMMA ConvertSolo ==
  ASSUME SoleDriver, SoloInv, NEW d \in Drivers, Convert(d)
  PROVE  StepKeeps
<1>1. DataTypes /\ LocalTypes /\ Handles  BY TypeParts DEF SoloInv
<1>2. conv \in Seq(Row(Torrents)) /\ TabOK(conv) /\ ConvClaim(d)
  BY <1>1 DEF DataTypes, SoloInv, Claims
<1>3. pc[d] \in ConvPCs => /\ job[d] \in DOMAIN conv /\ att[d] \in Nat
                           /\ Target(d) \in Outputs
  BY <1>1, HandlesAreTyped DEF Handles, LocalTypes, SoloInv
<1>4. EndCycle(d) => Claims'
  BY <1>1, EndCycleMoves, FreeClaims DEF FreePCs
<1>5. Goto(d, "VPNStatus") => Claims'
  BY <1>1, FreeClaims DEF Goto, LocalTypes, FreePCs
<1>6. \A p : Goto(d, p) /\ UNCHANGED locals =>
         pc'[d] = p /\ job'[d] = job[d] /\ att'[d] = att[d]
  BY <1>1 DEF Goto, LocalTypes, locals
<1> USE DEF tables, At
<1>7. CASE ConvNext(d)
  <2>1. UNCHANGED conv /\ UNCHANGED upl  BY <1>7 DEF ConvNext
  <2>2. ASSUME NEW id \in NextQueued(conv),
               Take(d, id, conv[id].attempts + 1),
               Goto(d, "MarkConversionRunning")
        PROVE  Claims'
    <3>1. id \in DOMAIN conv /\ conv[id].status = "queued" /\ conv[id].due
      BY NextQueuedIsReady
    <3>2. /\ pc'[d] = "MarkConversionRunning" /\ job'[d] = id
          /\ att'[d] = conv[id].attempts + 1
      BY <1>1, <2>2 DEF Take, Goto, LocalTypes
    <3>3. ConvClaim(d)'
      BY <2>1, <3>1, <3>2 DEF ConvClaim, Picked
    <3>4. UplClaim(d)'  BY <3>2 DEF UplClaim
    <3> QED  BY <3>3, <3>4, OneClaim
  <2>3. Claims'  BY <1>4, <1>5, <1>7, <2>2 DEF ConvNext
  <2> QED  BY <2>1, <2>3, TablesUntouched DEF StepKeeps
<1>8. CASE ConvMark(d)
  <2>1. UNCHANGED upl  BY <1>8 DEF ConvMark
  <2>2. CASE EndCycle(d) /\ UNCHANGED conv
    BY <1>4, <2>1, <2>2, TablesUntouched DEF StepKeeps
  <2>3. CASE /\ conv' = MarkRunning(conv, job[d], att[d])
             /\ Goto(d, "Convert") /\ UNCHANGED locals
    <3>1. job[d] \in DOMAIN conv /\ att[d] \in Nat
      BY <1>3, <1>8 DEF ConvMark, ConvPCs
    <3>2. Picked(conv, job[d], att[d])  BY <1>2, <1>8 DEF ConvMark, ConvClaim
    <3>3. /\ TabOK(conv') /\ FinalKept(conv, conv')
          /\ Held(conv', job[d], att[d])
      BY <1>2, <2>3, <3>1, <3>2, StartKeeps
    <3>4. pc'[d] = "Convert" /\ job'[d] = job[d] /\ att'[d] = att[d]
      BY <1>6, <2>3
    <3>5. ConvClaim(d)' /\ UplClaim(d)'
      BY <3>3, <3>4 DEF ConvClaim, UplClaim, Held
    <3> QED  BY <2>1, <3>3, <3>5, OneClaim, TablesUntouched DEF StepKeeps
  <2> QED  BY <1>8, <2>2, <2>3 DEF ConvMark
<1>9. CASE ConvStart(d) \/ ConvFinish(d)
  <2>1. UNCHANGED conv /\ UNCHANGED upl /\ Held(conv, job[d], att[d])
    BY <1>2, <1>9 DEF ConvStart, ConvFinish, ConvClaim
  <2>2. /\ pc'[d] \in {"Converting", "MarkConversionFailed", "MarkConversionDone"}
        /\ job'[d] = job[d] /\ att'[d] = att[d]
    BY <1>6, <1>9 DEF ConvStart, ConvFinish
  <2>3. ConvClaim(d)' /\ UplClaim(d)'
    BY <2>1, <2>2 DEF ConvClaim, UplClaim, Held
  <2> QED  BY <2>1, <2>3, OneClaim, TablesUntouched DEF StepKeeps
<1>10. CASE ConvFailed(d)
  <2>1. UNCHANGED upl /\ Claims'  BY <1>5, <1>10 DEF ConvFailed
  <2>2. CASE UNCHANGED conv  BY <2>1, <2>2, TablesUntouched DEF StepKeeps
  <2>3. CASE conv' = MarkFailed(conv, job[d], Requeue(att[d]))
    <3>1. job[d] \in DOMAIN conv /\ att[d] \in Nat
      BY <1>3, <1>10 DEF ConvFailed, ConvPCs
    <3>2. Held(conv, job[d], att[d])  BY <1>2, <1>10 DEF ConvFailed, ConvClaim
    <3>3. TabOK(conv') /\ FinalKept(conv, conv')
      BY <1>2, <2>3, <3>1, <3>2, FailKeeps
    <3> QED  BY <2>1, <3>3, TablesUntouched DEF StepKeeps
  <2> QED  BY <1>10, <2>2, <2>3 DEF ConvFailed
<1>11. CASE ConvDone(d)
  <2>1. UNCHANGED upl  BY <1>11 DEF ConvDone
  <2>2. CASE EndCycle(d) /\ UNCHANGED conv
    BY <1>4, <2>1, <2>2, TablesUntouched DEF StepKeeps
  <2>3. CASE /\ conv' = MarkDone(conv, job[d])
             /\ Goto(d, "EnqueueUpload") /\ UNCHANGED locals
    <3>1. job[d] \in DOMAIN conv /\ att[d] \in Nat
      BY <1>3, <1>11 DEF ConvDone, ConvPCs
    <3>2. Held(conv, job[d], att[d])  BY <1>2, <1>11 DEF ConvDone, ConvClaim
    <3>3. /\ TabOK(conv') /\ FinalKept(conv, conv')
          /\ conv'[job[d]].status = "done" /\ conv'[job[d]].attempts = att[d]
      BY <1>2, <2>3, <3>1, <3>2, DoneKeeps
    <3>4. pc'[d] = "EnqueueUpload" /\ job'[d] = job[d] /\ att'[d] = att[d]
      BY <1>6, <2>3
    <3>5. ConvClaim(d)' /\ UplClaim(d)'  BY <3>3, <3>4 DEF ConvClaim, UplClaim
    <3> QED  BY <2>1, <3>3, <3>5, OneClaim, TablesUntouched DEF StepKeeps
  <2> QED  BY <1>11, <2>2, <2>3 DEF ConvDone
<1>12. CASE ConvEnqueueUpload(d)
  <2>1. UNCHANGED conv /\ Claims'
    BY <1>4, <1>5, <1>12 DEF ConvEnqueueUpload
  <2>2. upl \in Seq(Row(UploadKeys)) /\ TabOK(upl)
    BY <1>1 DEF DataTypes, SoloInv
  <2>3. <<Target(d), today>> \in UploadKeys
    BY <1>1, <1>3, <1>12 DEF ConvEnqueueUpload, ConvPCs, UploadKeys, DataTypes
  <2>4. /\ TabOK(InsertIgnore(upl, <<Target(d), today>>))
        /\ FinalKept(upl, InsertIgnore(upl, <<Target(d), today>>))
    BY <2>2, <2>3, InsertKeeps
  <2>5. UNCHANGED upl \/ upl' = InsertIgnore(upl, <<Target(d), today>>)
    BY <1>12 DEF ConvEnqueueUpload
  <2> QED  BY <2>1, <2>4, <2>5, TablesUntouched DEF StepKeeps
<1> QED  BY <1>7, <1>8, <1>9, <1>10, <1>11, <1>12 DEF Convert

LEMMA UploadSolo ==
  ASSUME SoleDriver, SoloInv, NEW d \in Drivers, Upload(d)
  PROVE  StepKeeps
<1>1. DataTypes /\ LocalTypes /\ Handles  BY TypeParts DEF SoloInv
<1>2. upl \in Seq(Row(UploadKeys)) /\ TabOK(upl) /\ UplClaim(d)
  BY <1>1 DEF DataTypes, SoloInv, Claims
<1>3. pc[d] \in UplPCs => job[d] \in DOMAIN upl /\ att[d] \in Nat
  BY <1>1 DEF Handles, LocalTypes
<1>4. EndCycle(d) => Claims'
  BY <1>1, EndCycleMoves, FreeClaims DEF FreePCs
<1>5. \A p : Goto(d, p) /\ UNCHANGED locals =>
         pc'[d] = p /\ job'[d] = job[d] /\ att'[d] = att[d]
  BY <1>1 DEF Goto, LocalTypes, locals
<1> USE DEF tables, At
<1>6. UNCHANGED conv
  BY DEF Upload, UplStatus, UplNext, UplMark, UplPut, UplFailed, UplDone
<1>7. CASE UplStatus(d)
  <2>1. UNCHANGED upl  BY <1>7 DEF UplStatus
  <2>2. CASE Goto(d, "NextQueuedUpload") /\ UNCHANGED locals
    BY <1>5, <1>6, <2>1, <2>2, FreeClaims, TablesUntouched DEF FreePCs, StepKeeps
  <2> QED  BY <1>4, <1>6, <1>7, <2>1, <2>2, TablesUntouched DEF UplStatus, StepKeeps
<1>8. CASE UplNext(d)
  <2>1. UNCHANGED upl  BY <1>8 DEF UplNext
  <2>2. ASSUME NEW id \in NextQueued(upl),
               Take(d, id, upl[id].attempts + 1),
               Goto(d, "MarkUploadRunning")
        PROVE  Claims'
    <3>1. id \in DOMAIN upl /\ upl[id].status = "queued" /\ upl[id].due
      BY NextQueuedIsReady
    <3>2. /\ pc'[d] = "MarkUploadRunning" /\ job'[d] = id
          /\ att'[d] = upl[id].attempts + 1
      BY <1>1, <2>2 DEF Take, Goto, LocalTypes
    <3>3. UplClaim(d)'  BY <2>1, <3>1, <3>2 DEF UplClaim, Picked
    <3>4. ConvClaim(d)'  BY <3>2 DEF ConvClaim
    <3> QED  BY <3>3, <3>4, OneClaim
  <2>3. Claims'  BY <1>4, <1>8, <2>2 DEF UplNext
  <2> QED  BY <1>6, <2>1, <2>3, TablesUntouched DEF StepKeeps
<1>9. CASE UplMark(d)
  <2>1. CASE EndCycle(d) /\ UNCHANGED upl
    BY <1>4, <1>6, <2>1, TablesUntouched DEF StepKeeps
  <2>2. CASE /\ upl' = MarkRunning(upl, job[d], att[d])
             /\ Goto(d, "Upload") /\ UNCHANGED locals
    <3>1. job[d] \in DOMAIN upl /\ att[d] \in Nat
      BY <1>3, <1>9 DEF UplMark, UplPCs
    <3>2. Picked(upl, job[d], att[d])  BY <1>2, <1>9 DEF UplMark, UplClaim
    <3>3. /\ TabOK(upl') /\ FinalKept(upl, upl')
          /\ Held(upl', job[d], att[d])
      BY <1>2, <2>2, <3>1, <3>2, StartKeeps
    <3>4. pc'[d] = "Upload" /\ job'[d] = job[d] /\ att'[d] = att[d]
      BY <1>5, <2>2
    <3>5. ConvClaim(d)' /\ UplClaim(d)'
      BY <3>3, <3>4 DEF ConvClaim, UplClaim, Held
    <3> QED  BY <1>6, <3>3, <3>5, OneClaim, TablesUntouched DEF StepKeeps
  <2> QED  BY <1>9, <2>1, <2>2 DEF UplMark
<1>10. CASE UplPut(d)
  <2>1. UNCHANGED upl /\ Held(upl, job[d], att[d])
    BY <1>2, <1>10 DEF UplPut, UplClaim
  <2>2. /\ pc'[d] \in {"MarkUploadFailed", "MarkUploadDone"}
        /\ job'[d] = job[d] /\ att'[d] = att[d]
    BY <1>5, <1>10 DEF UplPut
  <2>3. ConvClaim(d)' /\ UplClaim(d)'
    BY <2>1, <2>2 DEF ConvClaim, UplClaim, Held
  <2> QED  BY <1>6, <2>1, <2>3, OneClaim, TablesUntouched DEF StepKeeps
<1>11. CASE UplFailed(d)
  <2>1. Claims'  BY <1>4, <1>11 DEF UplFailed
  <2>2. CASE UNCHANGED upl  BY <1>6, <2>1, <2>2, TablesUntouched DEF StepKeeps
  <2>3. CASE upl' = MarkFailed(upl, job[d], Requeue(att[d]))
    <3>1. job[d] \in DOMAIN upl /\ att[d] \in Nat
      BY <1>3, <1>11 DEF UplFailed, UplPCs
    <3>2. Held(upl, job[d], att[d])  BY <1>2, <1>11 DEF UplFailed, UplClaim
    <3>3. TabOK(upl') /\ FinalKept(upl, upl')
      BY <1>2, <2>3, <3>1, <3>2, FailKeeps
    <3> QED  BY <1>6, <2>1, <3>3, TablesUntouched DEF StepKeeps
  <2> QED  BY <1>11, <2>2, <2>3 DEF UplFailed
<1>12. CASE UplDone(d)
  <2>1. Claims'  BY <1>4, <1>12 DEF UplDone
  <2>2. CASE UNCHANGED upl  BY <1>6, <2>1, <2>2, TablesUntouched DEF StepKeeps
  <2>3. CASE upl' = MarkDone(upl, job[d])
    <3>1. job[d] \in DOMAIN upl /\ att[d] \in Nat
      BY <1>3, <1>12 DEF UplDone, UplPCs
    <3>2. Held(upl, job[d], att[d])  BY <1>2, <1>12 DEF UplDone, UplClaim
    <3>3. TabOK(upl') /\ FinalKept(upl, upl')
      BY <1>2, <2>3, <3>1, <3>2, DoneKeeps
    <3> QED  BY <1>6, <2>1, <3>3, TablesUntouched DEF StepKeeps
  <2> QED  BY <1>12, <2>2, <2>3 DEF UplDone
<1> QED  BY <1>7, <1>8, <1>9, <1>10, <1>11, <1>12 DEF Upload
LEMMA UndisturbedClaims ==
  ASSUME SoloInv, UNCHANGED <<pc, locals>>,
         UNCHANGED conv \/ Undisturbed(conv, conv'),
         UNCHANGED upl \/ Undisturbed(upl, upl')
  PROVE  Claims'
<1>1. \A d \in Drivers : ConvClaim(d) /\ UplClaim(d)  BY DEF SoloInv, Claims
<1>2. \A d \in Drivers : att[d] \in Nat
  BY TypeParts DEF SoloInv, LocalTypes
<1>3. \A d \in Drivers : /\ pc[d] \in ConvPCs => job[d] \in DOMAIN conv
                         /\ pc[d] \in UplPCs => job[d] \in DOMAIN upl
  BY DEF SoloInv, TypeInv, Handles
<1>4. ASSUME NEW d \in Drivers PROVE ConvClaim(d)'
  <2>1. pc'[d] = pc[d] /\ job'[d] = job[d] /\ att'[d] = att[d]  BY DEF locals
  <2> QED  BY <1>1, <1>2, <1>3, <2>1
           DEF ConvClaim, Undisturbed, Held, Picked, ConvPCs
<1>5. ASSUME NEW d \in Drivers PROVE UplClaim(d)'
  <2>1. pc'[d] = pc[d] /\ job'[d] = job[d] /\ att'[d] = att[d]  BY DEF locals
  <2> QED  BY <1>1, <1>2, <1>3, <2>1
           DEF UplClaim, Undisturbed, Held, Picked, UplPCs
<1> QED  BY <1>4, <1>5 DEF Claims

LEMMA OperatorSolo ==
  ASSUME SoloInv, Operator
  PROVE  StepKeeps
<1>1. /\ conv \in Seq(Row(Torrents)) /\ TabOK(conv)
      /\ upl \in Seq(Row(UploadKeys)) /\ TabOK(upl)
  BY DEF SoloInv, TypeInv, TypeOK
<1>2. ASSUME NEW id \in DOMAIN conv, PauseConversionJob(id) PROVE StepKeeps
  <2>1. TabOK(conv') /\ FinalKept(conv, conv') /\ Undisturbed(conv, conv')
    BY <1>1, <1>2, PauseKeeps DEF PauseConversionJob
  <2>2. UNCHANGED upl /\ UNCHANGED <<pc, locals>>
    BY <1>2 DEF PauseConversionJob
  <2> QED  BY <2>1, <2>2, UndisturbedClaims, TablesUntouched DEF StepKeeps
<1>3. ASSUME NEW id \in DOMAIN conv, ResumeConversionJob(id) PROVE StepKeeps
  <2>1. TabOK(conv') /\ FinalKept(conv, conv') /\ Undisturbed(conv, conv')
    BY <1>1, <1>3, ResumeKeeps DEF ResumeConversionJob
  <2>2. UNCHANGED upl /\ UNCHANGED <<pc, locals>>
    BY <1>3 DEF ResumeConversionJob
  <2> QED  BY <2>1, <2>2, UndisturbedClaims, TablesUntouched DEF StepKeeps
<1>4. ASSUME NEW id \in DOMAIN upl, PauseUploadJob(id) PROVE StepKeeps
  <2>1. TabOK(upl') /\ FinalKept(upl, upl') /\ Undisturbed(upl, upl')
    BY <1>1, <1>4, PauseKeeps DEF PauseUploadJob
  <2>2. UNCHANGED conv /\ UNCHANGED <<pc, locals>>
    BY <1>4 DEF PauseUploadJob
  <2> QED  BY <2>1, <2>2, UndisturbedClaims, TablesUntouched DEF StepKeeps
<1>5. ASSUME NEW id \in DOMAIN upl, ResumeUploadJob(id) PROVE StepKeeps
  <2>1. TabOK(upl') /\ FinalKept(upl, upl') /\ Undisturbed(upl, upl')
    BY <1>1, <1>5, ResumeKeeps DEF ResumeUploadJob
  <2>2. UNCHANGED conv /\ UNCHANGED <<pc, locals>>
    BY <1>5 DEF ResumeUploadJob
  <2> QED  BY <2>1, <2>2, UndisturbedClaims, TablesUntouched DEF StepKeeps
<1>6. ASSUME NEW t \in Torrents, PauseTorrent(t) \/ ResumeTorrent(t)
      PROVE  StepKeeps
  <2>1. UNCHANGED conv /\ UNCHANGED upl /\ UNCHANGED <<pc, locals>>
    BY <1>6 DEF PauseTorrent, ResumeTorrent, tables
  <2> QED  BY <2>1, UndisturbedClaims, TablesUntouched DEF StepKeeps
<1> QED  BY <1>2, <1>3, <1>4, <1>5, <1>6 DEF Operator

LEMMA EnvironmentSolo ==
  ASSUME SoleDriver, SoloInv, Environment
  PROVE  StepKeeps
<1>1. /\ conv \in Seq(Row(Torrents)) /\ TabOK(conv)
      /\ upl \in Seq(Row(UploadKeys)) /\ TabOK(upl)
  BY DEF SoloInv, TypeInv, TypeOK
<1>2. ASSUME UNCHANGED conv, UNCHANGED upl, UNCHANGED <<pc, locals>>
      PROVE  StepKeeps
  BY <1>2, UndisturbedClaims, TablesUntouched DEF StepKeeps
<1>3. ASSUME NEW id \in DOMAIN conv, ConvBackoffElapses(id) PROVE StepKeeps
  <2>1. TabOK(conv') /\ FinalKept(conv, conv') /\ Undisturbed(conv, conv')
    BY <1>1, <1>3, BackoffKeeps DEF ConvBackoffElapses
  <2>2. UNCHANGED upl /\ UNCHANGED <<pc, locals>>
    BY <1>3 DEF ConvBackoffElapses
  <2> QED  BY <2>1, <2>2, UndisturbedClaims, TablesUntouched DEF StepKeeps
<1>4. ASSUME NEW id \in DOMAIN upl, UplBackoffElapses(id) PROVE StepKeeps
  <2>1. TabOK(upl') /\ FinalKept(upl, upl') /\ Undisturbed(upl, upl')
    BY <1>1, <1>4, BackoffKeeps DEF UplBackoffElapses
  <2>2. UNCHANGED conv /\ UNCHANGED <<pc, locals>>
    BY <1>4 DEF UplBackoffElapses
  <2> QED  BY <2>1, <2>2, UndisturbedClaims, TablesUntouched DEF StepKeeps
<1>5. ASSUME NEW dead \in SUBSET Drivers, Crash(dead) PROVE StepKeeps
  <2>1. UNCHANGED conv /\ UNCHANGED upl  BY <1>5 DEF Crash, tables
  <2>2. PICK d \in dead : pc[d] # "idle"  BY <1>5 DEF Crash
  <2>3. pc'[d] \in FreePCs  BY <1>5, <2>2 DEF Crash, FreePCs
  <2>4. Claims'  BY <2>2, <2>3, FreeClaims
  <2> QED  BY <2>1, <2>4, TablesUntouched DEF StepKeeps
<1> QED  BY <1>2, <1>3, <1>4, <1>5
         DEF Environment, ClockTicks, TorrentCompletes, VPNChanges, Midnight, tables

LEMMA SoloStep ==
  ASSUME SoleDriver, SoloInv, [Next]_vars
  PROVE  StepKeeps /\ SoloInv'
<1>1. TypeInv'  BY TypeStep DEF SoloInv
<1>2. ASSUME NEW d \in Drivers, Step(d) PROVE StepKeeps
  BY <1>2, SyncSolo, ConvertSolo, UploadSolo DEF Step
<1>3. ASSUME UNCHANGED vars PROVE StepKeeps
  <2>1. UNCHANGED conv /\ UNCHANGED upl /\ UNCHANGED <<pc, locals>>
    BY <1>3 DEF vars, tables
  <2> QED  BY <2>1, UndisturbedClaims, TablesUntouched DEF StepKeeps
<1>4. StepKeeps  BY <1>2, <1>3, OperatorSolo, EnvironmentSolo DEF Next
<1> QED  BY <1>1, <1>4 DEF SoloInv, StepKeeps, TabOK

LEMMA SoloInit == Init => SoloInv
<1> SUFFICES ASSUME Init PROVE SoloInv  OBVIOUS
<1>1. TypeInv  BY TypeInit
<1>2. TabOK(conv) /\ TabOK(upl)  BY DEF Init, TabOK
<1>3. Claims  BY DEF Init, Claims, ConvClaim, UplClaim
<1> QED  BY <1>1, <1>2, <1>3 DEF SoloInv

LEMMA SoloInvMeans == SoloInv => AttemptBudget /\ ClaimHeld
<1> SUFFICES ASSUME SoloInv PROVE AttemptBudget /\ ClaimHeld  OBVIOUS
<1>1. AttemptBudget
  BY DEF SoloInv, TabOK, RowOK, AttemptBudget, WithinBudget
<1>2. ClaimHeld
  BY DEF SoloInv, Claims, ConvClaim, UplClaim, Held, ClaimHeld, ConvPCs, UplPCs
<1> QED  BY <1>1, <1>2

(* A single driver never starts a job more often than max_attempts allows, *)
(* whatever fails, crashes, or is paused and resumed meanwhile.            *)
THEOREM SoloWithinBudget ==
  ASSUME SoleDriver
  PROVE  Spec => []AttemptBudget
<1>1. SoloInv /\ [Next]_vars => SoloInv'  BY SoloStep
<1>2. SoloInv => AttemptBudget  BY SoloInvMeans
<1> QED  BY <1>1, <1>2, SoloInit, PTL DEF Spec

(* What a single driver read before a conversion or an upload still holds  *)
(* when it writes the outcome.                                             *)
THEOREM SoloClaimHeld ==
  ASSUME SoleDriver
  PROVE  Spec => []ClaimHeld
<1>1. SoloInv /\ [Next]_vars => SoloInv'  BY SoloStep
<1>2. SoloInv => ClaimHeld  BY SoloInvMeans
<1> QED  BY <1>1, <1>2, SoloInit, PTL DEF Spec

(* With a single driver, done and failed are final.                        *)
THEOREM SoloFinal ==
  ASSUME SoleDriver
  PROVE  Spec => FinalIsFinal
<1> DEFINE Kept == /\ \A i \in DOMAIN conv : Final(conv[i]) => conv'[i] = conv[i]
                   /\ \A i \in DOMAIN upl : Final(upl[i]) => upl'[i] = upl[i]
<1>1. SoloInv /\ [Next]_vars => SoloInv'  BY SoloStep
<1>2. SoloInv /\ [Next]_vars => [Kept]_<<conv, upl>>
  BY SoloStep DEF StepKeeps, FinalKept
<1> QED  BY <1>1, <1>2, SoloInit, PTL DEF Spec, FinalIsFinal

-----------------------------------------------------------------------------
(* Each job table implements JobLifecycle: every step of driver, operator, *)
(* clock and crash is one step of the abstract specification or changes    *)
(* nothing that a reader of the table sees.                                *)

(* What readers see of a table after a statement.                          *)

View(row) == [status |-> row.status, attempts |-> row.attempts]

LEMMA VisibleRows ==
  ASSUME NEW K, NEW tab \in Seq(Row(K))
  PROVE  /\ DOMAIN Visible(tab) = DOMAIN tab
         /\ Visible(tab) \in Seq([status : Status, attempts : Nat])
         /\ Len(Visible(tab)) = Len(tab)
         /\ \A i \in DOMAIN tab :
              /\ Visible(tab)[i].status = tab[i].status
              /\ Visible(tab)[i].attempts = tab[i].attempts
<1>1. DOMAIN tab = 1 .. Len(tab) /\ Len(tab) \in Nat
  BY LenProperties
<1>2. \A i \in DOMAIN tab : tab[i].status \in Status /\ tab[i].attempts \in Nat
  BY RowOf
<1>3. Visible(tab) \in [1 .. Len(tab) -> [status : Status, attempts : Nat]]
  BY <1>1, <1>2 DEF Visible
<1> QED
  BY <1>1, <1>3 DEF Visible

LEMMA VisibleUpdate ==
  ASSUME NEW K, NEW tab \in Seq(Row(K)), NEW new, NEW id \in DOMAIN tab,
         Updates(K, tab, new, id)
  PROVE  Visible(new) = [Visible(tab) EXCEPT ![id] = View(new[id])]
<1>1. DOMAIN new = DOMAIN tab /\ \A i \in DOMAIN tab : i # id => new[i] = tab[i]
  BY DEF Updates
<1> QED
  BY <1>1 DEF Visible, View

LEMMA VisibleAppend ==
  ASSUME NEW K, NEW tab \in Seq(Row(K)), NEW k \in K
  PROVE  Visible(Append(tab, NewRow(k))) =
           Append(Visible(tab), [status |-> "queued", attempts |-> 0])
<1> DEFINE new == Append(tab, NewRow(k))
           job0 == [status |-> "queued", attempts |-> 0]
<1>1. NewRow(k) \in Row(K)
  BY DEF NewRow, Row, Status
<1>2. /\ new \in Seq(Row(K)) /\ Len(new) = Len(tab) + 1 /\ Len(tab) \in Nat
      /\ DOMAIN tab = 1 .. Len(tab) /\ DOMAIN new = 1 .. Len(tab) + 1
      /\ \A i \in 1 .. Len(tab) : new[i] = tab[i]
      /\ new[Len(tab) + 1] = NewRow(k)
  BY <1>1, LenProperties
<1>3. View(NewRow(k)) = job0
  BY DEF View, NewRow
<1>4. /\ Visible(tab) \in Seq([status : Status, attempts : Nat])
      /\ Len(Visible(tab)) = Len(tab)
      /\ \A i \in DOMAIN tab : Visible(tab)[i] = View(tab[i])
  BY VisibleRows DEF Visible, View
<1>5. job0 \in [status : Status, attempts : Nat]
  BY DEF Status
<1> HIDE DEF new, job0
<1>6. /\ Visible(new) \in Seq([status : Status, attempts : Nat])
      /\ Len(Visible(new)) = Len(tab) + 1
      /\ \A i \in 1 .. Len(tab) + 1 : Visible(new)[i] = View(new[i])
  BY <1>2, VisibleRows DEF Visible, View
<1> DEFINE vis == Visible(tab)
           app == Append(vis, job0)
<1>7. vis \in Seq([status : Status, attempts : Nat]) /\ Len(vis) = Len(tab)
  BY <1>4
<1> HIDE DEF vis
<1>8. /\ app \in Seq([status : Status, attempts : Nat])
      /\ Len(app) = Len(tab) + 1
      /\ \A i \in 1 .. Len(tab) : app[i] = vis[i]
      /\ app[Len(tab) + 1] = job0
  BY <1>5, <1>7, AppendProperties
<1>9. \A i \in 1 .. Len(tab) + 1 : Visible(new)[i] = app[i]
  <2>1. \A i \in 1 .. Len(tab) : vis[i] = View(tab[i])
    BY <1>2, <1>4 DEF vis
  <2> QED
    BY <1>2, <1>3, <1>6, <1>8, <2>1
<1> HIDE DEF app
<1>10. Visible(new) = app
  BY <1>6, <1>8, <1>9, SeqEqual
<1> QED
  BY <1>10 DEF app, vis, new, job0

-----------------------------------------------------------------------------
(* The statements a single driver, the operator and the clock execute, as  *)
(* they find the row.                                                      *)
JobStep(K, tab, new) ==
  \/ new = tab
  \/ \E k \in K : new = InsertIgnore(tab, k)
  \/ \E id \in DOMAIN tab :
       \/ \E n \in Nat :
            \/ Picked(tab, id, n) /\ new = MarkRunning(tab, id, n)
            \/ Held(tab, id, n) /\ new = MarkFailed(tab, id, Requeue(n))
            \/ Held(tab, id, n) /\ new = MarkDone(tab, id)
       \/ CanPause(tab, id) /\ new = Pause(tab, id)
       \/ CanResume(tab, id) /\ new = Resume(tab, id)
       \/ new = BackoffElapsed(tab, id)

LEMMA JobSteps ==
  ASSUME SoloInv, [Next]_vars
  PROVE  JobStep(Torrents, conv, conv') /\ JobStep(UploadKeys, upl, upl')
<1> DEFINE Goal == /\ JobStep(Torrents, conv, conv')
                   /\ JobStep(UploadKeys, upl, upl')
<1>1. DataTypes /\ LocalTypes /\ Handles
  BY TypeParts DEF SoloInv
<1>2. UNCHANGED <<conv, upl>> => Goal
  BY DEF JobStep
<1>3. UNCHANGED upl => JobStep(UploadKeys, upl, upl')
  BY DEF JobStep
<1>4. UNCHANGED conv => JobStep(Torrents, conv, conv')
  BY DEF JobStep
<1> USE DEF tables, At
<1>5. ASSUME NEW d \in Drivers, Sync(d)
      PROVE  Goal
  <2>1. CASE SyncEnqueue(d)
    <3>1. cur[d] \in Torrents
      BY <1>1, <2>1 DEF SyncEnqueue, Handles
    <3> QED
      BY <1>3, <2>1, <3>1 DEF SyncEnqueue, JobStep
  <2> QED
    BY <1>2, <1>5, <2>1
    DEF Sync, SyncStatus, SyncPauseAll, SyncList, SyncDone, SyncRecord
<1>6. ASSUME NEW d \in Drivers, Convert(d)
      PROVE  Goal
  <2>1. ConvClaim(d) /\ (pc[d] \in ConvPCs =>
          job[d] \in DOMAIN conv /\ att[d] \in Nat /\ Target(d) \in Outputs)
    BY <1>1, HandlesAreTyped DEF Handles, LocalTypes, SoloInv, Claims
  <2>2. CASE ConvMark(d)
    <3>1. /\ job[d] \in DOMAIN conv /\ att[d] \in Nat
          /\ Picked(conv, job[d], att[d])
      BY <2>1, <2>2 DEF ConvMark, ConvPCs, ConvClaim
    <3> QED
      BY <1>3, <1>4, <2>2, <3>1 DEF ConvMark, JobStep
  <2>3. CASE ConvFailed(d)
    <3>1. /\ job[d] \in DOMAIN conv /\ att[d] \in Nat
          /\ Held(conv, job[d], att[d])
      BY <2>1, <2>3 DEF ConvFailed, ConvPCs, ConvClaim
    <3> QED
      BY <1>3, <1>4, <2>3, <3>1 DEF ConvFailed, JobStep
  <2>4. CASE ConvDone(d)
    <3>1. /\ job[d] \in DOMAIN conv /\ att[d] \in Nat
          /\ Held(conv, job[d], att[d])
      BY <2>1, <2>4 DEF ConvDone, ConvPCs, ConvClaim
    <3> QED
      BY <1>3, <1>4, <2>4, <3>1 DEF ConvDone, JobStep
  <2>5. CASE ConvEnqueueUpload(d)
    <3>1. <<Target(d), today>> \in UploadKeys
      BY <1>1, <2>1, <2>5 DEF ConvEnqueueUpload, ConvPCs, UploadKeys, DataTypes
    <3> QED
      BY <1>2, <1>4, <2>5, <3>1 DEF ConvEnqueueUpload, JobStep
  <2> QED
    BY <1>2, <1>6, <2>2, <2>3, <2>4, <2>5
    DEF Convert, ConvNext, ConvStart, ConvFinish
<1>7. ASSUME NEW d \in Drivers, Upload(d)
      PROVE  Goal
  <2>1. UplClaim(d) /\ (pc[d] \in UplPCs =>
          job[d] \in DOMAIN upl /\ att[d] \in Nat)
    BY <1>1 DEF Handles, LocalTypes, SoloInv, Claims
  <2>2. CASE UplMark(d)
    <3>1. /\ job[d] \in DOMAIN upl /\ att[d] \in Nat
          /\ Picked(upl, job[d], att[d])
      BY <2>1, <2>2 DEF UplMark, UplPCs, UplClaim
    <3> QED
      BY <1>3, <1>4, <2>2, <3>1 DEF UplMark, JobStep
  <2>3. CASE UplFailed(d)
    <3>1. /\ job[d] \in DOMAIN upl /\ att[d] \in Nat
          /\ Held(upl, job[d], att[d])
      BY <2>1, <2>3 DEF UplFailed, UplPCs, UplClaim
    <3> QED
      BY <1>3, <1>4, <2>3, <3>1 DEF UplFailed, JobStep
  <2>4. CASE UplDone(d)
    <3>1. /\ job[d] \in DOMAIN upl /\ att[d] \in Nat
          /\ Held(upl, job[d], att[d])
      BY <2>1, <2>4 DEF UplDone, UplPCs, UplClaim
    <3> QED
      BY <1>3, <1>4, <2>4, <3>1 DEF UplDone, JobStep
  <2> QED
    BY <1>2, <1>7, <2>2, <2>3, <2>4 DEF Upload, UplStatus, UplNext, UplPut
<1>8. CASE Operator
  <2>1. ASSUME NEW id \in DOMAIN conv,
               PauseConversionJob(id) \/ ResumeConversionJob(id)
        PROVE  Goal
    BY <1>3, <2>1 DEF PauseConversionJob, ResumeConversionJob, JobStep
  <2>2. ASSUME NEW id \in DOMAIN upl, PauseUploadJob(id) \/ ResumeUploadJob(id)
        PROVE  Goal
    BY <1>4, <2>2 DEF PauseUploadJob, ResumeUploadJob, JobStep
  <2> QED
    BY <1>2, <1>8, <2>1, <2>2 DEF Operator, PauseTorrent, ResumeTorrent
<1>9. CASE Environment
  <2>1. ASSUME NEW id \in DOMAIN conv, ConvBackoffElapses(id)
        PROVE  Goal
    BY <1>3, <2>1 DEF ConvBackoffElapses, JobStep
  <2>2. ASSUME NEW id \in DOMAIN upl, UplBackoffElapses(id)
        PROVE  Goal
    BY <1>4, <2>2 DEF UplBackoffElapses, JobStep
  <2> QED
    BY <1>2, <1>9, <2>1, <2>2
    DEF Environment, ClockTicks, TorrentCompletes, VPNChanges, Midnight, Crash
<1>10. CASE UNCHANGED vars
  BY <1>2, <1>10 DEF vars
<1> QED
  BY <1>5, <1>6, <1>7, <1>8, <1>9, <1>10 DEF Next, Step

-----------------------------------------------------------------------------
(* Every such statement is a step of JobLifecycle or a stutter.            *)

(* JobLifecycle!Next with the visible part of tab for jobs and that of new *)
(* for its next value.                                                     *)
Mapped(tab, new) ==
  LET jobs == Visible(tab)
      next == Visible(new)
  IN \/ next = Append(jobs, [status |-> "queued", attempts |-> 0])
     \/ \E i \in DOMAIN jobs :
          \/ /\ jobs[i].status \in {"queued", "paused"}
             /\ jobs[i].attempts < Budget
             /\ next = [jobs EXCEPT ![i].status = "running",
                                    ![i].attempts = @ + 1]
          \/ /\ jobs[i].status = "running"
             /\ next = [jobs EXCEPT ![i].status = "done"]
          \/ /\ jobs[i].status = "running"
             /\ jobs[i].attempts < Budget
             /\ next = [jobs EXCEPT ![i].status = "queued"]
          \/ /\ jobs[i].status = "running"
             /\ jobs[i].attempts = Budget
             /\ next = [jobs EXCEPT ![i].status = "failed"]
          \/ /\ jobs[i].status = "queued"
             /\ next = [jobs EXCEPT ![i].status = "paused"]
          \/ /\ jobs[i].status = "paused"
             /\ next = [jobs EXCEPT ![i].status = "queued"]

LEMMA StepsMap ==
  ASSUME NEW K, NEW tab \in Seq(Row(K)), NEW new, TabOK(tab),
         JobStep(K, tab, new)
  PROVE  Mapped(tab, new) \/ Visible(new) = Visible(tab)
<1> DEFINE jobs == Visible(tab)
           next == Visible(new)
<1>1. /\ DOMAIN jobs = DOMAIN tab
      /\ \A i \in DOMAIN tab : /\ jobs[i] = View(tab[i])
                              /\ jobs[i].status = tab[i].status
                              /\ jobs[i].attempts = tab[i].attempts
                              /\ tab[i].attempts \in Nat
  BY VisibleRows, RowOf DEF Visible, View
<1>2. ASSUME NEW k \in K, new = InsertIgnore(tab, k)
      PROVE  Mapped(tab, new) \/ next = jobs
  BY <1>2, VisibleAppend DEF InsertIgnore, Mapped
<1>3. ASSUME NEW id \in DOMAIN tab, Updates(K, tab, new, id)
      PROVE  next = [jobs EXCEPT ![id] = View(new[id])]
  BY <1>3, VisibleUpdate
<1> HIDE DEF jobs, next
<1>4. ASSUME NEW id \in DOMAIN tab, NEW n \in Nat, Picked(tab, id, n),
             new = MarkRunning(tab, id, n)
      PROVE  Mapped(tab, new)
  <2>1. /\ Updates(K, tab, new, id)
        /\ View(new[id]) = [status |-> "running", attempts |-> n]
    BY <1>4, MarkRunningUpdates DEF View
  <2>2. /\ tab[id].status \in {"queued", "paused"} /\ n = tab[id].attempts + 1
        /\ tab[id].attempts < Budget
    BY <1>4 DEF Picked, TabOK, RowOK
  <2>3. next = [jobs EXCEPT ![id].status = "running", ![id].attempts = @ + 1]
    <3>1. next = [jobs EXCEPT ![id] = [status |-> "running", attempts |-> n]]
      BY <1>3, <2>1
    <3>2. jobs[id] = [status |-> tab[id].status, attempts |-> tab[id].attempts]
      BY <1>1 DEF View
    <3>3. [[jobs[id] EXCEPT !.status = "running"]
             EXCEPT !.attempts = jobs[id].attempts + 1] =
            [status |-> "running", attempts |-> n]
      <4>1. jobs[id].attempts + 1 = n
        BY <1>1, <2>2
      <4>2. [jobs[id] EXCEPT !.status = "running"] =
              [status |-> "running", attempts |-> tab[id].attempts]
        BY <3>2
      <4>3. [[status |-> "running", attempts |-> tab[id].attempts]
               EXCEPT !.attempts = n] = [status |-> "running", attempts |-> n]
        OBVIOUS
      <4> QED
        BY <4>1, <4>2, <4>3
    <3> QED
      BY <1>1, <3>1, <3>3
  <2> QED
    BY <1>1, <2>2, <2>3 DEF Mapped, jobs, next
<1>5. ASSUME NEW id \in DOMAIN tab, NEW n \in Nat, Held(tab, id, n),
             new = MarkFailed(tab, id, Requeue(n))
      PROVE  Mapped(tab, new)
  <2>1. Requeue(n) \in BOOLEAN /\ RowOK(tab[id])
    BY DEF Requeue, TabOK
  <2>2. /\ Updates(K, tab, new, id)
        /\ View(new[id]) = [status |-> IF Requeue(n) THEN "queued" ELSE "failed",
                            attempts |-> tab[id].attempts]
    BY <1>5, <2>1, MarkFailedUpdates DEF View
  <2>3. tab[id].status = "running" /\ tab[id].attempts = n /\ n <= Budget
    BY <1>5, <2>1 DEF Held, RowOK
  <2>4. CASE Requeue(n)
    <3>1. n < Budget
      BY <2>4 DEF Requeue
    <3>2. next = [jobs EXCEPT ![id].status = "queued"]
      BY <1>1, <1>3, <2>2, <2>4 DEF View
    <3> QED
      BY <1>1, <2>3, <3>1, <3>2 DEF Mapped, jobs, next
  <2>5. CASE ~ Requeue(n)
    <3>1. n = Budget
      BY <2>3, <2>5, BudgetType DEF Requeue
    <3>2. next = [jobs EXCEPT ![id].status = "failed"]
      BY <1>1, <1>3, <2>2, <2>5 DEF View
    <3> QED
      BY <1>1, <2>3, <3>1, <3>2 DEF Mapped, jobs, next
  <2> QED
    BY <2>4, <2>5
<1>6. ASSUME NEW id \in DOMAIN tab, NEW n \in Nat, Held(tab, id, n),
             new = MarkDone(tab, id)
      PROVE  Mapped(tab, new)
  <2>1. /\ Updates(K, tab, new, id)
        /\ View(new[id]) = [status |-> "done", attempts |-> tab[id].attempts]
    BY <1>6, MarkDoneUpdates DEF View
  <2>2. next = [jobs EXCEPT ![id].status = "done"]
    BY <1>1, <1>3, <2>1 DEF View
  <2> QED
    BY <1>1, <1>6, <2>2 DEF Held, Mapped, jobs, next
<1>7. ASSUME NEW id \in DOMAIN tab, CanPause(tab, id), new = Pause(tab, id)
      PROVE  Mapped(tab, new)
  <2>1. /\ Updates(K, tab, new, id)
        /\ View(new[id]) = [status |-> "paused", attempts |-> tab[id].attempts]
    BY <1>7, PauseUpdates DEF View
  <2>2. next = [jobs EXCEPT ![id].status = "paused"]
    BY <1>1, <1>3, <2>1 DEF View
  <2> QED
    BY <1>1, <1>7, <2>2 DEF CanPause, Mapped, jobs, next
<1>8. ASSUME NEW id \in DOMAIN tab, CanResume(tab, id), new = Resume(tab, id)
      PROVE  Mapped(tab, new)
  <2>1. /\ Updates(K, tab, new, id)
        /\ View(new[id]) = [status |-> "queued", attempts |-> tab[id].attempts]
    BY <1>8, ResumeUpdates DEF View
  <2>2. next = [jobs EXCEPT ![id].status = "queued"]
    BY <1>1, <1>3, <2>1 DEF View
  <2> QED
    BY <1>1, <1>8, <2>2 DEF CanResume, Mapped, jobs, next
<1>9. ASSUME NEW id \in DOMAIN tab, new = BackoffElapsed(tab, id)
      PROVE  next = jobs
  <2>1. /\ Updates(K, tab, new, id)
        /\ View(new[id]) = View(tab[id])
    BY <1>9, BackoffUpdates DEF View
  <2>2. next = [jobs EXCEPT ![id] = jobs[id]]
    BY <1>1, <1>3, <2>1
  <2>3. jobs = [i \in DOMAIN tab |-> jobs[i]]
    BY DEF Visible, jobs
  <2> QED
    BY <2>2, <2>3
<1> QED
  BY <1>2, <1>4, <1>5, <1>6, <1>7, <1>8, <1>9 DEF JobStep, jobs, next

LEMMA TablesMap ==
  ASSUME SoloInv, [Next]_vars
  PROVE  /\ [ConvLifecycle!Next]_(Visible(conv))
         /\ [UplLifecycle!Next]_(Visible(upl))
<1>1. /\ conv \in Seq(Row(Torrents)) /\ TabOK(conv)
      /\ upl \in Seq(Row(UploadKeys)) /\ TabOK(upl)
  BY DEF SoloInv, TypeInv, TypeOK
<1>2. Mapped(conv, conv') \/ Visible(conv') = Visible(conv)
  BY <1>1, JobSteps, StepsMap
<1>3. Mapped(upl, upl') \/ Visible(upl') = Visible(upl)
  BY <1>1, JobSteps, StepsMap
<1>4. Mapped(conv, conv') => ConvLifecycle!Next
  BY DEF Mapped, ConvLifecycle!Next, ConvLifecycle!Enqueue,
         ConvLifecycle!NewJob, ConvLifecycle!Start, ConvLifecycle!Succeed,
         ConvLifecycle!Retry, ConvLifecycle!GiveUp, ConvLifecycle!Pause,
         ConvLifecycle!Resume
<1>5. Mapped(upl, upl') => UplLifecycle!Next
  BY DEF Mapped, UplLifecycle!Next, UplLifecycle!Enqueue,
         UplLifecycle!NewJob, UplLifecycle!Start, UplLifecycle!Succeed,
         UplLifecycle!Retry, UplLifecycle!GiveUp, UplLifecycle!Pause,
         UplLifecycle!Resume
<1> QED
  BY <1>2, <1>3, <1>4, <1>5

LEMMA InitMaps == Init => ConvLifecycle!Init /\ UplLifecycle!Init
BY DEF Init, ConvLifecycle!Init, UplLifecycle!Init, Visible

(* A reader of either table sees the life of a job that JobLifecycle       *)
(* promises: attempts that count starts, retries within the budget, a job  *)
(* given up only when it is spent, no way back from done or failed.        *)
THEOREM SoloImplements ==
  ASSUME SoleDriver
  PROVE  Spec => ImplementsLifecycle
<1>1. SoloInv /\ [Next]_vars => SoloInv'
  BY SoloStep
<1>2. SoloInv /\ [Next]_vars =>
        /\ [ConvLifecycle!Next]_(Visible(conv))
        /\ [UplLifecycle!Next]_(Visible(upl))
  BY TablesMap
<1> QED
  BY <1>1, <1>2, InitMaps, SoloInit, PTL
  DEF Spec, ImplementsLifecycle, ConvLifecycle!Spec, UplLifecycle!Spec

-----------------------------------------------------------------------------
(* Running rows that no driver works on.                                   *)

(* A row that runs after a step ran before it, or is the driver's own.     *)
StartsOwn ==
  /\ \A i \in DOMAIN conv' : conv'[i].status = "running" =>
       (i \in DOMAIN conv /\ conv[i].status = "running") \/ ConvClaimed(i)'
  /\ \A i \in DOMAIN upl' : upl'[i].status = "running" =>
       (i \in DOMAIN upl /\ upl[i].status = "running") \/ UplClaimed(i)'

(* A driver lets go of its row when the row runs no longer, or at a fault. *)
LetsGo(d) ==
  /\ pc[d] \in ConvPCs =>
       \/ pc'[d] \in ConvPCs /\ job'[d] = job[d]
       \/ conv'[job[d]].status # "running"
       \/ faults' = faults + 1
  /\ pc[d] \in UplPCs =>
       \/ pc'[d] \in UplPCs /\ job'[d] = job[d]
       \/ upl'[job[d]].status # "running"
       \/ faults' = faults + 1

NoneStarts(tab, new) ==
  \A i \in DOMAIN new :
    new[i].status = "running" => i \in DOMAIN tab /\ tab[i].status = "running"

LEMMA UpdateStartsNone ==
  ASSUME NEW K, NEW tab \in Seq(Row(K)), NEW new, NEW id \in DOMAIN tab,
         Updates(K, tab, new, id),
         new[id].status = tab[id].status \/ new[id].status # "running"
  PROVE  NoneStarts(tab, new)
BY DEF Updates, NoneStarts

LEMMA InsertStartsNone ==
  ASSUME NEW K, NEW tab \in Seq(Row(K)), NEW k \in K
  PROVE  NoneStarts(tab, InsertIgnore(tab, k))
<1>1. NewRow(k).status = "queued"
  BY DEF NewRow
<1> QED
  BY <1>1, InsertIgnoreInserts DEF NoneStarts

(* What the clock and the operator do.                                     *)
OutsideStartsNone(tab, id) ==
  /\ NoneStarts(tab, Pause(tab, id))
  /\ NoneStarts(tab, Resume(tab, id))
  /\ NoneStarts(tab, BackoffElapsed(tab, id))

LEMMA OutsideStatements ==
  ASSUME NEW K, NEW tab \in Seq(Row(K)), NEW id \in DOMAIN tab
  PROVE  OutsideStartsNone(tab, id)
<1>1. NoneStarts(tab, Pause(tab, id))
  <2>1. Updates(K, tab, Pause(tab, id), id) /\ Pause(tab, id)[id].status = "paused"
    BY PauseUpdates
  <2> QED
    BY <2>1, UpdateStartsNone
<1>2. NoneStarts(tab, Resume(tab, id))
  <2>1. Updates(K, tab, Resume(tab, id), id) /\ Resume(tab, id)[id].status = "queued"
    BY ResumeUpdates
  <2> QED
    BY <2>1, UpdateStartsNone
<1>3. NoneStarts(tab, BackoffElapsed(tab, id))
  <2>1. /\ Updates(K, tab, BackoffElapsed(tab, id), id)
        /\ BackoffElapsed(tab, id)[id].status = tab[id].status
    BY BackoffUpdates
  <2> QED
    BY <2>1, UpdateStartsNone
<1> QED
  BY <1>1, <1>2, <1>3 DEF OutsideStartsNone

LEMMA OthersStartNone ==
  ASSUME SoloInv, Operator \/ Environment
  PROVE  NoneStarts(conv, conv') /\ NoneStarts(upl, upl')
<1>1. conv \in Seq(Row(Torrents)) /\ upl \in Seq(Row(UploadKeys))
  BY DEF SoloInv, TypeInv, TypeOK
<1>2. NoneStarts(conv, conv) /\ NoneStarts(upl, upl)
  BY DEF NoneStarts
<1>3. /\ \A id \in DOMAIN conv : OutsideStartsNone(conv, id)
      /\ \A id \in DOMAIN upl : OutsideStartsNone(upl, id)
  BY <1>1, OutsideStatements
<1>5. CASE Operator
  BY <1>2, <1>3, <1>5
  DEF Operator, PauseConversionJob, ResumeConversionJob, PauseUploadJob,
      ResumeUploadJob, PauseTorrent, ResumeTorrent, tables, OutsideStartsNone
<1>6. CASE Environment
  BY <1>2, <1>3, <1>6
  DEF Environment, TorrentCompletes, VPNChanges, Midnight, ClockTicks,
      ConvBackoffElapses, UplBackoffElapses, Crash, tables, OutsideStartsNone
<1> QED
  BY <1>5, <1>6

LEMMA SyncStrands ==
  ASSUME SoloInv, NEW d \in Drivers, Sync(d)
  PROVE  StartsOwn /\ LetsGo(d) /\ faults' \in {faults, faults + 1}
<1>1. DataTypes /\ LocalTypes /\ Handles
  BY TypeParts DEF SoloInv
<1>2. pc[d] \notin ConvPCs \cup UplPCs
  BY DEF Sync, SyncStatus, SyncPauseAll, SyncList, SyncDone, SyncRecord,
         SyncEnqueue, At, ConvPCs, UplPCs
<1>3. faults' \in {faults, faults + 1}
  BY DEF Sync, SyncStatus, SyncPauseAll, SyncList, SyncDone, SyncRecord,
         SyncEnqueue, StoreFault
<1>4. NoneStarts(conv, conv') /\ UNCHANGED upl
  <2>1. CASE SyncEnqueue(d)
    <3>1. cur[d] \in Torrents /\ conv \in Seq(Row(Torrents))
      BY <1>1, <2>1 DEF SyncEnqueue, At, Handles, DataTypes
    <3>2. NoneStarts(conv, InsertIgnore(conv, cur[d]))
      BY <3>1, InsertStartsNone
    <3> QED
      BY <2>1, <3>2 DEF SyncEnqueue, NoneStarts
  <2> QED
    BY <2>1 DEF Sync, SyncStatus, SyncPauseAll, SyncList, SyncDone, SyncRecord,
                NoneStarts, tables
<1> QED
  BY <1>2, <1>3, <1>4 DEF StartsOwn, LetsGo, NoneStarts

LEMMA ConvertStrands ==
  ASSUME SoloInv, NEW d \in Drivers, Convert(d)
  PROVE  StartsOwn /\ LetsGo(d) /\ faults' \in {faults, faults + 1}
<1>1. DataTypes /\ LocalTypes /\ Handles
  BY TypeParts DEF SoloInv
<1>2. conv \in Seq(Row(Torrents)) /\ upl \in Seq(Row(UploadKeys)) /\ ConvClaim(d)
  BY <1>1 DEF DataTypes, SoloInv, Claims
<1>3. pc[d] \in ConvPCs => /\ job[d] \in DOMAIN conv /\ att[d] \in Nat
                           /\ Target(d) \in Outputs
  BY <1>1, HandlesAreTyped DEF Handles, LocalTypes, SoloInv
<1>4. ASSUME NEW p \in ConvPCs, Goto(d, p), UNCHANGED job
      PROVE  pc'[d] \in ConvPCs /\ job'[d] = job[d]
  BY <1>1, <1>4 DEF Goto, LocalTypes
<1>5. faults' \in {faults, faults + 1} /\ pc[d] \notin UplPCs
  BY DEF Convert, ConvNext, ConvMark, ConvStart, ConvFinish, ConvFailed,
         ConvDone, ConvEnqueueUpload, StoreFault, At, UplPCs
<1>6. ASSUME NoneStarts(conv, conv'), NoneStarts(upl, upl'),
             \/ pc'[d] \in ConvPCs /\ job'[d] = job[d]
             \/ pc[d] \notin ConvPCs
             \/ conv'[job[d]].status # "running"
             \/ faults' = faults + 1
      PROVE  StartsOwn /\ LetsGo(d) /\ faults' \in {faults, faults + 1}
  BY <1>5, <1>6 DEF StartsOwn, LetsGo, NoneStarts
<1>7. NoneStarts(conv, conv) /\ NoneStarts(upl, upl)
  BY DEF NoneStarts
<1> USE DEF At, tables, locals
<1>8. CASE ConvNext(d)
  <2>1. conv' = conv /\ upl' = upl /\ pc[d] \notin ConvPCs
    BY <1>8 DEF ConvNext, ConvPCs
  <2> QED
    BY <1>6, <1>7, <2>1
<1>9. CASE ConvStart(d) \/ ConvFinish(d)
  BY <1>4, <1>6, <1>7, <1>9 DEF ConvStart, ConvFinish, ConvPCs
<1>10. CASE ConvMark(d)
  <2>1. job[d] \in DOMAIN conv /\ att[d] \in Nat /\ upl' = upl
    BY <1>3, <1>10 DEF ConvMark, ConvPCs
  <2>2. CASE StoreFault /\ UNCHANGED conv
    BY <1>6, <1>7, <2>1, <2>2 DEF StoreFault
  <2>3. CASE /\ conv' = MarkRunning(conv, job[d], att[d])
             /\ Goto(d, "Convert") /\ UNCHANGED locals
    <3>1. Updates(Torrents, conv, conv', job[d])
      BY <1>2, <2>1, <2>3, MarkRunningUpdates
    <3>2. pc'[d] \in ConvPCs /\ job'[d] = job[d]
      BY <1>4, <2>3 DEF ConvPCs
    <3>3. ConvClaimed(job[d])'
      BY <3>2 DEF ConvClaimed
    <3> QED
      BY <1>5, <2>1, <3>1, <3>2, <3>3 DEF StartsOwn, LetsGo, Updates
  <2> QED
    BY <1>10, <2>2, <2>3 DEF ConvMark
<1>11. CASE ConvFailed(d)
  <2>1. job[d] \in DOMAIN conv /\ Requeue(att[d]) \in BOOLEAN /\ upl' = upl
    BY <1>3, <1>11 DEF ConvFailed, ConvPCs, Requeue
  <2>2. CASE StoreFault /\ UNCHANGED conv
    BY <1>6, <1>7, <2>1, <2>2 DEF StoreFault
  <2>3. CASE conv' = MarkFailed(conv, job[d], Requeue(att[d]))
    <3>1. /\ Updates(Torrents, conv, conv', job[d])
          /\ conv'[job[d]].status # "running"
      BY <1>2, <2>1, <2>3, MarkFailedUpdates
    <3>2. NoneStarts(conv, conv')
      BY <1>2, <2>1, <3>1, UpdateStartsNone
    <3> QED
      BY <1>6, <1>7, <2>1, <3>1, <3>2
  <2> QED
    BY <1>11, <2>2, <2>3 DEF ConvFailed
<1>12. CASE ConvDone(d)
  <2>1. job[d] \in DOMAIN conv /\ upl' = upl
    BY <1>3, <1>12 DEF ConvDone, ConvPCs
  <2>2. CASE StoreFault /\ UNCHANGED conv
    BY <1>6, <1>7, <2>1, <2>2 DEF StoreFault
  <2>3. CASE conv' = MarkDone(conv, job[d])
    <3>1. /\ Updates(Torrents, conv, conv', job[d])
          /\ conv'[job[d]].status # "running"
      BY <1>2, <2>1, <2>3, MarkDoneUpdates
    <3>2. NoneStarts(conv, conv')
      BY <1>2, <2>1, <3>1, UpdateStartsNone
    <3> QED
      BY <1>6, <1>7, <2>1, <3>1, <3>2
  <2> QED
    BY <1>12, <2>2, <2>3 DEF ConvDone
<1>13. CASE ConvEnqueueUpload(d)
  <2>1. conv' = conv /\ conv[job[d]].status # "running"
    BY <1>2, <1>13 DEF ConvEnqueueUpload, ConvClaim
  <2>2. <<Target(d), today>> \in UploadKeys
    BY <1>1, <1>3, <1>13 DEF ConvEnqueueUpload, ConvPCs, UploadKeys, DataTypes
  <2>3. NoneStarts(upl, InsertIgnore(upl, <<Target(d), today>>))
    BY <1>2, <2>2, InsertStartsNone
  <2>4. NoneStarts(upl, upl')
    BY <1>7, <1>13, <2>3 DEF ConvEnqueueUpload
  <2>5. NoneStarts(conv, conv') /\ conv'[job[d]].status # "running"
    BY <1>7, <2>1
  <2> QED
    BY <1>6, <2>4, <2>5
<1> QED
  BY <1>5, <1>8, <1>9, <1>10, <1>11, <1>12, <1>13 DEF Convert

LEMMA UploadStrands ==
  ASSUME SoloInv, NEW d \in Drivers, Upload(d)
  PROVE  StartsOwn /\ LetsGo(d) /\ faults' \in {faults, faults + 1}
<1>1. DataTypes /\ LocalTypes /\ Handles
  BY TypeParts DEF SoloInv
<1>2. upl \in Seq(Row(UploadKeys))
  BY <1>1 DEF DataTypes
<1>3. pc[d] \in UplPCs => job[d] \in DOMAIN upl /\ att[d] \in Nat
  BY <1>1 DEF Handles, LocalTypes
<1>4. ASSUME NEW p \in UplPCs, Goto(d, p), UNCHANGED job
      PROVE  pc'[d] \in UplPCs /\ job'[d] = job[d]
  BY <1>1, <1>4 DEF Goto, LocalTypes
<1>5. /\ faults' \in {faults, faults + 1} /\ pc[d] \notin ConvPCs
      /\ conv' = conv
  BY DEF Upload, UplStatus, UplNext, UplMark, UplPut, UplFailed, UplDone,
         StoreFault, At, ConvPCs, tables
<1>6. ASSUME NoneStarts(upl, upl'),
             \/ pc'[d] \in UplPCs /\ job'[d] = job[d]
             \/ pc[d] \notin UplPCs
             \/ upl'[job[d]].status # "running"
             \/ faults' = faults + 1
      PROVE  StartsOwn /\ LetsGo(d) /\ faults' \in {faults, faults + 1}
  BY <1>5, <1>6 DEF StartsOwn, LetsGo, NoneStarts
<1>7. NoneStarts(upl, upl)
  BY DEF NoneStarts
<1> USE DEF At, tables, locals
<1>8. CASE UplStatus(d) \/ UplNext(d)
  <2>1. upl' = upl /\ pc[d] \notin UplPCs
    BY <1>8 DEF UplStatus, UplNext, UplPCs
  <2> QED
    BY <1>6, <1>7, <2>1
<1>9. CASE UplPut(d)
  BY <1>4, <1>6, <1>7, <1>9 DEF UplPut, UplPCs
<1>10. CASE UplMark(d)
  <2>1. job[d] \in DOMAIN upl /\ att[d] \in Nat
    BY <1>3, <1>10 DEF UplMark, UplPCs
  <2>2. CASE StoreFault /\ UNCHANGED upl
    BY <1>6, <1>7, <2>2 DEF StoreFault
  <2>3. CASE /\ upl' = MarkRunning(upl, job[d], att[d])
             /\ Goto(d, "Upload") /\ UNCHANGED locals
    <3>1. Updates(UploadKeys, upl, upl', job[d])
      BY <1>2, <2>1, <2>3, MarkRunningUpdates
    <3>2. pc'[d] \in UplPCs /\ job'[d] = job[d]
      BY <1>4, <2>3 DEF UplPCs
    <3>3. UplClaimed(job[d])'
      BY <3>2 DEF UplClaimed
    <3> QED
      BY <1>5, <2>1, <3>1, <3>2, <3>3 DEF StartsOwn, LetsGo, Updates
  <2> QED
    BY <1>10, <2>2, <2>3 DEF UplMark
<1>11. CASE UplFailed(d)
  <2>1. job[d] \in DOMAIN upl /\ Requeue(att[d]) \in BOOLEAN
    BY <1>3, <1>11 DEF UplFailed, UplPCs, Requeue
  <2>2. CASE StoreFault /\ UNCHANGED upl
    BY <1>6, <1>7, <2>2 DEF StoreFault
  <2>3. CASE upl' = MarkFailed(upl, job[d], Requeue(att[d]))
    <3>1. /\ Updates(UploadKeys, upl, upl', job[d])
          /\ upl'[job[d]].status # "running"
      BY <1>2, <2>1, <2>3, MarkFailedUpdates
    <3>2. NoneStarts(upl, upl')
      BY <1>2, <2>1, <3>1, UpdateStartsNone
    <3> QED
      BY <1>6, <1>7, <2>1, <3>1, <3>2
  <2> QED
    BY <1>11, <2>2, <2>3 DEF UplFailed
<1>12. CASE UplDone(d)
  <2>1. job[d] \in DOMAIN upl
    BY <1>3, <1>12 DEF UplDone, UplPCs
  <2>2. CASE StoreFault /\ UNCHANGED upl
    BY <1>6, <1>7, <2>2 DEF StoreFault
  <2>3. CASE upl' = MarkDone(upl, job[d])
    <3>1. /\ Updates(UploadKeys, upl, upl', job[d])
          /\ upl'[job[d]].status # "running"
      BY <1>2, <2>1, <2>3, MarkDoneUpdates
    <3>2. NoneStarts(upl, upl')
      BY <1>2, <2>1, <3>1, UpdateStartsNone
    <3> QED
      BY <1>6, <1>7, <2>1, <3>1, <3>2
  <2> QED
    BY <1>12, <2>2, <2>3 DEF UplDone
<1> QED
  BY <1>5, <1>8, <1>9, <1>10, <1>11, <1>12 DEF Upload

LEMMA StrandStep ==
  ASSUME SoleDriver, SoloInv, [Next]_vars
  PROVE  /\ StartsOwn /\ \A d \in Drivers : LetsGo(d)
         /\ faults' \in {faults, faults + 1}
<1>1. ASSUME NEW d \in Drivers, Step(d)
      PROVE  StartsOwn /\ LetsGo(d) /\ faults' \in {faults, faults + 1}
  BY <1>1, SyncStrands, ConvertStrands, UploadStrands DEF Step
<1>2. CASE Operator \/ Environment
  <2>1. StartsOwn
    BY <1>2, OthersStartNone DEF NoneStarts, StartsOwn
  <2>2. \/ UNCHANGED <<faults, pc, job>>
        \/ faults' = faults + 1
    BY <1>2
    DEF Operator, PauseConversionJob, ResumeConversionJob, PauseUploadJob,
        ResumeUploadJob, PauseTorrent, ResumeTorrent,
        Environment, TorrentCompletes, VPNChanges, Midnight, ClockTicks,
        ConvBackoffElapses, UplBackoffElapses, Crash, StoreFault, locals
  <2> QED
    BY <2>1, <2>2 DEF LetsGo
<1>3. CASE UNCHANGED vars
  BY <1>3 DEF vars, tables, locals, StartsOwn, LetsGo
<1> QED
  BY <1>1, <1>2, <1>3 DEF Next, SoleDriver

(* The rows a step strands: none, or the one whose driver met the fault.   *)
LEMMA StrandsAtMostOne ==
  ASSUME SoleDriver, SoloInv, [Next]_vars
  PROVE  \/ /\ faults' = faults
            /\ StrandedConv' \subseteq StrandedConv
            /\ StrandedUpl' \subseteq StrandedUpl
         \/ /\ faults' = faults + 1
            /\ \E x : \/ /\ StrandedConv' \subseteq StrandedConv \cup {x}
                         /\ StrandedUpl' \subseteq StrandedUpl
                      \/ /\ StrandedConv' \subseteq StrandedConv
                         /\ StrandedUpl' \subseteq StrandedUpl \cup {x}
<1>1. /\ StartsOwn /\ \A d \in Drivers : LetsGo(d)
      /\ faults' \in {faults, faults + 1}
  BY StrandStep
<1>2. faults \in Nat
  BY DEF SoloInv, TypeInv, TypeOK
<1>3. ASSUME NEW i \in StrandedConv', i \notin StrandedConv
      PROVE  /\ faults' = faults + 1
             /\ \E d \in Drivers : pc[d] \in ConvPCs /\ job[d] = i
  <2>1. /\ i \in DOMAIN conv /\ conv[i].status = "running"
        /\ conv'[i].status = "running" /\ ~ ConvClaimed(i)'
    BY <1>1, <1>3 DEF StrandedConv, StartsOwn
  <2>2. PICK d \in Drivers : pc[d] \in ConvPCs /\ job[d] = i
    BY <1>3, <2>1 DEF StrandedConv, ConvClaimed
  <2>3. ~ (pc'[d] \in ConvPCs /\ job'[d] = job[d])
    BY <2>1, <2>2 DEF ConvClaimed
  <2> QED
    BY <1>1, <2>1, <2>2, <2>3 DEF LetsGo
<1>4. ASSUME NEW i \in StrandedUpl', i \notin StrandedUpl
      PROVE  /\ faults' = faults + 1
             /\ \E d \in Drivers : pc[d] \in UplPCs /\ job[d] = i
  <2>1. /\ i \in DOMAIN upl /\ upl[i].status = "running"
        /\ upl'[i].status = "running" /\ ~ UplClaimed(i)'
    BY <1>1, <1>4 DEF StrandedUpl, StartsOwn
  <2>2. PICK d \in Drivers : pc[d] \in UplPCs /\ job[d] = i
    BY <1>4, <2>1 DEF StrandedUpl, UplClaimed
  <2>3. ~ (pc'[d] \in UplPCs /\ job'[d] = job[d])
    BY <2>1, <2>2 DEF UplClaimed
  <2> QED
    BY <1>1, <2>1, <2>2, <2>3 DEF LetsGo
<1>5. CASE faults' = faults
  BY <1>2, <1>3, <1>4, <1>5
<1>6. CASE faults' = faults + 1 /\ StrandedConv' \subseteq StrandedConv
  <2>1. \A i, j \in StrandedUpl' \ StrandedUpl : i = j
    BY <1>4 DEF SoleDriver
  <2> QED
    BY <1>6, <2>1
<1>7. CASE faults' = faults + 1 /\ ~ StrandedConv' \subseteq StrandedConv
  <2>1. PICK x \in StrandedConv' : x \notin StrandedConv
    BY <1>7
  <2>2. PICK d \in Drivers : pc[d] \in ConvPCs /\ job[d] = x
    BY <1>3, <2>1
  <2>3. StrandedConv' \subseteq StrandedConv \cup {x}
    BY <1>3, <2>2 DEF SoleDriver
  <2>4. StrandedUpl' \subseteq StrandedUpl
    BY <1>4, <2>2, FreePCsHoldNothing DEF SoleDriver
  <2> QED
    BY <1>7, <2>3, <2>4
<1> QED
  BY <1>1, <1>5, <1>6, <1>7

LEMMA FewerOrOneMore ==
  ASSUME NEW S, IsFiniteSet(S), NEW T
  PROVE  /\ T \subseteq S => Cardinality(T) <= Cardinality(S)
         /\ \A x : T \subseteq S \cup {x} => Cardinality(T) <= Cardinality(S) + 1
<1>1. T \subseteq S => Cardinality(T) <= Cardinality(S)
  BY FS_Subset
<1>2. ASSUME NEW x, T \subseteq S \cup {x}
      PROVE  Cardinality(T) <= Cardinality(S) + 1
  <2>1. /\ IsFiniteSet(S \cup {x}) /\ Cardinality(S) \in Nat
        /\ Cardinality(S \cup {x}) \in {Cardinality(S), Cardinality(S) + 1}
    BY FS_AddElement, FS_CardinalityType
  <2>2. IsFiniteSet(T) /\ Cardinality(T) <= Cardinality(S \cup {x})
    BY <1>2, <2>1, FS_Subset
  <2>3. Cardinality(T) \in Nat
    BY <2>2, FS_CardinalityType
  <2> QED
    BY <2>1, <2>2, <2>3
<1> QED
  BY <1>1, <1>2

(* Tables are finite.                                                      *)
LEMMA StrandedAreFinite ==
  ASSUME SoloInv
  PROVE  /\ IsFiniteSet(StrandedConv) /\ Cardinality(StrandedConv) \in Nat
         /\ IsFiniteSet(StrandedUpl) /\ Cardinality(StrandedUpl) \in Nat
<1>1. /\ Len(conv) \in Nat /\ DOMAIN conv = 1 .. Len(conv)
      /\ Len(upl) \in Nat /\ DOMAIN upl = 1 .. Len(upl)
  BY LenProperties DEF SoloInv, TypeInv, TypeOK
<1>2. IsFiniteSet(DOMAIN conv) /\ IsFiniteSet(DOMAIN upl)
  BY <1>1, FS_Interval
<1>3. IsFiniteSet(StrandedConv) /\ IsFiniteSet(StrandedUpl)
  BY <1>2, FS_Subset DEF StrandedConv, StrandedUpl
<1> QED
  BY <1>3, FS_CardinalityType

LEMMA StrandedStep ==
  ASSUME SoleDriver, SoloInv, SoloInv', StrandedByFault, [Next]_vars
  PROVE  StrandedByFault'
<1> DEFINE nc == Cardinality(StrandedConv)
           nu == Cardinality(StrandedUpl)
<1>1. /\ IsFiniteSet(StrandedConv) /\ nc \in Nat
      /\ IsFiniteSet(StrandedUpl) /\ nu \in Nat /\ faults \in Nat
  BY StrandedAreFinite DEF SoloInv, TypeInv, TypeOK
<1>2. nc' \in Nat /\ nu' \in Nat
  <2>1. (nc \in Nat /\ nu \in Nat)'
    BY StrandedAreFinite, PTL
  <2> QED
    BY <2>1
<1>3. /\ StrandedConv' \subseteq StrandedConv => nc' <= nc
      /\ \A x : StrandedConv' \subseteq StrandedConv \cup {x} => nc' <= nc + 1
      /\ StrandedUpl' \subseteq StrandedUpl => nu' <= nu
      /\ \A x : StrandedUpl' \subseteq StrandedUpl \cup {x} => nu' <= nu + 1
  BY <1>1, FewerOrOneMore
<1>4. nc + nu <= faults
  BY DEF StrandedByFault
<1>5. nc' + nu' <= faults'
  <2> HIDE DEF nc, nu
  <2> QED
    BY <1>1, <1>2, <1>3, <1>4, StrandsAtMostOne
<1> QED
  BY <1>5 DEF StrandedByFault

(* With a single driver, a job that shows as running while nobody works on *)
(* it was left so by a failed store call or a crash, and each of those     *)
(* leaves at most one behind, in the two tables together.                  *)
THEOREM SoloStrandedByFault ==
  ASSUME SoleDriver
  PROVE  Spec => []StrandedByFault
<1>1. SoloInv /\ [Next]_vars => SoloInv'
  BY SoloStep
<1>2. SoloInv /\ SoloInv' /\ StrandedByFault /\ [Next]_vars => StrandedByFault'
  BY StrandedStep
<1>3. Init => StrandedByFault
  <2> SUFFICES ASSUME Init PROVE StrandedByFault
    OBVIOUS
  <2>1. StrandedConv = {} /\ StrandedUpl = {} /\ faults = 0
    BY DEF Init, StrandedConv, StrandedUpl
  <2> QED
    BY <2>1, FS_EmptySet DEF StrandedByFault
<1> QED
  BY <1>1, <1>2, <1>3, SoloInit, PTL DEF Spec
=============================================================================
