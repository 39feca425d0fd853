---------------------------- MODULE HandoverProofs ----------------------------
(***************************************************************************)
(* What is handed from one part of the pipeline to the next is really      *)
(* there: a queued conversion has its completed, recorded download, a      *)
(* queued upload a file that an attempted conversion wrote, a link an      *)
(* object.  For any drivers, torrents, naming of outputs, faults, crashes  *)
(* and operator; nothing is supposed of the interleaving.                  *)
(***************************************************************************)
EXTENDS SoloProofs

-----------------------------------------------------------------------------
(* What a step may do to the data that drivers hand on.                    *)

(* Torrents stay completed and downloads recorded.                         *)
LEMMA DownloadsGrow ==
  ASSUME TypeInv, [Next]_vars
  PROVE  downloads \subseteq downloads' /\ Completed \subseteq Completed'
<1> USE DEF world, Completed
<1>1. torrent \in [Torrents -> {"downloading", "paused", "completed"}]
  BY DEF TypeInv, TypeOK
<1>2. ASSUME NEW d \in Drivers, Step(d)
      PROVE  downloads \subseteq downloads' /\ Completed \subseteq Completed'
  <2>1. CASE SyncPauseAll(d)
    BY <1>1, <2>1 DEF SyncPauseAll, PausedAll, tables
  <2>2. CASE SyncRecord(d)
    BY <2>2 DEF SyncRecord
  <2> QED
    BY <1>2, <2>1, <2>2
    DEF Step, Sync, SyncStatus, SyncList, SyncDone, SyncEnqueue,
        Convert, ConvNext, ConvMark, ConvStart, ConvFinish, ConvFailed,
        ConvDone, ConvEnqueueUpload,
        Upload, UplStatus, UplNext, UplMark, UplPut, UplFailed, UplDone, tables
<1>3. CASE Operator
  BY <1>1, <1>3
  DEF Operator, PauseConversionJob, ResumeConversionJob, PauseUploadJob,
      ResumeUploadJob, PauseTorrent, ResumeTorrent, tables
<1>4. CASE Environment
  BY <1>1, <1>4
  DEF Environment, TorrentCompletes, VPNChanges, Midnight, ClockTicks,
      ConvBackoffElapses, UplBackoffElapses, Crash, tables
<1>5. CASE UNCHANGED vars
  BY <1>5 DEF vars, tables
<1> QED
  BY <1>2, <1>3, <1>4, <1>5 DEF Next

(* A row keeps its key, and once attempted it stays so.                    *)
RowsKept(tab, new) ==
  \A i \in DOMAIN tab :
    /\ i \in DOMAIN new /\ new[i].key = tab[i].key
    /\ tab[i].attempts > 0 => new[i].attempts > 0

LEMMA SameRows == \A tab : RowsKept(tab, tab)
BY DEF RowsKept

LEMMA UpdatedRows ==
  ASSUME NEW K, NEW tab \in Seq(Row(K)), NEW new, NEW id \in DOMAIN tab,
         Updates(K, tab, new, id),
         new[id].attempts = tab[id].attempts \/ new[id].attempts > 0
  PROVE  RowsKept(tab, new) /\ DOMAIN new = DOMAIN tab
BY DEF Updates, RowsKept

LEMMA InsertedRows ==
  ASSUME NEW K, NEW tab \in Seq(Row(K)), NEW k \in K
  PROVE  /\ RowsKept(tab, InsertIgnore(tab, k))
         /\ \A i \in DOMAIN tab : InsertIgnore(tab, k)[i] = tab[i]
         /\ \A i \in DOMAIN InsertIgnore(tab, k) \ DOMAIN tab :
              /\ InsertIgnore(tab, k)[i].key = k
              /\ InsertIgnore(tab, k)[i].status = "queued"
<1>1. NewRow(k).key = k /\ NewRow(k).status = "queued"
  BY DEF NewRow
<1> QED
  BY <1>1, InsertIgnoreInserts DEF RowsKept

(* New conversions come from SyncEnqueue, finished ones from ConvDone.     *)
ConvGrows ==
  /\ RowsKept(conv, conv')
  /\ \A i \in DOMAIN conv' \ DOMAIN conv :
       /\ conv'[i].status = "queued"
       /\ \E d \in Drivers : pc[d] = "EnqueueConversion" /\ conv'[i].key = cur[d]
  /\ \A i \in DOMAIN conv :
       \/ conv'[i].status = "done" => conv[i].status = "done"
       \/ \E d \in Drivers : /\ pc[d] = "MarkConversionDone" /\ i = job[d]
                            /\ pc'[d] = "EnqueueUpload" /\ job'[d] = i

LEMMA ConvChanges ==
  ASSUME TypeInv, [Next]_vars
  PROVE  ConvGrows
<1>1. DataTypes /\ LocalTypes /\ Handles
  BY TypeParts
<1>2. conv \in Seq(Row(Torrents))
  BY <1>1 DEF DataTypes
<1>3. UNCHANGED conv => ConvGrows
  BY SameRows DEF ConvGrows
<1>4. ASSUME NEW id \in DOMAIN conv, Updates(Torrents, conv, conv', id),
             conv'[id].attempts = conv[id].attempts \/ conv'[id].attempts > 0,
             conv'[id].status = "done" => conv[id].status = "done"
      PROVE  ConvGrows
  BY <1>2, <1>4, UpdatedRows DEF ConvGrows, Updates
<1>5. ASSUME NEW d \in Drivers, Step(d)
      PROVE  ConvGrows
  <2>1. pc[d] \in ConvPCs =>
          job[d] \in DOMAIN conv /\ att[d] \in Nat /\ att[d] > 0
    BY <1>1 DEF Handles, LocalTypes
  <2>2. CASE SyncEnqueue(d)
    <3>1. pc[d] = "EnqueueConversion" /\ cur[d] \in Torrents
      BY <1>1, <2>2 DEF SyncEnqueue, At, Handles
    <3>2. conv' = InsertIgnore(conv, cur[d]) \/ UNCHANGED conv
      BY <2>2 DEF SyncEnqueue
    <3> QED
      BY <1>2, <1>3, <3>1, <3>2, InsertedRows DEF ConvGrows
  <2>3. CASE ConvMark(d)
    <3>1. job[d] \in DOMAIN conv /\ att[d] \in Nat /\ att[d] > 0
      BY <2>1, <2>3 DEF ConvMark, At, ConvPCs
    <3> QED
      BY <1>2, <1>3, <1>4, <2>3, <3>1, MarkRunningUpdates DEF ConvMark
  <2>4. CASE ConvFailed(d)
    <3>1. job[d] \in DOMAIN conv /\ Requeue(att[d]) \in BOOLEAN
      BY <2>1, <2>4 DEF ConvFailed, At, ConvPCs, Requeue
    <3> QED
      BY <1>2, <1>3, <1>4, <2>4, <3>1, MarkFailedUpdates DEF ConvFailed
  <2>5. CASE ConvDone(d)
    <3>1. pc[d] = "MarkConversionDone" /\ job[d] \in DOMAIN conv
      BY <2>1, <2>5 DEF ConvDone, At, ConvPCs
    <3>2. CASE /\ conv' = MarkDone(conv, job[d])
               /\ Goto(d, "EnqueueUpload") /\ UNCHANGED locals
      <4>1. /\ Updates(Torrents, conv, conv', job[d])
            /\ conv'[job[d]].attempts = conv[job[d]].attempts
        BY <1>2, <3>1, <3>2, MarkDoneUpdates
      <4>2. RowsKept(conv, conv') /\ DOMAIN conv' = DOMAIN conv
        BY <1>2, <3>1, <4>1, UpdatedRows
      <4>3. pc'[d] = "EnqueueUpload" /\ job'[d] = job[d]
        BY <1>1, <3>2 DEF Goto, LocalTypes, locals
      <4> QED
        BY <3>1, <4>1, <4>2, <4>3 DEF ConvGrows, Updates
    <3> QED
      BY <1>3, <2>5, <3>2 DEF ConvDone
  <2> QED
    BY <1>3, <1>5, <2>2, <2>3, <2>4, <2>5
    DEF Step, Sync, SyncStatus, SyncPauseAll, SyncList, SyncDone, SyncRecord,
        Convert, ConvNext, ConvStart, ConvFinish, ConvEnqueueUpload,
        Upload, UplStatus, UplNext, UplMark, UplPut, UplFailed, UplDone, tables
<1>6. CASE Operator
  <2>1. ASSUME NEW id \in DOMAIN conv, PauseConversionJob(id)
        PROVE  ConvGrows
    BY <1>2, <1>4, <2>1, PauseUpdates DEF PauseConversionJob
  <2>2. ASSUME NEW id \in DOMAIN conv, ResumeConversionJob(id)
        PROVE  ConvGrows
    BY <1>2, <1>4, <2>2, ResumeUpdates DEF ResumeConversionJob
  <2> QED
    BY <1>3, <1>6, <2>1, <2>2
    DEF Operator, PauseUploadJob, ResumeUploadJob, PauseTorrent, ResumeTorrent,
        tables
<1>7. CASE Environment
  <2>1. ASSUME NEW id \in DOMAIN conv, ConvBackoffElapses(id)
        PROVE  ConvGrows
    BY <1>2, <1>4, <2>1, BackoffUpdates DEF ConvBackoffElapses
  <2> QED
    BY <1>3, <1>7, <2>1
    DEF Environment, TorrentCompletes, VPNChanges, Midnight, ClockTicks,
        UplBackoffElapses, Crash, tables
<1>8. CASE UNCHANGED vars
  BY <1>3, <1>8 DEF vars, tables
<1> QED
  BY <1>5, <1>6, <1>7, <1>8 DEF Next

(* New uploads come from ConvEnqueueUpload, new links and finished uploads *)
(* from UplDone.                                                           *)
UplGrows ==
  /\ RowsKept(upl, upl')
  /\ \A i \in DOMAIN upl' \ DOMAIN upl :
       /\ upl'[i].status = "queued"
       /\ \E d \in Drivers : /\ pc[d] = "EnqueueUpload" /\ pc'[d] # pc[d]
                            /\ upl'[i].key = <<Target(d), today>>
  /\ links \subseteq links'
  /\ \A i \in DOMAIN upl :
       upl'[i].status = "done" => upl[i].status = "done" \/ upl[i].key \in links'
  /\ \A k \in links' \ links :
       /\ \E d \in Drivers : pc[d] = "MarkUploadDone" /\ k = upl[job[d]].key
       /\ UNCHANGED bucket

LEMMA UplChanges ==
  ASSUME TypeInv, [Next]_vars
  PROVE  UplGrows
<1>1. DataTypes /\ LocalTypes /\ Handles
  BY TypeParts
<1>2. upl \in Seq(Row(UploadKeys))
  BY <1>1 DEF DataTypes
<1>3. UNCHANGED <<upl, links>> => UplGrows
  BY SameRows DEF UplGrows
<1>4. ASSUME NEW id \in DOMAIN upl, Updates(UploadKeys, upl, upl', id),
             upl'[id].attempts = upl[id].attempts \/ upl'[id].attempts > 0,
             upl'[id].status = "done" => upl[id].status = "done",
             UNCHANGED links
      PROVE  UplGrows
  <2>1. RowsKept(upl, upl') /\ DOMAIN upl' = DOMAIN upl
    BY <1>2, <1>4, UpdatedRows
  <2>2. \A i \in DOMAIN upl : upl'[i].status = "done" => upl[i].status = "done"
    BY <1>4 DEF Updates
  <2> QED
    BY <1>4, <2>1, <2>2 DEF UplGrows
<1>5. ASSUME NEW d \in Drivers, Step(d)
      PROVE  UplGrows
  <2>1. pc[d] \in UplPCs =>
          job[d] \in DOMAIN upl /\ att[d] \in Nat /\ att[d] > 0
    BY <1>1 DEF Handles, LocalTypes
  <2>2. CASE ConvEnqueueUpload(d)
    <3>1. pc[d] = "EnqueueUpload" /\ Target(d) \in Outputs
      BY <2>2, HandlesAreTyped DEF ConvEnqueueUpload, At, ConvPCs
    <3>2. <<Target(d), today>> \in UploadKeys
      BY <1>1, <3>1 DEF DataTypes, UploadKeys
    <3>3. upl' = InsertIgnore(upl, <<Target(d), today>>) \/ UNCHANGED upl
      BY <2>2 DEF ConvEnqueueUpload
    <3>4. links' = links
      BY <2>2 DEF ConvEnqueueUpload
    <3>5. CASE upl' = InsertIgnore(upl, <<Target(d), today>>)
      <4>1. /\ RowsKept(upl, upl')
            /\ \A i \in DOMAIN upl' \ DOMAIN upl :
                 /\ upl'[i].key = <<Target(d), today>>
                 /\ upl'[i].status = "queued"
        BY <1>2, <3>2, <3>5, InsertedRows
      <4>2. \A i \in DOMAIN upl : upl'[i] = upl[i]
        BY <1>2, <3>2, <3>5, InsertIgnoreInserts
      <4>3. pc'[d] = "VPNStatus" \/ pc'[d] = "idle"
        BY <1>1, <2>2 DEF ConvEnqueueUpload, Goto, EndCycle, LocalTypes
      <4> QED
        BY <3>1, <3>4, <4>1, <4>2, <4>3 DEF UplGrows
    <3> QED
      BY <1>3, <3>3, <3>4, <3>5
  <2>3. CASE UplMark(d)
    <3>1. job[d] \in DOMAIN upl /\ att[d] \in Nat /\ att[d] > 0
      BY <2>1, <2>3 DEF UplMark, At, UplPCs
    <3>2. links' = links
      BY <2>3 DEF UplMark
    <3> QED
      BY <1>2, <1>3, <1>4, <2>3, <3>1, <3>2, MarkRunningUpdates DEF UplMark
  <2>4. CASE UplFailed(d)
    <3>1. job[d] \in DOMAIN upl /\ Requeue(att[d]) \in BOOLEAN
      BY <2>1, <2>4 DEF UplFailed, At, UplPCs, Requeue
    <3>2. links' = links
      BY <2>4 DEF UplFailed
    <3>3. CASE upl' = MarkFailed(upl, job[d], Requeue(att[d]))
      <4>1. /\ Updates(UploadKeys, upl, upl', job[d])
            /\ upl'[job[d]].status # "done"
            /\ upl'[job[d]].attempts = upl[job[d]].attempts
        BY <1>2, <3>1, <3>3, MarkFailedUpdates
      <4> QED
        BY <1>4, <3>1, <3>2, <4>1
    <3> QED
      BY <1>3, <2>4, <3>2, <3>3 DEF UplFailed
  <2>5. CASE UplDone(d)
    <3>1. pc[d] = "MarkUploadDone" /\ job[d] \in DOMAIN upl
      BY <2>1, <2>5 DEF UplDone, At, UplPCs
    <3>2. bucket' = bucket
      BY <2>5 DEF UplDone, files
    <3>3. CASE /\ upl' = MarkDone(upl, job[d])
               /\ links' = links \cup {upl[job[d]].key}
      <4>1. /\ Updates(UploadKeys, upl, upl', job[d])
            /\ upl'[job[d]].attempts = upl[job[d]].attempts
        BY <1>2, <3>1, <3>3, MarkDoneUpdates
      <4>2. RowsKept(upl, upl') /\ DOMAIN upl' = DOMAIN upl
        BY <1>2, <3>1, <4>1, UpdatedRows
      <4>3. \A i \in DOMAIN upl : i # job[d] => upl'[i] = upl[i]
        BY <4>1 DEF Updates
      <4> QED
        BY <3>1, <3>2, <3>3, <4>2, <4>3 DEF UplGrows
    <3> QED
      BY <1>3, <2>5, <3>3 DEF UplDone
  <2> QED
    BY <1>3, <1>5, <2>2, <2>3, <2>4, <2>5
    DEF Step, Sync, SyncStatus, SyncPauseAll, SyncList, SyncDone, SyncRecord,
        SyncEnqueue, Convert, ConvNext, ConvMark, ConvStart, ConvFinish,
        ConvFailed, ConvDone, Upload, UplStatus, UplNext, UplPut, tables
<1>6. CASE Operator
  <2>1. ASSUME NEW id \in DOMAIN upl, PauseUploadJob(id)
        PROVE  UplGrows
    BY <1>2, <1>4, <2>1, PauseUpdates DEF PauseUploadJob
  <2>2. ASSUME NEW id \in DOMAIN upl, ResumeUploadJob(id)
        PROVE  UplGrows
    BY <1>2, <1>4, <2>2, ResumeUpdates DEF ResumeUploadJob
  <2> QED
    BY <1>3, <1>6, <2>1, <2>2
    DEF Operator, PauseConversionJob, ResumeConversionJob, PauseTorrent,
        ResumeTorrent, tables
<1>7. CASE Environment
  <2>1. ASSUME NEW id \in DOMAIN upl, UplBackoffElapses(id)
        PROVE  UplGrows
    BY <1>2, <1>4, <2>1, BackoffUpdates DEF UplBackoffElapses
  <2> QED
    BY <1>3, <1>7, <2>1
    DEF Environment, TorrentCompletes, VPNChanges, Midnight, ClockTicks,
        ConvBackoffElapses, Crash, tables
<1>8. CASE UNCHANGED vars
  BY <1>3, <1>8 DEF vars, tables
<1> QED
  BY <1>5, <1>6, <1>7, <1>8 DEF Next

(* A file that was written is never missing again; a file changes only by  *)
(* its conversion, and an object only by the upload of its file.           *)
FilesGrow ==
  /\ \/ UNCHANGED content
     \/ \E d \in Drivers :
          /\ pc[d] \in {"Convert", "Converting"} /\ pc'[d] # pc[d] /\ Step(d)
          /\ \A o \in Outputs \ {Target(d)} : content'[o] = content[o]
  /\ \A o \in Outputs : content[o] # None => content'[o] # None
  /\ \A k \in UploadKeys :
       \/ bucket'[k] = bucket[k]
       \/ /\ \E d \in Drivers : pc[d] = "Upload" /\ k = upl[job[d]].key
          /\ bucket'[k] = content[k[1]]

(* What conversions write is never the absence of a file.                  *)
LEMMA WritesSomething == None # Partial /\ None # Mixed /\ None \notin Torrents
BY NameAssumption DEF None, Partial, Mixed

LEMMA FileChanges ==
  ASSUME TypeInv, [Next]_vars
  PROVE  FilesGrow
<1>1. DataTypes /\ LocalTypes /\ Handles
  BY TypeParts
<1>2. content \in [Outputs -> Contents] /\ bucket \in [UploadKeys -> Contents]
  BY <1>1 DEF DataTypes
<1>3. UNCHANGED files => FilesGrow
  BY DEF FilesGrow, files
<1>4. ASSUME NEW d \in Drivers, Step(d)
      PROVE  FilesGrow
  <2>1. pc[d] \in ConvPCs => Input(d) \in Torrents /\ Target(d) \in Outputs
    BY HandlesAreTyped
  <2>2. CASE ConvStart(d)
    <3>1. pc[d] \in ConvPCs
      BY <2>2 DEF ConvStart, At, ConvPCs
    <3>2. bucket' = bucket /\ pc[d] = "Convert" /\ pc'[d] # pc[d]
      BY <1>1, <2>2 DEF ConvStart, At, Goto, LocalTypes
    <3>3. \/ content' = content
          \/ content' = [content EXCEPT ![Target(d)] = Mixed]
          \/ content' = [content EXCEPT ![Target(d)] = Partial]
      BY <2>2 DEF ConvStart
    <3> QED
      BY <1>2, <1>4, <3>2, <3>3, WritesSomething DEF FilesGrow
  <2>3. CASE ConvFinish(d)
    <3>1. pc[d] \in ConvPCs
      BY <2>3 DEF ConvFinish, At, ConvPCs
    <3>2. bucket' = bucket /\ pc[d] = "Converting" /\ pc'[d] # pc[d]
      BY <1>1, <2>3 DEF ConvFinish, At, Goto, LocalTypes
    <3>3. \/ content' = content
          \/ content' = [content EXCEPT ![Target(d)] = Mixed]
          \/ content' = [content EXCEPT ![Target(d)] = Input(d)]
      BY <2>3 DEF ConvFinish
    <3> QED
      BY <1>2, <1>4, <2>1, <3>1, <3>2, <3>3, WritesSomething DEF FilesGrow
  <2>4. CASE UplPut(d)
    <3>1. pc[d] = "Upload" /\ content' = content
      BY <2>4 DEF UplPut, At
    <3>2. \/ bucket' = bucket
          \/ bucket' = [bucket EXCEPT ![upl[job[d]].key] =
                                        content[upl[job[d]].key[1]]]
      BY <2>4 DEF UplPut
    <3> QED
      BY <1>2, <3>1, <3>2 DEF FilesGrow
  <2> QED
    BY <1>3, <1>4, <2>2, <2>3, <2>4
    DEF Step, Sync, SyncStatus, SyncPauseAll, SyncList, SyncDone, SyncRecord,
        SyncEnqueue, Convert, ConvNext, ConvMark, ConvFailed, ConvDone,
        ConvEnqueueUpload, Upload, UplStatus, UplNext, UplMark, UplFailed,
        UplDone, files
<1>5. CASE Operator
  BY <1>3, <1>5
  DEF Operator, PauseConversionJob, ResumeConversionJob, PauseUploadJob,
      ResumeUploadJob, PauseTorrent, ResumeTorrent, files
<1>6. CASE Environment
  BY <1>3, <1>6
  DEF Environment, TorrentCompletes, VPNChanges, Midnight, ClockTicks,
      ConvBackoffElapses, UplBackoffElapses, Crash, files
<1>7. CASE UNCHANGED vars
  BY <1>3, <1>7 DEF vars
<1> QED
  BY <1>4, <1>5, <1>6, <1>7 DEF Next

-----------------------------------------------------------------------------
(* What a step may do to a driver.                                         *)

Stops(e) == pc'[e] = "idle" /\ todo'[e] = {}

LEMMA OthersStay ==
  ASSUME TypeInv, NEW d \in Drivers, Step(d), NEW e \in Drivers, e # d
  PROVE  Same(e)
<1>1. LocalTypes
  BY TypeParts
<1> USE DEF Same, LocalTypes, Goto, EndCycle, EndSync, Take, SyncFails, locals
<1>2. CASE Sync(d)
  BY <1>1, <1>2
  DEF Sync, SyncStatus, SyncPauseAll, SyncList, SyncDone, SyncRecord,
      SyncEnqueue
<1>3. CASE Convert(d)
  BY <1>1, <1>3
  DEF Convert, ConvNext, ConvMark, ConvStart, ConvFinish, ConvFailed,
      ConvDone, ConvEnqueueUpload
<1>4. CASE Upload(d)
  BY <1>1, <1>4
  DEF Upload, UplStatus, UplNext, UplMark, UplPut, UplFailed, UplDone
<1> QED
  BY <1>2, <1>3, <1>4 DEF Step

LEMMA DriverChanges ==
  ASSUME TypeInv, [Next]_vars, NEW e \in Drivers
  PROVE  Same(e) \/ Stops(e) \/ Step(e)
<1>1. UNCHANGED <<pc, locals>> => Same(e)
  BY DEF Same, locals
<1>2. ASSUME NEW d \in Drivers, Step(d)
      PROVE  Same(e) \/ Step(e)
  BY <1>2, OthersStay
<1>3. CASE Operator
  BY <1>1, <1>3
  DEF Operator, PauseConversionJob, ResumeConversionJob, PauseUploadJob,
      ResumeUploadJob, PauseTorrent, ResumeTorrent
<1>4. ASSUME NEW dead \in SUBSET Drivers, Crash(dead)
      PROVE  Same(e) \/ Stops(e)
  BY <1>4 DEF Crash, Same, Stops
<1>5. CASE Environment
  BY <1>1, <1>4, <1>5
  DEF Environment, TorrentCompletes, VPNChanges, Midnight, ClockTicks,
      ConvBackoffElapses, UplBackoffElapses
<1>6. CASE UNCHANGED vars
  BY <1>1, <1>6 DEF vars
<1> QED
  BY <1>2, <1>3, <1>5, <1>6 DEF Next

-----------------------------------------------------------------------------
(* From the downloads to the conversions.                                  *)

(* The torrents a driver has listed or holds are complete, and the one it  *)
(* holds is recorded.                                                      *)
Lists(d) ==
  /\ todo[d] \subseteq Completed
  /\ pc[d] = "EnqueueConversion" => cur[d] \in downloads \cap Completed

LEMMA SyncFlow ==
  ASSUME TypeInv, NEW d \in Drivers, Step(d)
  PROVE  /\ todo'[d] \subseteq todo[d] \cup Completed
         /\ pc'[d] = "EnqueueConversion" =>
              cur'[d] \in todo[d] /\ cur'[d] \in downloads'
<1>1. LocalTypes
  BY TypeParts
<1> USE DEF LocalTypes, Goto, EndCycle, EndSync, Take, SyncFails, locals
<1>2. CASE SyncRecord(d)
  BY <1>1, <1>2 DEF SyncRecord
<1>3. CASE Sync(d) /\ ~ SyncRecord(d)
  BY <1>1, <1>3
  DEF Sync, SyncStatus, SyncPauseAll, SyncList, SyncDone, SyncEnqueue
<1>4. CASE Convert(d)
  BY <1>1, <1>4
  DEF Convert, ConvNext, ConvMark, ConvStart, ConvFinish, ConvFailed,
      ConvDone, ConvEnqueueUpload
<1>5. CASE Upload(d)
  BY <1>1, <1>5
  DEF Upload, UplStatus, UplNext, UplMark, UplPut, UplFailed, UplDone
<1> QED
  BY <1>2, <1>3, <1>4, <1>5 DEF Step

(* A conversion is queued only for a download that was complete and has    *)
(* its row, wherever a sync is cut short and whoever else is syncing.      *)
THEOREM QueuedWasRecorded == Spec => []QueuedIsRecorded
<1> DEFINE Listed == QueuedIsRecorded /\ \A d \in Drivers : Lists(d)
<1>1. Init => Listed
  BY DEF Init, QueuedIsRecorded, Lists
<1>2. TypeInv /\ Listed /\ [Next]_vars => Listed'
  <2> SUFFICES ASSUME TypeInv, Listed, [Next]_vars
               PROVE  Listed'
    OBVIOUS
  <2>1. downloads \subseteq downloads' /\ Completed \subseteq Completed'
    BY DownloadsGrow
  <2>2. ASSUME NEW d \in Drivers
        PROVE  Lists(d)'
    <3>1. CASE Same(d)
      BY <2>1, <3>1 DEF Lists, Same
    <3>2. CASE Stops(d)
      BY <3>2 DEF Lists, Stops
    <3>3. CASE Step(d)
      BY <2>1, <3>3, SyncFlow DEF Lists
    <3> QED
      BY <3>1, <3>2, <3>3, DriverChanges
  <2>3. QueuedIsRecorded'
    <3> SUFFICES ASSUME NEW i \in DOMAIN conv'
                 PROVE  conv'[i].key \in downloads' \cap Completed'
      BY DEF QueuedIsRecorded, Completed
    <3>1. CASE i \in DOMAIN conv
      <4>1. conv'[i].key = conv[i].key /\ conv[i].key \in downloads
        BY <3>1, ConvChanges DEF ConvGrows, RowsKept, QueuedIsRecorded
      <4>2. conv[i].key \in Completed
        <5>1. conv[i].key \in Torrents
          BY <3>1, RowOf DEF TypeInv, TypeOK
        <5> QED
          BY <3>1, <5>1 DEF QueuedIsRecorded, Completed
      <4> QED
        BY <2>1, <4>1, <4>2
    <3>2. CASE i \notin DOMAIN conv
      <4>1. PICK d \in Drivers :
              pc[d] = "EnqueueConversion" /\ conv'[i].key = cur[d]
        BY <3>2, ConvChanges DEF ConvGrows
      <4> QED
        BY <2>1, <4>1 DEF Lists
    <3> QED
      BY <3>1, <3>2
  <2> QED
    BY <2>2, <2>3
<1>3. Listed => QueuedIsRecorded
  OBVIOUS
<1> HIDE DEF Listed
<1> QED
  BY <1>1, <1>2, <1>3, TypeInit, TypeStep, PTL DEF Spec

-----------------------------------------------------------------------------
(* From the conversions to the uploads.                                    *)

Started == ConvPCs \ {"MarkConversionRunning"}
Written == {"Converting", "MarkConversionDone", "EnqueueUpload"}

(* Behind MarkRunning the row is attempted, and once Convert has opened    *)
(* its output the file exists, whatever other drivers do to either.        *)
Converts(d) ==
  /\ pc[d] \in Started => conv[job[d]].attempts > 0
  /\ pc[d] \in Written => content[Target(d)] # None

LEMMA ConvertFlow ==
  ASSUME TypeInv, NEW d \in Drivers, Step(d)
  PROVE  /\ pc'[d] \in Started =>
              /\ pc[d] \in ConvPCs /\ job'[d] = job[d]
              /\ pc[d] \in Started \/ conv'[job[d]].attempts > 0
         /\ pc'[d] \in Written =>
              pc[d] \in Written \/ content'[Target(d)] # None
<1>1. DataTypes /\ LocalTypes /\ Handles
  BY TypeParts
<1>2. conv \in Seq(Row(Torrents)) /\ content \in [Outputs -> Contents]
  BY <1>1 DEF DataTypes
<1>3. pc[d] \in ConvPCs =>
        /\ job[d] \in DOMAIN conv /\ att[d] \in Nat /\ att[d] > 0
        /\ Target(d) \in Outputs
  BY <1>1, HandlesAreTyped DEF Handles, LocalTypes
<1> USE DEF LocalTypes, At, Goto, EndCycle, EndSync, Take, SyncFails, locals,
            ConvPCs, Started, Written
<1>4. CASE Sync(d)
  BY <1>1, <1>4
  DEF Sync, SyncStatus, SyncPauseAll, SyncList, SyncDone, SyncRecord,
      SyncEnqueue
<1>5. CASE Upload(d)
  BY <1>1, <1>5
  DEF Upload, UplStatus, UplNext, UplMark, UplPut, UplFailed, UplDone
<1>6. CASE ConvMark(d)
  <2>1. MarkRunning(conv, job[d], att[d])[job[d]].attempts = att[d]
    BY <1>2, <1>3, <1>6, MarkRunningUpdates DEF ConvMark
  <2> QED
    BY <1>1, <1>3, <1>6, <2>1 DEF ConvMark
<1>7. CASE ConvStart(d)
  <2>1. \/ pc' = [pc EXCEPT ![d] = "MarkConversionFailed"]
        \/ content' = [content EXCEPT ![Target(d)] = Mixed]
        \/ content' = [content EXCEPT ![Target(d)] = Partial]
    BY <1>7 DEF ConvStart
  <2>2. pc[d] = "Convert" /\ job' = job
    BY <1>7 DEF ConvStart
  <2> QED
    BY <1>1, <1>2, <1>3, <2>1, <2>2, WritesSomething
<1>8. CASE Convert(d) /\ ~ ConvMark(d) /\ ~ ConvStart(d)
  BY <1>1, <1>8
  DEF Convert, ConvNext, ConvFinish, ConvFailed, ConvDone, ConvEnqueueUpload
<1> QED
  BY <1>4, <1>5, <1>6, <1>7, <1>8 DEF Step

ConvertInv == UploadFollowsConversion /\ \A d \in Drivers : Converts(d)

LEMMA ConvertStep ==
  ASSUME TypeInv, ConvertInv, [Next]_vars
  PROVE  ConvertInv'
<1>1. DataTypes /\ LocalTypes /\ Handles
  BY TypeParts
<1>2. upl \in Seq(Row(UploadKeys))
  BY <1>1 DEF DataTypes
<1>3. RowsKept(conv, conv') /\ UplGrows /\ FilesGrow
  BY ConvChanges, UplChanges, FileChanges DEF ConvGrows
<1>4. ASSUME NEW d \in Drivers, pc[d] \in ConvPCs
      PROVE  /\ job[d] \in DOMAIN conv /\ Target(d) \in Outputs
             /\ conv'[job[d]].key = conv[job[d]].key
             /\ conv[job[d]].attempts > 0 => conv'[job[d]].attempts > 0
  BY <1>1, <1>3, <1>4, HandlesAreTyped DEF Handles, RowsKept
<1>5. ASSUME NEW d \in Drivers
      PROVE  Converts(d)'
  <2>1. Started \subseteq ConvPCs /\ Written \subseteq Started
    BY DEF Started, Written, ConvPCs
  <2>2. ASSUME pc[d] \in ConvPCs, job'[d] = job[d]
        PROVE  Target(d)' = Target(d)
    BY <1>4, <2>2 DEF Target, Input
  <2>3. CASE Same(d)
    BY <1>3, <1>4, <2>1, <2>2, <2>3 DEF ConvertInv, Converts, Same, FilesGrow
  <2>4. CASE Stops(d)
    BY <2>4 DEF Converts, Stops, Started, Written, ConvPCs
  <2>5. CASE Step(d)
    BY <1>3, <1>4, <2>1, <2>2, <2>5, ConvertFlow
    DEF ConvertInv, Converts, FilesGrow
  <2> QED
    BY <2>3, <2>4, <2>5, DriverChanges
<1>6. ASSUME NEW i \in DOMAIN upl'
      PROVE  /\ content'[upl'[i].key[1]] # None
             /\ \E j \in DOMAIN conv' : /\ OutputOf[conv'[j].key] = upl'[i].key[1]
                                        /\ conv'[j].attempts > 0
  <2>1. CASE i \in DOMAIN upl
    <3>1. upl'[i].key = upl[i].key /\ upl[i].key[1] \in Outputs
      BY <1>2, <1>3, <2>1, RowOf DEF UplGrows, RowsKept, UploadKeys
    <3>2. content[upl[i].key[1]] # None
      BY <2>1 DEF ConvertInv, UploadFollowsConversion
    <3>3. PICK j \in DOMAIN conv :
            OutputOf[conv[j].key] = upl[i].key[1] /\ conv[j].attempts > 0
      BY <2>1 DEF ConvertInv, UploadFollowsConversion
    <3> QED
      BY <1>3, <3>1, <3>2, <3>3 DEF FilesGrow, RowsKept
  <2>2. CASE i \notin DOMAIN upl
    <3>1. PICK d \in Drivers :
            pc[d] = "EnqueueUpload" /\ upl'[i].key = <<Target(d), today>>
      BY <1>3, <2>2 DEF UplGrows
    <3>2. pc[d] \in Started /\ pc[d] \in Written /\ pc[d] \in ConvPCs
      BY <3>1 DEF Started, Written, ConvPCs
    <3>3. content[Target(d)] # None /\ conv[job[d]].attempts > 0
      BY <3>2 DEF ConvertInv, Converts
    <3>4. job[d] \in DOMAIN conv' /\ OutputOf[conv'[job[d]].key] = Target(d)
      BY <1>3, <1>4, <3>2 DEF RowsKept, Target, Input
    <3> QED
      BY <1>3, <1>4, <3>1, <3>2, <3>3, <3>4 DEF FilesGrow
  <2> QED
    BY <2>1, <2>2
<1> QED
  BY <1>5, <1>6 DEF ConvertInv, UploadFollowsConversion

(* An upload is queued only for a file that an attempted conversion wrote. *)
THEOREM UploadsWereConverted == Spec => []UploadFollowsConversion
<1>1. Init => ConvertInv
  BY DEF Init, ConvertInv, UploadFollowsConversion, Converts, Started, Written,
         ConvPCs
<1>2. ConvertInv => UploadFollowsConversion
  BY DEF ConvertInv
<1> QED
  BY <1>1, <1>2, ConvertStep, TypeInit, TypeStep, PTL DEF Spec

-----------------------------------------------------------------------------
(* From the uploads to the links.                                          *)

(* A driver about to record an upload has stored the object.               *)
Stores(d) == pc[d] = "MarkUploadDone" => bucket[upl[job[d]].key] # None

LEMMA UploadFlow ==
  ASSUME TypeInv, NEW d \in Drivers, Step(d), pc'[d] = "MarkUploadDone"
  PROVE  /\ pc[d] = "Upload" /\ job'[d] = job[d] /\ upl' = upl
         /\ bucket' = [bucket EXCEPT ![upl[job[d]].key] =
                                       content[upl[job[d]].key[1]]]
<1>1. LocalTypes
  BY TypeParts
<1> USE DEF LocalTypes, At, Goto, EndCycle, EndSync, Take, SyncFails, locals
<1>2. CASE Sync(d)
  BY <1>1, <1>2
  DEF Sync, SyncStatus, SyncPauseAll, SyncList, SyncDone, SyncRecord,
      SyncEnqueue
<1>3. CASE Convert(d)
  BY <1>1, <1>3
  DEF Convert, ConvNext, ConvMark, ConvStart, ConvFinish, ConvFailed,
      ConvDone, ConvEnqueueUpload
<1>4. CASE UplPut(d)
  BY <1>1, <1>4 DEF UplPut, tables
<1>5. CASE Upload(d) /\ ~ UplPut(d)
  BY <1>1, <1>5 DEF Upload, UplStatus, UplNext, UplMark, UplFailed, UplDone
<1> QED
  BY <1>2, <1>3, <1>4, <1>5 DEF Step

LinkInv == LinkIsBacked /\ \A d \in Drivers : Stores(d)

LEMMA LinkStep ==
  ASSUME TypeInv, UploadFollowsConversion, LinkInv, [Next]_vars
  PROVE  LinkInv'
<1>1. DataTypes /\ LocalTypes /\ Handles
  BY TypeParts
<1>2. /\ upl \in Seq(Row(UploadKeys)) /\ links \subseteq UploadKeys
      /\ bucket \in [UploadKeys -> Contents]
  BY <1>1 DEF DataTypes
<1>3. UplGrows /\ FilesGrow
  BY UplChanges, FileChanges
<1>4. ASSUME NEW d \in Drivers, pc[d] \in UplPCs
      PROVE  /\ job[d] \in DOMAIN upl /\ upl[job[d]].key \in UploadKeys
             /\ upl'[job[d]].key = upl[job[d]].key
             /\ content[upl[job[d]].key[1]] # None
  <2>1. job[d] \in DOMAIN upl
    BY <1>1, <1>4 DEF Handles
  <2> QED
    BY <1>3, <1>4, <2>1, HandlesAreTyped
    DEF UplGrows, RowsKept, UploadFollowsConversion
<1>5. "Upload" \in UplPCs /\ "MarkUploadDone" \in UplPCs
  BY DEF UplPCs
<1>6. ASSUME NEW k \in UploadKeys, bucket[k] # None
      PROVE  bucket'[k] # None
  BY <1>3, <1>4, <1>5, <1>6 DEF FilesGrow
<1>7. ASSUME NEW d \in Drivers
      PROVE  Stores(d)'
  <2>1. CASE Same(d)
    BY <1>4, <1>5, <1>6, <2>1 DEF LinkInv, Stores, Same
  <2>2. CASE Stops(d)
    BY <2>2 DEF Stores, Stops
  <2>3. CASE Step(d)
    <3> SUFFICES ASSUME pc'[d] = "MarkUploadDone"
                 PROVE  bucket'[upl'[job'[d]].key] # None
      BY DEF Stores
    <3>1. /\ pc[d] = "Upload" /\ job'[d] = job[d] /\ upl' = upl
          /\ bucket' = [bucket EXCEPT ![upl[job[d]].key] =
                                        content[upl[job[d]].key[1]]]
      BY <2>3, UploadFlow
    <3> QED
      BY <1>2, <1>4, <1>5, <3>1
  <2> QED
    BY <2>1, <2>2, <2>3, DriverChanges
<1>8. ASSUME NEW i \in DOMAIN upl', upl'[i].status = "done"
      PROVE  upl'[i].key \in links'
  BY <1>3, <1>8 DEF UplGrows, RowsKept, LinkInv, LinkIsBacked
<1>9. ASSUME NEW k \in links'
      PROVE  bucket'[k] # None /\ HasKey(upl, k)
  <2>1. CASE k \in links
    BY <1>2, <1>6, <2>1 DEF LinkInv, LinkIsBacked
  <2>2. CASE k \notin links
    <3>1. PICK d \in Drivers : pc[d] = "MarkUploadDone" /\ k = upl[job[d]].key
      BY <1>3, <2>2 DEF UplGrows
    <3> QED
      BY <1>4, <1>5, <1>6, <3>1 DEF LinkInv, Stores, HasKey
  <2> QED
    BY <2>1, <2>2
<1>10. \A k : HasKey(upl, k) => HasKey(upl', k)
  BY <1>3 DEF UplGrows, RowsKept, HasKey
<1> QED
  BY <1>7, <1>8, <1>9, <1>10 DEF LinkInv, LinkIsBacked

(* A finished upload has its link, and a link names an object that was     *)
(* stored for a known upload, although several drivers may run the same    *)
(* upload and replies may be lost.                                         *)
THEOREM LinksAreBacked == Spec => []LinkIsBacked
<1>1. Init => LinkInv
  BY DEF Init, LinkInv, LinkIsBacked, Stores
<1>2. LinkInv => LinkIsBacked
  BY DEF LinkInv
<1> QED
  BY <1>1, <1>2, LinkStep, UploadsWereConverted, TypeInit, TypeStep, PTL
  DEF Spec

-----------------------------------------------------------------------------
(* A single driver: what is published is whole, unless another torrent's   *)
(* conversion has opened the same file, and each finished conversion       *)
(* queues one upload.                                                      *)

Shared == {o \in Outputs : Contested(o)}

(* A whole video of the file's name, or a part of one in a shared file.    *)
Sound(shared, video, file) ==
  Whole(video, file) \/ (file \in shared /\ video = Partial)

LinkedIsSound == \A k \in links : Sound(Shared, bucket[k], k[1])
KeptOrShared ==
  \A i \in DOMAIN conv : conv[i].status = "done" =>
    LET file == OutputOf[conv[i].key] IN
    /\ Sound(Shared, content[file], file)
    /\ content[file] = conv[i].key \/ file \in Shared

(* A queued file has a finished conversion, and that had its attempt.      *)
QueuedIsConverted ==
  \A i \in DOMAIN upl :
    \E j \in DOMAIN conv : /\ conv[j].status = "done"
                          /\ OutputOf[conv[j].key] = upl[i].key[1]
DoneWasAttempted ==
  \A i \in DOMAIN conv : conv[i].status = "done" => conv[i].attempts > 0

(* What the driver knows of the file it makes and of the object it stored. *)
Makes(d) ==
  /\ pc[d] = "Converting" => content[Target(d)] = Partial
  /\ pc[d] = "MarkConversionDone" => content[Target(d)] = Input(d)
  /\ pc[d] = "MarkUploadDone" =>
       Sound(Shared, bucket[upl[job[d]].key], upl[job[d]].key[1])

WholeInv ==
  /\ QueuedIsConverted /\ DoneWasAttempted
  /\ LinkedIsSound /\ KeptOrShared
  /\ \A d \in Drivers : Makes(d)

(* A shared file remains shared.                                           *)
LEMMA SharedStays ==
  ASSUME RowsKept(conv, conv')
  PROVE  Shared \subseteq Shared'
<1>1. ASSUME NEW o \in Outputs, Contested(o)
      PROVE  Contested(o)'
  <2>1. PICK i, j \in DOMAIN conv :
          /\ i # j
          /\ OutputOf[conv[i].key] = o /\ conv[i].attempts > 0
          /\ OutputOf[conv[j].key] = o /\ conv[j].attempts > 0
    BY <1>1 DEF Contested
  <2> QED
    BY <2>1 DEF Contested, RowsKept
<1> QED
  BY <1>1 DEF Shared

(* The driver converts into the file of a finished conversion only when    *)
(* that file is shared: its own conversion is running, so another.      *)
LEMMA WritesShared ==
  ASSUME SoloInv, DoneWasAttempted,
         NEW d \in Drivers, pc[d] \in {"Convert", "Converting"},
         NEW i \in DOMAIN conv, conv[i].status = "done",
         Target(d) = OutputOf[conv[i].key]
  PROVE  Target(d) \in Shared
<1>1. /\ job[d] \in DOMAIN conv /\ att[d] > 0
      /\ conv[job[d]].status = "running" /\ conv[job[d]].attempts = att[d]
  BY DEF SoloInv, TypeInv, Handles, ConvPCs, Claims, ConvClaim, Held
<1>2. i # job[d] /\ conv[i].attempts > 0
  BY <1>1 DEF DoneWasAttempted
<1>3. Target(d) \in Outputs
  BY HandlesAreTyped DEF SoloInv, ConvPCs
<1> QED
  BY <1>1, <1>2, <1>3 DEF Shared, Contested, Target, Input

(* How a single driver makes its file.                                     *)
LEMMA MakeFlow ==
  ASSUME SoleDriver, SoloInv, NEW d \in Drivers, Step(d)
  PROVE  /\ pc'[d] \in {"Converting", "MarkConversionDone", "EnqueueUpload"} =>
              job'[d] = job[d] /\ pc[d] \in ConvPCs
         /\ pc[d] \in ConvPCs /\ Makes(d) =>
              \/ content'[Target(d)] = content[Target(d)]
              \/ content'[Target(d)] \in {Partial, Input(d)}
         /\ pc'[d] = "Converting" => content'[Target(d)] = Partial
         /\ pc'[d] = "MarkConversionDone" =>
              /\ pc[d] = "Converting"
              /\ content[Target(d)] = Partial => content'[Target(d)] = Input(d)
         /\ pc'[d] = "EnqueueUpload" => pc[d] = "MarkConversionDone"
<1>1. DataTypes /\ LocalTypes /\ Handles
  BY TypeParts DEF SoloInv
<1>2. content \in [Outputs -> Contents]
  BY <1>1 DEF DataTypes
<1>3. pc[d] \in ConvPCs => Target(d) \in Outputs /\ Input(d) \in Torrents
  BY HandlesAreTyped DEF SoloInv
<1>4. \A e \in Drivers : e = d
  BY DEF SoleDriver
<1> USE DEF LocalTypes, At, Goto, EndCycle, EndSync, Take, SyncFails, locals,
            ConvPCs
<1>5. CASE Sync(d)
  BY <1>1, <1>5
  DEF Sync, SyncStatus, SyncPauseAll, SyncList, SyncDone, SyncRecord,
      SyncEnqueue, files
<1>6. CASE Upload(d)
  BY <1>1, <1>6
  DEF Upload, UplStatus, UplNext, UplMark, UplPut, UplFailed, UplDone, files
<1>7. CASE ConvStart(d)
  <2>1. pc[d] = "Convert" /\ job' = job
    BY <1>7 DEF ConvStart
  <2>2. Writers(Target(d)) = {}
    BY <1>4, <2>1 DEF Writers
  <2>3. \/ /\ content' = [content EXCEPT ![Target(d)] = Partial]
           /\ pc' = [pc EXCEPT ![d] = "Converting"]
        \/ /\ content' = content
           /\ pc' = [pc EXCEPT ![d] = "MarkConversionFailed"]
    BY <1>7, <2>2 DEF ConvStart
  <2> QED
    BY <1>1, <1>2, <1>3, <2>1, <2>3
<1>8. CASE ConvFinish(d)
  <2>1. pc[d] = "Converting" /\ job' = job
    BY <1>8 DEF ConvFinish
  <2>2. \/ /\ \E video \in {Input(d), Mixed} :
                /\ content[Target(d)] = Partial => video = Input(d)
                /\ content' = [content EXCEPT ![Target(d)] = video]
           /\ pc' = [pc EXCEPT ![d] = "MarkConversionDone"]
        \/ /\ content' = content
           /\ pc' = [pc EXCEPT ![d] = "MarkConversionFailed"]
    BY <1>8 DEF ConvFinish
  <2> QED
    BY <1>1, <1>2, <1>3, <2>1, <2>2 DEF Makes
<1>9. CASE ConvDone(d)
  BY <1>1, <1>9 DEF ConvDone, files
<1>10. CASE ConvNext(d) \/ ConvMark(d) \/ ConvFailed(d) \/ ConvEnqueueUpload(d)
  BY <1>1, <1>10 DEF ConvNext, ConvMark, ConvFailed, ConvEnqueueUpload, files
<1> QED
  BY <1>5, <1>6, <1>7, <1>8, <1>9, <1>10 DEF Step, Convert

LEMMA WholeStep ==
  ASSUME SoleDriver, SoloInv, WholeInv, [Next]_vars
  PROVE  WholeInv'
<1>1. DataTypes /\ LocalTypes /\ Handles /\ TypeInv
  BY TypeParts DEF SoloInv
<1>2. /\ upl \in Seq(Row(UploadKeys)) /\ links \subseteq UploadKeys
      /\ conv \in Seq(Row(Torrents))
  BY <1>1 DEF DataTypes
<1>3. /\ RowsKept(conv, conv') /\ UplGrows /\ FilesGrow
      /\ FinalKept(conv, conv') /\ ConvGrows
  BY <1>1, ConvChanges, UplChanges, FileChanges, SoloStep
  DEF ConvGrows, StepKeeps
<1>4. \A d, e \in Drivers : d = e
  BY DEF SoleDriver
<1>5. ASSUME NEW d \in Drivers, pc[d] \in ConvPCs
      PROVE  /\ job[d] \in DOMAIN conv /\ Target(d) \in Outputs
             /\ Input(d) \in Torrents /\ conv'[job[d]].key = conv[job[d]].key
             /\ job'[d] = job[d] => Target(d)' = Target(d) /\ Input(d)' = Input(d)
  BY <1>1, <1>3, <1>5, HandlesAreTyped DEF Handles, RowsKept, Target, Input
<1>6. \A x, o : Sound(Shared, x, o) => Sound(Shared', x, o)
  BY <1>3, SharedStays DEF Sound
<1>7. ASSUME NEW i \in DOMAIN upl
      PROVE  Sound(Shared, content[upl[i].key[1]], upl[i].key[1])
  BY DEF WholeInv, QueuedIsConverted, KeptOrShared
<1>8. ASSUME NEW d \in Drivers, pc[d] \in UplPCs
      PROVE  /\ job[d] \in DOMAIN upl /\ upl[job[d]].key \in UploadKeys
             /\ upl'[job[d]].key = upl[job[d]].key
             /\ Sound(Shared, content[upl[job[d]].key[1]], upl[job[d]].key[1])
  BY <1>1, <1>3, <1>7, <1>8, HandlesAreTyped DEF Handles, UplGrows, RowsKept
<1>9. ASSUME NEW d \in Drivers,
             pc'[d] = pc[d] \/ pc[d] \notin {"Convert", "Converting"}
      PROVE  UNCHANGED content
  BY <1>3, <1>4, <1>9 DEF FilesGrow
<1>10. QueuedIsConverted'
  <2> SUFFICES ASSUME NEW i \in DOMAIN upl'
               PROVE  \E j \in DOMAIN conv :
                        /\ conv[j].status = "done"
                        /\ OutputOf[conv[j].key] = upl'[i].key[1]
    BY <1>3 DEF QueuedIsConverted, FinalKept, Final, RowsKept
  <2>1. CASE i \in DOMAIN upl
    BY <1>3, <2>1 DEF WholeInv, QueuedIsConverted, UplGrows, RowsKept
  <2>2. CASE i \notin DOMAIN upl
    <3>1. PICK d \in Drivers : /\ pc[d] = "EnqueueUpload"
                              /\ upl'[i].key = <<Target(d), today>>
      BY <1>3, <2>2 DEF UplGrows
    <3>2. job[d] \in DOMAIN conv /\ conv[job[d]].status = "done"
      BY <1>5, <3>1 DEF SoloInv, Claims, ConvClaim, ConvPCs
    <3> QED
      BY <3>1, <3>2 DEF Target, Input
  <2> QED
    BY <2>1, <2>2
<1>11. DoneWasAttempted'
  <2> SUFFICES ASSUME NEW i \in DOMAIN conv', conv'[i].status = "done"
               PROVE  conv'[i].attempts > 0
    BY DEF DoneWasAttempted
  <2>1. i \in DOMAIN conv
    BY <1>3 DEF ConvGrows
  <2>2. CASE conv[i].status = "done"
    BY <1>3, <2>1, <2>2 DEF WholeInv, DoneWasAttempted, RowsKept
  <2>3. CASE conv[i].status # "done"
    <3>1. PICK d \in Drivers : pc[d] = "MarkConversionDone" /\ i = job[d]
      BY <1>3, <2>1, <2>3 DEF ConvGrows
    <3>2. att[d] > 0 /\ conv[i].attempts = att[d]
      BY <1>1, <3>1 DEF Handles, ConvPCs, SoloInv, Claims, ConvClaim, Held
    <3> QED
      BY <1>3, <2>1, <3>2 DEF RowsKept
  <2> QED
    BY <2>2, <2>3
<1>12. ASSUME NEW k \in UploadKeys, Sound(Shared, bucket[k], k[1])
       PROVE  Sound(Shared', bucket'[k], k[1])
  <2>1. "Upload" \in UplPCs
    BY DEF UplPCs
  <2>2. Sound(Shared, bucket'[k], k[1])
    BY <1>3, <1>8, <1>12, <2>1 DEF FilesGrow
  <2> QED
    BY <1>6, <2>2
<1>13. ASSUME NEW k \in links'
       PROVE  Sound(Shared', bucket'[k], k[1])
  <2>1. CASE k \in links
    BY <1>2, <1>12, <2>1 DEF WholeInv, LinkedIsSound
  <2>2. CASE k \notin links
    <3>1. PICK d \in Drivers : pc[d] = "MarkUploadDone" /\ k = upl[job[d]].key
      BY <1>3, <2>2 DEF UplGrows
    <3>2. pc[d] \in UplPCs
      BY <3>1 DEF UplPCs
    <3> QED
      BY <1>8, <1>12, <3>1, <3>2 DEF WholeInv, Makes
  <2> QED
    BY <2>1, <2>2
<1>14. ASSUME NEW d \in Drivers
       PROVE  Makes(d)'
  <2>1. Makes(d)
    BY DEF WholeInv
  <2>2. CASE Same(d)
    <3>1. pc'[d] = pc[d] /\ job'[d] = job[d] /\ UNCHANGED content
      BY <1>9, <2>2 DEF Same
    <3>2. pc[d] \in ConvPCs => Target(d)' = Target(d) /\ Input(d)' = Input(d)
      BY <1>5, <3>1
    <3>3. pc[d] = "MarkUploadDone" =>
            Sound(Shared', bucket'[upl'[job'[d]].key], upl'[job'[d]].key[1])
      BY <1>8, <1>12, <2>1, <3>1 DEF Makes, UplPCs
    <3> QED
      BY <2>1, <3>1, <3>2, <3>3 DEF Makes, ConvPCs
  <2>3. CASE Stops(d)
    BY <2>3 DEF Makes, Stops
  <2>4. CASE Step(d)
    <3>1. /\ pc'[d] = "Converting" => content'[Target(d)'] = Partial
          /\ pc'[d] = "MarkConversionDone" => content'[Target(d)'] = Input(d)'
      BY <1>5, <2>1, <2>4, MakeFlow DEF Makes
    <3>2. ASSUME pc'[d] = "MarkUploadDone"
          PROVE  Sound(Shared', bucket'[upl'[job'[d]].key], upl'[job'[d]].key[1])
      <4>1. /\ pc[d] = "Upload" /\ job'[d] = job[d] /\ upl' = upl
            /\ bucket' = [bucket EXCEPT ![upl[job[d]].key] =
                                          content[upl[job[d]].key[1]]]
        BY <1>1, <2>4, <3>2, UploadFlow
      <4>2. bucket \in [UploadKeys -> Contents]
        BY <1>1 DEF DataTypes
      <4> QED
        BY <1>6, <1>8, <4>1, <4>2 DEF UplPCs
    <3> QED
      BY <3>1, <3>2 DEF Makes
  <2> QED
    BY <1>1, <2>2, <2>3, <2>4, DriverChanges
<1>15. ASSUME NEW i \in DOMAIN conv', conv'[i].status = "done"
       PROVE  LET o == OutputOf[conv'[i].key] IN
              /\ Sound(Shared', content'[o], o)
              /\ content'[o] = conv'[i].key \/ o \in Shared'
  <2>1. /\ i \in DOMAIN conv /\ conv'[i].key = conv[i].key
        /\ conv[i].key \in Torrents /\ OutputOf[conv[i].key] \in Outputs
    BY <1>2, <1>3, <1>15, RowOf DEF ConvGrows, RowsKept, Outputs
  <2>2. Shared \subseteq Shared'
    BY <1>3, SharedStays
  <2> DEFINE o == OutputOf[conv[i].key]
  <2>3. CASE conv[i].status = "done" /\ content'[o] = content[o]
    <3>1. Sound(Shared, content[o], o) /\ (content[o] = conv[i].key \/ o \in Shared)
      BY <2>1, <2>3 DEF WholeInv, KeptOrShared
    <3> QED
      BY <1>6, <2>1, <2>2, <2>3, <3>1
  <2>4. CASE conv[i].status = "done" /\ content'[o] # content[o]
    <3>1. PICK d \in Drivers : /\ pc[d] \in {"Convert", "Converting"}
                              /\ Step(d) /\ Target(d) = o
      BY <1>3, <2>1, <2>4 DEF FilesGrow
    <3>2. o \in Shared
      BY <2>1, <2>4, <3>1, WritesShared DEF WholeInv
    <3>3. pc[d] \in ConvPCs /\ Input(d) \in Torrents
      BY <1>5, <3>1 DEF ConvPCs
    <3>4. content'[o] \in {Partial, Input(d)}
      BY <2>4, <3>1, <3>3, MakeFlow DEF WholeInv
    <3>5. Sound(Shared, content'[o], o)
      BY <3>1, <3>2, <3>3, <3>4 DEF Sound, Whole, Target
    <3> QED
      BY <1>6, <2>1, <2>2, <3>2, <3>5
  <2>5. CASE conv[i].status # "done"
    <3>1. PICK d \in Drivers : pc[d] = "MarkConversionDone" /\ i = job[d]
      BY <1>3, <1>15, <2>1, <2>5 DEF ConvGrows
    <3>2. content[Target(d)] = Input(d) /\ UNCHANGED content
      BY <1>9, <3>1 DEF WholeInv, Makes
    <3>3. content'[o] = conv[i].key
      BY <3>1, <3>2 DEF Target, Input
    <3> QED
      BY <2>1, <3>3 DEF Sound, Whole
  <2> QED
    BY <2>3, <2>4, <2>5
<1>16. LinkedIsSound' /\ KeptOrShared'
  BY <1>13, <1>15 DEF LinkedIsSound, KeptOrShared
<1> QED
  BY <1>10, <1>11, <1>14, <1>16 DEF WholeInv

LEMMA WholeInit == Init => WholeInv
BY DEF Init, WholeInv, QueuedIsConverted, DoneWasAttempted, LinkedIsSound,
       KeptOrShared, Makes

LEMMA WholeMeans ==
  ASSUME TypeInv, WholeInv
  PROVE  LinkedVideoWhole /\ ConvertedIsKept
<1>1. \A k \in links : Sound(Shared, bucket[k], k[1])
  BY DEF WholeInv, LinkedIsSound
<1>2. LinkedVideoWhole
  BY <1>1 DEF LinkedVideoWhole, Sound, Shared
<1>3. ConvertedIsKept
  BY DEF WholeInv, KeptOrShared, ConvertedIsKept, Sound, Shared
<1> QED
  BY <1>2, <1>3

(* With a single driver, a link is to a whole video of the file it names,  *)
(* or to a part of one where another torrent's conversion has opened the   *)
(* same file, whatever was cut short before.                               *)
THEOREM SoloLinksWhole ==
  ASSUME SoleDriver
  PROVE  Spec => []LinkedVideoWhole
<1>1. SoloInv /\ [Next]_vars => SoloInv'
  BY SoloStep
<1>2. SoloInv /\ WholeInv /\ [Next]_vars => WholeInv'
  BY WholeStep
<1>3. SoloInv /\ WholeInv => LinkedVideoWhole
  BY WholeMeans DEF SoloInv
<1> QED
  BY <1>1, <1>2, <1>3, WholeInit, SoloInit, PTL DEF Spec

(* And a finished conversion's file keeps its video, or is contested and   *)
(* holds another video of its name or a part of one, whatever is converted *)
(* after it.                                                               *)
THEOREM SoloKeepsConverted ==
  ASSUME SoleDriver
  PROVE  Spec => []ConvertedIsKept
<1>1. SoloInv /\ [Next]_vars => SoloInv'
  BY SoloStep
<1>2. SoloInv /\ WholeInv /\ [Next]_vars => WholeInv'
  BY WholeStep
<1>3. SoloInv /\ WholeInv => ConvertedIsKept
  BY WholeMeans DEF SoloInv
<1> QED
  BY <1>1, <1>2, <1>3, WholeInit, SoloInit, PTL DEF Spec

-----------------------------------------------------------------------------
(* A single driver: each finished conversion queues one upload.            *)

(* The driver has finished a conversion of this file and not yet queued    *)
(* its upload.                                                             *)
Handing(file) == \E d \in Drivers : pc[d] = "EnqueueUpload" /\ Target(d) = file

(* A finished conversion whose upload is still to be queued has none yet.  *)
Accounted(file) ==
  Cardinality(UploadsOf(file)) + (IF Handing(file) THEN 1 ELSE 0)
    <= Cardinality(DoneFor(file))

CountInv == \A file \in Outputs : Accounted(file)

FiniteCounts ==
  \A file \in Outputs :
    /\ IsFiniteSet(UploadsOf(file)) /\ Cardinality(UploadsOf(file)) \in Nat
    /\ IsFiniteSet(DoneFor(file)) /\ Cardinality(DoneFor(file)) \in Nat

(* Tables are finite.                                                      *)
LEMMA CountedSetsAreFinite == SoloInv => FiniteCounts
<1> SUFFICES ASSUME SoloInv, NEW file \in Outputs
             PROVE  /\ IsFiniteSet(UploadsOf(file))
                    /\ Cardinality(UploadsOf(file)) \in Nat
                    /\ IsFiniteSet(DoneFor(file))
                    /\ Cardinality(DoneFor(file)) \in Nat
  BY DEF FiniteCounts
<1>1. /\ Len(conv) \in Nat /\ DOMAIN conv = 1 .. Len(conv)
      /\ Len(upl) \in Nat /\ DOMAIN upl = 1 .. Len(upl)
  BY LenProperties DEF SoloInv, TypeInv, TypeOK
<1>2. IsFiniteSet(DOMAIN conv) /\ IsFiniteSet(DOMAIN upl)
  BY <1>1, FS_Interval
<1>3. IsFiniteSet(UploadsOf(file)) /\ IsFiniteSet(DoneFor(file))
  BY <1>2, FS_Subset DEF UploadsOf, DoneFor
<1> QED
  BY <1>3, FS_CardinalityType

LEMMA CountStep ==
  ASSUME SoleDriver, SoloInv, SoloInv', OneRowPerKey', CountInv, [Next]_vars,
         NEW o \in Outputs
  PROVE  Accounted(o)'
<1> DEFINE U == UploadsOf(o)
           D == DoneFor(o)
<1>1. DataTypes /\ LocalTypes /\ Handles /\ TypeInv
  BY TypeParts DEF SoloInv
<1>2. /\ RowsKept(conv, conv') /\ FinalKept(conv, conv') /\ UplGrows
  BY <1>1, ConvChanges, UplChanges, SoloStep DEF ConvGrows, StepKeeps
<1>3. \A d, e \in Drivers : d = e
  BY DEF SoleDriver
<1>4. /\ IsFiniteSet(U) /\ Cardinality(U) \in Nat
      /\ IsFiniteSet(D) /\ Cardinality(D) \in Nat
  BY CountedSetsAreFinite DEF FiniteCounts
<1>5. /\ IsFiniteSet(U') /\ Cardinality(U') \in Nat
      /\ IsFiniteSet(D') /\ Cardinality(D') \in Nat
  <2>1. FiniteCounts'
    BY CountedSetsAreFinite, PTL
  <2> QED
    BY <2>1 DEF FiniteCounts, Outputs
<1>6. /\ Handing(o) => Cardinality(U) + 1 <= Cardinality(D)
      /\ Cardinality(U) <= Cardinality(D)
  BY <1>4 DEF CountInv, Accounted
<1>7. D \subseteq D'
  BY <1>2 DEF DoneFor, FinalKept, Final, RowsKept
<1>8. Cardinality(D) <= Cardinality(D')
  BY <1>5, <1>7, FewerOrOneMore
<1>9. CASE ~ U' \subseteq U
  <2>1. PICK i \in U' : i \notin U
    BY <1>9
  <2>2. \A j \in U' \ U : j \in DOMAIN upl' \ DOMAIN upl
    BY <1>2 DEF UploadsOf, UplGrows, RowsKept
  <2>3. PICK d \in Drivers : /\ pc[d] = "EnqueueUpload" /\ pc'[d] # pc[d]
                            /\ upl'[i].key = <<Target(d), today>>
    BY <1>2, <2>1, <2>2 DEF UplGrows
  <2>4. Target(d) = o
    BY <2>1, <2>3 DEF UploadsOf
  <2>5. Handing(o) /\ ~ Handing(o)'
    BY <1>3, <2>3, <2>4 DEF Handing
  <2>6. ASSUME NEW j \in U', j \notin U
        PROVE  j = i
    <3>1. upl'[j].key = <<Target(d), today>>
      BY <1>2, <1>3, <2>2, <2>6 DEF UplGrows
    <3>2. j \in DOMAIN upl' /\ i \in DOMAIN upl'
      BY <2>1, <2>2, <2>6
    <3> QED
      BY <2>3, <3>1, <3>2 DEF OneRowPerKey
  <2>7. U' \subseteq U \cup {i}
    BY <2>6
  <2>8. Cardinality(U') <= Cardinality(U) + 1
    BY <1>4, <2>7, FewerOrOneMore
  <2> QED
    BY <1>4, <1>5, <1>6, <1>8, <2>5, <2>8 DEF Accounted
<1>10. CASE U' \subseteq U
  <2>1. Cardinality(U') <= Cardinality(U)
    BY <1>4, <1>10, FewerOrOneMore
  <2>2. CASE ~ Handing(o)'
    BY <1>4, <1>5, <1>6, <1>8, <2>1, <2>2 DEF Accounted
  <2>3. CASE Handing(o)'
    <3>1. PICK d \in Drivers : pc'[d] = "EnqueueUpload" /\ Target(d)' = o
      BY <2>3 DEF Handing
    <3>2. CASE Same(d)
      <4>1. pc[d] = "EnqueueUpload" /\ job'[d] = job[d]
        BY <3>1, <3>2 DEF Same
      <4>2. Target(d)' = Target(d)
        BY <1>1, <1>2, <4>1 DEF Handles, ConvPCs, RowsKept, Target, Input
      <4>3. Handing(o)
        BY <3>1, <4>1, <4>2 DEF Handing
      <4> QED
        BY <1>4, <1>5, <1>6, <1>8, <2>1, <4>3 DEF Accounted
    <3>3. CASE Step(d)
      <4>1. pc[d] = "MarkConversionDone" /\ job'[d] = job[d]
        BY <3>1, <3>3, MakeFlow
      <4>2. job[d] \in DOMAIN conv /\ conv[job[d]].status = "running"
        BY <1>1, <4>1 DEF Handles, ConvPCs, SoloInv, Claims, ConvClaim, Held
      <4>3. job[d] \notin D
        BY <4>2 DEF DoneFor
      <4>4. job[d] \in D'
        <5>1. (conv[job[d]].status = "done")'
          BY <3>1 DEF SoloInv, Claims, ConvClaim
        <5>2. job[d] \in DOMAIN conv'
          BY <1>2, <4>2 DEF RowsKept
        <5> QED
          BY <3>1, <4>1, <5>1, <5>2 DEF DoneFor, Target, Input
      <4>5. Cardinality(D) + 1 <= Cardinality(D')
        <5>1. /\ IsFiniteSet(D \cup {job[d]})
              /\ Cardinality(D \cup {job[d]}) = Cardinality(D) + 1
          BY <1>4, <4>3, FS_AddElement
        <5>2. D \cup {job[d]} \subseteq D'
          BY <1>7, <4>4
        <5> QED
          BY <1>5, <5>1, <5>2, FewerOrOneMore
      <4> QED
        BY <1>4, <1>5, <1>6, <2>1, <4>5 DEF Accounted
    <3>4. ~ Stops(d)
      BY <3>1 DEF Stops
    <3> QED
      BY <1>1, <3>2, <3>3, <3>4, DriverChanges
  <2> QED
    BY <2>2, <2>3
<1> QED
  BY <1>9, <1>10

LEMMA CountInit == Init => CountInv
<1> SUFFICES ASSUME Init, NEW o \in Outputs PROVE Accounted(o)
  BY DEF CountInv
<1>1. UploadsOf(o) = {} /\ DoneFor(o) = {} /\ ~ Handing(o)
  BY DEF Init, UploadsOf, DoneFor, Handing
<1> QED
  BY <1>1, FS_EmptySet DEF Accounted

LEMMA CountMeans == SoloInv /\ CountInv => OneUploadPerConversion
<1> SUFFICES ASSUME SoloInv, CountInv, NEW o \in Outputs
             PROVE  Cardinality(UploadsOf(o)) <= Cardinality(DoneFor(o))
  BY DEF OneUploadPerConversion
<1>1. Cardinality(UploadsOf(o)) \in Nat /\ Cardinality(DoneFor(o)) \in Nat
  BY CountedSetsAreFinite DEF FiniteCounts
<1> QED
  BY <1>1 DEF CountInv, Accounted

(* With a single driver no file has more upload jobs than finished         *)
(* conversions, though the day is part of an upload's key and any step may *)
(* fail or be cut short.                                                   *)
THEOREM SoloUploadsOnce ==
  ASSUME SoleDriver
  PROVE  Spec => []OneUploadPerConversion
<1>1. SoloInv /\ [Next]_vars => SoloInv'
  BY SoloStep
<1>2. SoloInv /\ SoloInv' /\ OneRowPerKey' /\ CountInv /\ [Next]_vars => CountInv'
  BY CountStep DEF CountInv
<1>3. SoloInv /\ CountInv => OneUploadPerConversion
  BY CountMeans
<1> QED
  BY <1>1, <1>2, <1>3, CountInit, SoloInit, KeysStayUnique, PTL DEF Spec

-----------------------------------------------------------------------------
(* Nothing that is done is left lying, as long as nothing failed.          *)

LEMMA DriverGoesOn ==
  ASSUME TypeInv, [Next]_vars, UNCHANGED faults, NEW e \in Drivers
  PROVE  Same(e) \/ Step(e)
<1>1. UNCHANGED <<pc, locals>> => Same(e)
  BY DEF Same, locals
<1>2. ASSUME NEW d \in Drivers, Step(d)
      PROVE  Same(e) \/ Step(e)
  BY <1>2, OthersStay
<1>3. CASE Operator
  BY <1>1, <1>3
  DEF Operator, PauseConversionJob, ResumeConversionJob, PauseUploadJob,
      ResumeUploadJob, PauseTorrent, ResumeTorrent
<1>4. \A dead \in SUBSET Drivers : ~ Crash(dead)
  BY DEF Crash, StoreFault, TypeInv, TypeOK
<1>5. CASE Environment
  BY <1>1, <1>4, <1>5
  DEF Environment, TorrentCompletes, VPNChanges, Midnight, ClockTicks,
      ConvBackoffElapses, UplBackoffElapses
<1>6. CASE UNCHANGED vars
  BY <1>1, <1>6 DEF vars
<1> QED
  BY <1>2, <1>3, <1>5, <1>6 DEF Next

(* The call after a finished conversion queues its upload unless it fails. *)
LEMMA HandsOn ==
  ASSUME TypeInv, NEW d \in Drivers, Step(d), UNCHANGED faults,
         pc[d] = "EnqueueUpload"
  PROVE  HasKey(upl', <<Target(d), today>>)
<1>1. /\ upl \in Seq(Row(UploadKeys)) /\ today \in 0 .. MaxDay
      /\ faults \in Nat /\ Target(d) \in Outputs
  BY HandlesAreTyped DEF TypeInv, TypeOK, ConvPCs
<1>2. ConvEnqueueUpload(d)
  BY DEF Step, Sync, SyncStatus, SyncPauseAll, SyncList, SyncDone, SyncRecord,
         SyncEnqueue, Convert, ConvNext, ConvMark, ConvStart, ConvFinish,
         ConvFailed, ConvDone, Upload, UplStatus, UplNext, UplMark, UplPut,
         UplFailed, UplDone, At
<1>3. upl' = InsertIgnore(upl, <<Target(d), today>>)
  BY <1>1, <1>2 DEF ConvEnqueueUpload, StoreFault
<1>4. <<Target(d), today>> \in UploadKeys
  BY <1>1 DEF UploadKeys
<1> QED
  BY <1>1, <1>3, <1>4, InsertIgnoreInserts

HandedOn == faults = 0 => DoneIsHandedOn

LEMMA FaultsCount == TypeInv /\ [Next]_vars => faults' \in {faults, faults + 1}
BY DEF Next, vars, Step,
       Sync, SyncStatus, SyncPauseAll, SyncList, SyncDone, SyncRecord, SyncEnqueue,
       Convert, ConvNext, ConvMark, ConvStart, ConvFinish, ConvFailed, ConvDone,
       ConvEnqueueUpload,
       Upload, UplStatus, UplNext, UplMark, UplPut, UplFailed, UplDone,
       Operator, PauseConversionJob, ResumeConversionJob, PauseUploadJob,
       ResumeUploadJob, PauseTorrent, ResumeTorrent,
       Environment, TorrentCompletes, VPNChanges, Midnight, ClockTicks,
       ConvBackoffElapses, UplBackoffElapses, Crash, StoreFault

LEMMA HandedOnStep ==
  ASSUME TypeInv, HandedOn, [Next]_vars
  PROVE  HandedOn'
<1> SUFFICES ASSUME faults' = 0, NEW i \in DOMAIN conv', conv'[i].status = "done"
             PROVE  \/ \E j \in DOMAIN upl' : upl'[j].key[1] = OutputOf[conv'[i].key]
                    \/ \E d \in Drivers : pc'[d] = "EnqueueUpload" /\ job'[d] = i
  BY DEF HandedOn, DoneIsHandedOn
<1>1. faults = 0 /\ UNCHANGED faults
  BY FaultsCount DEF TypeInv, TypeOK
<1>2. ConvGrows /\ UplGrows
  BY ConvChanges, UplChanges
<1>3. i \in DOMAIN conv /\ conv'[i].key = conv[i].key
  BY <1>2 DEF ConvGrows, RowsKept
<1>4. CASE conv[i].status # "done"
  BY <1>2, <1>3, <1>4 DEF ConvGrows
<1>5. CASE conv[i].status = "done" /\ \E j \in DOMAIN upl : upl[j].key[1] = OutputOf[conv[i].key]
  BY <1>2, <1>3, <1>5 DEF UplGrows, RowsKept
<1>6. ASSUME NEW d \in Drivers, pc[d] = "EnqueueUpload", job[d] = i
      PROVE  \/ pc'[d] = "EnqueueUpload" /\ job'[d] = i
             \/ \E j \in DOMAIN upl' : upl'[j].key[1] = OutputOf[conv'[i].key]
  <2>1. CASE Same(d)
    BY <1>6, <2>1 DEF Same
  <2>2. CASE Step(d)
    <3>1. PICK j \in DOMAIN upl' : upl'[j].key = <<Target(d), today>>
      BY <1>1, <1>6, <2>2, HandsOn DEF HasKey
    <3>2. Target(d) = OutputOf[conv'[i].key]
      BY <1>3, <1>6 DEF Target, Input
    <3> QED
      BY <3>1, <3>2
  <2> QED
    BY <1>1, <2>1, <2>2, DriverGoesOn
<1> QED
  BY <1>1, <1>3, <1>4, <1>5, <1>6 DEF HandedOn, DoneIsHandedOn

(* While no store call has failed and no process has died, every finished  *)
(* conversion has its upload queued or a driver that is about to queue it, *)
(* however many drivers work on the tables.                                *)
THEOREM FaultlessHandsOn == Spec => [](faults = 0 => DoneIsHandedOn)
<1>1. Init => HandedOn
  BY DEF Init, HandedOn, DoneIsHandedOn
<1>2. TypeInv /\ HandedOn /\ [Next]_vars => HandedOn'
  BY HandedOnStep
<1>3. HandedOn => (faults = 0 => DoneIsHandedOn)
  BY DEF HandedOn
<1> QED
  BY <1>1, <1>2, <1>3, TypeInit, TypeStep, PTL DEF Spec
=============================================================================
