--------------------------- MODULE PipelineProofs ---------------------------
(***************************************************************************)
(* Theorems about Pipeline, for every set of torrents, naming of outputs,  *)
(* set of drivers, attempt limit and number of faults.                     *)
(***************************************************************************)
EXTENDS Pipeline, JobQueueProofs

-----------------------------------------------------------------------------
(* Types.  A driver between two calls holds the id of a row that exists,   *)
(* since rows are never deleted, and an attempt number of at least 1.      *)

Handles ==
  \A d \in Drivers :
    /\ pc[d] \in ConvPCs => job[d] \in DOMAIN conv /\ att[d] > 0
    /\ pc[d] \in UplPCs => job[d] \in DOMAIN upl /\ att[d] > 0
    /\ pc[d] = "EnqueueConversion" => cur[d] \in Torrents

TypeInv == TypeOK /\ Handles

LEMMA OutputInOutputs == \A t \in Torrents : OutputOf[t] \in Outputs
BY DEF Outputs

(* What the driver works on is well-typed.                                 *)
LEMMA HandlesAreTyped ==
  ASSUME TypeInv, NEW d \in Drivers
  PROVE  /\ pc[d] \in ConvPCs =>
              /\ conv[job[d]] \in Row(Torrents)
              /\ Input(d) \in Torrents /\ Target(d) \in Outputs
         /\ pc[d] \in UplPCs =>
              /\ upl[job[d]] \in Row(UploadKeys)
              /\ upl[job[d]].key \in UploadKeys
              /\ upl[job[d]].key[1] \in Outputs
<1>1. ASSUME pc[d] \in ConvPCs
      PROVE  /\ conv[job[d]] \in Row(Torrents)
             /\ Input(d) \in Torrents /\ Target(d) \in Outputs
  <2>1. conv \in Seq(Row(Torrents)) /\ job[d] \in DOMAIN conv
    BY <1>1 DEF TypeInv, TypeOK, Handles
  <2>2. conv[job[d]] \in Row(Torrents) /\ conv[job[d]].key \in Torrents
    BY <2>1, RowOf
  <2> QED  BY <2>2, OutputInOutputs DEF Input, Target
<1>2. ASSUME pc[d] \in UplPCs
      PROVE  /\ upl[job[d]] \in Row(UploadKeys)
             /\ upl[job[d]].key \in UploadKeys
             /\ upl[job[d]].key[1] \in Outputs
  <2>1. upl \in Seq(Row(UploadKeys)) /\ job[d] \in DOMAIN upl
    BY <1>2 DEF TypeInv, TypeOK, Handles
  <2>2. upl[job[d]] \in Row(UploadKeys) /\ upl[job[d]].key \in UploadKeys
    BY <2>1, RowOf
  <2> QED  BY <2>2 DEF UploadKeys
<1> QED  BY <1>1, <1>2

LEMMA TypeInit == Init => TypeInv
<1> SUFFICES ASSUME Init PROVE TypeInv  OBVIOUS
<1>1. TypeOK
  <2>1. conv \in Seq(Row(Torrents)) /\ upl \in Seq(Row(UploadKeys))
    BY EmptySeq DEF Init
  <2> QED  BY <2>1, BoundAssumption
           DEF Init, TypeOK, PCs, Contents
<1>2. Handles  BY DEF Init, Handles, ConvPCs, UplPCs
<1> QED  BY <1>1, <1>2 DEF TypeInv

(* A step of driver d: its locals stay typed, the other drivers' locals    *)
(* stay what they are.                                                     *)
LocalTypes ==
  /\ pc \in [Drivers -> PCs]
  /\ todo \in [Drivers -> SUBSET Torrents]
  /\ cur \in [Drivers -> Torrents \cup {None}]
  /\ job \in [Drivers -> Nat]
  /\ att \in [Drivers -> Nat]

Same(e) == /\ pc'[e] = pc[e] /\ todo'[e] = todo[e] /\ cur'[e] = cur[e]
           /\ job'[e] = job[e] /\ att'[e] = att[e]

Moves(d) == LocalTypes' /\ \A e \in Drivers \ {d} : Same(e)

LEMMA EndCycleMoves ==
  ASSUME LocalTypes, NEW d \in Drivers, EndCycle(d)
  PROVE  Moves(d) /\ pc'[d] = "idle" /\ todo'[d] = {}
<1>1. "idle" \in PCs  BY DEF PCs
<1> QED  BY <1>1 DEF LocalTypes, EndCycle, Goto, Moves, Same

LEMMA GotoMoves ==
  ASSUME LocalTypes, NEW d \in Drivers, NEW p \in PCs, Goto(d, p),
         UNCHANGED locals
  PROVE  Moves(d) /\ pc'[d] = p
         /\ todo'[d] = todo[d] /\ cur'[d] = cur[d]
         /\ job'[d] = job[d] /\ att'[d] = att[d]
BY DEF LocalTypes, Goto, Moves, Same, locals

LEMMA SyncFailsMoves ==
  ASSUME LocalTypes, NEW d \in Drivers, SyncFails(d)
  PROVE  Moves(d) /\ pc'[d] \in {"idle", "NextQueuedConversion"}
         /\ todo'[d] = {}
<1>1. CASE EndCycle(d)  BY <1>1, EndCycleMoves
<1>2. CASE Goto(d, "NextQueuedConversion") /\ EndSync(d) /\ UNCHANGED <<job, att>>
  <2>1. "NextQueuedConversion" \in PCs  BY DEF PCs
  <2> QED  BY <1>2, <2>1 DEF LocalTypes, Goto, EndSync, Moves, Same
<1> QED  BY <1>1, <1>2 DEF SyncFails

LEMMA TakeMoves ==
  ASSUME LocalTypes, NEW d \in Drivers, NEW p \in PCs, NEW j \in Nat,
         NEW a \in Nat, Goto(d, p), Take(d, j, a), UNCHANGED <<todo, cur>>
  PROVE  Moves(d) /\ pc'[d] = p /\ job'[d] = j /\ att'[d] = a
         /\ todo'[d] = todo[d]
BY DEF LocalTypes, Goto, Take, Moves, Same

(* The tables of jobs never lose a row.                                    *)
Grow == DOMAIN conv \subseteq DOMAIN conv' /\ DOMAIN upl \subseteq DOMAIN upl'

HandleOf(d) ==
  /\ pc[d] \in ConvPCs => job[d] \in DOMAIN conv /\ att[d] > 0
  /\ pc[d] \in UplPCs => job[d] \in DOMAIN upl /\ att[d] > 0
  /\ pc[d] = "EnqueueConversion" => cur[d] \in Torrents

(* The calls between which a driver holds no job.                          *)
FreePCs == {"idle", "PauseAll", "List", "RecordDownload", "EnqueueConversion",
            "NextQueuedConversion", "VPNStatus", "NextQueuedUpload"}

LEMMA FreePCsHoldNothing ==
  /\ FreePCs \subseteq PCs /\ FreePCs \cap (ConvPCs \cup UplPCs) = {}
  /\ ConvPCs \subseteq PCs /\ UplPCs \subseteq PCs
  /\ ConvPCs \cap UplPCs = {}
  /\ PCs = FreePCs \cup ConvPCs \cup UplPCs
  /\ "EnqueueConversion" \notin ConvPCs \cup UplPCs
BY DEF FreePCs, PCs, ConvPCs, UplPCs

LEMMA HandlesKept ==
  ASSUME Handles, NEW d \in Drivers, Moves(d), Grow, HandleOf(d)'
  PROVE  Handles'
BY DEF Handles, Moves, Same, Grow, HandleOf

DataTypes ==
  /\ torrent \in [Torrents -> {"downloading", "paused", "completed"}]
  /\ vpn \in VPNReadings
  /\ downloads \subseteq Torrents
  /\ conv \in Seq(Row(Torrents))
  /\ upl \in Seq(Row(UploadKeys))
  /\ links \subseteq UploadKeys
  /\ content \in [Outputs -> Contents]
  /\ bucket \in [UploadKeys -> Contents]
  /\ today \in 0 .. MaxDay
  /\ faults \in Nat

LEMMA TypeParts == TypeInv <=> DataTypes /\ LocalTypes /\ Handles
BY DEF TypeInv, TypeOK, DataTypes, LocalTypes

LEMMA SyncType ==
  ASSUME TypeInv, NEW d \in Drivers, Sync(d)
  PROVE  TypeInv'
<1>1. DataTypes /\ LocalTypes /\ Handles  BY TypeParts
<1> SUFFICES DataTypes' /\ Moves(d) /\ Grow /\ HandleOf(d)'
  BY <1>1, HandlesKept DEF Moves, TypeInv, TypeOK, DataTypes, LocalTypes
<1> USE DEF world, tables, files, At, HandleOf, Grow, DataTypes
<1>2. FreePCs \subseteq PCs /\ FreePCs \cap (ConvPCs \cup UplPCs) = {}
  BY FreePCsHoldNothing
<1> USE DEF FreePCs
<1>3. CASE SyncStatus(d)
  <2>1. DataTypes' /\ Grow  BY <1>1, <1>3 DEF SyncStatus
  <2>2. CASE SyncFails(d)  BY <1>1, <1>2, <2>1, <2>2, SyncFailsMoves
  <2>3. CASE Goto(d, "List") /\ UNCHANGED locals
    BY <1>1, <1>2, <2>1, <2>3, GotoMoves
  <2>4. CASE Goto(d, "PauseAll") /\ UNCHANGED locals
    BY <1>1, <1>2, <2>1, <2>4, GotoMoves
  <2> QED  BY <1>3, <2>2, <2>3, <2>4 DEF SyncStatus
<1>4. CASE SyncPauseAll(d)
  <2>1. DataTypes' /\ Grow  BY <1>1, <1>4 DEF SyncPauseAll, PausedAll
  <2>2. CASE SyncFails(d)  BY <1>1, <1>2, <2>1, <2>2, SyncFailsMoves
  <2>3. CASE Goto(d, "List") /\ UNCHANGED locals
    BY <1>1, <1>2, <2>1, <2>3, GotoMoves
  <2> QED  BY <1>4, <2>2, <2>3 DEF SyncPauseAll
<1>5. CASE SyncList(d)
  <2>1. DataTypes' /\ Grow  BY <1>1, <1>5 DEF SyncList
  <2>2. CASE SyncFails(d)  BY <1>1, <1>2, <2>1, <2>2, SyncFailsMoves
  <2>3. CASE /\ todo' = [todo EXCEPT ![d] = Completed]
             /\ Goto(d, "RecordDownload") /\ UNCHANGED <<cur, job, att>>
    <3>1. Completed \subseteq Torrents  BY DEF Completed
    <3>2. Moves(d) /\ pc'[d] = "RecordDownload"
      BY <1>1, <1>2, <2>3, <3>1 DEF Moves, LocalTypes, Same, Goto
    <3> QED  BY <1>2, <2>1, <3>2
  <2> QED  BY <1>5, <2>2, <2>3 DEF SyncList
<1>6. CASE SyncDone(d)
  <2>1. DataTypes' /\ Grow  BY <1>1, <1>6 DEF SyncDone
  <2>2. Moves(d) /\ pc'[d] = "NextQueuedConversion"
    BY <1>1, <1>2, <1>6, GotoMoves DEF SyncDone
  <2> QED  BY <1>2, <2>1, <2>2
<1>7. CASE SyncRecord(d)
  <2>1. DataTypes' /\ Grow
    BY <1>1, <1>7 DEF SyncRecord, StoreFault, LocalTypes
  <2>2. CASE SyncFails(d)  BY <1>1, <1>2, <2>1, <2>2, SyncFailsMoves
  <2>3. ASSUME NEW t \in todo[d],
               todo' = [todo EXCEPT ![d] = @ \ {t}],
               cur' = [cur EXCEPT ![d] = t],
               Goto(d, "EnqueueConversion"), UNCHANGED <<job, att>>
        PROVE  Moves(d) /\ HandleOf(d)'
    <3>1. t \in Torrents /\ todo[d] \ {t} \in SUBSET Torrents
      BY <1>1, <2>3 DEF LocalTypes
    <3>2. Moves(d) /\ pc'[d] = "EnqueueConversion" /\ cur'[d] = t
      BY <1>1, <1>2, <2>3, <3>1 DEF Moves, LocalTypes, Same, Goto
    <3> QED  BY <1>2, <3>1, <3>2
  <2> QED  BY <1>7, <2>1, <2>2, <2>3 DEF SyncRecord
<1>8. CASE SyncEnqueue(d)
  <2>1. cur[d] \in Torrents  BY <1>1, <1>8 DEF SyncEnqueue, Handles
  <2>2. /\ InsertIgnore(conv, cur[d]) \in Seq(Row(Torrents))
        /\ DOMAIN conv \subseteq DOMAIN InsertIgnore(conv, cur[d])
    BY <1>1, <2>1, InsertIgnoreInserts
  <2>3. DataTypes' /\ Grow  BY <1>1, <1>8, <2>2 DEF SyncEnqueue, StoreFault
  <2>4. CASE SyncFails(d)  BY <1>1, <1>2, <2>3, <2>4, SyncFailsMoves
  <2>5. CASE /\ cur' = [cur EXCEPT ![d] = None]
             /\ Goto(d, "RecordDownload") /\ UNCHANGED <<todo, job, att>>
    <3>1. Moves(d) /\ pc'[d] = "RecordDownload"
      BY <1>1, <1>2, <2>5 DEF Moves, LocalTypes, Same, Goto
    <3> QED  BY <1>2, <2>3, <3>1
  <2> QED  BY <1>8, <2>4, <2>5 DEF SyncEnqueue
<1> QED  BY <1>3, <1>4, <1>5, <1>6, <1>7, <1>8 DEF Sync

LEMMA ConvertType ==
  ASSUME TypeInv, NEW d \in Drivers, Convert(d)
  PROVE  TypeInv'
<1>1. DataTypes /\ LocalTypes /\ Handles  BY TypeParts
<1> SUFFICES DataTypes' /\ Moves(d) /\ Grow /\ HandleOf(d)'
  BY <1>1, HandlesKept DEF Moves, TypeInv, TypeOK, DataTypes, LocalTypes
<1> USE DEF world, tables, files, At, HandleOf, Grow, DataTypes
<1>2. /\ FreePCs \cap (ConvPCs \cup UplPCs) = {} /\ ConvPCs \cap UplPCs = {}
      /\ FreePCs \subseteq PCs /\ ConvPCs \subseteq PCs
      /\ "idle" \in FreePCs /\ "VPNStatus" \in FreePCs
      /\ "EnqueueConversion" \notin ConvPCs
      /\ "MarkConversionRunning" \in ConvPCs /\ "Convert" \in ConvPCs
      /\ "Converting" \in ConvPCs /\ "MarkConversionFailed" \in ConvPCs
      /\ "MarkConversionDone" \in ConvPCs /\ "EnqueueUpload" \in ConvPCs
  BY FreePCsHoldNothing DEF FreePCs, ConvPCs
<1>3. pc[d] \in ConvPCs =>
        /\ job[d] \in DOMAIN conv /\ att[d] \in Nat /\ att[d] > 0
        /\ Input(d) \in Torrents /\ Target(d) \in Outputs
  BY <1>1, HandlesAreTyped DEF Handles, LocalTypes
<1>4. ASSUME EndCycle(d), DataTypes', Grow
      PROVE  Moves(d) /\ HandleOf(d)'
  BY <1>1, <1>2, <1>4, EndCycleMoves DEF FreePCs
<1>5. ASSUME NEW p \in ConvPCs, Goto(d, p), UNCHANGED locals,
             pc[d] \in ConvPCs, DataTypes', Grow
      PROVE  Moves(d) /\ HandleOf(d)'
  BY <1>1, <1>2, <1>3, <1>5, GotoMoves
<1>6. CASE ConvNext(d)
  <2>1. DataTypes' /\ Grow  BY <1>1, <1>6 DEF ConvNext, StoreFault
  <2>2. CASE EndCycle(d)  BY <2>1, <2>2, <1>4
  <2>3. CASE Goto(d, "VPNStatus") /\ UNCHANGED locals
    BY <1>1, <1>2, <2>1, <2>3, GotoMoves
  <2>4. ASSUME NEW id \in NextQueued(conv),
               Take(d, id, conv[id].attempts + 1),
               Goto(d, "MarkConversionRunning"), UNCHANGED <<todo, cur>>
        PROVE  Moves(d) /\ HandleOf(d)'
    <3>1. id \in DOMAIN conv  BY NextQueuedIsReady
    <3>2. id \in Nat /\ conv[id].attempts \in Nat  BY <1>1, <3>1, RowOf
    <3>3. /\ Moves(d) /\ pc'[d] = "MarkConversionRunning" /\ job'[d] = id
          /\ att'[d] = conv[id].attempts + 1
      BY <1>1, <1>2, <2>4, <3>2, TakeMoves
    <3> QED  BY <1>2, <2>1, <3>1, <3>2, <3>3
  <2> QED  BY <1>6, <2>1, <2>2, <2>3, <2>4 DEF ConvNext
<1>7. CASE ConvMark(d)
  <2>1. Updates(Torrents, conv, MarkRunning(conv, job[d], att[d]), job[d])
    BY <1>1, <1>2, <1>3, <1>7, MarkRunningUpdates DEF ConvMark
  <2>2. DataTypes' /\ Grow
    BY <1>1, <1>7, <2>1 DEF ConvMark, StoreFault, Updates
  <2> QED  BY <1>2, <1>4, <1>5, <1>7, <2>2 DEF ConvMark
<1>8. CASE ConvStart(d)
  <2>1. content' \in [Outputs -> Contents]
    BY <1>1, <1>2, <1>3, <1>8 DEF ConvStart, Contents
  <2>2. DataTypes' /\ Grow  BY <1>1, <1>8, <2>1 DEF ConvStart
  <2> QED  BY <1>2, <1>5, <1>8, <2>2 DEF ConvStart
<1>9. CASE ConvFinish(d)
  <2>1. content' \in [Outputs -> Contents]
    BY <1>1, <1>2, <1>3, <1>9 DEF ConvFinish, Contents
  <2>2. DataTypes' /\ Grow  BY <1>1, <1>9, <2>1 DEF ConvFinish
  <2> QED  BY <1>2, <1>5, <1>9, <2>2 DEF ConvFinish
<1>10. CASE ConvFailed(d)
  <2>1. Requeue(att[d]) \in BOOLEAN  BY DEF Requeue
  <2>2. Updates(Torrents, conv, MarkFailed(conv, job[d], Requeue(att[d])), job[d])
    BY <1>1, <1>2, <1>3, <1>10, <2>1, MarkFailedUpdates DEF ConvFailed
  <2>3. DataTypes' /\ Grow
    BY <1>1, <1>10, <2>2 DEF ConvFailed, StoreFault, Updates
  <2>4. Moves(d) /\ pc'[d] = "VPNStatus"
    BY <1>1, <1>2, <1>10, TakeMoves DEF ConvFailed
  <2> QED  BY <1>2, <2>3, <2>4
<1>11. CASE ConvDone(d)
  <2>1. Updates(Torrents, conv, MarkDone(conv, job[d]), job[d])
    BY <1>1, <1>2, <1>3, <1>11, MarkDoneUpdates DEF ConvDone
  <2>2. DataTypes' /\ Grow
    BY <1>1, <1>11, <2>1 DEF ConvDone, StoreFault, Updates
  <2> QED  BY <1>2, <1>4, <1>5, <1>11, <2>2 DEF ConvDone
<1>12. CASE ConvEnqueueUpload(d)
  <2>1. <<Target(d), today>> \in UploadKeys
    BY <1>1, <1>2, <1>3, <1>12 DEF ConvEnqueueUpload, UploadKeys
  <2>2. /\ InsertIgnore(upl, <<Target(d), today>>) \in Seq(Row(UploadKeys))
        /\ DOMAIN upl \subseteq DOMAIN InsertIgnore(upl, <<Target(d), today>>)
    BY <1>1, <2>1, InsertIgnoreInserts
  <2>3. /\ upl' \in Seq(Row(UploadKeys)) /\ DOMAIN upl \subseteq DOMAIN upl'
        /\ faults' \in Nat
        /\ UNCHANGED <<world, downloads, conv, links, files>>
    <3>1. CASE /\ upl' = InsertIgnore(upl, <<Target(d), today>>)
               /\ UNCHANGED faults
      BY <1>1, <1>12, <2>2, <3>1 DEF ConvEnqueueUpload
    <3>2. CASE StoreFault /\ UNCHANGED upl
      BY <1>1, <1>12, <3>2 DEF ConvEnqueueUpload, StoreFault
    <3> QED  BY <1>12, <3>1, <3>2 DEF ConvEnqueueUpload
  <2>6. DataTypes' /\ Grow  BY <1>1, <2>3
  <2>4. CASE EndCycle(d)  BY <1>4, <2>4, <2>6
  <2>5. CASE Goto(d, "VPNStatus") /\ Take(d, 0, 0) /\ UNCHANGED <<todo, cur>>
    <3>1. Moves(d) /\ pc'[d] = "VPNStatus"
      BY <1>1, <1>2, <2>5, TakeMoves
    <3> QED  BY <1>2, <2>6, <3>1
  <2> QED  BY <1>12, <2>4, <2>5, <2>6 DEF ConvEnqueueUpload
<1> QED  BY <1>6, <1>7, <1>8, <1>9, <1>10, <1>11, <1>12 DEF Convert

LEMMA UploadType ==
  ASSUME TypeInv, NEW d \in Drivers, Upload(d)
  PROVE  TypeInv'
<1>1. DataTypes /\ LocalTypes /\ Handles  BY TypeParts
<1> SUFFICES DataTypes' /\ Moves(d) /\ Grow /\ HandleOf(d)'
  BY <1>1, HandlesKept DEF Moves, TypeInv, TypeOK, DataTypes, LocalTypes
<1> USE DEF world, tables, files, At, HandleOf, Grow, DataTypes
<1>2. /\ FreePCs \cap (ConvPCs \cup UplPCs) = {} /\ ConvPCs \cap UplPCs = {}
      /\ FreePCs \subseteq PCs /\ UplPCs \subseteq PCs
      /\ "idle" \in FreePCs /\ "NextQueuedUpload" \in FreePCs
      /\ "NextQueuedUpload" # "EnqueueConversion"
      /\ "EnqueueConversion" \notin UplPCs
      /\ "MarkUploadRunning" \in UplPCs /\ "Upload" \in UplPCs
      /\ "MarkUploadFailed" \in UplPCs /\ "MarkUploadDone" \in UplPCs
  BY FreePCsHoldNothing DEF FreePCs, UplPCs
<1>3. pc[d] \in UplPCs =>
        /\ job[d] \in DOMAIN upl /\ att[d] \in Nat /\ att[d] > 0
        /\ upl[job[d]].key \in UploadKeys /\ upl[job[d]].key[1] \in Outputs
  BY <1>1, HandlesAreTyped DEF Handles, LocalTypes
<1>4. ASSUME EndCycle(d), DataTypes', Grow
      PROVE  Moves(d) /\ HandleOf(d)'
  BY <1>1, <1>2, <1>4, EndCycleMoves DEF FreePCs
<1>5. ASSUME NEW p \in UplPCs, Goto(d, p), UNCHANGED locals,
             pc[d] \in UplPCs, DataTypes', Grow
      PROVE  Moves(d) /\ HandleOf(d)'
  BY <1>1, <1>2, <1>3, <1>5, GotoMoves
<1>6. CASE UplStatus(d)
  <2>1. DataTypes' /\ Grow  BY <1>1, <1>6 DEF UplStatus
  <2>2. CASE EndCycle(d)  BY <2>1, <2>2, <1>4
  <2>3. CASE Goto(d, "NextQueuedUpload") /\ UNCHANGED locals
    BY <1>1, <1>2, <2>1, <2>3, GotoMoves
  <2> QED  BY <1>6, <2>1, <2>2, <2>3 DEF UplStatus
<1>7. CASE UplNext(d)
  <2>1. DataTypes' /\ Grow  BY <1>1, <1>7 DEF UplNext, StoreFault
  <2>2. CASE EndCycle(d)  BY <2>1, <2>2, <1>4
  <2>3. ASSUME NEW id \in NextQueued(upl),
               Take(d, id, upl[id].attempts + 1),
               Goto(d, "MarkUploadRunning"), UNCHANGED <<todo, cur>>
        PROVE  Moves(d) /\ HandleOf(d)'
    <3>1. id \in DOMAIN upl  BY NextQueuedIsReady
    <3>2. id \in Nat /\ upl[id].attempts \in Nat  BY <1>1, <3>1, RowOf
    <3>3. /\ Moves(d) /\ pc'[d] = "MarkUploadRunning" /\ job'[d] = id
          /\ att'[d] = upl[id].attempts + 1
      BY <1>1, <1>2, <2>3, <3>2, TakeMoves
    <3> QED  BY <1>2, <2>1, <3>1, <3>2, <3>3
  <2> QED  BY <1>7, <2>1, <2>2, <2>3 DEF UplNext
<1>8. CASE UplMark(d)
  <2>1. Updates(UploadKeys, upl, MarkRunning(upl, job[d], att[d]), job[d])
    BY <1>1, <1>2, <1>3, <1>8, MarkRunningUpdates DEF UplMark
  <2>2. DataTypes' /\ Grow
    BY <1>1, <1>8, <2>1 DEF UplMark, StoreFault, Updates
  <2> QED  BY <1>2, <1>4, <1>5, <1>8, <2>2 DEF UplMark
<1>9. CASE UplPut(d)
  <2>1. content[upl[job[d]].key[1]] \in Contents
    BY <1>1, <1>2, <1>3, <1>9 DEF UplPut
  <2>2. bucket' \in [UploadKeys -> Contents]
    BY <1>1, <1>9, <2>1 DEF UplPut
  <2>3. DataTypes' /\ Grow  BY <1>1, <1>9, <2>2 DEF UplPut
  <2> QED  BY <1>2, <1>5, <1>9, <2>3 DEF UplPut
<1>10. CASE UplFailed(d)
  <2>1. Requeue(att[d]) \in BOOLEAN  BY DEF Requeue
  <2>2. Updates(UploadKeys, upl, MarkFailed(upl, job[d], Requeue(att[d])), job[d])
    BY <1>1, <1>2, <1>3, <1>10, <2>1, MarkFailedUpdates DEF UplFailed
  <2>3. DataTypes' /\ Grow
    BY <1>1, <1>10, <2>2 DEF UplFailed, StoreFault, Updates
  <2> QED  BY <1>4, <1>10, <2>3 DEF UplFailed
<1>11. CASE UplDone(d)
  <2>1. Updates(UploadKeys, upl, MarkDone(upl, job[d]), job[d])
    BY <1>1, <1>2, <1>3, <1>11, MarkDoneUpdates DEF UplDone
  <2>2. upl[job[d]].key \in UploadKeys  BY <1>2, <1>3, <1>11 DEF UplDone
  <2>3. DataTypes' /\ Grow
    BY <1>1, <1>11, <2>1, <2>2 DEF UplDone, StoreFault, Updates
  <2> QED  BY <1>4, <1>11, <2>3 DEF UplDone
<1> QED  BY <1>6, <1>7, <1>8, <1>9, <1>10, <1>11 DEF Upload
LEMMA UnmovedType ==
  ASSUME TypeInv, DataTypes', Grow, UNCHANGED <<pc, locals>>
  PROVE  TypeInv'
<1>1. LocalTypes'  BY TypeParts DEF LocalTypes, locals
<1>2. Handles'  BY DEF TypeInv, Handles, Grow, locals
<1> QED  BY <1>1, <1>2 DEF TypeInv, TypeOK, DataTypes, LocalTypes

LEMMA OperatorType ==
  ASSUME TypeInv, Operator
  PROVE  TypeInv'
<1>1. DataTypes  BY TypeParts
<1> SUFFICES DataTypes' /\ Grow /\ UNCHANGED <<pc, locals>>  BY UnmovedType
<1> USE DEF world, tables, files, Grow, DataTypes
<1>2. ASSUME NEW id \in DOMAIN conv, PauseConversionJob(id)
      PROVE  DataTypes' /\ Grow /\ UNCHANGED <<pc, locals>>
  BY <1>1, <1>2, PauseUpdates DEF PauseConversionJob, Updates
<1>3. ASSUME NEW id \in DOMAIN conv, ResumeConversionJob(id)
      PROVE  DataTypes' /\ Grow /\ UNCHANGED <<pc, locals>>
  <2>1. Updates(Torrents, conv, Resume(conv, id), id)
    BY <1>1, ResumeUpdates
  <2> QED  BY <1>1, <1>3, <2>1 DEF ResumeConversionJob, Updates
<1>4. ASSUME NEW id \in DOMAIN upl, PauseUploadJob(id)
      PROVE  DataTypes' /\ Grow /\ UNCHANGED <<pc, locals>>
  BY <1>1, <1>4, PauseUpdates DEF PauseUploadJob, Updates
<1>5. ASSUME NEW id \in DOMAIN upl, ResumeUploadJob(id)
      PROVE  DataTypes' /\ Grow /\ UNCHANGED <<pc, locals>>
  <2>1. Updates(UploadKeys, upl, Resume(upl, id), id)
    BY <1>1, ResumeUpdates
  <2> QED  BY <1>1, <1>5, <2>1 DEF ResumeUploadJob, Updates
<1>6. ASSUME NEW t \in Torrents, PauseTorrent(t) \/ ResumeTorrent(t)
      PROVE  DataTypes' /\ Grow /\ UNCHANGED <<pc, locals>>
  BY <1>1, <1>6 DEF PauseTorrent, ResumeTorrent
<1> QED  BY <1>2, <1>3, <1>4, <1>5, <1>6 DEF Operator

LEMMA EnvironmentType ==
  ASSUME TypeInv, Environment
  PROVE  TypeInv'
<1>1. DataTypes /\ LocalTypes /\ Handles  BY TypeParts
<1>2. ASSUME DataTypes' /\ Grow /\ UNCHANGED <<pc, locals>>
      PROVE  TypeInv'
  BY <1>2, UnmovedType
<1> USE DEF world, tables, files, Grow, DataTypes
<1>3. ASSUME NEW t \in Torrents, TorrentCompletes(t)
      PROVE  DataTypes' /\ Grow /\ UNCHANGED <<pc, locals>>
  BY <1>1, <1>3 DEF TorrentCompletes
<1>4. CASE VPNChanges  BY <1>1, <1>2, <1>4 DEF VPNChanges
<1>5. CASE Midnight
  <2>1. today' \in 0 .. MaxDay  BY <1>1, <1>5, BoundAssumption DEF Midnight
  <2> QED  BY <1>1, <1>2, <1>5, <2>1 DEF Midnight
<1>6. ASSUME NEW id \in DOMAIN conv, ConvBackoffElapses(id)
      PROVE  DataTypes' /\ Grow /\ UNCHANGED <<pc, locals>>
  BY <1>1, <1>6, BackoffUpdates DEF ConvBackoffElapses, Updates
<1>7. ASSUME NEW id \in DOMAIN upl, UplBackoffElapses(id)
      PROVE  DataTypes' /\ Grow /\ UNCHANGED <<pc, locals>>
  BY <1>1, <1>7, BackoffUpdates DEF UplBackoffElapses, Updates
<1>8. ASSUME NEW dead \in SUBSET Drivers, Crash(dead)
      PROVE  TypeInv'
  <2>1. DataTypes' /\ Grow  BY <1>1, <1>8 DEF Crash, StoreFault
  <2>2. LocalTypes'  BY <1>1, <1>8 DEF Crash, LocalTypes, PCs
  <2>3. Handles'
    BY <1>1, <1>8 DEF Crash, Handles, LocalTypes, ConvPCs, UplPCs
  <2> QED  BY <2>1, <2>2, <2>3 DEF TypeInv, TypeOK, LocalTypes
<1> QED  BY <1>2, <1>3, <1>4, <1>5, <1>6, <1>7, <1>8 DEF Environment, ClockTicks

LEMMA TypeStep == TypeInv /\ [Next]_vars => TypeInv'
<1> SUFFICES ASSUME TypeInv, [Next]_vars PROVE TypeInv'  OBVIOUS
<1>1. ASSUME NEW d \in Drivers, Step(d) PROVE TypeInv'
  BY <1>1, SyncType, ConvertType, UploadType DEF Step
<1>2. CASE Operator  BY <1>2, OperatorType
<1>3. CASE Environment  BY <1>3, EnvironmentType
<1>4. CASE UNCHANGED vars
  BY <1>4 DEF vars, world, tables, files, locals, TypeInv, TypeOK, Handles
<1> QED  BY <1>1, <1>2, <1>3, <1>4 DEF Next

(* Every table, file and local variable keeps its type, and a driver never *)
(* works on a row that does not exist.                                     *)
THEOREM TypeCorrect == Spec => [](TypeOK /\ Handles)
<1>1. TypeInv => TypeOK /\ Handles  BY DEF TypeInv
<1> QED  BY <1>1, TypeInit, TypeStep, PTL DEF Spec

-----------------------------------------------------------------------------
(* The UNIQUE constraints.                                                 *)

Distinct(tab) == \A i, j \in DOMAIN tab : tab[i].key = tab[j].key => i = j

(* The only things that happen to a job table.                             *)
TableStep(K, tab, new) ==
  \/ new = tab
  \/ \E id \in DOMAIN tab : Updates(K, tab, new, id)
  \/ \E k \in K : new = InsertIgnore(tab, k)

LEMMA DistinctKept ==
  ASSUME NEW K, NEW tab \in Seq(Row(K)), NEW new,
         Distinct(tab), TableStep(K, tab, new)
  PROVE  Distinct(new)
<1>1. ASSUME NEW id \in DOMAIN tab, Updates(K, tab, new, id)
      PROVE  Distinct(new)
  BY <1>1 DEF Updates, Distinct
<1>2. ASSUME NEW k \in K, new = InsertIgnore(tab, k)
      PROVE  Distinct(new)
  <2>1. /\ DOMAIN tab \subseteq DOMAIN new
        /\ \A i \in DOMAIN tab : new[i] = tab[i]
        /\ \A i \in DOMAIN new \ DOMAIN tab :
             new[i] = NewRow(k) /\ \A j \in DOMAIN new : new[j].key = k => j = i
    BY <1>2, InsertIgnoreInserts
  <2>2. NewRow(k).key = k  BY DEF NewRow
  <2> QED  BY <2>1, <2>2 DEF Distinct
<1> QED  BY <1>1, <1>2 DEF TableStep

(* Every step is one statement on one of the tables, or none.              *)
LEMMA StepsAreTableSteps ==
  ASSUME TypeInv, [Next]_vars
  PROVE  TableStep(Torrents, conv, conv') /\ TableStep(UploadKeys, upl, upl')
<1> DEFINE Goal == /\ TableStep(Torrents, conv, conv')
                   /\ TableStep(UploadKeys, upl, upl')
<1>1. DataTypes /\ LocalTypes /\ Handles  BY TypeParts
<1>2. UNCHANGED <<conv, upl>> => Goal  BY DEF TableStep
<1>3. \A id \in DOMAIN conv :
        Updates(Torrents, conv, conv', id) /\ UNCHANGED upl => Goal
  BY DEF TableStep
<1>4. \A id \in DOMAIN upl :
        Updates(UploadKeys, upl, upl', id) /\ UNCHANGED conv => Goal
  BY DEF TableStep
<1>5. conv \in Seq(Row(Torrents)) /\ upl \in Seq(Row(UploadKeys))
  BY <1>1 DEF DataTypes
<1> USE DEF tables, At
<1>6. ASSUME NEW d \in Drivers, Sync(d) PROVE Goal
  <2>1. CASE SyncEnqueue(d)
    <3>1. cur[d] \in Torrents  BY <1>1, <2>1 DEF SyncEnqueue, Handles
    <3> QED  BY <1>2, <2>1, <3>1 DEF SyncEnqueue, TableStep
  <2> QED  BY <1>2, <1>6, <2>1
           DEF Sync, SyncStatus, SyncPauseAll, SyncList, SyncDone, SyncRecord
<1>7. ASSUME NEW d \in Drivers, Convert(d) PROVE Goal
  <2>1. pc[d] \in ConvPCs =>
          job[d] \in DOMAIN conv /\ att[d] \in Nat /\ Target(d) \in Outputs
    BY <1>1, HandlesAreTyped DEF Handles, LocalTypes
  <2>2. CASE ConvMark(d)
    <3>1. job[d] \in DOMAIN conv /\ att[d] \in Nat
      BY <2>1, <2>2 DEF ConvMark, ConvPCs
    <3> QED  BY <1>2, <1>3, <1>5, <2>2, <3>1, MarkRunningUpdates DEF ConvMark
  <2>3. CASE ConvFailed(d)
    <3>1. job[d] \in DOMAIN conv /\ Requeue(att[d]) \in BOOLEAN
      BY <2>1, <2>3 DEF ConvFailed, ConvPCs, Requeue
    <3> QED  BY <1>2, <1>3, <1>5, <2>3, <3>1, MarkFailedUpdates DEF ConvFailed
  <2>4. CASE ConvDone(d)
    <3>1. job[d] \in DOMAIN conv  BY <2>1, <2>4 DEF ConvDone, ConvPCs
    <3> QED  BY <1>2, <1>3, <1>5, <2>4, <3>1, MarkDoneUpdates DEF ConvDone
  <2>5. CASE ConvEnqueueUpload(d)
    <3>1. <<Target(d), today>> \in UploadKeys
      BY <1>1, <2>1, <2>5 DEF ConvEnqueueUpload, ConvPCs, UploadKeys, DataTypes
    <3> QED  BY <1>2, <2>5, <3>1 DEF ConvEnqueueUpload, TableStep
  <2> QED  BY <1>2, <1>7, <2>2, <2>3, <2>4, <2>5
           DEF Convert, ConvNext, ConvStart, ConvFinish
<1>8. ASSUME NEW d \in Drivers, Upload(d) PROVE Goal
  <2>1. pc[d] \in UplPCs => job[d] \in DOMAIN upl /\ att[d] \in Nat
    BY <1>1 DEF Handles, LocalTypes
  <2>2. CASE UplMark(d)
    <3>1. job[d] \in DOMAIN upl /\ att[d] \in Nat
      BY <2>1, <2>2 DEF UplMark, UplPCs
    <3> QED  BY <1>2, <1>4, <1>5, <2>2, <3>1, MarkRunningUpdates DEF UplMark
  <2>3. CASE UplFailed(d)
    <3>1. job[d] \in DOMAIN upl /\ Requeue(att[d]) \in BOOLEAN
      BY <2>1, <2>3 DEF UplFailed, UplPCs, Requeue
    <3> QED  BY <1>2, <1>4, <1>5, <2>3, <3>1, MarkFailedUpdates DEF UplFailed
  <2>4. CASE UplDone(d)
    <3>1. job[d] \in DOMAIN upl  BY <2>1, <2>4 DEF UplDone, UplPCs
    <3> QED  BY <1>2, <1>4, <1>5, <2>4, <3>1, MarkDoneUpdates DEF UplDone
  <2> QED  BY <1>2, <1>8, <2>2, <2>3, <2>4 DEF Upload, UplStatus, UplNext, UplPut
<1>9. CASE Operator
  <2>1. ASSUME NEW id \in DOMAIN conv, PauseConversionJob(id) PROVE Goal
    BY <1>3, <1>5, <2>1, PauseUpdates DEF PauseConversionJob
  <2>2. ASSUME NEW id \in DOMAIN conv, ResumeConversionJob(id) PROVE Goal
    <3>1. Updates(Torrents, conv, Resume(conv, id), id)  BY <1>5, ResumeUpdates
    <3> QED  BY <1>3, <2>2, <3>1 DEF ResumeConversionJob
  <2>3. ASSUME NEW id \in DOMAIN upl, PauseUploadJob(id) PROVE Goal
    BY <1>4, <1>5, <2>3, PauseUpdates DEF PauseUploadJob
  <2>4. ASSUME NEW id \in DOMAIN upl, ResumeUploadJob(id) PROVE Goal
    <3>1. Updates(UploadKeys, upl, Resume(upl, id), id)  BY <1>5, ResumeUpdates
    <3> QED  BY <1>4, <2>4, <3>1 DEF ResumeUploadJob
  <2>5. ASSUME NEW t \in Torrents, PauseTorrent(t) \/ ResumeTorrent(t)
        PROVE  Goal
    BY <1>2, <2>5 DEF PauseTorrent, ResumeTorrent
  <2> QED  BY <1>9, <2>1, <2>2, <2>3, <2>4, <2>5 DEF Operator
<1>10. CASE Environment
  <2>1. ASSUME NEW id \in DOMAIN conv, ConvBackoffElapses(id) PROVE Goal
    <3>1. Updates(Torrents, conv, BackoffElapsed(conv, id), id)
      BY <1>5, BackoffUpdates
    <3> QED  BY <1>3, <2>1, <3>1 DEF ConvBackoffElapses
  <2>2. ASSUME NEW id \in DOMAIN upl, UplBackoffElapses(id) PROVE Goal
    <3>1. Updates(UploadKeys, upl, BackoffElapsed(upl, id), id)
      BY <1>5, BackoffUpdates
    <3> QED  BY <1>4, <2>2, <3>1 DEF UplBackoffElapses
  <2> QED  BY <1>2, <1>10, <2>1, <2>2
           DEF Environment, ClockTicks, TorrentCompletes, VPNChanges, Midnight, Crash
<1>11. CASE UNCHANGED vars  BY <1>2, <1>11 DEF vars
<1> QED  BY <1>6, <1>7, <1>8, <1>9, <1>10, <1>11 DEF Next, Step

(* However many drivers list the same completed torrents and finish the    *)
(* same conversions, no conversion and no upload key is queued twice.      *)
THEOREM KeysStayUnique == Spec => []OneRowPerKey
<1>1. Init => OneRowPerKey  BY DEF Init, OneRowPerKey
<1>2. TypeInv /\ OneRowPerKey /\ [Next]_vars => OneRowPerKey'
  <2> SUFFICES ASSUME TypeInv, OneRowPerKey, [Next]_vars PROVE OneRowPerKey'
    OBVIOUS
  <2>1. conv \in Seq(Row(Torrents)) /\ upl \in Seq(Row(UploadKeys))
    BY DEF TypeInv, TypeOK
  <2>2. Distinct(conv) /\ Distinct(upl)  BY DEF OneRowPerKey, Distinct
  <2>3. Distinct(conv') /\ Distinct(upl')
    BY <2>1, <2>2, StepsAreTableSteps, DistinctKept
  <2> QED  BY <2>3 DEF OneRowPerKey, Distinct
<1> QED  BY <1>1, <1>2, TypeInit, TypeStep, PTL DEF Spec
=============================================================================
