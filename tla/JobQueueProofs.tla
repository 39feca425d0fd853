--------------------------- MODULE JobQueueProofs ---------------------------
(***************************************************************************)
(* What each statement on a job table does to the rows, for every table    *)
(* and every set of keys.  Other proofs use these facts instead of the     *)
(* definitions of the statements.                                          *)
(***************************************************************************)
EXTENDS JobQueue, SequenceTheorems, TLAPS

(* new is the table tab after an UPDATE of row id that leaves its key.     *)
Updates(K, tab, new, id) ==
  /\ new \in Seq(Row(K))
  /\ Len(new) = Len(tab)
  /\ DOMAIN new = DOMAIN tab
  /\ new[id].key = tab[id].key
  /\ \A i \in DOMAIN tab : i # id => new[i] = tab[i]
  /\ \A i \in DOMAIN tab : new[i].key = tab[i].key

(* Replacing a row by a row with the same key updates the table.           *)
LEMMA UpdateRow ==
  ASSUME NEW K, NEW tab \in Seq(Row(K)), NEW id \in DOMAIN tab,
         NEW row \in Row(K), row.key = tab[id].key
  PROVE  /\ Updates(K, tab, [tab EXCEPT ![id] = row], id)
         /\ [tab EXCEPT ![id] = row][id] = row
<1> DEFINE new == [tab EXCEPT ![id] = row]
<1>1. DOMAIN tab = 1 .. Len(tab)  BY LenProperties
<1>2. id \in 1 .. Len(tab)  BY <1>1
<1>3. /\ new \in Seq(Row(K)) /\ Len(new) = Len(tab)
      /\ \A j \in 1 .. Len(tab) : new[j] = IF j = id THEN row ELSE tab[j]
  BY <1>2, ExceptSeq
<1>4. DOMAIN new = DOMAIN tab  OBVIOUS
<1> QED  BY <1>1, <1>3, <1>4 DEF Updates

(* The columns of a stored row.                                            *)
LEMMA RowOf ==
  ASSUME NEW K, NEW tab \in Seq(Row(K)), NEW id \in DOMAIN tab
  PROVE  /\ tab[id] \in Row(K)
         /\ tab[id].key \in K /\ tab[id].status \in Status
         /\ tab[id].attempts \in Nat /\ tab[id].due \in BOOLEAN
         /\ id \in Nat /\ id > 0
<1>1. DOMAIN tab = 1 .. Len(tab) /\ Len(tab) \in Nat  BY LenProperties
<1>2. tab[id] \in Row(K)  BY <1>1, ElementOfSeq
<1> QED  BY <1>1, <1>2 DEF Row

LEMMA MarkRunningUpdates ==
  ASSUME NEW K, NEW tab \in Seq(Row(K)), NEW id \in DOMAIN tab, NEW n \in Nat
  PROVE  /\ Updates(K, tab, MarkRunning(tab, id, n), id)
         /\ MarkRunning(tab, id, n)[id].status = "running"
         /\ MarkRunning(tab, id, n)[id].attempts = n
         /\ MarkRunning(tab, id, n)[id].due = tab[id].due
<1> DEFINE row == [tab[id] EXCEPT !.status = "running", !.attempts = n]
<1>0. tab[id] \in Row(K)  BY RowOf
<1>1. row \in Row(K) /\ row.key = tab[id].key
  BY <1>0 DEF Row, Status
<1>2. MarkRunning(tab, id, n) = [tab EXCEPT ![id] = row]
  BY DEF MarkRunning
<1>3. row.status = "running" /\ row.attempts = n /\ row.due = tab[id].due
  BY <1>0 DEF Row
<1> HIDE DEF row
<1>4. /\ Updates(K, tab, [tab EXCEPT ![id] = row], id)
      /\ [tab EXCEPT ![id] = row][id] = row
  BY <1>1, UpdateRow
<1> QED  BY <1>2, <1>3, <1>4

LEMMA MarkDoneUpdates ==
  ASSUME NEW K, NEW tab \in Seq(Row(K)), NEW id \in DOMAIN tab
  PROVE  /\ Updates(K, tab, MarkDone(tab, id), id)
         /\ MarkDone(tab, id)[id].status = "done"
         /\ MarkDone(tab, id)[id].attempts = tab[id].attempts
         /\ MarkDone(tab, id)[id].due = tab[id].due
<1> DEFINE row == [tab[id] EXCEPT !.status = "done"]
<1>0. tab[id] \in Row(K)  BY RowOf
<1>1. row \in Row(K) /\ row.key = tab[id].key
  BY <1>0 DEF Row, Status
<1>2. MarkDone(tab, id) = [tab EXCEPT ![id] = row]
  BY DEF MarkDone
<1>3. /\ row.status = "done" /\ row.attempts = tab[id].attempts
      /\ row.due = tab[id].due
  BY <1>0 DEF Row
<1> HIDE DEF row
<1>4. /\ Updates(K, tab, [tab EXCEPT ![id] = row], id)
      /\ [tab EXCEPT ![id] = row][id] = row
  BY <1>1, UpdateRow
<1> QED  BY <1>2, <1>3, <1>4

LEMMA MarkFailedUpdates ==
  ASSUME NEW K, NEW tab \in Seq(Row(K)), NEW id \in DOMAIN tab,
         NEW requeue \in BOOLEAN
  PROVE  /\ Updates(K, tab, MarkFailed(tab, id, requeue), id)
         /\ MarkFailed(tab, id, requeue)[id].status =
              IF requeue THEN "queued" ELSE "failed"
         /\ MarkFailed(tab, id, requeue)[id].attempts = tab[id].attempts
         /\ MarkFailed(tab, id, requeue)[id].due = ~ requeue
<1> DEFINE row == [tab[id] EXCEPT !.status = IF requeue THEN "queued" ELSE "failed",
                                  !.due = ~ requeue]
<1>0. tab[id] \in Row(K)  BY RowOf
<1>1. row \in Row(K) /\ row.key = tab[id].key
  BY <1>0 DEF Row, Status
<1>2. MarkFailed(tab, id, requeue) = [tab EXCEPT ![id] = row]
  BY DEF MarkFailed
<1>3. /\ row.status = IF requeue THEN "queued" ELSE "failed"
      /\ row.attempts = tab[id].attempts /\ row.due = ~ requeue
  BY <1>0 DEF Row
<1> HIDE DEF row
<1>4. /\ Updates(K, tab, [tab EXCEPT ![id] = row], id)
      /\ [tab EXCEPT ![id] = row][id] = row
  BY <1>1, UpdateRow
<1> QED  BY <1>2, <1>3, <1>4

LEMMA PauseUpdates ==
  ASSUME NEW K, NEW tab \in Seq(Row(K)), NEW id \in DOMAIN tab
  PROVE  /\ Updates(K, tab, Pause(tab, id), id)
         /\ Pause(tab, id)[id].status = "paused"
         /\ Pause(tab, id)[id].attempts = tab[id].attempts
         /\ Pause(tab, id)[id].due = tab[id].due
<1> DEFINE row == [tab[id] EXCEPT !.status = "paused"]
<1>0. tab[id] \in Row(K)  BY RowOf
<1>1. row \in Row(K) /\ row.key = tab[id].key
  BY <1>0 DEF Row, Status
<1>2. Pause(tab, id) = [tab EXCEPT ![id] = row]
  BY DEF Pause
<1>3. /\ row.status = "paused" /\ row.attempts = tab[id].attempts
      /\ row.due = tab[id].due
  BY <1>0 DEF Row
<1> HIDE DEF row
<1>4. /\ Updates(K, tab, [tab EXCEPT ![id] = row], id)
      /\ [tab EXCEPT ![id] = row][id] = row
  BY <1>1, UpdateRow
<1> QED  BY <1>2, <1>3, <1>4

LEMMA ResumeUpdates ==
  ASSUME NEW K, NEW tab \in Seq(Row(K)), NEW id \in DOMAIN tab
  PROVE  /\ Updates(K, tab, Resume(tab, id), id)
         /\ Resume(tab, id)[id].status = "queued"
         /\ Resume(tab, id)[id].attempts = tab[id].attempts
         /\ Resume(tab, id)[id].due = TRUE
<1> DEFINE row == [tab[id] EXCEPT !.status = "queued", !.due = TRUE]
<1>0. tab[id] \in Row(K)  BY RowOf
<1>1. row \in Row(K) /\ row.key = tab[id].key
  BY <1>0 DEF Row, Status
<1>2. Resume(tab, id) = [tab EXCEPT ![id] = row]
  BY DEF Resume
<1>3. /\ row.status = "queued" /\ row.attempts = tab[id].attempts
      /\ row.due = TRUE
  BY <1>0 DEF Row
<1> HIDE DEF row
<1>4. /\ Updates(K, tab, [tab EXCEPT ![id] = row], id)
      /\ [tab EXCEPT ![id] = row][id] = row
  BY <1>1, UpdateRow
<1> QED  BY <1>2, <1>3, <1>4

LEMMA BackoffUpdates ==
  ASSUME NEW K, NEW tab \in Seq(Row(K)), NEW id \in DOMAIN tab
  PROVE  /\ Updates(K, tab, BackoffElapsed(tab, id), id)
         /\ BackoffElapsed(tab, id)[id].status = tab[id].status
         /\ BackoffElapsed(tab, id)[id].attempts = tab[id].attempts
         /\ BackoffElapsed(tab, id)[id].due = TRUE
<1> DEFINE row == [tab[id] EXCEPT !.due = TRUE]
<1>0. tab[id] \in Row(K)  BY RowOf
<1>1. row \in Row(K) /\ row.key = tab[id].key
  BY <1>0 DEF Row
<1>2. BackoffElapsed(tab, id) = [tab EXCEPT ![id] = row]
  BY DEF BackoffElapsed
<1>3. /\ row.status = tab[id].status /\ row.attempts = tab[id].attempts
      /\ row.due = TRUE
  BY <1>0 DEF Row
<1> HIDE DEF row
<1>4. /\ Updates(K, tab, [tab EXCEPT ![id] = row], id)
      /\ [tab EXCEPT ![id] = row][id] = row
  BY <1>1, UpdateRow
<1> QED  BY <1>2, <1>3, <1>4

(* What an INSERT may do: nothing when the key is there, else one new row  *)
(* behind the others.                                                      *)
LEMMA InsertIgnoreInserts ==
  ASSUME NEW K, NEW tab \in Seq(Row(K)), NEW k \in K
  PROVE  /\ InsertIgnore(tab, k) \in Seq(Row(K))
         /\ DOMAIN tab \subseteq DOMAIN InsertIgnore(tab, k)
         /\ \A i \in DOMAIN tab : InsertIgnore(tab, k)[i] = tab[i]
         /\ \A i \in DOMAIN InsertIgnore(tab, k) \ DOMAIN tab :
              /\ InsertIgnore(tab, k)[i] = NewRow(k)
              /\ \A j \in DOMAIN InsertIgnore(tab, k) :
                   InsertIgnore(tab, k)[j].key = k => j = i
         /\ HasKey(InsertIgnore(tab, k), k)
<1>1. CASE HasKey(tab, k)  BY <1>1 DEF InsertIgnore
<1>2. CASE ~ HasKey(tab, k)
  <2> DEFINE new == Append(tab, NewRow(k))
  <2>1. NewRow(k) \in Row(K) /\ NewRow(k).key = k
    BY DEF NewRow, Row, Status
  <2>2. DOMAIN tab = 1 .. Len(tab) /\ Len(tab) \in Nat  BY LenProperties
  <2>3. /\ new \in Seq(Row(K)) /\ Len(new) = Len(tab) + 1
        /\ \A i \in 1 .. Len(tab) : new[i] = tab[i]
        /\ new[Len(tab) + 1] = NewRow(k)
    BY <2>1
  <2>4. DOMAIN new = 1 .. Len(tab) + 1  BY <2>2, <2>3, LenProperties
  <2>5. \A j \in DOMAIN new : new[j].key = k => j = Len(tab) + 1
    BY <1>2, <2>2, <2>3, <2>4 DEF HasKey
  <2>6. HasKey(new, k)  BY <2>1, <2>2, <2>3, <2>4 DEF HasKey
  <2>7. InsertIgnore(tab, k) = new  BY <1>2 DEF InsertIgnore
  <2> HIDE DEF new
  <2> QED  BY <2>2, <2>3, <2>4, <2>5, <2>6, <2>7
<1> QED  BY <1>1, <1>2

(* NextQueued offers a row that is queued and due.                         *)
LEMMA NextQueuedIsReady ==
  ASSUME NEW tab, NEW id \in NextQueued(tab)
  PROVE  id \in DOMAIN tab /\ tab[id].status = "queued" /\ tab[id].due
BY DEF NextQueued, Ready
=============================================================================
