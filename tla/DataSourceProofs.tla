-------------------------- MODULE DataSourceProofs --------------------------
(***************************************************************************)
(* The safety properties of DataSource, proved for any sets of clients and *)
(* tasks, any target_rows and any number and size of inserts.              *)
(***************************************************************************)
EXTENDS RowLayout, TLAPS

USE DataSourceAssumption DEF DataSourceAssumption, Threads

-----------------------------------------------------------------------------
(* Runs of consecutive rows.                                               *)

(* Rows(a, n) is a sequence of n row numbers.                              *)
LEMMA RowsType ==
  ASSUME NEW a \in Nat, NEW n \in Nat
  PROVE  /\ Rows(a, n) \in Seq(Nat)
         /\ Len(Rows(a, n)) = n
         /\ \A i \in 1..n : Rows(a, n)[i] = a + i
  BY DEF Rows

(* A part of a run, as take_batch_locked cuts it out of a chunk, is a run. *)
LEMMA RowsPart ==
  ASSUME NEW a \in Nat, NEW n \in Nat, NEW first \in 1..n, NEW last \in first..n
  PROVE  SubSeq(Rows(a, n), first, last) = Rows(a + first - 1, last - first + 1)
  BY DEF Rows

(* Two adjacent runs, as they meet in a batch, are one run.                *)
LEMMA RowsJoin ==
  ASSUME NEW a \in Nat, NEW m \in Nat, NEW k \in Nat
  PROVE  Rows(a, m) \o Rows(a + m, k) = Rows(a, m + k)
  BY DEF Rows

-----------------------------------------------------------------------------
(* The initial state.                                                      *)

(* A new source satisfies the inductive invariant.                         *)
LEMMA InitIInv == Init => IInv
<1> SUFFICES ASSUME Init PROVE IInv
  OBVIOUS
<1> USE DEF Init
<1>1. TypeOK
  <2>1. NoBatch \in InputBatch
    BY DEF NoBatch, InputBatch
  <2>2. batch \in [Threads -> InputBatch]
    BY <2>1
  <2>3. /\ pc \in [Threads -> ClientPC \cup TaskPC]
        /\ \A c \in Clients : pc[c] \in ClientPC
        /\ \A t \in Tasks : pc[t] \in TaskPC
    BY DEF ClientPC, TaskPC
  <2>4. chunks \in Seq(RowChunk) /\ delivered \in Seq(InputBatch)
    OBVIOUS
  <2> QED
    BY <2>2, <2>3, <2>4 DEF TypeOK
<1>2. QueueInv
  BY DEF QueueInv
<1>3. TakeInv
  <2>1. \A t \in Threads : pc[t] # "taking" /\ mu # t
    OBVIOUS
  <2>2. Taken(delivered) = Left
    BY DEF Taken, Left
  <2> QED
    BY <2>1, <2>2 DEF TakeInv
<1>4. ExactlyOnce /\ LastIsFinal
  BY DEF ExactlyOnce, LastIsFinal
<1>5. FailedOnlyWhenDrained /\ NoLostWakeup
  BY DEF FailedOnlyWhenDrained, NoLostWakeup
<1> QED
  BY <1>1, <1>2, <1>3, <1>4, <1>5 DEF IInv

-----------------------------------------------------------------------------
(* Steps that only move program counters.                                  *)

(* A step that leaves mutex, queue, batches and history alone, and lets    *)
(* nobody into or out of take_batch_locked, preserves what is said of them.*)
LEMMA PcStep ==
  ASSUME IInv, \A t \in Threads : pc'[t] = "taking" <=> pc[t] = "taking",
         UNCHANGED <<mu, rows_ready, closed, chunks, batch, accepted, delivered>>
  PROVE  QueueInv' /\ TakeInv' /\ ExactlyOnce' /\ LastIsFinal'
<1> USE DEF IInv
<1>1. QueueInv'
  BY DEF QueueInv, ChunkOK, Before, Left
<1>2. TakeInv'
  BY DEF TakeInv, TakeOK, Missing, Left, Taken, LastRow
<1>3. ExactlyOnce' /\ LastIsFinal'
  BY DEF ExactlyOnce, LastIsFinal, LastRow
<1> QED
  BY <1>1, <1>2, <1>3

(* The notification wakes every waiting task, so none is left to be lost.  *)
LEMMA NotifyAllIInv ==
  ASSUME IInv, NEW c \in Clients, NotifyAll(c)
  PROVE  IInv'
<1> USE DEF IInv, NotifyAll
<1>1. TypeOK'
  BY DEF TypeOK, ClientPC, TaskPC
<1>2. \A t \in Threads : pc'[t] = "taking" <=> pc[t] = "taking"
  OBVIOUS
<1>3. QueueInv' /\ TakeInv' /\ ExactlyOnce' /\ LastIsFinal'
  BY <1>2, PcStep
<1>4. FailedOnlyWhenDrained'
  BY DEF FailedOnlyWhenDrained, Taken, LastRow
<1>5. NoLostWakeup'
  BY DEF NoLostWakeup
<1> QED
  BY <1>1, <1>3, <1>4, <1>5

(* A task that starts, waits, fails or wakes.  It waits only if there is   *)
(* nothing to wait for, and fails only if all rows were returned.          *)
LEMMA TaskStepIInv ==
  ASSUME IInv, NEW t \in Tasks,
         GetBatchAsync(t) \/ Wait(t) \/ FailAsync(t) \/ SpuriousWakeUp(t)
  PROVE  IInv'
<1> USE DEF IInv, GetBatchAsync, Wait, FailAsync, SpuriousWakeUp
<1>0. pc \in [Threads -> ClientPC \cup TaskPC]
  BY DEF TypeOK
<1>1. TypeOK'
  BY DEF TypeOK, ClientPC, TaskPC
<1>2. \A u \in Threads : pc'[u] = "taking" <=> pc[u] = "taking"
  BY <1>0
<1>3. QueueInv' /\ TakeInv' /\ ExactlyOnce' /\ LastIsFinal'
  BY <1>2, PcStep
<1>4. FailedOnlyWhenDrained'
  <2>1. CASE FailAsync(t)
    <3>1. closed /\ rows_ready = 0 /\ mu = NoThread
      BY <2>1 DEF WakeUp, HasBatch, TypeOK
    <3>2. Taken(delivered) = accepted
      BY <3>1 DEF TakeInv, Left, TypeOK
    <3> QED
      BY <1>0, <2>1, <3>1, <3>2 DEF FailedOnlyWhenDrained, Taken, LastRow
  <2>2. CASE ~FailAsync(t)
    BY <1>0, <2>2 DEF FailedOnlyWhenDrained, Taken, LastRow
  <2> QED
    BY <2>1, <2>2
<1>5. NoLostWakeup'
  BY <1>0 DEF NoLostWakeup, WakeUp
<1> QED
  BY <1>1, <1>3, <1>4, <1>5

-----------------------------------------------------------------------------
(* insert, close and the start of a take.                                  *)

(* The new chunk starts where the deque ended, and a notification follows  *)
(* if the insert made the waiting tasks' predicate true.                   *)
LEMMA InsertIInv ==
  ASSUME IInv, NEW c \in Clients, NEW n \in Nat, Insert(c, n)
  PROVE  IInv'
<1> DEFINE new == [data |-> Rows(accepted, n), rows |-> n, offset_rows |-> 0]
<1> USE DEF IInv
<1>1. /\ n >= 1 /\ pc[c] = "ready" /\ mu = NoThread /\ ~closed
      /\ chunks' = Append(chunks, new)
      /\ rows_ready' = rows_ready + n /\ accepted' = accepted + n
      /\ pc' = IF NotifyDue(n) THEN [pc EXCEPT ![c] = "notify"] ELSE pc
      /\ UNCHANGED <<mu, closed, batch, delivered, fails>>
  BY DEF Insert
<1> HIDE DEF new
<1>2. /\ rows_ready \in Nat /\ accepted \in Nat /\ chunks \in Seq(RowChunk)
      /\ pc \in [Threads -> ClientPC \cup TaskPC]
  BY DEF TypeOK
<1>3. new \in RowChunk /\ Before(new) = accepted
  <2>1. /\ Rows(accepted, n) \in Seq(Nat)
        /\ \A i \in 1..n : Rows(accepted, n)[i] = accepted + i
    BY <1>2, RowsType
  <2>2. Rows(accepted, n)[1] = accepted + 1
    BY <1>1, <2>1
  <2>3. Before(new) = accepted
    BY <1>2, <2>2 DEF new, Before
  <2> QED
    BY <2>1, <2>3 DEF new, RowChunk
<1>4. TypeOK'
  BY <1>1, <1>2, <1>3 DEF TypeOK, ClientPC
<1>5. QueueInv'
  <2>1. /\ Len(chunks') = Len(chunks) + 1
        /\ \A i \in 1..Len(chunks) : chunks'[i] = chunks[i]
        /\ chunks'[Len(chunks) + 1] = new
    BY <1>1, <1>2
  <2>2. \A i \in 1..Len(chunks') : ChunkOK(i)'
    <3> TAKE i \in 1..Len(chunks')
    <3>1. CASE i <= Len(chunks)
      <4>1. chunks'[i] = chunks[i] /\ chunks[i] \in RowChunk /\ ChunkOK(i)
        BY <1>2, <2>1, <3>1 DEF QueueInv
      <4> QED
        BY <1>1, <1>2, <4>1 DEF ChunkOK, RowChunk
    <3>2. CASE i = Len(chunks) + 1
      BY <1>1, <1>2, <1>3, <2>1, <3>2 DEF ChunkOK, new, Before
    <3> QED
      BY <1>2, <2>1, <3>1, <3>2
  <2>3. \A i \in 1..Len(chunks') - 1 :
          Before(chunks'[i + 1]) = Before(chunks'[i]) + chunks'[i].rows
    <3> TAKE i \in 1..Len(chunks') - 1
    <3>1. CASE i < Len(chunks)
      BY <1>2, <2>1, <3>1 DEF QueueInv
    <3>2. CASE i = Len(chunks)
      BY <1>2, <1>3, <2>1, <3>2 DEF QueueInv
    <3> QED
      BY <1>2, <2>1, <3>1, <3>2
  <2>4. Before(chunks'[1]) + chunks'[1].offset_rows = Left'
    <3>1. Left' = Left
      BY <1>1, <1>2 DEF Left
    <3>2. CASE chunks = <<>>
      BY <1>1, <1>2, <1>3, <2>1, <3>1, <3>2 DEF QueueInv, Left, new
    <3>3. CASE chunks # <<>>
      BY <1>2, <2>1, <3>1, <3>3 DEF QueueInv
    <3> QED
      BY <3>2, <3>3
  <2>5. Before(chunks'[Len(chunks')]) + chunks'[Len(chunks')].rows = accepted'
    BY <1>1, <1>2, <1>3, <2>1 DEF new
  <2>6. rows_ready' <= accepted' /\ chunks' # <<>>
    BY <1>1, <1>2, <2>1 DEF QueueInv
  <2> QED
    BY <2>2, <2>3, <2>4, <2>5, <2>6 DEF QueueInv
<1>6. TakeInv'
  <2>1. \A t \in Threads : pc'[t] = "taking" <=> pc[t] = "taking"
    BY <1>1, <1>2
  <2>2. \A t \in Threads : pc[t] # "taking" /\ mu # t
    BY <1>1 DEF TakeInv
  <2>3. Taken(delivered)' = Left'
    BY <1>1, <1>2 DEF TakeInv, Taken, LastRow, Left
  <2> QED
    BY <1>1, <2>1, <2>2, <2>3 DEF TakeInv
<1>7. ExactlyOnce'
  BY <1>1 DEF ExactlyOnce, LastRow
<1>8. LastIsFinal'
  BY <1>1 DEF LastIsFinal
<1>9. FailedOnlyWhenDrained'
  BY <1>1, <1>2 DEF FailedOnlyWhenDrained
<1>10. NoLostWakeup'
  BY <1>1, <1>2 DEF NoLostWakeup, WakeUp, NotifyDue
<1> QED
  BY <1>4, <1>5, <1>6, <1>7, <1>8, <1>9, <1>10

(* Nobody is inside take_batch_locked when the source is closed, and the   *)
(* closer owes the notification.                                           *)
LEMMA CloseIInv ==
  ASSUME IInv, NEW c \in Clients, Close(c)
  PROVE  IInv'
<1> USE DEF IInv, Close
<1>1. pc \in [Threads -> ClientPC \cup TaskPC]
  BY DEF TypeOK
<1>2. TypeOK'
  BY <1>1 DEF TypeOK, ClientPC
<1>3. QueueInv'
  BY DEF QueueInv, ChunkOK, Before, Left
<1>4. TakeInv'
  <2>1. \A t \in Threads : pc[t] # "taking" /\ mu # t
    BY DEF TakeInv
  <2>2. \A t \in Threads : pc'[t] # "taking"
    BY <1>1, <2>1
  <2> QED
    BY <2>1, <2>2 DEF TakeInv, Taken, LastRow, Left
<1>5. ExactlyOnce' /\ LastIsFinal'
  BY DEF ExactlyOnce, LastIsFinal, LastRow
<1>6. FailedOnlyWhenDrained' /\ NoLostWakeup'
  BY <1>1 DEF FailedOnlyWhenDrained, NoLostWakeup
<1> QED
  BY <1>2, <1>3, <1>4, <1>5, <1>6

(* A take starts with rows in the deque for the whole batch, and its mark  *)
(* is right: is_last is decided under the lock that guards the rows.       *)
LEMMA BeginTakeIInv ==
  ASSUME IInv, NEW t \in Threads, mu = NoThread, pc[t] \in {"ready", "running"},
         BeginTake(t)
  PROVE  IInv'
<1> USE DEF IInv
<1> DEFINE b == [data |-> <<>>, rows |-> RowsToTake, is_last |-> IsLast]
<1>1. /\ HasBatch /\ mu' = t /\ pc' = [pc EXCEPT ![t] = "taking"]
      /\ batch' = [batch EXCEPT ![t] = b]
      /\ UNCHANGED <<rows_ready, closed, chunks, accepted, delivered, fails>>
  BY DEF BeginTake
<1>2. /\ rows_ready \in Nat /\ accepted \in Nat /\ closed \in BOOLEAN
      /\ pc \in [Threads -> ClientPC \cup TaskPC]
      /\ batch \in [Threads -> InputBatch]
  BY DEF TypeOK
<1>3. rows_ready > 0 /\ RowsToTake \in 1..rows_ready
  BY <1>1, <1>2 DEF HasBatch, RowsToTake
<1>4. b \in InputBatch
  BY <1>2, <1>3 DEF InputBatch, IsLast
<1>5. TypeOK'
  BY <1>1, <1>2, <1>4 DEF TypeOK, ClientPC, TaskPC
<1>6. QueueInv'
  BY <1>1 DEF QueueInv, ChunkOK, Before, Left
<1>7. TakeInv'
  <2>1. \A u \in Threads : pc'[u] = "taking" <=> mu' = u
    BY <1>1, <1>2 DEF TakeInv
  <2>2. batch'[t] = b
    BY <1>1, <1>2
  <2>3. b.rows \in 1..TargetRows /\ (b.rows = TargetRows \/ b.is_last)
    <3>1. b.rows = RowsToTake /\ b.is_last = IsLast
      OBVIOUS
    <3>2. RowsToTake \in 1..TargetRows /\ (RowsToTake = TargetRows \/ IsLast)
      BY <1>2, <1>3 DEF RowsToTake, IsLast
    <3> QED
      BY <3>1, <3>2
  <2>4. b.data = Rows(Taken(delivered), 0) /\ Taken(delivered) = Left
    BY DEF Rows, TakeInv
  <2>5. b.is_last <=> (closed /\ b.rows = rows_ready)
    BY <1>1, <1>2 DEF IsLast, RowsToTake, HasBatch
  <2>6. TakeOK(t)'
    <3>1. Len(batch'[t].data) = 0 /\ Missing(t)' = b.rows
      BY <1>2, <1>3, <2>2 DEF Missing
    <3>2. Taken(delivered)' = Taken(delivered) /\ Left' = Left /\ Left \in Int
      BY <1>1, <1>2 DEF Taken, LastRow, Left
    <3> QED
      BY <1>1, <1>2, <1>3, <2>2, <2>3, <2>4, <2>5, <3>1, <3>2 DEF TakeOK
  <2> QED
    BY <1>1, <2>1, <2>6 DEF TakeInv
<1>8. ExactlyOnce'
  BY <1>1 DEF ExactlyOnce, LastRow
<1>9. LastIsFinal'
  BY <1>1, <1>3 DEF LastIsFinal
<1>10. FailedOnlyWhenDrained'
  BY <1>1, <1>2 DEF FailedOnlyWhenDrained, Taken, LastRow
<1>11. NoLostWakeup'
  BY <1>1, <1>2 DEF NoLostWakeup, WakeUp
<1> QED
  BY <1>5, <1>6, <1>7, <1>8, <1>9, <1>10, <1>11

-----------------------------------------------------------------------------
(* take_batch_locked.                                                      *)

(* The last row returned so far is a row, or there is none.                *)
LEMMA TakenNat ==
  ASSUME IInv
  PROVE  Taken(delivered) \in Nat
<1> DEFINE b == delivered[Len(delivered)]
<1> USE DEF IInv
<1>1. CASE delivered = <<>>
  BY <1>1 DEF Taken
<1>2. CASE delivered # <<>>
  <2>1. Len(delivered) \in 1..Len(delivered) /\ b \in InputBatch
    BY <1>2 DEF TypeOK
  <2>2. b.data \in Seq(Nat) /\ b.rows \in 1..TargetRows
    BY <2>1 DEF ExactlyOnce, InputBatch
  <2>3. Len(b.data) = b.rows
    <3>1. PICK before : b.data = Rows(before, b.rows)
      BY <2>1 DEF ExactlyOnce
    <3> QED
      BY <2>2, <3>1 DEF Rows
  <2>4. b.data[b.rows] \in Nat
    BY <2>2, <2>3
  <2> QED
    BY <1>2, <2>4 DEF Taken, LastRow
<1> QED
  BY <1>1, <1>2

(* The iteration of the copying loop moves the next rows of the stream,    *)
(* and as many of them as it says, from the deque to the batch.            *)
LEMMA CopyMovesRows ==
  ASSUME IInv, NEW t \in Threads, CopyFromFront(t)
  PROVE  LET k == TakeRows(t) IN
         /\ mu = t /\ TakeOK(t) /\ chunks # <<>>
         /\ chunks[1] \in RowChunk /\ ChunkOK(1)
         /\ k \in 1..Missing(t)
         /\ k <= chunks[1].rows - chunks[1].offset_rows
         /\ rows_ready' = rows_ready - k
         /\ batch'[t].data = Rows(Taken(delivered), Len(batch[t].data) + k)
<1> DEFINE k == TakeRows(t)
           o == chunks[1].offset_rows
           src == SubSeq(chunks[1].data, o + 1, o + 1 + k - 1)
<1> USE DEF IInv
<1>1. /\ rows_ready \in Nat /\ accepted \in Nat /\ chunks \in Seq(RowChunk)
      /\ batch \in [Threads -> InputBatch]
  BY DEF TypeOK
<1>2. pc[t] = "taking" /\ mu = t /\ TakeOK(t) /\ Missing(t) > 0
  BY DEF CopyFromFront, TakeInv
<1>3. Missing(t) \in 1..rows_ready
  BY <1>1, <1>2 DEF TakeOK
<1>4. chunks # <<>> /\ chunks[1] \in RowChunk /\ ChunkOK(1)
  BY <1>1, <1>3 DEF QueueInv
<1>5. /\ chunks[1].rows \in Nat /\ o \in Nat /\ o < chunks[1].rows
      /\ Before(chunks[1]) \in Nat
      /\ chunks[1].data = Rows(Before(chunks[1]), chunks[1].rows)
  BY <1>4 DEF RowChunk, ChunkOK
<1>6. k \in 1..Missing(t) /\ k <= chunks[1].rows - o
  <2>1. k = IF Missing(t) <= chunks[1].rows - o
            THEN Missing(t) ELSE chunks[1].rows - o
    BY DEF TakeRows
  <2> QED
    BY <1>1, <1>3, <1>5, <2>1
<1>7. src = Rows(Before(chunks[1]) + o, k)
  <2> DEFINE last == o + 1 + k - 1
  <2>1. o + 1 \in 1..chunks[1].rows /\ last \in o + 1..chunks[1].rows
    BY <1>1, <1>3, <1>5, <1>6
  <2>2. src = Rows(Before(chunks[1]) + (o + 1) - 1, last - (o + 1) + 1)
    <3> DEFINE a == Before(chunks[1])
               n == chunks[1].rows
               first == o + 1
    <3>1. a \in Nat /\ n \in Nat /\ first \in 1..n /\ last \in first..n
      BY <1>5, <2>1
    <3>2. src = SubSeq(Rows(a, n), first, last)
      BY <1>5
    <3> HIDE DEF a, n, first, last, src
    <3>3. src = Rows(a + first - 1, last - first + 1)
      BY <3>1, <3>2, RowsPart
    <3> QED
      BY <3>3 DEF a, first
  <2>3. Before(chunks[1]) + (o + 1) - 1 = Before(chunks[1]) + o
    BY <1>5
  <2>4. last - (o + 1) + 1 = k
    BY <1>1, <1>3, <1>5, <1>6
  <2> QED
    BY <2>2, <2>3, <2>4
<1>8. Before(chunks[1]) + o = Taken(delivered) + Len(batch[t].data)
  BY <1>2, <1>4 DEF QueueInv, TakeOK
<1>9. batch'[t].data = batch[t].data \o src
  BY <1>1 DEF CopyFromFront, SrcBegin, InputBatch
<1>10. Len(batch[t].data) \in Nat /\ Taken(delivered) \in Nat
  BY <1>1, TakenNat DEF InputBatch
<1>11. batch[t].data = Rows(Taken(delivered), Len(batch[t].data))
  BY <1>2 DEF TakeOK
<1>12. batch'[t].data = Rows(Taken(delivered), Len(batch[t].data) + k)
  <2>1. src = Rows(Taken(delivered) + Len(batch[t].data), k)
    BY <1>7, <1>8
  <2>2. Missing(t) \in Nat /\ k \in Nat
    BY <1>1, <1>3, <1>6
  <2>3. Rows(Taken(delivered), Len(batch[t].data))
          \o Rows(Taken(delivered) + Len(batch[t].data), k)
        = Rows(Taken(delivered), Len(batch[t].data) + k)
    BY <1>10, <2>2, RowsJoin
  <2> QED
    BY <1>9, <1>11, <2>1, <2>3
<1>13. rows_ready' = rows_ready - k
  BY DEF CopyFromFront, Uncount
<1> QED
  BY <1>2, <1>4, <1>6, <1>12, <1>13

(* The deque after an iteration that took k rows.  Whether the front chunk *)
(* was used up or not, the deque starts where the rows that left it end.   *)
LEMMA ConsumeFront ==
  ASSUME IInv, NEW k \in Nat \ {0}, k <= rows_ready, chunks # <<>>,
         k <= chunks[1].rows - chunks[1].offset_rows,
         chunks' = Consume(k), rows_ready' = rows_ready - k, accepted' = accepted
  PROVE  chunks' \in Seq(RowChunk) /\ QueueInv'
<1> DEFINE front == chunks[1]
<1>1. /\ rows_ready \in Nat /\ accepted \in Nat /\ chunks \in Seq(RowChunk)
      /\ Len(chunks) \in Nat \ {0} /\ QueueInv
  BY DEF IInv, TypeOK
<1>2. front \in RowChunk /\ ChunkOK(1)
  BY <1>1 DEF QueueInv
<1>3. /\ front.rows \in Nat /\ front.offset_rows \in Nat
      /\ Before(front) \in Nat
  BY <1>2 DEF ChunkOK, RowChunk
<1>4. /\ Left' = Left + k /\ Left = accepted - rows_ready
      /\ Before(front) + front.offset_rows = Left
      /\ Before(chunks[Len(chunks)]) + chunks[Len(chunks)].rows = accepted
  BY <1>1 DEF Left, QueueInv
<1>5. CASE front.offset_rows + k = front.rows
  <2>1. /\ chunks' \in Seq(RowChunk) /\ Len(chunks') = Len(chunks) - 1
        /\ \A i \in 1..Len(chunks') : chunks'[i] = chunks[i + 1]
    BY <1>1, <1>5 DEF Consume
  <2>2. \A i \in 1..Len(chunks') : ChunkOK(i)' /\ chunks'[i].offset_rows = 0
    <3> TAKE i \in 1..Len(chunks')
    <3>1. i + 1 \in 1..Len(chunks) /\ i + 1 > 1 /\ ChunkOK(i + 1)
      BY <1>1, <2>1 DEF QueueInv
    <3>2. chunks'[i] = chunks[i + 1]
      BY <2>1
    <3> QED
      BY <3>1, <3>2 DEF ChunkOK
  <2>3. \A i \in 1..Len(chunks') - 1 :
          Before(chunks'[i + 1]) = Before(chunks'[i]) + chunks'[i].rows
    <3> TAKE i \in 1..Len(chunks') - 1
    <3>1. i + 1 \in 1..Len(chunks) - 1 /\ i \in 1..Len(chunks')
          /\ i + 1 \in 1..Len(chunks')
      BY <1>1, <2>1
    <3> QED
      BY <1>1, <2>1, <3>1 DEF QueueInv
  <2>4. CASE Len(chunks) = 1
    BY <1>1, <1>3, <1>4, <1>5, <2>1, <2>4 DEF QueueInv
  <2>5. CASE Len(chunks) > 1
    <3>1. chunks'[1] = chunks[2] /\ chunks'[Len(chunks')] = chunks[Len(chunks)]
      <4>1. /\ 1 \in 1..Len(chunks') /\ Len(chunks') \in 1..Len(chunks')
            /\ 1 + 1 = 2 /\ Len(chunks') + 1 = Len(chunks)
        BY <1>1, <2>1, <2>5
      <4>2. /\ chunks'[1] = chunks[1 + 1]
            /\ chunks'[Len(chunks')] = chunks[Len(chunks') + 1]
        BY <2>1, <4>1
      <4> QED
        BY <4>1, <4>2
    <3>2. Before(chunks[2]) = Before(front) + front.rows
      BY <1>1, <2>5 DEF QueueInv
    <3>3. Before(chunks'[1]) + chunks'[1].offset_rows = Left'
      <4>1. chunks'[1].offset_rows = 0
        BY <1>1, <2>1, <2>2, <2>5
      <4> QED
        BY <1>3, <1>4, <1>5, <3>1, <3>2, <4>1
    <3> QED
      BY <1>1, <1>4, <2>1, <2>2, <2>3, <2>5, <3>1, <3>3 DEF QueueInv
  <2> QED
    BY <1>1, <2>1, <2>4, <2>5
<1>6. CASE front.offset_rows + k # front.rows
  <2> DEFINE new == [front EXCEPT !.offset_rows = @ + k]
  <2>1. /\ new \in RowChunk /\ new.data = front.data /\ new.rows = front.rows
        /\ new.offset_rows = front.offset_rows + k /\ Before(new) = Before(front)
    BY <1>2, <1>3 DEF RowChunk, Before
  <2>2. chunks' = [chunks EXCEPT ![1] = new]
    BY <1>6 DEF Consume
  <2> HIDE DEF new
  <2>3. /\ chunks' \in Seq(RowChunk) /\ Len(chunks') = Len(chunks)
        /\ chunks'[1] = new
        /\ \A i \in 2..Len(chunks) : chunks'[i] = chunks[i]
    BY <1>1, <2>1, <2>2
  <2>4. \A i \in 1..Len(chunks) : /\ Before(chunks'[i]) = Before(chunks[i])
                                  /\ chunks'[i].rows = chunks[i].rows
    BY <1>1, <2>1, <2>3
  <2>5. \A i \in 1..Len(chunks') : ChunkOK(i)'
    <3> TAKE i \in 1..Len(chunks')
    <3>1. CASE i = 1
      <4>1. chunks'[i] = new /\ new.offset_rows < front.rows
        BY <1>3, <1>6, <2>1, <2>3, <3>1
      <4>2. /\ front.rows >= 1 /\ front.data = Rows(Before(front), front.rows)
            /\ Before(front) + front.rows <= accepted
        BY <1>2 DEF ChunkOK
      <4> QED
        BY <1>3, <2>1, <3>1, <4>1, <4>2 DEF ChunkOK
    <3>2. CASE i > 1
      <4>1. i \in 1..Len(chunks) /\ chunks'[i] = chunks[i] /\ ChunkOK(i)
        BY <1>1, <2>3, <3>2 DEF QueueInv
      <4> QED
        BY <4>1 DEF ChunkOK
    <3> QED
      BY <1>1, <2>3, <3>1, <3>2
  <2>6. \A i \in 1..Len(chunks') - 1 :
          Before(chunks'[i + 1]) = Before(chunks'[i]) + chunks'[i].rows
    <3> TAKE i \in 1..Len(chunks') - 1
    <3>1. i \in 1..Len(chunks) /\ i + 1 \in 1..Len(chunks)
      BY <1>1, <2>3
    <3> QED
      BY <1>1, <2>3, <2>4, <3>1 DEF QueueInv
  <2>7. Before(chunks'[1]) + chunks'[1].offset_rows = Left'
    BY <1>3, <1>4, <2>1, <2>3
  <2> QED
    BY <1>1, <1>4, <2>3, <2>4, <2>5, <2>6, <2>7 DEF QueueInv
<1> QED
  BY <1>5, <1>6

(* An iteration of the copying loop preserves the invariant.               *)
LEMMA CopyFromFrontIInv ==
  ASSUME IInv, NEW t \in Threads, CopyFromFront(t)
  PROVE  IInv'
<1> DEFINE k == TakeRows(t)
<1> USE DEF IInv
<1>1. /\ rows_ready \in Nat /\ accepted \in Nat /\ closed \in BOOLEAN
      /\ batch \in [Threads -> InputBatch]
      /\ Len(batch[t].data) \in Nat /\ batch[t].rows \in Nat
  BY DEF TypeOK, InputBatch
<1>2. /\ mu = t /\ TakeOK(t) /\ chunks # <<>>
      /\ k \in 1..Missing(t) /\ k <= chunks[1].rows - chunks[1].offset_rows
      /\ rows_ready' = rows_ready - k
      /\ batch'[t].data = Rows(Taken(delivered), Len(batch[t].data) + k)
  BY CopyMovesRows
<1>3. /\ pc[t] = "taking" /\ chunks' = Consume(k)
      /\ batch' = [batch EXCEPT ![t].data = batch'[t].data]
      /\ batch'[t].rows = batch[t].rows /\ batch'[t].is_last = batch[t].is_last
      /\ UNCHANGED <<mu, closed, pc, accepted, delivered, fails>>
  BY <1>1 DEF CopyFromFront, InputBatch
<1> HIDE DEF k
<1>4. k \in Nat \ {0} /\ k <= Missing(t) /\ Missing(t) \in 0..rows_ready
  BY <1>1, <1>2 DEF TakeOK
<1>5. chunks' \in Seq(RowChunk) /\ QueueInv'
  BY <1>1, <1>2, <1>3, <1>4, ConsumeFront
<1>6. /\ Left' = Left + k /\ Left \in Nat
      /\ Taken(delivered) \in Nat /\ Taken(delivered)' = Taken(delivered)
  <2>1. Left' = Left + k /\ Left \in Nat
    <3>1. rows_ready <= accepted
      BY DEF QueueInv
    <3> QED
      BY <1>1, <1>2, <1>3, <1>4, <3>1 DEF Left
  <2>2. Taken(delivered)' = Taken(delivered)
    BY <1>3 DEF Taken, LastRow
  <2>3. Taken(delivered) \in Nat
    BY TakenNat
  <2> QED
    BY <2>1, <2>2, <2>3
<1>7. Len(batch'[t].data) = Len(batch[t].data) + k
      /\ batch'[t].data \in Seq(Nat)
  <2> DEFINE a == Taken(delivered)
             m == Len(batch[t].data) + k
  <2>1. a \in Nat /\ m \in Nat /\ batch'[t].data = Rows(a, m)
    BY <1>1, <1>2, <1>4, <1>6
  <2> HIDE DEF a, m
  <2>2. Rows(a, m) \in Seq(Nat) /\ Len(Rows(a, m)) = m
    BY <2>1, RowsType
  <2>3. Len(batch'[t].data) = m /\ batch'[t].data \in Seq(Nat)
    BY <2>1, <2>2
  <2> QED
    BY <2>3 DEF m
<1>8. TypeOK'
  <2>1. batch' \in [Threads -> InputBatch]
    BY <1>1, <1>3, <1>7 DEF InputBatch
  <2>2. rows_ready' \in Nat
    BY <1>1, <1>2, <1>4
  <2> QED
    BY <1>3, <1>5, <2>1, <2>2 DEF TypeOK
<1>9. TakeInv'
  <2>1. \A u \in Threads : pc'[u] = "taking" <=> mu' = u
    BY <1>3 DEF TakeInv
  <2>2. Missing(t)' = Missing(t) - k
    BY <1>1, <1>3, <1>4, <1>7 DEF Missing
  <2>3. TakeOK(t)'
    <3>1. /\ batch[t].rows \in 1..TargetRows
          /\ batch[t].rows = TargetRows \/ batch[t].is_last
          /\ Taken(delivered) + Len(batch[t].data) = Left
          /\ batch[t].is_last <=> (closed /\ Missing(t) = rows_ready)
      BY <1>2 DEF TakeOK
    <3>2. Missing(t)' \in 0..rows_ready'
      BY <1>1, <1>2, <1>4, <2>2
    <3>3. Missing(t)' = rows_ready' <=> Missing(t) = rows_ready
      BY <1>1, <1>2, <1>4, <2>2
    <3>4. batch'[t].data = Rows(Taken(delivered)', Len(batch'[t].data))
      BY <1>2, <1>6, <1>7
    <3>5. Taken(delivered)' + Len(batch'[t].data) = Left'
      <4> DEFINE a == Taken(delivered)
      <4>1. a \in Nat /\ a + Len(batch[t].data) = Left /\ Taken(delivered)' = a
        BY <1>6, <3>1
      <4>2. /\ Left' = Left + k /\ Len(batch'[t].data) = Len(batch[t].data) + k
            /\ k \in Nat /\ Len(batch[t].data) \in Nat
        BY <1>1, <1>4, <1>6, <1>7
      <4> HIDE DEF a
      <4> QED
        BY <4>1, <4>2
    <3> QED
      BY <1>3, <3>1, <3>2, <3>3, <3>4, <3>5 DEF TakeOK
  <2>4. mu' # NoThread
    BY <1>2, <1>3
  <2> QED
    BY <1>2, <1>3, <2>1, <2>3, <2>4 DEF TakeInv
<1>10. ExactlyOnce'
  BY <1>3 DEF ExactlyOnce, LastRow
<1>11. LastIsFinal'
  BY <1>2, <1>3 DEF LastIsFinal
<1>12. FailedOnlyWhenDrained'
  BY <1>3 DEF FailedOnlyWhenDrained, Taken, LastRow
<1>13. NoLostWakeup'
  BY <1>1, <1>2, <1>3, <1>4 DEF NoLostWakeup, WakeUp
<1> QED
  BY <1>5, <1>8, <1>9, <1>10, <1>11, <1>12, <1>13

(* The batch returned holds the rows after the previous one, and if it is  *)
(* marked last it leaves a closed source empty for good.                   *)
LEMMA ReturnBatchIInv ==
  ASSUME IInv, NEW t \in Threads, ReturnBatch(t)
  PROVE  IInv'
<1> DEFINE b == batch[t]
           n == Len(delivered)
<1> USE DEF IInv
<1>1. /\ rows_ready \in Nat /\ accepted \in Nat /\ closed \in BOOLEAN
      /\ batch \in [Threads -> InputBatch] /\ b \in InputBatch
      /\ Len(b.data) \in Nat /\ b.rows \in Nat
      /\ delivered \in Seq(InputBatch) /\ n \in Nat
      /\ pc \in [Threads -> ClientPC \cup TaskPC]
  BY DEF TypeOK, InputBatch
<1>2. /\ pc[t] = "taking" /\ Missing(t) = 0 /\ mu' = NoThread
      /\ pc' = [pc EXCEPT ![t] = IF t \in Clients THEN "ready" ELSE "done"]
      /\ delivered' = Append(delivered, b)
      /\ batch' = [batch EXCEPT ![t] = NoBatch]
      /\ UNCHANGED <<rows_ready, closed, chunks, accepted, fails>>
  BY DEF ReturnBatch
<1>3. mu = t /\ TakeOK(t) /\ \A u \in Threads \ {t} : pc[u] # "taking"
  BY <1>2 DEF TakeInv
<1>4. Taken(delivered) \in Nat /\ Left \in Nat
  BY <1>1, TakenNat DEF Left, QueueInv
<1>5. /\ Len(b.data) = b.rows /\ b.rows \in 1..TargetRows
      /\ b.data = Rows(Taken(delivered), b.rows)
      /\ Taken(delivered) + b.rows = Left
      /\ b.is_last <=> closed /\ rows_ready = 0
      /\ b.rows = TargetRows \/ b.is_last
  BY <1>1, <1>2, <1>3 DEF TakeOK, Missing
<1> HIDE DEF b
<1>6. LastRow(b) = Left
  <2>1. Rows(Taken(delivered), b.rows)[b.rows] = Taken(delivered) + b.rows
    <3> DEFINE a == Taken(delivered)
    <3>1. a \in Nat /\ b.rows \in Nat \ {0}
      BY <1>4, <1>5
    <3> HIDE DEF a
    <3>2. \A i \in 1..b.rows : Rows(a, b.rows)[i] = a + i
      BY <3>1, RowsType
    <3> QED
      BY <3>1, <3>2 DEF a
  <2> QED
    BY <1>5, <2>1 DEF LastRow
<1>7. /\ n' = n + 1 /\ delivered' # <<>> /\ delivered'[n + 1] = b
      /\ \A i \in 1..n : delivered'[i] = delivered[i]
      /\ delivered' \in Seq(InputBatch)
  BY <1>1, <1>2
<1>8. Taken(delivered)' = Left' /\ Left' = Left
  BY <1>1, <1>2, <1>6, <1>7 DEF Taken, LastRow, Left
<1>9. TypeOK'
  <2>1. batch' \in [Threads -> InputBatch]
    BY <1>1, <1>2 DEF NoBatch, InputBatch
  <2>2. /\ pc' \in [Threads -> ClientPC \cup TaskPC]
        /\ \A c \in Clients : pc'[c] \in ClientPC
        /\ \A u \in Tasks : pc'[u] \in TaskPC
    BY <1>1, <1>2 DEF TypeOK, ClientPC, TaskPC
  <2> QED
    BY <1>2, <1>7, <2>1, <2>2 DEF TypeOK
<1>10. QueueInv'
  BY <1>2 DEF QueueInv, ChunkOK, Before, Left
<1>11. TakeInv'
  BY <1>1, <1>2, <1>3, <1>8 DEF TakeInv
<1>12. ExactlyOnce'
  <2> SUFFICES ASSUME NEW i \in 1..n'
               PROVE  LET before == IF i = 1 THEN 0 ELSE LastRow(delivered'[i - 1])
                      IN  /\ delivered'[i].rows \in 1..TargetRows
                          /\ delivered'[i].data = Rows(before, delivered'[i].rows)
    BY DEF ExactlyOnce, LastRow
  <2>1. CASE i <= n
    <3>1. i \in 1..n /\ (i # 1 => i - 1 \in 1..n)
      BY <1>1, <2>1
    <3> QED
      BY <1>7, <3>1 DEF ExactlyOnce
  <2>2. CASE i = n + 1
    <3>1. Taken(delivered) = IF i = 1 THEN 0 ELSE LastRow(delivered'[i - 1])
      BY <1>1, <1>7, <2>2 DEF Taken
    <3> QED
      BY <1>5, <1>7, <2>2, <3>1
  <2> QED
    BY <1>1, <1>7, <2>1, <2>2
<1>13. LastIsFinal'
  <2>1. \A i \in 1..n : ~delivered[i].is_last /\ ~(delivered[i].rows < TargetRows)
    BY <1>3 DEF LastIsFinal
  <2>2. b.rows < TargetRows => b.is_last
    BY <1>1, <1>5
  <2>3. b.is_last => closed' /\ rows_ready' = 0 /\ mu' = NoThread
    BY <1>2, <1>5
  <2>4. \A i \in 1..n' : i \in 1..n \/ i = n + 1
    BY <1>1, <1>7
  <2> QED
    BY <1>7, <2>1, <2>2, <2>3, <2>4 DEF LastIsFinal
<1>14. FailedOnlyWhenDrained'
  <2>1. Taken(delivered) # accepted
    BY <1>1, <1>4, <1>5 DEF Left
  <2> QED
    BY <1>1, <1>2, <2>1 DEF FailedOnlyWhenDrained
<1>15. NoLostWakeup'
  BY <1>1, <1>2 DEF NoLostWakeup, WakeUp
<1> QED
  BY <1>9, <1>10, <1>11, <1>12, <1>13, <1>14, <1>15

(* A batch that cannot be allocated takes no row with it.                  *)
LEMMA ResizeThrowsIInv ==
  ASSUME IInv, NEW t \in Threads, ResizeThrows(t)
  PROVE  IInv'
<1> USE DEF IInv
<1>1. /\ pc \in [Threads -> ClientPC \cup TaskPC]
      /\ batch \in [Threads -> InputBatch]
      /\ accepted \in Nat /\ rows_ready \in Nat
  BY DEF TypeOK
<1>2. /\ pc[t] = "taking" /\ batch[t].data = <<>> /\ mu' = NoThread
      /\ pc' = [pc EXCEPT ![t] = IF t \in Clients THEN "ready" ELSE "thrown"]
      /\ batch' = [batch EXCEPT ![t] = NoBatch]
      /\ fails' = fails + 1
      /\ UNCHANGED <<rows_ready, closed, chunks, accepted, delivered>>
  BY DEF ResizeThrows
<1>3. mu = t /\ TakeOK(t) /\ \A u \in Threads \ {t} : pc[u] # "taking"
  BY <1>2 DEF TakeInv
<1>4. TypeOK'
  <2>1. batch' \in [Threads -> InputBatch]
    BY <1>1, <1>2 DEF NoBatch, InputBatch
  <2>2. /\ pc' \in [Threads -> ClientPC \cup TaskPC]
        /\ \A c \in Clients : pc'[c] \in ClientPC
        /\ \A u \in Tasks : pc'[u] \in TaskPC
    BY <1>1, <1>2 DEF TypeOK, ClientPC, TaskPC
  <2> QED
    BY <1>2, <2>1, <2>2 DEF TypeOK
<1>5. QueueInv'
  BY <1>2 DEF QueueInv, ChunkOK, Before, Left
<1>6. TakeInv'
  <2>1. Taken(delivered) = Left
    BY <1>1, <1>2, <1>3, TakenNat DEF TakeOK
  <2>2. Taken(delivered)' = Left'
    BY <1>2, <2>1 DEF Taken, LastRow, Left
  <2>3. \A u \in Threads : pc'[u] # "taking" /\ mu' # u
    BY <1>1, <1>2, <1>3
  <2> QED
    BY <2>2, <2>3 DEF TakeInv
<1>7. ExactlyOnce'
  BY <1>2 DEF ExactlyOnce, LastRow
<1>8. LastIsFinal'
  BY <1>2 DEF LastIsFinal
<1>9. FailedOnlyWhenDrained'
  BY <1>1, <1>2 DEF FailedOnlyWhenDrained, Taken, LastRow
<1>10. NoLostWakeup'
  BY <1>1, <1>2 DEF NoLostWakeup, WakeUp
<1> QED
  BY <1>4, <1>5, <1>6, <1>7, <1>8, <1>9, <1>10

-----------------------------------------------------------------------------
(* The theorems.                                                           *)

(* The invariant is inductive.                                             *)
LEMMA NextIInv == IInv /\ [Next]_vars => IInv'
<1> SUFFICES ASSUME IInv, [Next]_vars PROVE IInv'
  OBVIOUS
<1>1. ASSUME NEW c \in Clients, NEW n \in 1..MaxInsert, Insert(c, n)
      PROVE  IInv'
  BY <1>1, InsertIInv
<1>2. ASSUME NEW c \in Clients, Close(c) \/ NotifyAll(c)
      PROVE  IInv'
  BY <1>2, CloseIInv, NotifyAllIInv
<1>3. ASSUME NEW c \in Clients, TryGetBatch(c)
      PROVE  IInv'
  BY <1>3, BeginTakeIInv DEF TryGetBatch
<1>4. ASSUME NEW t \in Tasks,
             GetBatchAsync(t) \/ Wait(t) \/ FailAsync(t) \/ SpuriousWakeUp(t)
      PROVE  IInv'
  BY <1>4, TaskStepIInv
<1>5. ASSUME NEW t \in Tasks, TakeAsync(t)
      PROVE  IInv'
  BY <1>5, BeginTakeIInv DEF TakeAsync
<1>6. ASSUME NEW t \in Threads, TakeStep(t) \/ ResizeThrows(t)
      PROVE  IInv'
  BY <1>6, CopyFromFrontIInv, ReturnBatchIInv, ResizeThrowsIInv DEF TakeStep
<1>7. CASE UNCHANGED vars
  BY <1>7 DEF vars, IInv, TypeOK, QueueInv, ChunkOK, Before, Left, TakeInv, TakeOK,
              Missing, Taken, LastRow, ExactlyOnce, LastIsFinal,
              FailedOnlyWhenDrained, NoLostWakeup, WakeUp
<1> QED
  BY <1>1, <1>2, <1>3, <1>4, <1>5, <1>6, <1>7
  DEF Next, ClientStep, TaskStep

(* The inductive invariant holds in every reachable state.                 *)
THEOREM Invariance == Spec => []IInv
  BY InitIInv, NextIInv, PTL DEF Spec

(* The counters and the queue stay within their types; rows_ready, which   *)
(* the copying loop decrements, is never negative.                         *)
THEOREM TypeCorrect == Spec => []TypeOK
  BY Invariance, PTL DEF IInv

(* The counter rows_ready and the deque of chunks never drift apart.       *)
THEOREM QueueCorrect == Spec => []QueueInv
  BY Invariance, PTL DEF IInv

(* take_batch_locked always finds the rows it set out to copy.             *)
THEOREM TakeCorrect == Spec => []TakeInv
  BY Invariance, PTL DEF IInv

(* Every row is delivered once and in order, whoever inserts and whoever   *)
(* takes, and however inserts and batches overlap.                         *)
THEOREM DeliveredExactlyOnce == Spec => []ExactlyOnce
  BY Invariance, PTL DEF IInv

(* A consumer that stops at the batch marked is_last has missed no row.    *)
THEOREM LastBatchIsFinal == Spec => []LastIsFinal
  BY Invariance, PTL DEF IInv

(* No future throws while rows are left for it.                            *)
THEOREM FailedTaskMissedNothing == Spec => []FailedOnlyWhenDrained
  BY Invariance, PTL DEF IInv

(* Notifying after the unlock loses no wake-up.                            *)
THEOREM WakeupNotLost == Spec => []NoLostWakeup
  BY Invariance, PTL DEF IInv

-----------------------------------------------------------------------------
(* The mutex.                                                              *)

(* A step of a thread that is taking a batch is a step of the holder.      *)
LEMMA HolderStep ==
  ASSUME IInv, NEW t \in Threads, mu = t, NEW u \in Threads,
         TakeStep(u) \/ ResizeThrows(u)
  PROVE  \/ mu' = t /\ Missing(t)' \in 0..Missing(t) - 1
         \/ mu' = NoThread /\ UNCHANGED <<rows_ready, closed, chunks, accepted>>
<1>1. u = t
  BY DEF IInv, TakeInv, TakeStep, CopyFromFront, ReturnBatch, ResizeThrows
<1>2. CASE CopyFromFront(t)
  <2> DEFINE k == TakeRows(t)
  <2>1. k \in 1..Missing(t)
    BY <1>2, CopyMovesRows
  <2>2. batch'[t].data = Rows(Taken(delivered), Len(batch[t].data) + k)
    BY <1>2, CopyMovesRows
  <2>3. Len(batch[t].data) \in Nat /\ batch[t].rows \in Nat
    BY DEF IInv, TypeOK, InputBatch
  <2>4. batch'[t].rows = batch[t].rows /\ mu' = mu
    BY <1>2 DEF CopyFromFront, IInv, TypeOK, InputBatch
  <2> HIDE DEF k
  <2>5. Missing(t) \in Int /\ k \in Nat
    BY <2>1, <2>3 DEF Missing
  <2>6. Len(batch'[t].data) = Len(batch[t].data) + k
    BY <2>2, <2>3, <2>5 DEF Rows
  <2>7. Missing(t)' = Missing(t) - k
    BY <2>3, <2>4, <2>5, <2>6 DEF Missing
  <2> QED
    BY <2>1, <2>4, <2>5, <2>7
<1>3. CASE ReturnBatch(t) \/ ResizeThrows(t)
  BY <1>3 DEF ReturnBatch, ResizeThrows
<1> QED
  BY <1>1, <1>2, <1>3 DEF TakeStep

(* What is done without the mutex: notify, start a thread, wake up.        *)
LEMMA FreeStep ==
  ASSUME NEW t \in Threads, mu = t,
         \/ \E c \in Clients : ClientStep(c)
         \/ \E u \in Tasks : TaskStep(u)
  PROVE  UNCHANGED <<mu, rows_ready, closed, chunks, accepted, delivered, batch>>
<1>1. mu # NoThread
  OBVIOUS
<1> QED
  BY <1>1
  DEF ClientStep, Insert, Close, NotifyAll, TryGetBatch, TaskStep, GetBatchAsync, Wait,
      TakeAsync, FailAsync, SpuriousWakeUp

(* Mutual exclusion, and a copying loop that ends after at most            *)
(* target_rows iterations, because no chunk in the deque is used up.       *)
THEOREM MutexHeldBriefly == Spec => HeldBriefly
<1>1. IInv /\ [Next]_vars =>
        [\A t \in Threads : mu = t =>
           \/ mu' = t /\ Missing(t)' \in 0..Missing(t) - 1
           \/ mu' = NoThread /\ UNCHANGED <<rows_ready, closed, chunks, accepted>>
           \/ UNCHANGED <<mu, rows_ready, closed, chunks, accepted, delivered, batch>>
        ]_vars
  BY HolderStep, FreeStep DEF Next
<1> QED
  BY <1>1, Invariance, PTL DEF Spec, HeldBriefly

-----------------------------------------------------------------------------
(* The source implements the abstract stream.                              *)

(* Returning a batch is the stream's delivery of as many rows.             *)
LEMMA ReturnBatchDelivers ==
  ASSUME IInv, NEW t \in Threads, ReturnBatch(t)
  PROVE  \E n \in 1..TargetRows : Stream!Deliver(n)
<1> DEFINE b == batch[t]
           n == batch[t].rows
           pending == accepted - Stream!Taken(delivered)
<1> USE DEF IInv
<1>1. /\ pc[t] = "taking" /\ Missing(t) = 0
      /\ delivered' = Append(delivered, b)
      /\ UNCHANGED <<accepted, closed>>
  BY DEF ReturnBatch
<1>2. TakeOK(t)
  BY <1>1 DEF TakeInv
<1>3. /\ rows_ready \in Nat /\ accepted \in Nat /\ closed \in BOOLEAN
      /\ b \in InputBatch /\ Len(b.data) \in Nat /\ n \in Nat
  BY DEF TypeOK, InputBatch
<1>4. Stream!Taken(delivered) = Taken(delivered)
  BY DEF Stream!Taken, Stream!LastRow, Taken, LastRow
<1>5. /\ n \in 1..TargetRows
      /\ b.data = Rows(Taken(delivered), n)
      /\ Taken(delivered) + n = accepted - rows_ready
      /\ b.is_last <=> closed /\ rows_ready = 0
      /\ n = TargetRows \/ b.is_last
  BY <1>1, <1>2, <1>3 DEF TakeOK, Missing, Left
<1>6. pending = n + rows_ready
  BY <1>3, <1>4, <1>5, TakenNat
<1>7. /\ n <= pending
      /\ n = TargetRows \/ (closed /\ n = pending)
      /\ b.is_last <=> closed /\ n = pending
  BY <1>3, <1>5, <1>6
<1>8. b = [rows |-> n, is_last |-> closed /\ n = pending,
           data |-> Stream!Rows(Stream!Taken(delivered), n)]
  <2>1. Stream!Rows(Stream!Taken(delivered), n) = b.data
    BY <1>4, <1>5 DEF Stream!Rows, Rows
  <2>2. b.is_last \in BOOLEAN /\ b.is_last = (closed /\ n = pending)
    BY <1>3, <1>7 DEF InputBatch
  <2>3. b = [rows |-> n, is_last |-> b.is_last, data |-> b.data]
    BY <1>3 DEF InputBatch
  <2> HIDE DEF b, n, pending
  <2> QED
    BY <2>1, <2>2, <2>3
<1> QED
  BY <1>1, <1>5, <1>7, <1>8 DEF Stream!Deliver

(* Every step of the source is a step of the stream, or one it does not see. *)
LEMMA NextStream ==
  IInv /\ [Next]_vars => [Stream!Next]_(Stream!vars)
<1> SUFFICES ASSUME IInv, [Next]_vars
             PROVE  Stream!Next \/ UNCHANGED Stream!vars
  OBVIOUS
<1>1. ASSUME NEW c \in Clients, NEW n \in 1..MaxInsert, Insert(c, n)
      PROVE  Stream!Accept
  BY <1>1 DEF IInv, TypeOK, Insert, Stream!Accept
<1>2. ASSUME NEW c \in Clients, Close(c)
      PROVE  Stream!Close
  BY <1>2 DEF Close, Stream!Close
<1>3. ASSUME NEW t \in Threads, ReturnBatch(t)
      PROVE  Stream!Next
  BY <1>3, ReturnBatchDelivers DEF Stream!Next
<1>4. ASSUME NEW c \in Clients, NotifyAll(c) \/ TryGetBatch(c)
      PROVE  UNCHANGED Stream!vars
  BY <1>4 DEF NotifyAll, TryGetBatch, BeginTake, Stream!vars
<1>5. ASSUME NEW t \in Tasks, TaskStep(t)
      PROVE  UNCHANGED Stream!vars
  BY <1>5 DEF TaskStep, GetBatchAsync, Wait, TakeAsync, FailAsync, SpuriousWakeUp,
              BeginTake, Stream!vars
<1>6. ASSUME NEW t \in Threads, CopyFromFront(t) \/ ResizeThrows(t)
      PROVE  UNCHANGED Stream!vars
  BY <1>6 DEF CopyFromFront, ResizeThrows, Stream!vars
<1>7. CASE UNCHANGED vars
  BY <1>7 DEF vars, Stream!vars
<1> QED
  BY <1>1, <1>2, <1>3, <1>4, <1>5, <1>6, <1>7
  DEF Next, ClientStep, TakeStep, Stream!Next

(* Mutex, chunks, offsets and waiting threads are invisible from outside:  *)
(* what the source's users see is a behaviour of the abstract stream.      *)
THEOREM ImplementsStream == Spec => StreamSpec
<1>1. Init => Stream!Init
  BY DEF Init, Stream!Init
<1> QED
  BY <1>1, NextStream, Invariance, PTL DEF Spec, StreamSpec, Stream!Spec

-----------------------------------------------------------------------------
(* The source is what its handles take it for.                             *)

(* With nobody taking rows, those in no returned batch are those ready.    *)
LEMMA PendingRows ==
  ASSUME IInv, mu = NoThread
  PROVE  accepted - Taken(delivered) = rows_ready
<1>1. rows_ready \in Nat /\ accepted \in Nat
  BY DEF IInv, TypeOK
<1> QED
  BY <1>1 DEF IInv, TakeInv, Left

(* A batch that is being filled is the one there was to take, and once it  *)
(* is complete the other rows are those left in the deque.                 *)
LEMMA BatchIsPending ==
  ASSUME IInv, NEW t \in Threads, pc[t] = "taking"
  PROVE  /\ Source!HasBatch
         /\ Missing(t) = 0 => Source!RowsAfterTake = rows_ready
<1> DEFINE b == batch[t]
           pending == accepted - Taken(delivered)
<1>1. TakeOK(t)
  BY DEF IInv, TakeInv
<1>2. /\ rows_ready \in Nat /\ accepted \in Nat /\ closed \in BOOLEAN
      /\ Len(b.data) \in Nat /\ b.rows \in Nat
  BY DEF IInv, TypeOK, InputBatch
<1>3. pending = rows_ready + Len(b.data)
  BY <1>1, <1>2, TakenNat DEF TakeOK, Left
<1>4. /\ b.rows \in 1..TargetRows /\ b.rows <= pending
      /\ b.rows = TargetRows \/ (closed /\ b.rows = pending)
  <2>1. /\ b.rows \in 1..TargetRows /\ b.rows - Len(b.data) <= rows_ready
        /\ b.rows = TargetRows \/ b.is_last
        /\ b.is_last => closed /\ b.rows - Len(b.data) = rows_ready
    BY <1>1 DEF TakeOK, Missing
  <2> QED
    BY <1>2, <1>3, <2>1
<1>5. Missing(t) = 0 => pending - b.rows = rows_ready
  BY <1>2, <1>3 DEF Missing
<1> QED
  BY <1>2, <1>3, <1>4, <1>5 DEF Source!HasBatch, Source!RowsAfterTake

(* A thread that moves takes no task but its own along.                    *)
LEMMA TaskMoves ==
  ASSUME TypeOK, NEW t \in Threads, NEW where, pc' = [pc EXCEPT ![t] = where]
  PROVE  /\ pc'[t] = where
         /\ \A u \in Tasks \ {t} : TaskState(u)' = TaskState(u)
         /\ t \in Tasks =>
              [u \in Tasks |-> TaskState(u)]' =
                [[u \in Tasks |-> TaskState(u)] EXCEPT ![t] = TaskState(t)']
<1>1. pc'[t] = where /\ \A u \in Threads \ {t} : pc'[u] = pc[u]
  BY DEF TypeOK
<1>2. \A u \in Tasks \ {t} : TaskState(u)' = TaskState(u)
  BY <1>1 DEF TaskState, Threads
<1> QED
  BY <1>1, <1>2

(* The end of a take is a poll, or the end of a task.                      *)
LEMMA TakeSource ==
  ASSUME IInv, IInv', NEW t \in Threads, ReturnBatch(t) \/ ResizeThrows(t)
  PROVE  Source!Next \/ UNCHANGED Source!vars
<1> DEFINE task == [u \in Tasks |-> TaskState(u)]
           pending == accepted - Taken(delivered)
<1>1. pc[t] = "taking" /\ mu' = NoThread /\ UNCHANGED <<rows_ready, closed, accepted>>
  BY DEF ReturnBatch, ResizeThrows
<1>2. Source!HasBatch
  BY <1>1, BatchIsPending
<1>3. CASE t \in Clients
  <2>1. t \notin Tasks /\ \E where : pc' = [pc EXCEPT ![t] = where]
    BY <1>3 DEF ReturnBatch, ResizeThrows
  <2>2. task' = task
    BY <2>1, TaskMoves DEF IInv
  <2>3. CASE ReturnBatch(t)
    <3>1. pending' = Source!RowsAfterTake
      <4>1. Missing(t) = 0
        BY <2>3 DEF ReturnBatch
      <4>2. rows_ready' \in Nat /\ accepted' \in Nat /\ pending' = rows_ready'
        BY <1>1 DEF IInv, TypeOK, TakeInv, Left
      <4> QED
        BY <1>1, <4>1, <4>2, BatchIsPending
    <3> QED
      BY <1>1, <1>2, <2>2, <3>1 DEF Source!Next, Source!Poll
  <2>4. CASE ResizeThrows(t)
    BY <2>2, <2>4 DEF ResizeThrows, Source!vars
  <2> QED
    BY <2>3, <2>4
<1>4. CASE t \in Tasks
  <2>1. t \notin Clients /\ task[t] = "pending"
    BY <1>1, <1>4 DEF TaskState
  <2>2. CASE ReturnBatch(t)
    <3>1. pending' = Source!RowsAfterTake
      <4>1. Missing(t) = 0
        BY <2>2 DEF ReturnBatch
      <4>2. rows_ready' \in Nat /\ accepted' \in Nat /\ pending' = rows_ready'
        BY <1>1 DEF IInv, TypeOK, TakeInv, Left
      <4> QED
        BY <1>1, <4>1, <4>2, BatchIsPending
    <3>2. pc' = [pc EXCEPT ![t] = "done"]
      BY <2>1, <2>2 DEF ReturnBatch
    <3>3. TaskState(t)' = "done"
      <4>1. pc'[t] = "done"
        BY <3>2 DEF IInv, TypeOK
      <4> QED
        BY <4>1 DEF TaskState
    <3>4. task' = [task EXCEPT ![t] = "done"]
      BY <1>4, <3>2, <3>3, TaskMoves DEF IInv
    <3>5. Source!Take(t)
      BY <1>1, <1>2, <2>1, <3>1, <3>4 DEF Source!Take, Source!Become
    <3> QED
      BY <1>4, <3>5 DEF Source!Next
  <2>3. CASE ResizeThrows(t)
    <3>1. pending' = pending
      BY <2>3 DEF ResizeThrows
    <3>2. pc' = [pc EXCEPT ![t] = "thrown"]
      BY <2>1, <2>3 DEF ResizeThrows
    <3>3. TaskState(t)' = "failed"
      <4>1. pc'[t] = "thrown"
        BY <3>2 DEF IInv, TypeOK
      <4> QED
        BY <4>1 DEF TaskState
    <3>4. task' = [task EXCEPT ![t] = "failed"]
      BY <1>4, <3>2, <3>3, TaskMoves DEF IInv
    <3>5. Source!Throw(t)
      BY <1>1, <1>2, <2>1, <3>1, <3>4 DEF Source!Throw, Source!Become
    <3> QED
      BY <1>4, <3>5 DEF Source!Next
  <2> QED
    BY <2>2, <2>3
<1> QED
  BY <1>3, <1>4 DEF Threads

(* A task starts, or fails on a closed and empty source; what it does      *)
(* between is not seen.                                                    *)
LEMMA TaskStepSource ==
  ASSUME IInv, NEW t \in Tasks, TaskStep(t)
  PROVE  Source!Next \/ UNCHANGED Source!vars
<1> DEFINE task == [u \in Tasks |-> TaskState(u)]
<1>1. UNCHANGED <<closed, accepted, delivered>> /\ t \in Threads
  BY DEF TaskStep, GetBatchAsync, Wait, TakeAsync, BeginTake, FailAsync,
         SpuriousWakeUp, Threads
<1>2. CASE GetBatchAsync(t)
  <2>1. pc[t] = "idle" /\ pc' = [pc EXCEPT ![t] = "running"]
    BY <1>2 DEF GetBatchAsync
  <2>2. TaskState(t) = "none" /\ TaskState(t)' = "pending"
    <3>1. pc'[t] = "running"
      BY <1>1, <2>1 DEF IInv, TypeOK
    <3> QED
      BY <2>1, <3>1 DEF TaskState
  <2>3. task' = [task EXCEPT ![t] = "pending"]
    BY <1>1, <2>1, <2>2, TaskMoves DEF IInv
  <2>4. Source!Start(t)
    BY <1>1, <2>2, <2>3 DEF Source!Start, Source!Become
  <2> QED
    BY <2>4 DEF Source!Next
<1>3. CASE FailAsync(t)
  <2>1. /\ pc[t] = "running" /\ mu = NoThread /\ WakeUp /\ ~HasBatch
        /\ pc' = [pc EXCEPT ![t] = "failed"]
    BY <1>3 DEF FailAsync
  <2>2. closed /\ accepted - Taken(delivered) = 0
    <3>1. rows_ready \in Nat
      BY DEF IInv, TypeOK
    <3> QED
      BY <2>1, <3>1, PendingRows DEF WakeUp, HasBatch
  <2>3. TaskState(t) = "pending" /\ TaskState(t)' = "failed"
    BY <1>1, <2>1, TaskMoves DEF IInv, TaskState
  <2>4. task' = [task EXCEPT ![t] = "failed"]
    BY <1>1, <2>1, <2>3, TaskMoves DEF IInv
  <2>5. Source!Fail(t)
    BY <1>1, <2>2, <2>3, <2>4 DEF Source!Fail, Source!Become
  <2> QED
    BY <2>5 DEF Source!Next
<1>4. CASE Wait(t) \/ TakeAsync(t) \/ SpuriousWakeUp(t)
  <2>1. PICK where \in {"running", "waiting", "taking"} :
          pc' = [pc EXCEPT ![t] = where]
    BY <1>4 DEF Wait, TakeAsync, BeginTake, SpuriousWakeUp
  <2>2. pc[t] \in {"running", "waiting"}
    BY <1>4 DEF Wait, TakeAsync, SpuriousWakeUp
  <2>3. TaskState(t) = "pending" /\ TaskState(t)' = "pending"
    BY <1>1, <2>1, <2>2, TaskMoves DEF IInv, TaskState
  <2>4. task' = task
    BY <1>1, <2>1, <2>3, TaskMoves DEF IInv
  <2> QED
    BY <1>1, <2>4 DEF Source!vars
<1> QED
  BY <1>2, <1>3, <1>4 DEF TaskStep

(* What a client does, until it takes a batch.                             *)
LEMMA ClientStepSource ==
  ASSUME IInv, NEW c \in Clients, ClientStep(c)
  PROVE  Source!Next \/ UNCHANGED Source!vars
<1> DEFINE task == [u \in Tasks |-> TaskState(u)]
<1>1. c \in Threads /\ c \notin Tasks
  BY DEF Threads
<1>2. \A u \in Tasks : u \in Threads /\ u # c
  BY <1>1 DEF Threads
<1>3. ASSUME NEW n \in 1..MaxInsert, Insert(c, n)
      PROVE  Source!Insert
  <2>1. pc' = pc \/ pc' = [pc EXCEPT ![c] = "notify"]
    BY <1>3 DEF Insert
  <2>2. \A u \in Tasks : pc'[u] = pc[u]
    BY <1>2, <2>1 DEF IInv, TypeOK
  <2>3. task' = task
    BY <2>2 DEF TaskState
  <2>4. /\ ~closed /\ accepted \in Nat /\ rows_ready \in Nat
        /\ accepted - Taken(delivered) = rows_ready
        /\ accepted' = accepted + n
        /\ UNCHANGED <<closed, delivered>>
    BY <1>3, PendingRows DEF Insert, IInv, TypeOK
  <2> QED
    BY <2>3, <2>4, TakenNat DEF Source!Insert
<1>4. CASE Close(c)
  <2>1. \A u \in Tasks : pc'[u] = pc[u]
    BY <1>2, <1>4 DEF Close, IInv, TypeOK
  <2>2. task' = task
    BY <2>1 DEF TaskState
  <2>3. Source!Close
    BY <1>4, <2>2 DEF Close, Source!Close
  <2> QED
    BY <2>3 DEF Source!Next
<1>5. CASE NotifyAll(c)
  <2>1. \A u \in Tasks :
          pc'[u] = IF pc[u] = "waiting" THEN "running" ELSE pc[u]
    BY <1>2, <1>5 DEF NotifyAll
  <2>2. task' = task
    BY <2>1 DEF TaskState
  <2> QED
    BY <1>5, <2>2 DEF NotifyAll, Source!vars
<1>6. CASE TryGetBatch(c)
  <2>1. \A u \in Tasks : pc'[u] = pc[u]
    BY <1>2, <1>6 DEF TryGetBatch, BeginTake, IInv, TypeOK
  <2>2. task' = task
    BY <2>1 DEF TaskState
  <2> QED
    BY <1>6, <2>2 DEF TryGetBatch, BeginTake, Source!vars
<1> QED
  BY <1>3, <1>4, <1>5, <1>6 DEF ClientStep, Source!Next

(* Every step of the source is one that its handles may see, or none.      *)
LEMMA NextSource ==
  ASSUME IInv, IInv', [Next]_vars
  PROVE  Source!Next \/ UNCHANGED Source!vars
<1>1. ASSUME NEW t \in Threads, CopyFromFront(t)
      PROVE  UNCHANGED Source!vars
  <2>1. UNCHANGED <<closed, pc, accepted, delivered>>
    BY <1>1 DEF CopyFromFront
  <2> QED
    BY <2>1 DEF Source!vars, TaskState
<1>2. CASE UNCHANGED vars
  <2>1. UNCHANGED <<closed, pc, accepted, delivered>>
    BY <1>2 DEF vars
  <2> QED
    BY <2>1 DEF Source!vars, TaskState
<1> QED
  BY <1>1, <1>2, ClientStepSource, TaskStepSource, TakeSource DEF Next, TakeStep

(* Whoever shares the source through handles may rely on this much: rows   *)
(* that wait for a batch, whether it is closed, and what has become of the *)
(* tasks.  DataSourceHandle.tla shows that they do.                        *)
THEOREM ImplementsState == Spec => SourceSpec
<1>1. Init => Source!Init
  <2> SUFFICES ASSUME Init PROVE Source!Init
    OBVIOUS
  <2>1. \A t \in Tasks : TaskState(t) = "none"
    BY DEF Init, TaskState, Threads
  <2> QED
    BY <2>1 DEF Init, Taken, Source!Init
<1>2. IInv /\ IInv' /\ [Next]_vars => [Source!Next]_(Source!vars)
  BY NextSource
<1> QED
  BY <1>1, <1>2, Invariance, PTL DEF Spec, SourceSpec, Source!Spec

-----------------------------------------------------------------------------
(* Rows in a vector.                                                       *)

USE LayoutAssumption DEF LayoutAssumption

(* Multiplying by the number of columns keeps the order.                   *)
LEMMA TimesHidden ==
  ASSUME NEW a \in Int, NEW b \in Int, a <= b
  PROVE  /\ a * Hidden \in Int /\ b * Hidden \in Int
         /\ a * Hidden <= b * Hidden
  OBVIOUS

(* Moving by o rows is moving by o * Hidden elements.                      *)
LEMMA AtShift ==
  ASSUME NEW row \in Int, NEW h \in 0..Hidden - 1, NEW o \in Int
  PROVE  /\ At(row, h) \in Int
         /\ o * Hidden \in Int
         /\ At(row + o, h) = At(row, h) + o * Hidden
<1>1. Hidden \in Nat /\ (row + o - 1) * Hidden = (row - 1) * Hidden + o * Hidden
  OBVIOUS
<1> QED
  BY <1>1 DEF At

(* The elements of n rows after o rows are those at the next n * Hidden    *)
(* places, no more and no less.                                            *)
LEMMA AtRange ==
  ASSUME NEW row \in Int, NEW h \in 0..Hidden - 1, NEW o \in Int, NEW n \in Int
  PROVE  At(row, h) - o * Hidden \in 1..n * Hidden <=> row \in o + 1..o + n
<1> DEFINE r == row - 1 - o
<1>1. At(row, h) - o * Hidden = r * Hidden + h + 1
  <2>1. (row - 1) * Hidden = r * Hidden + o * Hidden
    OBVIOUS
  <2> QED
    BY <2>1 DEF At
<1>2. r \in Int /\ r * Hidden \in Int /\ n * Hidden \in Int /\ Hidden \in Nat \ {0}
  OBVIOUS
<1>3. CASE r < 0
  <2>1. r * Hidden <= (-1) * Hidden
    BY <1>2, <1>3, TimesHidden
  <2>2. r * Hidden + h + 1 <= 0
    BY <1>2, <2>1
  <2> QED
    BY <1>1, <1>2, <1>3, <2>2
<1>4. CASE r >= 0 /\ r < n
  <2>1. 0 * Hidden <= r * Hidden /\ r * Hidden <= (n - 1) * Hidden
    BY <1>2, <1>4, TimesHidden
  <2>2. (n - 1) * Hidden = n * Hidden - Hidden
    BY <1>2
  <2> HIDE DEF r
  <2>3. r * Hidden + h + 1 \in 1..n * Hidden
    BY <1>2, <2>1, <2>2
  <2> QED
    BY <1>1, <1>2, <1>4, <2>3 DEF r
<1>5. CASE r >= n
  <2>1. n * Hidden <= r * Hidden
    BY <1>2, <1>5, TimesHidden
  <2> HIDE DEF r
  <2>2. ~(r * Hidden + h + 1 <= n * Hidden)
    BY <1>2, <2>1
  <2> QED
    BY <1>1, <1>2, <1>5, <2>2 DEF r
<1> QED
  BY <1>2, <1>3, <1>4, <1>5

(* The element of a row is inside a vector that has the row.               *)
LEMMA AtInside ==
  ASSUME NEW n \in Nat, NEW row \in 1..n, NEW h \in 0..Hidden - 1
  PROVE  At(row, h) \in 1..n * Hidden
<1> DEFINE o == 0
<1>1. o \in Int /\ o * Hidden = 0 /\ At(row, h) \in Int /\ row \in o + 1..o + n
  BY DEF At
<1>2. n \in Int /\ row \in Int
  OBVIOUS
<1> HIDE DEF o
<1>3. At(row, h) - o * Hidden \in 1..n * Hidden
  BY <1>1, <1>2, AtRange
<1> QED
  BY <1>1, <1>3

(* No two cells go to one place.                                           *)
LEMMA AtUnique ==
  ASSUME NEW q \in Int, NEW r \in Int, NEW g \in 0..Hidden - 1,
         NEW h \in 0..Hidden - 1, At(q, g) = At(r, h)
  PROVE  q = r /\ g = h
<1> DEFINE o == r - 1
           n == 1
<1>1. o \in Int /\ n \in Int /\ r = o + 1 /\ r = o + n
  OBVIOUS
<1>2. At(q, g) - o * Hidden \in 1..n * Hidden
  BY DEF At
<1> HIDE DEF o, n
<1>3. q \in o + 1..o + n
  BY <1>1, <1>2, AtRange
<1> QED
  BY <1>1, <1>3 DEF At

(* The transposition of insert is one: each row of the vector has the      *)
(* elements of that row of the columns.                                    *)
LEMMA FlatHolds ==
  ASSUME accepted \in Nat, NEW n \in Nat
  PROVE  LET v == Flat(Columns(n), n) IN
         /\ v \in Vector
         /\ HasRows(v, n)
         /\ Holds(v, Rows(accepted, n), 1, n)
<1> DEFINE v == Flat(Columns(n), n)
           cells == (0..n - 1) \X (0..Hidden - 1)
<1>1. n * Hidden \in Nat /\ Hidden \in Nat \ {0}
  OBVIOUS
<1>2. \A cell \in cells : Columns(n)[cell[2]][cell[1]] = <<accepted + cell[1] + 1, cell[2]>>
  BY DEF Columns
<1>3. \A k : SourceOf(n, k) \subseteq cells
  BY DEF SourceOf
<1>4. \A k \in 1..n * Hidden : v[k] \in Int \X Int
  <2> TAKE k \in 1..n * Hidden
  <2>1. CASE SourceOf(n, k - 1) = {}
    BY <2>1 DEF Flat, Zero
  <2>2. CASE SourceOf(n, k - 1) # {}
    <3> DEFINE cell == CHOOSE c \in SourceOf(n, k - 1) : TRUE
    <3>1. cell \in cells
      BY <1>3, <2>2
    <3>2. v[k] = Columns(n)[cell[2]][cell[1]]
      BY <2>2 DEF Flat
    <3> HIDE DEF cell, v
    <3>3. v[k] = <<accepted + cell[1] + 1, cell[2]>> /\ cell[1] \in Int /\ cell[2] \in Int
      BY <1>2, <3>1, <3>2, <1>1
    <3> QED
      BY <3>3
  <2> QED
    BY <2>1, <2>2
<1>5. DOMAIN v = 1..n * Hidden
  BY DEF Flat
<1>6. v \in Vector /\ HasRows(v, n)
  <2>1. v = [k \in 1..n * Hidden |-> v[k]]
    BY DEF Flat
  <2> HIDE DEF v
  <2>2. v \in [1..n * Hidden -> Int \X Int]
    BY <1>4, <2>1
  <2> QED
    BY <1>1, <2>2 DEF Vector, HasRows
<1>7. Holds(v, Rows(accepted, n), 1, n)
  <2> SUFFICES ASSUME NEW row \in 1..n, NEW h \in 0..Hidden - 1
               PROVE  v[At(row, h)] = <<Rows(accepted, n)[row], h>>
    BY DEF Holds
  <2>1. At(row, h) \in 1..n * Hidden /\ At(row, h) - 1 = IndexOf(row - 1, h)
    <3>1. At(row, h) \in 1..n * Hidden
      BY AtInside
    <3> QED
      BY <3>1, <1>1 DEF At, IndexOf
  <2>2. <<row - 1, h>> \in SourceOf(n, At(row, h) - 1)
    BY <2>1 DEF SourceOf
  <2>3. \A cell \in SourceOf(n, At(row, h) - 1) : cell[1] = row - 1 /\ cell[2] = h
    <3> TAKE cell \in SourceOf(n, At(row, h) - 1)
    <3>1. cell \in cells /\ IndexOf(cell[1], cell[2]) = At(row, h) - 1
      BY DEF SourceOf
    <3>2. cell[1] \in 0..n - 1 /\ cell[2] \in 0..Hidden - 1
      BY <3>1
    <3> DEFINE q == cell[1] + 1
    <3>3. q \in Int /\ At(q, cell[2]) = At(row, h)
      BY <1>1, <2>1, <3>1, <3>2 DEF At, IndexOf
    <3>4. q = row /\ cell[2] = h
      BY <3>2, <3>3, AtUnique
    <3> QED
      BY <3>2, <3>4
  <2> DEFINE cell == CHOOSE c \in SourceOf(n, At(row, h) - 1) : TRUE
  <2>4. cell \in SourceOf(n, At(row, h) - 1)
    BY <2>2
  <2>5. v[At(row, h)] = Columns(n)[cell[2]][cell[1]]
    BY <2>1, <2>2 DEF Flat
  <2> HIDE DEF cell
  <2>6. v[At(row, h)] = <<accepted + row, h>>
    BY <1>2, <1>3, <2>3, <2>4, <2>5
  <2>7. Rows(accepted, n)[row] = accepted + row
    BY RowsType
  <2> QED
    BY <2>6, <2>7
<1> QED
  BY <1>6, <1>7

-----------------------------------------------------------------------------
(* std::move of a range, from a chunk into a batch.                        *)

(* A vector with n rows is a function on n * Hidden places ...             *)
LEMMA VectorCells ==
  ASSUME NEW v \in Vector, NEW n \in Nat, HasRows(v, n)
  PROVE  v \in [1..n * Hidden -> Int \X Int]
<1> DEFINE S == Int \X Int
           m == n * Hidden
<1>1. v \in Seq(S) /\ Len(v) = m
  BY DEF Vector, HasRows
<1> HIDE DEF S, m
<1>2. v \in [1..m -> S]
  BY <1>1
<1> QED
  BY <1>2 DEF S, m

(* ... and the other way round.                                            *)
LEMMA CellsVector ==
  ASSUME NEW n \in Nat, NEW v \in [1..n * Hidden -> Int \X Int]
  PROVE  v \in Vector /\ HasRows(v, n)
<1> DEFINE S == Int \X Int
           m == n * Hidden
<1>1. m \in Nat /\ v \in [1..m -> S]
  OBVIOUS
<1> HIDE DEF S, m
<1>2. v \in Seq(S) /\ Len(v) = m
  BY <1>1
<1> QED
  BY <1>2 DEF S, m, Vector, HasRows

(* Moving k rows that stand after o rows of vector e behind the len rows   *)
(* that vector f has makes it hold len + k rows, if the row numbers meet.  *)
LEMMA MoveIntoHolds ==
  ASSUME NEW e \in Vector, NEW f \in Vector, NEW a \in Nat, NEW b \in Nat,
         NEW m \in Nat, NEW n \in Nat, NEW o \in Nat, NEW k \in Nat, NEW len \in Nat,
         HasRows(e, m), Holds(e, Rows(a, m), o + 1, m),
         HasRows(f, n), Holds(f, Rows(b, len), 1, len),
         o + k <= m, len + k <= n, a + o = b + len
  PROVE  LET g == MoveInto(f, len * Hidden, e, o * Hidden, k * Hidden)
         IN  g \in Vector /\ HasRows(g, n) /\ Holds(g, Rows(b, len + k), 1, len + k)
<1> DEFINE dst == len * Hidden
           src == o * Hidden
           count == k * Hidden
           g == MoveInto(f, dst, e, src, count)
<1>1. /\ dst \in Nat /\ src \in Nat /\ count \in Nat
      /\ m * Hidden \in Nat /\ n * Hidden \in Nat
  OBVIOUS
<1>2. /\ DOMAIN e = 1..m * Hidden /\ DOMAIN f = 1..n * Hidden
      /\ \A i \in 1..m * Hidden : e[i] \in Int \X Int
      /\ \A i \in 1..n * Hidden : f[i] \in Int \X Int
  <2>1. e \in [1..m * Hidden -> Int \X Int] /\ f \in [1..n * Hidden -> Int \X Int]
    BY VectorCells
  <2> QED
    BY <2>1
<1>3. src + count <= m * Hidden
  <2>1. (o + k) * Hidden <= m * Hidden
    BY TimesHidden
  <2>2. (o + k) * Hidden = src + count
    OBVIOUS
  <2> QED
    BY <2>1, <2>2
<1>4. /\ g = [i \in 1..n * Hidden |->
                IF i - dst \in 1..count THEN e[src + (i - dst)] ELSE f[i]]
  BY <1>2 DEF MoveInto
<1> HIDE DEF g, dst, src, count
<1>5. g \in Vector /\ HasRows(g, n)
  <2>1. \A i \in 1..n * Hidden : i - dst \in 1..count => src + (i - dst) \in 1..m * Hidden
    BY <1>1, <1>3
  <2>2. g \in [1..n * Hidden -> Int \X Int]
    BY <1>2, <1>4, <2>1
  <2> QED
    BY <2>2, CellsVector
<1>6. Holds(g, Rows(b, len + k), 1, len + k)
  <2> SUFFICES ASSUME NEW row \in 1..len + k, NEW h \in 0..Hidden - 1
               PROVE  g[At(row, h)] = <<Rows(b, len + k)[row], h>>
    BY DEF Holds
  <2>1. row \in 1..n /\ At(row, h) \in 1..n * Hidden
    BY AtInside
  <2>2. Rows(b, len + k)[row] = b + row
    BY DEF Rows
  <2>3. At(row, h) - dst \in 1..count <=> row \in len + 1..len + k
    <3>1. row \in Int /\ len \in Int /\ k \in Int
      OBVIOUS
    <3> QED
      BY <3>1, AtRange, Zenon DEF dst, count
  <2>4. CASE row <= len
    <3>1. g[At(row, h)] = f[At(row, h)]
      BY <1>4, <2>1, <2>3, <2>4
    <3>2. f[At(row, h)] = <<Rows(b, len)[row], h>>
      BY <2>4 DEF Holds
    <3>3. Rows(b, len)[row] = b + row
      BY <2>4 DEF Rows
    <3> QED
      BY <2>2, <3>1, <3>2, <3>3
  <2>5. CASE row > len
    <3> DEFINE r == row + (o - len)
    <3>1. r \in o + 1..m /\ r \in 1..m
      BY <2>5
    <3>2. At(r, h) = src + (At(row, h) - dst)
      <4> DEFINE d == o - len
      <4>1. d \in Int /\ row \in Int /\ d * Hidden = src - dst
        BY DEF src, dst
      <4> HIDE DEF d
      <4>2. At(row + d, h) = At(row, h) + d * Hidden /\ At(row, h) \in Int
        BY <4>1, AtShift
      <4> QED
        BY <1>1, <4>1, <4>2 DEF d
    <3> HIDE DEF r
    <3>3. g[At(row, h)] = e[At(r, h)]
      BY <1>4, <2>1, <2>3, <2>5, <3>2
    <3>4. e[At(r, h)] = <<Rows(a, m)[r], h>>
      BY <3>1 DEF Holds
    <3>5. Rows(a, m)[r] = a + r
      BY <3>1 DEF Rows
    <3>6. a + r = b + row
      BY DEF r
    <3> QED
      BY <2>2, <3>3, <3>4, <3>5, <3>6
  <2> QED
    BY <2>4, <2>5
<1> QED
  BY <1>5, <1>6 DEF g, dst, src, count

(* Moving k rows that stand after o rows out of a vector leaves the rows   *)
(* behind them as they were.                                               *)
LEMMA MoveOutOfHolds ==
  ASSUME NEW e \in Vector, NEW numbers, NEW m \in Nat, NEW o \in Nat, NEW k \in Nat,
         HasRows(e, m), Holds(e, numbers, o + 1, m)
  PROVE  LET g == MoveOutOf(e, o * Hidden, k * Hidden)
         IN  g \in Vector /\ HasRows(g, m) /\ Holds(g, numbers, o + k + 1, m)
<1> DEFINE g == MoveOutOf(e, o * Hidden, k * Hidden)
<1>1. m * Hidden \in Nat
  OBVIOUS
<1>2. DOMAIN e = 1..m * Hidden /\ \A i \in 1..m * Hidden : e[i] \in Int \X Int
  <2>1. e \in [1..m * Hidden -> Int \X Int]
    BY VectorCells
  <2> QED
    BY <2>1
<1>3. g = [i \in 1..m * Hidden |->
             IF i - o * Hidden \in 1..k * Hidden THEN <<0, -1>> ELSE e[i]]
  BY <1>2 DEF MoveOutOf, Moved
<1> HIDE DEF g
<1>4. g \in Vector /\ HasRows(g, m)
  <2> DEFINE cells == m * Hidden
             src == o * Hidden
             count == k * Hidden
  <2> HIDE DEF cells, src, count
  <2>1. g \in [1..cells -> Int \X Int]
    BY <1>2, <1>3 DEF cells
  <2> QED
    BY <2>1, CellsVector DEF cells
<1>5. Holds(g, numbers, o + k + 1, m)
  <2> SUFFICES ASSUME NEW row \in o + k + 1..m, NEW h \in 0..Hidden - 1
               PROVE  g[At(row, h)] = <<numbers[row], h>>
    BY DEF Holds
  <2>1. row \in 1..m /\ row \in o + 1..m /\ row \notin o + 1..o + k
    OBVIOUS
  <2>2. At(row, h) \in 1..m * Hidden
    BY <2>1, AtInside
  <2>3. At(row, h) - o * Hidden \notin 1..k * Hidden
    <3>1. row \in Int /\ o \in Int /\ k \in Int
      OBVIOUS
    <3> QED
      BY <2>1, <3>1, AtRange, Zenon
  <2>4. g[At(row, h)] = e[At(row, h)]
    BY <1>3, <2>2, <2>3
  <2> QED
    BY <2>1, <2>4 DEF Holds
<1> QED
  BY <1>4, <1>5 DEF g

-----------------------------------------------------------------------------
(* The steps of RowLayout.                                                 *)

(* A source without rows has no element that could be in the wrong place.  *)
LEMMA InitLayoutInv == LayoutInit => LayoutInv
<1> SUFFICES ASSUME LayoutInit PROVE LayoutInv
  OBVIOUS
<1> USE DEF LayoutInit
<1>1. IInv
  BY InitIInv
<1>2. LayoutTypeOK
  BY DEF LayoutTypeOK, Vector
<1>3. RowMajor
  <2>1. /\ chunks = <<>> /\ delivered = <<>> /\ elements = <<>> /\ returned = <<>>
        /\ \A t \in Threads : pc[t] # "taking"
    BY DEF Init
  <2> QED
    BY <2>1 DEF RowMajor, DequeLayout, FilledLayout, ReturnedLayout
<1> QED
  BY <1>1, <1>2, <1>3 DEF LayoutInv

(* What is done to the elements is done in a step of DataSource.           *)
LEMMA LayoutNextNext == [LayoutNext]_layoutVars => [Next]_vars
<1> SUFFICES ASSUME [LayoutNext]_layoutVars PROVE [Next]_vars
  OBVIOUS
<1>1. ASSUME NEW c \in Clients, NEW n \in 1..MaxInsert, InsertElements(c, n)
      PROVE  Next
  BY <1>1 DEF InsertElements, Next, ClientStep
<1>2. ASSUME NEW c \in Clients, TryGetBatch(c)
      PROVE  Next
  BY <1>2 DEF Next, ClientStep
<1>3. ASSUME NEW t \in Tasks, TakeAsync(t)
      PROVE  Next
  BY <1>3 DEF Next, TaskStep
<1>4. ASSUME NEW t \in Threads, MoveElements(t) \/ ReturnElements(t) \/ DropElements(t)
      PROVE  Next
  BY <1>4 DEF MoveElements, ReturnElements, DropElements, Next, TakeStep
<1>5. CASE Elsewhere
  BY <1>5 DEF Elsewhere, Next, ClientStep, TaskStep
<1>6. CASE UNCHANGED layoutVars
  BY <1>6 DEF layoutVars, vars
<1> QED
  BY <1>1, <1>2, <1>3, <1>4, <1>5, <1>6 DEF LayoutNext

(* insert: a chunk of whole rows joins the deque.                          *)
LEMMA InsertLayout ==
  ASSUME LayoutInv, NEW c \in Clients, NEW n \in Nat, InsertElements(c, n)
  PROVE  LayoutTypeOK' /\ RowMajor'
<1> DEFINE v == Flat(Columns(n), n)
           new == [data |-> Rows(accepted, n), rows |-> n, offset_rows |-> 0]
<1> USE DEF LayoutInv
<1>1. /\ mu = NoThread
      /\ chunks' = Append(chunks, new)
      /\ pc' = IF NotifyDue(n) THEN [pc EXCEPT ![c] = "notify"] ELSE pc
      /\ elements' = Append(elements, v)
      /\ UNCHANGED <<batch, delivered, filled, returned>>
  BY DEF InsertElements, Insert
<1>2. /\ accepted \in Nat /\ chunks \in Seq(RowChunk) /\ elements \in Seq(Vector)
      /\ pc \in [Threads -> ClientPC \cup TaskPC]
  BY DEF LayoutTypeOK, IInv, TypeOK
<1>3. v \in Vector /\ HasRows(v, n) /\ Holds(v, Rows(accepted, n), 1, n)
  BY <1>2, FlatHolds
<1> HIDE DEF v
<1>4. LayoutTypeOK'
  BY <1>1, <1>2, <1>3 DEF LayoutTypeOK
<1>5. DequeLayout'
  <2>1. Len(elements) = Len(chunks)
    BY DEF RowMajor, DequeLayout
  <2>2. Len(elements') = Len(chunks') /\ Len(chunks') = Len(chunks) + 1
    BY <1>1, <1>2, <2>1
  <2>3. \A i \in 1..Len(chunks) : chunks'[i] = chunks[i] /\ elements'[i] = elements[i]
    BY <1>1, <1>2, <2>1
  <2>4. chunks'[Len(chunks) + 1] = new /\ elements'[Len(chunks) + 1] = v
    BY <1>1, <1>2, <2>1
  <2>5. ASSUME NEW i \in 1..Len(chunks')
        PROVE  /\ HasRows(elements'[i], chunks'[i].rows)
               /\ Holds(elements'[i], chunks'[i].data, chunks'[i].offset_rows + 1, chunks'[i].rows)
    <3>1. CASE i \in 1..Len(chunks)
      BY <2>3, <3>1 DEF RowMajor, DequeLayout
    <3>2. CASE i = Len(chunks) + 1
      BY <1>3, <2>4, <3>2
    <3> QED
      BY <1>2, <2>2, <3>1, <3>2
  <2> QED
    BY <2>2, <2>5 DEF DequeLayout, Holds, HasRows
<1>6. FilledLayout'
  <2>1. \A t \in Threads : pc'[t] # "taking"
    BY <1>1, <1>2 DEF IInv, TakeInv
  <2> QED
    BY <2>1 DEF FilledLayout
<1>7. ReturnedLayout'
  BY <1>1 DEF RowMajor, ReturnedLayout, LastRow, HasRows
<1> QED
  BY <1>4, <1>5, <1>6, <1>7 DEF RowMajor

(* resize: there is room for all rows of the batch, and none is there yet. *)
LEMMA ResizeLayout ==
  ASSUME LayoutInv, NEW t \in Threads, mu = NoThread, BeginTake(t), Resize(t)
  PROVE  LayoutTypeOK' /\ RowMajor'
<1> DEFINE zeros == [k \in 1..RowsToTake * Hidden |-> Zero]
<1> USE DEF LayoutInv
<1>1. /\ HasBatch
      /\ pc' = [pc EXCEPT ![t] = "taking"]
      /\ batch' = [batch EXCEPT ![t] =
            [data |-> <<>>, rows |-> RowsToTake, is_last |-> IsLast]]
      /\ filled' = [filled EXCEPT ![t] = zeros]
      /\ UNCHANGED <<chunks, delivered, elements, returned>>
  BY DEF BeginTake, Resize
<1>2. /\ rows_ready \in Nat /\ filled \in [Threads -> Vector]
      /\ pc \in [Threads -> ClientPC \cup TaskPC]
      /\ batch \in [Threads -> InputBatch]
  BY DEF LayoutTypeOK, IInv, TypeOK
<1>3. RowsToTake \in Nat /\ RowsToTake * Hidden \in Nat
  <2>1. RowsToTake \in Nat
    BY <1>2 DEF RowsToTake
  <2> QED
    BY <2>1
<1>4. zeros \in Vector /\ HasRows(zeros, RowsToTake)
  <2>1. zeros \in [1..RowsToTake * Hidden -> Int \X Int]
    BY DEF Zero
  <2> HIDE DEF zeros
  <2> QED
    BY <1>3, <2>1 DEF Vector, HasRows
<1> HIDE DEF zeros
<1>5. LayoutTypeOK'
  BY <1>1, <1>2, <1>4 DEF LayoutTypeOK
<1>6. DequeLayout'
  BY <1>1 DEF RowMajor, DequeLayout, HasRows, Holds
<1>7. FilledLayout'
  <2>1. \A u \in Threads : pc'[u] = "taking" => u = t
    BY <1>1, <1>2 DEF IInv, TakeInv
  <2>2. filled'[t] = zeros /\ batch'[t].rows = RowsToTake /\ batch'[t].data = <<>>
    BY <1>1, <1>2
  <2>3. Len(batch'[t].data) = 0 /\ Holds(filled'[t], batch'[t].data, 1, 0)
    BY <2>2 DEF Holds
  <2> QED
    BY <1>4, <2>1, <2>2, <2>3 DEF FilledLayout, HasRows, Holds
<1>8. ReturnedLayout'
  BY <1>1 DEF RowMajor, ReturnedLayout, LastRow, HasRows
<1> QED
  BY <1>5, <1>6, <1>7, <1>8 DEF RowMajor

(* The batch is returned when all of its rows are there.                   *)
LEMMA ReturnLayout ==
  ASSUME LayoutInv, NEW t \in Threads, ReturnElements(t)
  PROVE  LayoutTypeOK' /\ RowMajor'
<1> DEFINE b == batch[t]
           n == Len(delivered)
<1> USE DEF LayoutInv
<1>1. /\ pc[t] = "taking" /\ Missing(t) = 0
      /\ pc' = [pc EXCEPT ![t] = IF t \in Clients THEN "ready" ELSE "done"]
      /\ delivered' = Append(delivered, b)
      /\ returned' = Append(returned, filled[t])
      /\ filled' = [filled EXCEPT ![t] = <<>>]
      /\ UNCHANGED <<chunks, elements>>
  BY DEF ReturnElements, ReturnBatch
<1>2. /\ filled \in [Threads -> Vector] /\ returned \in Seq(Vector)
      /\ pc \in [Threads -> ClientPC \cup TaskPC]
      /\ b \in InputBatch /\ delivered \in Seq(InputBatch) /\ n \in Nat
      /\ Len(returned) = n
  BY DEF LayoutTypeOK, IInv, TypeOK, RowMajor, ReturnedLayout
<1>3. TakeOK(t) /\ \A u \in Threads \ {t} : pc[u] # "taking"
  BY <1>1 DEF IInv, TakeInv
<1>4. Len(b.data) = b.rows /\ b.rows \in Nat /\ b.data = Rows(Taken(delivered), b.rows)
  BY <1>1, <1>2, <1>3 DEF TakeOK, Missing, InputBatch
<1>5. LayoutTypeOK'
  BY <1>1, <1>2 DEF LayoutTypeOK, Vector
<1>6. DequeLayout'
  BY <1>1 DEF RowMajor, DequeLayout, HasRows, Holds
<1>7. FilledLayout'
  <2>1. \A u \in Threads : pc'[u] # "taking"
    BY <1>1, <1>2, <1>3
  <2> QED
    BY <2>1 DEF FilledLayout
<1>8. ReturnedLayout'
  <2>1. /\ Len(returned') = n + 1 /\ Len(delivered') = n + 1
        /\ returned'[n + 1] = filled[t] /\ delivered'[n + 1] = b
        /\ \A i \in 1..n : returned'[i] = returned[i] /\ delivered'[i] = delivered[i]
    BY <1>1, <1>2
  <2>2. ASSUME NEW i \in 1..n + 1
        PROVE  LET before == IF i = 1 THEN 0 ELSE LastRow(delivered'[i - 1])
               IN  /\ HasRows(returned'[i], delivered'[i].rows)
                   /\ \A row \in 1..delivered'[i].rows, h \in 0..Hidden - 1 :
                        returned'[i][At(row, h)] = <<before + row, h>>
    <3>1. CASE i \in 1..n
      <4>1. i # 1 => delivered'[i - 1] = delivered[i - 1]
        BY <1>2, <2>1, <3>1
      <4> QED
        BY <2>1, <3>1, <4>1 DEF RowMajor, ReturnedLayout
    <3>2. CASE i = n + 1
      <4>1. Taken(delivered) = IF i = 1 THEN 0 ELSE LastRow(delivered'[i - 1])
        BY <1>2, <2>1, <3>2 DEF Taken
      <4>2. HasRows(filled[t], b.rows) /\ Holds(filled[t], b.data, 1, b.rows)
        BY <1>1, <1>4 DEF RowMajor, FilledLayout
      <4>3. \A row \in 1..b.rows : b.data[row] = Taken(delivered) + row
        BY <1>4 DEF Rows
      <4>4. \A row \in 1..b.rows, h \in 0..Hidden - 1 :
              filled[t][At(row, h)] = <<Taken(delivered) + row, h>>
        BY <4>2, <4>3 DEF Holds
      <4> QED
        BY <2>1, <3>2, <4>1, <4>2, <4>4
    <3> QED
      BY <1>2, <3>1, <3>2
  <2> HIDE DEF n
  <2>3. Len(returned') = Len(delivered') /\ 1..Len(returned') = 1..n + 1
    BY <2>1
  <2> QED
    BY <2>2, <2>3, Zenon DEF ReturnedLayout
<1> QED
  BY <1>5, <1>6, <1>7, <1>8 DEF RowMajor

(* A vector that could not be allocated leaves the elements where they are.*)
LEMMA DropLayout ==
  ASSUME LayoutInv, NEW t \in Threads, DropElements(t)
  PROVE  LayoutTypeOK' /\ RowMajor'
<1> USE DEF LayoutInv
<1>1. /\ pc[t] = "taking"
      /\ pc' = [pc EXCEPT ![t] = IF t \in Clients THEN "ready" ELSE "thrown"]
      /\ filled' = [filled EXCEPT ![t] = <<>>]
      /\ UNCHANGED <<chunks, delivered, elements, returned>>
  BY DEF DropElements, ResizeThrows
<1>2. /\ filled \in [Threads -> Vector]
      /\ pc \in [Threads -> ClientPC \cup TaskPC]
  BY DEF LayoutTypeOK, IInv, TypeOK
<1>3. \A u \in Threads : pc'[u] # "taking"
  BY <1>1, <1>2 DEF IInv, TakeInv
<1>4. LayoutTypeOK'
  BY <1>1, <1>2 DEF LayoutTypeOK, Vector
<1>5. DequeLayout' /\ FilledLayout' /\ ReturnedLayout'
  BY <1>1, <1>3 DEF RowMajor, DequeLayout, FilledLayout, ReturnedLayout, HasRows, Holds,
                    LastRow
<1> QED
  BY <1>4, <1>5 DEF RowMajor

(* An iteration moves the elements of the rows that DataSource says, from  *)
(* where they are in the front chunk to where they belong in the batch.    *)
LEMMA MoveLayout ==
  ASSUME LayoutInv, NEW t \in Threads, MoveElements(t)
  PROVE  LayoutTypeOK' /\ RowMajor'
<1> DEFINE k == TakeRows(t)
           front == chunks[1]
           o == front.offset_rows
           len == Len(batch[t].data)
           e == elements[1]
           f == filled[t]
           into == MoveInto(f, len * Hidden, e, o * Hidden, k * Hidden)
           rest == MoveOutOf(e, o * Hidden, k * Hidden)
<1> USE DEF LayoutInv
<1>1. /\ CopyFromFront(t)
      /\ filled' = [filled EXCEPT ![t] = into]
      /\ elements' = IF o + k = front.rows THEN Tail(elements)
                     ELSE [elements EXCEPT ![1] = rest]
      /\ UNCHANGED returned
  BY DEF MoveElements, SrcIndex
<1>2. /\ filled \in [Threads -> Vector] /\ elements \in Seq(Vector)
      /\ chunks \in Seq(RowChunk) /\ batch \in [Threads -> InputBatch]
      /\ Len(elements) = Len(chunks)
  BY DEF LayoutTypeOK, IInv, TypeOK, RowMajor, DequeLayout
<1>3. /\ mu = t /\ TakeOK(t) /\ chunks # <<>> /\ front \in RowChunk /\ ChunkOK(1)
      /\ k \in 1..Missing(t) /\ k <= front.rows - o
      /\ batch'[t].data = Rows(Taken(delivered), len + k)
  BY <1>1, CopyMovesRows
<1>4. /\ pc[t] = "taking" /\ pc' = pc /\ delivered' = delivered
      /\ chunks' = Consume(k)
      /\ batch'[t].rows = batch[t].rows
      /\ \A u \in Threads \ {t} : pc[u] # "taking"
  BY <1>1, <1>2, <1>3 DEF CopyFromFront, IInv, TakeInv, InputBatch
<1>5. /\ front.rows \in Nat /\ o \in Nat /\ k \in Nat /\ len \in Nat
      /\ batch[t].rows \in Nat /\ len + k <= batch[t].rows /\ o + k <= front.rows
  <2>1. front.rows \in Nat /\ o \in Nat /\ len \in Nat /\ batch[t].rows \in Nat
    BY <1>2, <1>3 DEF RowChunk, InputBatch
  <2>2. Missing(t) = batch[t].rows - len
    BY DEF Missing
  <2> QED
    BY <1>3, <2>1, <2>2
<1>6. /\ Before(front) \in Nat /\ front.data = Rows(Before(front), front.rows)
      /\ Taken(delivered) \in Nat /\ batch[t].data = Rows(Taken(delivered), len)
      /\ Before(front) + o = Taken(delivered) + len
  BY <1>3, TakenNat DEF ChunkOK, TakeOK, IInv, QueueInv
<1>7. /\ e \in Vector /\ HasRows(e, front.rows) /\ Holds(e, front.data, o + 1, front.rows)
  BY <1>2, <1>3 DEF RowMajor, DequeLayout
<1>8. f \in Vector /\ HasRows(f, batch[t].rows) /\ Holds(f, batch[t].data, 1, len)
  BY <1>2, <1>4 DEF RowMajor, FilledLayout
<1>9. /\ into \in Vector /\ HasRows(into, batch[t].rows)
      /\ Holds(into, Rows(Taken(delivered), len + k), 1, len + k)
  <2> DEFINE a == Before(front)
             b == Taken(delivered)
             m == front.rows
             n == batch[t].rows
  <2>1. /\ a \in Nat /\ b \in Nat /\ m \in Nat /\ n \in Nat
        /\ Holds(e, Rows(a, m), o + 1, m) /\ Holds(f, Rows(b, len), 1, len)
        /\ HasRows(e, m) /\ HasRows(f, n) /\ o + k <= m /\ len + k <= n
        /\ a + o = b + len /\ o \in Nat /\ k \in Nat /\ len \in Nat
        /\ e \in Vector /\ f \in Vector
    BY <1>5, <1>6, <1>7, <1>8
  <2> HIDE DEF a, b, m, n, e, f, len, o, k
  <2> QED
    BY <2>1, MoveIntoHolds DEF b, n
<1>10. /\ rest \in Vector /\ HasRows(rest, front.rows)
       /\ Holds(rest, front.data, o + k + 1, front.rows)
  <2> DEFINE m == front.rows
  <2>1. /\ m \in Nat /\ HasRows(e, m) /\ Holds(e, front.data, o + 1, m)
        /\ o \in Nat /\ k \in Nat /\ e \in Vector
    BY <1>5, <1>7
  <2> HIDE DEF m, e, o, k
  <2> QED
    BY <2>1, MoveOutOfHolds DEF m
<1> HIDE DEF into, rest
<1>11. LayoutTypeOK'
  BY <1>1, <1>2, <1>3, <1>9, <1>10 DEF LayoutTypeOK
<1>12. DequeLayout'
  <2>1. CASE o + k = front.rows
    <3>1. elements' = Tail(elements) /\ chunks' = Tail(chunks)
      BY <1>1, <1>4, <2>1 DEF Consume
    <3>2. /\ Len(elements') = Len(chunks') /\ Len(chunks') = Len(chunks) - 1
          /\ \A i \in 1..Len(chunks') : /\ i + 1 \in 1..Len(chunks)
                                        /\ elements'[i] = elements[i + 1]
                                        /\ chunks'[i] = chunks[i + 1]
      BY <1>2, <1>3, <3>1
    <3> QED
      BY <3>2 DEF RowMajor, DequeLayout, HasRows, Holds
  <2>2. CASE o + k # front.rows
    <3>1. /\ elements' = [elements EXCEPT ![1] = rest]
          /\ chunks' = [chunks EXCEPT ![1] = [front EXCEPT !.offset_rows = o + k]]
      BY <1>1, <1>4, <2>2 DEF Consume
    <3>2. /\ Len(elements') = Len(chunks') /\ Len(chunks') = Len(chunks)
          /\ elements'[1] = rest
          /\ chunks'[1].rows = front.rows /\ chunks'[1].data = front.data
          /\ chunks'[1].offset_rows = o + k
          /\ \A i \in 2..Len(chunks) : elements'[i] = elements[i] /\ chunks'[i] = chunks[i]
      <4> DEFINE new == [front EXCEPT !.offset_rows = o + k]
      <4>1. new.rows = front.rows /\ new.data = front.data /\ new.offset_rows = o + k
        BY <1>3 DEF RowChunk
      <4> HIDE DEF new, front, o, k
      <4>2. chunks'[1] = new /\ elements'[1] = rest
        BY <1>2, <1>3, <3>1 DEF new
      <4>3. /\ Len(elements') = Len(chunks') /\ Len(chunks') = Len(chunks)
            /\ \A i \in 2..Len(chunks) : elements'[i] = elements[i] /\ chunks'[i] = chunks[i]
        BY <1>2, <1>3, <3>1
      <4> QED
        BY <4>1, <4>2, <4>3
    <3>3. ASSUME NEW i \in 1..Len(chunks')
          PROVE  /\ HasRows(elements'[i], chunks'[i].rows)
                 /\ Holds(elements'[i], chunks'[i].data, chunks'[i].offset_rows + 1, chunks'[i].rows)
      <4>1. CASE i = 1
        BY <1>10, <3>2, <4>1
      <4>2. CASE i # 1
        <5>1. i \in 2..Len(chunks) /\ i \in 1..Len(chunks)
          BY <1>2, <3>2, <4>2
        <5> QED
          BY <3>2, <5>1 DEF RowMajor, DequeLayout
      <4> QED
        BY <4>1, <4>2
    <3> QED
      BY <3>2, <3>3 DEF DequeLayout, HasRows, Holds
  <2> QED
    BY <2>1, <2>2
<1>13. FilledLayout'
  <2>1. filled'[t] = into
    BY <1>1, <1>2
  <2>2. Len(batch'[t].data) = len + k
    <3>1. len + k \in Nat /\ batch'[t].data = [i \in 1..len + k |-> Taken(delivered) + i]
      BY <1>3, <1>5 DEF Rows
    <3> QED
      BY <3>1
  <2> QED
    BY <1>3, <1>4, <1>9, <2>1, <2>2 DEF FilledLayout, HasRows, Holds
<1>14. ReturnedLayout'
  BY <1>1, <1>4 DEF RowMajor, ReturnedLayout, LastRow, HasRows
<1> QED
  BY <1>11, <1>12, <1>13, <1>14 DEF RowMajor

(* A step that touches no element, and lets nobody into or out of          *)
(* take_batch_locked, leaves the layout as it is.                          *)
LEMMA ElsewhereLayout ==
  ASSUME LayoutInv, Elsewhere
  PROVE  LayoutTypeOK' /\ RowMajor'
<1> USE DEF LayoutInv
<1>1. pc \in [Threads -> ClientPC \cup TaskPC]
  BY DEF IInv, TypeOK
<1>2. UNCHANGED <<chunks, batch, delivered, elements, filled, returned>>
  BY DEF Elsewhere, Close, NotifyAll, GetBatchAsync, Wait, FailAsync, SpuriousWakeUp
<1>3. \A u \in Threads : pc'[u] = "taking" => pc[u] = "taking"
  BY <1>1 DEF Elsewhere, Close, NotifyAll, GetBatchAsync, Wait, FailAsync, SpuriousWakeUp
<1>4. LayoutTypeOK'
  BY <1>2 DEF LayoutTypeOK
<1>5. DequeLayout' /\ FilledLayout' /\ ReturnedLayout'
  BY <1>2, <1>3 DEF RowMajor, DequeLayout, FilledLayout, ReturnedLayout, HasRows, Holds,
                    LastRow
<1> QED
  BY <1>4, <1>5 DEF RowMajor

(* Row numbers and elements together are inductive.                        *)
LEMMA NextLayoutInv == LayoutInv /\ [LayoutNext]_layoutVars => LayoutInv'
<1> SUFFICES ASSUME LayoutInv, [LayoutNext]_layoutVars PROVE LayoutInv'
  OBVIOUS
<1>1. IInv'
  BY LayoutNextNext, NextIInv DEF LayoutInv
<1>2. ASSUME NEW c \in Clients, NEW n \in 1..MaxInsert, InsertElements(c, n)
      PROVE  LayoutTypeOK' /\ RowMajor'
  BY <1>2, InsertLayout
<1>3. ASSUME NEW c \in Clients, TryGetBatch(c), Resize(c)
      PROVE  LayoutTypeOK' /\ RowMajor'
  BY <1>3, ResizeLayout DEF TryGetBatch
<1>4. ASSUME NEW t \in Tasks, TakeAsync(t), Resize(t)
      PROVE  LayoutTypeOK' /\ RowMajor'
  BY <1>4, ResizeLayout DEF TakeAsync
<1>5. ASSUME NEW t \in Threads, MoveElements(t) \/ ReturnElements(t) \/ DropElements(t)
      PROVE  LayoutTypeOK' /\ RowMajor'
  BY <1>5, MoveLayout, ReturnLayout, DropLayout
<1>6. ASSUME Elsewhere
      PROVE  LayoutTypeOK' /\ RowMajor'
  BY <1>6, ElsewhereLayout
<1>7. ASSUME UNCHANGED layoutVars
      PROVE  LayoutTypeOK' /\ RowMajor'
  <2>1. UNCHANGED <<chunks, pc, batch, delivered, elements, filled, returned>>
    BY <1>7 DEF layoutVars, vars
  <2> QED
    <3>1. LayoutTypeOK' /\ DequeLayout'
      BY <2>1 DEF LayoutInv, LayoutTypeOK, RowMajor, DequeLayout, HasRows, Holds
    <3>2. FilledLayout'
      BY <2>1 DEF LayoutInv, RowMajor, FilledLayout, HasRows, Holds
    <3>3. ReturnedLayout'
      BY <2>1 DEF LayoutInv, RowMajor, ReturnedLayout, HasRows, LastRow
    <3> QED
      BY <3>1, <3>2, <3>3 DEF RowMajor
<1>8. LayoutTypeOK' /\ RowMajor'
  BY <1>2, <1>3, <1>4, <1>5, <1>6, <1>7 DEF LayoutNext
<1> QED
  BY <1>1, <1>8 DEF LayoutInv

-----------------------------------------------------------------------------
(* The theorems about elements.                                            *)

(* insert and take_batch_locked, seen with the elements they transpose and *)
(* move, are the DataSource that is proved correct above: each of its      *)
(* properties holds of them too.                                           *)
THEOREM LayoutIsDataSource == LayoutSpec => Spec
  BY LayoutNextNext, PTL DEF LayoutSpec, LayoutInit, Spec

(* Through that, a host that sees only the vectors it is given sees a      *)
(* behaviour of the abstract stream.                                       *)
THEOREM LayoutImplementsStream == LayoutSpec => StreamSpec
  BY LayoutIsDataSource, ImplementsStream

(* The row numbers and the elements stay in step.                          *)
THEOREM LayoutInvariance == LayoutSpec => []LayoutInv
  BY InitLayoutInv, NextLayoutInv, PTL DEF LayoutSpec

(* Every index that insert and take_batch_locked compute is right: a batch *)
(* that a host gets is a dense row-major [rows, hidden] matrix of the rows *)
(* that follow the batch before it, for any number of columns, any sizes   *)
(* of inserts and of batches, and whatever allocation fails.               *)
THEOREM ElementsRowMajor == LayoutSpec => []RowMajor
  BY LayoutInvariance, PTL DEF LayoutInv

=============================================================================
