---------------------------- MODULE DataSource -----------------------------
(***************************************************************************)
(* pt2so::DataSource (runtime/include/data_source.h): a mutex-protected    *)
(* deque of row chunks that any thread may fill with insert, drain with    *)
(* try_get_batch and end with close, and that tasks started by             *)
(* get_batch_async drain from a condition-variable wait.                   *)
(*                                                                         *)
(* Granularity.  What a thread does while it holds state->mu is one step,  *)
(* except the copying loop of take_batch_locked, which is one step per     *)
(* iteration with the mutex held throughout.  cv.notify_all comes after    *)
(* the unlock, and is a step of its own.                                   *)
(*                                                                         *)
(* Data.  A row is known by the position at which the source accepted it,  *)
(* 1, 2, ...; the model_hidden elements of a row always travel together,   *)
(* so a chunk of n rows holds n numbers.  Calls that change nothing (an    *)
(* insert of no columns, of no rows, of columns of the wrong shape, after  *)
(* close, or whose push_back throws; a poll that returns nullopt; a second *)
(* close; closed()) are stuttering steps.                                  *)
(***************************************************************************)
EXTENDS Integers, Sequences

CONSTANTS
  Clients,     \* threads that call insert, try_get_batch and close
  Tasks,       \* tasks that get_batch_async may start
  NoThread,    \* the holder of a free mutex
  TargetRows,  \* target_rows
  MaxInsert,   \* bound: rows of one insert
  MaxRows,     \* bound: rows accepted in a behaviour
  MaxFails     \* bound: batches whose allocation fails in a behaviour

Threads == Clients \cup Tasks

(* State's constructor throws unless target_rows is positive.              *)
ASSUME DataSourceAssumption ==
  /\ Clients \cap Tasks = {}
  /\ NoThread \notin Threads
  /\ TargetRows \in Nat \ {0}
  /\ MaxInsert \in Nat
  /\ MaxRows \in Nat
  /\ MaxFails \in Nat

VARIABLES
  mu,           \* the thread that holds state->mu, or NoThread
  rows_ready,   \* state->rows_ready
  closed,       \* state->closed
  chunks,       \* state->chunks, the front of the deque first
  pc,           \* where each thread is
  batch,        \* the InputBatch each thread is filling
  accepted,     \* history: rows accepted by insert
  delivered,    \* history: batches returned, in the order they were taken
  fails         \* history: batches whose allocation failed

vars == <<mu, rows_ready, closed, chunks, pc, batch, accepted, delivered, fails>>

(* A client is "ready" between calls; "notify" is between the unlock and   *)
(* notify_all of insert or close; "taking" is inside take_batch_locked.    *)
(* A task starts "idle"; it is "running" when it wants the mutex,          *)
(* "waiting" when blocked in cv.wait, and ends "done" (it has a batch),    *)
(* "failed" (there was none) or "thrown" (there was no memory for it): in  *)
(* the latter two its future holds an exception.                           *)
ClientPC == {"ready", "notify", "taking"}
TaskPC == {"idle", "running", "waiting", "taking", "done", "failed", "thrown"}

(* The n rows that follow row number a. *)
Rows(a, n) == [i \in 1..n |-> a + i]

RowChunk == [data : Seq(Nat), rows : Nat, offset_rows : Nat]
InputBatch == [data : Seq(Nat), rows : Nat, is_last : BOOLEAN]

NoBatch == [data |-> <<>>, rows |-> 0, is_last |-> FALSE]

Init ==
  /\ mu = NoThread
  /\ rows_ready = 0
  /\ closed = FALSE
  /\ chunks = <<>>
  /\ pc = [t \in Threads |-> IF t \in Clients THEN "ready" ELSE "idle"]
  /\ batch = [t \in Threads |-> NoBatch]
  /\ accepted = 0
  /\ delivered = <<>>
  /\ fails = 0

-----------------------------------------------------------------------------
(* Deliberate faults, each in place of the definition named in front of it.*)
(* The properties below are run against them.                              *)

(* NotifyDue: notify only on the insert that completes exactly one batch.  *)
NotifyOnExactFill(n) == rows_ready + n = TargetRows

(* NotifyAll: cv.notify_one, which wakes one of the waiting tasks.         *)
NotifyOne(c) ==
  /\ pc[c] = "notify"
  /\ \/ /\ \A t \in Tasks : pc[t] # "waiting"
        /\ pc' = [pc EXCEPT ![c] = "ready"]
     \/ \E t \in Tasks :
          /\ pc[t] = "waiting"
          /\ pc' = [pc EXCEPT ![c] = "ready", ![t] = "running"]
  /\ UNCHANGED <<mu, rows_ready, closed, chunks, batch, accepted, delivered, fails>>

(* HasBatch: a closed source keeps a last short batch to itself.           *)
HasFullBatch == rows_ready >= TargetRows

(* RowsToTake: ask for a full batch even of a tail that is shorter ...     *)
AlwaysTargetRows == TargetRows

(* ... or drain everything that is ready.                                  *)
AllReadyRows == rows_ready

(* IsLast: mark every batch of a closed source.                            *)
LastWheneverClosed == closed

(* SrcBegin: copy from the beginning of the chunk, whatever was read.      *)
ChunkBegin(chunk) == 1

(* Uncount: subtract the whole batch in every iteration.                   *)
UncountWholeBatch(t, take_rows) == rows_ready - batch[t].rows

(* Consume: leave the offset of a chunk that is not used up as it was.     *)
ConsumeKeepsOffset(take_rows) ==
  IF chunks[1].offset_rows + take_rows = chunks[1].rows
  THEN Tail(chunks)
  ELSE chunks

-----------------------------------------------------------------------------
(* insert, close and the wake-up they owe the waiting tasks                *)

(* Whether an insert of n rows has to notify.                              *)
NotifyDue(n) == rows_ready + n >= TargetRows

(* insert(columns) with n rows: push a chunk, count its rows, and decide   *)
(* under the lock whether a notification is due.                           *)
Insert(c, n) ==
  /\ pc[c] = "ready" /\ mu = NoThread
  /\ ~closed
  /\ n >= 1 /\ accepted + n <= MaxRows
  /\ chunks' = Append(chunks,
        [data |-> Rows(accepted, n), rows |-> n, offset_rows |-> 0])
  /\ rows_ready' = rows_ready + n
  /\ accepted' = accepted + n
  /\ pc' = IF NotifyDue(n) THEN [pc EXCEPT ![c] = "notify"] ELSE pc
  /\ UNCHANGED <<mu, closed, batch, delivered, fails>>

(* close() of an open source, by a client or by its destructor.            *)
Close(c) ==
  /\ pc[c] = "ready" /\ mu = NoThread
  /\ ~closed
  /\ closed' = TRUE
  /\ pc' = [pc EXCEPT ![c] = "notify"]
  /\ UNCHANGED <<mu, rows_ready, chunks, batch, accepted, delivered, fails>>

(* cv.notify_all(), after the mutex has been released.                     *)
NotifyAll(c) ==
  /\ pc[c] = "notify"
  /\ pc' = [t \in Threads |-> IF t = c THEN "ready"
                              ELSE IF pc[t] = "waiting" THEN "running"
                              ELSE pc[t]]
  /\ UNCHANGED <<mu, rows_ready, closed, chunks, batch, accepted, delivered, fails>>

-----------------------------------------------------------------------------
(* try_get_batch_locked and take_batch_locked                              *)

(* try_get_batch_locked has a batch to return ...                          *)
HasBatch == rows_ready >= TargetRows \/ (closed /\ rows_ready > 0)

(* ... of this many rows ...                                               *)
RowsToTake == IF rows_ready >= TargetRows THEN TargetRows ELSE rows_ready

(* ... with this mark.                                                     *)
IsLast == rows_ready >= TargetRows => (closed /\ rows_ready = TargetRows)

(* Thread t, which has just locked the mutex, enters take_batch_locked.    *)
BeginTake(t) ==
  /\ HasBatch
  /\ mu' = t
  /\ pc' = [pc EXCEPT ![t] = "taking"]
  /\ batch' = [batch EXCEPT ![t] =
        [data |-> <<>>, rows |-> RowsToTake, is_last |-> IsLast]]
  /\ UNCHANGED <<rows_ready, closed, chunks, accepted, delivered, fails>>

(* The rows of t's batch that are still to be copied.                      *)
Missing(t) == batch[t].rows - Len(batch[t].data)

(* take_rows: what the front chunk has, or what is missing if that is less.*)
TakeRows(t) ==
  LET available_rows == chunks[1].rows - chunks[1].offset_rows
  IN  IF Missing(t) <= available_rows THEN Missing(t) ELSE available_rows

(* Where in the chunk the copy begins.                                     *)
SrcBegin(chunk) == chunk.offset_rows + 1

(* rows_ready after take_rows rows were copied.                            *)
Uncount(t, take_rows) == rows_ready - take_rows

(* The deque after take_rows rows of its front: a chunk used up is popped. *)
Consume(take_rows) ==
  IF chunks[1].offset_rows + take_rows = chunks[1].rows
  THEN Tail(chunks)
  ELSE [chunks EXCEPT ![1].offset_rows = @ + take_rows]

(* An iteration of the copying loop.                                       *)
CopyFromFront(t) ==
  LET take_rows == TakeRows(t)
      src_begin == SrcBegin(chunks[1])
      src == SubSeq(chunks[1].data, src_begin, src_begin + take_rows - 1)
  IN  /\ pc[t] = "taking" /\ Missing(t) > 0
      /\ batch' = [batch EXCEPT ![t].data = @ \o src]
      /\ chunks' = Consume(take_rows)
      /\ rows_ready' = Uncount(t, take_rows)
      /\ UNCHANGED <<mu, closed, pc, accepted, delivered, fails>>

(* The loop ends: the batch is returned and the lock guard released.       *)
ReturnBatch(t) ==
  /\ pc[t] = "taking" /\ Missing(t) = 0
  /\ mu' = NoThread
  /\ pc' = [pc EXCEPT ![t] = IF t \in Clients THEN "ready" ELSE "done"]
  /\ delivered' = Append(delivered, batch[t])
  /\ batch' = [batch EXCEPT ![t] = NoBatch]
  /\ UNCHANGED <<rows_ready, closed, chunks, accepted, fails>>

(* batch.data.resize, which precedes the loop, throws bad_alloc: the lock  *)
(* guard releases the mutex, and no row has been taken.                    *)
ResizeThrows(t) ==
  /\ pc[t] = "taking" /\ batch[t].data = <<>>
  /\ fails < MaxFails
  /\ fails' = fails + 1
  /\ mu' = NoThread
  /\ pc' = [pc EXCEPT ![t] = IF t \in Clients THEN "ready" ELSE "thrown"]
  /\ batch' = [batch EXCEPT ![t] = NoBatch]
  /\ UNCHANGED <<rows_ready, closed, chunks, accepted, delivered>>

(* try_get_batch() that finds a batch.                                     *)
TryGetBatch(c) ==
  /\ pc[c] = "ready" /\ mu = NoThread
  /\ BeginTake(c)

-----------------------------------------------------------------------------
(* get_batch_async                                                         *)

(* std::async(std::launch::async, ...): a thread starts on the task.       *)
GetBatchAsync(t) ==
  /\ pc[t] = "idle"
  /\ pc' = [pc EXCEPT ![t] = "running"]
  /\ UNCHANGED <<mu, rows_ready, closed, chunks, batch, accepted, delivered, fails>>

(* The predicate of cv.wait.                                               *)
WakeUp == rows_ready >= TargetRows \/ closed

(* cv.wait with the mutex held and the predicate false: release and block. *)
Wait(t) ==
  /\ pc[t] = "running" /\ mu = NoThread
  /\ ~WakeUp
  /\ pc' = [pc EXCEPT ![t] = "waiting"]
  /\ UNCHANGED <<mu, rows_ready, closed, chunks, batch, accepted, delivered, fails>>

(* The predicate holds and there is a batch to take.                       *)
TakeAsync(t) ==
  /\ pc[t] = "running" /\ mu = NoThread
  /\ WakeUp
  /\ BeginTake(t)

(* The predicate holds and there is none: "closed with no pending rows".   *)
FailAsync(t) ==
  /\ pc[t] = "running" /\ mu = NoThread
  /\ WakeUp /\ ~HasBatch
  /\ pc' = [pc EXCEPT ![t] = "failed"]
  /\ UNCHANGED <<mu, rows_ready, closed, chunks, batch, accepted, delivered, fails>>

(* A condition variable may wake a thread for no reason.                   *)
SpuriousWakeUp(t) ==
  /\ pc[t] = "waiting"
  /\ pc' = [pc EXCEPT ![t] = "running"]
  /\ UNCHANGED <<mu, rows_ready, closed, chunks, batch, accepted, delivered, fails>>

-----------------------------------------------------------------------------
ClientStep(c) ==
  \/ \E n \in 1..MaxInsert : Insert(c, n)
  \/ Close(c)
  \/ NotifyAll(c)
  \/ TryGetBatch(c)

TaskStep(t) ==
  \/ GetBatchAsync(t)
  \/ Wait(t)
  \/ TakeAsync(t)
  \/ FailAsync(t)
  \/ SpuriousWakeUp(t)

TakeStep(t) == CopyFromFront(t) \/ ReturnBatch(t)

Next ==
  \/ \E c \in Clients : ClientStep(c)
  \/ \E t \in Tasks : TaskStep(t)
  \/ \E t \in Threads : TakeStep(t) \/ ResizeThrows(t)

Spec == Init /\ [][Next]_vars

(* A thread inside a call goes on to its end, and a task that was started  *)
(* or woken gets the mutex: a call holds the mutex for a bounded loop, so  *)
(* weak fairness is enough.  Nobody is obliged to make a call, and neither *)
(* a spurious wake-up nor a lack of memory is promised.                    *)
Fairness ==
  /\ \A c \in Clients : WF_vars(NotifyAll(c))
  /\ \A t \in Threads : WF_vars(TakeStep(t))
  /\ \A t \in Tasks : WF_vars(Wait(t) \/ TakeAsync(t) \/ FailAsync(t))

FairSpec == Spec /\ Fairness

-----------------------------------------------------------------------------
(* Correctness.                                                            *)

(* The number of rows that have left the deque.                            *)
Left == accepted - rows_ready

(* The number of rows in batches that were returned: the rows leave in     *)
(* order, so it is the number of the last row of the newest batch.         *)
LastRow(b) == b.data[b.rows]
Taken(seq) == IF seq = <<>> THEN 0 ELSE LastRow(seq[Len(seq)])

(* Types and ranges: in particular rows_ready is never negative.           *)
TypeOK ==
  /\ mu \in Threads \cup {NoThread}
  /\ rows_ready \in Nat
  /\ closed \in BOOLEAN
  /\ chunks \in Seq(RowChunk)
  /\ pc \in [Threads -> ClientPC \cup TaskPC]
  /\ \A c \in Clients : pc[c] \in ClientPC
  /\ \A t \in Tasks : pc[t] \in TaskPC
  /\ batch \in [Threads -> InputBatch]
  /\ accepted \in Nat
  /\ delivered \in Seq(InputBatch)
  /\ fails \in Nat

(* The row before the first row of a non-empty chunk.                      *)
Before(chunk) == chunk.data[1] - 1

(* Chunk i of the deque holds some rows, consecutive ones, all of them     *)
(* accepted, and only the front chunk has been read from, not to its end.  *)
ChunkOK(i) ==
  LET chunk == chunks[i]
  IN  /\ chunk.rows >= 1
      /\ chunk.data = Rows(Before(chunk), chunk.rows)
      /\ Before(chunk) \in Nat
      /\ Before(chunk) + chunk.rows <= accepted
      /\ chunk.offset_rows < chunk.rows
      /\ i > 1 => chunk.offset_rows = 0

(* The deque holds exactly the rows_ready newest rows in order: the front  *)
(* starts after the rows that have left, each chunk starts where the one   *)
(* before it ends, and the back ends with the newest row.  A counter that  *)
(* drifts from the queue makes take_batch_locked read the front of an      *)
(* empty deque, or leaves rows that no batch will ever carry.              *)
QueueInv ==
  /\ rows_ready <= accepted
  /\ \A i \in 1..Len(chunks) : ChunkOK(i)
  /\ \A i \in 1..Len(chunks) - 1 :
        Before(chunks[i + 1]) = Before(chunks[i]) + chunks[i].rows
  /\ chunks = <<>> => rows_ready = 0
  /\ chunks # <<>> =>
        /\ Before(chunks[1]) + chunks[1].offset_rows = Left
        /\ Before(chunks[Len(chunks)]) + chunks[Len(chunks)].rows = accepted

(* The batch thread t is filling holds the rows after the last returned    *)
(* batch, the rows still missing from it are in the deque, and its mark    *)
(* says whether it will leave a closed source empty.                       *)
TakeOK(t) ==
  LET copied_rows == Len(batch[t].data)
  IN  /\ batch[t].rows \in 1..TargetRows
      /\ batch[t].rows = TargetRows \/ batch[t].is_last
      /\ batch[t].data = Rows(Taken(delivered), copied_rows)
      /\ Taken(delivered) + copied_rows = Left
      /\ Missing(t) \in 0..rows_ready
      /\ batch[t].is_last <=> (closed /\ Missing(t) = rows_ready)

(* A thread is inside take_batch_locked exactly while it holds the mutex,  *)
(* and the rows it has not copied yet are there to copy: front() is never  *)
(* called on an empty deque.  With the mutex free no row is in transit.    *)
TakeInv ==
  /\ \A t \in Threads : pc[t] = "taking" <=> mu = t
  /\ \A t \in Threads : pc[t] = "taking" => TakeOK(t)
  /\ mu = NoThread => Taken(delivered) = Left

(* Rows are neither lost, duplicated nor reordered, however inserts, polls *)
(* and tasks interleave: each batch has 1 to target_rows rows, namely the  *)
(* ones that follow the batch before it.                                   *)
ExactlyOnce ==
  \A i \in 1..Len(delivered) :
    LET before == IF i = 1 THEN 0 ELSE LastRow(delivered[i - 1])
    IN  /\ delivered[i].rows \in 1..TargetRows
        /\ delivered[i].data = Rows(before, delivered[i].rows)

(* is_last can be trusted: a batch is short only if it is marked, and once *)
(* a marked batch has been returned the source is closed and empty, so no  *)
(* batch follows it.                                                       *)
LastIsFinal ==
  \A i \in 1..Len(delivered) :
    /\ delivered[i].rows < TargetRows => delivered[i].is_last
    /\ delivered[i].is_last =>
          closed /\ rows_ready = 0 /\ mu = NoThread /\ i = Len(delivered)

(* A task throws "closed with no pending rows" only when that is true and  *)
(* stays true: every accepted row has been returned in some batch.         *)
FailedOnlyWhenDrained ==
  \A t \in Tasks : pc[t] = "failed" => closed /\ Taken(delivered) = accepted

(* insert and close notify after they unlock, so a task may be asleep      *)
(* although its predicate holds; but then somebody is about to notify.     *)
NoLostWakeup ==
  (\E t \in Tasks : pc[t] = "waiting") /\ WakeUp =>
    \E c \in Clients : pc[c] = "notify"

(* All of it together is inductive.                                        *)
IInv ==
  /\ TypeOK /\ QueueInv /\ TakeInv /\ ExactlyOnce /\ LastIsFinal
  /\ FailedOnlyWhenDrained /\ NoLostWakeup

(* Only the thread that holds the mutex touches what it protects, and each *)
(* step it makes copies at least a row of the at most target_rows rows of  *)
(* its batch, or is its last: nobody waits longer than that for the mutex. *)
HeldBriefly ==
  [][\A t \in Threads : mu = t =>
        \/ mu' = t /\ Missing(t)' \in 0..Missing(t) - 1
        \/ mu' = NoThread /\ UNCHANGED <<rows_ready, closed, chunks, accepted>>
        \/ UNCHANGED <<mu, rows_ready, closed, chunks, accepted, delivered, batch>>
    ]_vars

(* The source implements the abstract stream: mutex, deque and threads are *)
(* hidden, and a batch is delivered when the lock is released.             *)
Stream == INSTANCE BatchStream

StreamSpec == Stream!Spec

(* What has become of task t, seen from outside.                           *)
TaskState(t) ==
  IF pc[t] = "idle" THEN "none"
  ELSE IF pc[t] = "done" THEN "done"
  ELSE IF pc[t] \in {"failed", "thrown"} THEN "failed"
  ELSE "pending"

(* It also implements what DataSourceHandle.tla takes a State for: rows    *)
(* that are being copied count until their batch is returned.              *)
Source == INSTANCE SourceState WITH
  rows <- accepted - Taken(delivered), task <- [t \in Tasks |-> TaskState(t)]

SourceSpec == Source!Spec

(* Once the source is closed every task that was started ends, with the    *)
(* batch it found or with an exception: no future is left pending.         *)
CloseEndsTasks ==
  \A t \in Tasks :
    closed /\ pc[t] # "idle" ~> pc[t] \in {"done", "failed", "thrown"}

(* A full batch does not sit in the deque while tasks are waiting for one: *)
(* some thread returns another batch, or the memory for one failed in all  *)
(* of these tasks.                                                         *)
ReadyBatchIsTaken ==
  \A k \in 0..MaxRows :
    /\ Len(delivered) = k /\ rows_ready >= TargetRows
    /\ \E t \in Tasks : pc[t] \in {"running", "waiting"}
    ~> \/ Len(delivered) > k
       \/ \A t \in Tasks : pc[t] \notin {"running", "waiting", "taking"}

=============================================================================
