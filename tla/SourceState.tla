---------------------------- MODULE SourceState ----------------------------
(***************************************************************************)
(* What the State of a DataSource is to the handles, the threads and the   *)
(* futures that share it: rows come in, leave in batches, and at the end   *)
(* it is closed; each batch goes to a poll or ends a task, and a task also *)
(* ends when there is nothing left for it, or no memory.                   *)
(***************************************************************************)
EXTENDS Naturals

CONSTANTS
  Tasks,       \* tasks of get_batch_async
  TargetRows   \* target_rows

VARIABLES
  rows,    \* rows that were inserted and are in no batch yet
  closed,  \* no insert succeeds any more
  task     \* task -> "none", "pending", "done" or "failed"

vars == <<rows, closed, task>>

Init ==
  /\ rows = 0
  /\ closed = FALSE
  /\ task = [t \in Tasks |-> "none"]

Insert ==
  /\ ~closed
  /\ rows' \in Nat /\ rows' > rows
  /\ UNCHANGED <<closed, task>>

Close ==
  /\ closed' = TRUE
  /\ UNCHANGED <<rows, task>>

(* There is a batch to take ...                                            *)
HasBatch == rows >= TargetRows \/ (closed /\ rows > 0)

(* ... and this many rows are left after it.                               *)
RowsAfterTake == IF rows >= TargetRows THEN rows - TargetRows ELSE 0

Poll ==
  /\ HasBatch
  /\ rows' = RowsAfterTake
  /\ UNCHANGED <<closed, task>>

Become(t, what) ==
  /\ task' = [task EXCEPT ![t] = what]
  /\ UNCHANGED closed

Start(t) == task[t] = "none" /\ Become(t, "pending") /\ UNCHANGED rows

Take(t) ==
  /\ task[t] = "pending" /\ HasBatch
  /\ Become(t, "done")
  /\ rows' = RowsAfterTake

(* "closed with no pending rows"                                           *)
Fail(t) ==
  /\ task[t] = "pending" /\ closed /\ rows = 0
  /\ Become(t, "failed")
  /\ UNCHANGED rows

(* There was a batch, but no memory for it: its rows stay.                 *)
Throw(t) ==
  /\ task[t] = "pending" /\ HasBatch
  /\ Become(t, "failed")
  /\ UNCHANGED rows

(* The future of an ended task is destroyed.                               *)
Forget(t) ==
  /\ task[t] \in {"done", "failed"}
  /\ Become(t, "none")
  /\ UNCHANGED rows

Next ==
  \/ Insert \/ Close \/ Poll
  \/ \E t \in Tasks : Start(t) \/ Take(t) \/ Fail(t) \/ Throw(t) \/ Forget(t)

Spec == Init /\ [][Next]_vars

=============================================================================
