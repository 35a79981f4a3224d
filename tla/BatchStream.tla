---------------------------- MODULE BatchStream ----------------------------
(***************************************************************************)
(* What pt2so::DataSource promises, with no mutex, queue or thread in it:  *)
(* rows are accepted one insert at a time, numbered from 1 in the order    *)
(* they are accepted, and leave in that order in batches of TargetRows.    *)
(* Once the stream is closed a shorter batch may carry what is left, and   *)
(* the batch that leaves a closed stream empty is the one marked last.     *)
(***************************************************************************)
EXTENDS Integers, Sequences

CONSTANT TargetRows   \* rows of a full batch

VARIABLES
  accepted,    \* how many rows have been accepted
  closed,      \* no further row will be accepted
  delivered    \* the batches handed out, oldest first

vars == <<accepted, closed, delivered>>

(* The n rows that follow row number a. *)
Rows(a, n) == [i \in 1..n |-> a + i]

(* The number of the last row of batch b, a non-empty batch. *)
LastRow(b) == b.data[b.rows]

(* How many rows the batches of seq hold: the number of the last row of    *)
(* the newest one, as rows leave in order.                                 *)
Taken(seq) == IF seq = <<>> THEN 0 ELSE LastRow(seq[Len(seq)])

Init ==
  /\ accepted = 0
  /\ closed = FALSE
  /\ delivered = <<>>

(* An insert: one or more rows join the end of the stream. *)
Accept ==
  /\ ~closed
  /\ accepted' \in Nat /\ accepted' > accepted
  /\ UNCHANGED <<closed, delivered>>

Close ==
  /\ closed' = TRUE
  /\ UNCHANGED <<accepted, delivered>>

(* The next n rows leave: a full batch, or all that a closed stream still  *)
(* holds. The batch is marked last exactly when a closed stream is empty   *)
(* after it.                                                               *)
Deliver(n) ==
  LET pending == accepted - Taken(delivered)
  IN  /\ n <= pending
      /\ n = TargetRows \/ (closed /\ n = pending)
      /\ delivered' = Append(delivered,
            [rows    |-> n,
             is_last |-> closed /\ n = pending,
             data    |-> Rows(Taken(delivered), n)])
      /\ UNCHANGED <<accepted, closed>>

Next == Accept \/ Close \/ \E n \in 1..TargetRows : Deliver(n)

Spec == Init /\ [][Next]_vars

=============================================================================
