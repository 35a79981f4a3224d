----------------------------- MODULE RowLayout -----------------------------
(***************************************************************************)
(* DataSource with the elements of the rows (runtime/include/data_source.h)*)
(* insert transposes columns into a row-major vector, take_batch_locked    *)
(* moves ranges of such vectors into the vector of a batch.  DataSource    *)
(* takes a row for a number; here each of its steps also does what the     *)
(* code does to the elements, so that what is proved of the row numbers    *)
(* becomes a statement about the data of a batch.                          *)
(*                                                                         *)
(* The element of row r in column h is <<r, h>>.  A vector is a sequence:  *)
(* index k of the code is position k + 1.                                  *)
(***************************************************************************)
EXTENDS DataSource

CONSTANT Hidden   \* model_hidden

(* State's constructor throws unless it is positive.                       *)
ASSUME LayoutAssumption == Hidden \in Nat \ {0}

VARIABLES
  elements,   \* the vector `data` of each chunk in the deque
  filled,     \* the vector `data` of the InputBatch each thread is filling
  returned    \* history: the vectors of the batches that were returned

layoutVars == <<vars, elements, filled, returned>>

Zero == <<0, 0>>    \* what vector(n) and resize fill in
Moved == <<0, -1>>  \* an element that was moved from

LayoutInit ==
  /\ Init
  /\ elements = <<>>
  /\ filled = [t \in Threads |-> <<>>]
  /\ returned = <<>>

-----------------------------------------------------------------------------
(* insert                                                                  *)

(* The columns that a caller passes for the next n rows.                   *)
Columns(n) ==
  [h \in 0..Hidden - 1 |-> [row \in 0..n - 1 |-> <<accepted + row + 1, h>>]]

(* The index in flat of the element of a row in column h.                  *)
IndexOf(row, h) == row * Hidden + h

(* The cells of the columns that the two loops move to index k of flat.    *)
SourceOf(n, k) ==
  {cell \in (0..n - 1) \X (0..Hidden - 1) : IndexOf(cell[1], cell[2]) = k}

(* flat after the loops over n rows: at each index what was moved there.   *)
Flat(columns, n) ==
  [k \in 1..n * Hidden |->
     IF SourceOf(n, k - 1) = {} THEN Zero
     ELSE LET cell == CHOOSE c \in SourceOf(n, k - 1) : TRUE
          IN  columns[cell[2]][cell[1]]]

InsertElements(c, n) ==
  /\ Insert(c, n)
  /\ elements' = Append(elements, Flat(Columns(n), n))
  /\ UNCHANGED <<filled, returned>>

-----------------------------------------------------------------------------
(* take_batch_locked                                                       *)

(* batch.data.resize: the elements are there, value-initialised.           *)
Resize(t) ==
  /\ filled' = [filled EXCEPT ![t] = [k \in 1..RowsToTake * Hidden |-> Zero]]
  /\ UNCHANGED <<elements, returned>>

(* Fault: SrcIndex that counts rows as if they were elements.              *)
SrcIndexInRows == chunks[1].offset_rows

(* Where the range begins in the vector of the front chunk.                *)
SrcIndex == chunks[1].offset_rows * Hidden

(* std::move(src, src + count, dst) from a vector into another: the places *)
(* written to, and what is left behind.                                    *)
MoveInto(to, dst, from, src, count) ==
  [k \in DOMAIN to |-> IF k - dst \in 1..count THEN from[src + (k - dst)] ELSE to[k]]

MoveOutOf(from, src, count) ==
  [k \in DOMAIN from |-> IF k - src \in 1..count THEN Moved ELSE from[k]]

(* An iteration: a range is moved, and a chunk used up is popped.          *)
MoveElements(t) ==
  LET count == TakeRows(t) * Hidden
      dst_index == Len(batch[t].data) * Hidden
  IN  /\ CopyFromFront(t)
      /\ filled' = [filled EXCEPT ![t] =
            MoveInto(@, dst_index, elements[1], SrcIndex, count)]
      /\ elements' =
            IF chunks[1].offset_rows + TakeRows(t) = chunks[1].rows
            THEN Tail(elements)
            ELSE [elements EXCEPT ![1] = MoveOutOf(@, SrcIndex, count)]
      /\ UNCHANGED returned

ReturnElements(t) ==
  /\ ReturnBatch(t)
  /\ returned' = Append(returned, filled[t])
  /\ filled' = [filled EXCEPT ![t] = <<>>]
  /\ UNCHANGED elements

DropElements(t) ==
  /\ ResizeThrows(t)
  /\ filled' = [filled EXCEPT ![t] = <<>>]
  /\ UNCHANGED <<elements, returned>>

-----------------------------------------------------------------------------
(* The steps that touch no element.                                        *)
Elsewhere ==
  /\ \/ \E c \in Clients : Close(c) \/ NotifyAll(c)
     \/ \E t \in Tasks : GetBatchAsync(t) \/ Wait(t) \/ FailAsync(t) \/ SpuriousWakeUp(t)
  /\ UNCHANGED <<elements, filled, returned>>

LayoutNext ==
  \/ \E c \in Clients, n \in 1..MaxInsert : InsertElements(c, n)
  \/ \E c \in Clients : TryGetBatch(c) /\ Resize(c)
  \/ \E t \in Tasks : TakeAsync(t) /\ Resize(t)
  \/ \E t \in Threads : MoveElements(t) \/ ReturnElements(t) \/ DropElements(t)
  \/ Elsewhere

LayoutSpec == LayoutInit /\ [][LayoutNext]_layoutVars

-----------------------------------------------------------------------------
(* Correctness.                                                            *)

(* The position in a vector of the element of its row-th row in column h.  *)
At(row, h) == (row - 1) * Hidden + h + 1

(* Rows first to last of vector v are, element by element, the rows whose  *)
(* numbers are there in the sequence `numbers`.                            *)
Holds(v, numbers, first, last) ==
  \A row \in first..last, h \in 0..Hidden - 1 : v[At(row, h)] = <<numbers[row], h>>

(* v has elements for n rows, and no more.                                 *)
HasRows(v, n) == Len(v) = n * Hidden

(* What is in the deque: the rows that no batch has taken yet are whole    *)
(* and row-major, none of their elements moved from or put elsewhere.      *)
DequeLayout ==
  /\ Len(elements) = Len(chunks)
  /\ \A i \in 1..Len(chunks) :
       /\ HasRows(elements[i], chunks[i].rows)
       /\ Holds(elements[i], chunks[i].data, chunks[i].offset_rows + 1, chunks[i].rows)

(* The batches that are being filled, up to where they have come.          *)
FilledLayout ==
  \A t \in Threads : pc[t] = "taking" =>
    /\ HasRows(filled[t], batch[t].rows)
    /\ Holds(filled[t], batch[t].data, 1, Len(batch[t].data))

(* A batch returned to a host is a dense row-major [rows, hidden] matrix   *)
(* whose rows are those that follow the batch before it.                   *)
ReturnedLayout ==
  /\ Len(returned) = Len(delivered)
  /\ \A i \in 1..Len(returned) :
       LET before == IF i = 1 THEN 0 ELSE LastRow(delivered[i - 1])
       IN  /\ HasRows(returned[i], delivered[i].rows)
           /\ \A row \in 1..delivered[i].rows, h \in 0..Hidden - 1 :
                returned[i][At(row, h)] = <<before + row, h>>

(* The elements are at every moment where the row numbers of DataSource    *)
(* say, so that no element is transposed to the wrong place, read twice,   *)
(* read after it was moved from, or lost to an allocation that failed.     *)
RowMajor == DequeLayout /\ FilledLayout /\ ReturnedLayout

Vector == Seq(Int \X Int)

LayoutTypeOK ==
  /\ elements \in Seq(Vector)
  /\ filled \in [Threads -> Vector]
  /\ returned \in Seq(Vector)

(* Together with what holds of the row numbers it is inductive.            *)
LayoutInv == IInv /\ LayoutTypeOK /\ RowMajor

=============================================================================
