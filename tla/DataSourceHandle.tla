------------------------- MODULE DataSourceHandle ---------------------------
(***************************************************************************)
(* The lifetime of pt2so::DataSource objects.  A DataSource is a handle on *)
(* a shared State: it is constructed, moved from, assigned to and          *)
(* destroyed, while methods that already copied its shared_ptr, and tasks  *)
(* of get_batch_async that captured it, go on with the State.              *)
(*                                                                         *)
(* A method is a step that copies state_ into a local shared_ptr followed  *)
(* by the step it takes under state->mu; assignment and destruction close  *)
(* the old State before they let go of it.  What is left to DataSource.tla *)
(* is how a State works inside: rows are only counted here, and a task     *)
(* runs when its predicate holds, however it was woken.                    *)
(*                                                                         *)
(* Copying state_ in one thread while another moves or destroys the same   *)
(* object is a data race; the host program avoids it (Busy).  A method     *)
(* that has made its copy may overlap with anything.                       *)
(***************************************************************************)
EXTENDS Integers, FiniteSets

CONSTANTS
  Threads,     \* threads of the host program
  Handles,     \* DataSource objects
  States,      \* State objects that make_shared may return
  Futures,     \* std::future objects
  NoState,     \* a null shared_ptr
  TargetRows,  \* target_rows
  MaxRows      \* bound: rows_ready of one State; then inserts are of no rows

ASSUME HandleAssumption ==
  /\ NoState \notin States
  /\ TargetRows \in Nat \ {0}
  /\ MaxRows \in Nat

VARIABLES
  alive,       \* the handles that are constructed and not destroyed
  state_,      \* handle -> the State it owns, or NoState
  created,     \* the States that were allocated
  closed,      \* State -> state->closed
  rows_ready,  \* State -> state->rows_ready
  call,        \* thread -> the call it is in
  future       \* future -> what has become of it

vars == <<alive, state_, created, closed, rows_ready, call, future>>

Ptr == States \cup {NoState}

Idle == [op |-> "idle"]
NoFuture == [is |-> "none"]

(* "insert", "try_get" and "close" hold a copy of state_; "assign" and     *)
(* "destroy" are about to close the State of handle to, "replace" and      *)
(* "release" have closed it; "join" is in get() or ~future().              *)
Call ==
  {Idle}
  \cup [op : {"insert", "try_get", "close"}, state : Ptr]
  \cup [op : {"assign", "replace"}, to : Handles, from : Handles]
  \cup [op : {"destroy", "release"}, to : Handles]
  \cup [op : {"join"}, future : Futures]

(* A task is "pending" until it is "done" or has "failed"; "deferred" is   *)
(* the future of a handle without State, which throws when it is asked.    *)
Future ==
  {NoFuture, [is |-> "deferred"]}
  \cup [is : {"pending", "done", "failed"}, state : States]

Init ==
  /\ alive = {}
  /\ state_ = [h \in Handles |-> NoState]
  /\ created = {}
  /\ closed = [s \in States |-> FALSE]
  /\ rows_ready = [s \in States |-> 0]
  /\ call = [t \in Threads |-> Idle]
  /\ future = [f \in Futures |-> NoFuture]

(* The handles that thread t is assigning to or from, or destroying.       *)
Mutated(t) ==
  IF call[t].op \in {"assign", "replace"} THEN {call[t].to, call[t].from}
  ELSE IF call[t].op \in {"destroy", "release"} THEN {call[t].to}
  ELSE {}

Busy(h) == \E t \in Threads : h \in Mutated(t)
Usable(h) == h \in alive /\ ~Busy(h)

-----------------------------------------------------------------------------
(* Deliberate faults, each in place of the definition named in front of it.*)

(* OnAssign: go straight to the move, and leave the old State open ...     *)
AssignWithoutClose(h, g) == [op |-> "replace", to |-> h, from |-> g]

(* MovedFrom: copy the shared_ptr, and leave the source its State.         *)
CopiedFrom(h, g) == [state_ EXCEPT ![h] = state_[g]]

(* OnDestroy: a destructor that only releases the shared_ptr.              *)
DestroyWithoutClose(h) == [op |-> "release", to |-> h]

(* RowsAfterTake: subtract target_rows for a last short batch, too.        *)
RowsAfterFullTake(s) == rows_ready[s] - TargetRows

(* CanRun: wait for rows only, and sleep through a close.                  *)
CanRunOnRows(s) == rows_ready[s] >= TargetRows

-----------------------------------------------------------------------------
(* Construction, moves and destruction.                                    *)

(* DataSource(model_hidden, target_rows) with positive arguments.          *)
Construct(t, h) ==
  /\ call[t] = Idle /\ h \notin alive
  /\ \E s \in States \ created :
        /\ created' = created \cup {s}
        /\ state_' = [state_ EXCEPT ![h] = s]
  /\ alive' = alive \cup {h}
  /\ UNCHANGED <<closed, rows_ready, call, future>>

(* state_ after std::move(g.state_) was given to h.                        *)
MovedFrom(h, g) == [state_ EXCEPT ![h] = state_[g], ![g] = NoState]

(* DataSource(DataSource&& g).                                             *)
MoveConstruct(t, h, g) ==
  /\ call[t] = Idle /\ h \notin alive /\ Usable(g)
  /\ state_' = MovedFrom(h, g)
  /\ alive' = alive \cup {h}
  /\ UNCHANGED <<created, closed, rows_ready, call, future>>

(* h = std::move(g) for two different objects: first close() ...           *)
OnAssign(h, g) == [op |-> "assign", to |-> h, from |-> g]

MoveAssign(t, h, g) ==
  /\ call[t] = Idle /\ h # g /\ Usable(h) /\ Usable(g)
  /\ call' = [call EXCEPT ![t] = OnAssign(h, g)]
  /\ UNCHANGED <<alive, state_, created, closed, rows_ready, future>>

(* ... then the move.                                                      *)
Replace(t) ==
  /\ call[t].op = "replace"
  /\ state_' = MovedFrom(call[t].to, call[t].from)
  /\ call' = [call EXCEPT ![t] = Idle]
  /\ UNCHANGED <<alive, created, closed, rows_ready, future>>

(* ~DataSource(): first close() ...                                        *)
OnDestroy(h) == [op |-> "destroy", to |-> h]

Destroy(t, h) ==
  /\ call[t] = Idle /\ Usable(h)
  /\ call' = [call EXCEPT ![t] = OnDestroy(h)]
  /\ UNCHANGED <<alive, state_, created, closed, rows_ready, future>>

(* ... then the shared_ptr is released.                                    *)
Release(t) ==
  /\ call[t].op = "release"
  /\ alive' = alive \ {call[t].to}
  /\ state_' = [state_ EXCEPT ![call[t].to] = NoState]
  /\ call' = [call EXCEPT ![t] = Idle]
  /\ UNCHANGED <<created, closed, rows_ready, future>>

(* The close() inside an assignment or a destructor; a handle without      *)
(* State has nothing to close.                                             *)
CloseOld(t) ==
  LET s == state_[call[t].to]
  IN  /\ \/ /\ call[t].op = "assign"
            /\ call' = [call EXCEPT ![t] =
                  [op |-> "replace", to |-> call[t].to, from |-> call[t].from]]
         \/ /\ call[t].op = "destroy"
            /\ call' = [call EXCEPT ![t] = [op |-> "release", to |-> call[t].to]]
      /\ closed' = IF s = NoState THEN closed ELSE [closed EXCEPT ![s] = TRUE]
      /\ UNCHANGED <<alive, state_, created, rows_ready, future>>

-----------------------------------------------------------------------------
(* Methods.                                                                *)

(* auto state = state_, the first thing insert, try_get_batch and close do.*)
Enter(t, h, op) ==
  /\ call[t] = Idle /\ Usable(h)
  /\ call' = [call EXCEPT ![t] = [op |-> op, state |-> state_[h]]]
  /\ UNCHANGED <<alive, state_, created, closed, rows_ready, future>>

(* There is a batch to take from State s ...                               *)
HasBatch(s) == rows_ready[s] >= TargetRows \/ (closed[s] /\ rows_ready[s] > 0)

(* ... and this many rows after it.                                        *)
RowsAfterTake(s) ==
  IF rows_ready[s] >= TargetRows THEN rows_ready[s] - TargetRows ELSE 0

(* insert adds rows; or none, if there is none in the columns or it throws:*)
(* for want of a State, of an open one, or of memory.                      *)
Insert(t) ==
  LET s == call[t].state
  IN  /\ call[t].op = "insert"
      /\ call' = [call EXCEPT ![t] = Idle]
      /\ \/ /\ s # NoState /\ ~closed[s]
            /\ \E n \in 1..MaxRows - rows_ready[s] :
                  rows_ready' = [rows_ready EXCEPT ![s] = @ + n]
         \/ UNCHANGED rows_ready
      /\ UNCHANGED <<alive, state_, created, closed, future>>

(* try_get_batch takes a batch, if there is one and memory for it.         *)
TryGetBatch(t) ==
  LET s == call[t].state
  IN  /\ call[t].op = "try_get"
      /\ call' = [call EXCEPT ![t] = Idle]
      /\ \/ /\ s # NoState /\ HasBatch(s)
            /\ rows_ready' = [rows_ready EXCEPT ![s] = RowsAfterTake(s)]
         \/ UNCHANGED rows_ready
      /\ UNCHANGED <<alive, state_, created, closed, future>>

Close(t) ==
  LET s == call[t].state
  IN  /\ call[t].op = "close"
      /\ call' = [call EXCEPT ![t] = Idle]
      /\ closed' = IF s = NoState THEN closed ELSE [closed EXCEPT ![s] = TRUE]
      /\ UNCHANGED <<alive, state_, created, rows_ready, future>>

-----------------------------------------------------------------------------
(* Futures.                                                                *)

(* get_batch_async() captures the State in the task it starts; without one *)
(* it returns a deferred future.                                           *)
GetBatchAsync(t, h, f) ==
  LET s == state_[h]
  IN  /\ call[t] = Idle /\ Usable(h)
      /\ future[f] = NoFuture
      /\ future' = [future EXCEPT ![f] =
            IF s = NoState THEN [is |-> "deferred"] ELSE [is |-> "pending", state |-> s]]
      /\ UNCHANGED <<alive, state_, created, closed, rows_ready, call>>

(* The predicate of cv.wait.                                               *)
CanRun(s) == rows_ready[s] >= TargetRows \/ closed[s]

(* The task takes a batch, or throws: a closed State has none, or there is *)
(* no memory for it.                                                       *)
RunTask(f) ==
  LET s == future[f].state
  IN  /\ future[f].is = "pending" /\ CanRun(s)
      /\ \/ /\ HasBatch(s)
            /\ future' = [future EXCEPT ![f] = [is |-> "done", state |-> s]]
            /\ rows_ready' = [rows_ready EXCEPT ![s] = RowsAfterTake(s)]
         \/ /\ future' = [future EXCEPT ![f] = [is |-> "failed", state |-> s]]
            /\ UNCHANGED rows_ready
      /\ UNCHANGED <<alive, state_, created, closed, call>>

(* get(), or the destructor of a future that nobody asked: the future of a *)
(* task started by std::launch::async waits for the task in both.          *)
Join(t, f) ==
  /\ call[t] = Idle
  /\ future[f] # NoFuture
  /\ \A u \in Threads : call[u] # [op |-> "join", future |-> f]
  /\ call' = [call EXCEPT ![t] = [op |-> "join", future |-> f]]
  /\ UNCHANGED <<alive, state_, created, closed, rows_ready, future>>

EndJoin(t) ==
  /\ call[t].op = "join"
  /\ future[call[t].future].is # "pending"
  /\ future' = [future EXCEPT ![call[t].future] = NoFuture]
  /\ call' = [call EXCEPT ![t] = Idle]
  /\ UNCHANGED <<alive, state_, created, closed, rows_ready>>

-----------------------------------------------------------------------------
(* What a thread in a call does next.                                      *)
Continue(t) ==
  \/ CloseOld(t) \/ Replace(t) \/ Release(t)
  \/ Insert(t) \/ TryGetBatch(t) \/ Close(t)
  \/ EndJoin(t)

Begin(t) ==
  \/ \E h \in Handles : Construct(t, h) \/ Destroy(t, h)
  \/ \E h, g \in Handles : MoveConstruct(t, h, g) \/ MoveAssign(t, h, g)
  \/ \E h \in Handles, op \in {"insert", "try_get", "close"} : Enter(t, h, op)
  \/ \E h \in Handles, f \in Futures : GetBatchAsync(t, h, f)
  \/ \E f \in Futures : Join(t, f)

Next ==
  \/ \E t \in Threads : Begin(t) \/ Continue(t)
  \/ \E f \in Futures : RunTask(f)

Spec == Init /\ [][Next]_vars

(* Calls go on, except that a join waits for its task; a task that can run *)
(* does, as DataSource.tla shows (CloseEndsTasks).  Nobody need call.      *)
Fairness ==
  /\ \A t \in Threads : WF_vars(Continue(t))
  /\ \A f \in Futures : WF_vars(RunTask(f))

FairSpec == Spec /\ Fairness

-----------------------------------------------------------------------------
(* Correctness.                                                            *)

TypeOK ==
  /\ alive \subseteq Handles
  /\ state_ \in [Handles -> Ptr]
  /\ created \subseteq States
  /\ closed \in [States -> BOOLEAN]
  /\ rows_ready \in [States -> 0..MaxRows]
  /\ call \in [Threads -> Call]
  /\ future \in [Futures -> Future]

Owned(s) == \E h \in alive : state_[h] = s

(* A State has one owner: otherwise the destructor of one DataSource would *)
(* close the source that another one is still feeding.                     *)
UniqueOwner ==
  \A h, g \in Handles : state_[h] # NoState /\ state_[h] = state_[g] => h = g

(* A State that lost its owner, by destruction or because another source   *)
(* was assigned over it, is closed: no insert or close can reach it, so a  *)
(* task still waiting for it to fill up would wait for ever.               *)
OrphanClosed == \A s \in created : Owned(s) \/ closed[s]

(* Why that is so.  Only living handles own States, and a handle that is   *)
(* being changed is changed by one thread, which closes the State of the   *)
(* handle before it overwrites or releases it.                             *)
HandleInv ==
  /\ \A h \in Handles : state_[h] \in created \cup {NoState}
  /\ \A h \in Handles \ alive : state_[h] = NoState
  /\ \A t \in Threads : Mutated(t) \subseteq alive
  /\ \A t, u \in Threads : t # u => Mutated(t) \cap Mutated(u) = {}
  /\ \A t \in Threads :
        call[t].op \in {"assign", "replace"} => call[t].to # call[t].from
  /\ \A t \in Threads :
        call[t].op \in {"replace", "release"} =>
          LET s == state_[call[t].to] IN s = NoState \/ closed[s]

(* All of it together is inductive.                                        *)
IInv == TypeOK /\ UniqueOwner /\ OrphanClosed /\ HandleInv

(* What has become of the task of future f, if it is one on State s.       *)
TaskOn(s, f) ==
  IF future[f].is \in {"pending", "done", "failed"} /\ future[f].state = s
  THEN future[f].is ELSE "none"

(* Whoever holds a State, and through however many handles it is passed    *)
(* on, what happens to it is what DataSource.tla lets its threads do to it.*)
Source(s) == INSTANCE SourceState WITH
  Tasks <- Futures, rows <- rows_ready[s], closed <- closed[s],
  task <- [f \in Futures |-> TaskOn(s, f)]

SourceSpec ==
  /\ \A s \in States : Source(s)!Init
  /\ [][\A s \in States : Source(s)!Next \/ UNCHANGED Source(s)!vars]_vars

(* A task on a source that is gone ends, and so does the call that waits   *)
(* for its future, in whatever order handles and futures are destroyed.    *)
OrphanTasksEnd ==
  \A f \in Futures, s \in States :
    future[f] = [is |-> "pending", state |-> s] /\ ~Owned(s)
      ~> future[f] # [is |-> "pending", state |-> s]

(* A thread stays in a call only to join a task whose source is still open *)
(* and owned by somebody who may fill or close it.                         *)
CallsReturn ==
  \A t \in Threads :
    call[t] # Idle ~>
      \/ call[t] = Idle
      \/ /\ call[t].op = "join"
         /\ LET f == future[call[t].future]
            IN  f.is = "pending" /\ ~CanRun(f.state) /\ Owned(f.state)
=============================================================================
