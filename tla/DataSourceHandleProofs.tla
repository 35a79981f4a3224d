----------------------- MODULE DataSourceHandleProofs -----------------------
(***************************************************************************)
(* Ownership of States by DataSource objects, proved for any sets of       *)
(* threads, handles, States and futures.                                   *)
(***************************************************************************)
EXTENDS DataSourceHandle, TLAPS

USE HandleAssumption DEF HandleAssumption

(* A new program has no handles.                                           *)
LEMMA InitIInv == Init => IInv
<1> SUFFICES ASSUME Init PROVE IInv
  OBVIOUS
<1> USE DEF Init
<1>1. TypeOK
  <2>1. Idle \in Call /\ NoFuture \in Future
    BY DEF Call, Future
  <2> QED
    BY <2>1 DEF TypeOK, Ptr
<1>2. UniqueOwner /\ OrphanClosed
  BY DEF UniqueOwner, OrphanClosed
<1>3. \A t \in Threads : call[t].op = "idle" /\ Mutated(t) = {}
  BY DEF Idle, Mutated
<1>4. HandleInv
  BY <1>3 DEF HandleInv
<1> QED
  BY <1>1, <1>2, <1>4 DEF IInv

-----------------------------------------------------------------------------
(* Type correctness.                                                       *)

(* rows_ready of a State stays in its range whatever batches are taken.    *)
LEMMA RowsAfterTakeType ==
  ASSUME TypeOK, NEW s \in States
  PROVE  RowsAfterTake(s) \in 0..MaxRows
<1>1. rows_ready[s] \in 0..MaxRows
  BY DEF TypeOK
<1> QED
  BY <1>1 DEF RowsAfterTake

(* A call record has the fields that its op calls for.                     *)
LEMMA CallFields ==
  ASSUME TypeOK, NEW t \in Threads
  PROVE  /\ call[t].op \in {"insert", "try_get", "close"} =>
              call[t] = [op |-> call[t].op, state |-> call[t].state]
              /\ call[t].state \in Ptr
         /\ call[t].op \in {"assign", "replace"} =>
              call[t] = [op |-> call[t].op, to |-> call[t].to, from |-> call[t].from]
              /\ call[t].to \in Handles /\ call[t].from \in Handles
         /\ call[t].op \in {"destroy", "release"} =>
              call[t] = [op |-> call[t].op, to |-> call[t].to]
              /\ call[t].to \in Handles
         /\ call[t].op = "join" => call[t].future \in Futures
<1>1. call[t] \in Call
  BY DEF TypeOK
<1> QED
  BY <1>1 DEF Call, Idle

(* Every step keeps the types.                                             *)
LEMMA TypeStep == TypeOK /\ [Next]_vars => TypeOK'
<1> SUFFICES ASSUME TypeOK, [Next]_vars PROVE TypeOK'
  OBVIOUS
<1>0. Idle \in Call /\ NoFuture \in Future
  BY DEF Call, Future
<1>1. ASSUME NEW t \in Threads, NEW h \in Handles, Construct(t, h)
      PROVE  TypeOK'
  BY <1>1 DEF Construct, TypeOK, Ptr
<1>2. ASSUME NEW t \in Threads, NEW h \in Handles, NEW g \in Handles,
             MoveConstruct(t, h, g)
      PROVE  TypeOK'
  BY <1>2 DEF MoveConstruct, MovedFrom, TypeOK, Ptr
<1>3. ASSUME NEW t \in Threads, NEW h \in Handles, NEW g \in Handles,
             MoveAssign(t, h, g)
      PROVE  TypeOK'
  <2>1. OnAssign(h, g) \in Call
    BY DEF OnAssign, Call
  <2> QED
    BY <1>3, <2>1 DEF MoveAssign, TypeOK
<1>4. ASSUME NEW t \in Threads, NEW h \in Handles, Destroy(t, h)
      PROVE  TypeOK'
  <2>1. OnDestroy(h) \in Call
    BY DEF OnDestroy, Call
  <2> QED
    BY <1>4, <2>1 DEF Destroy, TypeOK
<1>5. ASSUME NEW t \in Threads, NEW h \in Handles,
             NEW op \in {"insert", "try_get", "close"}, Enter(t, h, op)
      PROVE  TypeOK'
  <2>1. [op |-> op, state |-> state_[h]] \in Call
    BY DEF Call, TypeOK
  <2> QED
    BY <1>5, <2>1 DEF Enter, TypeOK
<1>6. ASSUME NEW t \in Threads, NEW h \in Handles, NEW f \in Futures,
             GetBatchAsync(t, h, f)
      PROVE  TypeOK'
  <2> DEFINE new == IF state_[h] = NoState THEN [is |-> "deferred"]
                    ELSE [is |-> "pending", state |-> state_[h]]
  <2>1. new \in Future
    BY DEF Future, TypeOK, Ptr
  <2>2. future' = [future EXCEPT ![f] = new]
    BY <1>6 DEF GetBatchAsync
  <2> HIDE DEF new
  <2> QED
    BY <1>6, <2>1, <2>2 DEF GetBatchAsync, TypeOK
<1>7. ASSUME NEW t \in Threads, NEW f \in Futures, Join(t, f)
      PROVE  TypeOK'
  <2>1. [op |-> "join", future |-> f] \in Call
    BY DEF Call
  <2> QED
    BY <1>7, <2>1 DEF Join, TypeOK
<1>8. ASSUME NEW t \in Threads, CloseOld(t)
      PROVE  TypeOK'
  <2>1. call[t].op = "assign" =>
          [op |-> "replace", to |-> call[t].to, from |-> call[t].from] \in Call
    BY CallFields DEF Call
  <2>2. call[t].op = "destroy" => [op |-> "release", to |-> call[t].to] \in Call
    BY CallFields DEF Call
  <2>3. closed' \in [States -> BOOLEAN]
    BY <1>8, CallFields DEF CloseOld, TypeOK, Ptr
  <2> QED
    BY <1>8, <2>1, <2>2, <2>3 DEF CloseOld, TypeOK
<1>9. ASSUME NEW t \in Threads, Replace(t)
      PROVE  TypeOK'
  BY <1>0, <1>9, CallFields DEF Replace, MovedFrom, TypeOK, Ptr
<1>10. ASSUME NEW t \in Threads, Release(t)
       PROVE  TypeOK'
  BY <1>0, <1>10, CallFields DEF Release, TypeOK, Ptr
<1>11. ASSUME NEW t \in Threads, Insert(t)
       PROVE  TypeOK'
  BY <1>0, <1>11, CallFields DEF Insert, TypeOK, Ptr
<1>12. ASSUME NEW t \in Threads, TryGetBatch(t)
       PROVE  TypeOK'
  <2>1. call[t].state \in States => RowsAfterTake(call[t].state) \in 0..MaxRows
    BY RowsAfterTakeType
  <2>2. call[t].state \in Ptr
    BY <1>12, CallFields DEF TryGetBatch
  <2>3. rows_ready' \in [States -> 0..MaxRows]
    BY <1>12, <2>1, <2>2 DEF TryGetBatch, TypeOK, Ptr
  <2> QED
    BY <1>0, <1>12, <2>3 DEF TryGetBatch, TypeOK
<1>13. ASSUME NEW t \in Threads, Close(t)
       PROVE  TypeOK'
  BY <1>0, <1>13, CallFields DEF Close, TypeOK, Ptr
<1>14. ASSUME NEW t \in Threads, EndJoin(t)
       PROVE  TypeOK'
  BY <1>0, <1>14, CallFields DEF EndJoin, TypeOK
<1>15. ASSUME NEW f \in Futures, RunTask(f)
       PROVE  TypeOK'
  <2> DEFINE s == future[f].state
  <2>1. s \in States
    <3>1. future[f] \in Future /\ future[f].is = "pending"
      BY <1>15 DEF RunTask, TypeOK
    <3> QED
      BY <3>1 DEF Future, NoFuture
  <2>2. RowsAfterTake(s) \in 0..MaxRows
    BY <2>1, RowsAfterTakeType
  <2>3. /\ [is |-> "done", state |-> s] \in Future
        /\ [is |-> "failed", state |-> s] \in Future
    BY <2>1 DEF Future
  <2>4. rows_ready' \in [States -> 0..MaxRows]
    BY <1>15, <2>1, <2>2 DEF RunTask, TypeOK
  <2>5. future' \in [Futures -> Future]
    BY <1>15, <2>3 DEF RunTask, TypeOK
  <2> QED
    BY <1>15, <2>4, <2>5 DEF RunTask, TypeOK
<1>16. CASE UNCHANGED vars
  BY <1>16 DEF vars, TypeOK
<1> QED
  BY <1>1, <1>2, <1>3, <1>4, <1>5, <1>6, <1>7, <1>8, <1>9, <1>10, <1>11, <1>12,
     <1>13, <1>14, <1>15, <1>16
  DEF Next, Begin, Continue

-----------------------------------------------------------------------------
(* Ownership.                                                              *)

(* Steps of methods, tasks and futures change no handle, and a State that  *)
(* is closed stays closed.                                                 *)
LEMMA QuietStep ==
  ASSUME IInv, UNCHANGED <<alive, state_, created>>,
         \A s \in States : closed[s] => closed'[s],
         \A t \in Threads :
           \/ call'[t] = call[t]
           \/ call'[t].op \in {"idle", "insert", "try_get", "close", "join"}
              /\ Mutated(t) = {}
  PROVE  UniqueOwner' /\ OrphanClosed' /\ HandleInv'
<1> USE DEF IInv
<1>1. UniqueOwner' /\ OrphanClosed'
  BY DEF UniqueOwner, OrphanClosed, Owned, TypeOK
<1>2. \A t \in Threads : Mutated(t)' = Mutated(t)
  BY DEF Mutated
<1>3. \A t \in Threads :
        call'[t].op \in {"assign", "replace", "release"} => call'[t] = call[t]
  OBVIOUS
<1>4. \A t \in Threads : call[t].op \in {"replace", "release"} =>
        call[t].to \in Handles /\ state_[call[t].to] \in Ptr
  BY CallFields DEF TypeOK
<1>5. HandleInv'
  BY <1>2, <1>3, <1>4 DEF HandleInv, Ptr
<1> QED
  BY <1>1, <1>5

(* Only the handles of an action on handles are changed by it.             *)
LEMMA HandleStep ==
  ASSUME IInv, TypeOK', NEW t \in Threads, NEW h \in Handles,
         \/ Construct(t, h)
         \/ Destroy(t, h)
         \/ \E g \in Handles : MoveConstruct(t, h, g) \/ MoveAssign(t, h, g)
  PROVE  UniqueOwner' /\ OrphanClosed' /\ HandleInv'
<1> USE DEF IInv
<1>1. CASE Construct(t, h)
  <2>1. PICK s \in States \ created :
          created' = created \cup {s} /\ state_' = [state_ EXCEPT ![h] = s]
    BY <1>1 DEF Construct
  <2>2. /\ h \notin alive /\ alive' = alive \cup {h} /\ state_[h] = NoState
        /\ UNCHANGED <<closed, call>>
    BY <1>1 DEF Construct, HandleInv
  <2>3. \A u \in Threads : Mutated(u)' = Mutated(u) /\ h \notin Mutated(u)
    BY <2>2 DEF Mutated, HandleInv
  <2>4. UniqueOwner'
    BY <2>1, <2>2 DEF UniqueOwner, HandleInv, TypeOK, Ptr
  <2>5. OrphanClosed'
    BY <2>1, <2>2 DEF OrphanClosed, Owned, TypeOK
  <2>6. \A u \in Threads : call[u].op \in {"replace", "release"} => call[u].to # h
    BY <2>3 DEF Mutated
  <2>7. HandleInv'
    BY <2>1, <2>2, <2>3, <2>6 DEF HandleInv, TypeOK
  <2> QED
    BY <2>4, <2>5, <2>7
<1>2. ASSUME NEW g \in Handles, MoveConstruct(t, h, g)
      PROVE  UniqueOwner' /\ OrphanClosed' /\ HandleInv'
  <2>1. /\ h \notin alive /\ g \in alive /\ h # g /\ ~Busy(g)
        /\ alive' = alive \cup {h} /\ state_[h] = NoState
        /\ state_' = [state_ EXCEPT ![h] = state_[g], ![g] = NoState]
        /\ UNCHANGED <<created, closed, call>>
    BY <1>2 DEF MoveConstruct, MovedFrom, Usable, HandleInv
  <2>2. \A u \in Threads :
          /\ Mutated(u)' = Mutated(u)
          /\ h \notin Mutated(u) /\ g \notin Mutated(u)
    BY <2>1 DEF Mutated, Busy, HandleInv
  <2>3. UniqueOwner'
    BY <2>1 DEF UniqueOwner, TypeOK
  <2>4. OrphanClosed'
    BY <2>1 DEF OrphanClosed, Owned, TypeOK, Ptr
  <2>5. \A u \in Threads : call[u].op \in {"replace", "release"} =>
          call[u].to # h /\ call[u].to # g
    BY <2>2 DEF Mutated
  <2>6. HandleInv'
    <3>1. \A u \in Threads : call[u].op \in {"replace", "release"} =>
            state_'[call[u].to] = state_[call[u].to]
      BY <2>1, <2>5, CallFields DEF TypeOK
    <3>2. \A x \in Handles : state_'[x] \in {state_[x], state_[g], NoState}
      BY <2>1 DEF TypeOK
    <3>3. \A x \in Handles : state_'[x] \in created' \cup {NoState}
      BY <2>1, <3>2 DEF HandleInv
    <3>4. \A x \in Handles \ alive' : state_'[x] = NoState
      BY <2>1 DEF HandleInv, TypeOK
    <3> QED
      BY <2>1, <2>2, <3>1, <3>3, <3>4 DEF HandleInv
  <2> QED
    BY <2>3, <2>4, <2>6
<1>3. ASSUME call'[t].op \in {"assign", "destroy"},
             call'[t].op = "assign" => call'[t].to # call'[t].from,
             \A u \in Threads \ {t} : call'[u] = call[u],
             Mutated(t)' \subseteq alive, \A x \in Mutated(t)' : ~Busy(x),
             UNCHANGED <<alive, state_, created, closed>>
      PROVE  UniqueOwner' /\ OrphanClosed' /\ HandleInv'
  <2>1. UniqueOwner' /\ OrphanClosed'
    BY <1>3 DEF UniqueOwner, OrphanClosed, Owned
  <2>2. \A u \in Threads \ {t} :
          Mutated(u)' = Mutated(u) /\ Mutated(t)' \cap Mutated(u) = {}
    BY <1>3 DEF Mutated, Busy
  <2>3. \A u, v \in Threads : u # v => Mutated(u)' \cap Mutated(v)' = {}
    BY <2>2 DEF HandleInv
  <2>4. \A u \in Threads : Mutated(u)' \subseteq alive'
    BY <1>3, <2>2 DEF HandleInv
  <2> QED
    BY <1>3, <2>1, <2>3, <2>4 DEF HandleInv
<1>4. ASSUME NEW g \in Handles, MoveAssign(t, h, g)
      PROVE  UniqueOwner' /\ OrphanClosed' /\ HandleInv'
  <2>1. /\ call' = [call EXCEPT ![t] = OnAssign(h, g)] /\ h # g
        /\ {h, g} \subseteq alive /\ \A x \in {h, g} : ~Busy(x)
        /\ UNCHANGED <<alive, state_, created, closed>>
    BY <1>4 DEF MoveAssign, Usable
  <2>2. /\ call'[t] = [op |-> "assign", to |-> h, from |-> g]
        /\ \A u \in Threads \ {t} : call'[u] = call[u]
    BY <2>1 DEF OnAssign, TypeOK
  <2>3. Mutated(t)' = {h, g}
    BY <2>2 DEF Mutated
  <2> QED
    BY <1>3, <2>1, <2>2, <2>3
<1>5. CASE Destroy(t, h)
  <2>1. /\ call' = [call EXCEPT ![t] = OnDestroy(h)]
        /\ {h} \subseteq alive /\ \A x \in {h} : ~Busy(x)
        /\ UNCHANGED <<alive, state_, created, closed>>
    BY <1>5 DEF Destroy, Usable
  <2>2. /\ call'[t] = [op |-> "destroy", to |-> h]
        /\ \A u \in Threads \ {t} : call'[u] = call[u]
    BY <2>1 DEF OnDestroy, TypeOK
  <2>3. Mutated(t)' = {h}
    BY <2>2 DEF Mutated
  <2> QED
    BY <1>3, <2>1, <2>2, <2>3
<1> QED
  BY <1>1, <1>2, <1>4, <1>5

(* Between the close and the move or the release of the shared_ptr no      *)
(* other thread can give the handle another State.                         *)
LEMMA OldStateStep ==
  ASSUME IInv, TypeOK', NEW t \in Threads,
         CloseOld(t) \/ Replace(t) \/ Release(t)
  PROVE  UniqueOwner' /\ OrphanClosed' /\ HandleInv'
<1> DEFINE h == call[t].to
           g == call[t].from
<1> USE DEF IInv
<1>1. CASE CloseOld(t)
  <2> DEFINE s == state_[h]
  <2>1. /\ call[t].op \in {"assign", "destroy"}
        /\ h \in Handles /\ s \in Ptr
        /\ closed' = IF s = NoState THEN closed ELSE [closed EXCEPT ![s] = TRUE]
        /\ UNCHANGED <<alive, state_, created>>
    BY <1>1, CallFields DEF CloseOld, TypeOK
  <2>2. /\ \A x \in States : closed[x] => closed'[x]
        /\ s # NoState => closed'[s]
    BY <2>1 DEF TypeOK, Ptr
  <2>3. /\ \A u \in Threads \ {t} : call'[u] = call[u]
        /\ call'[t].op \in {"replace", "release"} /\ call'[t].to = h
        /\ call'[t].op = "replace" => call[t].op = "assign" /\ call'[t].from = g
        /\ call'[t].op = "release" => call[t].op = "destroy"
    BY <1>1 DEF CloseOld, TypeOK
  <2>4. \A u \in Threads : Mutated(u)' = Mutated(u)
    BY <2>1, <2>3 DEF Mutated
  <2>5. UniqueOwner' /\ OrphanClosed'
    BY <2>1, <2>2 DEF UniqueOwner, OrphanClosed, Owned, TypeOK
  <2>6. \A u \in Threads : call'[u].op \in {"replace", "release"} =>
          state_'[call'[u].to] = NoState \/ closed'[state_'[call'[u].to]]
    <3> TAKE u \in Threads
    <3>1. CASE u = t
      BY <2>1, <2>2, <2>3, <3>1
    <3>2. CASE u # t
      <4>1. call[u].op \in {"replace", "release"} =>
              /\ state_[call[u].to] \in Ptr
              /\ state_[call[u].to] = NoState \/ closed[state_[call[u].to]]
        BY CallFields DEF HandleInv, TypeOK
      <4> QED
        BY <2>1, <2>2, <2>3, <3>2, <4>1 DEF Ptr
    <3> QED
      BY <3>1, <3>2
  <2>7. \A u \in Threads : call'[u].op \in {"assign", "replace"} =>
          call'[u].to # call'[u].from
    BY <2>3 DEF HandleInv
  <2>8. HandleInv'
    BY <2>1, <2>4, <2>6, <2>7 DEF HandleInv
  <2> QED
    BY <2>5, <2>8
<1>2. CASE Replace(t)
  <2>1. /\ h \in alive /\ g \in alive /\ h # g /\ h \in Handles /\ g \in Handles
        /\ Mutated(t) = {h, g}
        /\ state_[h] = NoState \/ closed[state_[h]]
        /\ state_' = [state_ EXCEPT ![h] = state_[g], ![g] = NoState]
        /\ call' = [call EXCEPT ![t] = Idle]
        /\ UNCHANGED <<alive, created, closed>>
    BY <1>2, CallFields DEF Replace, MovedFrom, Mutated, HandleInv, TypeOK
  <2>2. call'[t] = Idle /\ \A u \in Threads \ {t} : call'[u] = call[u]
    BY <2>1 DEF TypeOK
  <2>3. Mutated(t)' = {} /\ \A u \in Threads \ {t} : Mutated(u)' = Mutated(u)
    BY <2>2 DEF Mutated, Idle
  <2>4. UniqueOwner'
    BY <2>1 DEF UniqueOwner, TypeOK
  <2>5. OrphanClosed'
    BY <2>1 DEF OrphanClosed, Owned, TypeOK, Ptr
  <2>6. \A u \in Threads \ {t} : call[u].op \in {"replace", "release"} =>
          /\ call[u].to \in Handles /\ call[u].to \notin {h, g}
          /\ state_'[call[u].to] = state_[call[u].to]
    <3> TAKE u \in Threads \ {t}
    <3>1. Mutated(u) \cap {h, g} = {}
      BY <2>1 DEF HandleInv
    <3>2. call[u].op \in {"replace", "release"} =>
            call[u].to \in Mutated(u) /\ call[u].to \in Handles
      BY CallFields DEF Mutated
    <3> QED
      BY <2>1, <3>1, <3>2 DEF TypeOK
  <2>7. HandleInv'
    <3>1. \A x \in Handles : state_'[x] \in {state_[x], state_[g], NoState}
      BY <2>1 DEF TypeOK
    <3>2. \A x \in Handles : state_'[x] \in created' \cup {NoState}
      BY <2>1, <3>1 DEF HandleInv
    <3>3. \A x \in Handles \ alive' : state_'[x] = NoState
      BY <2>1 DEF HandleInv, TypeOK
    <3>4. \A u \in Threads : Mutated(u)' \subseteq alive'
      BY <2>1, <2>3 DEF HandleInv
    <3>5. \A u, v \in Threads : u # v => Mutated(u)' \cap Mutated(v)' = {}
      BY <2>3 DEF HandleInv
    <3>6. \A u \in Threads : call'[u].op \in {"assign", "replace"} =>
            call'[u].to # call'[u].from
      BY <2>2 DEF HandleInv, Idle
    <3>7. \A u \in Threads : call'[u].op \in {"replace", "release"} =>
            state_'[call'[u].to] = NoState \/ closed'[state_'[call'[u].to]]
      <4> TAKE u \in Threads
      <4>1. CASE u = t
        BY <2>2, <4>1 DEF Idle
      <4>2. CASE u # t
        BY <2>1, <2>2, <2>6, <4>2 DEF HandleInv
      <4> QED
        BY <4>1, <4>2
    <3> QED
      BY <3>2, <3>3, <3>4, <3>5, <3>6, <3>7 DEF HandleInv
  <2> QED
    BY <2>4, <2>5, <2>7
<1>3. CASE Release(t)
  <2>1. /\ h \in alive /\ h \in Handles /\ Mutated(t) = {h}
        /\ state_[h] = NoState \/ closed[state_[h]]
        /\ alive' = alive \ {h}
        /\ state_' = [state_ EXCEPT ![h] = NoState]
        /\ call' = [call EXCEPT ![t] = Idle]
        /\ UNCHANGED <<created, closed>>
    BY <1>3, CallFields DEF Release, Mutated, HandleInv, TypeOK
  <2>2. call'[t] = Idle /\ \A u \in Threads \ {t} : call'[u] = call[u]
    BY <2>1 DEF TypeOK
  <2>3. Mutated(t)' = {} /\ \A u \in Threads \ {t} : Mutated(u)' = Mutated(u)
    BY <2>2 DEF Mutated, Idle
  <2>4. UniqueOwner'
    BY <2>1 DEF UniqueOwner, TypeOK
  <2>5. OrphanClosed'
    BY <2>1 DEF OrphanClosed, Owned, TypeOK, Ptr
  <2>6. \A u \in Threads \ {t} :
          /\ h \notin Mutated(u)
          /\ call[u].op \in {"replace", "release"} =>
               /\ call[u].to \in Handles
               /\ state_'[call[u].to] = state_[call[u].to]
    <3> TAKE u \in Threads \ {t}
    <3>1. h \notin Mutated(u)
      BY <2>1 DEF HandleInv
    <3>2. call[u].op \in {"replace", "release"} =>
            call[u].to \in Mutated(u) /\ call[u].to \in Handles
      BY CallFields DEF Mutated
    <3> QED
      BY <2>1, <3>1, <3>2 DEF TypeOK
  <2>7. HandleInv'
    <3>1. \A x \in Handles : state_'[x] \in created' \cup {NoState}
      BY <2>1 DEF HandleInv, TypeOK
    <3>2. \A x \in Handles \ alive' : state_'[x] = NoState
      BY <2>1 DEF HandleInv, TypeOK
    <3>3. \A u \in Threads : Mutated(u)' \subseteq alive'
      BY <2>1, <2>3, <2>6 DEF HandleInv
    <3>4. \A u, v \in Threads : u # v => Mutated(u)' \cap Mutated(v)' = {}
      BY <2>3 DEF HandleInv
    <3> QED
      BY <2>1, <2>2, <2>6, <3>1, <3>2, <3>3, <3>4 DEF HandleInv, Idle
  <2> QED
    BY <2>4, <2>5, <2>7
<1> QED
  BY <1>1, <1>2, <1>3

-----------------------------------------------------------------------------
(* The invariant.                                                          *)

LEMMA NextIInv == IInv /\ [Next]_vars => IInv'
<1> SUFFICES ASSUME IInv, [Next]_vars PROVE IInv'
  OBVIOUS
<1>1. TypeOK'
  BY TypeStep DEF IInv
<1>2. ASSUME NEW t \in Threads, Begin(t)
      PROVE  UniqueOwner' /\ OrphanClosed' /\ HandleInv'
  <2>1. ASSUME NEW h \in Handles, NEW op \in {"insert", "try_get", "close"},
               Enter(t, h, op)
        PROVE  UniqueOwner' /\ OrphanClosed' /\ HandleInv'
    <3>1. /\ UNCHANGED <<alive, state_, created, closed>>
          /\ call[t] = Idle /\ call'[t].op = op
          /\ \A u \in Threads \ {t} : call'[u] = call[u]
      BY <2>1 DEF Enter, IInv, TypeOK
    <3>2. Mutated(t) = {}
      BY <3>1 DEF Mutated, Idle
    <3> QED
      BY <3>1, <3>2, QuietStep
  <2>2. ASSUME NEW h \in Handles, NEW f \in Futures, GetBatchAsync(t, h, f)
        PROVE  UniqueOwner' /\ OrphanClosed' /\ HandleInv'
    BY <2>2, QuietStep DEF GetBatchAsync
  <2>3. ASSUME NEW f \in Futures, Join(t, f)
        PROVE  UniqueOwner' /\ OrphanClosed' /\ HandleInv'
    <3>1. /\ UNCHANGED <<alive, state_, created, closed>>
          /\ call[t] = Idle /\ call'[t].op = "join"
          /\ \A u \in Threads \ {t} : call'[u] = call[u]
      BY <2>3 DEF Join, IInv, TypeOK
    <3>2. Mutated(t) = {}
      BY <3>1 DEF Mutated, Idle
    <3> QED
      BY <3>1, <3>2, QuietStep
  <2> QED
    BY <1>1, <1>2, <2>1, <2>2, <2>3, HandleStep DEF Begin
<1>3. ASSUME NEW t \in Threads, Continue(t)
      PROVE  UniqueOwner' /\ OrphanClosed' /\ HandleInv'
  <2>1. CASE Insert(t) \/ TryGetBatch(t) \/ Close(t) \/ EndJoin(t)
    <3>1. /\ UNCHANGED <<alive, state_, created>>
          /\ call[t].op \in {"insert", "try_get", "close", "join"}
          /\ call'[t] = Idle
          /\ \A u \in Threads \ {t} : call'[u] = call[u]
      BY <2>1 DEF Insert, TryGetBatch, Close, EndJoin, IInv, TypeOK
    <3>2. \A s \in States : closed[s] => closed'[s]
      BY <2>1 DEF Insert, TryGetBatch, Close, EndJoin, IInv, TypeOK
    <3>3. Mutated(t) = {}
      BY <3>1 DEF Mutated
    <3> QED
      BY <3>1, <3>2, <3>3, QuietStep DEF Idle
  <2> QED
    BY <1>1, <1>3, <2>1, OldStateStep DEF Continue
<1>4. ASSUME NEW f \in Futures, RunTask(f)
      PROVE  UniqueOwner' /\ OrphanClosed' /\ HandleInv'
  BY <1>4, QuietStep DEF RunTask
<1>5. CASE UNCHANGED vars
  <2>1. UNCHANGED <<alive, state_, created, closed, call>>
    BY <1>5 DEF vars
  <2> QED
    BY <1>1, <2>1, QuietStep DEF IInv
<1> QED
  BY <1>1, <1>2, <1>3, <1>4, <1>5 DEF IInv, Next

(* All of the conditions hold in every state.                              *)
THEOREM Invariance == Spec => []IInv
<1> QED
  BY InitIInv, NextIInv, PTL DEF Spec

(* Type correctness: in particular rows_ready of a State is never negative *)
(* after a take.                                                           *)
THEOREM TypeCorrect == Spec => []TypeOK
<1>1. IInv => TypeOK
  BY DEF IInv
<1> QED
  BY <1>1, Invariance, PTL

(* No two DataSource objects share a State, however they are moved.        *)
THEOREM StateHasOneOwner == Spec => []UniqueOwner
<1>1. IInv => UniqueOwner
  BY DEF IInv
<1> QED
  BY <1>1, Invariance, PTL

(* The destructor and the move assignment let go only of closed States,    *)
(* so no task is left waiting on an open State that nobody can reach.      *)
THEOREM OrphansAreClosed == Spec => []OrphanClosed
<1>1. IInv => OrphanClosed
  BY DEF IInv
<1> QED
  BY <1>1, Invariance, PTL

(* A handle is mutated by one thread, and its State is closed before it.   *)
THEOREM HandlesCorrect == Spec => []HandleInv
<1>1. IInv => HandleInv
  BY DEF IInv
<1> QED
  BY <1>1, Invariance, PTL

-----------------------------------------------------------------------------
(* The contract of a State.                                                *)

(* Nothing has happened to a State that was not allocated.                 *)
LEMMA InitSource == Init => \A s \in States : Source(s)!Init
<1> SUFFICES ASSUME Init, NEW s \in States PROVE Source(s)!Init
  OBVIOUS
<1>1. \A f \in Futures : TaskOn(s, f) = "none"
  BY DEF Init, TaskOn, NoFuture
<1> QED
  BY <1>1 DEF Init, Source!Init

(* Steps that leave futures and counts alone, and close at most some       *)
(* States, are closes or nothing to each State.                            *)
LEMMA CloseSource ==
  ASSUME TypeOK, NEW s \in States, UNCHANGED <<rows_ready, future>>,
         closed' = closed \/ \E x \in States : closed' = [closed EXCEPT ![x] = TRUE]
  PROVE  Source(s)!Next \/ UNCHANGED Source(s)!vars
<1>1. \A f \in Futures : TaskOn(s, f)' = TaskOn(s, f)
  BY DEF TaskOn
<1>2. closed'[s] = closed[s] \/ closed'[s] = TRUE
  BY DEF TypeOK
<1> QED
  BY <1>1, <1>2 DEF Source!Next, Source!Close, Source!vars

(* Inserts and polls change the count of the State they hold.              *)
LEMMA RowsSource ==
  ASSUME TypeOK, NEW s \in States, NEW t \in Threads, Insert(t) \/ TryGetBatch(t)
  PROVE  Source(s)!Next \/ UNCHANGED Source(s)!vars
<1> DEFINE x == call[t].state
<1>1. UNCHANGED <<closed, future>>
  BY DEF Insert, TryGetBatch
<1>2. \A f \in Futures : TaskOn(s, f)' = TaskOn(s, f)
  BY <1>1 DEF TaskOn
<1>3. x \in Ptr /\ \A y \in States : rows_ready[y] \in Nat
  BY CallFields DEF Insert, TryGetBatch, TypeOK
<1>4. CASE rows_ready'[s] = rows_ready[s]
  BY <1>1, <1>2, <1>4 DEF Source!vars
<1>5. ASSUME rows_ready'[s] # rows_ready[s], Insert(t)
      PROVE  Source(s)!Insert
  <2>1. PICK n \in 1..MaxRows - rows_ready[x] :
          ~closed[x] /\ rows_ready' = [rows_ready EXCEPT ![x] = @ + n]
    BY <1>5 DEF Insert
  <2>2. x = s /\ rows_ready'[s] = rows_ready[s] + n
    BY <1>3, <1>5, <2>1 DEF TypeOK
  <2> QED
    BY <1>1, <1>2, <1>3, <2>1, <2>2 DEF Source!Insert
<1>6. ASSUME rows_ready'[s] # rows_ready[s], TryGetBatch(t)
      PROVE  Source(s)!Poll
  <2>1. HasBatch(x) /\ rows_ready' = [rows_ready EXCEPT ![x] = RowsAfterTake(x)]
    BY <1>6 DEF TryGetBatch
  <2>2. x = s /\ rows_ready'[s] = RowsAfterTake(s)
    BY <1>3, <1>6, <2>1 DEF TypeOK
  <2> QED
    BY <1>1, <1>2, <2>1, <2>2
    DEF HasBatch, RowsAfterTake, Source!Poll, Source!HasBatch, Source!RowsAfterTake
<1> QED
  BY <1>4, <1>5, <1>6 DEF Source!Next

(* A step that changes one future is a step of one task of the State that  *)
(* the task works on, and of none of the others.                           *)
LEMMA TaskSource ==
  ASSUME TypeOK, NEW s \in States, NEW f \in Futures, UNCHANGED closed,
         \/ RunTask(f)
         \/ \E t \in Threads : EndJoin(t) /\ call[t].future = f
         \/ \E t \in Threads, h \in Handles : GetBatchAsync(t, h, f)
  PROVE  Source(s)!Next \/ UNCHANGED Source(s)!vars
<1> DEFINE task == [g \in Futures |-> TaskOn(s, g)]
           Become(what) == task' = [task EXCEPT ![f] = what]
<1>1. ASSUME NEW new, future' = [future EXCEPT ![f] = new]
      PROVE  \A g \in Futures \ {f} : TaskOn(s, g)' = TaskOn(s, g)
  BY <1>1 DEF TaskOn, TypeOK
<1>2. ASSUME NEW new, future' = [future EXCEPT ![f] = new],
             NEW what, TaskOn(s, f)' = what
      PROVE  Become(what)
  BY <1>1, <1>2
<1>3. \A y \in States : rows_ready[y] \in Nat
  BY DEF TypeOK
<1>4. CASE RunTask(f)
  <2> DEFINE x == future[f].state
  <2>1. future[f].is = "pending" /\ CanRun(x)
    BY <1>4 DEF RunTask
  <2>2. x \in States
    <3>1. future[f] \in Future
      BY DEF TypeOK
    <3> QED
      BY <2>1, <3>1 DEF Future, NoFuture
  <2>3. PICK what \in {"done", "failed"} :
          /\ future' = [future EXCEPT ![f] = [is |-> what, state |-> x]]
          /\ \/ /\ what = "done" /\ HasBatch(x)
                /\ rows_ready' = [rows_ready EXCEPT ![x] = RowsAfterTake(x)]
             \/ what = "failed" /\ UNCHANGED rows_ready
    BY <1>4 DEF RunTask
  <2>4. future'[f] = [is |-> what, state |-> x]
    BY <2>3 DEF TypeOK
  <2>5. CASE x # s
    <3>1. TaskOn(s, f) = "none" /\ TaskOn(s, f)' = "none"
      BY <2>1, <2>4, <2>5 DEF TaskOn
    <3>2. task' = task
      BY <1>1, <2>3, <3>1
    <3>3. rows_ready'[s] = rows_ready[s]
      BY <2>2, <2>3, <2>5 DEF TypeOK
    <3> QED
      BY <3>2, <3>3 DEF Source!vars
  <2>6. CASE x = s
    <3>1. TaskOn(s, f) = "pending" /\ TaskOn(s, f)' = what
      BY <2>1, <2>3, <2>4, <2>6 DEF TaskOn
    <3>2. task[f] = "pending" /\ Become(what)
      BY <1>2, <2>3, <3>1
    <3> HIDE DEF task
    <3>3. CASE what = "done"
      <4>1. HasBatch(s) /\ rows_ready'[s] = RowsAfterTake(s)
        BY <2>2, <2>3, <2>6, <3>3 DEF TypeOK
      <4>2. Source(s)!Take(f)
        BY <3>2, <3>3, <4>1
        DEF task, HasBatch, RowsAfterTake, Source!Take, Source!Become,
            Source!HasBatch, Source!RowsAfterTake
      <4> QED
        BY <4>2 DEF Source!Next
    <3>4. CASE what = "failed" /\ HasBatch(s)
      <4>1. Source(s)!Throw(f)
        BY <2>3, <3>2, <3>4
        DEF task, HasBatch, Source!Throw, Source!Become, Source!HasBatch
      <4> QED
        BY <4>1 DEF Source!Next
    <3>5. CASE what = "failed" /\ ~HasBatch(s)
      <4>1. closed[s] /\ rows_ready[s] = 0
        BY <1>3, <2>1, <2>6, <3>5 DEF HasBatch, CanRun
      <4>2. Source(s)!Fail(f)
        BY <2>3, <3>2, <3>5, <4>1 DEF task, Source!Fail, Source!Become
      <4> QED
        BY <4>2 DEF Source!Next
    <3> QED
      BY <2>3, <3>3, <3>4, <3>5
  <2> QED
    BY <2>5, <2>6
<1>5. ASSUME NEW t \in Threads, EndJoin(t), call[t].future = f
      PROVE  Source(s)!Next \/ UNCHANGED Source(s)!vars
  <2>1. /\ future[f].is # "pending" /\ future' = [future EXCEPT ![f] = NoFuture]
        /\ UNCHANGED rows_ready
    BY <1>5 DEF EndJoin
  <2>2. TaskOn(s, f)' = "none" /\ TaskOn(s, f) \in {"done", "failed", "none"}
    BY <2>1 DEF TaskOn, NoFuture, TypeOK
  <2>3. Become("none")
    BY <1>2, <2>1, <2>2
  <2>4. CASE TaskOn(s, f) = "none"
    <3>1. task' = task
      BY <2>3, <2>4
    <3> QED
      BY <2>1, <3>1 DEF Source!vars
  <2>5. CASE TaskOn(s, f) \in {"done", "failed"}
    <3>1. Source(s)!Forget(f)
      BY <2>1, <2>3, <2>5 DEF Source!Forget, Source!Become
    <3> QED
      BY <3>1 DEF Source!Next
  <2> QED
    BY <2>2, <2>4, <2>5
<1>6. ASSUME NEW t \in Threads, NEW h \in Handles, GetBatchAsync(t, h, f)
      PROVE  Source(s)!Next \/ UNCHANGED Source(s)!vars
  <2> DEFINE new == IF state_[h] = NoState THEN [is |-> "deferred"]
                    ELSE [is |-> "pending", state |-> state_[h]]
  <2>1. /\ future[f] = NoFuture /\ future' = [future EXCEPT ![f] = new]
        /\ UNCHANGED rows_ready
    BY <1>6 DEF GetBatchAsync
  <2>2. TaskOn(s, f) = "none" /\ future'[f] = new
    BY <2>1 DEF TaskOn, NoFuture, TypeOK
  <2>3. CASE state_[h] = s
    <3>1. TaskOn(s, f)' = "pending"
      BY <2>2, <2>3 DEF TaskOn
    <3>2. Become("pending")
      BY <1>2, <2>1, <3>1
    <3>3. Source(s)!Start(f)
      BY <2>1, <2>2, <3>2 DEF Source!Start, Source!Become
    <3> QED
      BY <3>3 DEF Source!Next
  <2>4. CASE state_[h] # s
    <3>1. TaskOn(s, f)' = "none"
      BY <2>2, <2>4 DEF TaskOn
    <3>2. task' = task
      BY <1>1, <2>1, <2>2, <3>1
    <3> QED
      BY <2>1, <3>2 DEF Source!vars
  <2> QED
    BY <2>3, <2>4
<1> QED
  BY <1>4, <1>5, <1>6

(* Every step is a step or a stutter of each State.                        *)
LEMMA NextSource ==
  ASSUME TypeOK, [Next]_vars, NEW s \in States
  PROVE  Source(s)!Next \/ UNCHANGED Source(s)!vars
<1>1. ASSUME NEW t \in Threads, Begin(t)
      PROVE  Source(s)!Next \/ UNCHANGED Source(s)!vars
  <2>1. ASSUME NEW h \in Handles, NEW f \in Futures, GetBatchAsync(t, h, f)
        PROVE  Source(s)!Next \/ UNCHANGED Source(s)!vars
    <3>1. UNCHANGED closed
      BY <2>1 DEF GetBatchAsync
    <3> QED
      BY <2>1, <3>1, TaskSource
  <2>2. CASE UNCHANGED <<rows_ready, future, closed>>
    BY <2>2, CloseSource
  <2> QED
    BY <1>1, <2>1, <2>2
    DEF Begin, Construct, Destroy, MoveConstruct, MoveAssign, Enter, Join
<1>2. ASSUME NEW t \in Threads, Continue(t)
      PROVE  Source(s)!Next \/ UNCHANGED Source(s)!vars
  <2>1. CASE EndJoin(t)
    <3>1. UNCHANGED closed /\ call[t].future \in Futures
      BY <2>1, CallFields DEF EndJoin
    <3> QED
      BY <2>1, <3>1, TaskSource
  <2>2. CASE Close(t)
    <3>1. call[t].state \in Ptr
      BY <2>2, CallFields DEF Close
    <3> QED
      BY <2>2, <3>1, CloseSource DEF Close, Ptr
  <2>3. CASE CloseOld(t)
    <3>1. state_[call[t].to] \in Ptr
      BY <2>3, CallFields DEF CloseOld, TypeOK
    <3> QED
      BY <2>3, <3>1, CloseSource DEF CloseOld, Ptr
  <2>4. CASE Replace(t) \/ Release(t)
    <3>1. UNCHANGED <<rows_ready, future, closed>>
      BY <2>4 DEF Replace, Release
    <3> QED
      BY <3>1, CloseSource
  <2> QED
    BY <1>2, <2>1, <2>2, <2>3, <2>4, RowsSource DEF Continue
<1>3. ASSUME NEW f \in Futures, RunTask(f)
      PROVE  Source(s)!Next \/ UNCHANGED Source(s)!vars
  <2>1. UNCHANGED closed
    BY <1>3 DEF RunTask
  <2> QED
    BY <1>3, <2>1, TaskSource
<1>4. CASE UNCHANGED vars
  <2>1. UNCHANGED <<rows_ready, future, closed>>
    BY <1>4 DEF vars
  <2> QED
    BY <2>1, CloseSource
<1> QED
  BY <1>1, <1>2, <1>3, <1>4 DEF Next

(* To everyone who shares a State it is what DataSource.tla implements,    *)
(* whatever is done to the handles on it meanwhile.                        *)
THEOREM HandlesKeepContract == Spec => SourceSpec
<1> DEFINE Step == \A s \in States : Source(s)!Next \/ UNCHANGED Source(s)!vars
<1>1. TypeOK /\ [Next]_vars => Step
  BY NextSource
<1>2. Spec => [][Step]_vars
  BY <1>1, TypeCorrect, PTL DEF Spec
<1>3. Spec => \A s \in States : Source(s)!Init
  BY InitSource DEF Spec
<1> QED
  BY <1>2, <1>3 DEF SourceSpec
=============================================================================
