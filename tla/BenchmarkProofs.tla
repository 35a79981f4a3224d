--------------------------- MODULE BenchmarkProofs ---------------------------
(* Proofs about benchmark_create, for any number of sessions.              *)
EXTENDS Benchmark, TLAPS

LEMMA InitIInv == Init => IInv
<1> SUFFICES ASSUME Init PROVE IInv
  OBVIOUS
<1>1. TypeOK
  BY BenchmarkAssumption DEF Init, TypeOK, None, NoExit
<1>2. ResultTells
  BY DEF Init, ResultTells, Rows, None, NoExit
<1>3. ClientInv /\ LoopInv /\ TimingInv
  BY BenchmarkAssumption
  DEF Init, ClientInv, LoopInv, TimingInv, InLoop, InCreateOnce, InSession, Bound,
      None, NoExit
<1>4. QED
  BY <1>1, <1>2, <1>3 DEF IInv

(* A row for the next session is the next of the rows.                     *)
LEMMA NextRow ==
  ASSUME NEW w \in Nat, NEW n \in Nat, NEW s \in Seq(Nat), Len(s) = n,
         s = [k \in 1..n |-> w + k]
  PROVE  /\ Append(s, w + n + 1) = [k \in 1..(n + 1) |-> w + k]
         /\ Len(Append(s, w + n + 1)) = n + 1
  OBVIOUS

LEMMA NextIInv == IInv /\ [Next]_vars => IInv'
<1> SUFFICES ASSUME IInv, [Next]_vars PROVE IInv'
  OBVIOUS
<1> USE DEF InLoop, InCreateOnce, InSession, NoExit, None
<1>1. CASE UNCHANGED vars
  BY <1>1
  DEF IInv, vars, options, loop, sessions, result, TypeOK, ResultTells, Rows,
      ClientInv, LoopInv, TimingInv, Done, Bound
<1>2. CASE Throw \/ Help \/ Arguments
  <2>1. TypeOK' /\ ClientInv' /\ LoopInv' /\ TimingInv'
    BY <1>2
    DEF IInv, Throw, Help, Arguments, options, loop, sessions, result, TypeOK,
        ClientInv, LoopInv, TimingInv, Done, Bound
  <2>2. ResultTells'
    BY <1>2
    DEF IInv, Throw, Help, Arguments, options, loop, sessions, result, TypeOK,
        ClientInv, LoopInv, TimingInv, ResultTells, Rows
  <2>3. QED
    BY <2>1, <2>2 DEF IInv
<1>3. CASE OpenLibrary
  <2>1. TypeOK' /\ ClientInv' /\ TimingInv'
    BY <1>3
    DEF IInv, OpenLibrary, options, loop, sessions, result, TypeOK, ClientInv, TimingInv
  <2>2. LoopInv'
    BY <1>3
    DEF IInv, OpenLibrary, options, loop, sessions, result, TypeOK, LoopInv, TimingInv,
        Done, Bound
  <2>3. ResultTells'
    BY <1>3
    DEF IInv, OpenLibrary, options, loop, sessions, result, TypeOK, ClientInv, TimingInv,
        ResultTells, Rows
  <2>4. QED
    BY <2>1, <2>2, <2>3 DEF IInv
<1>4. CASE LoadSymbols
  <2>1. TypeOK' /\ ClientInv' /\ TimingInv'
    BY <1>4
    DEF IInv, LoadSymbols, options, loop, sessions, result, TypeOK, ClientInv, TimingInv
  <2>2. LoopInv'
    BY <1>4
    DEF IInv, LoadSymbols, options, loop, sessions, result, TypeOK, LoopInv, TimingInv,
        Done, Bound
  <2>3. ResultTells'
    BY <1>4
    DEF IInv, LoadSymbols, options, loop, sessions, result, TypeOK, ClientInv, TimingInv,
        ResultTells, Rows
  <2>4. QED
    BY <2>1, <2>2, <2>3 DEF IInv
<1>5. CASE Loop
  <2>1. TypeOK' /\ ClientInv' /\ TimingInv'
    BY <1>5
    DEF IInv, Loop, options, loop, sessions, result, TypeOK, ClientInv, TimingInv
  <2>2. LoopInv'
    BY <1>5
    DEF IInv, Loop, options, loop, sessions, result, TypeOK, LoopInv, TimingInv,
        Done, Bound
  <2>3. ResultTells'
    BY <1>5
    DEF IInv, Loop, options, loop, sessions, result, TypeOK, ClientInv, TimingInv,
        ResultTells, Rows
  <2>4. QED
    BY <2>1, <2>2, <2>3 DEF IInv
<1>6. CASE Create
  <2>1. TypeOK'
    BY <1>6 DEF IInv, Create, options, loop, sessions, result, TypeOK
  <2>2. ClientInv' /\ TimingInv'
    BY <1>6
    DEF IInv, Create, options, loop, sessions, result, TypeOK,
        ClientInv, TimingInv, ResultTells
  <2>3. LoopInv'
    BY <1>6
    DEF IInv, Create, options, loop, sessions, result, TypeOK,
        LoopInv, Done, Bound
  <2>4. (printed = Rows(Len(printed)))'
    BY <1>6 DEF IInv, Create, options, result, ResultTells, Rows
  <2>5. ResultTells'
    BY <1>6, <2>1, <2>2, <2>3, <2>4
    DEF IInv, Create, result, sessions, TypeOK, ClientInv, TimingInv,
        LoopInv, ResultTells
  <2>6. QED
    BY <2>1, <2>2, <2>3, <2>5 DEF IInv
<1>7. CASE Failed
  <2>1. TypeOK'
    BY <1>7 DEF IInv, Failed, options, loop, sessions, result, TypeOK
  <2>2. ClientInv' /\ TimingInv'
    BY <1>7
    DEF IInv, Failed, options, loop, sessions, result, TypeOK,
        ClientInv, TimingInv, ResultTells
  <2>3. LoopInv'
    BY <1>7
    DEF IInv, Failed, options, loop, sessions, result, TypeOK,
        LoopInv, Done, Bound
  <2>4. (printed = Rows(Len(printed)))'
    BY <1>7 DEF IInv, Failed, options, result, ResultTells, Rows
  <2>5. ResultTells'
    BY <1>7, <2>1, <2>2, <2>3, <2>4
    DEF IInv, Failed, result, sessions, TypeOK, ClientInv, TimingInv,
        LoopInv, ResultTells
  <2>6. QED
    BY <2>1, <2>2, <2>3, <2>5 DEF IInv
<1>8. CASE Timing
  <2>1. TypeOK'
    BY <1>8 DEF IInv, Timing, options, loop, sessions, result, TypeOK
  <2>2. ClientInv' /\ TimingInv'
    BY <1>8
    DEF IInv, Timing, options, loop, sessions, result, TypeOK,
        ClientInv, TimingInv, ResultTells
  <2>3. LoopInv'
    BY <1>8
    DEF IInv, Timing, options, loop, sessions, result, TypeOK,
        LoopInv, Done, Bound
  <2>4. (printed = Rows(Len(printed)))'
    BY <1>8 DEF IInv, Timing, options, result, ResultTells, Rows
  <2>5. ResultTells'
    BY <1>8, <2>1, <2>2, <2>3, <2>4
    DEF IInv, Timing, result, sessions, TypeOK, ClientInv, TimingInv,
        LoopInv, ResultTells
  <2>6. QED
    BY <2>1, <2>2, <2>3, <2>5 DEF IInv
<1>9. CASE Row
  <2>1. TypeOK'
    BY <1>9 DEF IInv, Row, options, loop, sessions, result, TypeOK
  <2>2. ClientInv' /\ TimingInv'
    BY <1>9
    DEF IInv, Row, options, loop, sessions, result, TypeOK,
        ClientInv, TimingInv, ResultTells
  <2>3. LoopInv'
    BY <1>9
    DEF IInv, Row, options, loop, sessions, result, TypeOK,
        LoopInv, Done, Bound
  <2>4. (printed = Rows(Len(printed)))'
    BY <1>9 DEF IInv, Row, options, result, ResultTells, Rows
  <2>5. ResultTells'
    BY <1>9, <2>1, <2>2, <2>3, <2>4
    DEF IInv, Row, result, sessions, TypeOK, ClientInv, TimingInv,
        LoopInv, ResultTells
  <2>6. QED
    BY <2>1, <2>2, <2>3, <2>5 DEF IInv
<1>10. CASE Destroy
  <2>1. TypeOK'
    BY <1>10 DEF IInv, Destroy, options, loop, sessions, result, TypeOK
  <2>2. ClientInv' /\ TimingInv'
    BY <1>10
    DEF IInv, Destroy, options, loop, sessions, result, TypeOK,
        ClientInv, TimingInv, ResultTells
  <2>3. LoopInv'
    BY <1>10
    DEF IInv, Destroy, options, loop, sessions, result, TypeOK,
        LoopInv, Done, Bound
  <2>4. (printed = Rows(Len(printed)))'
    BY <1>10 DEF IInv, Destroy, options, result, ResultTells, Rows
  <2>5. ResultTells'
    BY <1>10, <2>1, <2>2, <2>3, <2>4
    DEF IInv, Destroy, result, sessions, TypeOK, ClientInv, TimingInv,
        LoopInv, ResultTells
  <2>6. QED
    BY <2>1, <2>2, <2>3, <2>5 DEF IInv
<1>11. CASE Unwind
  <2>1. TypeOK'
    BY <1>11 DEF IInv, Unwind, DestroyOnThrow, options, loop, sessions, result, TypeOK
  <2>2. ClientInv' /\ TimingInv'
    BY <1>11
    DEF IInv, Unwind, DestroyOnThrow, options, loop, sessions, result, TypeOK,
        ClientInv, TimingInv, ResultTells
  <2>3. LoopInv'
    BY <1>11
    DEF IInv, Unwind, DestroyOnThrow, options, loop, sessions, result, TypeOK,
        LoopInv, Done, Bound
  <2>4. (printed = Rows(Len(printed)))'
    BY <1>11 DEF IInv, Unwind, DestroyOnThrow, options, result, ResultTells, Rows
  <2>5. ResultTells'
    BY <1>11, <2>1, <2>2, <2>3, <2>4
    DEF IInv, Unwind, DestroyOnThrow, result, sessions, TypeOK, ClientInv, TimingInv,
        LoopInv, ResultTells
  <2>6. QED
    BY <2>1, <2>2, <2>3, <2>5 DEF IInv
<1>12. CASE Repeat
  <2>1. TypeOK'
    BY <1>12 DEF IInv, Repeat, StartRepeat, options, loop, sessions, result, TypeOK
  <2>2. ClientInv' /\ TimingInv'
    BY <1>12
    DEF IInv, Repeat, StartRepeat, options, loop, sessions, result, TypeOK,
        ClientInv, TimingInv, ResultTells
  <2>3. LoopInv'
    BY <1>12
    DEF IInv, Repeat, StartRepeat, options, loop, sessions, result, TypeOK,
        LoopInv, Done, Bound
  <2>4. (printed = Rows(Len(printed)))'
    BY <1>12 DEF IInv, Repeat, StartRepeat, options, result, ResultTells, Rows
  <2>5. ResultTells'
    BY <1>12, <2>1, <2>2, <2>3, <2>4
    DEF IInv, Repeat, StartRepeat, result, sessions, TypeOK, ClientInv, TimingInv,
        LoopInv, ResultTells
  <2>6. QED
    BY <2>1, <2>2, <2>3, <2>5 DEF IInv
<1>13. CASE CloseLibrary
  <2>1. TypeOK'
    BY <1>13 DEF IInv, CloseLibrary, options, loop, sessions, result, TypeOK
  <2>2. ClientInv' /\ TimingInv'
    BY <1>13
    DEF IInv, CloseLibrary, options, loop, sessions, result, TypeOK,
        ClientInv, TimingInv, ResultTells
  <2>3. LoopInv'
    BY <1>13
    DEF IInv, CloseLibrary, options, loop, sessions, result, TypeOK,
        LoopInv, Done, Bound
  <2>4. (printed = Rows(Len(printed)))'
    BY <1>13 DEF IInv, CloseLibrary, options, result, ResultTells, Rows
  <2>5. ResultTells'
    <3>1. Len(printed) = IF warming THEN 0 ELSE i
      BY DEF IInv, LoopInv
    <3>2. CASE at = "close"
      <4>1. Len(printed) = repeat /\ exit' = 0 /\ message = None
        BY <1>13, <3>1, <3>2 DEF CloseLibrary, IInv, LoopInv, TimingInv
      <4>2. QED
        BY <1>13, <2>4, <4>1 DEF CloseLibrary, options, ResultTells
    <3>3. CASE at = "catch"
      <4>1. (Len(printed) < repeat \/ repeat = 0) /\ exit' = 1
        BY <1>13, <3>3 DEF CloseLibrary, IInv, LoopInv
      <4>2. message = None \/ message = calls
        BY DEF IInv, ResultTells
      <4>3. QED
        BY <1>13, <2>4, <4>1, <4>2 DEF CloseLibrary, options, ResultTells
    <3>4. QED
      BY <1>13, <3>2, <3>3 DEF CloseLibrary
  <2>6. QED
    BY <2>1, <2>2, <2>3, <2>5 DEF IInv
<1>14. CASE Returned
  <2>1. CASE warming
    <3>1. TypeOK' /\ ClientInv' /\ LoopInv' /\ TimingInv'
      BY <1>14, <2>1
      DEF IInv, Returned, options, loop, sessions, result, TypeOK, ClientInv, LoopInv,
          TimingInv, Done, Bound
    <3>2. ResultTells'
      BY <1>14, <2>1
      DEF IInv, Returned, options, loop, sessions, result, TypeOK, ClientInv,
          TimingInv, ResultTells, Rows
    <3>3. QED
      BY <3>1, <3>2 DEF IInv
  <2>2. CASE ~warming
    <3>1. /\ warmup \in Nat /\ i \in Nat /\ printed \in Seq(Nat) /\ Len(printed) = i
          /\ printed = [k \in 1..i |-> warmup + k]
          /\ row = warmup + i + 1
      BY <1>14, <2>2
      DEF IInv, Returned, TypeOK, LoopInv, TimingInv, ResultTells, Rows, Done
    <3>2. printed' = Append(printed, warmup + i + 1)
      BY <1>14, <2>2, <3>1 DEF Returned
    <3>3. Len(printed') = i + 1 /\ printed' = [k \in 1..(i + 1) |-> warmup + k]
      BY <3>1, <3>2, NextRow
    <3>4. printed' \in Seq(Nat)
      BY <3>1, <3>2
    <3>5. TypeOK'
      BY <1>14, <3>4 DEF IInv, Returned, options, sessions, TypeOK
    <3>6. ClientInv' /\ LoopInv' /\ TimingInv'
      BY <1>14, <2>2, <3>3
      DEF IInv, Returned, options, sessions, TypeOK, ClientInv, LoopInv, TimingInv,
          Done, Bound
    <3>7. printed' = Rows(Len(printed))'
      BY <1>14, <3>3 DEF Rows, Returned, options
    <3>8. ResultTells'
      BY <1>14, <3>7 DEF IInv, Returned, sessions, TypeOK, TimingInv, ResultTells
    <3>9. QED
      BY <3>5, <3>6, <3>8 DEF IInv
  <2>3. QED
    BY <2>1, <2>2
<1>15. QED
  BY <1>1, <1>2, <1>3, <1>4, <1>5, <1>6, <1>7, <1>8, <1>9, <1>10, <1>11, <1>12,
     <1>13, <1>14 DEF Next, Step, Ended

(* The inductive invariant of benchmark_create.                            *)
THEOREM Invariance == Spec => []IInv
  BY InitIInv, NextIInv, PTL DEF Spec

(* The rows printed, the exit code and the message tell what was measured  *)
(* and what failed, for any number of sessions.                            *)
THEOREM ResultsTell == Spec => []ResultTells
<1>1. IInv => ResultTells
  BY DEF IInv
<1>2. QED
  BY <1>1, Invariance, PTL

(* create_once and the catch block of main treat sessions and library as   *)
(* LibraryClient says, on every path.                                      *)
THEOREM ImplementsClient == Spec => ClientSpec
<1>1. Init => Client!Init
  BY DEF Init, Client!Init
<1>2. IInv /\ [Next]_vars => [Client!Next]_(Client!vars)
  <2> SUFFICES ASSUME IInv, [Next]_vars
               PROVE  Client!Next \/ UNCHANGED Client!vars
    OBVIOUS
  <2> USE DEF Client!Next, Client!vars
  <2>1. CASE UNCHANGED vars
    BY <2>1 DEF vars, sessions
  <2>2. CASE OpenLibrary
    BY <2>2 DEF OpenLibrary, Client!Open, IInv, ClientInv
  <2>3. CASE Create
    BY <2>3
    DEF Create, Client!Create, IInv, ClientInv, TypeOK, InLoop, InCreateOnce, InSession
  <2>4. CASE Destroy
    BY <2>4
    DEF Destroy, Client!Destroy, IInv, ClientInv, TypeOK, InLoop, InCreateOnce,
        InSession
  <2>5. CASE Unwind
    BY <2>5
    DEF Unwind, DestroyOnThrow, Client!Destroy, IInv, ClientInv, TypeOK, InLoop,
        InCreateOnce, InSession
  <2>6. CASE CloseLibrary
    BY <2>6
    DEF CloseLibrary, Client!Close, IInv, ClientInv, TypeOK, InLoop, InCreateOnce,
        InSession
  <2>7. CASE \/ Throw \/ Help \/ Arguments \/ LoadSymbols \/ Failed \/ Timing
             \/ Row \/ Loop \/ Repeat \/ Returned
    BY <2>7
    DEF Throw, Help, Arguments, LoadSymbols, Failed, Timing, Row, Loop, Repeat,
        Returned, sessions
  <2>8. QED
    BY <2>1, <2>2, <2>3, <2>4, <2>5, <2>6, <2>7 DEF Next, Step, Ended
<1>3. QED
  BY <1>1, <1>2, Invariance, PTL DEF Spec, ClientSpec, Client!Spec

=============================================================================
