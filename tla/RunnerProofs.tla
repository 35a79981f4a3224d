---------------------------- MODULE RunnerProofs ----------------------------
(***************************************************************************)
(* What run_dlopen_model guarantees for any file, any width of size_t and  *)
(* whatever fails, and that it is a host such as ModelSession expects.     *)
(***************************************************************************)
EXTENDS Runner, TLAPS

USE RunnerAssumption DEF RunnerAssumption

-----------------------------------------------------------------------------
(* Arithmetic of sizes.                                                    *)

(* A number that is at most a quotient, times the divisor ...              *)
LEMMA DivBound ==
  ASSUME NEW m \in Nat, NEW d \in Nat \ {0}, NEW a \in Nat, a <= m \div d
  PROVE  a * d <= m
<1> DEFINE q == m \div d
<1>1. q \in Nat /\ q * d <= m
  BY Z3
<1>2. a * d <= q * d
  BY <1>1, Z3
<1> QED
  BY <1>1, <1>2

(* ... and the converse.                                                   *)
LEMMA DivBoundConverse ==
  ASSUME NEW m \in Nat, NEW d \in Nat \ {0}, NEW a \in Nat, a * d <= m
  PROVE  a <= m \div d
<1> DEFINE q == m \div d
<1>1. q \in Nat /\ m < (q + 1) * d
  BY Z3
<1>2. CASE a >= q + 1
  <2>1. a * d >= (q + 1) * d
    BY <1>1, <1>2, Z3
  <2> QED
    BY <1>1, <2>1
<1> QED
  BY <1>1, <1>2

LEMMA WrapFits ==
  ASSUME NEW n \in 0..SizeMax
  PROVE  Session!Wrap(n) = n
BY DEF Session!Wrap

LEMMA WrapType ==
  ASSUME NEW n \in Int
  PROVE  Session!Wrap(n) \in 0..SizeMax
BY DEF Session!Wrap

(* A tensor that fits into memory passes the overflow checks of the        *)
(* session, and so does its output of one column.                          *)
LEMMA FitsPasses ==
  ASSUME NEW rows \in Nat, NEW cols \in Nat \ {0},
         rows * cols * FloatBytes <= SizeMax
  PROVE  /\ ~Session!Overflows(rows, cols)
         /\ Session!Bytes(rows, cols) = rows * cols * FloatBytes
         /\ Session!Bytes(rows, 1) = rows * FloatBytes
         /\ rows * FloatBytes \in 0..SizeMax
<1> DEFINE elements == rows * cols
<1>1. elements \in Nat /\ rows <= elements /\ elements <= elements * FloatBytes
  BY Z3
<1>2. elements \in 0..SizeMax /\ rows \in 0..SizeMax /\ elements * FloatBytes \in 0..SizeMax
  BY <1>1, Z3
<1>3. rows <= SizeMax \div cols
  <2>1. rows * cols <= SizeMax
    BY <1>2
  <2> QED
    BY <2>1, DivBoundConverse
<1>4. elements <= SizeMax \div FloatBytes
  <2>1. elements * FloatBytes <= SizeMax
    BY <1>2
  <2> HIDE DEF elements
  <2> QED
    BY <1>1, <2>1, DivBoundConverse
<1>5. Session!Wrap(elements) = elements
      /\ Session!Wrap(elements * FloatBytes) = elements * FloatBytes
  BY <1>2, WrapFits
<1>6. rows * FloatBytes \in 0..SizeMax
  <2>1. rows * FloatBytes \in Nat /\ rows * FloatBytes <= elements * FloatBytes
    <3> HIDE DEF elements
    <3> QED
      BY <1>1, Z3
  <2> QED
    BY <1>2, <2>1
<1>7. Session!Wrap(rows * 1) = rows
      /\ Session!Wrap(rows * FloatBytes) = rows * FloatBytes
  BY <1>2, <1>6, WrapFits
<1> QED
  BY <1>3, <1>4, <1>5, <1>6, <1>7 DEF Session!Overflows, Session!Bytes

(* A product that the reader of the file lets through is exact.            *)
LEMMA ProductFits ==
  ASSUME NEW n \in Nat, count \in 0..SizeMax, ~DimOverflows(n)
  PROVE  count * n \in 0..SizeMax /\ Session!Wrap(count * n) = count * n
<1>1. count * n \in 0..SizeMax
  <2>1. CASE n = 0
    BY <2>1
  <2>2. CASE n # 0
    <3>1. count <= SizeMax \div n
      BY <2>2, Z3 DEF DimOverflows
    <3> QED
      BY <2>2, <3>1, DivBound, Z3
  <2> QED
    BY <2>1, <2>2
<1> QED
  BY <1>1, WrapFits

-----------------------------------------------------------------------------
(* The initial states, and types.                                          *)

LEMMA InitIInv == Init => IInv
<1> SUFFICES ASSUME Init PROVE IInv
  OBVIOUS
<1>1. Session!TypeOK
  <2>1. Session!NoInput \in Session!Input /\ Session!NoOutput \in Session!Output
    BY DEF Session!NoInput, Session!NoOutput, Session!Input, Session!Output
  <2> QED
    BY <2>1 DEF Init, Session!Init, Session!TypeOK, Session!Codes, Session!PC
<1>2. /\ discipline = "serial" /\ api[Main] = "c"
      /\ pc[Main] = "idle" /\ live = {} /\ at = "arguments" /\ exit = NoExit
      /\ library = "null" /\ model = FALSE /\ saved = "old" /\ unflushed = FALSE
      /\ file \in Files /\ dim = 1 /\ count = 1 /\ true_count = 1 /\ floats = 0
      /\ made = 0 /\ destroyed = 0 /\ lost = FALSE
  BY DEF Init, Session!Init
<1>3. TypeOK
  <2>1. 1 \in 0..SizeMax /\ 0 \in 0..SizeMax /\ 1 \in Nat /\ 1 \in Int
    OBVIOUS
  <2>2. /\ at \in Throwing /\ exit \in {NoExit, 0, 1}
        /\ made \in Nat /\ destroyed \in Nat
    BY <1>2 DEF Throwing
  <2> QED
    BY <1>1, <1>2, <2>1, <2>2 DEF TypeOK
<1>4. NpyReadsInside /\ InputAccepted /\ CleanExit /\ ExitTells
  BY <1>2 DEF NpyReadsInside, InputAccepted, CleanExit, ExitTells, Copying, Connected
<1>5. DimsInv /\ InputInv /\ LibraryInv /\ CallInv /\ ExitInv
  BY <1>2 DEF DimsInv, InputInv, LibraryInv, CallInv, ExitInv, Copying, Connected, NoExit
<1> QED
  BY <1>3, <1>4, <1>5 DEF IInv

(* The header that the later steps rely on.                                *)
LEMMA FileType ==
  ASSUME TypeOK
  PROVE  /\ file \in NpyFile
         /\ PayloadOffset(file) \in Nat
         /\ file.size \in 0..SizeMax
         /\ \A k \in 1..Len(file.shape) : file.shape[k] \in Int /\ file.shape[k] <= SizeMax
<1>1. file \in NpyFile
  BY DEF TypeOK
<1>2. file.major \in 0..3 /\ file.header_len \in 0..SizeMax /\ file.shape \in Seq(Int)
      /\ file.size \in 0..SizeMax
  BY <1>1 DEF NpyFile
<1> QED
  BY <1>1, <1>2 DEF TypeOK, PayloadOffset

(* From the probe on the input is one that the session accepts.            *)
LEMMA ConnectedInput ==
  ASSUME IInv, at \in Connected \cup {"create"}
  PROVE  /\ InputDesc \in Session!Input
         /\ InputDesc.valid /\ InputDesc.rows = file.shape[1]
         /\ file.shape[1] \in Nat
         /\ file.shape[1] * NumFeatures * FloatBytes <= SizeMax
         /\ InputDesc.bytes = file.shape[1] * NumFeatures * FloatBytes
         /\ InputDesc.null <=> file.shape[1] = 0
         /\ Session!CheckC(InputDesc) = 0
<1>1. /\ ShapeFits(file.shape) /\ at \in Copying
      /\ count * FloatBytes <= SizeMax
  BY DEF IInv, InputInv, Copying, Connected
<1>2. /\ Len(file.shape) = 2 /\ file.shape[2] = NumFeatures
      /\ file.shape[1] \in Nat /\ count = file.shape[1] * NumFeatures
  BY <1>1, FileType DEF IInv, InputInv, ShapeFits
<1> DEFINE rows == file.shape[1]
<1>3. count \in Nat /\ count * FloatBytes \in 0..SizeMax
  BY <1>1, Z3 DEF IInv, TypeOK
<1>4. InputDesc = [valid |-> TRUE, rows |-> rows, null |-> count = 0, bytes |-> count * FloatBytes]
  BY <1>2 DEF InputDesc
<1>5. (count = 0) \in BOOLEAN /\ rows \in Int
  BY <1>2
<1>6. InputDesc \in Session!Input
  BY <1>3, <1>4, <1>5 DEF Session!Input
<1>7. count = 0 <=> rows = 0
  BY <1>2, Z3
<1>8. rows * NumFeatures * FloatBytes <= SizeMax
  BY <1>1, <1>2
<1>9. /\ ~Session!Overflows(rows, NumFeatures)
      /\ Session!Bytes(rows, NumFeatures) = count * FloatBytes
  <2> HIDE DEF rows
  <2>1. rows \in Nat /\ NumFeatures \in Nat \ {0} /\ count = rows * NumFeatures
    BY <1>2 DEF rows
  <2> QED
    BY <1>8, <2>1, FitsPasses
<1>10. count = 0 => count * FloatBytes = 0
  BY Z3
<1>11. Session!CheckC(InputDesc) = 0
  <2> DEFINE bytes == count * FloatBytes
  <2>1. /\ InputDesc.valid /\ InputDesc.rows = rows /\ InputDesc.bytes = bytes
        /\ InputDesc.null => bytes = 0
    BY <1>4, <1>10
  <2>2. bytes \in Nat /\ rows \in Nat /\ Session!Bytes(rows, NumFeatures) = bytes
    BY <1>2, <1>3, <1>9
  <2> HIDE DEF bytes, rows
  <2> QED
    BY <1>9, <2>1, <2>2 DEF Session!CheckC
<1> QED
  BY <1>2, <1>4, <1>6, <1>7, <1>8, <1>11

-----------------------------------------------------------------------------
(* The library's side of a call.                                           *)

LEMMA WrittenType ==
  ASSUME Session!TypeOK, NEW code \in Session!Codes, NEW e \in Session!Written(Main, code)
  PROVE  e \in [{Handle} -> Session!Codes \cup {Session!Torn}]
BY DEF Session!Written, Session!TypeOK

LEMMA ReturnType ==
  ASSUME Session!TypeOK, NEW code \in Session!Codes, Session!Return(Main, code)
  PROVE  /\ pc' \in [{Main} -> Session!PC]
         /\ rc' \in [{Main} -> Session!Codes]
         /\ input' \in [{Main} -> Session!Input]
         /\ output' \in [{Main} -> Session!Output]
         /\ retry' \in [{Main} -> BOOLEAN]
<1>1. Session!NoInput \in Session!Input /\ Session!NoOutput \in Session!Output
  BY DEF Session!NoInput, Session!NoOutput, Session!Input, Session!Output
<1>2. "idle" \in Session!PC
  BY DEF Session!PC
<1> QED
  BY <1>1, <1>2 DEF Session!Return, Session!TypeOK

(* While the program is in a call, which the session accepts.              *)
LEMMA Calling ==
  ASSUME IInv, InLibrary, pc[Main] # "idle"
  PROVE  /\ on[Main] = Handle /\ api[Main] = "c" /\ input[Main] = InputDesc
         /\ at \in {"probed", "called"} /\ at \in Connected
         /\ Session!CheckC(input[Main]) = 0
         /\ file.shape[1] \in Nat
         /\ InputDesc.rows = file.shape[1]
         /\ Session!Bytes(file.shape[1], 1) = file.shape[1] * FloatBytes
         /\ file.shape[1] * FloatBytes \in 0..SizeMax
<1>1. at \in {"probed", "called"} /\ at \in Connected
  BY DEF InLibrary, Connected
<1>2. on[Main] = Handle /\ api[Main] = "c" /\ input[Main] = InputDesc
  BY DEF IInv, CallInv
<1>3. /\ Session!CheckC(InputDesc) = 0 /\ file.shape[1] \in Nat
      /\ InputDesc.rows = file.shape[1]
      /\ file.shape[1] * NumFeatures * FloatBytes <= SizeMax
  BY <1>1, ConnectedInput
<1> DEFINE rows == file.shape[1]
<1>4. /\ Session!Bytes(rows, 1) = rows * FloatBytes
      /\ rows * FloatBytes \in 0..SizeMax
  <2> HIDE DEF rows
  <2>1. rows \in Nat /\ rows * NumFeatures * FloatBytes <= SizeMax
    BY <1>3 DEF rows
  <2> QED
    BY <2>1, FitsPasses
<1> QED
  BY <1>1, <1>2, <1>3, <1>4

(* The possible steps of the library: it takes the input; it goes on; it   *)
(* answers in the output descriptor, and refuses for want of room if there *)
(* is less than the output needs; it returns.                              *)
Going ==
  /\ pc[Main] \notin {"idle", "succeed", "fail"}
  /\ pc'[Main] \in {"lock", "run", "clear", "answer", "fail"}
  /\ input' = input /\ output' = output
  /\ pc'[Main] = "fail" => rc'[Main] = -2
Answering ==
  /\ input' = input
  /\ output' = [output EXCEPT ![Main].bytes = file.shape[1] * FloatBytes]
  /\ pc[Main] = "answer"
  /\ pc'[Main] \in {"succeed", "fail"}
  /\ pc'[Main] = "fail" => rc'[Main] = -3 /\ (output[Main].bytes = 0 => file.shape[1] > 0)
Returning ==
  /\ pc[Main] \in {"succeed", "fail"} /\ pc'[Main] = "idle"
  /\ rc'[Main] = -3 =>
       /\ pc[Main] = "fail" /\ rc[Main] = -3
       /\ input' = input /\ output' = output

LEMMA LibraryStep ==
  ASSUME IInv, InLibrary
  PROVE  /\ Session!TypeOK'
         /\ pc[Main] # "idle" /\ on' = on /\ api' = api /\ live' = live
         /\ discipline' = discipline
         /\ Going \/ Answering \/ Returning
<1> USE DEF IInv
<1>0. Session!TypeOK /\ Session!Continue(Main)
  BY DEF InLibrary, TypeOK
<1>1. pc[Main] # "idle"
  BY <1>0 DEF Session!Continue, Session!Accept, Session!RejectC, Session!RejectCpp,
    Session!Lock, Session!Run, Session!RunThrows, Session!Clear, Session!Answer,
    Session!Succeed, Session!Fail
<1>2. /\ on[Main] = Handle /\ api[Main] = "c" /\ Session!CheckC(input[Main]) = 0
      /\ input[Main].rows = file.shape[1]
      /\ Session!Bytes(file.shape[1], 1) = file.shape[1] * FloatBytes
      /\ file.shape[1] * FloatBytes \in 0..SizeMax /\ file.shape[1] \in Nat
  BY <1>1, Calling
<1> DEFINE Known ==
      /\ Session!TypeOK' /\ on' = on /\ api' = api /\ live' = live
      /\ discipline' = discipline
      /\ Going \/ Answering \/ Returning
<1>3. CASE Session!Accept(Main)
  BY <1>0, <1>2, <1>3 DEF Session!Accept, Session!TypeOK, Session!PC, Going
<1>4. ~Session!RejectC(Main) /\ ~Session!RejectCpp(Main)
  BY <1>2 DEF Session!RejectC, Session!RejectCpp
<1>5. CASE Session!Lock(Main)
  BY <1>0, <1>2, <1>5 DEF Session!Lock, Session!TypeOK, Session!PC, Going
<1>6. CASE Session!Run(Main)
  BY <1>0, <1>2, <1>6 DEF Session!Run, Session!MuAfterRun, Session!TypeOK, Session!PC, Going
<1>7. CASE Session!RunThrows(Main)
  BY <1>0, <1>2, <1>7 DEF Session!RunThrows, Session!MuAfterThrow, Session!TypeOK,
    Session!PC, Session!Codes, Going
<1>8. CASE Session!Clear(Main)
  <2>1. last_error' \in [{Handle} -> Session!Codes \cup {Session!Torn}]
    BY <1>0, <1>8, WrittenType DEF Session!Clear, Session!ClearedByForward, Session!Codes
  <2> QED
    BY <1>0, <1>2, <1>8, <2>1 DEF Session!Clear, Session!TypeOK, Session!PC, Going
<1>9. CASE Session!Answer(Main)
  <2>1. output' = [output EXCEPT ![Main].bytes = file.shape[1] * FloatBytes]
    BY <1>0, <1>2, <1>9 DEF Session!Answer, Session!Filled, Session!TypeOK, Session!Output
  <2>2. Session!NoRoom(Main) => (output[Main].bytes = 0 => file.shape[1] > 0)
    <3>1. output[Main].bytes \in 0..SizeMax
      BY <1>0 DEF Session!TypeOK, Session!Output
    <3> DEFINE need == file.shape[1] * FloatBytes
    <3>2. need > 0 => file.shape[1] > 0
      BY <1>2, Z3
    <3>3. Session!Filled(output[Main], input[Main].rows).bytes = need
      BY <1>0, <1>2 DEF Session!Filled, Session!TypeOK, Session!Output
    <3> HIDE DEF need
    <3> QED
      BY <3>1, <3>2, <3>3 DEF Session!NoRoom, Session!Capacity
  <2>3. output' \in [{Main} -> Session!Output]
    BY <1>0, <1>2, <2>1 DEF Session!TypeOK, Session!Output
  <2> QED
    BY <1>0, <1>2, <1>9, <2>1, <2>2, <2>3 DEF Session!Answer, Session!TypeOK,
      Session!PC, Session!Codes, Answering
<1>10. CASE Session!Succeed(Main) \/ Session!Fail(Main)
  <2>1. PICK code \in Session!Codes :
          /\ last_error' \in Session!Written(Main, code)
          /\ Session!Return(Main, code)
          /\ outcome' = [outcome EXCEPT ![on[Main]] = code]
          /\ answered' = [answered EXCEPT ![on[Main]] = code]
          /\ code = -3 => pc[Main] = "fail" /\ rc[Main] = -3
          /\ pc[Main] \in {"succeed", "fail"}
          /\ UNCHANGED <<discipline, live, forward_mu, api, on>>
    BY <1>0, <1>10 DEF Session!Succeed, Session!Fail, Session!Answered, Session!Codes,
      Session!TypeOK
  <2>2. last_error' \in [{Handle} -> Session!Codes \cup {Session!Torn}]
    BY <1>0, <2>1, WrittenType
  <2>3. Session!TypeOK'
    BY <1>0, <1>2, <2>1, <2>2, ReturnType DEF Session!TypeOK
  <2>4. Returning
    BY <1>0, <2>1 DEF Session!Return, Session!TypeOK, Returning
  <2> QED
    BY <2>1, <2>3, <2>4
<1> QED
  BY <1>0, <1>1, <1>3, <1>4, <1>5, <1>6, <1>7, <1>8, <1>9, <1>10 DEF Session!Continue

-----------------------------------------------------------------------------
(* Every step keeps the types ...                                          *)

LEMMA DivExact ==
  ASSUME NEW n \in Nat
  PROVE  (n * FloatBytes) \div FloatBytes = n /\ (n * FloatBytes) % FloatBytes = 0
BY Z3

(* The size of the vector is that of the output.                           *)
LEMMA FloatsExact ==
  ASSUME IInv, at = "call"
  PROVE  /\ Floats = file.shape[1] /\ Floats \in 0..SizeMax
         /\ Floats * FloatBytes = output[Main].bytes
         /\ Floats * FloatBytes \in 1..SizeMax /\ Floats > 0
<1>1. /\ output[Main].bytes = file.shape[1] * FloatBytes /\ file.shape[1] > 0
  BY DEF IInv, CallInv, OutputBytes
<1>2. file.shape[1] \in Nat
  BY ConnectedInput DEF Connected
<1>3. output[Main].bytes \in 0..SizeMax
  BY DEF IInv, TypeOK, Session!TypeOK, Session!Output
<1>4. Floats = file.shape[1]
  <2> DEFINE n == file.shape[1]
  <2>1. n \in Nat /\ Floats = (n * FloatBytes) \div FloatBytes
    BY <1>1, <1>2 DEF Floats
  <2> HIDE DEF n
  <2>2. Floats = n
    BY <2>1, DivExact
  <2> QED
    BY <2>2 DEF n
<1> DEFINE n == file.shape[1]
<1>5. n \in Nat /\ n > 0 /\ n * FloatBytes \in 0..SizeMax
  BY <1>1, <1>2, <1>3
<1>6. n <= n * FloatBytes
  <2> HIDE DEF n
  <2> QED
    BY <1>5, Z3
<1> QED
  BY <1>1, <1>4, <1>5, <1>6

LEMMA ForwardType ==
  ASSUME IInv, at \in {"probe", "call"},
         NEW n \in Nat, n * FloatBytes \in 0..SizeMax, Forward(n)
  PROVE  /\ pc' \in [{Main} -> Session!PC] /\ pc'[Main] = "check"
         /\ api' \in [{Main} -> {"c", "cpp"}] /\ api'[Main] = "c"
         /\ on' \in [{Main} -> {Handle}] /\ on'[Main] = Handle
         /\ input' \in [{Main} -> Session!Input] /\ input'[Main] = InputDesc
         /\ output' \in [{Main} -> Session!Output]
         /\ output'[Main] = [null |-> n = 0, bytes |-> n * FloatBytes,
                             room |-> n * FloatBytes]
         /\ Session!CheckC(input'[Main]) = 0
<1>1. InputDesc \in Session!Input /\ Session!CheckC(InputDesc) = 0
  BY ConnectedInput DEF Connected
<1>2. Session!TypeOK
  BY DEF IInv, TypeOK
<1> DEFINE out == [null |-> n = 0, bytes |-> n * FloatBytes, room |-> n * FloatBytes]
<1>3. out \in Session!Output
  <2>1. (n = 0) \in BOOLEAN
    OBVIOUS
  <2> QED
    BY <2>1 DEF Session!Output
<1>4. /\ pc' = [pc EXCEPT ![Main] = "check"] /\ api' = [api EXCEPT ![Main] = "c"]
      /\ on' = [on EXCEPT ![Main] = Handle] /\ input' = [input EXCEPT ![Main] = InputDesc]
      /\ output' = [output EXCEPT ![Main] = out]
  BY DEF Forward
<1> HIDE DEF out
<1>5. /\ pc' \in [{Main} -> Session!PC] /\ pc'[Main] = "check"
      /\ api' \in [{Main} -> {"c", "cpp"}] /\ api'[Main] = "c"
      /\ on' \in [{Main} -> {Handle}] /\ on'[Main] = Handle
      /\ input' \in [{Main} -> Session!Input] /\ input'[Main] = InputDesc
      /\ output' \in [{Main} -> Session!Output] /\ output'[Main] = out
  BY <1>1, <1>2, <1>3, <1>4 DEF Session!TypeOK, Session!PC
<1> QED
  BY <1>1, <1>5 DEF out

(* The steps that leave the session alone.                                 *)
Quiet ==
  \/ Throw \/ Arguments \/ ReadHeader \/ CountDim \/ CheckData \/ CheckShape
  \/ OpenLibrary \/ LoadSymbols \/ Probed \/ Called \/ OpenOutput \/ Write \/ Flush
  \/ LookupFails \/ NoDestroy \/ CloseLibrary

LEMMA QuietStep == Quiet => UNCHANGED sessionVars
BY DEF Quiet, Throw, Arguments, ReadHeader, CountDim, CheckData, CheckShape,
  OpenLibrary, LoadSymbols, Probed, Called, OpenOutput, Write, Flush, LookupFails,
  NoDestroy, CloseLibrary, Check

LEMMA TypeStep == IInv /\ Step => TypeOK'
<1> SUFFICES ASSUME IInv, Step PROVE TypeOK'
  OBVIOUS
<1>0. TypeOK /\ Session!TypeOK /\ file \in NpyFile
  BY FileType DEF IInv, TypeOK
<1>1. CASE Quiet
  <2>1. Session!TypeOK'
    BY <1>0, <1>1, QuietStep DEF sessionVars, Session!TypeOK
  <2>2. CASE CountDim
    <3>1. file.shape[dim] \in Int /\ count * file.shape[dim] \in Int
          /\ true_count * file.shape[dim] \in Int
      <4>1. file.shape[dim] \in Int
        BY <1>0, <2>2, FileType DEF CountDim, IInv, DimsInv
      <4> QED
        BY <1>0, <4>1 DEF TypeOK
    <3>2. count' \in 0..SizeMax
      BY <2>2, <3>1, WrapType DEF CountDim
    <3> QED
      BY <1>0, <2>1, <2>2, <3>1, <3>2 DEF CountDim, NextDim, Check, TypeOK, Throwing
  <2>3. CASE Throw \/ Arguments \/ ReadHeader \/ CheckData \/ CheckShape
    BY <1>0, <2>1, <2>3 DEF Throw, Arguments, ReadHeader, CheckData, CheckShape, Check,
      TypeOK, Throwing, NoExit
  <2>4. CASE OpenLibrary \/ LoadSymbols \/ Probed \/ Called
    BY <1>0, <2>1, <2>4 DEF OpenLibrary, LoadSymbols, Probed, Called, Check, TypeOK,
      Throwing, NoExit
  <2>5. CASE OpenOutput \/ Write \/ Flush
    BY <1>0, <2>1, <2>5 DEF OpenOutput, Write, Flush, FailedWrite, TypeOK, Throwing, NoExit
  <2>6. CASE LookupFails \/ NoDestroy \/ CloseLibrary
    BY <1>0, <2>1, <2>6 DEF LookupFails, NoDestroy, CloseLibrary, TypeOK, Throwing, NoExit
  <2> QED
    BY <1>1, <2>2, <2>3, <2>4, <2>5, <2>6 DEF Quiet
<1>2. CASE InLibrary
  BY <1>0, <1>2, LibraryStep DEF InLibrary, ownVars, TypeOK
<1>3. CASE Create
  <2>1. Session!TypeOK'
    BY <1>0, <1>3 DEF Create, Session!TypeOK, Session!Codes
  <2> QED
    BY <1>0, <1>3, <2>1 DEF Create, TypeOK, Throwing
<1>4. CASE Destroy
  <2>1. Session!TypeOK'
    BY <1>0, <1>4 DEF Destroy, Session!TypeOK
  <2> QED
    BY <1>0, <1>4, <2>1, destroyed + 1 \in Nat DEF Destroy, TypeOK, Throwing
<1>5. CASE Probe
  <2>0. Forward(0) /\ at = "probe" /\ 0 * FloatBytes \in 0..SizeMax /\ UNCHANGED retry
    BY <1>5 DEF Probe
  <2>1. Session!TypeOK'
    BY <1>0, <2>0, ForwardType DEF Forward, Session!TypeOK
  <2> QED
    BY <1>0, <1>5, <2>1 DEF Probe, Forward, TypeOK, Throwing
<1>6. CASE Call
  <2>1. Floats \in Nat /\ Floats \in 0..SizeMax /\ Floats * FloatBytes \in 0..SizeMax
    BY <1>6, FloatsExact DEF Call
  <2>2. Session!TypeOK'
    BY <1>0, <1>6, <2>1, ForwardType DEF Call, Forward, Session!TypeOK
  <2> QED
    BY <1>0, <1>6, <2>1, <2>2 DEF Call, Forward, TypeOK, Throwing
<1> QED
  BY <1>1, <1>2, <1>3, <1>4, <1>5, <1>6 DEF Step, Quiet

-----------------------------------------------------------------------------
(* ... what is known of the file ...                                       *)

LEMMA DataStep ==
  ASSUME IInv, Step
  PROVE  NpyReadsInside' /\ DimsInv' /\ InputInv'
<1> USE DEF IInv
<1>0. /\ PayloadOffset(file) \in Nat /\ file.size \in 0..SizeMax
      /\ file.shape \in Seq(Int)
      /\ \A k \in 1..Len(file.shape) : file.shape[k] \in Int
      /\ count \in 0..SizeMax /\ true_count \in Int /\ dim \in Nat
      /\ file' = file
  <2>1. file' = file
    BY DEF Step, Throw, Arguments, ReadHeader, CountDim, CheckData, CheckShape,
      OpenLibrary, LoadSymbols, Create, Probe, Forward, InLibrary, ownVars, Probed,
      Call, Called, OpenOutput, Write, Flush, Destroy, LookupFails, NoDestroy,
      CloseLibrary, Check
  <2> QED
    BY <2>1, FileType DEF TypeOK, NpyFile
<1>1. CASE ReadHeader
  BY <1>0, <1>1 DEF ReadHeader, Check, HeaderInside, NpyReadsInside, DimsInv, InputInv,
    Copying, Connected, TypeOK
<1>2. CASE CountDim
  <2> DEFINE n == file.shape[dim]
  <2>1. /\ at = "dims" /\ dim \in 1..Len(file.shape) /\ dim' = dim + 1
        /\ count' = Session!Wrap(count * n) /\ true_count' = true_count * n
        /\ at' = IF n >= 0 /\ ~DimOverflows(n) THEN "dims" ELSE "catch"
        /\ HeaderInside(file) /\ file.shape # <<>> /\ count = true_count
    BY <1>2 DEF CountDim, Check, NextDim, DimsInv
  <2>2. CASE at' = "dims"
    <3>1. n \in Nat /\ ~DimOverflows(n)
      BY <1>0, <2>1, <2>2
    <3>2. count' = count * n
      <4> HIDE DEF n
      <4> QED
        BY <1>0, <2>1, <3>1, ProductFits
    <3>3. /\ dim' = 2 => count' = file.shape[1]
          /\ dim' = 3 => count' = file.shape[1] * file.shape[2]
      <4>1. CASE dim = 1
        BY <2>1, <3>1, <3>2, <4>1 DEF DimsInv
      <4>2. CASE dim = 2
        BY <2>1, <3>1, <3>2, <4>2 DEF DimsInv
      <4> QED
        BY <1>0, <2>1, <4>1, <4>2
    <3>4. \A k \in 1..(dim' - 1) : file.shape[k] >= 0
      BY <1>0, <2>1, <3>1 DEF DimsInv
    <3>5. /\ PayloadOffset(file) <= file.size
          /\ dim' \in 1..(Len(file.shape) + 1) /\ dim' # 1 /\ count' = true_count'
      BY <1>0, <2>1, <2>2, <3>2 DEF HeaderInside
    <3> QED
      BY <1>0, <2>1, <2>2, <3>3, <3>4, <3>5 DEF NpyReadsInside, DimsInv, InputInv,
        Copying, Connected, HeaderInside
  <2>3. CASE at' = "catch"
    BY <2>3 DEF NpyReadsInside, DimsInv, InputInv, Copying, Connected
  <2> QED
    BY <2>1, <2>2, <2>3
<1>3. CASE CheckData
  <2>1. /\ at = "dims" /\ dim = Len(file.shape) + 1
        /\ UNCHANGED <<dim, count, true_count>>
        /\ HeaderInside(file) /\ count = true_count
        /\ at' = IF /\ count <= SizeMax \div FloatBytes
                   /\ count * FloatBytes <= Session!Wrap(file.size - PayloadOffset(file))
                 THEN "copy" ELSE "catch"
    BY <1>0, <1>3 DEF CheckData, Check, DimsInv
  <2>2. CASE at' = "copy"
    <3>1. count * FloatBytes <= SizeMax
      BY <1>0, <2>1, <2>2, DivBound
    <3>2. file.size - PayloadOffset(file) \in 0..SizeMax
      BY <1>0, <2>1 DEF HeaderInside
    <3>3. count * FloatBytes <= file.size - PayloadOffset(file)
      BY <2>1, <2>2, <3>2, WrapFits
    <3>4. PayloadOffset(file) + count * FloatBytes \in 0..file.size
      <4> DEFINE bytes == count * FloatBytes
      <4>1. bytes \in Nat
        BY <1>0
      <4> HIDE DEF bytes
      <4> QED
        BY <1>0, <3>3, <4>1 DEF bytes
    <3>5. Len(file.shape) = 2 =>
            file.shape[1] >= 0 /\ count = file.shape[1] * file.shape[2]
      BY <2>1 DEF DimsInv
    <3> QED
      BY <1>0, <2>1, <2>2, <3>1, <3>4, <3>5 DEF NpyReadsInside, DimsInv, InputInv,
        Copying, Connected
  <2>3. CASE at' = "catch"
    BY <2>3 DEF NpyReadsInside, DimsInv, InputInv, Copying, Connected
  <2> QED
    BY <2>1, <2>2, <2>3
<1>4. ASSUME UNCHANGED <<count, true_count, dim>>,
             at' \in Copying => at \in Copying,
             at' \in Copying \ {"copy"} => at \in Copying \ {"copy"} \/ ShapeFits(file.shape),
             at' # "dims", at' = "header" => at = "arguments", at' # "arguments"
      PROVE  NpyReadsInside' /\ DimsInv' /\ InputInv'
  BY <1>0, <1>4 DEF NpyReadsInside, DimsInv, InputInv
<1>5. CASE CheckShape
  BY <1>4, <1>5 DEF CheckShape, Check, Copying, Connected
<1>6. CASE Throw \/ Arguments \/ OpenLibrary \/ LoadSymbols \/ Create \/ Probed \/ Called
  BY <1>4, <1>6 DEF Throw, Arguments, OpenLibrary, LoadSymbols, Create, Probed, Called,
    Check, Copying, Connected
<1>7. CASE OpenOutput \/ Write \/ Flush \/ Destroy \/ LookupFails \/ NoDestroy \/ CloseLibrary
  BY <1>4, <1>7 DEF OpenOutput, Write, FailedWrite, Flush, Destroy, LookupFails, NoDestroy,
    CloseLibrary, Copying, Connected
<1>8. CASE Probe \/ Call
  BY <1>4, <1>8 DEF Probe, Call, Forward, Copying, Connected
<1>9. CASE InLibrary
  BY <1>4, <1>9 DEF InLibrary, ownVars, Copying, Connected
<1> QED
  BY <1>1, <1>2, <1>3, <1>5, <1>6, <1>7, <1>8, <1>9 DEF Step

-----------------------------------------------------------------------------
(* ... of the library and of the exit code ...                             *)

LEMMA ExitStep ==
  ASSUME IInv, Step, TypeOK'
  PROVE  CleanExit' /\ LibraryInv' /\ ExitTells' /\ ExitInv'
<1> USE DEF IInv
<1>0. /\ at \notin {"probed", "called"} => pc[Main] = "idle"
      /\ live \subseteq {Handle}
  BY DEF CallInv, TypeOK, Session!TypeOK
<1>1. CASE Throw
  BY <1>0, <1>1 DEF Throw, Throwing, sessionVars, CleanExit, LibraryInv, ExitTells, ExitInv,
    Connected
<1>2. CASE ReadHeader \/ CountDim \/ CheckData \/ CheckShape
  BY <1>0, <1>2 DEF ReadHeader, CountDim, CheckData, CheckShape, Check, sessionVars,
    CleanExit, LibraryInv, ExitTells, ExitInv, Connected
<1>3. CASE Arguments \/ OpenLibrary \/ LoadSymbols
  BY <1>0, <1>3 DEF Arguments, OpenLibrary, LoadSymbols, Check, sessionVars, CleanExit,
    LibraryInv, ExitTells, ExitInv, Connected, NoExit
<1>4. CASE Probed \/ Called
  BY <1>0, <1>4 DEF Probed, Called, Check, sessionVars, CleanExit, LibraryInv, ExitTells,
    ExitInv, Connected
<1>5. CASE Create
  BY <1>0, <1>5 DEF Create, CleanExit, LibraryInv, ExitTells, ExitInv, Connected, TypeOK
<1>6. CASE Probe \/ Call
  BY <1>0, <1>6 DEF Probe, Call, Forward, CleanExit, LibraryInv, ExitTells, ExitInv,
    Connected
<1>7. CASE InLibrary
  <2>1. live' = live /\ at \in {"probed", "called"} /\ UNCHANGED ownVars
    BY <1>7, LibraryStep DEF InLibrary
  <2> QED
    BY <2>1 DEF ownVars, CleanExit, LibraryInv, ExitTells, ExitInv, Connected
<1>8. CASE OpenOutput \/ Write \/ Flush
  BY <1>0, <1>8 DEF OpenOutput, Write, FailedWrite, Flush, sessionVars, CleanExit,
    LibraryInv, ExitTells, ExitInv, Connected, TypeOK
<1>9. CASE Destroy \/ LookupFails \/ NoDestroy
  BY <1>0, <1>9 DEF Destroy, LookupFails, NoDestroy, MustDestroy, sessionVars, CleanExit,
    LibraryInv, ExitTells, ExitInv, Connected, TypeOK
<1>10. CASE CloseLibrary
  BY <1>0, <1>10 DEF CloseLibrary, sessionVars, CleanExit, LibraryInv, ExitTells, ExitInv,
    Connected, NoExit, TypeOK
<1> QED
  BY <1>1, <1>2, <1>3, <1>4, <1>5, <1>6, <1>7, <1>8, <1>9, <1>10 DEF Step

-----------------------------------------------------------------------------
(* ... and of the calls.                                                   *)

LEMMA CallStep ==
  ASSUME IInv, Step
  PROVE  InputAccepted' /\ CallInv'
<1> USE DEF IInv
<1>0. at \notin {"probed", "called"} => pc[Main] = "idle"
  BY DEF CallInv
<1>1. ASSUME UNCHANGED sessionVars, pc[Main] = "idle",
             at' \in {"probed", "call", "called"} => FALSE,
             at' \in {"save", "write"} => floats' = file'.shape[1]
      PROVE  InputAccepted' /\ CallInv'
  BY <1>1 DEF sessionVars, InputAccepted, CallInv
<1>2. CASE Throw \/ Arguments \/ ReadHeader \/ CountDim \/ CheckData \/ CheckShape
  BY <1>0, <1>1, <1>2 DEF Throw, Throwing, Arguments, ReadHeader, CountDim, CheckData,
    CheckShape, Check
<1>3. CASE OpenLibrary \/ LoadSymbols \/ Flush \/ LookupFails \/ NoDestroy \/ CloseLibrary
  BY <1>0, <1>1, <1>3 DEF OpenLibrary, LoadSymbols, Flush, LookupFails, NoDestroy,
    CloseLibrary, Check
<1>4. CASE Called \/ OpenOutput \/ Write
  BY <1>0, <1>1, <1>4 DEF Called, OpenOutput, Write, FailedWrite, Check, CallInv
<1>5. CASE Create \/ Destroy
  BY <1>0, <1>5 DEF Create, Destroy, InputAccepted, CallInv
<1>6. CASE Probed
  <2>1. /\ at = "probed" /\ pc[Main] = "idle" /\ UNCHANGED sessionVars
        /\ at' \in {"call", "catch"} /\ (at' = "call" => rc[Main] = -3)
        /\ InputDesc' = InputDesc /\ file' = file /\ OutputBytes' = OutputBytes
    BY <1>6 DEF Probed, Check, InputDesc, OutputBytes
  <2>2. /\ pc' = pc /\ rc' = rc /\ on' = on /\ input' = input /\ output' = output
        /\ discipline' = discipline /\ api' = api
    BY <2>1 DEF sessionVars
  <2>3. InputAccepted'
    BY <2>1, <2>2 DEF InputAccepted
  <2>4. CallInv'
    BY <2>1, <2>2 DEF CallInv
  <2> QED
    BY <2>3, <2>4
<1>7. CASE Probe
  <2>1. /\ at = "probe" /\ Forward(0) /\ at' = "probed" /\ UNCHANGED <<discipline, rc, file, count>>
    BY <1>7 DEF Probe, Forward
  <2>2. /\ pc'[Main] = "check" /\ on'[Main] = Handle /\ api'[Main] = "c"
        /\ input'[Main] = InputDesc /\ Session!CheckC(input'[Main]) = 0
        /\ output'[Main].bytes = 0
    <3>1. 0 * FloatBytes = 0 /\ 0 \in 0..SizeMax /\ 0 \in Nat
      OBVIOUS
    <3>2. output'[Main] = [null |-> 0 = 0, bytes |-> 0 * FloatBytes, room |-> 0 * FloatBytes]
      BY <2>1, <3>1, ForwardType
    <3> QED
      BY <2>1, <3>1, <3>2, ForwardType
  <2>3. InputDesc' = InputDesc
    BY <2>1 DEF InputDesc
  <2>4. Session!CheckC(input[Main])' = Session!CheckC(input'[Main])
    BY DEF Session!CheckC
  <2> QED
    BY <2>1, <2>2, <2>3, <2>4 DEF InputAccepted, CallInv
<1>8. CASE Call
  <2>1. /\ at = "call" /\ Forward(Floats) /\ at' = "called" /\ UNCHANGED <<discipline, rc, file, count>>
        /\ floats' = Floats
    BY <1>8 DEF Call, Forward
  <2>2. Floats \in Nat /\ Floats * FloatBytes \in 0..SizeMax /\ Floats = file.shape[1]
    BY <2>1, FloatsExact
  <2>3. /\ pc'[Main] = "check" /\ on'[Main] = Handle /\ api'[Main] = "c"
        /\ input'[Main] = InputDesc /\ Session!CheckC(input'[Main]) = 0
    BY <2>1, <2>2, ForwardType
  <2>4. InputDesc' = InputDesc
    BY <2>1 DEF InputDesc
  <2> QED
    BY <2>1, <2>2, <2>3, <2>4 DEF InputAccepted, CallInv
<1>9. CASE InLibrary
  <2>1. /\ pc[Main] # "idle" /\ on' = on /\ api' = api /\ UNCHANGED ownVars
        /\ discipline' = discipline
        /\ Going \/ Answering \/ Returning
        /\ at \in {"probed", "called"}
    BY <1>9, LibraryStep DEF InLibrary
  <2>2. /\ on[Main] = Handle /\ api[Main] = "c" /\ input[Main] = InputDesc
    BY <1>9, <2>1, Calling
  <2>3. /\ InputDesc' = InputDesc /\ OutputBytes' = OutputBytes
        /\ file' = file /\ at' = at /\ floats' = floats
    BY <2>1 DEF ownVars, InputDesc, OutputBytes
  <2>4. output \in [{Main} -> Session!Output]
    BY DEF TypeOK, Session!TypeOK
  <2>5. CASE Going
    BY <2>1, <2>2, <2>3, <2>5 DEF Going, InputAccepted, CallInv
  <2>6. CASE Answering
    <3>1. output'[Main].bytes = OutputBytes
      BY <2>4, <2>6 DEF Answering, Session!Output, OutputBytes
    <3>2. /\ pc[Main] = "answer" /\ pc'[Main] \in {"succeed", "fail"} /\ input' = input
          /\ pc'[Main] = "fail" => rc'[Main] = -3 /\ (output[Main].bytes = 0 => file.shape[1] > 0)
      BY <2>6 DEF Answering
    <3>3. at = "probed" => output[Main].bytes = 0
      BY <3>2 DEF CallInv
    <3> QED
      BY <2>1, <2>2, <2>3, <3>1, <3>2, <3>3 DEF InputAccepted, CallInv
  <2>7. CASE Returning
    BY <2>1, <2>2, <2>3, <2>7 DEF Returning, InputAccepted, CallInv
  <2> QED
    BY <2>1, <2>5, <2>6, <2>7
<1> QED
  BY <1>2, <1>3, <1>4, <1>5, <1>6, <1>7, <1>8, <1>9 DEF Step

-----------------------------------------------------------------------------
(* The invariant.                                                          *)

LEMMA NextIInv == IInv /\ [Next]_vars => IInv'
<1> SUFFICES ASSUME IInv, [Next]_vars PROVE IInv'
  OBVIOUS
<1>1. CASE Step
  BY <1>1, TypeStep, DataStep, ExitStep, CallStep DEF IInv
<1>2. CASE UNCHANGED vars
  <2>1. /\ UNCHANGED sessionVars /\ UNCHANGED ownVars
    BY <1>2 DEF vars
  <2>2. TypeOK'
    BY <2>1 DEF IInv, TypeOK, Session!TypeOK, sessionVars, ownVars
  <2>3. NpyReadsInside' /\ InputAccepted' /\ CleanExit' /\ ExitTells'
    BY <2>1 DEF IInv, NpyReadsInside, InputAccepted, CleanExit, ExitTells, sessionVars,
      ownVars
  <2>4. DimsInv' /\ InputInv' /\ LibraryInv' /\ ExitInv'
    BY <2>1 DEF IInv, DimsInv, InputInv, LibraryInv, ExitInv, sessionVars, ownVars
  <2>5. CallInv'
    BY <2>1 DEF IInv, CallInv, InputDesc, OutputBytes, sessionVars, ownVars
  <2> QED
    BY <2>2, <2>3, <2>4, <2>5 DEF IInv
<1> QED
  BY <1>1, <1>2 DEF Next, Ended

(* All of the conditions hold in every state.                              *)
THEOREM Invariance == Spec => []IInv
<1> QED
  BY InitIInv, NextIInv, PTL DEF Spec

(* No read of the .npy file leaves the file, for any width of size_t and   *)
(* any shape.                                                              *)
THEOREM FileReadInside == Spec => []NpyReadsInside
<1>1. IInv => NpyReadsInside
  BY DEF IInv
<1> QED
  BY <1>1, Invariance, PTL

(* The session never finds fault with an input that was read from a file.  *)
THEOREM FilesAreInputs == Spec => []InputAccepted
<1>1. IInv => InputAccepted
  BY DEF IInv
<1> QED
  BY <1>1, Invariance, PTL

(* The session is destroyed before its library is closed, and neither is   *)
(* left, on every path through the catch block but the one on which it     *)
(* does not find model_destroy again, where the session is left.           *)
THEOREM ExitsClean == Spec => []CleanExit
<1>1. IInv => CleanExit
  BY DEF IInv
<1> QED
  BY <1>1, Invariance, PTL

(* Exit code 0 means an output, up to the destructor of the stream.        *)
THEOREM ExitCodeTells == Spec => []ExitTells
<1>1. IInv => ExitTells
  BY DEF IInv
<1> QED
  BY <1>1, Invariance, PTL

-----------------------------------------------------------------------------
(* The program implements the host that ModelSession expects.              *)

LEMMA ProbeIsCall == IInv /\ Probe => Session!CallC(Main, Handle)
<1> SUFFICES ASSUME IInv, Probe PROVE Session!CallC(Main, Handle)
  OBVIOUS
<1>1. /\ at = "probe" /\ at \in Connected /\ Forward(0) /\ UNCHANGED retry
  BY DEF Probe, Connected
<1>2. /\ pc[Main] = "idle" /\ live = {Handle}
  BY <1>1 DEF IInv, CallInv, LibraryInv, CleanExit, TypeOK, Session!TypeOK
<1>3. Session!MayCall(Handle, "c")
  BY <1>2 DEF IInv, CallInv, Session!MayCall, Session!Users
<1>4. InputDesc \in Session!Inputs
  <2>1. /\ InputDesc \in Session!Input /\ InputDesc.valid = TRUE
        /\ InputDesc.rows = file.shape[1] /\ ShapeFits(file.shape)
    BY <1>1, ConnectedInput DEF IInv, InputInv, Copying, Session!Input
  <2>2. InputDesc.rows \in {f.shape[1] : f \in {g \in Files : g.shape # <<>>}}
    BY <2>1 DEF ShapeFits, IInv, TypeOK
  <2>3. /\ InputDesc = [valid |-> TRUE, rows |-> InputDesc.rows, null |-> InputDesc.null,
                         bytes |-> InputDesc.bytes]
        /\ InputDesc.null \in BOOLEAN /\ InputDesc.bytes \in 0..SizeMax
    BY <2>1 DEF Session!Input
  <2> DEFINE Rows == {f.shape[1] : f \in {g \in Files : g.shape # <<>>}}
  <2>4. \A rows \in Rows, null \in BOOLEAN, bytes \in 0..SizeMax :
          [valid |-> TRUE, rows |-> rows, null |-> null, bytes |-> bytes] \in Session!Inputs
    <3>1. Session!Inputs =
            [valid : {TRUE}, rows : Rows, null : BOOLEAN, bytes : 0..SizeMax]
              \cup {Session!NoInput}
      BY DEF Session!Inputs
    <3> HIDE DEF Rows
    <3> QED
      BY <3>1
  <2>5. InputDesc.rows \in Rows
    BY <2>2
  <2> HIDE DEF Rows
  <2> QED
    BY <2>3, <2>4, <2>5
<1>5. \E size \in 0..SizeMax, null \in BOOLEAN :
        output' = [output EXCEPT ![Main] =
          [null |-> null, bytes |-> size, room |-> IF null THEN 0 ELSE size]]
  <2>1. output' = [output EXCEPT ![Main] =
          [null |-> 0 = 0, bytes |-> 0 * FloatBytes, room |-> 0 * FloatBytes]]
    BY <1>1 DEF Forward
  <2>2. 0 * FloatBytes = 0 /\ 0 \in 0..SizeMax /\ TRUE \in BOOLEAN
    OBVIOUS
  <2>3. output' = [output EXCEPT ![Main] =
          [null |-> TRUE, bytes |-> 0, room |-> IF TRUE THEN 0 ELSE 0]]
    BY <2>1, <2>2
  <2> QED
    BY <2>2, <2>3
<1> QED
  BY <1>1, <1>2, <1>3, <1>4, <1>5 DEF Session!CallC, Forward

LEMMA CallIsRetry == IInv /\ Call => Session!Retry(Main)
<1> SUFFICES ASSUME IInv, Call PROVE Session!Retry(Main)
  OBVIOUS
<1>1. /\ at = "call" /\ at \in Connected /\ Forward(Floats)
      /\ retry' = [retry EXCEPT ![Main] = TRUE]
  BY DEF Call, Connected
<1>2. /\ pc[Main] = "idle" /\ live = {Handle} /\ rc[Main] = -3
      /\ on[Main] = Handle /\ input[Main] = InputDesc
  BY <1>1 DEF IInv, CallInv, LibraryInv, CleanExit, TypeOK, Session!TypeOK
<1>3. Session!MayCall(on[Main], "c")
  BY <1>2 DEF IInv, CallInv, Session!MayCall, Session!Users
<1>4. Session!TypeOK
  BY DEF IInv, TypeOK
<1>5. UNCHANGED <<api, on, input>>
  <2>1. api[Main] = "c"
    BY <1>1 DEF IInv, CallInv
  <2> QED
    BY <1>1, <1>2, <1>4, <2>1 DEF Forward, Session!TypeOK
<1>6. output' = [output EXCEPT ![Main] =
        [null |-> FALSE, bytes |-> output[Main].bytes, room |-> output[Main].bytes]]
  <2>1. Floats # 0 /\ Floats * FloatBytes = output[Main].bytes
    BY <1>1, FloatsExact
  <2> QED
    BY <1>1, <2>1 DEF Forward
<1> QED
  BY <1>1, <1>2, <1>3, <1>5, <1>6 DEF Session!Retry, Forward

LEMMA StepRefines == IInv /\ [Next]_vars => [Session!Next]_(Session!vars)
<1> SUFFICES ASSUME IInv, [Next]_vars PROVE [Session!Next]_(Session!vars)
  OBVIOUS
<1>0. Main \in {Main} /\ Handle \in {Handle}
  OBVIOUS
<1>1. CASE Quiet
  BY <1>1, QuietStep DEF sessionVars, Session!vars
<1>2. CASE Create
  <2>1. pc[Main] = "idle" /\ live = {}
    BY <1>2 DEF Create, IInv, CallInv, LibraryInv, CleanExit
  <2>2. Session!Create(Main, Handle)
    BY <1>2, <2>1 DEF Create, Session!Create
  <2> QED
    BY <1>0, <2>2 DEF Session!Next, Session!Begin
<1>3. CASE Probe
  BY <1>0, <1>3, ProbeIsCall DEF Session!Next, Session!Begin
<1>4. CASE Call
  BY <1>0, <1>4, CallIsRetry DEF Session!Next, Session!Begin
<1>5. CASE InLibrary
  BY <1>0, <1>5 DEF InLibrary, Session!Next
<1>6. CASE Destroy
  <2>1. pc[Main] = "idle" /\ live = {Handle}
    BY <1>6 DEF Destroy, MustDestroy, Connected, IInv, CallInv, LibraryInv, CleanExit,
      TypeOK, Session!TypeOK
  <2>2. Session!Users(Handle) = {}
    BY <2>1 DEF Session!Users
  <2>3. Session!Destroy(Main, Handle)
    BY <1>6, <2>1, <2>2 DEF Destroy, Session!Destroy
  <2> QED
    BY <1>0, <2>3 DEF Session!Next, Session!Begin
<1>7. CASE UNCHANGED vars
  BY <1>7 DEF vars, sessionVars, Session!vars
<1> QED
  BY <1>1, <1>2, <1>3, <1>4, <1>5, <1>6, <1>7 DEF Next, Step, Quiet, Ended

(* run_dlopen_model is one of the hosts of ModelSession.                   *)
THEOREM ImplementsHost == Spec => SessionSpec
<1>1. Init => Session!Init
  BY DEF Init
<1> QED
  BY <1>1, Invariance, StepRefines, PTL DEF Spec, SessionSpec, Session!Spec

(* Library and session are used as LibraryClient says.                     *)
LEMMA StepClient == IInv /\ [Next]_vars => [Client!Next \/ CloseOnLost]_(Client!vars)
<1> SUFFICES ASSUME IInv, [Next]_vars
             PROVE  Client!Next \/ CloseOnLost \/ UNCHANGED Client!vars
  OBVIOUS
<1> USE DEF Client!Next, Client!vars
<1>0. /\ made \in Nat /\ destroyed \in Nat
      /\ model => made = destroyed + 1
      /\ ~model => made = destroyed
  BY DEF IInv, TypeOK, LibraryInv
<1>1. CASE OpenLibrary
  BY <1>1 DEF OpenLibrary, Client!Open, IInv, LibraryInv
<1>2. CASE Create
  BY <1>0, <1>2 DEF Create, Client!Create, IInv, LibraryInv
<1>3. CASE Destroy
  <2>1. model /\ library = "open"
    BY <1>3 DEF Destroy, MustDestroy, IInv, LibraryInv, CleanExit, Connected
  <2> QED
    BY <1>0, <1>3, <2>1 DEF Destroy, Client!Destroy
<1>4. CASE CloseLibrary
  <2>1. library \in {"null", "open"} /\ UNCHANGED <<made, destroyed>>
    BY <1>4 DEF CloseLibrary, IInv, LibraryInv, TypeOK
  <2>2. CASE library = "null"
    BY <1>4, <2>1, <2>2 DEF CloseLibrary
  <2>3. CASE library = "open" /\ ~model
    BY <1>0, <1>4, <2>1, <2>3 DEF CloseLibrary, Client!Close
  <2>4. CASE library = "open" /\ model
    <3>1. lost
      BY <1>4, <2>4 DEF CloseLibrary, IInv, LibraryInv, TypeOK
    <3> QED
      BY <1>0, <1>4, <2>1, <2>4, <3>1 DEF CloseLibrary, CloseOnLost
  <2> QED
    BY <2>1, <2>2, <2>3, <2>4
<1>5. CASE Quiet /\ ~OpenLibrary /\ ~CloseLibrary
  BY <1>5 DEF Quiet, Throw, Arguments, ReadHeader, CountDim, CheckData, CheckShape,
    LoadSymbols, Probed, Called, OpenOutput, Write, Flush, LookupFails, NoDestroy, Check
<1>6. CASE Probe \/ Call \/ InLibrary
  BY <1>6 DEF Probe, Call, Forward, InLibrary, ownVars
<1>7. CASE UNCHANGED vars
  BY <1>7 DEF vars, ownVars
<1> QED
  BY <1>1, <1>2, <1>3, <1>4, <1>5, <1>6, <1>7 DEF Next, Step, Quiet, Ended

(* run_dlopen_model, too, destroys its session exactly once and before it  *)
(* closes the library, on whichever path it leaves main, but for the one   *)
(* on which it does not find model_destroy again: there it closes the      *)
(* library with that one session left, and does nothing else amiss.        *)
THEOREM ImplementsClient == Spec => ClientSpec
<1>1. Init => Client!Init
  BY DEF Init, Client!Init
<1> QED
  BY <1>1, Invariance, StepClient, PTL DEF Spec, ClientSpec

-----------------------------------------------------------------------------
(* The end of the program.                                                 *)

(* The parts of the bound are numbers, and the call of the library counts  *)
(* only while it lasts.                                                    *)
LEMMA CountType ==
  ASSUME IInv
  PROVE  /\ OwnSteps \in Nat /\ CallSteps \in Nat /\ DimSteps \in Nat
         /\ at \notin {"probed", "called"} => CallSteps = 0
<1>1. OwnSteps \in Nat
  BY DEF IInv, TypeOK, Throwing, OwnSteps
<1>2. pc[Main] \in Session!PC
  BY DEF IInv, TypeOK, Session!TypeOK
<1>3. CallSteps \in Nat
  BY <1>2 DEF Session!PC, CallSteps
<1>4. at \notin {"probed", "called"} => CallSteps = 0
  BY DEF IInv, CallInv, CallSteps
<1>5. DimSteps \in Nat
  <2>1. Len(file.shape) \in Nat
    BY FileType DEF IInv, NpyFile
  <2>2. dim \in Nat
    BY DEF IInv, TypeOK
  <2>3. at \in {"arguments", "header", "dims"} => dim <= Len(file.shape) + 1
    BY <2>1, <2>2 DEF IInv, DimsInv
  <2> QED
    BY <2>1, <2>2, <2>3 DEF DimSteps
<1> QED
  BY <1>1, <1>3, <1>4, <1>5

(* A sum is less if a part of it is, and no part is more.                  *)
LEMMA LessSum ==
  ASSUME NEW a \in Nat, NEW b \in Nat, NEW c \in Nat,
         NEW x \in Nat, NEW y \in Nat, NEW z \in Nat,
         x <= a, y <= b, z <= c, x < a \/ y < b
  PROVE  x + y + z < a + b + c
OBVIOUS

(* A step of main brings it nearer to the end ...                          *)
LEMMA QuietDown ==
  ASSUME IInv, \/ Quiet /\ ~CountDim
               \/ Create
               \/ Destroy
  PROVE  StepsLeft' < StepsLeft
<1>0. /\ OwnSteps \in Nat /\ CallSteps \in Nat /\ DimSteps \in Nat
  BY CountType
<1>1. UNCHANGED <<pc, file>>
  BY QuietStep DEF sessionVars, Quiet, Throw, Arguments, ReadHeader, CountDim, CheckData,
    CheckShape, OpenLibrary, LoadSymbols, Probed, Called, OpenOutput, Write, Flush,
    LookupFails, NoDestroy, CloseLibrary, Create, Destroy, Check
<1>2. CallSteps' = CallSteps
  BY <1>1 DEF CallSteps
<1>3. OwnSteps' \in Nat /\ OwnSteps' < OwnSteps
  <2>1. CASE Throw
    BY <2>1 DEF Throw, Throwing, OwnSteps
  <2>2. CASE Arguments \/ ReadHeader \/ CheckData \/ CheckShape
    BY <2>2 DEF Arguments, ReadHeader, CheckData, CheckShape, Check, OwnSteps
  <2>3. CASE OpenLibrary \/ LoadSymbols \/ Create \/ Probed \/ Called
    BY <2>3 DEF OpenLibrary, LoadSymbols, Create, Probed, Called, Check, OwnSteps
  <2>4. CASE OpenOutput \/ Write \/ Flush
    BY <2>4 DEF OpenOutput, Write, FailedWrite, Flush, OwnSteps
  <2>5. CASE Destroy \/ LookupFails \/ NoDestroy \/ CloseLibrary
    BY <2>5 DEF Destroy, LookupFails, NoDestroy, CloseLibrary, OwnSteps
  <2> QED
    BY <2>1, <2>2, <2>3, <2>4, <2>5 DEF Quiet
<1>4. DimSteps' \in {DimSteps, 0}
  <2>1. \/ at' \notin {"arguments", "header", "dims"}
        \/ at \in {"arguments", "header"} /\ dim' = dim
    BY DEF Quiet, Throw, Throwing, Arguments, ReadHeader, CountDim, CheckData,
      CheckShape, OpenLibrary, LoadSymbols, Probed, Called, OpenOutput, Write, FailedWrite,
      Flush, LookupFails, NoDestroy, CloseLibrary, Create, Destroy, Check
  <2> QED
    BY <1>1, <2>1 DEF DimSteps
<1>5. /\ CallSteps' \in Nat /\ DimSteps' \in Nat /\ DimSteps' <= DimSteps
      /\ OwnSteps' <= OwnSteps /\ CallSteps' <= CallSteps
  BY <1>0, <1>2, <1>3, <1>4
<1> QED
  BY <1>0, <1>3, <1>5, LessSum DEF StepsLeft

(* ... or counts a dimension ...                                           *)
LEMMA CountDown == IInv /\ CountDim => StepsLeft' < StepsLeft
<1> SUFFICES ASSUME IInv, CountDim PROVE StepsLeft' < StepsLeft
  OBVIOUS
<1>0. OwnSteps \in Nat /\ CallSteps \in Nat /\ DimSteps \in Nat
  BY CountType
<1>1. /\ at = "dims" /\ dim \in Nat /\ dim' = dim + 1
      /\ Len(file.shape) \in Nat /\ dim <= Len(file.shape)
      /\ UNCHANGED <<pc, file>> /\ at' \in {"dims", "catch"}
    BY FileType DEF CountDim, NextDim, Check, sessionVars, IInv, TypeOK, NpyFile
<1>2. CallSteps' = CallSteps /\ OwnSteps = 26
  BY <1>1 DEF CallSteps, OwnSteps
<1>3. CASE at' = "dims"
  <2>1. OwnSteps' = 26 /\ DimSteps' = DimSteps - 1
    BY <1>1, <1>3 DEF OwnSteps, DimSteps
  <2> QED
    BY <1>0, <1>2, <2>1 DEF StepsLeft
<1>4. CASE at' = "catch"
  <2>1. OwnSteps' = 2 /\ DimSteps' = 0
    BY <1>1, <1>4 DEF OwnSteps, DimSteps
  <2> QED
    BY <1>0, <1>2, <2>1 DEF StepsLeft
<1> QED
  BY <1>1, <1>3, <1>4

(* ... or calls the library, which takes six steps at most ...             *)
LEMMA CallDown == IInv /\ (Probe \/ Call) => StepsLeft' < StepsLeft
<1> SUFFICES ASSUME IInv, Probe \/ Call PROVE StepsLeft' < StepsLeft
  OBVIOUS
<1>1. /\ pc' = [pc EXCEPT ![Main] = "check"]
      /\ \/ at = "probe" /\ at' = "probed"
         \/ at = "call" /\ at' = "called"
  BY DEF Probe, Call, Forward
<1>2. pc'[Main] = "check"
  BY <1>1 DEF IInv, TypeOK, Session!TypeOK
<1>3. CallSteps = 0 /\ CallSteps' = 6
  BY <1>1, <1>2, CountType DEF CallSteps
<1>4. DimSteps = 0 /\ DimSteps' = 0
  BY <1>1 DEF DimSteps
<1>5. /\ at = "probe" => OwnSteps = 21 /\ OwnSteps' = 14
      /\ at = "call" => OwnSteps = 13 /\ OwnSteps' = 6
  BY <1>1 DEF OwnSteps
<1> QED
  BY <1>1, <1>3, <1>4, <1>5 DEF StepsLeft

(* ... one of which it makes.                                              *)
LEMMA LibraryDown == IInv /\ InLibrary => StepsLeft' < StepsLeft
<1> SUFFICES ASSUME IInv, InLibrary PROVE StepsLeft' < StepsLeft
  OBVIOUS
<1>0. OwnSteps \in Nat /\ CallSteps \in Nat /\ DimSteps \in Nat
  BY CountType
<1>1. OwnSteps' = OwnSteps /\ DimSteps' = DimSteps
  BY DEF InLibrary, ownVars, OwnSteps, DimSteps
<1>2. /\ Session!Continue(Main)
      /\ pc \in [{Main} -> Session!PC]
  BY DEF InLibrary, IInv, TypeOK, Session!TypeOK
<1>3. CallSteps' \in Nat /\ CallSteps' < CallSteps
  <2>1. CASE Session!Accept(Main)
    BY <1>2, <2>1 DEF Session!Accept, CallSteps
  <2>2. CASE Session!RejectC(Main)
    BY <1>2, <2>2 DEF Session!RejectC, CallSteps
  <2>3. CASE Session!RejectCpp(Main)
    BY <1>2, <2>3 DEF Session!RejectCpp, Session!Throws, Session!Return, CallSteps
  <2>4. CASE Session!Lock(Main)
    BY <1>2, <2>4 DEF Session!Lock, CallSteps
  <2>5. CASE Session!Run(Main)
    BY <1>2, <2>5 DEF Session!Run, CallSteps
  <2>6. CASE Session!RunThrows(Main)
    BY <1>2, <2>6 DEF Session!RunThrows, Session!Throws, Session!Return, CallSteps
  <2>7. CASE Session!Clear(Main)
    BY <1>2, <2>7 DEF Session!Clear, Session!Answered, Session!Return, CallSteps
  <2>8. CASE Session!Answer(Main)
    BY <1>2, <2>8 DEF Session!Answer, CallSteps
  <2>9. CASE Session!Succeed(Main) \/ Session!Fail(Main)
    BY <1>2, <2>9 DEF Session!Succeed, Session!Fail, Session!Answered, Session!Return,
      CallSteps
  <2> QED
    BY <1>2, <2>1, <2>2, <2>3, <2>4, <2>5, <2>6, <2>7, <2>8, <2>9 DEF Session!Continue
<1>4. /\ OwnSteps' \in Nat /\ DimSteps' \in Nat /\ DimSteps' <= DimSteps
      /\ OwnSteps' <= OwnSteps /\ CallSteps' <= CallSteps
  BY <1>0, <1>1, <1>3
<1> QED
  BY <1>0, <1>3, <1>4, LessSum DEF StepsLeft

(* Every step leaves fewer: the program has no loop in which it could stay, *)
(* whatever is in the file, whatever fails, and whatever the library says. *)
THEOREM ProgramRunsOut == Spec => []StepsCounted /\ StepsDecrease
<1>1. IInv => StepsCounted
  BY CountType DEF StepsCounted, StepsLeft
<1>2. IInv /\ [Next]_vars => [StepsLeft' < StepsLeft]_vars
  BY QuietDown, CountDown, CallDown, LibraryDown DEF Next, Step, Ended, Quiet
<1> QED
  BY <1>1, <1>2, Invariance, PTL DEF Spec, StepsDecrease
=============================================================================
