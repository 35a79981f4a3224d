------------------------- MODULE ModelSessionProofs -------------------------
(***************************************************************************)
(* Memory safety of forward, and what its answers are worth, proved for    *)
(* any width of size_t, any model input and any number of threads.         *)
(***************************************************************************)
EXTENDS ModelSession, TLAPS

USE SessionAssumption DEF SessionAssumption

-----------------------------------------------------------------------------
(* Arithmetic of sizes.                                                    *)

(* A number that is at most a quotient, times the divisor.                 *)
LEMMA DivBound ==
  ASSUME NEW m \in Nat, NEW d \in Nat \ {0}, NEW a \in Nat, a <= m \div d
  PROVE  a * d <= m
<1> DEFINE q == m \div d
<1>1. q \in Nat /\ q * d <= m
  BY Z3
<1>2. a * d <= q * d
  BY <1>1, Z3
<1> QED
  BY <1>1, <1>2

(* A product that fits does not wrap.                                      *)
LEMMA WrapFits ==
  ASSUME NEW n \in 0..SizeMax
  PROVE  Wrap(n) = n
BY DEF Wrap

LEMMA WrapType ==
  ASSUME NEW n \in Int
  PROVE  Wrap(n) \in 0..SizeMax
BY DEF Wrap

(* What checked_bytes_for_float_tensor lets through is computed exactly.   *)
LEMMA BytesExact ==
  ASSUME NEW rows \in Nat, NEW cols \in Nat, ~Overflows(rows, cols)
  PROVE  /\ Bytes(rows, cols) = TrueBytes(rows, cols)
         /\ TrueBytes(rows, cols) \in 0..SizeMax
<1> DEFINE elements == rows * cols
<1>1. elements \in 0..SizeMax
  <2>1. CASE cols = 0
    BY <2>1
  <2>2. CASE cols # 0
    <3>1. rows <= SizeMax \div cols
      BY <2>2, Z3 DEF Overflows
    <3> QED
      BY <2>2, <3>1, DivBound, Z3
  <2> QED
    BY <2>1, <2>2
<1>2. Wrap(elements) = elements
  BY <1>1, WrapFits
<1>3. elements <= SizeMax \div FloatBytes
  BY <1>1, <1>2, Z3 DEF Overflows
<1>4. elements * FloatBytes \in 0..SizeMax
  BY <1>1, <1>3, DivBound, Z3
<1>5. Wrap(elements * FloatBytes) = elements * FloatBytes
  BY <1>4, WrapFits
<1> QED
  BY <1>2, <1>4, <1>5 DEF Bytes, TrueBytes

LEMMA BytesType ==
  ASSUME NEW rows \in Int, NEW cols \in Int
  PROVE  Bytes(rows, cols) \in 0..SizeMax
<1>1. Wrap(rows * cols) \in 0..SizeMax
  BY WrapType
<1> QED
  BY <1>1, WrapType DEF Bytes

(* A product within a bound has a factor within the quotient.              *)
LEMMA QuotientBound ==
  ASSUME NEW m \in Nat, NEW d \in Nat \ {0}, NEW a \in Nat, a * d <= m
  PROVE  a <= m \div d
<1> DEFINE q == m \div d
<1>1. q \in Nat /\ m < (q + 1) * d
  BY Z3
<1>2. ASSUME q + 1 <= a PROVE FALSE
  <2>1. (q + 1) * d <= a * d
    BY <1>1, <1>2, Z3
  <2> HIDE DEF q
  <2> QED
    BY <1>1, <2>1, Z3
<1> HIDE DEF q
<1>3. a <= q
  BY <1>1, <1>2
<1> QED
  BY <1>3 DEF q

(* The checks of checked_bytes_for_float_tensor, divisions of size_t that  *)
(* may wrap, refuse exactly the shapes whose bytes no size_t can hold, and *)
(* what they let through is computed without a wrap.                       *)
THEOREM OverflowChecksExact ==
  ASSUME NEW rows \in Nat, NEW cols \in Nat
  PROVE  /\ Overflows(rows, cols) <=> TrueBytes(rows, cols) > SizeMax
         /\ ~Overflows(rows, cols) => Bytes(rows, cols) = TrueBytes(rows, cols)
<1>1. ~Overflows(rows, cols) =>
        /\ Bytes(rows, cols) = TrueBytes(rows, cols)
        /\ TrueBytes(rows, cols) \in 0..SizeMax
  BY BytesExact
<1>2. ASSUME TrueBytes(rows, cols) <= SizeMax
      PROVE  ~Overflows(rows, cols)
  <2> DEFINE elements == rows * cols
  <2>1. elements \in Nat /\ elements * FloatBytes <= SizeMax
    BY <1>2, Z3 DEF TrueBytes
  <2>2. elements <= elements * FloatBytes
    BY <2>1, Z3
  <2>3. elements \in 0..SizeMax /\ Wrap(elements) = elements
    BY <2>1, <2>2, WrapFits, Z3
  <2>4. cols # 0 => rows <= SizeMax \div cols
    BY <2>3, QuotientBound
  <2>5. elements <= SizeMax \div FloatBytes
    BY <2>1, QuotientBound
  <2>6. ~(cols # 0 /\ rows > SizeMax \div cols)
    BY <2>4, Z3
  <2>7. ~(Wrap(elements) > SizeMax \div FloatBytes)
    BY <2>1, <2>3, <2>5, Z3
  <2> QED
    BY <2>6, <2>7 DEF Overflows
<1>3. TrueBytes(rows, cols) \in Nat
  BY Z3 DEF TrueBytes
<1> QED
  BY <1>1, <1>2, <1>3

(* If the input fits into memory, so does the output, which has one column.*)
LEMMA OutputFits ==
  ASSUME NEW rows \in Int, TrueBytes(rows, NumFeatures) \in 0..SizeMax
  PROVE  /\ rows \in Nat
         /\ Bytes(rows, 1) = TrueBytes(rows, 1)
         /\ TrueBytes(rows, 1) \in 0..SizeMax
<1>1. rows \in Nat
  BY Z3 DEF TrueBytes
<1>2. rows * FloatBytes \in 0..rows * NumFeatures * FloatBytes
  BY <1>1, Z3
<1>3. rows \in 0..SizeMax /\ rows * FloatBytes \in 0..SizeMax
  BY <1>1, <1>2, Z3 DEF TrueBytes
<1>4. Wrap(rows * 1) = rows /\ Wrap(rows * FloatBytes) = rows * FloatBytes
  BY <1>3, WrapFits
<1> QED
  BY <1>1, <1>3, <1>4 DEF Bytes, TrueBytes

-----------------------------------------------------------------------------
(* Type correctness.                                                       *)

LEMMA InitIInv == Init => IInv
<1> SUFFICES ASSUME Init PROVE IInv
  OBVIOUS
<1>1. NoInput \in Input /\ NoOutput \in Output
  BY DEF NoInput, NoOutput, Input, Output
<1>2. TypeOK
  BY <1>1 DEF Init, TypeOK, Codes, PC
<1>3. MemorySafe /\ RetrySucceeds /\ RaceFree /\ ErrorTells
  BY DEF Init, MemorySafe, RetrySucceeds, RaceFree, ErrorTells, Writing
<1>4. MutexInv /\ HostInv /\ ErrorInv
  <2>1. MutexInv
    BY DEF Init, MutexInv
  <2>2. HostInv
    BY DEF Init, HostInv
  <2>3. ErrorInv
    BY DEF Init, ErrorInv
  <2> QED
    BY <2>1, <2>2, <2>3
<1>5. TensorInv
  <2>1. ASSUME NEW t \in Threads PROVE TensorOK(t)
    <3>1. pc[t] = "idle" /\ rc[t] = 0 /\ retry[t] = FALSE
      BY DEF Init
    <3> QED
      BY <3>1 DEF TensorOK
  <2> QED
    BY <2>1 DEF TensorInv
<1> QED
  BY <1>2, <1>3, <1>4, <1>5 DEF IInv

(* A write leaves the code, or a torn string, and only in its own session. *)
LEMMA WrittenType ==
  ASSUME TypeOK, NEW t \in Threads, NEW code \in Codes,
         NEW e \in Written(t, code)
  PROVE  /\ e \in [Handles -> Codes \cup {Torn}]
         /\ \A h \in Handles \ {on[t]} : e[h] = last_error[h]
BY DEF Written, TypeOK

LEMMA ReturnType ==
  ASSUME TypeOK, NEW t \in Threads, NEW code \in Codes, Return(t, code)
  PROVE  /\ pc' \in [Threads -> PC]
         /\ rc' \in [Threads -> Codes]
         /\ input' \in [Threads -> Input]
         /\ output' \in [Threads -> Output]
         /\ retry' \in [Threads -> BOOLEAN]
<1>1. NoInput \in Input /\ NoOutput \in Output
  BY DEF NoInput, NoOutput, Input, Output
<1> QED
  BY <1>1 DEF Return, TypeOK, PC

LEMMA TypeStep == TypeOK /\ [Next]_vars => TypeOK'
<1> SUFFICES ASSUME TypeOK, [Next]_vars PROVE TypeOK'
  OBVIOUS
<1>1. ASSUME NEW t \in Threads, NEW h \in Handles,
             Create(t, h) \/ Destroy(t, h)
      PROVE  TypeOK'
  BY <1>1 DEF Create, Destroy, TypeOK, Codes
<1>2. ASSUME NEW t \in Threads, NEW h \in Handles,
             CallC(t, h) \/ CallCpp(t, h)
      PROVE  TypeOK'
  <2>1. Inputs \subseteq Input
    <3>1. 0 \in 0..SizeMax /\ 0 \in Int
      OBVIOUS
    <3>2. NoInput \in Input
      BY <3>1 DEF NoInput, Input
    <3>3. [valid : {TRUE}, rows : Batches, null : {FALSE}, bytes : BufferSizes]
            \subseteq Input
      BY DEF Input
    <3>4. [valid : {TRUE}, rows : Batches, null : {TRUE}, bytes : BufferSizes]
            \subseteq Input
      BY DEF Input
    <3> QED
      BY <3>2, <3>3, <3>4 DEF Inputs
  <2>2. input' \in [Threads -> Input]
    BY <1>2, <2>1 DEF CallC, CallCpp, TypeOK
  <2>3. \A size \in BufferSizes, null \in BOOLEAN :
          [null |-> null, bytes |-> size, room |-> IF null THEN 0 ELSE size] \in Output
    BY DEF Output
  <2>4. NoOutput \in Output
    BY DEF NoOutput, Output
  <2>5. output' \in [Threads -> Output]
    BY <1>2, <2>3, <2>4 DEF CallC, CallCpp, TypeOK
  <2> QED
    BY <1>2, <2>2, <2>5 DEF CallC, CallCpp, TypeOK, PC
<1>3. ASSUME NEW t \in Threads, Retry(t)
      PROVE  TypeOK'
  <2>1. [null |-> FALSE, bytes |-> output[t].bytes, room |-> output[t].bytes] \in Output
    BY DEF TypeOK, Output
  <2> QED
    BY <1>3, <2>1 DEF Retry, TypeOK, PC
<1>4. ASSUME NEW t \in Threads, Accept(t) \/ RejectC(t)
      PROVE  TypeOK'
  <2>1. CheckC(input[t]) \in Codes
    BY DEF CheckC, Codes
  <2> QED
    BY <1>4, <2>1 DEF Accept, RejectC, TypeOK, PC
<1>5. ASSUME NEW t \in Threads, RejectCpp(t)
      PROVE  TypeOK'
  BY <1>5, ReturnType DEF RejectCpp, Throws, TypeOK, Codes
<1>6. ASSUME NEW t \in Threads, Lock(t) \/ Run(t)
      PROVE  TypeOK'
  BY <1>6 DEF Lock, Run, MuAfterRun, TypeOK, PC
<1>7. ASSUME NEW t \in Threads, RunThrows(t)
      PROVE  TypeOK'
  <2>1. forward_mu' \in [Handles -> Threads \cup {NoThread}]
    BY <1>7 DEF RunThrows, MuAfterThrow, TypeOK
  <2>2. CASE api[t] = "c" /\ pc' = [pc EXCEPT ![t] = "fail"]
             /\ rc' = [rc EXCEPT ![t] = -2]
             /\ UNCHANGED <<last_error, input, output, retry, outcome, answered>>
    BY <1>7, <2>1, <2>2 DEF RunThrows, TypeOK, PC, Codes
  <2>3. CASE Throws(t)
    BY <1>7, <2>1, <2>3, ReturnType DEF RunThrows, Throws, TypeOK, Codes
  <2> QED
    BY <1>7, <2>2, <2>3 DEF RunThrows
<1>8. ASSUME NEW t \in Threads, Clear(t)
      PROVE  TypeOK'
  <2>1. last_error' \in [Handles -> Codes \cup {Torn}]
    BY <1>8, WrittenType DEF Clear, ClearedByForward, Codes
  <2>2. forward_mu' \in [Handles -> Threads \cup {NoThread}]
    BY <1>8 DEF Clear, TypeOK
  <2>3. CASE pc' = [pc EXCEPT ![t] = "answer"]
             /\ UNCHANGED <<input, output, rc, retry, outcome, answered>>
    BY <1>8, <2>1, <2>2, <2>3 DEF Clear, TypeOK, PC
  <2>4. CASE Answered(t, 0)
    BY <1>8, <2>1, <2>2, <2>4, ReturnType DEF Clear, Answered, TypeOK, Codes
  <2> QED
    BY <1>8, <2>3, <2>4 DEF Clear
<1>9. ASSUME NEW t \in Threads, Answer(t)
      PROVE  TypeOK'
  <2>1. Bytes(input[t].rows, 1) \in 0..SizeMax
    <3>1. input[t].rows \in Int
      BY DEF TypeOK, Input
    <3>2. \A cols \in Int : Bytes(input[t].rows, cols) \in 0..SizeMax
      BY <3>1, BytesType
    <3> QED
      BY <3>2
  <2>2. Filled(output[t], input[t].rows) \in Output
    BY <2>1 DEF Filled, TypeOK, Output
  <2>3. rc' \in [Threads -> Codes]
    BY <1>9 DEF Answer, TypeOK, Codes
  <2> QED
    BY <1>9, <2>2, <2>3 DEF Answer, TypeOK, PC
<1>10. ASSUME NEW t \in Threads, Succeed(t) \/ Fail(t)
       PROVE  TypeOK'
  <2>1. PICK code \in Codes :
          /\ Answered(t, code) /\ last_error' \in Written(t, code)
          /\ UNCHANGED <<discipline, live, forward_mu, api, on>>
    BY <1>10 DEF Succeed, Fail, TypeOK, Codes
  <2> QED
    BY <2>1, ReturnType, WrittenType DEF Answered, TypeOK
<1>11. CASE UNCHANGED vars
  BY <1>11 DEF vars, TypeOK
<1> QED
  BY <1>1, <1>2, <1>3, <1>4, <1>5, <1>6, <1>7, <1>8, <1>9, <1>10, <1>11
  DEF Next, Begin, Continue

-----------------------------------------------------------------------------
(* One thread at a time.                                                   *)

(* A step of one thread is no step of another.                             *)
LEMMA OtherThreads ==
  ASSUME TypeOK, NEW t \in Threads, Begin(t) \/ Continue(t)
  PROVE  /\ UNCHANGED discipline
         /\ \A u \in Threads \ {t} :
              /\ pc'[u] = pc[u] /\ api'[u] = api[u] /\ on'[u] = on[u]
              /\ input'[u] = input[u] /\ output'[u] = output[u]
              /\ rc'[u] = rc[u] /\ retry'[u] = retry[u]
<1>1. CASE Begin(t)
  BY <1>1 DEF Begin, Create, Destroy, CallC, CallCpp, Retry, TypeOK
<1>2. CASE Accept(t) \/ RejectC(t) \/ Lock(t) \/ Run(t) \/ Answer(t)
  BY <1>2 DEF Accept, RejectC, Lock, Run, Answer, TypeOK
<1>3. CASE RejectCpp(t) \/ Succeed(t) \/ Fail(t)
  BY <1>3 DEF RejectCpp, Succeed, Fail, Throws, Answered, Return, TypeOK
<1>4. CASE RunThrows(t) \/ Clear(t)
  BY <1>4 DEF RunThrows, Clear, Throws, Answered, Return, TypeOK
<1> QED
  BY <1>1, <1>2, <1>3, <1>4 DEF Continue

(* A thread that returns keeps its tensors only if it was refused.         *)
LEMMA ReturnTensor ==
  ASSUME TypeOK, NEW t \in Threads, NEW code \in Codes, Return(t, code),
         UNCHANGED api,
         code = -3 => api[t] = "c" /\ output[t].bytes = Bytes(input[t].rows, 1)
  PROVE  TensorOK(t)'
<1>1. /\ pc'[t] = "idle" /\ rc'[t] = code /\ retry'[t] = FALSE
      /\ code = -3 => input'[t] = input[t] /\ output'[t] = output[t]
  BY DEF Return, TypeOK
<1> QED
  BY <1>1 DEF TensorOK

(* An accepted input has the bytes of its shape.                           *)
LEMMA AcceptedFits ==
  ASSUME NEW in \in Input, CheckC(in) = 0 \/ (CheckCpp(in) = 0 /\ ~in.null)
  PROVE  TrueBytes(in.rows, NumFeatures) \in 0..Room(in)
<1> DEFINE rows == in.rows
           need == Bytes(rows, NumFeatures)
<1>1. rows \in Nat /\ ~Overflows(rows, NumFeatures)
  BY DEF CheckC, CheckCpp, Input
<1>2. need = TrueBytes(rows, NumFeatures) /\ need \in Nat
  BY <1>1, BytesExact
<1>3. need <= in.bytes /\ (in.null => need = 0)
  <2>1. CASE CheckC(in) = 0
    BY <1>1, <1>2, <2>1 DEF CheckC, Input
  <2>2. CASE CheckCpp(in) = 0 /\ ~in.null
    BY <1>1, <1>2, <2>2 DEF CheckCpp, Input
  <2> QED
    BY <2>1, <2>2
<1> HIDE DEF need
<1> QED
  BY <1>2, <1>3 DEF Room, Input

(* The thread that takes a step knows its tensors after it.                *)
LEMMA OwnTensor ==
  ASSUME TypeOK, TensorInv, NEW t \in Threads, Begin(t) \/ Continue(t)
  PROVE  TensorOK(t)'
<1>0. TensorOK(t)
  BY DEF TensorInv
<1>1. ASSUME NEW h \in Handles, Create(t, h) \/ Destroy(t, h)
      PROVE  TensorOK(t)'
  <2>1. UNCHANGED <<pc, api, input, output, rc, retry>>
    BY <1>1 DEF Create, Destroy
  <2> QED
    BY <1>0, <2>1 DEF TensorOK
<1>2. ASSUME NEW h \in Handles, CallC(t, h)
      PROVE  TensorOK(t)'
  <2>1. PICK size \in BufferSizes, null \in BOOLEAN :
          output'[t] =
            [null |-> null, bytes |-> size, room |-> IF null THEN 0 ELSE size]
    BY <1>2 DEF CallC, TypeOK
  <2>2. pc[t] = "idle" /\ pc'[t] = "check" /\ api'[t] = "c" /\ retry' = retry
    BY <1>2 DEF CallC, TypeOK
  <2>3. output'[t].room = IF output'[t].null THEN 0 ELSE output'[t].bytes
    BY <2>1
  <2> QED
    BY <1>0, <2>2, <2>3 DEF TensorOK
<1>3. ASSUME NEW h \in Handles, CallCpp(t, h)
      PROVE  TensorOK(t)'
  <2>1. PICK in \in Inputs : ~in.null /\ input'[t] = in
    BY <1>3 DEF CallCpp, TypeOK
  <2>2. pc[t] = "idle" /\ pc'[t] = "check" /\ retry' = retry /\ output'[t] = NoOutput
    BY <1>3 DEF CallCpp, TypeOK
  <2>3. output'[t].room = IF output'[t].null THEN 0 ELSE output'[t].bytes
    BY <2>2 DEF NoOutput
  <2> QED
    BY <1>0, <2>1, <2>2, <2>3 DEF TensorOK
<1>4. CASE Retry(t)
  <2>1. /\ pc'[t] = "check" /\ input'[t] = input[t] /\ retry'[t] = TRUE
        /\ output'[t] =
             [null |-> FALSE, bytes |-> output[t].bytes, room |-> output[t].bytes]
        /\ output[t].bytes = Bytes(input[t].rows, 1)
        /\ api'[t] = api[t] /\ rc'[t] = -3
    BY <1>0, <1>4 DEF Retry, TypeOK, TensorOK
  <2>2. /\ output'[t].null = FALSE
        /\ output'[t].bytes = Bytes(input'[t].rows, 1)
        /\ output'[t].room = output'[t].bytes
    BY <2>1
  <2>3. api'[t] = "c"
    BY <1>0, <1>4, <2>1 DEF Retry, TensorOK
  <2> QED
    BY <2>1, <2>2, <2>3 DEF TensorOK
<1>5. CASE Accept(t)
  <2>1. /\ pc[t] = "check" /\ pc'[t] = "lock"
        /\ UNCHANGED <<api, input, output, rc, retry>>
    BY <1>5 DEF Accept, TypeOK
  <2>2. CheckC(input[t]) = 0 \/ (CheckCpp(input[t]) = 0 /\ ~input[t].null)
    BY <1>0, <1>5 DEF Accept, TensorOK, TypeOK
  <2>3. TrueBytes(input[t].rows, NumFeatures) \in 0..Room(input[t])
    BY <2>2, AcceptedFits DEF TypeOK
  <2> QED
    BY <1>0, <2>1, <2>3 DEF TensorOK
<1>6. CASE RejectC(t)
  <2>1. /\ pc'[t] = "fail" /\ rc'[t] # -3 /\ api'[t] = "c"
        /\ UNCHANGED <<input, output, retry>>
    BY <1>6 DEF RejectC, CheckC, TypeOK
  <2> QED
    BY <2>1 DEF TensorOK
<1>7. CASE RejectCpp(t)
  BY <1>7, ReturnTensor DEF RejectCpp, Throws, Codes
<1>8. CASE Lock(t) \/ Run(t)
  <2>1. /\ pc[t] \in {"lock", "run"} /\ pc'[t] \in {"run", "clear"}
        /\ UNCHANGED <<api, input, output, rc, retry>>
    BY <1>8 DEF Lock, Run, TypeOK
  <2> QED
    BY <1>0, <2>1 DEF TensorOK
<1>9. CASE RunThrows(t)
  <2>1. CASE /\ api[t] = "c" /\ pc' = [pc EXCEPT ![t] = "fail"]
             /\ rc' = [rc EXCEPT ![t] = -2] /\ UNCHANGED <<api, input, output, retry>>
    <3>1. pc'[t] = "fail" /\ rc'[t] = -2 /\ api'[t] = "c"
      BY <2>1 DEF TypeOK
    <3> QED
      BY <3>1 DEF TensorOK
  <2>2. CASE Return(t, -2)
    BY <1>9, <2>2, ReturnTensor DEF RunThrows, Codes
  <2> QED
    BY <1>9, <2>1, <2>2 DEF RunThrows, Throws
<1>10. CASE Clear(t)
  <2>1. CASE /\ api[t] = "c" /\ pc' = [pc EXCEPT ![t] = "answer"]
             /\ UNCHANGED <<api, input, output, rc, retry>>
    <3>1. pc[t] = "clear" /\ pc'[t] = "answer"
      BY <1>10, <2>1 DEF Clear, TypeOK
    <3> QED
      BY <1>0, <2>1, <3>1 DEF TensorOK
  <2>2. CASE Return(t, 0)
    BY <1>10, <2>2, ReturnTensor DEF Clear, Codes
  <2> QED
    BY <1>10, <2>1, <2>2 DEF Clear, Answered
<1>11. CASE Answer(t)
  <2> DEFINE rows == input[t].rows
  <2>1. /\ pc[t] = "answer" /\ api[t] = "c"
        /\ UNCHANGED <<api, input, retry>>
        /\ output' = [output EXCEPT ![t] = Filled(output[t], rows)]
    BY <1>0, <1>11 DEF Answer, TensorOK
  <2>2. rows \in Int /\ TrueBytes(rows, NumFeatures) \in 0..Room(input[t])
    BY <1>0, <2>1 DEF TensorOK, TypeOK, Input
  <2>3. TrueBytes(rows, NumFeatures) \in 0..SizeMax
    <3>1. Room(input[t]) \in 0..SizeMax
      BY DEF Room, TypeOK, Input
    <3> QED
      BY <2>2, <3>1
  <2>4. Bytes(rows, 1) = TrueBytes(rows, 1) /\ Bytes(rows, 1) \in 0..SizeMax
    BY <2>2, <2>3, OutputFits
  <2>5. /\ output[t] \in Output
        /\ output[t].room = IF output[t].null THEN 0 ELSE output[t].bytes
        /\ retry[t] => ~output[t].null /\ output[t].bytes = Bytes(rows, 1)
    BY <1>0, <2>1 DEF TensorOK, TypeOK
  <2>6. /\ output'[t].null = output[t].null
        /\ output'[t].room = output[t].room
        /\ output'[t].bytes = Bytes(rows, 1)
        /\ Filled(output[t], rows).bytes = Bytes(rows, 1)
    BY <2>1, <2>5 DEF Filled, TypeOK, Output
  <2>7. CASE NoRoom(t)
    <3>1. pc'[t] = "fail" /\ rc'[t] = -3
      BY <1>11, <2>7 DEF Answer, TypeOK
    <3>2. ~retry[t]
      BY <2>4, <2>5, <2>6, <2>7 DEF NoRoom, Capacity
    <3> QED
      BY <2>1, <2>6, <3>1, <3>2 DEF TensorOK
  <2>8. CASE ~NoRoom(t)
    <3>1. pc'[t] = "succeed" /\ rc' = rc
      BY <1>11, <2>8 DEF Answer, TypeOK
    <3>2. Bytes(rows, 1) <= output[t].room
      BY <2>4, <2>5, <2>6, <2>8 DEF NoRoom, Capacity, Output
    <3>3. TrueBytes(rows, 1) \in 0..output'[t].room
      <4>1. output[t].room \in Int
        BY <2>5 DEF Output
      <4> HIDE DEF rows
      <4> QED
        BY <2>4, <2>6, <3>2, <4>1
    <3> QED
      BY <2>1, <2>2, <3>1, <3>3 DEF TensorOK
  <2> QED
    BY <2>7, <2>8
<1>12. CASE Succeed(t)
  BY <1>12, ReturnTensor DEF Succeed, Answered, Codes
<1>13. CASE Fail(t)
  <2>1. rc[t] \in Codes /\ Return(t, rc[t])
    BY <1>13 DEF Fail, Answered, TypeOK
  <2>2. rc[t] = -3 => api[t] = "c" /\ output[t].bytes = Bytes(input[t].rows, 1)
    BY <1>0, <1>13 DEF Fail, TensorOK
  <2> QED
    BY <1>13, <2>1, <2>2, ReturnTensor DEF Fail
<1> QED
  BY <1>1, <1>2, <1>3, <1>4, <1>5, <1>6, <1>7, <1>8, <1>9, <1>10, <1>11, <1>12,
     <1>13
  DEF Begin, Continue

LEMMA TensorStep ==
  ASSUME TypeOK, TensorInv, [Next]_vars
  PROVE  TensorInv'
<1>1. ASSUME NEW t \in Threads, Begin(t) \/ Continue(t)
      PROVE  TensorInv'
  <2>1. TensorOK(t)'
    BY <1>1, OwnTensor
  <2>2. ASSUME NEW u \in Threads \ {t}
        PROVE  TensorOK(u)'
    <3>1. TensorOK(u)
      BY DEF TensorInv
    <3>2. /\ pc'[u] = pc[u] /\ api'[u] = api[u]
          /\ input'[u] = input[u] /\ output'[u] = output[u]
          /\ rc'[u] = rc[u] /\ retry'[u] = retry[u]
      BY <1>1, OtherThreads
    <3> QED
      BY <3>1, <3>2 DEF TensorOK
  <2> QED
    BY <2>1, <2>2 DEF TensorInv
<1>2. CASE UNCHANGED vars
  BY <1>2 DEF vars, TensorInv, TensorOK
<1> QED
  BY <1>1, <1>2 DEF Next

(* forward_mu has one holder, who is under way in a call of its session.   *)
LEMMA MutexStep ==
  ASSUME TypeOK, MutexInv, HostInv, [Next]_vars
  PROVE  MutexInv'
<1>1. ASSUME NEW t \in Threads, Begin(t) \/ Continue(t)
      PROVE  MutexInv'
  <2>0. \A u \in Threads \ {t} : pc'[u] = pc[u] /\ on'[u] = on[u]
    BY <1>1, OtherThreads
  <2>1. CASE \/ Begin(t) \/ Accept(t) \/ RejectC(t) \/ RejectCpp(t)
             \/ Answer(t) \/ Succeed(t) \/ Fail(t)
    <3>1. /\ pc[t] \notin {"run", "clear"} /\ pc'[t] \notin {"run", "clear"}
          /\ \/ forward_mu' = forward_mu
             \/ \E h \in Handles \ live :
                  forward_mu' = [forward_mu EXCEPT ![h] = NoThread]
      BY <2>1 DEF Begin, Create, Destroy, CallC, CallCpp, Retry, Accept, RejectC,
                  RejectCpp, Answer, Succeed, Fail, Throws, Answered, Return,
                  TypeOK
    <3>2. \A u \in Threads : pc[u] # "idle" => on[u] \in live
      BY DEF HostInv
    <3>3. \A u \in Threads \ {t} : pc'[u] \in {"run", "clear"} => forward_mu'[on'[u]] = u
      BY <2>0, <3>1, <3>2 DEF MutexInv, TypeOK
    <3>4. \A h \in Handles : forward_mu'[h] # NoThread =>
            /\ forward_mu'[h] = forward_mu[h]
            /\ forward_mu[h] \in Threads \ {t}
      BY <3>1 DEF MutexInv, TypeOK
    <3> QED
      BY <2>0, <3>1, <3>3, <3>4 DEF MutexInv
  <2>2. CASE Lock(t)
    <3>1. /\ forward_mu[on[t]] = NoThread /\ on[t] \in Handles
          /\ forward_mu' = [forward_mu EXCEPT ![on[t]] = t]
          /\ pc'[t] = "run" /\ on' = on
      BY <2>2 DEF Lock, TypeOK
    <3>2. \A u \in Threads \ {t} : pc[u] \in {"run", "clear"} => on[u] # on[t]
      BY <3>1 DEF MutexInv, TypeOK
    <3> QED
      BY <2>0, <3>1, <3>2 DEF MutexInv, TypeOK
  <2>3. CASE Run(t)
    <3>1. /\ forward_mu[on[t]] = t /\ forward_mu' = forward_mu
          /\ pc'[t] = "clear" /\ on' = on
      BY <2>3 DEF Run, MuAfterRun, MutexInv, TypeOK
    <3> QED
      BY <2>0, <3>1 DEF MutexInv, TypeOK
  <2>4. CASE RunThrows(t) \/ Clear(t)
    <3>1. /\ forward_mu[on[t]] = t /\ on[t] \in Handles
          /\ forward_mu' = [forward_mu EXCEPT ![on[t]] = NoThread]
          /\ pc'[t] \notin {"run", "clear"} /\ on' = on
      BY <2>4 DEF RunThrows, Clear, MuAfterThrow, Throws, Answered, Return, MutexInv,
                  TypeOK
    <3>2. \A u \in Threads \ {t} : pc[u] \in {"run", "clear"} => on[u] # on[t]
      BY <3>1 DEF MutexInv
    <3>3. \A h \in Handles : forward_mu'[h] # NoThread =>
            h # on[t] /\ forward_mu'[h] = forward_mu[h] /\ forward_mu[h] # t
      BY <3>1 DEF MutexInv, TypeOK
    <3> QED
      BY <2>0, <3>1, <3>2, <3>3 DEF MutexInv, TypeOK
  <2> QED
    BY <1>1, <2>1, <2>2, <2>3, <2>4 DEF Continue
<1>2. CASE UNCHANGED vars
  BY <1>2 DEF vars, MutexInv
<1> QED
  BY <1>1, <1>2 DEF Next

(* The host keeps its discipline by the guards of its own calls.           *)
LEMMA HostStep ==
  ASSUME TypeOK, HostInv, TensorInv, [Next]_vars
  PROVE  HostInv'
<1>1. ASSUME NEW t \in Threads, Begin(t) \/ Continue(t)
      PROVE  HostInv'
  <2>0. /\ discipline' = discipline
        /\ \A u \in Threads \ {t} :
             pc'[u] = pc[u] /\ on'[u] = on[u] /\ api'[u] = api[u]
    BY <1>1, OtherThreads
  <2>1. CASE Continue(t)
    <3>1. pc[t] # "idle" /\ UNCHANGED <<live, on, api>>
      BY <2>1 DEF Continue, Accept, RejectC, RejectCpp, Lock, Run, RunThrows, Clear,
                  Answer, Succeed, Fail
    <3> QED
      BY <2>0, <3>1 DEF HostInv
  <2>2. ASSUME NEW h \in Handles, Create(t, h) \/ Destroy(t, h)
        PROVE  HostInv'
    <3>1. /\ UNCHANGED <<pc, on, api>>
          /\ live' = live \cup {h} \/ (live' = live \ {h} /\ Users(h) = {})
      BY <2>2 DEF Create, Destroy
    <3> QED
      BY <2>0, <3>1 DEF HostInv, Users
  <2>3. ASSUME NEW h \in Handles, NEW a \in {"c", "cpp"},
               MayCall(h, a), pc[t] = "idle", on'[t] = h, api'[t] = a,
               UNCHANGED live
        PROVE  HostInv'
    <3>1. \A u \in Threads : pc'[u] # "idle" => on'[u] \in live'
      BY <2>0, <2>3 DEF HostInv, MayCall
    <3>2. discipline' = "serial" =>
            \A u \in Threads \ {t} : pc'[u] # "idle" => on'[u] # on'[t]
      BY <2>0, <2>3 DEF MayCall, Users
    <3>3. discipline' = "forwarders" => api'[t] = "cpp"
      BY <2>0, <2>3 DEF MayCall
    <3> QED
      BY <2>0, <3>1, <3>2, <3>3 DEF HostInv
  <2>4. CASE Retry(t) \/ \E h \in Handles : CallC(t, h) \/ CallCpp(t, h)
    <3>1. CASE Retry(t)
      <4>1. api[t] = "c"
        BY <3>1 DEF Retry, TensorInv, TensorOK
      <4> QED
        BY <2>3, <3>1, <4>1 DEF Retry, TypeOK
    <3>2. CASE \E h \in Handles : CallC(t, h) \/ CallCpp(t, h)
      BY <2>3, <3>2 DEF CallC, CallCpp, TypeOK
    <3> QED
      BY <2>4, <3>1, <3>2
  <2> QED
    BY <1>1, <2>1, <2>2, <2>4 DEF Begin
<1>2. CASE UNCHANGED vars
  BY <1>2 DEF vars, HostInv, Users
<1> QED
  BY <1>1, <1>2 DEF Next

-----------------------------------------------------------------------------
(* What follows from it.                                                   *)

LEMMA TensorConsequences ==
  ASSUME TensorInv
  PROVE  MemorySafe /\ RetrySucceeds
<1>1. MemorySafe
  BY DEF TensorInv, TensorOK, MemorySafe
<1>2. RetrySucceeds
  BY DEF TensorInv, TensorOK, RetrySucceeds
<1> QED
  BY <1>1, <1>2

(* Forwarders write last_error only with forward_mu.                       *)
LEMMA NoRace ==
  ASSUME TypeOK, MutexInv, HostInv, TensorInv
  PROVE  RaceFree
<1> SUFFICES ASSUME discipline # "free", NEW t \in Threads, NEW u \in Threads,
                    t # u, Writing(t), Writing(u)
             PROVE  on[t] # on[u]
  BY DEF RaceFree
<1>1. CASE discipline = "serial"
  BY <1>1 DEF HostInv, Writing
<1>2. CASE discipline = "forwarders"
  <2>1. \A v \in Threads : Writing(v) => forward_mu[on[v]] = v
    BY <1>2 DEF Writing, HostInv, TensorInv, TensorOK, MutexInv
  <2> QED
    BY <2>1
<1> QED
  BY <1>1, <1>2 DEF TypeOK

LEMMA MessageAtRest ==
  ASSUME TypeOK, ErrorInv
  PROVE  ErrorTells
BY DEF ErrorInv, ErrorTells, TypeOK

(* Without a race a write leaves the message.                              *)
LEMMA CleanWrite ==
  ASSUME TypeOK, RaceFree, ErrorInv, discipline # "free",
         NEW t \in Threads, Writing(t), NEW code \in Codes,
         NEW e \in Written(t, code)
  PROVE  e = [last_error EXCEPT ![on[t]] = code]
<1>1. last_error[on[t]] # Torn
  BY DEF ErrorInv, TypeOK, Codes, Torn
<1>2. \A u \in Threads \ {t} : ~(Writing(u) /\ on[u] = on[t])
  BY DEF RaceFree
<1> QED
  BY <1>1, <1>2 DEF Written

LEMMA ErrorStep ==
  ASSUME IInv, TypeOK', [Next]_vars
  PROVE  ErrorInv'
<1> USE DEF IInv
<1> SUFFICES ASSUME discipline' # "free" PROVE ErrorInv'
  BY DEF ErrorInv
<1> DEFINE Last(t) == pc[t] \in {"answer", "succeed", "fail"}
<1>1. ASSUME NEW t \in Threads, Begin(t) \/ Continue(t)
      PROVE  ErrorInv'
  <2>0. /\ discipline = discipline' /\ discipline # "free"
        /\ \A u \in Threads \ {t} : pc'[u] = pc[u] /\ on'[u] = on[u]
    BY <1>1, OtherThreads
  <2>1. ASSUME UNCHANGED <<last_error, answered>>,
               outcome' = outcome \/ outcome' = [outcome EXCEPT ![on[t]] = Thrown],
               Last(t) => Last(t)' /\ on'[t] = on[t]
        PROVE  ErrorInv'
    <3>1. \A h \in Handles : \A u \in Users(h) : Last(u) => u \in Users(h)' /\ Last(u)'
      BY <2>0, <2>1 DEF Users
    <3>2. \A h \in Handles : outcome'[h] \in {outcome[h], Thrown}
      BY <2>1 DEF TypeOK
    <3> QED
      BY <2>0, <2>1, <3>1, <3>2 DEF ErrorInv
  <2>2. ASSUME NEW h \in Handles, NEW code \in Codes,
               last_error' = [last_error EXCEPT ![h] = code],
               outcome' = [outcome EXCEPT ![h] = code],
               answered' = [answered EXCEPT ![h] = code],
               Last(t) => on[t] = h
        PROVE  ErrorInv'
    <3>1. ASSUME NEW g \in Handles \ {h}
          PROVE  \A u \in Users(g) : Last(u) => u \in Users(g)' /\ Last(u)'
      BY <2>0, <2>2 DEF Users
    <3>2. last_error'[h] = answered'[h] /\ outcome'[h] = answered'[h]
      BY <2>2 DEF TypeOK
    <3>3. \A g \in Handles \ {h} :
            /\ last_error'[g] = last_error[g]
            /\ outcome'[g] = outcome[g] /\ answered'[g] = answered[g]
      BY <2>2 DEF TypeOK
    <3> QED
      BY <2>0, <3>1, <3>2, <3>3 DEF ErrorInv
  <2>3. ASSUME NEW h \in Handles, Create(t, h)
        PROVE  ErrorInv'
    BY <2>2, <2>3 DEF Create, Codes
  <2>4. ASSUME NEW h \in Handles, Destroy(t, h) \/ CallC(t, h) \/ CallCpp(t, h)
        PROVE  ErrorInv'
    BY <2>1, <2>4 DEF Destroy, CallC, CallCpp
  <2>5. CASE Retry(t) \/ Accept(t) \/ RejectC(t) \/ RejectCpp(t) \/ Lock(t)
             \/ Run(t) \/ RunThrows(t)
    BY <2>1, <2>5 DEF Retry, Accept, RejectC, RejectCpp, Lock, Run, RunThrows, Throws
  <2>6. CASE Answer(t)
    BY <2>1, <2>6 DEF Answer, TypeOK
  <2>7. CASE Clear(t)
    <3>1. last_error' = [last_error EXCEPT ![on[t]] = 0]
      BY <2>0, <2>7, CleanWrite DEF Clear, ClearedByForward, Writing, Codes
    <3>2. pc[t] = "clear" /\ on' = on /\ on[t] \in Handles
      BY <2>7 DEF Clear, TypeOK
    <3>3. CASE Answered(t, 0)
      BY <2>2, <3>1, <3>2, <3>3 DEF Answered, Codes
    <3>4. CASE pc' = [pc EXCEPT ![t] = "answer"] /\ UNCHANGED <<outcome, answered>>
      <4>1. t \in Users(on[t])' /\ Last(t)' /\ last_error'[on[t]] = 0
        BY <3>1, <3>2, <3>4 DEF Users, TypeOK
      <4>2. ASSUME NEW g \in Handles \ {on[t]}
            PROVE  /\ last_error'[g] = last_error[g]
                   /\ \A u \in Users(g) : Last(u) => u \in Users(g)' /\ Last(u)'
        <5>1. last_error'[g] = last_error[g]
          BY <3>1 DEF TypeOK
        <5>2. \A u \in Users(g) :
                (u # t /\ on[u] = g /\ pc[u] # "idle") \/ ~Last(u)
          BY <3>2 DEF Users
        <5>3. \A u \in Users(g) : Last(u) => u \in Users(g)' /\ Last(u)'
          BY <2>0, <5>2 DEF Users
        <5> QED
          BY <5>1, <5>3
      <4>3. ASSUME NEW g \in Handles
            PROVE  /\ outcome'[g] \in {answered'[g], Thrown}
                   /\ \/ last_error'[g] = answered'[g]
                      \/ last_error'[g] = 0 /\ \E u \in Users(g)' : Last(u)'
        <5>0. outcome'[g] \in {answered'[g], Thrown}
          BY <2>0, <3>4 DEF ErrorInv
        <5>1. CASE g = on[t]
          <6>1. last_error'[g] = 0
            BY <4>1, <3>2, <5>1
          <6>2. t \in Users(g)' /\ Last(t)'
            BY <3>2, <3>4, <5>1 DEF Users, TypeOK
          <6> QED
            BY <5>0, <6>1, <6>2
        <5>2. CASE g # on[t]
          <6>1. \/ last_error[g] = answered[g]
                \/ last_error[g] = 0 /\ \E u \in Users(g) : Last(u)
            BY <2>0 DEF ErrorInv
          <6> QED
            BY <3>4, <4>2, <5>0, <5>2, <6>1
        <5> QED
          BY <5>1, <5>2
      <4> QED
        BY <4>3 DEF ErrorInv
    <3> QED
      BY <2>7, <3>3, <3>4 DEF Clear
  <2>8. CASE Succeed(t) \/ Fail(t)
    <3>1. PICK code \in Codes :
            /\ last_error' \in Written(t, code)
            /\ outcome' = [outcome EXCEPT ![on[t]] = code]
            /\ answered' = [answered EXCEPT ![on[t]] = code]
      BY <2>8 DEF Succeed, Fail, Answered, TypeOK, Codes
    <3>2. Writing(t) /\ on[t] \in Handles
      BY <2>8 DEF Succeed, Fail, Writing, TypeOK
    <3>3. last_error' = [last_error EXCEPT ![on[t]] = code]
      BY <2>0, <3>1, <3>2, CleanWrite
    <3> QED
      BY <2>2, <3>1, <3>2, <3>3
  <2> QED
    BY <1>1, <2>3, <2>4, <2>5, <2>6, <2>7, <2>8 DEF Begin, Continue
<1>2. CASE UNCHANGED vars
  BY <1>2 DEF vars, ErrorInv, Users
<1> QED
  BY <1>1, <1>2 DEF Next

-----------------------------------------------------------------------------
(* The invariant.                                                          *)

LEMMA NextIInv == IInv /\ [Next]_vars => IInv'
<1> SUFFICES ASSUME IInv, [Next]_vars PROVE IInv'
  OBVIOUS
<1> USE DEF IInv
<1>1. TypeOK'
  BY TypeStep
<1>2. TensorInv'
  BY TensorStep
<1>3. MutexInv' /\ HostInv'
  BY MutexStep, HostStep
<1>4. MemorySafe' /\ RetrySucceeds'
  BY <1>2, TensorConsequences, PTL
<1>5. RaceFree'
  BY <1>1, <1>2, <1>3, NoRace, PTL
<1>6. ErrorInv'
  BY <1>1, ErrorStep
<1>7. ErrorTells'
  BY <1>1, <1>6, MessageAtRest, PTL
<1> QED
  BY <1>1, <1>2, <1>3, <1>4, <1>5, <1>6, <1>7

(* All of the conditions hold in every state.                              *)
THEOREM Invariance == Spec => []IInv
<1> QED
  BY InitIInv, NextIInv, PTL DEF Spec

(* forward reads and writes only inside the buffers it was given, for any  *)
(* width of size_t and any shape.                                          *)
THEOREM ForwardIsMemorySafe == Spec => []MemorySafe
<1>1. IInv => MemorySafe
  BY DEF IInv
<1> QED
  BY <1>1, Invariance, PTL

(* The room that a refusal asks for is enough.                             *)
THEOREM ToldRoomIsEnough == Spec => []RetrySucceeds
<1>1. IInv => RetrySucceeds
  BY DEF IInv
<1> QED
  BY <1>1, Invariance, PTL

(* Serial hosts and forwarders do not race on last_error.                  *)
THEOREM NoRaceOnLastError == Spec => []RaceFree
<1>1. IInv => RaceFree
  BY DEF IInv
<1> QED
  BY <1>1, Invariance, PTL

(* For them the message of a session at rest is that of its last call, or, *)
(* when calls of the C++ forward threw since, of the last that did not.    *)
THEOREM LastErrorIsLast == Spec => []ErrorTells
<1>1. IInv => ErrorTells
  BY DEF IInv
<1> QED
  BY <1>1, Invariance, PTL
-----------------------------------------------------------------------------
(* The converse: what is refused had to be.                                *)

(* Whatever the host does with its threads and sessions, the model of a    *)
(* session runs in one call at a time.                                     *)
THEOREM OneRunAtATime == Spec => []OneRun
<1>1. IInv => OneRun
  BY DEF IInv, MutexInv, OneRun
<1> QED
  BY <1>1, Invariance, PTL

(* An input that forward_c calls invalid is one, or is too small for what  *)
(* its shape says.                                                         *)
LEMMA RejectJustified ==
  ASSUME NEW in \in Input, CheckC(in) = -1
  PROVE  ~in.valid \/ in.rows < 0 \/ Room(in) < TrueBytes(in.rows, NumFeatures)
<1> DEFINE rows == in.rows
           need == Bytes(rows, NumFeatures)
<1> SUFFICES ASSUME in.valid, rows \in Nat
             PROVE  Room(in) < TrueBytes(rows, NumFeatures)
  BY DEF Input
<1>1. ~Overflows(rows, NumFeatures)
  BY DEF CheckC
<1>2. need = TrueBytes(rows, NumFeatures) /\ need \in Nat
  BY <1>1, BytesExact
<1>3. in.bytes < need \/ (need > 0 /\ in.null)
  BY <1>1 DEF CheckC
<1> HIDE DEF need
<1>4. Room(in) < need
  BY <1>2, <1>3 DEF Room, Input
<1> QED
  BY <1>2, <1>4

(* One answer for want of room had less than the output takes.             *)
LEMMA NoRoomJustified ==
  ASSUME TypeOK, NEW t \in Threads, TensorOK(t), pc[t] = "answer", NoRoom(t)
  PROVE  output[t].room < TrueBytes(input[t].rows, 1)
<1> DEFINE rows == input[t].rows
           out == output[t]
<1>1. rows \in Int /\ TrueBytes(rows, NumFeatures) \in 0..Room(input[t])
  BY DEF TensorOK, TypeOK, Input
<1>2. Room(input[t]) \in 0..SizeMax
  BY DEF Room, TypeOK, Input
<1>3. Bytes(rows, 1) = TrueBytes(rows, 1) /\ Bytes(rows, 1) \in 0..SizeMax
  BY <1>1, <1>2, OutputFits
<1>4. out \in Output /\ out.room = IF out.null THEN 0 ELSE out.bytes
  BY DEF TensorOK, TypeOK
<1>5. Filled(out, rows).bytes = Bytes(rows, 1)
  BY <1>4 DEF Filled, Output
<1>6. (Bytes(rows, 1) > 0 /\ out.null) \/ out.bytes < Bytes(rows, 1)
  BY <1>5 DEF NoRoom, Capacity
<1>7. out.room < Bytes(rows, 1)
  BY <1>3, <1>4, <1>6 DEF Output
<1> QED
  BY <1>3, <1>7

(* The answers of one thread.                                              *)
LEMMA RefusalStep ==
  ASSUME TypeOK, TensorInv, RefusalsJustified,
         NEW t \in Threads, Begin(t) \/ Continue(t), pc'[t] = "fail"
  PROVE  /\ rc'[t] = -1 =>
              \/ ~input'[t].valid
              \/ input'[t].rows < 0
              \/ Room(input'[t]) < TrueBytes(input'[t].rows, NumFeatures)
         /\ rc'[t] = -3 => output'[t].room < TrueBytes(input'[t].rows, 1)
<1>0. TensorOK(t)
  BY DEF TensorInv
<1>1. CASE Begin(t)
  <2>1. pc[t] # "fail" /\ (pc'[t] = pc[t] \/ pc'[t] = "check")
    BY <1>1 DEF Begin, Create, Destroy, CallC, CallCpp, Retry, TypeOK
  <2> QED
    BY <2>1
<1>2. CASE RejectC(t)
  <2>1. rc'[t] = CheckC(input[t]) /\ UNCHANGED input
    BY <1>2 DEF RejectC, TypeOK
  <2>2. rc'[t] # -3
    BY <2>1 DEF CheckC
  <2>3. input[t] \in Input
    BY DEF TypeOK
  <2> QED
    BY <2>1, <2>2, <2>3, RejectJustified
<1>3. CASE RunThrows(t)
  <2>1. rc'[t] = -2
    BY <1>3 DEF RunThrows, Throws, Return, TypeOK
  <2> QED
    BY <2>1
<1>4. CASE Answer(t)
  <2>1. pc[t] = "answer" /\ NoRoom(t) /\ rc'[t] = -3
    BY <1>4 DEF Answer, TypeOK
  <2>2. /\ input' = input
        /\ output' = [output EXCEPT ![t] = Filled(output[t], input[t].rows)]
    BY <1>4 DEF Answer
  <2>3. output'[t].room = output[t].room
    BY <2>2 DEF Filled, TypeOK, Output
  <2> QED
    BY <1>0, <2>1, <2>2, <2>3, NoRoomJustified
<1>5. CASE Accept(t) \/ Lock(t) \/ Run(t)
  BY <1>5 DEF Accept, Lock, Run, TypeOK
<1>6. CASE RejectCpp(t) \/ Clear(t) \/ Succeed(t) \/ Fail(t)
  BY <1>6 DEF RejectCpp, Clear, Succeed, Fail, Throws, Answered, Return, TypeOK
<1> QED
  BY <1>1, <1>2, <1>3, <1>4, <1>5, <1>6 DEF Continue

(* No call of the C API is refused without cause: for its arguments, or    *)
(* for want of room.                                                       *)
THEOREM NeverRefusedInVain == Spec => []RefusalsJustified
<1>1. Init => RefusalsJustified
  BY DEF Init, RefusalsJustified
<1>2. IInv /\ RefusalsJustified /\ [Next]_vars => RefusalsJustified'
  <2> SUFFICES ASSUME IInv, RefusalsJustified, [Next]_vars
               PROVE  RefusalsJustified'
    OBVIOUS
  <2> USE DEF IInv
  <2>1. ASSUME NEW t \in Threads, Begin(t) \/ Continue(t)
        PROVE  RefusalsJustified'
    <3> SUFFICES ASSUME NEW u \in Threads, pc'[u] = "fail"
                 PROVE  /\ rc'[u] = -1 =>
                             \/ ~input'[u].valid
                             \/ input'[u].rows < 0
                             \/ Room(input'[u]) < TrueBytes(input'[u].rows, NumFeatures)
                        /\ rc'[u] = -3 =>
                             output'[u].room < TrueBytes(input'[u].rows, 1)
      BY DEF RefusalsJustified
    <3>1. CASE u = t
      BY <2>1, <3>1, RefusalStep
    <3>2. CASE u # t
      <4>1. /\ pc'[u] = pc[u] /\ rc'[u] = rc[u]
            /\ input'[u] = input[u] /\ output'[u] = output[u]
        BY <2>1, <3>2, OtherThreads
      <4> QED
        BY <4>1 DEF RefusalsJustified
    <3> QED
      BY <3>1, <3>2
  <2>2. CASE UNCHANGED vars
    BY <2>2 DEF vars, RefusalsJustified
  <2> QED
    BY <2>1, <2>2 DEF Next
<1> QED
  BY <1>1, <1>2, Invariance, PTL DEF Spec

=============================================================================
