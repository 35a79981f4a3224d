--------------------------- MODULE ModelSession -----------------------------
(***************************************************************************)
(* pt2so::ModelSession and the C API on it (runtime/src/model_session.cpp, *)
(* runtime/src/model_api.cpp): model_create, model_forward, model_destroy  *)
(* and the C++ ModelSession::forward, called by the threads of a host.     *)
(*                                                                         *)
(* A session runs its model under forward_mu, but last_error is written    *)
(* with the mutex held only by forward; forward_c writes it without.  Two  *)
(* such writes at once are a data race on a std::string.                   *)
(*                                                                         *)
(* Data.  Of a tensor only its number of rows and its bytes matter, of an  *)
(* error message only the return code it was written for.  size_t has the  *)
(* values 0..SizeMax, and products wrap around.                            *)
(*                                                                         *)
(* An operator marked as a fault is a bug that the code does not have, to  *)
(* be put in place of the definition it names.                             *)
(***************************************************************************)
EXTENDS Integers

CONSTANTS
  Threads,      \* threads of the host
  Handles,      \* addresses a ModelSession may have
  NoThread,     \* the holder of a free mutex
  NumFeatures,  \* kNumFeatures
  FloatBytes,   \* sizeof(float)
  SizeMax,      \* the largest size_t
  Batches,      \* bound: values of shape[0] the host passes
  BufferSizes   \* bound: sizes of the buffers the host passes

ASSUME SessionAssumption ==
  /\ NoThread \notin Threads
  /\ NumFeatures \in Nat \ {0}
  /\ FloatBytes \in Nat \ {0}
  /\ SizeMax \in Nat
  /\ Batches \subseteq Int
  /\ \A batch \in Batches : batch <= SizeMax
  /\ BufferSizes \subseteq 0..SizeMax

VARIABLES
  discipline,  \* how the host shares its sessions; see MayCall
  live,        \* the sessions that exist
  forward_mu,  \* session -> the thread that holds it, or NoThread
  last_error,  \* session -> the code its message was written for, or Torn
  pc,          \* where each thread is
  api,         \* thread -> the function it called: "c" or "cpp"
  on,          \* thread -> the session it called
  input,       \* thread -> the input it passed
  output,      \* thread -> the output descriptor it passed
  rc,          \* thread -> what its last call returned, or is to return
  retry,       \* thread -> its call is one more try after a refusal
  outcome,     \* history: session -> how its last call ended: the code, or Thrown
  answered     \* history: session -> the code of the last call that did not throw

vars == <<discipline, live, forward_mu, last_error, pc, api, on, input, output,
          rc, retry, outcome, answered>>

(* Return codes: 0; invalid arguments; an exception; no room for the       *)
(* output.  For a caller of the C++ forward, which returns none, 0 stands  *)
(* for its output, and -2 for the exception that it throws.                *)
Codes == {0, -1, -2, -3}

(* The outcome of a call that ended in an exception.                       *)
Thrown == 2

(* What two unordered writes may leave of last_error.                      *)
Torn == 1

(* The steps of forward_c and of forward within it: "check" the arguments, *)
(* "lock" forward_mu, "run" the model, "clear" last_error, "answer" in the *)
(* output descriptor, and "succeed" or "fail" with a last write of         *)
(* last_error.  The C++ forward goes back to "idle" after "clear".         *)
PC == {"idle", "check", "lock", "run", "clear", "answer", "succeed", "fail"}

(* An input is valid if all is right with it but its rows and its buffer:  *)
(* the counts, dtype, rank and features.  Its buffer has the bytes that    *)
(* the host says it has, none if data is null.                             *)
Input == [valid : BOOLEAN, rows : Int, null : BOOLEAN, bytes : 0..SizeMax]
Room(in) == IF in.null THEN 0 ELSE in.bytes

(* Only forward_c has an output descriptor.  room is the true size of its  *)
(* buffer, which the code cannot see: it goes by bytes.                    *)
Output == [null : BOOLEAN, bytes : 0..SizeMax, room : 0..SizeMax]

NoInput == [valid |-> FALSE, rows |-> 0, null |-> TRUE, bytes |-> 0]
NoOutput == [null |-> TRUE, bytes |-> 0, room |-> 0]

Init ==
  /\ discipline \in {"serial", "forwarders", "free"}
  /\ live = {}
  /\ forward_mu = [h \in Handles |-> NoThread]
  /\ last_error = [h \in Handles |-> 0]
  /\ pc = [t \in Threads |-> "idle"]
  /\ api = [t \in Threads |-> "c"]
  /\ on \in [Threads -> Handles]
  /\ input = [t \in Threads |-> NoInput]
  /\ output = [t \in Threads |-> NoOutput]
  /\ rc = [t \in Threads |-> 0]
  /\ retry = [t \in Threads |-> FALSE]
  /\ outcome = [h \in Handles |-> 0]
  /\ answered = [h \in Handles |-> 0]

Users(h) == {t \in Threads : pc[t] # "idle" /\ on[t] = h}

(* The host's side.  A "serial" host makes one call at a time on a         *)
(* session; "forwarders" share it, but only call the C++ forward; a "free" *)
(* host does as it likes, except that it destroys no session in use.       *)
MayCall(h, a) ==
  /\ h \in live
  /\ discipline = "serial" => Users(h) = {}
  /\ discipline = "forwarders" => a = "cpp"

-----------------------------------------------------------------------------
(* checked_bytes_for_float_tensor and fill_output_desc_shape               *)

(* Arithmetic on size_t.                                                   *)
Wrap(n) == n % (SizeMax + 1)

(* Fault: Overflows without the check of the multiplication by the size of *)
(* a float.                                                                *)
ElementsOverflow(rows, cols) == cols # 0 /\ rows > SizeMax \div cols

(* The checks of the byte count of a [rows, cols] tensor, rows >= 0.       *)
Overflows(rows, cols) ==
  \/ cols # 0 /\ rows > SizeMax \div cols
  \/ Wrap(rows * cols) > SizeMax \div FloatBytes

(* The byte count, as computed.                                            *)
Bytes(rows, cols) == Wrap(Wrap(rows * cols) * FloatBytes)

(* The output descriptor when the model has returned rows rows.            *)
Filled(out, rows) == [out EXCEPT !.bytes = Bytes(rows, 1)]

(* Fault: Capacity, read after the descriptor was filled.                  *)
CapacityAfterFill(t) == Filled(output[t], input[t].rows).bytes

(* output_capacity.                                                        *)
Capacity(t) == output[t].bytes

-----------------------------------------------------------------------------
(* last_error                                                              *)

Writing(t) == pc[t] \in {"clear", "succeed", "fail"}

(* last_error after thread t has written the message for code: its session *)
(* has that message, unless another thread is writing to the same string,  *)
(* or was when it was written before.                                      *)
Written(t, code) ==
  LET h == on[t]
      raced == \E u \in Threads \ {t} : Writing(u) /\ on[u] = h
  IN  {[last_error EXCEPT ![h] = code]}
      \cup IF raced \/ last_error[h] = Torn
           THEN {[last_error EXCEPT ![h] = Torn]}
           ELSE {}

(* Fault: ClearedByForward that leaves the message of an earlier failure.  *)
LeftByForward(t) == {last_error}

(* forward clears the message of an earlier failure.                       *)
ClearedByForward(t) == Written(t, 0)

(* Thread t returns with a code.  It keeps its descriptors only to try     *)
(* again, when the refusal told it the room it needs.                      *)
Return(t, code) ==
  /\ pc' = [pc EXCEPT ![t] = "idle"]
  /\ rc' = [rc EXCEPT ![t] = code]
  /\ input' = [input EXCEPT ![t] = IF code = -3 THEN @ ELSE NoInput]
  /\ output' = [output EXCEPT ![t] = IF code = -3 THEN @ ELSE NoOutput]
  /\ retry' = [retry EXCEPT ![t] = FALSE]

(* A call of thread t that returns with a code, and writes its message:    *)
(* for the users of the session it is the last, and the last to answer.    *)
Answered(t, code) ==
  /\ Return(t, code)
  /\ outcome' = [outcome EXCEPT ![on[t]] = code]
  /\ answered' = [answered EXCEPT ![on[t]] = code]

(* An exception leaves the C++ forward.  It carries its own message, and   *)
(* last_error stays as it is.                                              *)
Throws(t) ==
  /\ Return(t, -2)
  /\ outcome' = [outcome EXCEPT ![on[t]] = Thrown]
  /\ UNCHANGED <<last_error, answered>>

-----------------------------------------------------------------------------
(* model_create and model_destroy                                          *)

(* A creation that fails leaves no session, and a message of its own that  *)
(* no other thread sees: it changes nothing here.                          *)
Create(t, h) ==
  /\ pc[t] = "idle" /\ h \notin live
  /\ live' = live \cup {h}
  /\ forward_mu' = [forward_mu EXCEPT ![h] = NoThread]
  /\ last_error' = [last_error EXCEPT ![h] = 0]
  /\ outcome' = [outcome EXCEPT ![h] = 0]
  /\ answered' = [answered EXCEPT ![h] = 0]
  /\ UNCHANGED <<discipline, pc, api, on, input, output, rc, retry>>

Destroy(t, h) ==
  /\ pc[t] = "idle" /\ h \in live /\ Users(h) = {}
  /\ live' = live \ {h}
  /\ UNCHANGED <<discipline, forward_mu, last_error, pc, api, on, input, output,
                 rc, retry, outcome, answered>>

-----------------------------------------------------------------------------
(* The call                                                                *)

Inputs ==
  [valid : {TRUE}, rows : Batches, null : BOOLEAN, bytes : BufferSizes] \cup {NoInput}

(* model_forward(h, ...), with whatever buffers; an output buffer is as    *)
(* large as its descriptor says, or there is none, as in a probe.          *)
CallC(t, h) ==
  /\ pc[t] = "idle" /\ MayCall(h, "c")
  /\ pc' = [pc EXCEPT ![t] = "check"]
  /\ api' = [api EXCEPT ![t] = "c"]
  /\ on' = [on EXCEPT ![t] = h]
  /\ \E in \in Inputs : input' = [input EXCEPT ![t] = in]
  /\ \E size \in BufferSizes, null \in BOOLEAN :
        output' = [output EXCEPT ![t] =
          [null |-> null, bytes |-> size, room |-> IF null THEN 0 ELSE size]]
  /\ UNCHANGED <<discipline, live, forward_mu, last_error, rc, retry, outcome,
                 answered>>

(* session.forward(vector, rows, features).                                *)
CallCpp(t, h) ==
  /\ pc[t] = "idle" /\ MayCall(h, "cpp")
  /\ pc' = [pc EXCEPT ![t] = "check"]
  /\ api' = [api EXCEPT ![t] = "cpp"]
  /\ on' = [on EXCEPT ![t] = h]
  /\ \E in \in Inputs :
        ~in.null /\ input' = [input EXCEPT ![t] = in]
  /\ output' = [output EXCEPT ![t] = NoOutput]
  /\ UNCHANGED <<discipline, live, forward_mu, last_error, rc, retry, outcome,
                 answered>>

(* Refused for want of room, the host allocates what the descriptor asks   *)
(* for, as run_dlopen_model and validate_ctypes do, and calls again.       *)
Retry(t) ==
  /\ pc[t] = "idle" /\ rc[t] = -3 /\ MayCall(on[t], "c")
  /\ pc' = [pc EXCEPT ![t] = "check"]
  /\ output' = [output EXCEPT ![t] =
        [null |-> FALSE, bytes |-> output[t].bytes, room |-> output[t].bytes]]
  /\ retry' = [retry EXCEPT ![t] = TRUE]
  /\ UNCHANGED <<discipline, live, forward_mu, last_error, api, on, input, rc,
                 outcome, answered>>

(* The code that forward_c returns for its input, 0 if it is accepted.     *)
CheckC(in) ==
  LET need == Bytes(in.rows, NumFeatures)
  IN  IF ~in.valid \/ in.rows < 0 THEN -1
      ELSE IF Overflows(in.rows, NumFeatures) THEN -2
      ELSE IF in.bytes < need \/ (need > 0 /\ in.null) THEN -1
      ELSE 0

(* The C++ forward takes a vector of exactly the right size, or throws.    *)
CheckCpp(in) ==
  IF \/ ~in.valid \/ in.rows < 0
     \/ Overflows(in.rows, NumFeatures)
     \/ in.bytes # Bytes(in.rows, NumFeatures)
  THEN -2 ELSE 0

Accept(t) ==
  /\ pc[t] = "check"
  /\ (IF api[t] = "c" THEN CheckC(input[t]) ELSE CheckCpp(input[t])) = 0
  /\ pc' = [pc EXCEPT ![t] = "lock"]
  /\ UNCHANGED <<discipline, live, forward_mu, last_error, api, on, input, output,
                 rc, retry, outcome, answered>>

RejectC(t) ==
  /\ pc[t] = "check" /\ api[t] = "c" /\ CheckC(input[t]) # 0
  /\ pc' = [pc EXCEPT ![t] = "fail"]
  /\ rc' = [rc EXCEPT ![t] = CheckC(input[t])]
  /\ UNCHANGED <<discipline, live, forward_mu, last_error, api, on, input, output,
                 retry, outcome, answered>>

RejectCpp(t) ==
  /\ pc[t] = "check" /\ api[t] = "cpp" /\ CheckCpp(input[t]) # 0
  /\ Throws(t)
  /\ UNCHANGED <<discipline, live, forward_mu, api, on>>

-----------------------------------------------------------------------------
(* forward under forward_mu                                                *)

Lock(t) ==
  /\ pc[t] = "lock" /\ forward_mu[on[t]] = NoThread
  /\ forward_mu' = [forward_mu EXCEPT ![on[t]] = t]
  /\ pc' = [pc EXCEPT ![t] = "run"]
  /\ UNCHANGED <<discipline, live, last_error, api, on, input, output, rc, retry,
                 outcome, answered>>

(* Fault: MuAfterRun that has released the mutex before last_error is      *)
(* cleared.                                                                *)
ReleasedAfterRun(t) == NoThread

(* The mutex is kept when the model has returned ...                       *)
MuAfterRun(t) == t

(* ... and released by the lock guard when it has thrown.                  *)
MuAfterThrow(t) == NoThread

(* The model returns a [rows, 1] tensor, which is copied to a vector.      *)
Run(t) ==
  /\ pc[t] = "run" /\ ~Overflows(input[t].rows, 1)
  /\ forward_mu' = [forward_mu EXCEPT ![on[t]] = MuAfterRun(t)]
  /\ pc' = [pc EXCEPT ![t] = "clear"]
  /\ UNCHANGED <<discipline, live, last_error, api, on, input, output, rc, retry,
                 outcome, answered>>

(* The model throws, or returns something else.                            *)
RunThrows(t) ==
  /\ pc[t] = "run"
  /\ forward_mu' = [forward_mu EXCEPT ![on[t]] = MuAfterThrow(t)]
  /\ \/ /\ api[t] = "c"
        /\ pc' = [pc EXCEPT ![t] = "fail"]
        /\ rc' = [rc EXCEPT ![t] = -2]
        /\ UNCHANGED <<last_error, input, output, retry, outcome, answered>>
     \/ api[t] = "cpp" /\ Throws(t)
  /\ UNCHANGED <<discipline, live, api, on>>

(* The end of forward.                                                     *)
Clear(t) ==
  /\ pc[t] = "clear"
  /\ last_error' \in ClearedByForward(t)
  /\ forward_mu' = [forward_mu EXCEPT ![on[t]] = NoThread]
  /\ \/ /\ api[t] = "c"
        /\ pc' = [pc EXCEPT ![t] = "answer"]
        /\ UNCHANGED <<input, output, rc, retry, outcome, answered>>
     \/ api[t] = "cpp" /\ Answered(t, 0)
  /\ UNCHANGED <<discipline, live, api, on>>

-----------------------------------------------------------------------------
(* The answer of forward_c                                                 *)

(* Fault: NoRoom that wants a byte more than it needs.                     *)
NoRoomToSpare(t) ==
  LET required == Filled(output[t], input[t].rows).bytes
  IN  (required > 0 /\ output[t].null) \/ Capacity(t) <= required

(* The test for a refusal.                                                 *)
NoRoom(t) ==
  LET required == Filled(output[t], input[t].rows).bytes
  IN  (required > 0 /\ output[t].null) \/ Capacity(t) < required

(* The descriptor is filled in; then the output is copied to its buffer    *)
(* if there is room for it.                                                *)
Answer(t) ==
  /\ pc[t] = "answer"
  /\ output' = [output EXCEPT ![t] = Filled(output[t], input[t].rows)]
  /\ \/ /\ NoRoom(t)
        /\ pc' = [pc EXCEPT ![t] = "fail"]
        /\ rc' = [rc EXCEPT ![t] = -3]
     \/ /\ ~NoRoom(t)
        /\ pc' = [pc EXCEPT ![t] = "succeed"]
        /\ UNCHANGED rc
  /\ UNCHANGED <<discipline, live, forward_mu, last_error, api, on, input, retry,
                 outcome, answered>>

Succeed(t) ==
  /\ pc[t] = "succeed"
  /\ last_error' \in Written(t, 0)
  /\ Answered(t, 0)
  /\ UNCHANGED <<discipline, live, forward_mu, api, on>>

Fail(t) ==
  /\ pc[t] = "fail"
  /\ last_error' \in Written(t, rc[t])
  /\ Answered(t, rc[t])
  /\ UNCHANGED <<discipline, live, forward_mu, api, on>>

-----------------------------------------------------------------------------
Begin(t) ==
  \/ \E h \in Handles : Create(t, h) \/ Destroy(t, h) \/ CallC(t, h) \/ CallCpp(t, h)
  \/ Retry(t)

Continue(t) ==
  \/ Accept(t) \/ RejectC(t) \/ RejectCpp(t)
  \/ Lock(t) \/ Run(t) \/ RunThrows(t) \/ Clear(t)
  \/ Answer(t) \/ Succeed(t) \/ Fail(t)

Next == \E t \in Threads : Begin(t) \/ Continue(t)

Spec == Init /\ [][Next]_vars

-----------------------------------------------------------------------------
(* Correctness.                                                            *)

TypeOK ==
  /\ discipline \in {"serial", "forwarders", "free"}
  /\ live \subseteq Handles
  /\ forward_mu \in [Handles -> Threads \cup {NoThread}]
  /\ last_error \in [Handles -> Codes \cup {Torn}]
  /\ pc \in [Threads -> PC]
  /\ api \in [Threads -> {"c", "cpp"}]
  /\ on \in [Threads -> Handles]
  /\ input \in [Threads -> Input]
  /\ output \in [Threads -> Output]
  /\ rc \in [Threads -> Codes]
  /\ retry \in [Threads -> BOOLEAN]
  /\ outcome \in [Handles -> Codes \cup {Thrown}]
  /\ answered \in [Handles -> Codes]

(* The floats of a tensor, in the integers of mathematics.                 *)
TrueBytes(rows, cols) == rows * cols * FloatBytes

(* An accepted input is as large as its shape says, whatever the overflows *)
(* of size_t, so from_blob reads no byte beyond the caller's buffer; and   *)
(* an output that is copied fits into the buffer it is copied to.          *)
MemorySafe ==
  \A t \in Threads :
    /\ pc[t] = "run" =>
         TrueBytes(input[t].rows, NumFeatures) \in 0..Room(input[t])
    /\ pc[t] = "succeed" => TrueBytes(input[t].rows, 1) \in 0..output[t].room

(* A refusal for want of room tells the room that is needed: a host that   *)
(* allocates it and tries again is not refused again, whoever else uses    *)
(* the session.                                                            *)
RetrySucceeds ==
  \A t \in Threads : ~(pc[t] = "fail" /\ rc[t] = -3 /\ retry[t])

(* What run_dlopen_model and validate_ctypes insist on: a valid call that  *)
(* passes no output buffer is a probe for the size, and is refused.  It is *)
(* not if the input has no rows.                                           *)
ProbeRefused == \A t \in Threads : pc[t] = "succeed" => ~output[t].null

(* A host that makes one call at a time, or calls only the C++ forward,    *)
(* however many at a time, never races on last_error ...                   *)
RaceFree ==
  discipline # "free" =>
    \A t, u \in Threads :
      t # u /\ Writing(t) /\ Writing(u) => on[t] # on[u]

(* ... and model_last_error tells how the last call ended: the message of  *)
(* one that failed, and nothing after one that went well.  After an        *)
(* exception of the C++ forward, which has a message of its own, it still  *)
(* tells of the call before it that did not throw, however many threw      *)
(* since.                                                                  *)
ErrorTells ==
  discipline # "free" =>
    \A h \in live :
      Users(h) = {} =>
        last_error[h] = IF outcome[h] = Thrown THEN answered[h] ELSE outcome[h]

(* One call at a time runs the model of a session, whatever the host does. *)
OneRun ==
  \A t, u \in Threads :
    /\ t # u
    /\ pc[t] \in {"run", "clear"}
    /\ pc[u] \in {"run", "clear"}
    => on[t] # on[u]

(* The converse of MemorySafe: a call of the C API that is refused for its *)
(* arguments has no valid input of the size its shape says, and one that   *)
(* is refused for want of room has not enough of it.                       *)
RefusalsJustified ==
  \A t \in Threads :
    pc[t] = "fail" =>
      /\ rc[t] = -1 =>
           \/ ~input[t].valid
           \/ input[t].rows < 0
           \/ Room(input[t]) < TrueBytes(input[t].rows, NumFeatures)
      /\ rc[t] = -3 => output[t].room < TrueBytes(input[t].rows, 1)

(* Who holds forward_mu.                                                   *)
MutexInv ==
  /\ \A t \in Threads :
        pc[t] \in {"run", "clear"} => forward_mu[on[t]] = t
  /\ \A h \in Handles :
        forward_mu[h] # NoThread =>
          LET t == forward_mu[h] IN pc[t] \in {"run", "clear"} /\ on[t] = h

(* The host keeps to its discipline, and destroys no session in use.       *)
HostInv ==
  /\ \A t \in Threads : pc[t] # "idle" => on[t] \in live
  /\ discipline = "serial" =>
       \A t, u \in Threads :
         t # u /\ pc[t] # "idle" /\ pc[u] # "idle" => on[t] # on[u]
  /\ discipline = "forwarders" =>
       \A t \in Threads : pc[t] # "idle" => api[t] = "cpp"

(* What a thread knows of its tensors: an input past the checks has the    *)
(* size of its shape, a descriptor is honest until it is filled in, and    *)
(* once filled in asks for what the output needs.                          *)
TensorOK(t) ==
  /\ pc[t] \in {"lock", "run", "clear", "answer", "succeed"} =>
       TrueBytes(input[t].rows, NumFeatures) \in 0..Room(input[t])
  /\ pc[t] \notin {"idle", "succeed", "fail"} =>
       output[t].room = IF output[t].null THEN 0 ELSE output[t].bytes
  /\ pc[t] = "succeed" => TrueBytes(input[t].rows, 1) \in 0..output[t].room
  /\ rc[t] = -3 /\ pc[t] \in {"idle", "fail"} =>
       api[t] = "c" /\ output[t].bytes = Bytes(input[t].rows, 1)
  /\ retry[t] /\ pc[t] \in {"check", "lock", "run", "clear", "answer"} =>
       ~output[t].null /\ output[t].bytes = Bytes(input[t].rows, 1)
  /\ retry[t] => pc[t] # "idle" /\ ~(pc[t] = "fail" /\ rc[t] = -3)
  /\ pc[t] \in {"answer", "succeed", "fail"} => api[t] = "c"
  /\ pc[t] = "check" /\ api[t] = "cpp" => ~input[t].null

TensorInv == \A t \in Threads : TensorOK(t)

(* The message is that of the last answer, except while a call of the C    *)
(* API has cleared it, or is about to write its own; and what came after   *)
(* that answer, if anything did, threw.                                    *)
ErrorInv ==
  discipline # "free" =>
    \A h \in Handles :
      /\ outcome[h] \in {answered[h], Thrown}
      /\ \/ last_error[h] = answered[h]
         \/ /\ last_error[h] = 0
            /\ \E t \in Users(h) : pc[t] \in {"answer", "succeed", "fail"}

(* All of it together is inductive.                                        *)
IInv ==
  /\ TypeOK /\ MemorySafe /\ RetrySucceeds /\ RaceFree /\ ErrorTells
  /\ MutexInv /\ HostInv /\ TensorInv /\ ErrorInv

=============================================================================
