------------------------------- MODULE Runner -------------------------------
(***************************************************************************)
(* run_dlopen_model (tools/run_dlopen_model.cpp), composed with the        *)
(* session that it calls.  It reads a .npy file, opens the library, asks   *)
(* model_forward for the size of the output, calls it again with a buffer  *)
(* of that size, and saves the output.  Whatever throws goes to one catch  *)
(* block, which cleans up, as far as it can.                               *)
(*                                                                         *)
(* The library's side of a call is that of ModelSession; the program's     *)
(* side is written here from its source, and shown to be one that          *)
(* ModelSession expects of a host with one call at a time.                 *)
(*                                                                         *)
(* Data.  Of a .npy file its size matters, and what its header says.       *)
(***************************************************************************)
EXTENDS Integers, Sequences

CONSTANTS
  Main,         \* the thread
  Handle,       \* the address of the session
  NoThread,     \* the holder of a free mutex
  NumFeatures,  \* kNumFeatures
  FloatBytes,   \* sizeof(float)
  SizeMax,      \* the largest size_t
  Files         \* the .npy files considered

(* major is 0 if the version is none that is known; text says whether the  *)
(* header names the type and the order that the reader wants; an empty     *)
(* shape stands for none, or for a scalar.                                 *)
NpyFile ==
  [size : 0..SizeMax, magic : BOOLEAN, major : 0..3, header_len : 0..SizeMax,
   text : BOOLEAN, shape : Seq(Int)]

(* An int64_t is never more than a size_t.                                 *)
ASSUME RunnerAssumption ==
  /\ Main # NoThread
  /\ NumFeatures \in Nat \ {0}
  /\ FloatBytes \in Nat \ {0}
  /\ SizeMax \in Nat \ {0}
  /\ Files \subseteq NpyFile
  /\ \A f \in Files : \A k \in 1..Len(f.shape) : f.shape[k] <= SizeMax

VARIABLES
  \* the session's, see ModelSession
  discipline, live, forward_mu, last_error, pc, api, on, input, output, rc,
  retry, outcome, answered,
  \* the program's
  file,        \* the contents of the input file
  at,          \* the next step
  dim,         \* the loop variable of checked_element_count
  count,       \* its result so far
  true_count,  \* history: the same without the bounds of a size_t
  library,     \* the library: "null", "open" or "closed"
  model,       \* the model pointer is that of a session
  made, destroyed,  \* history: as in LibraryClient
  lost,        \* history: the catch block did not find model_destroy
  floats,      \* the size of the vector for the output
  saved,       \* the output file: "old", "partial", "buffered" or "whole"
  unflushed,   \* history: closing the output file failed
  exit         \* the exit code, or NoExit

sessionVars == <<discipline, live, forward_mu, last_error, pc, api, on, input,
                 output, rc, retry, outcome, answered>>
ownVars == <<file, at, dim, count, true_count, library, model, made, destroyed,
             lost, floats, saved, unflushed, exit>>
vars == <<sessionVars, ownVars>>

NoExit == -1

Session == INSTANCE ModelSession WITH
  Threads <- {Main}, Handles <- {Handle},
  Batches <- {f.shape[1] : f \in {g \in Files : g.shape # <<>>}},
  BufferSizes <- 0..SizeMax

Init ==
  /\ Session!Init
  /\ discipline = "serial"
  /\ file \in Files
  /\ at = "arguments"
  /\ dim = 1 /\ count = 1 /\ true_count = 1
  /\ library = "null" /\ model = FALSE
  /\ made = 0 /\ destroyed = 0 /\ lost = FALSE
  /\ floats = 0
  /\ saved = "old" /\ unflushed = FALSE
  /\ exit = NoExit

(* Where an operation may fail and throw: files, memory, dlopen, dlsym, and *)
(* model_create.                                                            *)
Throwing == {"arguments", "header", "copy", "open", "symbols", "create", "call",
             "save", "write"}

Throw ==
  /\ at \in Throwing
  /\ at' = "catch"
  /\ UNCHANGED <<sessionVars, file, dim, count, true_count, library, model,
                 made, destroyed, lost, floats, saved, unflushed, exit>>

(* Go on if all is well, else throw.                                       *)
Check(ok, next) ==
  /\ at' = IF ok THEN next ELSE "catch"
  /\ UNCHANGED <<sessionVars, file, library, model, made, destroyed, lost, saved,
                 unflushed, exit>>

Arguments ==
  /\ at = "arguments"
  /\ \/ at' = "header" /\ UNCHANGED exit
     \/ at' = "end" /\ exit' = 0  \* --help
  /\ UNCHANGED <<sessionVars, file, dim, count, true_count, library, model,
                 made, destroyed, lost, floats, saved, unflushed>>

-----------------------------------------------------------------------------
(* load_npy_float32                                                        *)

PayloadOffset(f) == (IF f.major = 1 THEN 10 ELSE 12) + f.header_len

(* Fault: HeaderInside that does not compare the end of the header with    *)
(* the end of the file.                                                    *)
LengthInside(f) == f.size >= IF f.major = 1 THEN 10 ELSE 12

(* The fixed fields and the header are inside the file.                    *)
HeaderInside(f) ==
  f.size >= (IF f.major = 1 THEN 10 ELSE 12) /\ PayloadOffset(f) <= f.size

ReadHeader ==
  /\ at = "header"
  /\ Check(/\ file.magic /\ file.major # 0 /\ HeaderInside(file)
           /\ file.text /\ file.shape # <<>>, "dims")
  /\ UNCHANGED <<dim, count, true_count, floats>>

(* Fault: DimOverflows without the test.                                   *)
NeverOverflows(n) == FALSE

(* The test of checked_element_count before it multiplies by n.            *)
DimOverflows(n) == n # 0 /\ count > SizeMax \div n

(* Fault: NextDim that is stuck at a dimension of zero.                    *)
NextNonZero == IF file.shape[dim] = 0 THEN dim ELSE dim + 1

NextDim == dim + 1

CountDim ==
  /\ at = "dims" /\ dim <= Len(file.shape)
  /\ LET n == file.shape[dim]
     IN  /\ Check(n >= 0 /\ ~DimOverflows(n), "dims")
         /\ count' = Session!Wrap(count * n)
         /\ true_count' = true_count * n
  /\ dim' = NextDim
  /\ UNCHANGED floats

(* The bytes of the data are checked for overflow, and against those left  *)
(* in the file, a difference on size_t; then the data is copied.           *)
CheckData ==
  /\ at = "dims" /\ dim > Len(file.shape)
  /\ Check(/\ count <= SizeMax \div FloatBytes
           /\ count * FloatBytes <= Session!Wrap(file.size - PayloadOffset(file)),
           "copy")
  /\ UNCHANGED <<dim, count, true_count, floats>>

(* Fault: ShapeFits that takes a matrix of any width.                      *)
AnyMatrix(shape) == Len(shape) = 2

ShapeFits(shape) == Len(shape) = 2 /\ shape[2] = NumFeatures

CheckShape ==
  /\ at = "copy" /\ Check(ShapeFits(file.shape), "open")
  /\ UNCHANGED <<dim, count, true_count, floats>>

-----------------------------------------------------------------------------
(* The calls of the library                                                *)

OpenLibrary ==
  /\ at = "open"
  /\ library' = "open" /\ at' = "symbols"
  /\ UNCHANGED <<sessionVars, file, dim, count, true_count, model, made,
                 destroyed, lost, floats, saved, unflushed, exit>>

LoadSymbols ==
  /\ at = "symbols" /\ Check(TRUE, "create")
  /\ UNCHANGED <<dim, count, true_count, floats>>

Create ==
  /\ at = "create"
  /\ live' = {Handle} /\ model' = TRUE /\ made' = made + 1
  /\ forward_mu' = [forward_mu EXCEPT ![Handle] = NoThread]
  /\ last_error' = [last_error EXCEPT ![Handle] = 0]
  /\ outcome' = [outcome EXCEPT ![Handle] = 0]
  /\ answered' = [answered EXCEPT ![Handle] = 0]
  /\ at' = "probe"
  /\ UNCHANGED <<discipline, pc, api, on, input, output, rc, retry, file, dim,
                 count, true_count, library, destroyed, lost, floats, saved,
                 unflushed, exit>>

(* fill_tensor_desc.                                                       *)
InputDesc ==
  [valid |-> Len(file.shape) = 2 /\ file.shape[2] = NumFeatures,
   rows |-> file.shape[1], null |-> count = 0, bytes |-> count * FloatBytes]

(* model_forward is called with a buffer for n floats.                     *)
Forward(n) ==
  /\ pc' = [pc EXCEPT ![Main] = "check"]
  /\ api' = [api EXCEPT ![Main] = "c"]
  /\ on' = [on EXCEPT ![Main] = Handle]
  /\ input' = [input EXCEPT ![Main] = InputDesc]
  /\ output' = [output EXCEPT ![Main] =
       [null |-> n = 0, bytes |-> n * FloatBytes, room |-> n * FloatBytes]]
  /\ UNCHANGED <<discipline, live, forward_mu, last_error, rc, outcome, answered,
                 file, dim, count, true_count, library, model, made, destroyed,
                 lost, saved, unflushed, exit>>

Probe ==
  /\ at = "probe" /\ Forward(0)
  /\ at' = "probed"
  /\ UNCHANGED <<retry, floats>>

(* The other side of the call.                                             *)
InLibrary == at \in {"probed", "called"} /\ Session!Continue(Main) /\ UNCHANGED ownVars

Probed ==
  /\ at = "probed" /\ pc[Main] = "idle"
  /\ Check(rc[Main] = -3 /\ output[Main].bytes % FloatBytes = 0, "call")
  /\ UNCHANGED <<dim, count, true_count, floats>>

(* Fault: Floats that takes the bytes for floats.                          *)
AsManyAsBytes == output[Main].bytes

(* The size of the vector for the output.                                  *)
Floats == output[Main].bytes \div FloatBytes

Call ==
  /\ at = "call" /\ Forward(Floats)
  /\ floats' = Floats
  /\ retry' = [retry EXCEPT ![Main] = TRUE]
  /\ at' = "called"

Called ==
  /\ at = "called" /\ pc[Main] = "idle" /\ Check(rc[Main] = 0, "save")
  /\ UNCHANGED <<dim, count, true_count, floats>>

-----------------------------------------------------------------------------
(* save_npy_float32, and the end                                           *)

(* A shape that does not match the data throws; opening truncates.         *)
OpenOutput ==
  /\ at = "save"
  /\ at' = IF floats = file.shape[1] THEN "write" ELSE "catch"
  /\ saved' = IF floats = file.shape[1] THEN "partial" ELSE saved
  /\ UNCHANGED <<sessionVars, file, dim, count, true_count, library, model,
                 made, destroyed, lost, floats, unflushed, exit>>

(* Fault: FailedWrite that is not noticed.                                 *)
IgnoredWrite == at' = "flush"

(* What follows when a write has failed.                                   *)
FailedWrite == at' = "catch"

Write ==
  /\ at = "write"
  /\ \/ at' = "flush" /\ saved' = "buffered"
     \/ FailedWrite /\ UNCHANGED saved
  /\ UNCHANGED <<sessionVars, file, dim, count, true_count, library, model,
                 made, destroyed, lost, floats, unflushed, exit>>

(* The destructor of the stream writes what is still buffered; if it fails *)
(* nobody hears of it.                                                     *)
Flush ==
  /\ at = "flush"
  /\ \/ saved' = (IF saved = "buffered" THEN "whole" ELSE saved) /\ UNCHANGED unflushed
     \/ saved' = "partial" /\ unflushed' = TRUE
  /\ at' = "destroy"
  /\ UNCHANGED <<sessionVars, file, dim, count, true_count, library, model,
                 made, destroyed, lost, floats, exit>>

(* Fault: MustDestroy that leaves the session to the end of the process.   *)
NothingToDestroy == FALSE

(* The test in the catch block.                                            *)
MustDestroy == model /\ library # "null"

(* In the catch block the pointer itself is left as it is, and never used  *)
(* again.                                                                  *)
Destroy ==
  /\ \/ at = "destroy" /\ at' = "close"
     \/ at = "catch" /\ MustDestroy /\ at' = "catch_close"
  /\ live' = {} /\ model' = FALSE /\ destroyed' = destroyed + 1
  /\ UNCHANGED <<discipline, forward_mu, last_error, pc, api, on, input, output,
                 rc, retry, outcome, answered, file, dim, count, true_count,
                 library, made, lost, floats, saved, unflushed, exit>>

(* The catch block looks model_destroy up once more.  If that fails it     *)
(* ignores the exception, and goes on to close the library.                *)
LookupFails ==
  /\ at = "catch" /\ MustDestroy /\ at' = "catch_close"
  /\ lost' = TRUE
  /\ UNCHANGED <<sessionVars, file, dim, count, true_count, library, model,
                 made, destroyed, floats, saved, unflushed, exit>>

NoDestroy ==
  /\ at = "catch" /\ ~MustDestroy /\ at' = "catch_close"
  /\ UNCHANGED <<sessionVars, file, dim, count, true_count, library, model,
                 made, destroyed, lost, floats, saved, unflushed, exit>>

CloseLibrary ==
  /\ at \in {"close", "catch_close"}
  /\ library' = IF library = "null" THEN "null" ELSE "closed"
  /\ exit' = IF at = "close" THEN 0 ELSE 1
  /\ at' = "end"
  /\ UNCHANGED <<sessionVars, file, dim, count, true_count, model, made,
                 destroyed, lost, floats, saved, unflushed>>

-----------------------------------------------------------------------------
Step ==
  \/ Throw \/ Arguments
  \/ ReadHeader \/ CountDim \/ CheckData \/ CheckShape
  \/ OpenLibrary \/ LoadSymbols \/ Create
  \/ Probe \/ InLibrary \/ Probed \/ Call \/ Called
  \/ OpenOutput \/ Write \/ Flush
  \/ Destroy \/ LookupFails \/ NoDestroy \/ CloseLibrary

Ended == at = "end" /\ UNCHANGED vars

Next == Step \/ Ended

Spec == Init /\ [][Next]_vars

(* One thread, and calls that return.                                      *)
FairSpec == Spec /\ WF_vars(Step)

-----------------------------------------------------------------------------
(* Correctness.                                                            *)

TypeOK ==
  /\ Session!TypeOK
  /\ file \in Files
  /\ at \in Throwing \cup {"dims", "probe", "probed", "called", "flush", "destroy",
                          "close", "catch", "catch_close", "end"}
  /\ dim \in Nat /\ count \in 0..SizeMax /\ true_count \in Int
  /\ library \in {"null", "open", "closed"}
  /\ model \in BOOLEAN /\ made \in Nat /\ destroyed \in Nat
  /\ lost \in BOOLEAN
  /\ floats \in 0..SizeMax
  /\ saved \in {"old", "partial", "buffered", "whole"} /\ unflushed \in BOOLEAN
  /\ exit \in {NoExit, 0, 1}

(* Where the header has been accepted, and where the data has been, and    *)
(* where the session is there.                                             *)
Connected == {"probe", "probed", "call", "called", "save", "write", "flush",
              "destroy"}
Copying == {"copy", "open", "symbols", "create"} \cup Connected

(* load_npy_float32 takes the header and the data from inside the file:    *)
(* the floats that the shape stands for, multiplied without overflow and   *)
(* in whatever order its zeros come, end where the file ends or before.    *)
NpyReadsInside ==
  /\ at = "dims" => PayloadOffset(file) <= file.size
  /\ at \in Copying =>
       PayloadOffset(file) + true_count * FloatBytes \in 0..file.size

(* A file that the reader lets through is an input that model_forward      *)
(* lets through: the two check the same sizes, each in its own way.        *)
InputAccepted == pc[Main] = "check" => Session!CheckC(input[Main]) = 0

(* However the program ends, the session is destroyed before the library   *)
(* that holds its code is closed, and neither is left.  There is one       *)
(* exception: if the catch block cannot look model_destroy up again, the   *)
(* session is left, and only then; no call is under way when the library   *)
(* is closed, and the exit code is that of a failure.                      *)
CleanExit ==
  /\ model <=> live # {}
  /\ (model /\ ~lost) \/ pc[Main] # "idle" => library = "open"
  /\ at = "end" => library # "open" /\ (model <=> lost) /\ (lost => exit = 1)

(* The exit code tells whether there is an output, up to what the          *)
(* destructor of the stream loses.                                         *)
ExitTells ==
  at = "end" /\ library = "closed" =>
    (exit = 0 <=> saved = "whole" \/ unflushed)

(* The message "failed to write output file" says that an output that      *)
(* cannot be written is an error.                                          *)
OutputWhole == at = "end" /\ exit = 0 /\ library = "closed" => saved = "whole"

(* The program is a host that makes one call at a time and tries again     *)
(* with what it was told.                                                  *)
SessionSpec == Session!Spec

Client == INSTANCE LibraryClient

(* What no client should do: the library is closed with a session left.    *)
CloseOnLost ==
  /\ lost /\ made = destroyed + 1
  /\ library = "open" /\ library' = "closed"
  /\ UNCHANGED <<made, destroyed>>

(* On every path through main and its catch block the program treats the   *)
(* library and the session as every program that opens it has to, but for  *)
(* the one on which the catch block does not find model_destroy again.     *)
ClientSpec == Client!Init /\ [][Client!Next \/ CloseOnLost]_(Client!vars)

(* Whatever is in the file and whatever fails, the program ends.           *)
RunnerEnds == <>(at = "end")

(* The product of the dimensions so far, of a matrix.                      *)
DimsInv ==
  /\ at \in {"arguments", "header"} => dim = 1 /\ count = 1 /\ true_count = 1
  /\ at = "dims" =>
       /\ HeaderInside(file) /\ file.shape # <<>>
       /\ dim \in 1..(Len(file.shape) + 1)
       /\ \A k \in 1..(dim - 1) : file.shape[k] >= 0
       /\ dim = 1 => count = 1
       /\ dim = 2 => count = file.shape[1]
       /\ dim = 3 => count = file.shape[1] * file.shape[2]
  /\ at \in {"dims"} \cup Copying => count = true_count

(* What the later steps know of the input.                                 *)
InputInv ==
  /\ at \in Copying =>
       /\ Len(file.shape) = 2 =>
            file.shape[1] >= 0 /\ count = file.shape[1] * file.shape[2]
       /\ count * FloatBytes <= SizeMax
  /\ at \in Copying \ {"copy"} => ShapeFits(file.shape)

(* The library is open, and the session there, while they are needed.      *)
LibraryInv ==
  /\ at \in {"arguments", "header", "dims", "copy", "open"} =>
       library = "null" /\ ~model
  /\ at \in {"symbols", "create"} => library = "open" /\ ~model
  /\ at \in Connected => model
  /\ at = "close" => library = "open" /\ ~model
  /\ at = "catch_close" => (model <=> lost)
  /\ lost => at \in {"catch_close", "end"} /\ model /\ library # "null"
  /\ library = "closed" => at = "end"
  /\ model => made = destroyed + 1
  /\ ~model => made = destroyed

OutputBytes == file.shape[1] * FloatBytes

(* The probe is refused with the size of the output, which is what the     *)
(* second call has room for.                                               *)
CallInv ==
  /\ at \notin {"probed", "called"} => pc[Main] = "idle"
  /\ discipline = "serial" /\ api[Main] = "c"
  /\ pc[Main] # "idle" => on[Main] = Handle /\ input[Main] = InputDesc
  /\ at = "probed" /\ pc[Main] \notin {"idle", "succeed", "fail"} =>
       output[Main].bytes = 0
  /\ (at = "probed" /\ rc[Main] = -3 /\ pc[Main] \in {"idle", "fail"}) \/ at = "call" =>
       /\ rc[Main] = -3 /\ on[Main] = Handle /\ input[Main] = InputDesc
       /\ output[Main].bytes = OutputBytes /\ file.shape[1] > 0
  /\ at \in {"called", "save", "write"} => floats = file.shape[1]

(* What has been saved, and what is to be returned.                        *)
ExitInv ==
  /\ at = "flush" => saved = "buffered"
  /\ at \in {"destroy", "close"} => saved = "whole" \/ unflushed
  /\ at \notin {"destroy", "close", "end"} => ~unflushed /\ saved # "whole"
  /\ at = "end" <=> exit # NoExit

(* All of it together is inductive.                                        *)
IInv ==
  /\ TypeOK
  /\ NpyReadsInside /\ InputAccepted /\ CleanExit /\ ExitTells
  /\ DimsInv /\ InputInv /\ LibraryInv /\ CallInv /\ ExitInv

(* How many steps the program has left at most: its own, those of the call *)
(* of the library that it is in, and the dimensions still to be counted.   *)
OwnSteps ==
  CASE at = "arguments" -> 28  [] at = "header" -> 27
    [] at = "dims" -> 26       [] at = "copy" -> 25
    [] at = "open" -> 24       [] at = "symbols" -> 23
    [] at = "create" -> 22     [] at = "probe" -> 21
    [] at = "probed" -> 14     [] at = "call" -> 13
    [] at = "called" -> 6      [] at = "save" -> 5
    [] at = "write" -> 4       [] at = "flush" -> 3
    [] at \in {"destroy", "catch"} -> 2
    [] at \in {"close", "catch_close"} -> 1
    [] at = "end" -> 0

CallSteps ==
  CASE pc[Main] = "check" -> 6  [] pc[Main] = "lock" -> 5
    [] pc[Main] = "run" -> 4    [] pc[Main] = "clear" -> 3
    [] pc[Main] = "answer" -> 2 [] pc[Main] \in {"succeed", "fail"} -> 1
    [] pc[Main] = "idle" -> 0

DimSteps ==
  IF at \in {"arguments", "header", "dims"} THEN Len(file.shape) + 1 - dim ELSE 0

StepsLeft == OwnSteps + CallSteps + DimSteps

(* Whatever is in the file and whatever fails, each step brings the end    *)
(* nearer, and there is a bound on the steps before the first is made.     *)
StepsCounted == StepsLeft \in Nat
StepsDecrease == [][StepsLeft' < StepsLeft]_vars

=============================================================================
