----------------------------- MODULE Benchmark -----------------------------
(***************************************************************************)
(* benchmark_create (tools/benchmark_create.cpp): sessions are created,    *)
(* asked for the timing of their creation, and destroyed, first a number   *)
(* of times to warm up, then a number of times with a row of CSV for each. *)
(*                                                                         *)
(* A session, its timing, and the message of a call that failed, are the   *)
(* number of the call of model_create that they come from.                 *)
(***************************************************************************)
EXTENDS Integers, Sequences

CONSTANTS
  MaxWarmup,  \* bound on --warmup
  MaxRepeat   \* bound on --repeat

ASSUME BenchmarkAssumption == MaxWarmup \in Nat /\ MaxRepeat \in Nat

VARIABLES
  warmup, repeat,  \* the options
  at,              \* the next step
  warming,         \* the first of the two loops
  i,               \* the loop variable of either
  library,         \* "null", "open" or "closed"
  calls,           \* history: how often model_create was called
  made, destroyed, \* history: as in LibraryClient
  handle,          \* the session that create_once holds, or None
  g_last_error,    \* of the only thread, or None
  algorithm,       \* the session that timing.algorithm points into, or None
  row,             \* the timing in the TimingRow
  printed,         \* the timings in the rows printed
  message,         \* the message of model_create in the error, or None
  exit             \* the exit code, or NoExit

options == <<warmup, repeat>>
loop == <<warming, i>>
sessions == <<library, calls, made, destroyed, g_last_error>>
result == <<printed, message, exit>>
vars == <<options, at, loop, sessions, handle, algorithm, row, result>>

None == 0
NoExit == -1

Init ==
  /\ warmup \in 0..MaxWarmup /\ repeat \in 0..MaxRepeat
  /\ at = "arguments" /\ warming = TRUE /\ i = 0
  /\ library = "null" /\ calls = 0 /\ made = 0 /\ destroyed = 0
  /\ handle = None /\ g_last_error = None /\ algorithm = None /\ row = None
  /\ printed = <<>> /\ message = None /\ exit = NoExit

-----------------------------------------------------------------------------
(* main, up to the loops                                                   *)

(* An option is wrong, the file cannot be opened, a symbol is missing.     *)
Throw ==
  /\ at \in {"arguments", "open", "symbols"} /\ at' = "catch"
  /\ UNCHANGED <<options, loop, sessions, handle, algorithm, row, result>>

Help ==
  /\ at = "arguments" /\ at' = "end" /\ exit' = 0
  /\ UNCHANGED <<options, loop, sessions, handle, algorithm, row, printed, message>>

Arguments ==
  /\ at = "arguments" /\ at' = IF repeat <= 0 THEN "catch" ELSE "open"
  /\ UNCHANGED <<options, loop, sessions, handle, algorithm, row, result>>

OpenLibrary ==
  /\ at = "open" /\ at' = "symbols" /\ library' = "open"
  /\ UNCHANGED <<options, loop, calls, made, destroyed, g_last_error, handle,
                 algorithm, row, result>>

LoadSymbols ==
  /\ at = "symbols" /\ at' = "loop"
  /\ UNCHANGED <<options, loop, sessions, handle, algorithm, row, result>>

-----------------------------------------------------------------------------
(* create_once                                                             *)

(* model_create clears the message of the thread, or leaves one.           *)
Create ==
  /\ at = "create" /\ calls' = calls + 1
  /\ \/ made' = made + 1 /\ handle' = calls' /\ g_last_error' = None
        /\ at' = "timing"
     \/ g_last_error' = calls' /\ handle' = None /\ at' = "failed"
        /\ UNCHANGED made
  /\ UNCHANGED <<options, loop, library, destroyed, algorithm, row, result>>

(* model_last_error(nullptr) is the message of the thread.                 *)
Failed ==
  /\ at = "failed" /\ at' = "catch" /\ message' = g_last_error
  /\ UNCHANGED <<options, loop, sessions, handle, algorithm, row, printed, exit>>

(* model_last_create_timing                                                *)
Timing ==
  /\ at = "timing" /\ at' = "row" /\ algorithm' = handle
  /\ UNCHANGED <<options, loop, sessions, handle, row, result>>

(* The name of the algorithm is copied into a string, which may throw.     *)
Row ==
  /\ at = "row"
  /\ \/ row' = algorithm /\ at' = "destroy"
     \/ at' = "unwind" /\ UNCHANGED row
  /\ UNCHANGED <<options, loop, sessions, handle, algorithm, result>>

Destroy ==
  /\ at = "destroy" /\ at' = "returned" /\ destroyed' = destroyed + 1
  /\ UNCHANGED <<options, loop, library, calls, made, g_last_error, handle,
                 algorithm, row, result>>

(* Fault: DestroyOnThrow that leaves the session to the end of the process. *)
LeakOnThrow == UNCHANGED destroyed

DestroyOnThrow == destroyed' = destroyed + 1

Unwind ==
  /\ at = "unwind" /\ at' = "catch" /\ DestroyOnThrow
  /\ UNCHANGED <<options, loop, library, calls, made, g_last_error, handle,
                 algorithm, row, result>>

-----------------------------------------------------------------------------
(* The loops, and the end of main                                          *)

Loop ==
  /\ at = "loop"
  /\ at' = IF i < (IF warming THEN warmup ELSE repeat) THEN "create"
           ELSE IF warming THEN "repeat" ELSE "close"
  /\ UNCHANGED <<options, loop, sessions, handle, algorithm, row, result>>

(* Fault: StartRepeat that goes on counting.                               *)
KeepCounting == i' = i

StartRepeat == i' = 0

Repeat ==
  /\ at = "repeat" /\ at' = "loop" /\ warming' = FALSE /\ StartRepeat
  /\ UNCHANGED <<options, sessions, handle, algorithm, row, result>>

Returned ==
  /\ at = "returned" /\ at' = "loop" /\ i' = i + 1
  /\ printed' = IF warming THEN printed ELSE Append(printed, row)
  /\ UNCHANGED <<options, warming, sessions, handle, algorithm, row, message, exit>>

(* dlclose, at the end or in the catch block.                              *)
CloseLibrary ==
  /\ at \in {"close", "catch"} /\ at' = "end"
  /\ library' = IF library = "null" THEN "null" ELSE "closed"
  /\ exit' = IF at = "close" THEN 0 ELSE 1
  /\ UNCHANGED <<options, loop, calls, made, destroyed, g_last_error, handle,
                 algorithm, row, printed, message>>

Step ==
  \/ Throw \/ Help \/ Arguments \/ OpenLibrary \/ LoadSymbols
  \/ Create \/ Failed \/ Timing \/ Row \/ Destroy \/ Unwind
  \/ Loop \/ Repeat \/ Returned \/ CloseLibrary

Ended == at = "end" /\ UNCHANGED vars

Next == Step \/ Ended

Spec == Init /\ [][Next]_vars

-----------------------------------------------------------------------------
(* Correctness.                                                            *)

(* Every path through create_once and the two catch blocks, wherever it    *)
(* throws, treats the library and its sessions as they have to be treated. *)
Client == INSTANCE LibraryClient
ClientSpec == Client!Spec

(* The rows of the first n sessions after the warm-up.                     *)
Rows(n) == [k \in 1..n |-> warmup + k]

(* The rows printed are those of the sessions after the warm-up, in order, *)
(* each read from its session while that was alive: all of them if the     *)
(* exit code is 0, fewer if it is not.  An error of model_create is told   *)
(* with the message of that call.                                          *)
ResultTells ==
  /\ at = "row" => algorithm = calls /\ destroyed < made
  /\ printed = Rows(Len(printed))
  /\ exit = 0 /\ library = "closed" => Len(printed) = repeat
  /\ exit = 1 => Len(printed) < repeat \/ repeat = 0
  /\ message # None => exit # 0 /\ message = calls

InSession == {"timing", "row", "destroy", "unwind"}
InCreateOnce == InSession \cup {"failed", "returned"}
InLoop == InCreateOnce \cup {"loop", "create", "repeat", "close"}

TypeOK ==
  /\ warmup \in Nat /\ repeat \in Nat
  /\ at \in InLoop \cup {"arguments", "open", "symbols", "catch", "end"}
  /\ warming \in BOOLEAN /\ i \in Nat
  /\ library \in {"null", "open", "closed"}
  /\ calls \in Nat /\ made \in Nat /\ destroyed \in Nat
  /\ handle \in Nat /\ g_last_error \in Nat /\ algorithm \in Nat /\ row \in Nat
  /\ printed \in Seq(Nat) /\ message \in Nat /\ exit \in {NoExit, 0, 1}

(* The library is open, and a session there, exactly while they are used.  *)
ClientInv ==
  /\ at \in {"arguments", "open"} => library = "null"
  /\ at \in InLoop \cup {"symbols"} => library = "open"
  /\ library = "closed" => at = "end"
  /\ made = destroyed + IF at \in InSession THEN 1 ELSE 0

(* How far the two loops are.                                              *)
Done == IF warming THEN i ELSE warmup + i
Bound == IF warming THEN warmup ELSE repeat

LoopInv ==
  /\ Len(printed) = IF warming THEN 0 ELSE i
  /\ i <= Bound
  /\ at \in InCreateOnce \cup {"create"} => i < Bound
  /\ at \in {"arguments", "open", "symbols"} => calls = 0 /\ i = 0 /\ warming
  /\ at \in {"loop", "create", "repeat", "close"} => calls = Done
  /\ at \in InCreateOnce => calls = Done + 1
  /\ at = "repeat" => warming /\ i = warmup
  /\ at = "close" => ~warming /\ i = repeat
  /\ at = "catch" => Len(printed) < repeat \/ repeat = 0

(* Whose timing is where.                                                  *)
TimingInv ==
  /\ at = "timing" => handle = calls
  /\ at \in {"destroy", "returned"} => row = calls
  /\ at = "failed" => g_last_error = calls
  /\ at \notin {"catch", "end"} => message = None
  /\ exit # NoExit <=> at = "end"

(* All of it together is inductive.                                        *)
IInv == TypeOK /\ ResultTells /\ ClientInv /\ LoopInv /\ TimingInv

=============================================================================
