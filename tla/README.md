# Formal models of pt2so-factor-mlp

pt2so packs an encrypted TorchScript model into a shared library. Python tools
encrypt the model and generate a blob source; the C++ runtime decrypts the blob
when a session is created, runs the model behind a small C API, and offers a
batching queue (`DataSource`) that collects columns of features into row-major
batches for it. This directory holds TLA+ models of that program, the TLC
configurations that check them on small instances, and TLAPS proofs that hold
for every instance. `PROJECT.json` lists components, runs, theorems, hazards,
and for each definition the source lines it models.

All paths below are relative to `src/`.

## Running

    tlc -workers 2 -config MCDataSource.cfg MCDataSource.tla
    tlapm DataSourceProofs.tla

Each run is one `.cfg` (table below); a run without `CHECK_DEADLOCK FALSE` also
checks that the system never stops.

## Inventory

| Component | State it keeps | Operations | Interacts with |
|---|---|---|---|
| `DataSource::State` (`runtime/include/data_source.h`) | mutex, condition variable, deque of row chunks with read offsets, `rows_ready`, `closed` | `insert`, `try_get_batch`, `get_batch_async`, `close`, `closed` | any number of host threads; tasks of `std::async` that wait on the condition variable |
| `DataSource` handles (same file) | a `shared_ptr<State>` per object | constructor, moves, destructor (both of the latter close) | methods and tasks that copied the pointer outlive the handle |
| `ModelSession` and the C API (`runtime/src/model_session.cpp:356-556`, `model_api.cpp`) | the model, `forward_mu`, `last_error`, creation timing; a thread-local error for calls without a session | `model_create`, `model_forward`, `model_destroy`, `model_last_error`, `model_last_create_timing`, C++ `forward`, moves | host threads share sessions; the caller's buffers are described by `TensorDesc` |
| Loading (`model_session.cpp:1-354`, `blob.h`, `embedded_key.h`) | `once_flag` of OpenSSL; key, plaintext and cipher context of one load | parse the pack, AES-GCM decryption, clearing of secrets, `torch::jit::load` | called by the session's constructor; reads what the build embedded |
| Key shares (`tools/encrypt_model.py:23-181`) | shares, masks and orders, in generated C++ | split a key into shares, shuffle, encode; the generated stages decode and xor | the generated function runs at every load |
| Build pipeline (`tools/create_factor_mlp.py`, `encrypt_model.py`, `generate_blob.py`, `scripts/build_linux.sh`, `run_pipeline_linux.sh`, `benchmark_crypto_linux.sh`, `runtime/CMakeLists.txt`) | files: samples, `factor_mlp.pt`, `weights.enc`, key source, blob source, objects and libraries of three build directories, `results.csv` | create, encrypt, generate, compile, use, summarise | key source and package are written separately, and read again at compile time; both scripts write the same sources |
| Runner (`tools/run_dlopen_model.cpp`) | an npy file, descriptors, a handle, the library | read npy, probe for the output size, allocate, call again, write npy, clean up | a client of the C API |
| Benchmark (`tools/benchmark_create.cpp`) | loop, timing, handle, the library | create, read the timing, destroy, print a row | a client of the C API; run by the benchmark script |
| ctypes validator (`tools/validate_ctypes.py`) | two descriptors, a handle | the runner's two calls | a client of the C API |
| Model definition, PyTorch reference tools, unit test of the queue | files | straight-line scripts | |

What makes each part hard, and what makes it correct:

* **Queue.** `insert` and `close` notify after they unlock; a batch may end
  inside a chunk or span several; a task woken for rows may find that somebody
  else took them; `is_last` is decided before the rows are taken. Correct: rows
  leave once and in order, `is_last` is final, a task fails only when nothing is
  left, nobody sleeps through a wake-up, close ends every task.
* **Handles.** Tasks and calls outlive the object they were called on, and a
  future of `std::async` joins its task when it is destroyed. Correct: a State
  has one owner; when it loses it, it is closed, so that no task waits for ever.
* **Session.** Sizes are products on `size_t`; a refused call overwrites the
  descriptor it was given; the model runs under `forward_mu` but `forward_c`
  writes `last_error` without it; exceptions leave `forward` at many points.
  Correct: no access outside the caller's buffers, a refused call can be tried
  again, and, for the hosts that the locking supports, no race on `last_error`
  and no message but that of the last call that did not throw.
* **Loading.** Secrets have to be cleared on each of a dozen error paths; the
  OpenSSL initialisation may fail and be tried again; 64-bit lengths are checked
  against the rest of the pack.
* **Pipeline.** Two files that must match are written one after the other, and
  read by two later steps.
  Correct: the library a script uses holds the model it created, under the key
  that was compiled in, whatever an earlier command left behind.
* **Key shares.** Python encodes on unbounded integers, generated C++ decodes on
  64 bits, and three orders are random. Correct: the decoder returns the key.
* **Runner.** It reads sizes and shapes from a file, its two-call protocol has to
  agree with what the API returns at the boundary (no rows, no room), and one
  catch block cleans up for every failure. Correct: nothing outside the file is
  read, what it accepts the session accepts, the session is destroyed once and
  before `dlclose` wherever the program can still do it, the exit code says whether there is an output.
* **Benchmark.** Two catch blocks share the cleaning up; the timing points into
  the session. Correct: each row printed is of its own session, none leaks.

## Modules

| Module | Models | Role |
|---|---|---|
| `BatchStream` | what the queue promises | abstract specification: rows are accepted, numbered, and leave in order in full batches, the last one marked |
| `DataSource` | `DataSource::State` and its threads | detailed specification, implements `BatchStream` and `SourceState` |
| `SourceState` | what a State is to those who share it: a count of rows, `closed`, tasks | abstract specification, between the queue and the handles |
| `RowLayout` | `DataSource` with the elements in its chunks and batches | transposition, ranges, moved-from elements; extends `DataSource` |
| `DataSourceProofs` | | proofs for all constants, of both |
| `DataSourceHandle` | the objects around the States | construction, moves, destruction, calls and futures in flight; uses each State as `SourceState` allows |
| `DataSourceHandleProofs` | | proofs for all constants |
| `ModelSession` | `ModelSession::forward`, `forward_c`, the C API | calls of many threads on many sessions |
| `ModelSessionProofs` | | proofs for all constants |
| `ModelPack` | the format of the embedded pack: what `generate_blob.py` accepts, what the C++ parser takes | operators without state |
| `ModelLoad` | `model_create` and the constructor of `ModelSession` | loads by many threads of the pack in `ModelPack` |
| `ModelLoadProofs` | | proofs for all constants, of both |
| `Runner` | `run_dlopen_model.cpp`, composed with `ModelSession` | client of the C API, implements the host of `ModelSession` and `LibraryClient` |
| `RunnerProofs` | | proofs for all constants |
| `LibraryClient` | what the library may ask of a program that opens it | abstract specification |
| `Benchmark` | `benchmark_create.cpp` | client of the C API, implements `LibraryClient` |
| `BenchmarkProofs` | | proofs for all constants |
| `BuildPipeline` | the scripts, tools and builds as steps on files | any commands, one at a time, each stopped anywhere |
| `BuildPipelineProofs` | | proofs for all constants |
| `KeyShares` | the key in shares: generator and generated code | the tool's half and the runtime's half of one algorithm |
| `KeySharesProofs` | | proofs for all constants |
| `MCDataSource`, `MCDataSourceHandle`, `MCModelSession`, `MCModelLoad`, `MCRunner`, `MCKeyShares` | | symmetry and values for TLC |

### DataSource

State: `mu`, `rows_ready`, `closed`, `chunks` are the members of `State`; `pc`
and `batch` are where each thread is and the `InputBatch` it fills; `accepted`
and `delivered` are history. A row is represented by its position in the order
of acceptance, so a chunk is a sequence of numbers and losing, repeating or
reordering rows shows.

What a thread does while it holds the mutex is one step, with two exceptions:
the loop in `take_batch_locked` takes a step per iteration (with the mutex held)
so that the counter, the deque and the offset are compared at every iteration,
and `cv.notify_all()`, which the code calls after the unlock, is a step of its
own (`NotifyAll`). A task of `get_batch_async` is `running` when it wants the
mutex and `waiting` when blocked; `Wait`, `TakeAsync` and `FailAsync` are the
three things it can find, and `SpuriousWakeUp` is what a condition variable may
do on its own. The `resize` at the top of `take_batch_locked` may throw
`bad_alloc` (`ResizeThrows`, at most `MaxFails` times, counted in `fails`): the
lock guard releases the mutex, a poll is over, and a task has "thrown".

`BatchStream` is implemented by hiding everything but `accepted`, `closed` and
`delivered`; a batch is delivered when the lock is released. `SourceState` is
implemented by counting the rows that no returned batch has, and by what a future
shows of its task (`TaskState`).

### DataSourceHandle

A handle holds a pointer to a State or none. A method first copies the pointer
(`Enter`) and then acts on the State; destruction and move assignment close the
State, then let go of it, in separate steps, so every interleaving with calls
and tasks in flight is there. The inside of a State is reduced to a count of
rows and `closed`: an insert adds any number of rows, a take removes a batch, and
any of them may fail for want of memory. That this is what a State does is not
taken for granted: `SourceState` states it, `DataSource` implements
`SourceState`, and here whatever is done to a State through its handles is a step
of `SourceState` (`SourceSpec` in both modules). Whether a task ends once it can
run is what `DataSource` shows (`CloseEndsTasks`, `ReadyBatchIsTaken`). Moving or destroying an object
while another thread *enters* a method on it is a data race that the class does
not claim to support: the host must not do it (`Usable`).

### ModelSession

`forward_c` is split where another thread can make a difference: the checks,
locking `forward_mu`, the model, the clearing of `last_error` at the end of
`forward`, the answer in the output descriptor, and the last write of
`last_error`. `pc` names the step a thread is about to take. Sizes are numbers
in `0..SizeMax`, with wrap-around products (`Wrap`, `Bytes`); `Overflows` is the
code's check. Buffers have a true size beside the size that the descriptor
claims. An error message is represented by the code it was written for, and two
writes of the string at once may leave `Torn`.

A call ends in one of two ways. `Answered` is a call that returns: `forward_c`
with any code, the C++ `forward` with its output; each has written `last_error`
before (a message, or nothing). `Throws` is an exception that leaves the C++
`forward`, from its checks (`RejectCpp`) or from the model (`RunThrows`): it
carries its own message and leaves `last_error` alone, so that the string may
still be the message of an earlier call. Two history variables tell these apart:
`outcome` is how the last call on a session ended, `answered` the code of the
last that returned.

The host is part of the model. `discipline` says how it shares sessions:
`serial` (one call at a time on a session), `forwarders` (any number of threads,
C++ `forward` only) or `free`. Memory safety and the second call are checked for
all three; freedom from races on `last_error` only for the first two, since the
code locks nothing around the writes in `forward_c` and with a free host the
race is there. No host destroys a session in use. `Retry` is the client protocol
of `run_dlopen_model.cpp` and `validate_ctypes.py`: allocate what the refused
call asked for and call again.

### ModelPack and ModelLoad

`ModelPack` has two readers of the same bytes: `ParsesEncrypted` and
`ParsesPlaintext` are the parser of `model_session.cpp` on a `size_t` of any
width, with the test that `ByteReader` makes before each field, and
`ValidEncryptedInput` and `EmbeddedPlaintext` are `generate_blob.py`, on
Python's unbounded integers. A pack is its size and its header fields; a field
beyond the end of the pack has some value that the parser must not depend on.

`ModelLoad` follows a call of `model_create` through the steps named in `pc`,
each of which may throw. `once` is the `once_flag` of the OpenSSL
initialisation, the only state that loads share: a thread that comes while
another one initialises waits, and if that one throws, a waiting thread takes
its place. `dirty` says which buffers of a thread's last call hold the key or
the model: a buffer is dirty from the step that fills it until `secure_clear`,
and stays so if it is released without. `error` is the thread-local
`g_last_error`, as the step that failed. `key` is the key the library was built
with: that of the pack, another one, or the one of `aes_key_empty.cpp` that
throws; `EVP_DecryptFinal_ex` accepts a pack only under its own key (`Opens`).

`ModelLoad` ends where `ModelSession` begins: `Create` of the latter is a
`model_create` that returned 0 here. The key that it reads is the one that
`KeyShares` puts together; which key and package meet in a library is what
`BuildPipeline` is about.

### RowLayout

`DataSource` takes a row for an atom. Here a row is `Hidden` elements
`<<row, column>>`, and `RowLayout` extends `DataSource`: each action is one of
`DataSource` together with what the code does to the elements. `elements` are the
vectors of the chunks, `filled` the vector of the batch each thread fills,
`returned` those of the batches. `Flat` is the vector after the two loops of
`insert`, each element at the index the assignment computes (`IndexOf`); `Resize`
is the allocation of a batch; `MoveElements` moves a range from the front chunk
(`SrcIndex`, `MoveInto`) and leaves `Moved` behind (`MoveOutOf`);
`DropElements` is the allocation that fails.

### Runner

`at` is the next step of `main`; every step that can throw may do so (`Throw`),
and `catch` leads to the one catch block. The variables of `ModelSession` are
those of the instance `Session`: `Create`, `Probe` and `Call` of the runner are
steps of both programs, and `InLibrary` lets the session answer. The run and a
theorem show that the runner is a host as `ModelSession` expects it
(`SessionSpec`): it makes one call at a time, calls with buffers of its own,
and tries again with what it was told. `made` and `destroyed` count the calls of
`model_create` that returned a session and of `model_destroy`, for
`LibraryClient`. The catch block does not use the `model_destroy` that was looked
up before: it calls `dlsym` again, and swallows the exception if that fails
(`LookupFails`, remembered in `lost`); the library is then closed with the
session alive. A file is its size and what its header
says. `checked_element_count` takes a step per dimension; `true_count` is the
product it should be.

### LibraryClient and Benchmark

`LibraryClient` is the obligation of any program that opens the library: one
session at a time, created and destroyed while the library is open, none left
when it is closed. `Benchmark` is shown to implement it on all paths through
`create_once`, its catch block and that of `main`; it keeps the pointer to
`model_destroy`. `Runner` implements it up to one step, `CloseOnLost`: the
library closed after `LookupFails`. Sessions, timings and messages are numbered
by the call of `model_create` they come from, so a row that shows the timing of
another session, or a message of another call, shows.

### BuildPipeline

The state is the files, with contents named by the model and the key they are
of. `Script` lists the steps of the two shell scripts and of the commands by
themselves. Each write opens (the file is `Partial`) and closes; `Stop` may come
before any step. `fresh` is what the build tool knows: which objects are newer
than their sources. A package that `blob.cpp` names by `.incbin` is no source, so
`Compile` embeds what is there when it runs.

### KeyShares

A number is the set of the positions of its one-bits; `Value` gives sums and
differences their meaning. Generation takes a step per share and per iteration
of the shuffle; the generated function takes a step per stage and may be called
again. `EncodeWord` is Python's, `Unmask` and `DecodeWord` are the C++ in the
template.

Operators marked as faults (`NotifyOne`, `CapacityAfterFill`, ...) are not part
of any specification: each is a plausible bug in the place of the definition that
it stands in front of or that its comment names, and each property below is
known to fail under one of them.

## Runs

| Run | Instance | Distinct states | Shows |
|---|---|---|---|
| `ds` | 2 clients, 2 tasks, `TargetRows` 3, up to 7 rows in inserts of up to 4, 1 failed allocation | 92 083 | `IInv`, `QueueInv`, `ExactlyOnce`, `LastIsFinal`, `FailedOnlyWhenDrained`, `NoLostWakeup`, the implementation of `BatchStream`, and under fairness `CloseEndsTasks`, `ReadyBatchIsTaken` |
| `ds_handle` | 2 threads, 2 handles, 2 States, 1 future, up to 2 rows in a State | 440 431 | `IInv`, `UniqueOwner`, `OrphanClosed`, and under fairness `OrphanTasksEnd`, `CallsReturn` |
| `row_layout` | 1 client, 2 tasks, 3 columns, `TargetRows` 3, up to 8 rows in inserts of up to 4, 1 failed allocation | 67 541 | `RowMajor` |
| `session` | 2 threads, 1 session address, 2 features of 2 bytes, `SizeMax` 15 | 2 837 198 | `MemorySafe`, `RetrySucceeds`, `RaceFree`, `ErrorTells`, `IInv` |
| `load` | 3 threads, 27 packs, `SizeMax` 63, `IntMax` 10, 3 calls, 2 failed initialisations | 213 787 | `ReadsInside`, `LoadsGenuine`, `GeneratedParses`, `InitOnce`, `SecretsCleared`, `IInv`, and under fairness `CreateReturns` |
| `key_shares` | words of 4 bits, 3 tokens, 2 masks, 2 or 3 shares | 850 812 | `KeyRestored` |
| `runner` | 374 files, 2 features of 4 bytes, `SizeMax` 63 | 5 627 | `NpyReadsInside`, `InputAccepted`, `CleanExit`, `ExitTells`, `IInv`, the implementation of the host of `ModelSession`, and under fairness `RunnerEnds` |
| `benchmark` | up to 3 warm-ups and 4 measurements | 992 | `ResultTells`, the implementation of `LibraryClient` |
| `pipeline` | 2 models, 4 scripts or commands | 1 873 237 | `ScriptsDeliver`, `ResultsCompare`, `IInv` |
| `session_probe` | `session` with one thread | | a violation: `ProbeRefused` (see Divergences) |
| `load_cleanup` | `load` with two threads, without fairness | | a violation: `TemporariesCleared` (see Divergences) |
| `runner_save` | `runner` without fairness | | a violation: `OutputWhole` (see Divergences) |

The properties:

* `ExactlyOnce`: each batch has 1 to `target_rows` rows, those after the batch
  before it. `LastIsFinal`: a short batch is marked, and a marked batch leaves a
  closed and empty source, with no batch after it. `FailedOnlyWhenDrained`: the
  exception "closed with no pending rows" is true. `NoLostWakeup`: a task asleep
  with its predicate true is owed a notification. `QueueInv`, and
  `TakeInv` inside `IInv`: the counter and the deque agree at each iteration, so
  `front()` is never called on an empty deque. `CloseEndsTasks`: after a close no
  task waits for ever. `ReadyBatchIsTaken`: a batch that is ready does not stay
  while a task waits for it.
* `RowMajor`: element by element, the batches, finished or not, and the rows in
  the deque that no batch has taken are the rows that their numbers in
  `DataSource` say: nothing is transposed to a wrong place, read twice, read
  after it was moved from, or lost to an allocation that failed.
* `UniqueOwner`, `OrphanClosed`: a State has at most one owner, and is closed
  once it has none. `HandleInv`, inside `IInv`, says why. `OrphanTasksEnd`: a task of a source
  that is gone ends. `CallsReturn`: the only call that may stay is the join of a
  task whose source is open and still owned, which is the deadlock that a thread
  makes by itself when it drops a future before it closes the source.
* `MemorySafe`: `from_blob` reads and `memcpy` writes inside the buffers, in
  mathematical integers and whatever `size_t` does. `RetrySucceeds`: the size a
  refusal reports is enough. `RaceFree`, `ErrorTells`: for the two disciplines,
  no two threads write `last_error` at once, and an idle session's message is
  that of the last call, empty after a success; if that call threw out of the C++
  `forward`, it is that of the last call before it that did not, however many
  threw in between. Forwarders never put a message there: for them the property
  says that it stays empty. A serial host that mixes the two APIs is the case
  where it can be stale.
* `ReadsInside`: what is decrypted or copied ends where the pack ends.
  `LoadsGenuine`: a session exists only for a pack of the format that the tools
  write, an encrypted one only with its own key. `GeneratedParses`: what
  `generate_blob.py` accepted is never refused as malformed. `InitOnce`: OpenSSL
  is initialised once and before it is used. `SecretsCleared`: after a call only
  the stream's copy of the model may be left, and on two error paths the key.
  `CreateReturns`: `model_create` ends.
* `KeyRestored`: whatever was drawn and in whatever order the stages run, each
  call of the generated function returns the key of the package.
* `NpyReadsInside`: header and data that the runner copies are inside the file,
  for all shapes, zeros and overflows. `InputAccepted`: what its reader lets
  through, the session's checks let through. `CleanExit`: the session is
  destroyed before the library is closed, and at the end neither is left; a
  session is left exactly if the catch block's own look-up of `model_destroy`
  failed, and then the exit code is 1. `ExitTells`: the exit code
  says whether there is an output, but for what the stream's destructor loses.
  `RunnerEnds`: it ends for any file.
* `ResultTells`: a row of the benchmark shows the timing of its own session, all
  rows are there when it returns 0, and a message is that of the call that failed.
* `ScriptsDeliver`: when a script uses a library, this holds the script's own
  model and opens, whatever was left behind by commands that were stopped before.
  `ResultsCompare`: the two rows that are summarised are of one model and this
  run.

### Divergences

Three runs state what the repository says of the program, and TLC finds a
behaviour of the code in which it is not so.

* `session_probe`: both clients take a probe that is not refused with -3 for an
  error (`tools/run_dlopen_model.cpp:330`, `tools/validate_ctypes.py:94`). For
  an input of no rows the output needs 0 bytes, the probe's 0 bytes are enough
  (`runtime/src/model_session.cpp:521`), and it returns 0. The README says that
  the batch size is dynamic, and line 345 of the runner prepares for an empty
  output, which line 332 never lets it reach.
* `load_cleanup`: `README.md:82` ends `model_create` with clearing the temporary
  key and plaintext buffers. The copy that `std::istringstream` makes at
  `model_session.cpp:337` is released uncleared on every path, and an exception
  at line 266 (allocation) or 273 (`checked_int_size`) leaves the function
  without clearing the key. `SecretsCleared` is the exact version that holds.
* `runner_save`: `save_npy_float32` tests the stream after the last write
  (`tools/run_dlopen_model.cpp:223`) while the end of the data may still be
  buffered, and the destructor that flushes it cannot report a failure. The
  message of line 224 promises that an output that cannot be written is an error;
  the program prints the output's name and returns 0. `ExitTells` is the version
  that holds.

Two behaviours of the pipeline limit what `ScriptsDeliver` can say. No document
contradicts them, so they are no findings:

* The benchmark script builds the plaintext library before it writes a key
  source, with whatever key source an earlier command left, a half-written one
  included; that library needs no key, so the property asks for none.
* `encrypt_model.py` by hand followed by a build, without `generate_blob.py`
  between, compiles the new key but may keep the object with the old package:
  the file embedded by `.incbin` is not a dependency of the object. The library
  then refuses to open its own pack. Both scripts generate the blob in between,
  which is why they deliver.

### Bounds

* `ds`: 7 rows in inserts of up to 4 with batches of 3 give batches inside
  a chunk, across two and three chunks, two full batches and a short tail, and
  an exact fit at close. Two clients and two tasks are the fewest with which a
  poll takes the rows a woken task wanted while another task sleeps. One
  allocation that fails meets every other step; a second one adds repetition.
  Runs with liveness properties use no symmetry.
* Row layout: three columns and chunks of up to four rows tell rows from columns
  and offsets in rows from offsets in elements; 8 rows are two full batches and a
  tail. The interleavings are those of `ds`, so one client is enough.
* Handles: two objects and two States are what an assignment needs; a third
  State would be another `Construct`. Rows are capped per State (`MaxRows`), the
  code's counter is not; 2 rows are a batch and less than a batch.
* Session: with `SizeMax` 15, features 2 and floats of 2 bytes, a batch of 4
  makes the byte count wrap to 0 while the element count does not, one row needs
  4 bytes of input and 2 of output, and buffers of 0 and 4 bytes are too small
  and large enough. Batches -1 and 0 are the edges of the checks. One address is
  enough for reuse after `model_destroy`, two threads for a race.
* Loading: a header has 36 bytes, so `SizeMax` 63 has room for a pack with a tag
  and a little ciphertext, and is narrower than the length field, which some
  packs use for a length that wraps to the right one. The packs end before, at
  and after the end of every field; `IntMax` 10 makes the longest ciphertext one
  that OpenSSL cannot take. Three threads are needed for a thread that waits for
  an initialisation that fails while a third takes it over; two failures
  (`MaxInitFails`) let that happen again.
* Key shares: rotations by 1 and `WordBits` - 1, constants whose sum carries and
  wraps, and tokens with bits in both words; the last share is computed, the
  others drawn, so 2 and 3 shares have every kind.
* Runner: `SizeMax` 63 makes the element count, the byte count or only their
  product with 4 overflow, to small numbers too; files end before, at and after
  each field and the data, and zeros come before and after the dimension that
  would overflow.
* Benchmark: none, one and several iterations of both loops.
* Pipeline: two models tell an old file from a new one; with four commands a
  script that was stopped, a command by hand and a second script follow each
  other.
* Every bound is a constant of the module. The theorems below hold for all of
  their values, so an artefact of a small bound would fail the proofs.

### Fairness

`DataSource`: weak fairness of a thread that is inside a call: it notifies after
the unlock, it ends its copying loop, and a started or woken task eventually
gets the mutex. The code holds the mutex only for bounded loops and never blocks
under it (`MutexHeldBriefly` is the proof of the bound). Weak fairness of the mutex is justified by the bounded number of
inserts: a behaviour has finitely many takes, after which the mutex stays free.
Clients are not obliged to call anything, and no spurious wake-up is assumed.

`DataSourceHandle`: weak fairness of the calls that were begun and of tasks that
can run.

`ModelLoad`: weak fairness of a thread inside `model_create`: no step of it
blocks but the wait for the `once_flag`. OpenSSL, the allocator and
`torch::jit::load` return, with success or without. That an initialisation fails
only finitely often (`MaxInitFails`) is implied by the finitely many calls.

`Runner`: weak fairness of its steps: one thread, bounded loops, and library
calls that return.

No liveness is claimed of `ModelSession`: how long a model runs is not
known to the code.

Deadlock is not checked in `ds`, `ds_handle` and `row_layout`: a source whose
rows are used up rightly stops, and threads may all wait for the futures of open
sources (see `CallsReturn`). Nor in `pipeline`, which `MaxRuns` ends. The other
models never stop, or stutter explicitly once the program has returned, and TLC
checks that.

## Proofs

All theorems are for arbitrary constants under the named assumptions
(`DataSourceAssumption`, `LayoutAssumption`, `HandleAssumption`,
`SessionAssumption`, `PackAssumption`, `LoadAssumption`, `RunnerAssumption`,
`BenchmarkAssumption`, `PipelineAssumption`, `KeyAssumption`), which say that the
sets of threads are disjoint, that `target_rows`, the numbers of columns and
features and the size of a float are positive, as constructor and code require,
that words and their values correspond one to one, and that packs, files, limits
and bounds have the right types.
Sets of threads, handles and States may be infinite.

Each proof module has the same plan: an inductive invariant `IInv`, proofs of
`Init => IInv` and `IInv /\ [Next]_vars => IInv'`, the theorem
`Spec => []IInv`, and the properties as its consequences. TLC checks `IInv`, or
its conjuncts one by one, in the runs; the invariants of `KeySharesProofs` and
`Benchmark`, and the types of `RowLayout`, are used by the proofs only.

* **DataSource.** The properties are not inductive alone. That a batch carries
  the right rows needs `TakeOK`: what thread `t` has copied so far, and what is
  missing, are the rows after the last batch, in order, and are in the deque;
  that in turn needs `QueueInv`, which ties each chunk's numbers, its offset,
  and `rows_ready` together. `LastIsFinal` needs that the mark, set before the
  copying, still says the truth at each iteration: `is_last` iff the source is
  closed and what is missing is all there is, which holds since nobody inserts
  or closes while the mutex is held. The lemmas `RowsPart`, `RowsJoin`,
  `CopyMovesRows`, `ConsumeFront` are about sequences of consecutive numbers.
  `ImplementsStream` maps `ReturnBatch` to `Deliver`, `Insert` to `Accept`,
  `Close` to `Close`, and the rest to stuttering. `MutexHeldBriefly` is about
  each step made while the mutex is held: its holder copies at least a row, since
  no chunk in the deque is used up (`HolderStep`), or lets go, and the others
  touch nothing that it protects (`FreeStep`).
* **RowLayout.** A step of it is a step of `DataSource` (`LayoutIsDataSource`),
  so `IInv` and the other theorems hold of it, and `LayoutImplementsStream`
  follows. `LayoutInv` adds what the vectors hold. `AtRange` and `AtUnique`:
  the index of a row and a column is inside the vector, and no other row and
  column has it; with them the loops of `insert` put each element in its place
  once (`FlatHolds`), and a moved range lands where the row numbers say
  (`MoveIntoHolds`), for any number of columns. That a range that was moved from
  is never read again needs `QueueInv`: it is in front of the chunk's offset.
* **State of a source.** Two theorems meet in `SourceState`: `ImplementsState`
  says that the queue is one, with rows under way to a batch counted until the
  batch is returned, and `HandlesKeepContract` that handles, calls and futures do
  nothing to a State that it does not allow. The former needs that the rows
  pending when a take begins are still what `IsLast` and the batch's size were
  computed from when it ends (`BatchIsPending`, from `TakeOK`); the latter needs
  no more than the types.
* **DataSourceHandle.** `OrphanClosed` needs that the State is closed between
  the `close()` of a destructor and the release of the pointer (`HandleInv`),
  and that no other handle shares it (`UniqueOwner`).
* **ModelSession.** `MemorySafe` rests on arithmetic: if `Overflows` is false,
  the wrapped product is the true one (`BytesExact`), and an output is no larger
  than its input, so `fill_output_desc_shape` cannot throw once the model has
  returned (`OutputFits`; `NumFeatures` is at least 1). `RetrySucceeds` needs
  that the descriptor of a refused call keeps the required size until it is used
  again. `RaceFree` needs `MutexInv` for forwarders and `HostInv` for serial
  hosts. `ErrorTells` needs `ErrorInv`: the message differs from the last
  answer only while a C call that has cleared it is still under way, and what
  ended after that answer threw. Memory safety would
  hold of a `forward` that refuses everything; `OverflowChecksExact` and
  `NeverRefusedInVain` are the converse: the checks refuse no shape whose bytes a
  `size_t` can hold, and a call is invalid, or short of room, only if it is
  (`RefusalsJustified`). `OneRunAtATime` (`OneRun`): no discipline of the host
  is needed for the model to run in one call at a time.
* **ModelPack and ModelLoad.** `ParserAgreesOnEncrypted` and
  `ParserAgreesOnPlaintext` are theorems about the format alone: for every width
  of `size_t`, parser and generator accept the same packs. They rest on
  `offset <= size` before each field, which makes the subtractions of
  `ByteReader` exact. The properties of a load then follow from what a thread at
  each step knows: of the pack and the key (`PackInv`), of the once-flag
  (`OnceInv`: the flag is busy while exactly one thread initialises), and of its
  buffers (`DirtyInv`, which lists the dirty buffers step by step and is what
  makes `SecretsCleared` inductive).
* **Runner.** `NpyReadsInside` is about the product without bounds
  (`true_count`): `DimsInv` says that the test before each multiplication keeps
  the wrapped product equal to it, and for a matrix which factors it has.
  `ImplementsHost` maps `Probe` to `CallC` of `ModelSession`, `Call` to `Retry`
  (`ProbeIsCall`, `CallIsRetry`), `Create` and `Destroy` to their namesakes, the
  library's steps to `Continue`, and all else to stuttering. It needs `CallInv`,
  which follows a call through the session: a refused probe leaves the size of
  the output in the descriptor, so that the second call has the room the session
  asks for. `ExitTells` needs `ExitInv`, what is saved at each step.
  `ImplementsClient` maps the steps that open, create, destroy and close to those
  of `LibraryClient`, and the close after `LookupFails` to `CloseOnLost`; that
  there is no other way to close with a session left is `LibraryInv` (at
  `catch_close` there is a session iff the look-up failed). `ProgramRunsOut` bounds the run: `StepsLeft` adds the steps
  of `main`, those of the call it is in, and the dimensions to be counted, and
  every step lowers it. It is what `RunnerEnds` adds to fairness.
* **Benchmark.** `ResultsTell` rests on `LoopInv`, which ties the number of calls
  to the position in the two loops, and on `TimingInv`, which session the pointer
  belongs to. `ImplementsClient` needs that at most one session is there
  (`ClientInv`).
* **BuildPipeline.** `LibrariesDelivered` needs, for each step of a script, what
  the steps before it have written (`PipelineInv`, `BenchmarkInv`) and that an
  object that the build tool leaves alone is that of its source (`FreshInv`).
  For the package, which is embedded without the build tool's knowledge, only the
  order generate, compile helps: writing `blob.cpp` makes its object out of date.
* **KeyShares.** `DecodeEncode` says that decoding is the inverse of encoding for
  all words, constants and rotations, from `XorTwice`, `MinusPlus` (modular
  subtraction undoes addition) and `RotateBack`. That the xor of all shares is the
  key, in any order, is said without recursion: a bit is in the result iff an odd
  number of the shares have it (`OddAdd`, on cardinalities), and
  `ExchangeKeepsAll` says that the shuffle leaves a permutation.

Model-checked only: the liveness properties (`CloseEndsTasks`,
`ReadyBatchIsTaken`, `OrphanTasksEnd`, `CallsReturn`, `CreateReturns`,
`RunnerEnds`), as fairness and ENABLED are outside what the prover handles. Every
safety property of a passing run is a theorem.

Proved, and in no run: `SourceSpec` of `DataSource` and of `DataSourceHandle`,
`HeldBriefly`, `ClientSpec` and `StepsDecrease` of `Runner`, `OneRun` and
`RefusalsJustified` of `ModelSession`. Adding one to the `.cfg` of its module
checks it on the instance of that run.

## Not modelled

* Moving a C++ `ModelSession` and calling `forward_c` on what is left
  (`runtime/src/model_session.cpp:539`): nothing in the repository does it.
* Readers of `last_error` in other threads, and the messages of calls without a
  session. Of a free host nothing is said about `last_error` at all.
* A host that, after a refusal, calls again with its old buffer and the
  overwritten size: it claims room that it has not, and no code can see that.
* Null handles and arguments of the C API beyond those of `model_create` and the
  descriptors: each is an early return with a message for the thread.
* In loads: allocations of small objects before there is a secret, and what
  OpenSSL and PyTorch keep in their own memory.
* Two scripts or builds at once, and the steps inside one compilation: `Compile`
  reads key source, blob source and package in one step, and file times are taken
  to distinguish any two writes.
* `BUILD_DIR` taken from the environment (`scripts/build_linux.sh:6`): the three
  build directories are those the scripts name. The rows that one benchmark
  program appends to `results.csv` come all or not at all; the header written
  first truncates what a stopped one left.
* In the `.npy` reader 10 or 12 and the length of the header are added without
  wrap-around: the length has at most 32 bits and `size_t` 64.
* `validate_ctypes.py`: its two calls are those of the runner, without a file.
* The texts: C++ as generated, headers of `.npy` files, messages.
* The numbers that the model computes; the Python model definition and the
  scripts that compare its outputs; the unit test and the dependency check.

## Plan

What was planned is there; what would add most to it, in this order:

1. The steps of a load counted as `StepsLeft` counts those of the runner, for
   `CreateReturns`, and those of the benchmark.
2. Two commands at once in `BuildPipeline`: both scripts write the same sources.
3. Moves of C++ sessions, once a program in the repository uses them.
