--------------------------- MODULE BuildPipeline ---------------------------
(***************************************************************************)
(* The files on the way from a model to libmodel.so, and the commands that *)
(* write them: run_pipeline_linux.sh, benchmark_crypto_linux.sh, and the   *)
(* commands of both run by hand, one at a time, each of which may fail or  *)
(* be stopped at any point, with a file half written.                      *)
(*                                                                         *)
(* A key and a package that match are written one after the other; the     *)
(* blob source names the file to embed, which the assembler reads when it  *)
(* is compiled; and a build compiles a source again only if that has been  *)
(* written since, while nothing knows that the file embedded was.          *)
(*                                                                         *)
(* Data.  A model is a number, and so is the size of its file; a key is    *)
(* the number of the encryption that drew it.                              *)
(***************************************************************************)
EXTENDS Integers, Sequences

CONSTANTS
  Models,   \* the models that may be created
  MaxRuns   \* bound on the scripts and commands that are started

None == 0      \* no file
Partial == -1  \* a file half written

ASSUME PipelineAssumption == Models \subseteq Nat \ {None} /\ MaxRuns \in Nat

(* Of the three build directories, two need a package to embed.            *)
BuildDirs == {"main", "plain", "gcm"}
PackageDirs == {"main", "gcm"}
Objects == {"key", "blob"}

VARIABLES
  expected,  \* expected_output.npy, with sample_input.npy: the model they are of
  pt,        \* factor_mlp.pt
  key_src,   \* aes_key_obfuscated.cpp: a key
  enc,       \* for each PackageDir weights.enc: a key and a model
  blob_src,  \* blob.cpp: what it embeds, and the size it says that has
  object,    \* for each BuildDir what was compiled into libmodel.so
  fresh,     \* for each BuildDir the objects newer than their sources
  csv,       \* results.csv: build directories and the models measured
  plan,      \* what is run: the name of a script or command, or "none"
  step,      \* its next step
  writing,   \* the file that the step writes is half written
  model,     \* the model it creates
  keys,      \* how many keys were drawn
  runs       \* how many scripts and commands were started

files == <<expected, pt, key_src, enc, blob_src>>
built == <<object, fresh>>
process == <<plan, step, writing, model, runs>>
vars == <<files, built, csv, process, keys>>

-----------------------------------------------------------------------------
(* The scripts and commands, as their steps in order: files to write and   *)
(* what else is done.                                                      *)

Do(op, dir) == [op |-> op, dir |-> dir]

Script == [
  pipeline  |-> <<Do("expected", "main"), Do("pt", "main"), Do("key", "main"),
                  Do("enc", "main"), Do("blob", "main"), Do("build", "main"),
                  Do("use", "main")>>,
  benchmark |-> <<Do("expected", "main"), Do("pt", "main"), Do("csv", "main"),
                  Do("blob", "plain"), Do("build", "plain"), Do("use", "plain"),
                  Do("key", "gcm"), Do("enc", "gcm"), Do("blob", "gcm"),
                  Do("build", "gcm"), Do("use", "gcm"), Do("summary", "main")>>,
  create    |-> <<Do("expected", "main"), Do("pt", "main")>>,
  encrypt   |-> <<Do("key", "main"), Do("enc", "main")>>,
  generate  |-> <<Do("blob", "main")>>,
  baseline  |-> <<Do("blob", "plain")>>,
  build     |-> <<Do("build", "main")>>,
  none      |-> <<>>]

Current == Script[plan][step]
At(op) == plan # "none" /\ Current.op = op

NoPackage == [key |-> None, model |-> None]
PartialPackage == [key |-> Partial, model |-> Partial]
NoBlob == [from |-> "none", size |-> None]
PartialBlob == [from |-> "partial", size |-> None]
NoObject == [key |-> None, blob |-> NoBlob, with |-> NoPackage]

Init ==
  /\ expected = None /\ pt = None /\ key_src = None
  /\ enc = [d \in PackageDirs |-> NoPackage] /\ blob_src = NoBlob
  /\ object = [d \in BuildDirs |-> NoObject] /\ fresh = [d \in BuildDirs |-> {}]
  /\ csv = <<>>
  /\ plan = "none" /\ step = 1 /\ writing = FALSE /\ model = None
  /\ keys = 0 /\ runs = 0

Start(p) ==
  /\ plan = "none" /\ runs < MaxRuns
  /\ plan' = p /\ step' = 1 /\ writing' = FALSE /\ runs' = runs + 1
  /\ model' \in Models
  /\ UNCHANGED <<files, built, csv, keys>>

(* The next step, or the end.                                              *)
Advance ==
  /\ writing' = FALSE
  /\ IF step < Len(Script[plan]) THEN step' = step + 1 /\ UNCHANGED plan
     ELSE step' = 1 /\ plan' = "none"
  /\ UNCHANGED <<model, runs>>

(* Fault: AfterFailure of a script without set -e.                         *)
GoOn == Advance

(* A step that fails ends the script.                                      *)
AfterFailure ==
  /\ plan' = "none" /\ step' = 1 /\ writing' = FALSE
  /\ UNCHANGED <<model, runs>>

Stop ==
  /\ plan # "none" /\ AfterFailure
  /\ UNCHANGED <<files, built, csv, keys>>

-----------------------------------------------------------------------------
(* The writes.  Opening a file for writing truncates it.                   *)

Opened(op) ==
  /\ At(op) /\ ~writing /\ writing' = TRUE
  /\ UNCHANGED <<plan, step, model, runs>>

Closed(op) == At(op) /\ writing /\ Advance

(* Fault: Outdated that only the default build directory notices.          *)
OutdatedInMain(source) == fresh' = [fresh EXCEPT !["main"] = @ \ {source}]

(* Objects of a source that was written are out of date.                   *)
Outdated(source) == fresh' = [d \in BuildDirs |-> fresh[d] \ {source}]

(* create_factor_mlp.py saves the samples and then the model.              *)
CreateFactorMlp ==
  /\ \/ Opened("expected") /\ expected' = Partial /\ UNCHANGED pt
     \/ Closed("expected") /\ expected' = model /\ UNCHANGED pt
     \/ Opened("pt") /\ pt' = Partial /\ UNCHANGED expected
     \/ Closed("pt") /\ pt' = model /\ UNCHANGED expected
  /\ UNCHANGED <<key_src, enc, blob_src, built, csv, keys>>

(* encrypt_model.py refuses an empty input, draws a key, writes its source *)
(* and then the package.                                                   *)
WriteKey ==
  /\ \/ /\ Opened("key") /\ pt # None /\ keys' = keys + 1 /\ key_src' = Partial
     \/ Closed("key") /\ key_src' = keys /\ UNCHANGED keys
  /\ Outdated("key")
  /\ UNCHANGED <<expected, pt, enc, blob_src, object, csv>>

WritePackage ==
  /\ \/ Opened("enc") /\ enc' = [enc EXCEPT ![Current.dir] = PartialPackage]
     \/ /\ Closed("enc")
        /\ enc' = [enc EXCEPT ![Current.dir] = [key |-> keys, model |-> pt]]
  /\ UNCHANGED <<expected, pt, key_src, blob_src, built, csv, keys>>

(* generate_blob.py accepts a whole package, or any model; it writes where *)
(* its input is, and of a model the size, too.                             *)
InputAccepted(dir) ==
  IF dir = "plain" THEN pt # None ELSE enc[dir].key \notin {None, Partial}

WriteBlob ==
  /\ \/ Opened("blob") /\ InputAccepted(Current.dir) /\ blob_src' = PartialBlob
     \/ /\ Closed("blob")
        /\ blob_src' = [from |-> Current.dir,
                        size |-> IF Current.dir = "plain" THEN pt ELSE None]
  /\ Outdated("blob")
  /\ UNCHANGED <<expected, pt, key_src, enc, object, csv, keys>>

-----------------------------------------------------------------------------
(* The build: both objects in either order; the sources that do not exist  *)
(* are replaced by those of an empty library.                              *)

(* What the assembler finds now in the place of what the blob names.       *)
Embedded ==
  CASE blob_src.from \in PackageDirs -> enc[blob_src.from]
    [] blob_src.from = "plain"       -> [key |-> None, model |-> pt]
    [] OTHER                         -> NoPackage

Compile ==
  /\ At("build")
  /\ LET d == Current.dir
     IN  /\ \/ /\ "key" \notin fresh[d]
               /\ object' = [object EXCEPT ![d].key = key_src]
               /\ fresh' = [fresh EXCEPT ![d] = @ \cup {"key"}]
            \/ /\ "blob" \notin fresh[d]
               /\ object' = [object EXCEPT ![d].blob = blob_src, ![d].with = Embedded]
               /\ fresh' = [fresh EXCEPT ![d] = @ \cup {"blob"}]
  /\ UNCHANGED <<files, csv, process, keys>>

Link ==
  /\ At("build") /\ fresh[Current.dir] = Objects /\ Advance
  /\ UNCHANGED <<files, built, csv, keys>>

-----------------------------------------------------------------------------
(* The uses of the library                                                 *)

(* model_create finds a whole model, under the key that was compiled in,   *)
(* or of the size that was.                                                *)
Holds(lib) ==
  /\ lib.with.model \in Models
  /\ IF lib.blob.from = "plain" THEN lib.blob.size = lib.with.model
     ELSE lib.with.key = lib.key

(* A half-written source compiles to an object without its functions, if   *)
(* at all, and the library cannot be opened.                               *)
Opens(lib) == Holds(lib) /\ lib.key # Partial

(* validate_ctypes.py compares the outputs with those expected;            *)
(* benchmark_create appends its rows to the results.                       *)
UseLibrary ==
  /\ At("use") /\ Advance
  /\ LET lib == object[Current.dir]
     IN  /\ Opens(lib)
         /\ IF Current.dir = "main" THEN lib.with.model = expected /\ UNCHANGED csv
            ELSE csv' = Append(csv, [dir |-> Current.dir, model |-> lib.with.model])
  /\ UNCHANGED <<files, built, keys>>

(* Fault: HeaderOfCsv that is appended, too.                               *)
AppendHeader == csv' = csv

HeaderOfCsv == csv' = <<>>

StartCsv ==
  /\ At("csv") /\ HeaderOfCsv /\ Advance
  /\ UNCHANGED <<files, built, keys>>

Summarize ==
  /\ At("summary") /\ Advance
  /\ UNCHANGED <<files, built, csv, keys>>

Next ==
  \/ \E p \in DOMAIN Script \ {"none"} : Start(p)
  \/ Stop
  \/ CreateFactorMlp \/ WriteKey \/ WritePackage \/ WriteBlob
  \/ Compile \/ Link
  \/ UseLibrary \/ StartCsv \/ Summarize

Spec == Init /\ [][Next]_vars

-----------------------------------------------------------------------------
(* Correctness.                                                            *)

(* Whatever was run before and wherever it was stopped, when a script gets *)
(* to the step that uses a library, that library holds the model that the  *)
(* script created, with the key or the size that belong to it, and opens,  *)
(* with one exception: the plaintext baseline is built before the script   *)
(* writes a key source, with the one that it finds.                        *)
ScriptsDeliver ==
  At("use") =>
    LET lib == object[Current.dir]
    IN  /\ Holds(lib) /\ lib.with.model = model
        /\ lib.blob.from = Current.dir
        /\ Current.dir = "main" => expected = model
        /\ Current.dir # "plain" => Opens(lib)

(* The results that are summarised are those of this run: both cases, of   *)
(* one model.                                                              *)
ResultsCompare ==
  At("summary") =>
    csv = <<[dir |-> "plain", model |-> model], [dir |-> "gcm", model |-> model]>>

Contents == Nat \cup {Partial}
Packages == [key : Contents, model : Contents]
Blobs == [from : BuildDirs \cup {"none", "partial"}, size : Contents]

TypeOK ==
  /\ expected \in Contents /\ pt \in Contents /\ key_src \in Contents
  /\ enc \in [PackageDirs -> Packages] /\ blob_src \in Blobs
  /\ object \in [BuildDirs -> [key : Contents, blob : Blobs, with : Packages]]
  /\ fresh \in [BuildDirs -> SUBSET Objects]
  /\ csv \in Seq([dir : BuildDirs, model : Contents])
  /\ plan \in DOMAIN Script /\ writing \in BOOLEAN
  /\ IF plan = "none" THEN step = 1 ELSE step \in 1..Len(Script[plan])
  /\ plan # "none" => model \in Models
  /\ keys \in Nat /\ runs \in Nat

(* An object that is not out of date is that of its source.                *)
FreshInv ==
  \A d \in BuildDirs :
    /\ "key" \in fresh[d] => object[d].key = key_src
    /\ "blob" \in fresh[d] => object[d].blob = blob_src

(* What a script has written, from the step after the one that wrote it to *)
(* the last that needs it.  Only between generating and building is the    *)
(* file embedded the one that was there when the blob was generated.       *)
Named(dir, content) ==
  /\ blob_src = [from |-> dir, size |-> IF dir = "plain" THEN model ELSE None]
  /\ "blob" \in fresh[dir] => object[dir].with = content

Encrypted == [key |-> keys, model |-> model]
Plain == [key |-> None, model |-> model]

PipelineInv ==
  plan = "pipeline" =>
    /\ step > 1 => expected = model
    /\ step > 2 => pt = model
    /\ step > 3 => key_src = keys
    /\ step > 4 => enc["main"] = Encrypted
    /\ step > 5 => Named("main", Encrypted)
    /\ step > 6 => fresh["main"] = Objects

Row(dir) == [dir |-> dir, model |-> model]

BenchmarkInv ==
  plan = "benchmark" =>
    /\ step > 2 => pt = model
    /\ step \in 4..6 => csv = <<>>
    /\ step \in 5..6 => Named("plain", Plain)
    /\ step = 6 => fresh["plain"] = Objects
    /\ step \in 7..11 => csv = <<Row("plain")>>
    /\ step > 7 => key_src = keys
    /\ step > 8 => enc["gcm"] = Encrypted
    /\ step > 9 => Named("gcm", Encrypted)
    /\ step > 10 => fresh["gcm"] = Objects
    /\ step = 12 => csv = <<Row("plain"), Row("gcm")>>

(* All of it together is inductive.                                        *)
IInv == TypeOK /\ FreshInv /\ PipelineInv /\ BenchmarkInv

=============================================================================
