------------------------ MODULE BuildPipelineProofs ------------------------
(* Proofs about the files of the build, for any history of commands that   *)
(* were run or stopped.                                                    *)
EXTENDS BuildPipeline, TLAPS

(* The steps of the two scripts that use what they build.                  *)
LEMMA PipelineSteps ==
  /\ DOMAIN Script = {"pipeline", "benchmark", "create", "encrypt", "generate",
                      "baseline", "build", "none"}
  /\ Len(Script["pipeline"]) = 7
  /\ Script["pipeline"][1] = Do("expected", "main")
  /\ Script["pipeline"][2] = Do("pt", "main")
  /\ Script["pipeline"][3] = Do("key", "main")
  /\ Script["pipeline"][4] = Do("enc", "main")
  /\ Script["pipeline"][5] = Do("blob", "main")
  /\ Script["pipeline"][6] = Do("build", "main")
  /\ Script["pipeline"][7] = Do("use", "main")
  BY DEF Script

LEMMA BenchmarkSteps ==
  /\ Len(Script["benchmark"]) = 12
  /\ Script["benchmark"][1] = Do("expected", "main")
  /\ Script["benchmark"][2] = Do("pt", "main")
  /\ Script["benchmark"][3] = Do("csv", "main")
  /\ Script["benchmark"][4] = Do("blob", "plain")
  /\ Script["benchmark"][5] = Do("build", "plain")
  /\ Script["benchmark"][6] = Do("use", "plain")
  /\ Script["benchmark"][7] = Do("key", "gcm")
  /\ Script["benchmark"][8] = Do("enc", "gcm")
  /\ Script["benchmark"][9] = Do("blob", "gcm")
  /\ Script["benchmark"][10] = Do("build", "gcm")
  /\ Script["benchmark"][11] = Do("use", "gcm")
  /\ Script["benchmark"][12] = Do("summary", "main")
  BY DEF Script

LEMMA ScriptLength ==
  ASSUME NEW p \in DOMAIN Script
  PROVE  Len(Script[p]) \in Nat
<1>1. CASE p \in {"create", "encrypt", "generate", "baseline", "build", "none"}
  BY <1>1 DEF Script
<1>2. QED
  BY <1>1, PipelineSteps, BenchmarkSteps

(* A step of any script is in one of the directories that it may be in.    *)
LEMMA StepDirs ==
  ASSUME NEW p \in DOMAIN Script, NEW k \in 1..Len(Script[p])
  PROVE  /\ Script[p][k].dir \in BuildDirs
         /\ Script[p][k].op \in {"key", "enc"} => Script[p][k].dir \in PackageDirs
<1> USE DEF Do, BuildDirs, PackageDirs
<1>1. CASE p = "pipeline"
  <2>1. k \in 1..7
    BY <1>1, PipelineSteps
  <2>2. QED
    BY <1>1, <2>1, PipelineSteps
<1>2. CASE p = "benchmark"
  <2>1. k \in 1..12
    BY <1>2, BenchmarkSteps
  <2>2. QED
    BY <1>2, <2>1, BenchmarkSteps
<1>3. CASE p = "create"
  BY <1>3 DEF Script
<1>4. CASE p = "encrypt"
  BY <1>4 DEF Script
<1>5. CASE p = "generate"
  BY <1>5 DEF Script
<1>6. CASE p = "baseline"
  BY <1>6 DEF Script
<1>7. CASE p = "build"
  BY <1>7 DEF Script
<1>8. CASE p = "none"
  BY <1>8 DEF Script
<1>9. QED
  BY <1>1, <1>2, <1>3, <1>4, <1>5, <1>6, <1>7, <1>8, PipelineSteps

LEMMA InitIInv == Init => IInv
<1> SUFFICES ASSUME Init PROVE IInv
  OBVIOUS
<1> USE DEF None
<1>1. TypeOK
  <2>1. 0 \in Contents /\ NoPackage \in Packages /\ NoBlob \in Blobs
    BY DEF Contents, NoPackage, Packages, NoBlob, Blobs
  <2>2. NoObject \in [key : Contents, blob : Blobs, with : Packages]
    BY <2>1 DEF NoObject
  <2>3. enc \in [PackageDirs -> Packages]
    BY <2>1 DEF Init
  <2>4. object \in [BuildDirs -> [key : Contents, blob : Blobs, with : Packages]]
    BY <2>2 DEF Init
  <2>5. fresh \in [BuildDirs -> SUBSET Objects]
    BY DEF Init
  <2>6. plan \in DOMAIN Script /\ plan = "none" /\ step = 1
    BY PipelineSteps DEF Init
  <2>7. csv \in Seq([dir : BuildDirs, model : Contents])
    BY DEF Init
  <2>8. writing \in BOOLEAN /\ keys \in Nat /\ runs \in Nat
    BY DEF Init
  <2>9. blob_src \in Blobs /\ expected \in Contents /\ pt \in Contents
        /\ key_src \in Contents
    BY <2>1 DEF Init
  <2>10. QED
    BY <2>3, <2>4, <2>5, <2>6, <2>7, <2>8, <2>9 DEF TypeOK
<1>2. FreshInv /\ PipelineInv /\ BenchmarkInv
  BY DEF Init, FreshInv, PipelineInv, BenchmarkInv
<1>3. QED
  BY <1>1, <1>2 DEF IInv

(* The types of what says where a script is.                               *)
ProcessOK ==
  /\ plan \in DOMAIN Script /\ writing \in BOOLEAN
  /\ IF plan = "none" THEN step = 1 ELSE step \in 1..Len(Script[plan])
  /\ plan # "none" => model \in Models
  /\ runs \in Nat

LEMMA AdvanceOK ==
  ASSUME TypeOK, plan # "none", Advance
  PROVE  /\ ProcessOK' /\ model' = model
         /\ plan' = "none" \/ (plan' = plan /\ step' = step + 1)
<1>1. step \in 1..Len(Script[plan]) /\ Len(Script[plan]) \in Nat
  BY ScriptLength DEF TypeOK
<1>2. "none" \in DOMAIN Script
  BY PipelineSteps
<1>3. CASE step < Len(Script[plan])
  <2>1. plan' = plan /\ step' = step + 1 /\ model' = model /\ runs' = runs
        /\ writing' = FALSE
    BY <1>3 DEF Advance
  <2>2. step + 1 \in 1..Len(Script[plan])
    BY <1>1, <1>3
  <2>3. QED
    BY <2>1, <2>2 DEF TypeOK, ProcessOK
<1>4. CASE ~(step < Len(Script[plan]))
  BY <1>2, <1>4 DEF Advance, TypeOK, ProcessOK
<1>5. QED
  BY <1>3, <1>4

LEMMA OpenedOK ==
  ASSUME TypeOK, plan # "none", plan' = plan, step' = step, model' = model,
         runs' = runs, writing' = TRUE
  PROVE  ProcessOK'
  BY DEF TypeOK, ProcessOK

(* Which steps of the two scripts do what.                                 *)
LEMMA PipelineAt ==
  ASSUME TypeOK, plan = "pipeline"
  PROVE  /\ step \in 1..7 /\ Current.dir = "main"
         /\ At("expected") => step = 1
         /\ At("pt") => step = 2
         /\ At("key") => step = 3
         /\ At("enc") => step = 4
         /\ At("blob") => step = 5
         /\ At("build") => step = 6
         /\ At("use") => step = 7
         /\ ~At("csv") /\ ~At("summary")
<1>1. step \in 1..7
  BY PipelineSteps DEF TypeOK
<1>2. QED
  BY <1>1, PipelineSteps DEF At, Current, Do

LEMMA BenchmarkAt ==
  ASSUME TypeOK, plan = "benchmark"
  PROVE  /\ step \in 1..12
         /\ At("expected") => step = 1
         /\ At("pt") => step = 2
         /\ At("csv") => step = 3
         /\ At("blob") => \/ step = 4 /\ Current.dir = "plain"
                          \/ step = 9 /\ Current.dir = "gcm"
         /\ At("build") => \/ step = 5 /\ Current.dir = "plain"
                           \/ step = 10 /\ Current.dir = "gcm"
         /\ At("use") => \/ step = 6 /\ Current.dir = "plain"
                         \/ step = 11 /\ Current.dir = "gcm"
         /\ At("key") => step = 7
         /\ At("enc") => step = 8 /\ Current.dir = "gcm"
         /\ At("summary") => step = 12
<1>1. step \in 1..12
  BY BenchmarkSteps DEF TypeOK
<1>2. QED
  BY <1>1, BenchmarkSteps DEF At, Current, Do

LEMMA CurrentDirs ==
  ASSUME TypeOK, plan # "none"
  PROVE  /\ Current.dir \in BuildDirs
         /\ At("enc") => Current.dir \in PackageDirs
         /\ At("blob") => Current.dir \in BuildDirs
  BY StepDirs DEF TypeOK, At, Current

(* A step starts to write, or ends, with the same model.                   *)
LEMMA OpenedMoves ==
  ASSUME TypeOK, NEW op, Opened(op)
  PROVE  At(op) /\ plan # "none" /\ plan' = plan /\ model' = model /\ step' = step
         /\ ProcessOK'
  BY OpenedOK DEF Opened, At

LEMMA ClosedMoves ==
  ASSUME TypeOK, NEW op, Closed(op)
  PROVE  /\ At(op) /\ plan # "none" /\ ProcessOK' /\ model' = model
         /\ plan' = "none" \/ (plan' = plan /\ step' = step + 1)
  BY AdvanceOK DEF Closed, At

LEMMA CreateStep == IInv /\ CreateFactorMlp => IInv'
<1> SUFFICES ASSUME IInv, CreateFactorMlp PROVE IInv'
  OBVIOUS
<1> USE DEF IInv
<1>1. UNCHANGED <<key_src, enc, blob_src, object, fresh, csv, keys>>
  BY DEF CreateFactorMlp, built
<1>2. /\ plan # "none" /\ ProcessOK' /\ model' = model
      /\ At("expected") \/ At("pt")
      /\ plan' = "none" \/ (plan' = plan /\ (step' = step \/ step' = step + 1))
  BY OpenedMoves, ClosedMoves DEF CreateFactorMlp
<1>3. model \in Contents
  BY <1>2, PipelineAssumption DEF TypeOK, Contents
<1>4. expected' \in Contents /\ pt' \in Contents
  BY <1>3 DEF CreateFactorMlp, TypeOK, Contents
<1>5. TypeOK'
  BY <1>1, <1>2, <1>4 DEF TypeOK, ProcessOK
<1>6. FreshInv'
  BY <1>1 DEF FreshInv
<1>7. PipelineInv'
  <2> SUFFICES ASSUME plan' = "pipeline" PROVE PipelineInv'
    BY DEF PipelineInv
  <2>1. plan = "pipeline" /\ step \in {1, 2}
    BY <1>2, PipelineAt
  <2>2. step' > 1 => expected' = model
    BY <2>1, <1>2, PipelineAt
    DEF CreateFactorMlp, PipelineInv, Opened, Closed, Advance
  <2>3. step' > 2 => pt' = model /\ step' = 3
    BY <2>1, <1>2, PipelineAt
    DEF CreateFactorMlp, PipelineInv, Opened, Closed, Advance
  <2>4. QED
    BY <2>1, <2>2, <2>3, <1>2 DEF PipelineInv
<1>8. BenchmarkInv'
  <2> SUFFICES ASSUME plan' = "benchmark" PROVE BenchmarkInv'
    BY DEF BenchmarkInv
  <2>1. plan = "benchmark" /\ step \in {1, 2}
    BY <1>2, BenchmarkAt
  <2>2. step' > 2 => pt' = model /\ step' = 3
    BY <2>1, <1>2, BenchmarkAt
    DEF CreateFactorMlp, Opened, Closed, Advance
  <2>3. QED
    BY <2>1, <2>2, <1>2 DEF BenchmarkInv
<1>9. QED
  BY <1>5, <1>6, <1>7, <1>8

LEMMA KeyStep == IInv /\ WriteKey => IInv'
<1> SUFFICES ASSUME IInv, WriteKey PROVE IInv'
  OBVIOUS
<1> USE DEF IInv
<1>1. UNCHANGED <<expected, pt, enc, blob_src, object, csv>>
  BY DEF WriteKey
<1>2. /\ plan # "none" /\ ProcessOK' /\ model' = model /\ At("key")
      /\ plan' = "none" \/ (plan' = plan /\ (step' = step \/ step' = step + 1))
  BY OpenedMoves, ClosedMoves DEF WriteKey
<1>3. fresh' = [d \in BuildDirs |-> fresh[d] \ {"key"}]
  BY DEF WriteKey, Outdated
<1>4. key_src' \in Contents /\ keys' \in Nat /\ fresh' \in [BuildDirs -> SUBSET Objects]
  BY <1>3 DEF WriteKey, TypeOK, Contents
<1>5. TypeOK'
  BY <1>1, <1>2, <1>4 DEF TypeOK, ProcessOK
<1>6. FreshInv'
  BY <1>1, <1>3 DEF FreshInv
<1>7. PipelineInv'
  <2> SUFFICES ASSUME plan' = "pipeline" PROVE PipelineInv'
    BY DEF PipelineInv
  <2>1. plan = "pipeline" /\ step = 3
    BY <1>2, PipelineAt
  <2>2. step' > 3 => key_src' = keys'
    BY <2>1, <1>2 DEF WriteKey, Opened, Closed, Advance
  <2>3. QED
    BY <2>1, <2>2, <1>1, <1>2 DEF PipelineInv
<1>8. BenchmarkInv'
  <2> SUFFICES ASSUME plan' = "benchmark" PROVE BenchmarkInv'
    BY DEF BenchmarkInv
  <2>1. plan = "benchmark" /\ step = 7
    BY <1>2, BenchmarkAt
  <2>2. step' > 7 => key_src' = keys'
    BY <2>1, <1>2 DEF WriteKey, Opened, Closed, Advance
  <2>3. QED
    BY <2>1, <2>2, <1>1, <1>2 DEF BenchmarkInv, Row
<1>9. QED
  BY <1>5, <1>6, <1>7, <1>8

LEMMA PackageStep == IInv /\ WritePackage => IInv'
<1> SUFFICES ASSUME IInv, WritePackage PROVE IInv'
  OBVIOUS
<1> USE DEF IInv
<1>1. UNCHANGED <<expected, pt, key_src, blob_src, object, fresh, csv, keys>>
  BY DEF WritePackage, built
<1>2. /\ plan # "none" /\ ProcessOK' /\ model' = model /\ At("enc")
      /\ plan' = "none" \/ (plan' = plan /\ (step' = step \/ step' = step + 1))
  BY OpenedMoves, ClosedMoves DEF WritePackage
<1>3. Current.dir \in PackageDirs
  BY <1>2, CurrentDirs
<1>4. enc' \in [PackageDirs -> Packages]
  <2>1. PartialPackage \in Packages /\ [key |-> keys, model |-> pt] \in Packages
    BY DEF PartialPackage, Packages, Contents, TypeOK
  <2>2. QED
    BY <2>1 DEF WritePackage, TypeOK
<1>5. TypeOK'
  BY <1>1, <1>2, <1>4 DEF TypeOK, ProcessOK
<1>6. FreshInv'
  BY <1>1 DEF FreshInv
<1>7. PipelineInv'
  <2> SUFFICES ASSUME plan' = "pipeline" PROVE PipelineInv'
    BY DEF PipelineInv
  <2>1. plan = "pipeline" /\ step = 4 /\ Current.dir = "main"
    BY <1>2, PipelineAt
  <2>2. pt = model /\ key_src = keys /\ expected = model
    BY <2>1 DEF PipelineInv
  <2>3. step' > 4 => enc'["main"] = [key |-> keys, model |-> pt]
    BY <1>2, <1>3, <2>1 DEF WritePackage, Opened, Closed, Advance, TypeOK
  <2>4. QED
    BY <2>1, <2>2, <2>3, <1>1, <1>2 DEF PipelineInv, Encrypted
<1>8. BenchmarkInv'
  <2> SUFFICES ASSUME plan' = "benchmark" PROVE BenchmarkInv'
    BY DEF BenchmarkInv
  <2>1. plan = "benchmark" /\ step = 8 /\ Current.dir = "gcm"
    BY <1>2, BenchmarkAt
  <2>2. pt = model /\ key_src = keys /\ csv = <<Row("plain")>>
    BY <2>1 DEF BenchmarkInv
  <2>3. step' > 8 => enc'["gcm"] = [key |-> keys, model |-> pt]
    BY <1>2, <1>3, <2>1 DEF WritePackage, Opened, Closed, Advance, TypeOK
  <2>4. QED
    BY <2>1, <2>2, <2>3, <1>1, <1>2 DEF BenchmarkInv, Encrypted, Row
<1>9. QED
  BY <1>5, <1>6, <1>7, <1>8

LEMMA BlobStep == IInv /\ WriteBlob => IInv'
<1> SUFFICES ASSUME IInv, WriteBlob PROVE IInv'
  OBVIOUS
<1> USE DEF IInv
<1>1. UNCHANGED <<expected, pt, key_src, enc, object, csv, keys>>
  BY DEF WriteBlob
<1>2. /\ plan # "none" /\ ProcessOK' /\ model' = model /\ At("blob")
      /\ plan' = "none" \/ (plan' = plan /\ (step' = step \/ step' = step + 1))
  BY OpenedMoves, ClosedMoves DEF WriteBlob
<1>3. fresh' = [d \in BuildDirs |-> fresh[d] \ {"blob"}]
  BY DEF WriteBlob, Outdated
<1>4. blob_src' \in Blobs
  <2>1. Current.dir \in BuildDirs
    BY <1>2, CurrentDirs
  <2>2. PartialBlob \in Blobs /\ pt \in Contents /\ None \in Contents
    BY DEF PartialBlob, Blobs, Contents, None, TypeOK
  <2>3. QED
    BY <2>1, <2>2 DEF WriteBlob, Blobs
<1>5. TypeOK'
  BY <1>1, <1>2, <1>3, <1>4 DEF TypeOK, ProcessOK
<1>6. FreshInv'
  BY <1>1, <1>3 DEF FreshInv
<1>7. PipelineInv'
  <2> SUFFICES ASSUME plan' = "pipeline" PROVE PipelineInv'
    BY DEF PipelineInv
  <2>1. plan = "pipeline" /\ step = 5 /\ Current.dir = "main"
    BY <1>2, PipelineAt
  <2>2. pt = model /\ key_src = keys /\ expected = model /\ enc["main"] = Encrypted
    BY <2>1 DEF PipelineInv
  <2>3. step' > 5 => blob_src' = [from |-> "main", size |-> None] /\ step' = 6
    BY <1>2, <2>1 DEF WriteBlob, Opened, Closed, Advance
  <2>4. "blob" \notin fresh'["main"]
    BY <1>3 DEF BuildDirs
  <2>5. QED
    BY <2>1, <2>2, <2>3, <2>4, <1>1, <1>2 DEF PipelineInv, Encrypted, Named
<1>8. BenchmarkInv'
  <2> SUFFICES ASSUME plan' = "benchmark" PROVE BenchmarkInv'
    BY DEF BenchmarkInv
  <2>1. plan = "benchmark"
    BY <1>2
  <2>2. "blob" \notin fresh'["plain"] /\ "blob" \notin fresh'["gcm"]
    BY <1>3 DEF BuildDirs
  <2>3. CASE step = 4 /\ Current.dir = "plain"
    <3>1. pt = model /\ csv = <<>>
      BY <2>1, <2>3 DEF BenchmarkInv
    <3>2. step' > 4 => blob_src' = [from |-> "plain", size |-> model] /\ step' = 5
      BY <1>2, <2>1, <2>3, <3>1 DEF WriteBlob, Opened, Closed, Advance
    <3>3. QED
      BY <2>1, <2>2, <2>3, <3>1, <3>2, <1>1, <1>2 DEF BenchmarkInv, Named
  <2>4. CASE step = 9 /\ Current.dir = "gcm"
    <3>1. /\ pt = model /\ key_src = keys /\ enc["gcm"] = Encrypted
          /\ csv = <<Row("plain")>>
      BY <2>1, <2>4 DEF BenchmarkInv
    <3>2. step' > 9 => blob_src' = [from |-> "gcm", size |-> None] /\ step' = 10
      BY <1>2, <2>1, <2>4 DEF WriteBlob, Opened, Closed, Advance
    <3>3. QED
      BY <2>1, <2>2, <2>4, <3>1, <3>2, <1>1, <1>2
      DEF BenchmarkInv, Named, Encrypted, Row
  <2>5. QED
    BY <2>1, <2>3, <2>4, <1>2, BenchmarkAt
<1>9. QED
  BY <1>5, <1>6, <1>7, <1>8

LEMMA CompileStep == IInv /\ Compile => IInv'
<1> SUFFICES ASSUME IInv, Compile PROVE IInv'
  OBVIOUS
<1> USE DEF IInv
<1>1. UNCHANGED <<expected, pt, key_src, enc, blob_src, csv, plan, step, writing,
                  model, runs, keys>>
  BY DEF Compile, files, process
<1>2. plan # "none" /\ At("build") /\ Current.dir \in BuildDirs
  BY CurrentDirs DEF Compile, At
<1> DEFINE d == Current.dir
<1>3. Embedded \in Packages
  BY DEF Embedded, TypeOK, NoPackage, Packages, Contents, None
<1>4. \/ /\ object' = [object EXCEPT ![d].key = key_src]
         /\ fresh' = [fresh EXCEPT ![d] = @ \cup {"key"}]
      \/ /\ object' = [object EXCEPT ![d].blob = blob_src, ![d].with = Embedded]
         /\ fresh' = [fresh EXCEPT ![d] = @ \cup {"blob"}]
  BY DEF Compile
<1> HIDE DEF d
<1>5. d \in BuildDirs /\ d = Current.dir
  BY <1>2 DEF d
<1>6. /\ object' \in [BuildDirs -> [key : Contents, blob : Blobs, with : Packages]]
      /\ fresh' \in [BuildDirs -> SUBSET Objects]
  <2> DEFINE Lib == [key : Contents, blob : Blobs, with : Packages]
  <2>1. object[d] \in Lib
    BY <1>5 DEF TypeOK
  <2>2. [object[d] EXCEPT !.key = key_src] \in Lib
    BY <2>1 DEF TypeOK
  <2>3. [object[d] EXCEPT !.blob = blob_src, !.with = Embedded] \in Lib
    BY <2>1, <1>3 DEF TypeOK
  <2>4. object' \in [BuildDirs -> Lib]
    <3> HIDE DEF Lib
    <3>1. object \in [BuildDirs -> Lib]
      BY DEF TypeOK, Lib
    <3>2. QED
      BY <1>4, <1>5, <2>2, <2>3, <3>1
  <2>5. QED
    BY <1>4, <1>5, <2>4 DEF TypeOK, Objects
<1>7. TypeOK'
  BY <1>1, <1>6 DEF TypeOK
<1>8. FreshInv'
  BY <1>1, <1>4, <1>5 DEF FreshInv, TypeOK
<1>9. PipelineInv'
  <2> SUFFICES ASSUME plan = "pipeline" PROVE PipelineInv'
    BY <1>1 DEF PipelineInv
  <2>1. step = 6 /\ d = "main"
    BY <1>2, <1>5, PipelineAt
  <2>2. /\ pt = model /\ key_src = keys /\ expected = model
        /\ enc["main"] = Encrypted /\ Named("main", Encrypted)
    BY <2>1 DEF PipelineInv
  <2>3. Embedded = Encrypted
    BY <2>2 DEF Embedded, Named, PackageDirs
  <2>4. "blob" \in fresh'["main"] => object'["main"].with = Encrypted
    BY <1>4, <1>5, <2>1, <2>2, <2>3 DEF Named, TypeOK
  <2>5. QED
    BY <1>1, <2>1, <2>2, <2>4 DEF PipelineInv, Named, Encrypted
<1>10. BenchmarkInv'
  <2> SUFFICES ASSUME plan = "benchmark" PROVE BenchmarkInv'
    BY <1>1 DEF BenchmarkInv
  <2>1. CASE step = 5 /\ d = "plain"
    <3>1. pt = model /\ csv = <<>> /\ Named("plain", Plain)
      BY <2>1 DEF BenchmarkInv
    <3>2. Embedded = Plain
      BY <3>1 DEF Embedded, Named, PackageDirs, Plain
    <3>3. "blob" \in fresh'["plain"] => object'["plain"].with = Plain
      BY <1>4, <1>5, <2>1, <3>1, <3>2 DEF Named, TypeOK
    <3>4. QED
      BY <1>1, <2>1, <3>1, <3>3 DEF BenchmarkInv, Named, Plain
  <2>2. CASE step = 10 /\ d = "gcm"
    <3>1. /\ pt = model /\ key_src = keys /\ csv = <<Row("plain")>>
          /\ enc["gcm"] = Encrypted /\ Named("gcm", Encrypted)
      BY <2>2 DEF BenchmarkInv
    <3>2. Embedded = Encrypted
      BY <3>1 DEF Embedded, Named, PackageDirs
    <3>3. "blob" \in fresh'["gcm"] => object'["gcm"].with = Encrypted
      BY <1>4, <1>5, <2>2, <3>1, <3>2 DEF Named, TypeOK
    <3>4. QED
      BY <1>1, <2>2, <3>1, <3>3 DEF BenchmarkInv, Named, Encrypted, Row
  <2>3. QED
    BY <1>2, <1>5, <2>1, <2>2, BenchmarkAt
<1>11. QED
  BY <1>7, <1>8, <1>9, <1>10

LEMMA LinkStep == IInv /\ Link => IInv'
<1> SUFFICES ASSUME IInv, Link PROVE IInv'
  OBVIOUS
<1> USE DEF IInv
<1>1. UNCHANGED <<expected, pt, key_src, enc, blob_src, object, fresh, csv, keys>>
  BY DEF Link, files, built
<1>2. /\ plan # "none" /\ At("build") /\ ProcessOK' /\ model' = model
      /\ plan' = "none" \/ (plan' = plan /\ step' = step + 1)
      /\ fresh[Current.dir] = Objects
  BY AdvanceOK DEF Link, At
<1>3. TypeOK'
  BY <1>1, <1>2 DEF TypeOK, ProcessOK
<1>4. FreshInv'
  BY <1>1 DEF FreshInv
<1>5. PipelineInv'
  <2> SUFFICES ASSUME plan' = "pipeline" PROVE PipelineInv'
    BY DEF PipelineInv
  <2>1. plan = "pipeline" /\ step = 6 /\ step' = 7 /\ fresh["main"] = Objects
    BY <1>2, PipelineAt
  <2>2. QED
    BY <1>1, <1>2, <2>1 DEF PipelineInv, Named, Encrypted
<1>6. BenchmarkInv'
  <2> SUFFICES ASSUME plan' = "benchmark" PROVE BenchmarkInv'
    BY DEF BenchmarkInv
  <2>1. /\ plan = "benchmark"
        /\ \/ step = 5 /\ step' = 6 /\ fresh["plain"] = Objects
           \/ step = 10 /\ step' = 11 /\ fresh["gcm"] = Objects
    BY <1>2, BenchmarkAt
  <2>2. QED
    BY <1>1, <1>2, <2>1 DEF BenchmarkInv, Named, Encrypted, Plain, Row
<1>7. QED
  BY <1>3, <1>4, <1>5, <1>6

(* Where a script uses a library, what that was compiled from.             *)
LEMMA Used ==
  ASSUME IInv, At("use"), plan \in {"pipeline", "benchmark"}
  PROVE  LET lib == object[Current.dir]
         IN  /\ lib.key = key_src
             /\ lib.blob = blob_src
             /\ blob_src.from = Current.dir
             /\ IF Current.dir = "plain"
                THEN lib.with = Plain /\ lib.blob.size = model
                ELSE lib.with = Encrypted /\ key_src = keys
             /\ plan = "pipeline" => Current.dir = "main" /\ expected = model
             /\ plan = "benchmark" => Current.dir # "main"
<1> USE DEF IInv, Objects, BuildDirs
<1>1. CASE plan = "pipeline"
  <2>1. step = 7 /\ Current.dir = "main"
    BY <1>1, PipelineAt
  <2>2. QED
    BY <1>1, <2>1 DEF PipelineInv, Named, FreshInv
<1>2. CASE plan = "benchmark"
  <2>1. CASE step = 6 /\ Current.dir = "plain"
    BY <1>2, <2>1 DEF BenchmarkInv, Named, FreshInv
  <2>2. CASE step = 11 /\ Current.dir = "gcm"
    BY <1>2, <2>2 DEF BenchmarkInv, Named, FreshInv
  <2>3. QED
    BY <1>2, <2>1, <2>2, BenchmarkAt
<1>3. QED
  BY <1>1, <1>2

(* Only the two scripts use libraries.                                     *)
LEMMA CommandSteps ==
  ASSUME NEW p \in {"create", "encrypt", "generate", "baseline", "build"},
         NEW k \in 1..Len(Script[p])
  PROVE  Script[p][k].op \notin {"use", "csv", "summary"}
<1> USE DEF Do
<1>1. CASE p = "create"
  BY <1>1 DEF Script
<1>2. CASE p = "encrypt"
  BY <1>2 DEF Script
<1>3. CASE p = "generate"
  BY <1>3 DEF Script
<1>4. CASE p = "baseline"
  BY <1>4 DEF Script
<1>5. CASE p = "build"
  BY <1>5 DEF Script
<1>6. QED
  BY <1>1, <1>2, <1>3, <1>4, <1>5

LEMMA Users ==
  ASSUME TypeOK, At("use") \/ At("csv") \/ At("summary")
  PROVE  plan \in {"pipeline", "benchmark"}
<1>1. plan \in DOMAIN Script /\ step \in 1..Len(Script[plan]) /\ plan # "none"
  BY DEF TypeOK, At
<1>2. Script[plan][step].op \in {"use", "csv", "summary"}
  BY DEF At, Current
<1>3. QED
  BY <1>1, <1>2, CommandSteps, PipelineSteps

(* A second element.                                                       *)
LEMMA TwoRows ==
  ASSUME NEW S, NEW a \in S, NEW b \in S
  PROVE  Append(<<a>>, b) = <<a, b>>
<1> DEFINE s == Append(<<a>>, b)
           t == <<a, b>>
<1>1. <<a>> \in Seq(S) /\ Len(<<a>>) = 1 /\ <<a>>[1] = a
  OBVIOUS
<1>2. s \in Seq(S) /\ Len(s) = 2 /\ s[1] = a /\ s[2] = b
  BY <1>1
<1>3. t \in Seq(S) /\ Len(t) = 2 /\ t[1] = a /\ t[2] = b
  OBVIOUS
<1> HIDE DEF s, t
<1>4. s = [i \in 1..2 |-> IF i = 1 THEN a ELSE b]
  BY <1>2
<1>5. t = [i \in 1..2 |-> IF i = 1 THEN a ELSE b]
  BY <1>3
<1>6. s = t
  BY <1>4, <1>5
<1>7. QED
  BY <1>6 DEF s, t

LEMMA UseStep == IInv /\ UseLibrary => IInv'
<1> SUFFICES ASSUME IInv, UseLibrary PROVE IInv'
  OBVIOUS
<1> USE DEF IInv
<1>1. UNCHANGED <<expected, pt, key_src, enc, blob_src, object, fresh, keys>>
  BY DEF UseLibrary, files, built
<1>2. /\ plan # "none" /\ At("use") /\ ProcessOK' /\ model' = model
      /\ plan' = "none" \/ (plan' = plan /\ step' = step + 1)
  BY AdvanceOK DEF UseLibrary, At
<1>3. Current.dir \in BuildDirs /\ plan \in {"pipeline", "benchmark"}
  BY <1>2, CurrentDirs, Users
<1>4. \/ Current.dir = "main" /\ csv' = csv
      \/ /\ Current.dir # "main"
         /\ csv' = Append(csv, [dir |-> Current.dir,
                                model |-> object[Current.dir].with.model])
  BY DEF UseLibrary
<1>5. csv' \in Seq([dir : BuildDirs, model : Contents])
  <2>1. object[Current.dir].with.model \in Contents
    BY <1>3 DEF TypeOK, Packages
  <2> DEFINE R == [dir : BuildDirs, model : Contents]
  <2>2. csv \in Seq(R)
    BY DEF TypeOK
  <2>3. [dir |-> Current.dir, model |-> object[Current.dir].with.model] \in R
    BY <1>3, <2>1
  <2> HIDE DEF R
  <2>4. csv' \in Seq(R)
    BY <1>4, <2>2, <2>3
  <2>5. QED
    BY <2>4 DEF R
<1>6. TypeOK'
  BY <1>1, <1>2, <1>5 DEF TypeOK, ProcessOK
<1>7. FreshInv'
  BY <1>1 DEF FreshInv
<1>8. PipelineInv'
  <2> SUFFICES ASSUME plan' = "pipeline" PROVE FALSE
    BY DEF PipelineInv
  <2>1. plan = "pipeline" /\ step = 7 /\ step' = 8
    BY <1>2, PipelineAt
  <2>2. QED
    BY <1>6, <2>1, PipelineSteps DEF TypeOK
<1>9. BenchmarkInv'
  <2> SUFFICES ASSUME plan' = "benchmark" PROVE BenchmarkInv'
    BY DEF BenchmarkInv
  <2>1. plan = "benchmark" /\ step' = step + 1
    BY <1>2
  <2>2. csv' = Append(csv, Row(Current.dir))
    BY <1>2, <1>3, <1>4, <2>1, Used DEF Plain, Encrypted, Row
  <2>3. CASE step = 6 /\ Current.dir = "plain"
    <3>1. csv = <<>> /\ pt = model
      BY <2>1, <2>3 DEF BenchmarkInv
    <3>2. csv' = <<Row("plain")>> /\ step' = 7
      BY <2>1, <2>2, <2>3, <3>1
    <3>3. QED
      BY <1>1, <1>2, <3>1, <3>2 DEF BenchmarkInv, Row
  <2>4. CASE step = 11 /\ Current.dir = "gcm"
    <3>1. /\ csv = <<Row("plain")>> /\ pt = model /\ key_src = keys
          /\ enc["gcm"] = Encrypted /\ Named("gcm", Encrypted)
          /\ fresh["gcm"] = Objects
      BY <2>1, <2>4 DEF BenchmarkInv
    <3>2. csv' = <<Row("plain"), Row("gcm")>> /\ step' = 12
      <4> DEFINE S == {Row("plain"), Row("gcm")}
      <4>1. Append(<<Row("plain")>>, Row("gcm")) = <<Row("plain"), Row("gcm")>>
        <5> HIDE DEF S
        <5>1. Row("plain") \in S /\ Row("gcm") \in S
          BY DEF S
        <5>2. QED
          BY <5>1, TwoRows
      <4>2. QED
        BY <2>1, <2>2, <2>4, <3>1, <4>1
    <3>3. QED
      BY <1>1, <1>2, <3>1, <3>2 DEF BenchmarkInv, Row, Encrypted, Named
  <2>5. QED
    BY <1>2, <2>1, <2>3, <2>4, BenchmarkAt
<1>10. QED
  BY <1>6, <1>7, <1>8, <1>9

LEMMA CsvStep == IInv /\ (StartCsv \/ Summarize) => IInv'
<1> SUFFICES ASSUME IInv, StartCsv \/ Summarize PROVE IInv'
  OBVIOUS
<1> USE DEF IInv
<1>1. UNCHANGED <<expected, pt, key_src, enc, blob_src, object, fresh, keys>>
  BY DEF StartCsv, Summarize, files, built
<1>2. /\ plan # "none" /\ (At("csv") \/ At("summary")) /\ ProcessOK' /\ model' = model
      /\ plan' = "none" \/ (plan' = plan /\ step' = step + 1)
      /\ csv' \in Seq([dir : BuildDirs, model : Contents])
      /\ At("csv") => csv' = <<>>
  <2>1. CASE StartCsv
    BY <2>1, AdvanceOK DEF StartCsv, At, HeaderOfCsv
  <2>2. CASE Summarize
    <3>1. ~At("csv") /\ csv' = csv
      BY <2>2 DEF Summarize, At
    <3>2. csv \in Seq([dir : BuildDirs, model : Contents])
      BY DEF TypeOK
    <3>3. QED
      BY <2>2, <3>1, <3>2, AdvanceOK DEF Summarize, At
  <2>3. QED
    BY <2>1, <2>2
<1>3. TypeOK'
  BY <1>1, <1>2 DEF TypeOK, ProcessOK
<1>4. FreshInv'
  BY <1>1 DEF FreshInv
<1>5. PipelineInv'
  BY <1>2, PipelineAt DEF PipelineInv
<1>6. BenchmarkInv'
  <2> SUFFICES ASSUME plan' = "benchmark" PROVE BenchmarkInv'
    BY DEF BenchmarkInv
  <2>1. plan = "benchmark" /\ step' = step + 1
    BY <1>2
  <2>2. CASE At("csv")
    <3>1. step' = 4 /\ pt = model /\ csv' = <<>>
      BY <1>2, <2>1, <2>2, BenchmarkAt DEF BenchmarkInv
    <3>2. QED
      BY <1>1, <1>2, <3>1 DEF BenchmarkInv
  <2>3. CASE At("summary")
    BY <1>3, <2>1, <2>3, BenchmarkAt, BenchmarkSteps DEF TypeOK
  <2>4. QED
    BY <1>2, <2>2, <2>3
<1>7. QED
  BY <1>3, <1>4, <1>5, <1>6

LEMMA ControlStep == IInv /\ ((\E p \in DOMAIN Script \ {"none"} : Start(p)) \/ Stop) => IInv'
<1> SUFFICES ASSUME IInv, (\E p \in DOMAIN Script \ {"none"} : Start(p)) \/ Stop
             PROVE  IInv'
  OBVIOUS
<1> USE DEF IInv
<1>1. UNCHANGED <<expected, pt, key_src, enc, blob_src, object, fresh, csv, keys>>
  BY DEF Start, Stop, files, built
<1>2. FreshInv'
  BY <1>1 DEF FreshInv
<1>3. CASE \E p \in DOMAIN Script \ {"none"} : Start(p)
  <2>1. PICK p \in DOMAIN Script \ {"none"} : Start(p)
    BY <1>3
  <2>2. Len(Script[p]) \in Nat \ {0}
    <3>1. CASE p = "create"
      BY <3>1 DEF Script
    <3>2. CASE p = "encrypt"
      BY <3>2 DEF Script
    <3>3. CASE p = "generate"
      BY <3>3 DEF Script
    <3>4. CASE p = "baseline"
      BY <3>4 DEF Script
    <3>5. CASE p = "build"
      BY <3>5 DEF Script
    <3>6. QED
      BY <3>1, <3>2, <3>3, <3>4, <3>5, PipelineSteps, BenchmarkSteps
  <2>3. plan' = p /\ step' = 1 /\ 1 \in 1..Len(Script[p])
    BY <2>1, <2>2 DEF Start
  <2>4. TypeOK'
    <3>1. /\ plan' \in DOMAIN Script /\ plan' # "none" /\ writing' \in BOOLEAN
          /\ model' \in Models /\ runs' \in Nat
      <4>1. p \in DOMAIN Script /\ p # "none" /\ plan' = p
        BY <2>1, <2>3
      <4>2. writing' = FALSE /\ model' \in Models /\ runs' = runs + 1
        BY <2>1 DEF Start
      <4>3. runs' \in Nat
        BY <4>2 DEF TypeOK
      <4>4. writing' \in BOOLEAN
        BY <4>2
      <4>5. QED
        BY <4>1, <4>2, <4>3, <4>4
    <3>2. step' \in 1..Len(Script[plan'])
      BY <2>3
    <3>3. QED
      BY <1>1, <3>1, <3>2 DEF TypeOK
  <2>5. PipelineInv' /\ BenchmarkInv'
    BY <2>3 DEF PipelineInv, BenchmarkInv
  <2>6. QED
    BY <1>2, <2>4, <2>5
<1>4. CASE Stop
  <2>1. plan' = "none" /\ step' = 1 /\ writing' = FALSE /\ runs' = runs
    BY <1>4 DEF Stop, AfterFailure
  <2>2. TypeOK'
    BY <1>1, <2>1, PipelineSteps DEF TypeOK
  <2>3. PipelineInv' /\ BenchmarkInv'
    BY <2>1 DEF PipelineInv, BenchmarkInv
  <2>4. QED
    BY <1>2, <2>2, <2>3
<1>5. QED
  BY <1>3, <1>4

LEMMA NextIInv == IInv /\ [Next]_vars => IInv'
<1> SUFFICES ASSUME IInv, [Next]_vars PROVE IInv'
  OBVIOUS
<1>1. CASE UNCHANGED vars
  BY <1>1
  DEF vars, files, built, process, IInv, TypeOK, FreshInv, PipelineInv, BenchmarkInv,
      Named, Encrypted, Plain, Row
<1>2. QED
  BY <1>1, ControlStep, CreateStep, KeyStep, PackageStep, BlobStep, CompileStep,
     LinkStep, UseStep, CsvStep DEF Next

(* The inductive invariant of the build: what each script has established  *)
(* at each step, and that objects not out of date are those of their       *)
(* sources.                                                                *)
THEOREM Invariance == Spec => []IInv
  BY InitIInv, NextIInv, PTL DEF Spec

(* After any history of commands and of stops, the library that a script   *)
(* goes on to use holds the model it created and the key that opens it.    *)
THEOREM LibrariesDelivered == Spec => []ScriptsDeliver
<1>1. IInv => ScriptsDeliver
  <2> SUFFICES ASSUME IInv, At("use") PROVE ScriptsDeliver
    BY DEF ScriptsDeliver
  <2>1. plan \in {"pipeline", "benchmark"} /\ TypeOK
    BY Users DEF IInv
  <2>2. model \in Models /\ keys \in Nat /\ keys # Partial
    BY <2>1 DEF TypeOK, Partial
  <2>3. QED
    BY <2>1, <2>2, Used DEF ScriptsDeliver, Holds, Opens, Plain, Encrypted
<1>2. QED
  BY <1>1, Invariance, PTL

(* The results that the benchmark script summarises are its own, for both  *)
(* cases and one model.                                                    *)
THEOREM ResultsComparable == Spec => []ResultsCompare
<1>1. IInv => ResultsCompare
  <2> SUFFICES ASSUME IInv, At("summary") PROVE ResultsCompare
    BY DEF ResultsCompare
  <2>1. TypeOK /\ plan = "benchmark"
    BY Users, PipelineAt DEF IInv
  <2>2. step = 12
    BY <2>1, BenchmarkAt
  <2>3. QED
    BY <2>1, <2>2 DEF IInv, BenchmarkInv, ResultsCompare, Row
<1>2. QED
  BY <1>1, Invariance, PTL

=============================================================================
