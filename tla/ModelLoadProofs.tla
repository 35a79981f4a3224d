-------------------------- MODULE ModelLoadProofs --------------------------
(***************************************************************************)
(* Proofs about ModelPack and ModelLoad, for every width of size_t, every  *)
(* set of packs and every number of threads and calls.                     *)
(*                                                                         *)
(* The parser accepts exactly what the tools write; that is arithmetic.    *)
(* IInv is inductive; a step of one thread changes nothing of the others,  *)
(* and disturbs their part of IInv only through the once_flag.             *)
(***************************************************************************)
EXTENDS ModelLoad, TLAPS

USE DEF MagicBytes, U32Bytes, U64Bytes, NonceBytes, TagBytes, AlgorithmAt,
        NonceLenAt, NonceAt, LengthAt, CiphertextAt, PlaintextAt

-----------------------------------------------------------------------------
(* The parser.                                                             *)

LEMMA WrapSmall ==
  ASSUME PackAssumption, NEW n \in Int, 0 <= n, n <= SizeMax
  PROVE  Wrap(n) = n
BY DEF PackAssumption, Wrap

(* A pack that is read to its end ends where its last field ends.          *)
LEMMA ReadToEnd ==
  ASSUME PackAssumption, NEW size \in 0..SizeMax, NEW offset \in Nat,
         NEW n \in Nat, offset <= size
  PROVE  CanRead(size, offset, n) /\ Remaining(size, offset + n) = 0
           <=> size = offset + n
<1>1. CanRead(size, offset, n) <=> offset + n <= size
  BY DEF CanRead
<1>2. ASSUME offset + n <= size
      PROVE  Wrap(size - (offset + n)) = size - (offset + n)
  BY <1>2, WrapSmall DEF PackAssumption
<1> QED
  BY <1>1, <1>2 DEF Remaining

(* The parser and the generator of the blob agree on encrypted packs: both *)
(* accept them if and only if they have the format of encrypt_model.py.    *)
THEOREM ParserAgreesOnEncrypted ==
  ASSUME PackAssumption, NEW p \in Pack
  PROVE  ParsesEncrypted(p) <=> ValidEncryptedInput(p)
<1> p.size \in 0..SizeMax /\ p.len \in Nat /\ p.nonce_len \in Nat
  BY DEF Pack
<1>1. ASSUME p.size >= 36
      PROVE  CanRead(p.size, 36, p.len) /\ Remaining(p.size, 36 + p.len) = 0
               <=> p.size = 36 + p.len
  <2> DEFINE offset == 36
  <2>1. offset \in Nat /\ offset <= p.size
    BY <1>1
  <2> HIDE DEF offset
  <2>2. CanRead(p.size, offset, p.len) /\ Remaining(p.size, offset + p.len) = 0
          <=> p.size = offset + p.len
    BY <2>1, ReadToEnd
  <2> QED
    BY <2>2 DEF offset
<1>2. ParsesEncrypted(p) <=>
        /\ p.magic = "encrypted" /\ p.algorithm_id = Algorithm
        /\ p.nonce_len = 12 /\ p.len >= 16 /\ p.len <= SizeMax
        /\ p.size >= 36
        /\ CanRead(p.size, 36, p.len) /\ Remaining(p.size, 36 + p.len) = 0
  BY DEF ParsesEncrypted, CanRead, TooShort, PackAssumption
<1>3. ValidEncryptedInput(p) <=>
        /\ p.magic = "encrypted" /\ p.algorithm_id = Algorithm
        /\ p.nonce_len = 12 /\ p.len >= 16
        /\ p.size >= 36 /\ p.size = 36 + p.len
  BY DEF ValidEncryptedInput
<1> QED
  BY <1>1, <1>2, <1>3 DEF PackAssumption

(* ... and on the plaintext packs.                                         *)
THEOREM ParserAgreesOnPlaintext ==
  ASSUME PackAssumption, NEW p \in Pack
  PROVE  ParsesPlaintext(p) <=> p.size = PlaintextAt + p.len
<1> p.size \in 0..SizeMax /\ p.len \in Nat
  BY DEF Pack
<1>1. ASSUME p.size >= 16
      PROVE  CanRead(p.size, 16, p.len) /\ Remaining(p.size, 16 + p.len) = 0
               <=> p.size = 16 + p.len
  <2> DEFINE offset == 16
  <2>1. offset \in Nat /\ offset <= p.size
    BY <1>1
  <2> HIDE DEF offset
  <2>2. CanRead(p.size, offset, p.len) /\ Remaining(p.size, offset + p.len) = 0
          <=> p.size = offset + p.len
    BY <2>1, ReadToEnd
  <2> QED
    BY <2>2 DEF offset
<1>2. ParsesPlaintext(p) <=>
        /\ p.size >= 16 /\ p.len <= SizeMax
        /\ CanRead(p.size, 16, p.len) /\ Remaining(p.size, 16 + p.len) = 0
  BY DEF ParsesPlaintext, CanRead, PackAssumption
<1> QED
  BY <1>1, <1>2 DEF PackAssumption

(* The parser refuses lengths that do not fit into a size_t.               *)
LEMMA ParsedLength ==
  ASSUME NEW p, ParsesEncrypted(p) \/ ParsesPlaintext(p)
  PROVE  p.len <= SizeMax
BY DEF ParsesEncrypted, ParsesPlaintext

(* The ciphertext and its tag fill the rest of a pack that was parsed.     *)
LEMMA ParsedCiphertext ==
  ASSUME PackAssumption, NEW p \in Pack, ParsesEncrypted(p)
  PROVE  CiphertextAt + CiphertextSize(p) + TagBytes = p.size
<1>1. p.len <= SizeMax /\ p.len \in Nat /\ p.size \in Nat
  BY ParsedLength DEF Pack, PackAssumption
<1>2. p.len >= 16 /\ p.size = 36 + p.len
  BY <1>1, ParserAgreesOnEncrypted DEF ValidEncryptedInput
<1>3. Wrap(p.len - 16) = p.len - 16
  BY <1>1, <1>2, WrapSmall DEF PackAssumption
<1> QED
  BY <1>1, <1>2, <1>3 DEF CiphertextSize

-----------------------------------------------------------------------------
(* The state machine.                                                      *)

LEMMA InitIInv == PackAssumption /\ Init => IInv
<1> SUFFICES ASSUME PackAssumption, Init PROVE IInv
  OBVIOUS
<1> USE DEF Init
<1>1. TypeOK
  BY DEF TypeOK, PackAssumption, Steps, Errors, Buffers, NoCall
<1>2. ReadsInside /\ LoadsGenuine /\ GeneratedParses /\ InitOnce /\ SecretsCleared
  BY DEF ReadsInside, LoadsGenuine, GeneratedParses, InitOnce, SecretsCleared,
         Decrypting, UsesOpenssl, NoCall
<1>3. OnceInv /\ PackInv /\ DirtyInv
  BY DEF OnceInv, PackInv, PackOK, DirtyInv, Decrypting, NoCall
<1> QED
  BY <1>1, <1>2, <1>3 DEF IInv

(* A step is one of Go, Throw, and the two that neither goes on nor throws.*)
(* Whatever it is, the pack and the key stay, and so do the other threads. *)
LEMMA OtherThreads ==
  ASSUME TypeOK, NEW t \in Threads, Create(t) \/ NullArgument(t) \/ Continue(t)
  PROVE  /\ pack' = pack /\ key' = key
         /\ \A u \in Threads \ {t} :
               /\ pc'[u] = pc[u] /\ dirty'[u] = dirty[u]
               /\ rc'[u] = rc[u] /\ error'[u] = error[u]
BY DEF TypeOK, Create, NullArgument, Continue, Parse, EnterOnce, InitOpenssl,
       InitFails, MaterializeKey, SetUpContext, AllocatePlaintext, DecryptUpdate,
       DecryptFinal, CopyToString, LoadThrows, Load, Go, Throw, OnceUnchanged

LEMMA GoType ==
  ASSUME TypeOK, NEW t \in Threads, NEW step \in Steps,
         NEW buffers \in SUBSET Buffers, Go(t, step, buffers)
  PROVE  /\ pc' \in [Threads -> Steps \cup {"idle"}]
         /\ dirty' \in [Threads -> SUBSET Buffers]
         /\ UNCHANGED <<pack, key, rc, error, creates>>
BY DEF TypeOK, Go

LEMMA ThrowType ==
  ASSUME TypeOK, NEW t \in Threads, NEW why \in Errors,
         NEW buffers \in SUBSET Buffers, Throw(t, why, buffers)
  PROVE  /\ pc' \in [Threads -> Steps \cup {"idle"}]
         /\ dirty' \in [Threads -> SUBSET Buffers]
         /\ rc' \in [Threads -> {NoCall, 0, -1, -2}]
         /\ error' \in [Threads -> Errors]
         /\ UNCHANGED <<pack, key, creates>>
BY DEF TypeOK, Throw

LEMMA TypeStep == TypeOK /\ [Next]_vars => TypeOK'
<1> SUFFICES ASSUME TypeOK, [Next]_vars PROVE TypeOK'
  OBVIOUS
<1> DEFINE Types ==
      /\ pc' \in [Threads -> Steps \cup {"idle"}]
      /\ dirty' \in [Threads -> SUBSET Buffers]
      /\ rc' \in [Threads -> {NoCall, 0, -1, -2}]
      /\ error' \in [Threads -> Errors]
      /\ UNCHANGED <<pack, key, creates>>
<1>1. ASSUME NEW t \in Threads, Create(t) \/ NullArgument(t) \/ Continue(t)
      PROVE  TypeOK'
  <2>0. /\ dirty[t] \in SUBSET Buffers
        /\ dirty[t] \ {"key"} \in SUBSET Buffers
        /\ dirty[t] \ {"plaintext"} \in SUBSET Buffers
        /\ dirty[t] \ {"plaintext", "key"} \in SUBSET Buffers
        /\ dirty[t] \ {"string", "plaintext"} \in SUBSET Buffers
        /\ dirty[t] \cup {"plaintext"} \in SUBSET Buffers
        /\ dirty[t] \cup {"string"} \in SUBSET Buffers
        /\ AfterLoad(t) \in SUBSET Buffers
    BY DEF TypeOK, AfterLoad, Buffers
  <2>1. ASSUME NEW step \in Steps, NEW buffers \in SUBSET Buffers,
               Go(t, step, buffers)
        PROVE  Types
    BY <2>1, GoType DEF TypeOK
  <2>2. ASSUME NEW why \in Errors, NEW buffers \in SUBSET Buffers,
               Throw(t, why, buffers)
        PROVE  Types
    BY <2>2, ThrowType
  <2>3. ASSUME Types, OnceUnchanged
        PROVE  TypeOK'
    BY <2>3 DEF TypeOK, OnceUnchanged
  <2> HIDE DEF Types
  <2>4. CASE Create(t)
    BY <2>4 DEF Create, TypeOK, Steps, OnceUnchanged
  <2>5. CASE NullArgument(t)
    <3>1. "null" \in Errors /\ {} \in SUBSET Buffers
      BY DEF Errors
    <3>2. Throw(t, "null", {}) /\ OnceUnchanged
      BY <2>5 DEF NullArgument
    <3> QED
      BY <3>1, <3>2, <2>2, <2>3
  <2>6. CASE Parse(t)
    BY <2>6, <2>1, <2>2, <2>3 DEF Parse, Errors, Steps, Buffers
  <2>7. CASE EnterOnce(t)
    <3>1. Types
      BY <2>7, <2>1 DEF EnterOnce, Steps
    <3> QED
      BY <3>1, <2>7 DEF Types, EnterOnce, OnceWhileBusy, OnceUnchanged, TypeOK
  <2>8. CASE InitOpenssl(t)
    <3>1. Types
      BY <2>8, <2>1 DEF InitOpenssl, Steps
    <3> QED
      BY <3>1, <2>8 DEF Types, InitOpenssl, TypeOK
  <2>9. CASE InitFails(t)
    <3>1. "init" \in Errors /\ {} \in SUBSET Buffers
      BY DEF Errors
    <3>2. Throw(t, "init", {})
      BY <2>9 DEF InitFails
    <3>3. Types
      BY <3>1, <3>2, <2>2
    <3> QED
      BY <3>3, <2>9 DEF Types, InitFails, OnceAfterFailure, TypeOK
  <2>10. CASE MaterializeKey(t)
    BY <2>10, <2>1, <2>2, <2>3 DEF MaterializeKey, Errors, Steps, Buffers
  <2>11. CASE SetUpContext(t) \/ AllocatePlaintext(t)
    BY <2>0, <2>11, <2>1, <2>2, <2>3
       DEF SetUpContext, AllocatePlaintext, Errors, Steps
  <2>12. CASE DecryptUpdate(t) \/ DecryptFinal(t)
    BY <2>0, <2>12, <2>1, <2>2, <2>3
       DEF DecryptUpdate, DecryptFinal, AfterBadTag, Errors, Steps
  <2>13. CASE CopyToString(t) \/ LoadThrows(t)
    BY <2>0, <2>13, <2>1, <2>2, <2>3
       DEF CopyToString, LoadThrows, Errors, Steps
  <2>14. CASE Load(t)
    BY <2>0, <2>14 DEF Load, OnceUnchanged, TypeOK, Errors
  <2> QED
    BY <1>1, <2>4, <2>5, <2>6, <2>7, <2>8, <2>9, <2>10, <2>11, <2>12, <2>13, <2>14
       DEF Continue
<1>2. CASE UNCHANGED vars
  BY <1>2 DEF vars, TypeOK
<1> QED
  BY <1>1, <1>2 DEF Next

(* Only the parser and the authentication look at the pack and the key;    *)
(* the other steps hand on what is known of them.                          *)
LEMMA OwnPack ==
  ASSUME IInv, TypeOK', NEW t \in Threads,
         Create(t) \/ NullArgument(t) \/ Continue(t)
  PROVE  PackOK(t)'
<1> USE DEF IInv
<1>0. pack' = pack /\ key' = key /\ PackOK(t)
  BY OtherThreads DEF PackInv
<1>1. /\ PlaintextPack' <=> PlaintextPack
      /\ SealedPack' <=> SealedPack
      /\ ParsesEncrypted(pack)' <=> ParsesEncrypted(pack)
  BY <1>0 DEF PlaintextPack, SealedPack
<1> USE DEF PackOK, Decrypting, TypeOK
<1>2. CASE Create(t)
  BY <1>0, <1>1, <1>2 DEF Create
<1>3. CASE NullArgument(t)
  BY <1>0, <1>1, <1>3 DEF NullArgument, Throw
<1>4. CASE Parse(t)
  <2>1. CASE Throw(t, "empty", {}) /\ pack.size = 0
    BY <1>0, <1>1, <2>1 DEF Throw
  <2>2. CASE PlaintextPack /\ (Go(t, "string", {"plaintext"}) \/ Throw(t, "memory", {}))
    BY <1>0, <1>1, <1>4, <2>2 DEF Parse, Go, Throw
  <2>3. CASE ParsesEncrypted(pack) /\ Go(t, "once", {})
    BY <1>0, <1>1, <1>4, <2>3 DEF Parse, Go
  <2>4. CASE Throw(t, "parse", {}) /\ ~PlaintextPack /\ ~ParsesEncrypted(pack)
    BY <1>0, <1>1, <2>4 DEF Throw
  <2>5. HasMagic(pack, "plaintext") => ~ParsesEncrypted(pack)
    BY DEF HasMagic, ParsesEncrypted
  <2>6. PlaintextPack => HasMagic(pack, "plaintext")
    BY DEF PlaintextPack, ParsesPlaintext, CanRead, HasMagic, Pack
  <2>7. ParsesPlaintext(pack) /\ HasMagic(pack, "plaintext") => PlaintextPack
    BY DEF PlaintextPack, HasMagic
  <2>8. \/ Throw(t, "empty", {}) /\ pack.size = 0
        \/ PlaintextPack /\ (Go(t, "string", {"plaintext"}) \/ Throw(t, "memory", {}))
        \/ ParsesEncrypted(pack) /\ Go(t, "once", {})
        \/ Throw(t, "parse", {}) /\ ~PlaintextPack /\ ~ParsesEncrypted(pack)
    <3> HIDE DEF PackOK, Decrypting, TypeOK, IInv
    <3>1. PlaintextPack => ParsesPlaintext(pack)
      BY DEF PlaintextPack
    <3> QED
      BY <1>4, <2>5, <2>6, <2>7, <3>1 DEF Parse
  <2> QED
    BY <2>1, <2>2, <2>3, <2>4, <2>8
<1>5. CASE EnterOnce(t) \/ InitOpenssl(t) \/ InitFails(t)
  BY <1>0, <1>1, <1>5 DEF EnterOnce, InitOpenssl, InitFails, Go, Throw
<1>6. CASE MaterializeKey(t)
  <2>1. CASE Go(t, "context", {"key"})
    BY <1>0, <1>1, <1>6, <2>1 DEF MaterializeKey, Go
  <2>2. CASE Throw(t, "no_key", {})
    BY <1>0, <1>1, <2>2 DEF Throw
  <2> QED
    BY <1>6, <2>1, <2>2 DEF MaterializeKey
<1>7. CASE SetUpContext(t)
  <2>1. CASE Go(t, "buffer", dirty[t])
    BY <1>0, <1>1, <1>7, <2>1 DEF SetUpContext, Go
  <2>2. CASE Throw(t, "openssl", dirty[t] \ {"key"})
    BY <1>0, <1>1, <2>2 DEF Throw
  <2> QED
    BY <1>7, <2>1, <2>2 DEF SetUpContext
<1>8. CASE AllocatePlaintext(t)
  <2>1. CASE Go(t, "update", dirty[t])
    BY <1>0, <1>1, <1>8, <2>1 DEF AllocatePlaintext, Go
  <2>2. CASE Throw(t, "memory", dirty[t])
    BY <1>0, <1>1, <2>2 DEF Throw
  <2> QED
    BY <1>8, <2>1, <2>2 DEF AllocatePlaintext
<1>9. CASE DecryptUpdate(t)
  BY <1>0, <1>1, <1>9 DEF DecryptUpdate, Go, Throw
<1>10. CASE DecryptFinal(t)
  BY <1>0, <1>1, <1>10 DEF DecryptFinal, Opens, SealedPack, Go, Throw
<1>11. CASE CopyToString(t) \/ LoadThrows(t) \/ Load(t)
  BY <1>0, <1>1, <1>11 DEF CopyToString, LoadThrows, Load, Go, Throw
<1> QED
  BY <1>2, <1>3, <1>4, <1>5, <1>6, <1>7, <1>8, <1>9, <1>10, <1>11 DEF Continue

LEMMA PackStep ==
  ASSUME IInv, TypeOK', [Next]_vars
  PROVE  PackInv'
<1>1. ASSUME NEW t \in Threads, Create(t) \/ NullArgument(t) \/ Continue(t)
      PROVE  PackInv'
  <2>1. PackOK(t)'
    BY <1>1, OwnPack
  <2>2. ASSUME NEW u \in Threads \ {t}
        PROVE  PackOK(u)'
    BY <1>1, OtherThreads DEF IInv, PackInv, PackOK, PlaintextPack, SealedPack, Decrypting
  <2> QED
    BY <2>1, <2>2 DEF PackInv
<1>2. CASE UNCHANGED vars
  BY <1>2 DEF vars, IInv, PackInv, PackOK, PlaintextPack, SealedPack, Decrypting
<1> QED
  BY <1>1, <1>2 DEF Next

(* The once_flag is taken when it is free, and given back by who has it.   *)
LEMMA OnceStep ==
  ASSUME IInv, TypeOK', [Next]_vars
  PROVE  OnceInv' /\ InitOnce'
<1> USE DEF IInv, OnceInv, InitOnce, UsesOpenssl
<1>1. ASSUME NEW t \in Threads, Create(t) \/ NullArgument(t) \/ Continue(t)
      PROVE  OnceInv' /\ InitOnce'
  <2>0. \A u \in Threads \ {t} : pc'[u] = pc[u]
    BY <1>1, OtherThreads
  <2>1. ASSUME OnceUnchanged, pc[t] # "openssl_init", pc'[t] # "openssl_init",
               pc'[t] \in {"key", "context", "buffer", "update", "final"} => once = "done"
        PROVE  OnceInv' /\ InitOnce'
    BY <2>0, <2>1 DEF OnceUnchanged
  <2> USE DEF TypeOK
  <2>2. CASE Create(t) \/ NullArgument(t)
    BY <2>1, <2>2 DEF Create, NullArgument, Throw
  <2>3. CASE Parse(t)
    BY <2>1, <2>3 DEF Parse, Go, Throw
  <2>4. CASE EnterOnce(t)
    <3>1. CASE once = "done" /\ Go(t, "key", {}) /\ OnceUnchanged
      BY <2>1, <2>4, <3>1 DEF EnterOnce, Go
    <3>2. CASE /\ once = "free" /\ once' = "busy" /\ inits' = inits
               /\ pc' = [pc EXCEPT ![t] = "openssl_init"]
      <4>1. inits' = 0 /\ pc'[t] = "openssl_init"
        BY <3>2
      <4>2. \A u \in Threads : pc[u] # "openssl_init" /\ ~UsesOpenssl(u)
        BY <3>2
      <4> QED
        BY <2>0, <3>2, <4>1, <4>2
    <3> QED
      BY <2>4, <3>1, <3>2 DEF EnterOnce, OnceWhileBusy, Go
  <2>5. CASE InitOpenssl(t)
    <3>1. once = "busy" /\ once' = "done" /\ inits' = 1 /\ pc'[t] = "key"
      BY <2>5 DEF InitOpenssl, Go
    <3>2. \A u \in Threads : pc'[u] # "openssl_init"
      BY <2>0, <2>5, <3>1 DEF InitOpenssl
    <3> QED
      BY <3>1, <3>2
  <2>6. CASE InitFails(t)
    <3>1. once = "busy" /\ once' = "free" /\ inits' = 0 /\ pc'[t] = "idle"
      BY <2>6 DEF InitFails, OnceAfterFailure, Throw
    <3>2. \A u \in Threads : pc'[u] # "openssl_init" /\ ~UsesOpenssl(u)'
      BY <2>0, <2>6, <3>1 DEF InitFails
    <3> QED
      BY <3>1, <3>2
  <2>7. CASE MaterializeKey(t) \/ SetUpContext(t) \/ AllocatePlaintext(t)
    BY <2>1, <2>7 DEF MaterializeKey, SetUpContext, AllocatePlaintext, Go, Throw
  <2>8. CASE DecryptUpdate(t) \/ DecryptFinal(t)
    BY <2>1, <2>8 DEF DecryptUpdate, DecryptFinal, Go, Throw
  <2>9. CASE CopyToString(t) \/ LoadThrows(t) \/ Load(t)
    BY <2>1, <2>9 DEF CopyToString, LoadThrows, Load, Go, Throw
  <2> QED
    BY <1>1, <2>2, <2>3, <2>4, <2>5, <2>6, <2>7, <2>8, <2>9 DEF Continue
<1>2. CASE UNCHANGED vars
  BY <1>2 DEF vars
<1> QED
  BY <1>1, <1>2 DEF Next

(* Which buffers are dirty follows from the step; so it does at the end.   *)
LEMMA DirtyStep ==
  ASSUME IInv, TypeOK', [Next]_vars
  PROVE  DirtyInv' /\ SecretsCleared'
<1> USE DEF IInv, DirtyInv, SecretsCleared
<1>1. ASSUME NEW t \in Threads, Create(t) \/ NullArgument(t) \/ Continue(t)
      PROVE  DirtyInv' /\ SecretsCleared'
  <2>0. \A u \in Threads \ {t} :
          pc'[u] = pc[u] /\ dirty'[u] = dirty[u] /\ error'[u] = error[u]
    BY <1>1, OtherThreads
  <2> DEFINE Own ==
        /\ pc'[t] \in {"parse", "once", "openssl_init", "key"} => dirty'[t] = {}
        /\ pc'[t] \in {"context", "buffer", "update"} => dirty'[t] = {"key"}
        /\ pc'[t] = "final" => dirty'[t] = {"key", "plaintext"}
        /\ pc'[t] = "string" => dirty'[t] = {"plaintext"}
        /\ pc'[t] = "load" => dirty'[t] = {"plaintext", "string"}
        /\ pc'[t] = "idle" =>
              dirty'[t] \subseteq
                IF error'[t] \in {"memory", "size"} THEN {"key"} ELSE {"stream"}
  <2>1. SUFFICES Own
    BY <2>0
  <2> USE DEF TypeOK
  <2>2. CASE Create(t) \/ NullArgument(t)
    BY <2>2 DEF Create, NullArgument, Throw
  <2>3. CASE Parse(t)
    BY <2>3 DEF Parse, Go, Throw
  <2>4. CASE EnterOnce(t) \/ InitOpenssl(t) \/ InitFails(t)
    BY <2>4 DEF EnterOnce, InitOpenssl, InitFails, Go, Throw
  <2>5. CASE MaterializeKey(t)
    BY <2>5 DEF MaterializeKey, Go, Throw
  <2>6. CASE SetUpContext(t)
    BY <2>6 DEF SetUpContext, Go, Throw
  <2>7. CASE AllocatePlaintext(t)
    BY <2>7 DEF AllocatePlaintext, Go, Throw
  <2>8. CASE DecryptUpdate(t)
    BY <2>8 DEF DecryptUpdate, Go, Throw
  <2>9. CASE DecryptFinal(t)
    BY <2>9 DEF DecryptFinal, AfterBadTag, Go, Throw
  <2>10. CASE CopyToString(t)
    BY <2>10 DEF CopyToString, Go, Throw
  <2>11. CASE LoadThrows(t)
    BY <2>11 DEF LoadThrows, AfterLoad, Throw
  <2>12. CASE Load(t)
    BY <2>12 DEF Load, AfterLoad
  <2> QED
    BY <1>1, <2>2, <2>3, <2>4, <2>5, <2>6, <2>7, <2>8, <2>9, <2>10, <2>11, <2>12
       DEF Continue
<1>2. CASE UNCHANGED vars
  BY <1>2 DEF vars
<1> QED
  BY <1>1, <1>2 DEF Next

(* What the pack is like in every state.                                   *)
LEMMA PackConsequences ==
  ASSUME PackAssumption, TypeOK, PackInv
  PROVE  ReadsInside /\ LoadsGenuine /\ GeneratedParses
<1>0. pack \in Pack
  BY DEF TypeOK
<1>1. PlaintextPack => pack.size = PlaintextAt + pack.len
  BY <1>0, ParserAgreesOnPlaintext DEF PlaintextPack
<1>2. SealedPack => ValidEncryptedInput(pack) /\ key = "own"
  BY <1>0, ParserAgreesOnEncrypted DEF SealedPack
<1>3. ReadsInside
  <2>1. \A t \in Threads :
          Decrypting(t) => CiphertextAt + CiphertextSize(pack) + TagBytes = pack.size
    BY <1>0, ParsedCiphertext DEF PackInv, PackOK
  <2>2. SealedPack => pack.magic # "plaintext"
    BY <1>2 DEF ValidEncryptedInput
  <2>3. \A t \in Threads :
          pc[t] = "string" /\ pack.magic = "plaintext" =>
            PlaintextAt + pack.len = pack.size
    BY <1>1, <2>2 DEF PackInv, PackOK
  <2> QED
    BY <2>1, <2>3 DEF ReadsInside
<1>4. LoadsGenuine
  BY <1>1, <1>2 DEF LoadsGenuine, PackInv, PackOK, PlaintextPack
<1>5. GeneratedParses
  <2>1. Generated(pack) => PlaintextPack \/ ParsesEncrypted(pack)
    BY <1>0, ParserAgreesOnEncrypted, ParserAgreesOnPlaintext
       DEF Generated, EmbeddedPlaintext, PlaintextPack
  <2>2. Generated(pack) => pack.size # 0
    BY <1>0 DEF Generated, EmbeddedPlaintext, ValidEncryptedInput, Pack
  <2> QED
    BY <2>1, <2>2 DEF GeneratedParses, PackInv, PackOK
<1> QED
  BY <1>3, <1>4, <1>5

-----------------------------------------------------------------------------
(* The invariant.                                                          *)

LEMMA NextIInv == PackAssumption /\ IInv /\ [Next]_vars => IInv'
<1> SUFFICES ASSUME PackAssumption, IInv, [Next]_vars PROVE IInv'
  OBVIOUS
<1>1. TypeOK'
  BY TypeStep DEF IInv
<1>2. OnceInv' /\ InitOnce'
  BY <1>1, OnceStep
<1>3. DirtyInv' /\ SecretsCleared'
  BY <1>1, DirtyStep
<1>4. PackInv'
  BY <1>1, PackStep
<1>5. ReadsInside' /\ LoadsGenuine' /\ GeneratedParses'
  BY <1>1, <1>4, PackConsequences, PTL
<1> QED
  BY <1>1, <1>2, <1>3, <1>4, <1>5 DEF IInv

(* All of the conditions hold in every state.                              *)
THEOREM Invariance == Spec => []IInv
<1> QED
  BY PackAssumption, InitIInv, NextIInv, PTL DEF Spec

(* Nothing beyond the embedded pack is decrypted or copied.                *)
THEOREM LoadReadsInside == Spec => []ReadsInside
<1>1. IInv => ReadsInside
  BY DEF IInv
<1> QED
  BY <1>1, Invariance, PTL

(* A session comes from a well-formed pack and, if encrypted, its own key. *)
THEOREM SessionsAreGenuine == Spec => []LoadsGenuine
<1>1. IInv => LoadsGenuine
  BY DEF IInv
<1> QED
  BY <1>1, Invariance, PTL

(* The parser takes every blob that the generator makes.                   *)
THEOREM GeneratedBlobsParse == Spec => []GeneratedParses
<1>1. IInv => GeneratedParses
  BY DEF IInv
<1> QED
  BY <1>1, Invariance, PTL

(* OpenSSL is initialised once and before it is used.                      *)
THEOREM InitialisedOnce == Spec => []InitOnce
<1>1. IInv => InitOnce
  BY DEF IInv
<1> QED
  BY <1>1, Invariance, PTL

(* The paths out of model_create clear what SecretsCleared says.           *)
THEOREM SecretsAreCleared == Spec => []SecretsCleared
<1>1. IInv => SecretsCleared
  BY DEF IInv
<1> QED
  BY <1>1, Invariance, PTL

=============================================================================
