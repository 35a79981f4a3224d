----------------------------- MODULE ModelLoad -----------------------------
(***************************************************************************)
(* model_create (runtime/src/model_api.cpp) and the constructor of         *)
(* ModelSession behind it (runtime/src/model_session.cpp): threads of a    *)
(* host load the model that is embedded in the library.                    *)
(*                                                                         *)
(* Loads share only the once_flag of the OpenSSL initialisation, whose     *)
(* callable may throw; then call_once lets the next caller try.  All else  *)
(* belongs to one call, and any of its steps may throw.                    *)
(*                                                                         *)
(* Data.  Of the buffers of a load it matters whether they hold the key or *)
(* the model: a buffer is dirty from when it is filled until secure_clear, *)
(* and for ever if it is released before.  OpenSSL, the allocator and      *)
(* torch::jit::load are external: they may fail at any time, but no pack   *)
(* passes EVP_DecryptFinal_ex that was not sealed with the embedded key.   *)
(***************************************************************************)
EXTENDS ModelPack

CONSTANTS
  Threads,      \* threads of the host
  IntMax,       \* the largest int, the limit of OpenSSL's lengths
  MaxCreates,   \* bound: calls of model_create
  MaxInitFails  \* bound: times OPENSSL_init_crypto fails

ASSUME LoadAssumption ==
  /\ IntMax \in Nat
  /\ MaxCreates \in Nat
  /\ MaxInitFails \in Nat

VARIABLES
  pack,        \* the embedded pack, or a pack of size 0 if there is none
  key,         \* the embedded key: the one of the pack, another, or none
  once,        \* the once_flag: "free", "busy" or "done"
  init_fails,  \* how often the OpenSSL initialisation has failed
  inits,       \* history: how often it has succeeded
  pc,          \* where each thread is
  dirty,       \* thread -> the buffers of its last call that hold secrets
  rc,          \* thread -> what its last model_create returned
  error,       \* thread -> g_last_error, as the step that failed
  creates      \* how many calls were made

vars == <<pack, key, once, init_fails, inits, pc, dirty, rc, error, creates>>

(* The steps of a load; "idle" is outside of model_create.                 *)
Steps == {"parse", "once", "openssl_init", "key", "context", "buffer", "update",
          "final", "string", "load"}

(* The array of the key, the decrypted or copied model, model_string, and  *)
(* the buffer inside model_stream.                                         *)
Buffers == {"key", "plaintext", "string", "stream"}

(* What g_last_error may say: nothing, or why the load failed.             *)
Errors == {"none", "null", "empty", "parse", "init", "no_key", "openssl", "memory",
           "size", "tag", "jit"}

(* No call of model_create yet.                                            *)
NoCall == 1

Init ==
  /\ pack \in Packs
  /\ key \in {"own", "other", "none"}
  /\ once = "free"
  /\ init_fails = 0
  /\ inits = 0
  /\ pc = [t \in Threads |-> "idle"]
  /\ dirty = [t \in Threads |-> {}]
  /\ rc = [t \in Threads |-> NoCall]
  /\ error = [t \in Threads |-> "none"]
  /\ creates = 0

-----------------------------------------------------------------------------
(* Thread t goes on to a step, with these buffers dirty ...                *)
Go(t, step, buffers) ==
  /\ pc' = [pc EXCEPT ![t] = step]
  /\ dirty' = [dirty EXCEPT ![t] = buffers]
  /\ UNCHANGED <<pack, key, rc, error, creates>>

(* ... or its call fails, usually with an exception from the constructor,  *)
(* and these are left dirty.                                               *)
Throw(t, why, buffers) ==
  /\ pc' = [pc EXCEPT ![t] = "idle"]
  /\ dirty' = [dirty EXCEPT ![t] = buffers]
  /\ rc' = [rc EXCEPT ![t] = IF why = "null" THEN -1 ELSE -2]
  /\ error' = [error EXCEPT ![t] = why]
  /\ UNCHANGED <<pack, key, creates>>

OnceUnchanged == UNCHANGED <<once, init_fails, inits>>

(* Fault: OnceWhileBusy without waiting for the initialisation that runs.  *)
NoWait == once = "busy"

(* Fault: OnceAfterFailure that leaves the flag to nobody.                 *)
StaysBusy == "busy"

(* Fault: AfterBadTag that clears the model but not the key.               *)
KeepsKey(t) == dirty[t] \ {"plaintext"}

(* Fault: Opens without the authentication of the pack.                    *)
OpensAnyway == key # "none"

-----------------------------------------------------------------------------
(* model_create(&handle).                                                  *)
Create(t) ==
  /\ pc[t] = "idle" /\ creates < MaxCreates
  /\ creates' = creates + 1
  /\ pc' = [pc EXCEPT ![t] = "parse"]
  /\ dirty' = [dirty EXCEPT ![t] = {}]
  /\ UNCHANGED <<pack, key, rc, error>>
  /\ OnceUnchanged

(* model_create(NULL) and model_forward(NULL, ...).                        *)
NullArgument(t) ==
  /\ pc[t] = "idle"
  /\ Throw(t, "null", {})
  /\ OnceUnchanged

(* load_embedded_model_blob up to the decryption.                          *)
Parse(t) ==
  /\ pc[t] = "parse"
  /\ OnceUnchanged
  /\ IF pack.size = 0 THEN Throw(t, "empty", {})
     ELSE IF HasMagic(pack, "plaintext")
     THEN IF ParsesPlaintext(pack)
          THEN Go(t, "string", {"plaintext"}) \/ Throw(t, "memory", {})
          ELSE Throw(t, "parse", {})
     ELSE IF ParsesEncrypted(pack)
     THEN Go(t, "once", {})
     ELSE Throw(t, "parse", {})

(* init_openssl_crypto: a call while another one initialises waits for it. *)
OnceWhileBusy == FALSE

EnterOnce(t) ==
  /\ pc[t] = "once"
  /\ \/ /\ once = "done"
        /\ Go(t, "key", {})
        /\ OnceUnchanged
     \/ /\ once = "free" \/ OnceWhileBusy
        /\ once' = "busy"
        /\ Go(t, "openssl_init", {})
        /\ UNCHANGED <<init_fails, inits>>

(* OPENSSL_init_crypto succeeds.                                           *)
InitOpenssl(t) ==
  /\ pc[t] = "openssl_init"
  /\ once' = "done"
  /\ inits' = inits + 1
  /\ Go(t, "key", {})
  /\ UNCHANGED init_fails

(* The flag after the callable has thrown: the next caller may try.        *)
OnceAfterFailure == "free"

InitFails(t) ==
  /\ pc[t] = "openssl_init" /\ init_fails < MaxInitFails
  /\ once' = OnceAfterFailure
  /\ init_fails' = init_fails + 1
  /\ Throw(t, "init", {})
  /\ UNCHANGED inits

-----------------------------------------------------------------------------
(* decrypt_aes_128_gcm                                                     *)

(* pt2so_materialize_aes_128_key; the one of aes_key_empty.cpp throws.     *)
MaterializeKey(t) ==
  /\ pc[t] = "key"
  /\ OnceUnchanged
  /\ \/ key = "none" /\ Throw(t, "no_key", {})
     \/ key # "none" /\ Go(t, "context", {"key"})

(* The cipher context is allocated and initialised, and the additional     *)
(* data authenticated.  Each of these failures clears the key.             *)
SetUpContext(t) ==
  /\ pc[t] = "context"
  /\ OnceUnchanged
  /\ Go(t, "buffer", dirty[t]) \/ Throw(t, "openssl", dirty[t] \ {"key"})

(* The vector for the plaintext; bad_alloc goes past the clearing.         *)
AllocatePlaintext(t) ==
  /\ pc[t] = "buffer"
  /\ OnceUnchanged
  /\ Go(t, "update", dirty[t]) \/ Throw(t, "memory", dirty[t])

(* EVP_DecryptUpdate.  So does the check of the length.                    *)
DecryptUpdate(t) ==
  /\ pc[t] = "update"
  /\ OnceUnchanged
  /\ IF CiphertextSize(pack) > IntMax
     THEN Throw(t, "size", dirty[t])
     ELSE \/ Go(t, "final", dirty[t] \cup {"plaintext"})
          \/ Throw(t, "openssl", dirty[t] \ {"key"})

(* The authentication succeeds.                                            *)
Opens == key = "own"

(* What a pack that was not sealed with this key leaves.                   *)
AfterBadTag(t) == dirty[t] \ {"plaintext", "key"}

(* EVP_CTRL_GCM_SET_TAG and EVP_DecryptFinal_ex.                           *)
DecryptFinal(t) ==
  /\ pc[t] = "final"
  /\ OnceUnchanged
  /\ \/ Opens /\ Go(t, "string", dirty[t] \ {"key"})
     \/ Throw(t, "openssl", dirty[t] \ {"plaintext", "key"})
     \/ ~Opens /\ Throw(t, "tag", AfterBadTag(t))

-----------------------------------------------------------------------------
(* load_jit_model_from_memory and the rest of the constructor              *)

(* model_string; without memory for it the constructor's handler clears    *)
(* the plaintext.                                                          *)
CopyToString(t) ==
  /\ pc[t] = "string"
  /\ OnceUnchanged
  /\ \/ Go(t, "load", dirty[t] \cup {"string"})
     \/ Throw(t, "memory", dirty[t] \ {"plaintext"})

(* model_stream has a copy of its own, which is only released.             *)
AfterLoad(t) == (dirty[t] \cup {"stream"}) \ {"string", "plaintext"}

(* torch::jit::load throws, or the stream cannot be made.                  *)
LoadThrows(t) ==
  /\ pc[t] = "load"
  /\ OnceUnchanged
  /\ Throw(t, "jit", AfterLoad(t)) \/ Throw(t, "jit", dirty[t] \ {"string", "plaintext"})

(* The session exists, and model_create returns its handle.                *)
Load(t) ==
  /\ pc[t] = "load"
  /\ OnceUnchanged
  /\ pc' = [pc EXCEPT ![t] = "idle"]
  /\ dirty' = [dirty EXCEPT ![t] = AfterLoad(t)]
  /\ rc' = [rc EXCEPT ![t] = 0]
  /\ error' = [error EXCEPT ![t] = "none"]
  /\ UNCHANGED <<pack, key, creates>>

-----------------------------------------------------------------------------
Continue(t) ==
  \/ Parse(t) \/ EnterOnce(t) \/ InitOpenssl(t) \/ InitFails(t)
  \/ MaterializeKey(t) \/ SetUpContext(t) \/ AllocatePlaintext(t)
  \/ DecryptUpdate(t) \/ DecryptFinal(t)
  \/ CopyToString(t) \/ LoadThrows(t) \/ Load(t)

Next == \E t \in Threads : Create(t) \/ NullArgument(t) \/ Continue(t)

Spec == Init /\ [][Next]_vars

(* Threads inside of model_create go on; nobody need call it.  Of those    *)
(* that wait for the once_flag some may be overtaken, but not for ever, as *)
(* the initialisation does not fail for ever.                              *)
Fairness == \A t \in Threads : WF_vars(Continue(t))

FairSpec == Spec /\ Fairness

-----------------------------------------------------------------------------
(* Correctness.                                                            *)

TypeOK ==
  /\ pack \in Pack
  /\ key \in {"own", "other", "none"}
  /\ once \in {"free", "busy", "done"}
  /\ init_fails \in Nat
  /\ inits \in Nat
  /\ pc \in [Threads -> Steps \cup {"idle"}]
  /\ dirty \in [Threads -> SUBSET Buffers]
  /\ rc \in [Threads -> {NoCall, 0, -1, -2}]
  /\ error \in [Threads -> Errors]
  /\ creates \in Nat

(* The steps after the parser accepted an encrypted pack, and those that   *)
(* call OpenSSL.                                                           *)
Decrypting(t) ==
  pc[t] \in {"once", "openssl_init", "key", "context", "buffer", "update", "final"}
UsesOpenssl(t) == pc[t] \in {"key", "context", "buffer", "update", "final"}

(* The ciphertext and its tag, and the embedded plaintext, end where the   *)
(* pack ends, whatever its length field says and however narrow size_t is: *)
(* nothing beyond the embedded data is decrypted or copied.                *)
ReadsInside ==
  \A t \in Threads :
    /\ Decrypting(t) =>
         CiphertextAt + CiphertextSize(pack) + TagBytes = pack.size
    /\ pc[t] = "string" /\ pack.magic = "plaintext" =>
         PlaintextAt + pack.len = pack.size

(* A session exists only if the pack has exactly the format that the tools *)
(* write, and an encrypted one only if the library's key is the one the    *)
(* pack was sealed with.                                                   *)
LoadsGenuine ==
  \A t \in Threads :
    rc[t] = 0 =>
      \/ ValidEncryptedInput(pack) /\ key = "own"
      \/ pack.magic = "plaintext" /\ pack.size = PlaintextAt + pack.len

(* What generate_blob.py accepted is never refused by the parser.          *)
GeneratedParses ==
  Generated(pack) =>
    \A t \in Threads : error[t] \notin {"empty", "parse"}

(* OpenSSL is initialised once, before any thread uses it, however many    *)
(* loads run at the same time and however often it failed before.          *)
InitOnce ==
  /\ inits <= 1
  /\ \A t \in Threads : UsesOpenssl(t) => once = "done"

(* When model_create has returned, key, plaintext and model_string are     *)
(* cleared on every path but two: an allocation that fails, and a length   *)
(* that OpenSSL cannot take, leave the key.                                *)
SecretsCleared ==
  \A t \in Threads :
    pc[t] = "idle" =>
      dirty[t] \subseteq IF error[t] \in {"memory", "size"} THEN {"key"} ELSE {"stream"}

(* As the README has it: model_create clears the temporary key and the     *)
(* plaintext buffers.                                                      *)
TemporariesCleared == \A t \in Threads : pc[t] = "idle" => dirty[t] = {}

(* The flag is busy exactly while one thread initialises.                  *)
OnceInv ==
  /\ \A t \in Threads : pc[t] = "openssl_init" => once = "busy"
  /\ once = "busy" => \E t \in Threads : pc[t] = "openssl_init"
  /\ \A t, u \in Threads :
        pc[t] = "openssl_init" /\ pc[u] = "openssl_init" => t = u
  /\ inits = IF once = "done" THEN 1 ELSE 0

(* What thread t knows of the pack: a call gets past the parser and the    *)
(* authentication only with the right pack and key, and is refused only    *)
(* with a wrong one.                                                       *)
PlaintextPack == pack.magic = "plaintext" /\ ParsesPlaintext(pack)
SealedPack == ParsesEncrypted(pack) /\ key = "own"

PackOK(t) ==
  /\ Decrypting(t) => ParsesEncrypted(pack)
  /\ pc[t] \in {"string", "load"} => PlaintextPack \/ SealedPack
  /\ rc[t] = 0 => PlaintextPack \/ SealedPack
  /\ error[t] = "empty" => pack.size = 0
  /\ error[t] = "parse" => ~PlaintextPack /\ ~ParsesEncrypted(pack)

PackInv == \A t \in Threads : PackOK(t)

(* The dirty buffers of a load, by the step it is at.                      *)
DirtyInv ==
  \A t \in Threads :
    /\ pc[t] \in {"parse", "once", "openssl_init", "key"} => dirty[t] = {}
    /\ pc[t] \in {"context", "buffer", "update"} => dirty[t] = {"key"}
    /\ pc[t] = "final" => dirty[t] = {"key", "plaintext"}
    /\ pc[t] = "string" => dirty[t] = {"plaintext"}
    /\ pc[t] = "load" => dirty[t] = {"plaintext", "string"}

(* All of it together is inductive.                                        *)
IInv ==
  /\ TypeOK /\ ReadsInside /\ LoadsGenuine /\ GeneratedParses /\ InitOnce
  /\ SecretsCleared /\ OnceInv /\ PackInv /\ DirtyInv

(* A call of model_create returns, also if it waited for the once_flag     *)
(* while the initialisation failed in another thread.                      *)
CreateReturns == \A t \in Threads : pc[t] # "idle" ~> pc[t] = "idle"

=============================================================================
