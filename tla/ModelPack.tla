----------------------------- MODULE ModelPack -----------------------------
(***************************************************************************)
(* The embedded model pack: what tools/generate_blob.py lets into a        *)
(* library, and what the parser of runtime/src/model_session.cpp takes     *)
(* from it.                                                                *)
(*                                                                         *)
(* A pack is either encrypted: magic, algorithm id, nonce length, nonce,   *)
(* length, and that many bytes of ciphertext and tag; or plaintext: magic, *)
(* length, and that many bytes of TorchScript.  Of its bytes only the size *)
(* and the header fields matter; a field that lies beyond the end of the   *)
(* pack has a value here that no reader may look at.  size_t has the       *)
(* values 0..SizeMax, narrower than the 64-bit length if the platform is.  *)
(***************************************************************************)
EXTENDS Integers

CONSTANTS
  SizeMax,   \* the largest size_t
  Algorithm, \* kAes128GcmAlgorithmId
  Packs      \* bound: the packs that may be embedded

MagicBytes == 8
U32Bytes == 4
U64Bytes == 8
NonceBytes == 12   \* kGcmNonceBytes
TagBytes == 16     \* kGcmTagBytes

Pack == [size : 0..SizeMax, magic : {"encrypted", "plaintext", "other"},
         algorithm_id : Nat, nonce_len : Nat, len : Nat]

ASSUME PackAssumption ==
  /\ SizeMax \in Nat
  /\ Packs \subseteq Pack

Wrap(n) == n % (SizeMax + 1)

-----------------------------------------------------------------------------
(* ByteReader, in a pack of some size with offset bytes read.              *)

(* Fault: CanRead that needs one byte more.                                *)
CanReadLess(size, offset, n) == ~(offset > size \/ n >= size - offset)

(* read_bytes(n) does not throw.  The subtraction cannot wrap around.      *)
CanRead(size, offset, n) == ~(offset > size \/ n > size - offset)

Remaining(size, offset) == Wrap(size - offset)

(* has_magic *)
HasMagic(pack, magic) == pack.size >= MagicBytes /\ pack.magic = magic

-----------------------------------------------------------------------------
(* parse_embedded_encrypted_model                                          *)

(* Where the fields begin.                                                 *)
AlgorithmAt == MagicBytes
NonceLenAt == AlgorithmAt + U32Bytes
NonceAt == NonceLenAt + U32Bytes
LengthAt == NonceAt + NonceBytes
CiphertextAt == LengthAt + U64Bytes

(* Fault: TooShort that takes a pack without a whole tag.                  *)
EmptyOnly(len) == len = 0

(* The length leaves no room for the tag.                                  *)
TooShort(len) == len < TagBytes

(* The parser gets to its end.                                             *)
ParsesEncrypted(pack) ==
  /\ CanRead(pack.size, 0, MagicBytes) /\ pack.magic = "encrypted"
  /\ CanRead(pack.size, AlgorithmAt, U32Bytes) /\ pack.algorithm_id = Algorithm
  /\ CanRead(pack.size, NonceLenAt, U32Bytes) /\ pack.nonce_len = NonceBytes
  /\ CanRead(pack.size, NonceAt, pack.nonce_len)
  /\ CanRead(pack.size, LengthAt, U64Bytes)
  /\ pack.len <= SizeMax /\ ~TooShort(pack.len)
  /\ CanRead(pack.size, CiphertextAt, pack.len)
  /\ Remaining(pack.size, CiphertextAt + pack.len) = 0

(* ciphertext_size in decrypt_aes_128_gcm: what is left without the tag.   *)
CiphertextSize(pack) == Wrap(pack.len - TagBytes)

-----------------------------------------------------------------------------
(* The plaintext branch of load_embedded_model_blob                        *)

PlaintextAt == MagicBytes + U64Bytes

ParsesPlaintext(pack) ==
  /\ CanRead(pack.size, 0, MagicBytes)
  /\ CanRead(pack.size, MagicBytes, U64Bytes) /\ pack.len <= SizeMax
  /\ CanRead(pack.size, PlaintextAt, pack.len)
  /\ Remaining(pack.size, PlaintextAt + pack.len) = 0

-----------------------------------------------------------------------------
(* generate_blob.py: the file as it was when the blob source was written,  *)
(* in Python's integers.  A plaintext file gets the header that says its   *)
(* size.                                                                   *)

ValidEncryptedInput(pack) ==
  /\ pack.size >= MagicBytes /\ pack.magic = "encrypted"
  /\ pack.size >= NonceAt
  /\ pack.algorithm_id = Algorithm /\ pack.nonce_len = NonceBytes
  /\ pack.size >= NonceAt + pack.nonce_len + U64Bytes
  /\ pack.len >= TagBytes
  /\ pack.size = NonceAt + pack.nonce_len + U64Bytes + pack.len

EmbeddedPlaintext(pack) ==
  /\ pack.magic = "plaintext" /\ pack.len > 0
  /\ pack.size = PlaintextAt + pack.len

(* What generate_blob.py makes.                                            *)
Generated(pack) == ValidEncryptedInput(pack) \/ EmbeddedPlaintext(pack)

=============================================================================
