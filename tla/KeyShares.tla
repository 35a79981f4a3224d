------------------------------ MODULE KeyShares -----------------------------
(***************************************************************************)
(* How encrypt_model.py hides the key of the model in C++ source, and how  *)
(* that source puts it together again (tools/encrypt_model.py, 23-178).    *)
(* The key is split into shares whose xor it is, the order in which they   *)
(* will be used is shuffled, and the two words of every share are rotated  *)
(* and masked with constants of their own.  What is generated is a         *)
(* function pt2so_key_stage_XX per share, and the function that calls      *)
(* them: pt2so_materialize_aes_128_key, which every load runs.             *)
(*                                                                         *)
(* Data.  A number is the set of the positions of its one-bits, so xor is  *)
(* the symmetric difference.  Bit k of byte j of a key is bit 8j + k, and  *)
(* the little-endian word w takes the bits that follow bit w * WordBits.   *)
(* What `secrets` draws is any member of Tokens, and of Masks.             *)
(***************************************************************************)
EXTENDS Integers, Sequences

CONSTANTS
  WordBits,    \* bits of a word (64)
  Size,        \* how many words there are (2^64)
  Value,       \* the number that a set of bits stands for
  Tokens,      \* the keys and shares that may be drawn
  Masks,       \* the constants that may be drawn for a word
  MaxShares    \* bound: --key-share-count

Bits == 0..WordBits - 1
Words == SUBSET Bits
KeyBits == 0..2 * WordBits - 1
Slots == 0..1

Mask == [a : Words, b : Words, c : Words, rotation : 1..WordBits - 1]

(* Of the binary numbers it is only assumed that each is one word.         *)
ASSUME KeyAssumption ==
  /\ WordBits \in Nat \ {0, 1}
  /\ Size \in Nat \ {0}
  /\ Value \in [Words -> 0..Size - 1]
  /\ \A n \in 0..Size - 1 : \E x \in Words : Value[x] = n
  /\ \A x, y \in Words : Value[x] = Value[y] => x = y
  /\ Tokens \subseteq SUBSET KeyBits
  /\ Masks \subseteq Mask
  /\ MaxShares \in Nat

VARIABLES
  key,           \* the key of the package
  share_count,   \* --key-share-count
  pc,            \* "split", "shuffle", "encode", "built" or "decode"
  shares,        \* the shares made so far
  tail,          \* the key without the shares made so far
  order,         \* the order of the calls
  stages,        \* the constants of the stages written so far
  step,          \* the index of the loop over order
  words,         \* words of pt2so_materialize_aes_128_key
  out            \* the keys that calls of it have returned

generator == <<key, share_count, shares, tail, order, stages>>
vars == <<generator, pc, step, words, out>>

-----------------------------------------------------------------------------
(* Arithmetic on words                                                     *)

Xor(x, y) == (x \ y) \cup (y \ x)

ShiftLeft(x, n) == {i \in Bits : i - n \in x}
ShiftRight(x, n) == {i \in Bits : i + n \in x}

(* rotl64 of the tool and rotr64 of the generated source.                  *)
RotL(x, n) == ShiftLeft(x, n) \cup ShiftRight(x, WordBits - n)
RotR(x, n) == ShiftRight(x, n) \cup ShiftLeft(x, WordBits - n)

(* + and - of uint64_t.                                                    *)
WordOf(n) == CHOOSE x \in Words : Value[x] = n
Plus(x, y) == WordOf((Value[x] + Value[y]) % Size)
Minus(x, y) == WordOf((Value[x] - Value[y]) % Size)

(* key_words: word w of a key or share.                                    *)
KeyWord(share, w) == {i \in Bits : w * WordBits + i \in share}

(* The key of two words, byte by byte.                                     *)
KeyOf(ws) == {n \in KeyBits : \E w \in Slots : n - w * WordBits \in ws[w]}

-----------------------------------------------------------------------------
(* Fault: Swap that forgets one half of the exchange.                      *)
Overwrite(i, j) == [order EXCEPT ![i] = order[j]]

-----------------------------------------------------------------------------
(* Generating the source                                                   *)

(* encrypt_model draws a key; fewer than two shares are refused.           *)
Init ==
  /\ key \in Tokens
  /\ share_count \in 2..MaxShares
  /\ pc = "split"
  /\ shares = <<>> /\ tail = key
  /\ order = <<>> /\ stages = <<>> /\ step = 0
  /\ words = [w \in Slots |-> {}]
  /\ out = {}

(* split_key_into_shares: all shares but one are random ...                *)
DrawShare(token) ==
  /\ pc = "split" /\ Len(shares) < share_count - 1
  /\ shares' = Append(shares, token)
  /\ tail' = Xor(tail, token)
  /\ UNCHANGED <<key, share_count, pc, order, stages, step, words, out>>

(* ... and the last one is what they leave of the key.                     *)
AppendTail ==
  /\ pc = "split" /\ Len(shares) = share_count - 1
  /\ shares' = Append(shares, tail)
  /\ order' = [i \in 1..share_count |-> i]
  /\ step' = share_count
  /\ pc' = "shuffle"
  /\ UNCHANGED <<key, share_count, tail, stages, words, out>>

Swap(i, j) == [order EXCEPT ![i] = order[j], ![j] = order[i]]

(* An iteration of the shuffle, from the last index down to the second.    *)
Shuffle(j) ==
  /\ pc = "shuffle" /\ j <= step
  /\ order' = Swap(step, j)
  /\ step' = step - 1
  /\ pc' = IF step = 2 THEN "encode" ELSE "shuffle"
  /\ UNCHANGED <<key, share_count, shares, tail, stages, words, out>>

EncodeWord(x, m) == Xor(Plus(Xor(RotL(x, m.rotation), m.a), m.c), m.b)

(* encode_share_words: word o[slot] of the share is written to slot.       *)
EncodeShare(o, ms) ==
  LET share == shares[Len(stages) + 1]
  IN  /\ pc = "encode"
      /\ stages' = Append(stages,
            [encoded |-> [slot \in Slots |->
                             EncodeWord(KeyWord(share, o[slot]), ms[slot])],
             mask |-> ms, order |-> o])
      /\ pc' = IF Len(stages) + 1 = share_count THEN "built" ELSE "encode"
      /\ UNCHANGED <<key, share_count, shares, tail, order, step, words, out>>

-----------------------------------------------------------------------------
(* The generated source                                                    *)

Unmask(x, m) == Xor(Minus(Xor(x, m.b), m.c), m.a)

DecodeWord(x, m) == RotR(Unmask(x, m), m.rotation)

(* The slots whose word goes to local[w].                                  *)
SlotsOf(stage, w) == {slot \in Slots : stage.order[slot] = w}

(* local[w] at the end of a stage's loop.                                  *)
Local(stage, w) ==
  UNION {DecodeWord(stage.encoded[slot], stage.mask[slot]) :
            slot \in SlotsOf(stage, w)}

(* pt2so_materialize_aes_128_key begins.  A call without room for a key    *)
(* throws here, and is a stuttering step.                                  *)
Materialize ==
  /\ pc = "built"
  /\ words' = [w \in Slots |-> {}]
  /\ step' = 1
  /\ pc' = "decode"
  /\ UNCHANGED <<generator, out>>

(* The next stage xors its share onto the words.                           *)
RunStage ==
  /\ pc = "decode" /\ step <= share_count
  /\ words' = [w \in Slots |-> Xor(words[w], Local(stages[order[step]], w))]
  /\ step' = step + 1
  /\ UNCHANGED <<generator, pc, out>>

(* The words are written to the caller's buffer and cleansed.              *)
WriteKey ==
  /\ pc = "decode" /\ step > share_count
  /\ out' = out \cup {KeyOf(words)}
  /\ words' = [w \in Slots |-> {}]
  /\ pc' = "built"
  /\ UNCHANGED <<generator, step>>

SlotOrders == {o \in [Slots -> Slots] : o[0] # o[1]}

Next ==
  \/ \E token \in Tokens : DrawShare(token)
  \/ AppendTail
  \/ \E j \in 1..MaxShares : Shuffle(j)
  \/ \E o \in SlotOrders, ms \in [Slots -> Masks] : EncodeShare(o, ms)
  \/ Materialize
  \/ RunStage
  \/ WriteKey

Spec == Init /\ [][Next]_vars

-----------------------------------------------------------------------------
(* Correctness.                                                            *)

(* Whatever was drawn, and in whatever order the stages run, every call of *)
(* the generated function returns the key that the package was encrypted   *)
(* with: the tool's and the runtime's halves of the code agree.            *)
KeyRestored == out \subseteq {key}

=============================================================================
