--------------------------- MODULE KeySharesProofs --------------------------
(***************************************************************************)
(* For every width of a word, every number of shares and everything that   *)
(* may be drawn, the generated source returns the key.                     *)
(***************************************************************************)
EXTENDS KeyShares, FiniteSets, FiniteSetTheorems, TLAPS

(* An odd number of the shares in S have bit b: bit b of their xor.        *)
Having(sh, S, b) == {i \in S : b \in sh[i]}
Odd(sh, S, b) == Cardinality(Having(sh, S, b)) % 2 = 1

(* The shares whose stages have run.                                       *)
Used == {order[j] : j \in 1..step - 1}

Stage == [encoded : [Slots -> Words], mask : [Slots -> Mask],
          order : SlotOrders]

TypeOK ==
  /\ key \in SUBSET KeyBits
  /\ share_count \in Nat \ {0, 1}
  /\ pc \in {"split", "shuffle", "encode", "built", "decode"}
  /\ shares \in Seq(SUBSET KeyBits)
  /\ tail \in SUBSET KeyBits
  /\ stages \in Seq(Stage)
  /\ step \in Nat
  /\ words \in [Slots -> Words]

(* While shares are drawn, they and the tail make the key; later they make *)
(* it alone.                                                               *)
SplitInv ==
  /\ pc = "split" =>
       /\ Len(shares) <= share_count - 1
       /\ \A b \in KeyBits :
            b \in key <=> ~(b \in tail <=> Odd(shares, 1..Len(shares), b))
  /\ pc # "split" =>
       /\ Len(shares) = share_count
       /\ \A b \in KeyBits : b \in key <=> Odd(shares, 1..share_count, b)

(* The list f of n numbers names each of 1..n once.                        *)
NamesEach(f, n) ==
  /\ f \in [1..n -> 1..n]
  /\ \A i, j \in 1..n : f[i] = f[j] => i = j
  /\ \A s \in 1..n : \E i \in 1..n : f[i] = s

(* However often it is shuffled, order names each share once.              *)
OrderInv ==
  /\ pc # "split" => NamesEach(order, share_count)
  /\ pc = "shuffle" => step \in 2..share_count

(* A stage decodes to the share it was written for.                        *)
StageInv ==
  /\ pc \in {"split", "shuffle"} => stages = <<>>
  /\ pc = "encode" => Len(stages) < share_count
  /\ pc \in {"built", "decode"} => Len(stages) = share_count
  /\ \A i \in 1..Len(stages), w \in Slots :
       Local(stages[i], w) = KeyWord(shares[i], w)

(* The words are the xor of the shares used.                               *)
DecodeInv ==
  pc = "decode" =>
    /\ step \in 1..share_count + 1
    /\ \A w \in Slots, i \in Bits :
         i \in words[w] <=> Odd(shares, Used, w * WordBits + i)

IInv == TypeOK /\ SplitInv /\ OrderInv /\ StageInv /\ DecodeInv /\ KeyRestored

-----------------------------------------------------------------------------
(* Words                                                                   *)

(* Xor with the same word twice changes nothing.                           *)
LEMMA XorTwice ==
  ASSUME NEW S, NEW x \in SUBSET S, NEW y \in SUBSET S
  PROVE  Xor(x, y) \in SUBSET S /\ Xor(Xor(x, y), y) = x
BY DEF Xor

(* Adding and subtracting modulo N.                                        *)
LEMMA AddSubtract ==
  ASSUME NEW N \in Nat \ {0}, NEW a \in 0..N - 1, NEW b \in 0..N - 1
  PROVE  /\ (a + b) % N \in 0..N - 1
         /\ (a - b) % N \in 0..N - 1
         /\ (((a + b) % N) - b) % N = a
<1>1. \A n \in Int : n % N \in 0..N - 1
  OBVIOUS
<1>2. \A n \in 0..N - 1 : n % N = n
  OBVIOUS
<1>3. \A n \in Int : 0 <= n - N /\ n - N < N => n % N = n - N
  OBVIOUS
<1>4. \A n \in Int : n < 0 /\ 0 <= n + N => n % N = n + N
  OBVIOUS
<1>5. (a + b) % N \in 0..N - 1 /\ (a - b) % N \in 0..N - 1
  <2>1. a + b \in Int /\ a - b \in Int
    OBVIOUS
  <2> QED
    BY <1>1, <2>1
<1>6. CASE a + b < N
  <2>1. (a + b) % N = a + b
    BY <1>2, <1>6
  <2>2. ((a + b) % N) - b = a
    BY <2>1
  <2>3. a % N = a
    BY <1>2
  <2> QED
    BY <1>5, <2>2, <2>3
<1>7. CASE a + b >= N
  <2>1. (a + b) % N = a + b - N
    BY <1>3, <1>7
  <2>2. ((a + b) % N) - b = a - N
    BY <2>1
  <2>3. (a - N) % N = a
    <3>1. a - N \in Int /\ a - N < 0 /\ 0 <= (a - N) + N /\ (a - N) + N = a
      OBVIOUS
    <3> QED
      BY <1>4, <3>1
  <2> QED
    BY <1>5, <2>2, <2>3
<1> QED
  BY <1>6, <1>7

(* A number in range is the value of the word it stands for.               *)
LEMMA WordOfValue ==
  ASSUME NEW n \in 0..Size - 1
  PROVE  WordOf(n) \in Words /\ Value[WordOf(n)] = n
BY KeyAssumption DEF WordOf

(* Subtraction undoes addition.                                            *)
LEMMA MinusPlus ==
  ASSUME NEW x \in Words, NEW y \in Words
  PROVE  Plus(x, y) \in Words /\ Minus(Plus(x, y), y) = x
<1> DEFINE a == Value[x]
           b == Value[y]
           s == (a + b) % Size
<1>1. a \in 0..Size - 1 /\ b \in 0..Size - 1 /\ Size \in Nat \ {0}
  BY KeyAssumption
<1>2. s \in 0..Size - 1 /\ (s - b) % Size = a
  <2> HIDE DEF a, b
  <2> QED
    BY <1>1, AddSubtract
<1>3. Plus(x, y) \in Words /\ Value[Plus(x, y)] = s
  BY <1>2, WordOfValue DEF Plus
<1>4. Minus(Plus(x, y), y) = WordOf(a)
  BY <1>2, <1>3 DEF Minus
<1>5. WordOf(a) \in Words /\ Value[WordOf(a)] = Value[x]
  BY <1>1, WordOfValue
<1> QED
  BY <1>3, <1>4, <1>5, KeyAssumption

(* Rotating back.                                                          *)
LEMMA RotateBack ==
  ASSUME NEW x \in Words, NEW n \in 1..WordBits - 1
  PROVE  RotL(x, n) \in Words /\ RotR(RotL(x, n), n) = x
<1>1. WordBits \in Nat
  BY KeyAssumption
<1>2. RotL(x, n) \in Words
  BY DEF RotL, ShiftLeft, ShiftRight, Words
<1>3. \A i \in Bits : i \in RotR(RotL(x, n), n) <=> i \in x
  <2> TAKE i \in Bits
  <2>1. i \in RotR(RotL(x, n), n) <=>
          \/ i + n \in RotL(x, n)
          \/ i - (WordBits - n) \in RotL(x, n)
    BY DEF RotR, ShiftLeft, ShiftRight
  <2>2. i + n \in RotL(x, n) <=> i + n \in Bits /\ i \in x
    BY <1>1 DEF RotL, ShiftLeft, ShiftRight, Words, Bits
  <2>3. i - (WordBits - n) \in RotL(x, n)
          <=> i - (WordBits - n) \in Bits /\ i \in x
    BY <1>1 DEF RotL, ShiftLeft, ShiftRight, Words, Bits
  <2> QED
    BY <1>1, <2>1, <2>2, <2>3 DEF Bits
<1> QED
  BY <1>2, <1>3 DEF RotR, ShiftLeft, ShiftRight, Words

(* The runtime's half undoes the tool's half, for each word.               *)
LEMMA DecodeEncode ==
  ASSUME NEW x \in Words, NEW m \in Mask
  PROVE  EncodeWord(x, m) \in Words /\ DecodeWord(EncodeWord(x, m), m) = x
<1> DEFINE r == RotL(x, m.rotation)
           ra == Xor(r, m.a)
           rac == Plus(ra, m.c)
<1>1. /\ m.a \in Words /\ m.b \in Words /\ m.c \in Words
      /\ m.rotation \in 1..WordBits - 1
  BY DEF Mask
<1>2. r \in Words /\ RotR(r, m.rotation) = x
  BY <1>1, RotateBack
<1>3. ra \in Words /\ Xor(ra, m.a) = r
  <2> HIDE DEF r
  <2> QED
    BY <1>1, <1>2, XorTwice DEF Words
<1>4. rac \in Words /\ Minus(rac, m.c) = ra
  <2> HIDE DEF ra
  <2> QED
    BY <1>1, <1>3, MinusPlus
<1>5. Xor(rac, m.b) \in Words /\ Xor(Xor(rac, m.b), m.b) = rac
  <2> HIDE DEF rac
  <2> QED
    BY <1>1, <1>4, XorTwice DEF Words
<1>6. EncodeWord(x, m) = Xor(rac, m.b)
  BY DEF EncodeWord
<1>7. DecodeWord(EncodeWord(x, m), m) =
        RotR(Xor(Minus(Xor(Xor(rac, m.b), m.b), m.c), m.a), m.rotation)
  BY <1>6 DEF DecodeWord, Unmask
<1> QED
  BY <1>2, <1>3, <1>4, <1>5, <1>6, <1>7

(* A stage decodes to its share, whichever word is in the first slot.      *)
LEMMA StageDecodes ==
  ASSUME NEW share, NEW o \in SlotOrders, NEW ms \in [Slots -> Mask]
  PROVE  LET stage == [encoded |-> [slot \in Slots |->
                          EncodeWord(KeyWord(share, o[slot]), ms[slot])],
                       mask |-> ms, order |-> o]
         IN  /\ stage \in Stage
             /\ \A w \in Slots : Local(stage, w) = KeyWord(share, w)
<1> DEFINE e == [slot \in Slots |->
                    EncodeWord(KeyWord(share, o[slot]), ms[slot])]
           stage == [encoded |-> e, mask |-> ms, order |-> o]
<1>1. \A slot \in Slots :
        /\ e[slot] \in Words
        /\ DecodeWord(e[slot], ms[slot]) = KeyWord(share, o[slot])
  <2> TAKE slot \in Slots
  <2>1. KeyWord(share, o[slot]) \in Words /\ ms[slot] \in Mask
    BY DEF KeyWord, Words
  <2>2. e[slot] = EncodeWord(KeyWord(share, o[slot]), ms[slot])
    OBVIOUS
  <2> QED
    BY <2>1, <2>2, DecodeEncode
<1>2. stage \in Stage
  <2>1. e \in [Slots -> Words]
    BY <1>1
  <2> HIDE DEF e
  <2> QED
    BY <2>1 DEF Stage
<1>3. ASSUME NEW w \in Slots
      PROVE  Local(stage, w) = KeyWord(share, w)
  <2>1. PICK slot \in Slots : SlotsOf(stage, w) = {slot} /\ o[slot] = w
    <3>1. o[0] \in Slots /\ o[1] \in Slots /\ o[0] # o[1]
      BY DEF SlotOrders, Slots
    <3>2. SlotsOf(stage, w) = {slot \in Slots : o[slot] = w}
      BY DEF SlotsOf
    <3>3. CASE o[0] = w
      BY <3>1, <3>2, <3>3 DEF Slots
    <3>4. CASE o[0] # w
      BY <3>1, <3>2, <3>4 DEF Slots
    <3> QED
      BY <3>3, <3>4
  <2>2. Local(stage, w) = UNION {DecodeWord(e[slot], ms[slot])}
    <3>1. stage.encoded = e /\ stage.mask = ms
      OBVIOUS
    <3> HIDE DEF stage, e
    <3> QED
      BY <2>1, <3>1 DEF Local
  <2>3. DecodeWord(e[slot], ms[slot]) = KeyWord(share, w)
    BY <1>1, <2>1
  <2> HIDE DEF e, stage
  <2> QED
    BY <2>2, <2>3
<1> QED
  BY <1>2, <1>3

-----------------------------------------------------------------------------
(* Shares                                                                  *)

(* One more share flips exactly the bits that it has.                      *)
LEMMA OddAdd ==
  ASSUME NEW sh, NEW S, IsFiniteSet(S), NEW x, x \notin S, NEW b
  PROVE  Odd(sh, S \cup {x}, b) <=> ~(b \in sh[x] <=> Odd(sh, S, b))
<1> DEFINE A == Having(sh, S, b)
<1>1. IsFiniteSet(A) /\ x \notin A
  BY FS_Subset DEF Having
<1>2. Cardinality(A) \in Nat
  BY <1>1, FS_CardinalityType
<1>3. CASE b \in sh[x]
  <2>1. Having(sh, S \cup {x}, b) = A \cup {x}
    BY <1>3 DEF Having
  <2>2. Cardinality(A \cup {x}) = Cardinality(A) + 1
    BY <1>1, FS_AddElement
  <2> HIDE DEF A
  <2>3. (Cardinality(A) + 1) % 2 = 1 <=> ~(Cardinality(A) % 2 = 1)
    BY <1>2
  <2>4. Odd(sh, S \cup {x}, b) <=> ~(Cardinality(A) % 2 = 1)
    BY <2>1, <2>2, <2>3 DEF Odd
  <2> QED
    BY <1>3, <2>4 DEF Odd, A
<1>4. CASE b \notin sh[x]
  <2>1. Having(sh, S \cup {x}, b) = A
    BY <1>4 DEF Having
  <2> QED
    BY <1>4, <2>1 DEF Odd
<1> QED
  BY <1>3, <1>4

(* No shares have no bits.                                                 *)
LEMMA OddNone ==
  ASSUME NEW sh, NEW b
  PROVE  ~Odd(sh, {}, b)
<1>1. Having(sh, {}, b) = {}
  BY DEF Having
<1> QED
  BY <1>1, FS_EmptySet DEF Odd

(* Appending a share leaves the earlier ones as they are.                  *)
LEMMA OddAppend ==
  ASSUME NEW T, NEW sh \in Seq(T), NEW t \in T, NEW b
  PROVE  Odd(Append(sh, t), 1..Len(sh) + 1, b)
           <=> ~(b \in t <=> Odd(sh, 1..Len(sh), b))
<1> DEFINE n == Len(sh)
           sh2 == Append(sh, t)
<1>1. n \in Nat /\ 1..n + 1 = (1..n) \cup {n + 1} /\ n + 1 \notin 1..n
  OBVIOUS
<1>2. sh2[n + 1] = t /\ \A i \in 1..n : sh2[i] = sh[i]
  OBVIOUS
<1> HIDE DEF n, sh2
<1>3. IsFiniteSet(1..n)
  BY <1>1, FS_Interval
<1>4. Odd(sh2, (1..n) \cup {n + 1}, b)
        <=> ~(b \in sh2[n + 1] <=> Odd(sh2, 1..n, b))
  BY <1>1, <1>3, OddAdd
<1>5. Having(sh2, 1..n, b) = Having(sh, 1..n, b)
  BY <1>2 DEF Having
<1>6. Odd(sh2, 1..n, b) <=> Odd(sh, 1..n, b)
  BY <1>5 DEF Odd
<1> QED
  BY <1>1, <1>2, <1>4, <1>6 DEF n, sh2

-----------------------------------------------------------------------------
(* The invariant                                                           *)

LEMMA InitInv == Init => IInv
<1> SUFFICES ASSUME Init PROVE IInv
  OBVIOUS
<1> USE KeyAssumption DEF Init
<1>1. TypeOK
  BY DEF TypeOK, Words, Slots
<1>2. SplitInv
  <2>1. 1..Len(shares) = {}
    OBVIOUS
  <2>2. \A b \in KeyBits : ~Odd(shares, 1..Len(shares), b)
    BY <2>1, OddNone
  <2> QED
    BY <2>2 DEF SplitInv
<1>3. OrderInv /\ StageInv /\ DecodeInv /\ KeyRestored
  BY DEF OrderInv, StageInv, DecodeInv, KeyRestored
<1> QED
  BY <1>1, <1>2, <1>3 DEF IInv

LEMMA DrawShareInv ==
  ASSUME IInv, NEW token \in Tokens, DrawShare(token)
  PROVE  IInv'
<1> USE DEF DrawShare
<1>0. TypeOK /\ token \in SUBSET KeyBits
  BY KeyAssumption DEF IInv
<1>1. TypeOK'
  <2>1. tail' \in SUBSET KeyBits
    BY <1>0 DEF TypeOK, Xor
  <2>2. shares' \in Seq(SUBSET KeyBits)
    BY <1>0 DEF TypeOK
  <2> QED
    BY <1>0, <2>1, <2>2 DEF TypeOK
<1>2. SplitInv'
  <2>1. shares \in Seq(SUBSET KeyBits) /\ share_count \in Nat
    BY <1>0 DEF TypeOK
  <2>2. Len(shares') = Len(shares) + 1 /\ Len(shares') <= share_count - 1
    BY <2>1
  <2>3. ASSUME NEW b \in KeyBits
        PROVE  b \in key <=> ~(b \in tail' <=> Odd(shares', 1..Len(shares'), b))
    <3>1. Odd(shares', 1..Len(shares) + 1, b)
            <=> ~(b \in token <=> Odd(shares, 1..Len(shares), b))
      BY <1>0, <2>1, OddAppend
    <3>2. b \in key <=> ~(b \in tail <=> Odd(shares, 1..Len(shares), b))
      BY DEF IInv, SplitInv
    <3>3. b \in tail' <=> ~(b \in tail <=> b \in token)
      BY DEF Xor
    <3> QED
      BY <2>2, <3>1, <3>2, <3>3
  <2> QED
    BY <2>2, <2>3 DEF SplitInv
<1>3. StageInv'
  BY DEF IInv, StageInv
<1> QED
  BY <1>1, <1>2, <1>3 DEF IInv, OrderInv, DecodeInv, KeyRestored

LEMMA AppendTailInv ==
  ASSUME IInv, AppendTail
  PROVE  IInv'
<1> USE DEF AppendTail
<1>0. /\ TypeOK
      /\ shares \in Seq(SUBSET KeyBits) /\ tail \in SUBSET KeyBits
      /\ share_count \in Nat \ {0, 1}
  BY DEF IInv, TypeOK
<1>1. TypeOK'
  <2>1. shares' \in Seq(SUBSET KeyBits)
    BY <1>0
  <2> QED
    BY <1>0, <2>1 DEF TypeOK
<1>2. SplitInv'
  <2>1. Len(shares') = share_count /\ Len(shares) + 1 = share_count
    BY <1>0
  <2>2. ASSUME NEW b \in KeyBits
        PROVE  b \in key <=> Odd(shares', 1..share_count, b)
    <3>1. Odd(shares', 1..Len(shares) + 1, b)
            <=> ~(b \in tail <=> Odd(shares, 1..Len(shares), b))
      BY <1>0, OddAppend
    <3>2. b \in key <=> ~(b \in tail <=> Odd(shares, 1..Len(shares), b))
      BY DEF IInv, SplitInv
    <3> QED
      BY <2>1, <3>1, <3>2
  <2> QED
    BY <2>1, <2>2 DEF SplitInv
<1>3. OrderInv'
  BY <1>0 DEF OrderInv, NamesEach
<1>4. StageInv'
  BY DEF IInv, StageInv
<1> QED
  BY <1>1, <1>2, <1>3, <1>4 DEF IInv, DecodeInv, KeyRestored

(* Exchanging two entries of a list that names everything once.            *)
Exchange(f, i, j) == [f EXCEPT ![i] = f[j], ![j] = f[i]]

LEMMA ExchangeKeepsAll ==
  ASSUME NEW n \in Nat, NEW f, NamesEach(f, n),
         NEW i \in 1..n, NEW j \in 1..n
  PROVE  NamesEach(Exchange(f, i, j), n)
<1> DEFINE g == Exchange(f, i, j)
<1>0. /\ f \in [1..n -> 1..n]
      /\ \A k, m \in 1..n : f[k] = f[m] => k = m
      /\ \A s \in 1..n : \E k \in 1..n : f[k] = s
      /\ g = [f EXCEPT ![i] = f[j], ![j] = f[i]]
  BY DEF NamesEach, Exchange
<1> HIDE DEF g
<1>1. g \in [1..n -> 1..n]
  BY <1>0
<1>2. /\ g[i] = f[j] /\ g[j] = f[i]
      /\ \A k \in 1..n : k # i /\ k # j => g[k] = f[k]
  BY <1>0
<1>3. ASSUME NEW k \in 1..n, NEW m \in 1..n, g[k] = g[m]
      PROVE  k = m
  BY <1>0, <1>2, <1>3
<1>4. ASSUME NEW s \in 1..n
      PROVE  \E k \in 1..n : g[k] = s
  <2>1. PICK k \in 1..n : f[k] = s
    BY <1>0
  <2> QED
    BY <1>2, <2>1, Zenon
<1>5. NamesEach(g, n)
  BY <1>1, <1>3, <1>4 DEF NamesEach
<1> QED
  BY <1>5 DEF g

LEMMA ShuffleInv ==
  ASSUME IInv, NEW j \in 1..MaxShares, Shuffle(j)
  PROVE  IInv'
<1> USE DEF Shuffle
<1>0. /\ TypeOK
      /\ share_count \in Nat \ {0, 1}
      /\ step \in 2..share_count /\ j \in 1..share_count
  <2>1. TypeOK /\ share_count \in Nat \ {0, 1} /\ MaxShares \in Nat
    BY KeyAssumption DEF IInv, TypeOK
  <2>2. /\ step \in 2..share_count
      BY DEF IInv, OrderInv
  <2> QED
    BY <2>1, <2>2
<1>1. TypeOK'
  BY <1>0 DEF TypeOK
<1>2. SplitInv'
  BY DEF IInv, SplitInv
<1>3. OrderInv'
  <2>0. order' = Exchange(order, step, j)
    BY DEF Swap, Exchange
  <2>1. NamesEach(order, share_count) /\ step \in 1..share_count
    BY <1>0 DEF IInv, OrderInv
  <2>2. NamesEach(order', share_count)
    BY <1>0, <2>0, <2>1, ExchangeKeepsAll
  <2>6. pc' = "shuffle" => step' \in 2..share_count
    BY <1>0
  <2> QED
    BY <2>2, <2>6 DEF OrderInv
<1>4. StageInv'
  <2>1. stages = <<>>
    BY DEF IInv, StageInv
  <2> QED
    BY <1>0, <2>1 DEF StageInv
<1> QED
  BY <1>1, <1>2, <1>3, <1>4 DEF IInv, DecodeInv, KeyRestored

LEMMA EncodeShareInv ==
  ASSUME IInv, NEW o \in SlotOrders, NEW ms \in [Slots -> Masks],
         EncodeShare(o, ms)
  PROVE  IInv'
<1> DEFINE n == Len(stages)
           share == shares[n + 1]
           e == [slot \in Slots |->
                    EncodeWord(KeyWord(share, o[slot]), ms[slot])]
           stage == [encoded |-> e, mask |-> ms, order |-> o]
<1>1. /\ pc = "encode"
      /\ stages' = Append(stages, stage)
      /\ pc' = IF n + 1 = share_count THEN "built" ELSE "encode"
      /\ UNCHANGED <<key, share_count, shares, tail, order, step, words, out>>
  BY DEF EncodeShare
<1>2. stage \in Stage /\ \A w \in Slots : Local(stage, w) = KeyWord(share, w)
  <2>1. ms \in [Slots -> Mask]
    BY KeyAssumption
  <2> QED
    BY <2>1, StageDecodes
<1> HIDE DEF stage, share
<1>3. /\ TypeOK
      /\ stages \in Seq(Stage) /\ n \in Nat
      /\ share_count \in Nat /\ n < share_count
  BY <1>1 DEF IInv, TypeOK, StageInv
<1>4. TypeOK'
  <2>1. stages' \in Seq(Stage)
    BY <1>1, <1>2, <1>3
  <2> QED
    BY <1>1, <1>3, <2>1 DEF TypeOK
<1>5. SplitInv'
  BY <1>1 DEF IInv, SplitInv
<1>6. OrderInv'
  BY <1>1 DEF IInv, OrderInv
<1>7. StageInv'
  <2>1. /\ Len(stages') = n + 1
        /\ stages'[n + 1] = stage
        /\ \A i \in 1..n : stages'[i] = stages[i]
    BY <1>1, <1>3
  <2>2. ASSUME NEW i \in 1..n + 1, NEW w \in Slots
        PROVE  Local(stages'[i], w) = KeyWord(shares[i], w)
    <3>1. CASE i = n + 1
      BY <1>2, <2>1, <3>1 DEF share
    <3>2. CASE i # n + 1
      <4>1. i \in 1..n
        BY <1>3, <3>2
      <4>2. Local(stages[i], w) = KeyWord(shares[i], w)
        BY <4>1 DEF IInv, StageInv
      <4> QED
        BY <2>1, <4>1, <4>2
    <3> QED
      BY <3>1, <3>2
  <2>3. /\ pc' \in {"encode", "built"}
        /\ pc' = "encode" => Len(stages') < share_count
        /\ pc' = "built" => Len(stages') = share_count
    BY <1>1, <1>3, <2>1
  <2> HIDE DEF n
  <2> QED
    BY <1>1, <2>1, <2>2, <2>3 DEF StageInv
<1>8. DecodeInv' /\ KeyRestored'
  BY <1>1 DEF IInv, DecodeInv, KeyRestored
<1> QED
  BY <1>4, <1>5, <1>6, <1>7, <1>8 DEF IInv

LEMMA MaterializeInv ==
  ASSUME IInv, Materialize
  PROVE  IInv'
<1> USE DEF Materialize, generator
<1>1. TypeOK'
  BY DEF IInv, TypeOK, Words, Slots
<1>2. SplitInv' /\ OrderInv' /\ StageInv'
  BY DEF IInv, SplitInv, OrderInv, StageInv
<1>3. DecodeInv'
  <2>1. share_count \in Nat
    BY DEF IInv, TypeOK
  <2>2. Used' = {}
    BY DEF Used
  <2>3. \A b : ~Odd(shares', Used', b)
    BY <2>2, OddNone
  <2>4. \A w \in Slots : words'[w] = {}
    OBVIOUS
  <2> QED
    BY <2>1, <2>3, <2>4 DEF DecodeInv
<1> QED
  BY <1>1, <1>2, <1>3 DEF IInv, KeyRestored

LEMMA RunStageInv ==
  ASSUME IInv, RunStage
  PROVE  IInv'
<1>1. /\ pc = "decode" /\ step <= share_count
      /\ words' = [w \in Slots |->
                     Xor(words[w], Local(stages[order[step]], w))]
      /\ step' = step + 1
      /\ UNCHANGED <<key, share_count, shares, tail, order, stages, pc, out>>
  BY DEF RunStage, generator
<1>2. /\ TypeOK
      /\ share_count \in Nat /\ step \in 1..share_count
      /\ order \in [1..share_count -> 1..share_count]
      /\ Len(stages) = share_count
      /\ words \in [Slots -> Words]
  <2>1. TypeOK /\ OrderInv /\ StageInv /\ DecodeInv
    BY DEF IInv
  <2>2. share_count \in Nat /\ words \in [Slots -> Words]
    BY <2>1 DEF TypeOK
  <2>3. step \in 1..share_count
    BY <1>1, <2>1, <2>2 DEF DecodeInv
  <2>4. order \in [1..share_count -> 1..share_count]
    BY <1>1, <2>1 DEF OrderInv, NamesEach
  <2>5. Len(stages) = share_count
    BY <1>1, <2>1 DEF StageInv
  <2> QED
    BY <2>1, <2>2, <2>3, <2>4, <2>5
<1> DEFINE s == order[step]
<1>3. /\ s \in 1..share_count
      /\ \A w \in Slots : Local(stages[s], w) = KeyWord(shares[s], w)
  BY <1>2 DEF IInv, StageInv
<1>4. \A w \in Slots : words'[w] = Xor(words[w], KeyWord(shares[s], w))
  BY <1>1, <1>3
<1>5. TypeOK'
  <2>1. \A w \in Slots : Xor(words[w], KeyWord(shares[s], w)) \in Words
    BY <1>2 DEF Xor, KeyWord, Words
  <2>2. words' \in [Slots -> Words]
    BY <1>1, <1>3, <2>1
  <2> QED
    BY <1>1, <1>2, <2>2 DEF TypeOK
<1>6. SplitInv' /\ OrderInv' /\ StageInv'
  BY <1>1 DEF IInv, SplitInv, OrderInv, StageInv
<1>7. DecodeInv'
  <2>1. Used' = Used \cup {s}
    BY <1>1, <1>2 DEF Used
  <2>2. s \notin Used
    <3>1. \A j \in 1..step - 1 : j \in 1..share_count /\ j # step
      BY <1>2
    <3>2. \A i, j \in 1..share_count : order[i] = order[j] => i = j
      BY <1>1 DEF IInv, OrderInv, NamesEach
    <3> QED
      BY <1>2, <3>1, <3>2 DEF Used
  <2>3. IsFiniteSet(Used)
    <3>1. Used \in SUBSET (1..share_count)
      BY <1>2 DEF Used
    <3>2. IsFiniteSet(1..share_count)
      BY <1>2, FS_Interval
    <3> QED
      BY <3>1, <3>2, FS_Subset
  <2>4. ASSUME NEW w \in Slots, NEW i \in Bits
        PROVE  i \in words'[w] <=> Odd(shares', Used', w * WordBits + i)
    <3> DEFINE b == w * WordBits + i
    <3>1. i \in words[w] <=> Odd(shares, Used, b)
      BY <1>1 DEF IInv, DecodeInv
    <3>2. i \in KeyWord(shares[s], w) <=> b \in shares[s]
      BY DEF KeyWord
    <3> HIDE DEF b, s
    <3>3. Odd(shares, Used \cup {s}, b)
            <=> ~(b \in shares[s] <=> Odd(shares, Used, b))
      BY <2>2, <2>3, OddAdd
    <3>4. i \in words'[w]
            <=> ~(i \in words[w] <=> i \in KeyWord(shares[s], w))
      BY <1>4 DEF Xor
    <3>5. Odd(shares', Used', b) <=> Odd(shares, Used \cup {s}, b)
      BY <1>1, <2>1
    <3>6. i \in words'[w] <=> Odd(shares', Used', b)
      BY <3>1, <3>2, <3>3, <3>4, <3>5
    <3> QED
      BY <3>6 DEF b
  <2>5. step' \in 1..share_count + 1
    BY <1>1, <1>2
  <2> QED
    BY <1>1, <2>4, <2>5 DEF DecodeInv
<1> QED
  BY <1>1, <1>5, <1>6, <1>7 DEF IInv, KeyRestored

LEMMA WriteKeyInv ==
  ASSUME IInv, WriteKey
  PROVE  IInv'
<1> USE DEF WriteKey, generator
<1>1. TypeOK'
  BY DEF IInv, TypeOK, Words, Slots
<1>2. SplitInv' /\ OrderInv' /\ StageInv' /\ DecodeInv'
  BY DEF IInv, SplitInv, OrderInv, StageInv, DecodeInv
<1>3. KeyOf(words) = key
  <2>1. /\ share_count \in Nat /\ step = share_count + 1
        /\ order \in [1..share_count -> 1..share_count]
        /\ \A s \in 1..share_count : \E i \in 1..share_count : order[i] = s
    <3>1. TypeOK /\ OrderInv /\ DecodeInv
      BY DEF IInv
    <3>2. share_count \in Nat
      BY <3>1 DEF TypeOK
    <3>3. step = share_count + 1
      BY <3>1, <3>2 DEF DecodeInv
    <3> QED
      BY <3>1, <3>2, <3>3 DEF OrderInv, NamesEach
  <2>2. Used = 1..share_count
    BY <2>1 DEF Used
  <2>3. \A w \in Slots, i \in Bits :
          i \in words[w] <=> Odd(shares, 1..share_count, w * WordBits + i)
    BY <2>2 DEF IInv, DecodeInv
  <2>4. \A b \in KeyBits : b \in key <=> Odd(shares, 1..share_count, b)
    BY DEF IInv, SplitInv
  <2>5. \A w \in Slots : words[w] \subseteq Bits
    BY DEF IInv, TypeOK, Words
  <2>6. WordBits \in Nat \ {0, 1}
    BY KeyAssumption
  <2>7. ASSUME NEW b \in KeyBits
        PROVE  b \in KeyOf(words) <=> b \in key
    <3>1. b \in KeyOf(words)
            <=> b \in words[0] \/ b - WordBits \in words[1]
      <4>1. /\ 0 * WordBits = 0 /\ 1 * WordBits = WordBits /\ b - 0 = b
        BY <2>6 DEF KeyBits
      <4> QED
        BY <4>1 DEF KeyOf, Slots
    <3>2. CASE b \in Bits
      <4>1. b - WordBits \notin Bits
        BY <2>6, <3>2 DEF Bits
      <4>2. 0 * WordBits + b = b
        BY <2>6, <3>2 DEF Bits
      <4>3. b \in words[0] <=> Odd(shares, 1..share_count, b)
        BY <2>3, <3>2, <4>2 DEF Slots
      <4> QED
        BY <2>4, <2>5, <3>1, <4>1, <4>3 DEF Slots
    <3>3. CASE b \notin Bits
      <4>1. b - WordBits \in Bits /\ 1 * WordBits + (b - WordBits) = b
        BY <2>6, <3>3 DEF Bits, KeyBits
      <4>2. b - WordBits \in words[1] <=> Odd(shares, 1..share_count, b)
        BY <2>3, <4>1 DEF Slots
      <4> QED
        BY <2>4, <2>5, <3>1, <3>3, <4>2 DEF Slots
    <3> QED
      BY <3>2, <3>3
  <2>8. KeyOf(words) \subseteq KeyBits /\ key \subseteq KeyBits
    BY DEF IInv, TypeOK, KeyOf
  <2> QED
    BY <2>7, <2>8
<1>4. KeyRestored'
  BY <1>3 DEF IInv, KeyRestored
<1> QED
  BY <1>1, <1>2, <1>4 DEF IInv

LEMMA StutterInv ==
  ASSUME IInv, UNCHANGED vars
  PROVE  IInv'
<1> USE DEF vars, generator
<1>1. TypeOK' /\ SplitInv'
  BY DEF IInv, TypeOK, SplitInv
<1>2. OrderInv' /\ StageInv'
  BY DEF IInv, OrderInv, StageInv
<1>3. DecodeInv'
  <2>1. Used' = Used
    BY DEF Used
  <2> QED
    BY <2>1 DEF IInv, DecodeInv
<1> QED
  BY <1>1, <1>2, <1>3 DEF IInv, KeyRestored

-----------------------------------------------------------------------------
(* For all keys, shares, masks, rotations and orders: the stages decode to *)
(* the shares they were written for, the order names each share once, and  *)
(* the words are the xor of the shares used so far.                        *)
THEOREM Invariance == Spec => []IInv
<1>1. IInv /\ [Next]_vars => IInv'
  BY DrawShareInv, AppendTailInv, ShuffleInv, EncodeShareInv, MaterializeInv,
     RunStageInv, WriteKeyInv, StutterInv DEF Next
<1> QED
  BY InitInv, <1>1, PTL DEF Spec

(* Every key that the generated function returns is the one the package    *)
(* was encrypted with (encrypt_model.py, 49-178).                          *)
THEOREM KeyIsRestored == Spec => []KeyRestored
<1>1. IInv => KeyRestored
  BY DEF IInv
<1> QED
  BY Invariance, <1>1, PTL

=============================================================================
