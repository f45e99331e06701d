------------------------------- MODULE BitsProofs -------------------------------
(***************************************************************************)
(* Theorems about the bit array, for words and arrays of any size.         *)
(***************************************************************************)
EXTENDS MCBlocks, TLAPS

WordLen(n) == Bits!compute_word_len(n)
Place == Bits!Positions

LEMMA DivMod ==
  ASSUME NEW n \in Nat
  PROVE  /\ n \div WORDBITS \in Nat /\ n % WORDBITS \in Place
         /\ n = (n \div WORDBITS) * WORDBITS + (n % WORDBITS)
BY WordAssumption DEF Place, Bits!Positions

LEMMA DivOf ==
  ASSUME NEW w \in Nat, NEW p \in Place
  PROVE  /\ w * WORDBITS + p \in Nat
         /\ (w * WORDBITS + p) \div WORDBITS = w
         /\ (w * WORDBITS + p) % WORDBITS = p
BY WordAssumption DEF Place, Bits!Positions

LEMMA WordLenIs ==
  ASSUME NEW n \in Nat
  PROVE  /\ WordLen(n) \in Nat
         /\ \A w \in Nat : w < WordLen(n) <=> w * WORDBITS < n
BY WordAssumption DEF WordLen, Bits!compute_word_len

LEMMA WordLenBounds ==
  ASSUME NEW n \in Nat
  PROVE  /\ WordLen(n) <= n /\ (WordLen(n) = 0 <=> n = 0)
         /\ \A m \in Nat : m <= n => WordLen(m) <= WordLen(n)
<1>1. WordLen(n) <= n
  <2>1. ~(n * WORDBITS < n)
    BY WordAssumption
  <2> QED BY <2>1, WordLenIs
<1>2. WordLen(n) = 0 <=> n = 0
  <2>1. 0 < WordLen(n) <=> 0 * WORDBITS < n
    BY WordLenIs
  <2>2. 0 * WORDBITS = 0
    BY WordAssumption
  <2> QED BY <2>1, <2>2, WordLenIs
<1>3. ASSUME NEW m \in Nat, m <= n PROVE WordLen(m) <= WordLen(n)
  <2>1. WordLen(n) \in Nat /\ WordLen(m) \in Nat
    BY WordLenIs
  <2>2. ~(WordLen(n) * WORDBITS < n)
    BY <2>1, WordLenIs
  <2>3. WordLen(n) * WORDBITS \in Int
    BY <2>1, WordAssumption
  <2>4. ~(WordLen(n) * WORDBITS < m)
    BY <1>3, <2>2, <2>3
  <2> QED BY <2>1, <2>4, WordLenIs
<1> QED BY <1>1, <1>2, <1>3

LEMMA InUse ==
  ASSUME NEW size \in Nat, NEW n \in 0 .. size - 1
  PROVE  n \div WORDBITS \in 0 .. WordLen(size) - 1
<1>1. n \in Nat /\ n < size
  OBVIOUS
<1>2. n \div WORDBITS \in Nat /\ n % WORDBITS \in Nat
      /\ n = (n \div WORDBITS) * WORDBITS + (n % WORDBITS)
  BY <1>1, DivMod, WordAssumption DEF Place, Bits!Positions
<1>3. (n \div WORDBITS) * WORDBITS < size
  <2>1. (n \div WORDBITS) * WORDBITS \in Int
    BY <1>2, WordAssumption
  <2> QED BY <1>1, <1>2, <2>1
<1> QED BY <1>2, <1>3, WordLenIs

-------------------------------------------------------------------------------
(* Blocks of words, of which an array of size n uses the first: those it   *)
(* does not use are clear.                                                 *)
Blocks == UNION {[0 .. k - 1 -> SUBSET Place] : k \in 0 .. MaxBits}

Fits(n, p) ==
  /\ p \in {NULL, Freed} \cup Blocks
  /\ 0 .. WordLen(n) - 1 \subseteq DOMAIN Bits!WordsAt(p)
  /\ \A w \in DOMAIN Bits!WordsAt(p) : w >= WordLen(n) => p[w] = {}

BitsInv ==
  /\ c \in [Names -> 0 .. MaxBits] /\ b \in [Names -> {NULL, Freed} \cup Blocks]
  /\ bitfault \in {"none", "freed"}
  /\ \A x \in Names : Fits(c[x], b[x])

LEMMA BlockWords ==
  ASSUME NEW k \in 0 .. MaxBits, NEW p \in [0 .. k - 1 -> SUBSET Place]
  PROVE  p \in Blocks /\ Bits!WordsAt(p) = p /\ DOMAIN p = 0 .. k - 1 /\ ~Bits!IsPointer(p)
<1>1. Place = Positions
  BY DEF Place, Bits!Positions, Positions
<1>2. p \notin {NULL, Freed}
  BY <1>1, PointerAssumption
<1>3. p \in Blocks
  BY DEF Blocks
<1> QED BY <1>2, <1>3 DEF Bits!WordsAt, Bits!IsPointer

LEMMA PointerWords ==
  ASSUME NEW p \in {NULL, Freed}
  PROVE  Bits!WordsAt(p) = Bits!NoWords /\ DOMAIN Bits!WordsAt(p) = {} /\ Bits!IsPointer(p)
BY DEF Bits!WordsAt, Bits!IsPointer, Bits!NoWords

(* What is known of an array.                                              *)
LEMMA ArrayFits ==
  ASSUME BitsInv, NEW x \in Names
  PROVE  /\ c[x] \in 0 .. MaxBits /\ WordLen(c[x]) \in 0 .. MaxBits
         /\ Bits!Words(x) = 0 .. WordLen(c[x]) - 1
         /\ Bits!IsPointer(b[x]) => c[x] = 0 /\ DOMAIN Bits!WordsAt(b[x]) = {} /\ b[x] \in {NULL, Freed}
         /\ ~Bits!IsPointer(b[x]) =>
              /\ Bits!WordsAt(b[x]) = b[x]
              /\ \E k \in 0 .. MaxBits : b[x] \in [0 .. k - 1 -> SUBSET Place] /\ DOMAIN b[x] = 0 .. k - 1
         /\ Bits!Words(x) \subseteq DOMAIN Bits!WordsAt(b[x])
         /\ \A w : Bits!Word(x, w) \in SUBSET Place
         /\ \A w \in DOMAIN Bits!WordsAt(b[x]) : Bits!Word(x, w) = b[x][w]
         /\ \A w : w \notin Bits!Words(x) => Bits!Word(x, w) = {}
<1>1. c[x] \in 0 .. MaxBits /\ Fits(c[x], b[x]) /\ MaxBits \in Nat
  BY WordAssumption DEF BitsInv
<1>2. WordLen(c[x]) \in 0 .. MaxBits /\ (WordLen(c[x]) = 0 <=> c[x] = 0)
  BY <1>1, WordLenIs, WordLenBounds
<1>3. Bits!Words(x) = 0 .. WordLen(c[x]) - 1
  BY DEF Bits!Words, WordLen
<1>4. Bits!Words(x) \subseteq DOMAIN Bits!WordsAt(b[x])
  BY <1>1, <1>3 DEF Fits
<1>5. CASE b[x] \in {NULL, Freed}
  <2>1. Bits!IsPointer(b[x]) /\ DOMAIN Bits!WordsAt(b[x]) = {}
    BY <1>5, PointerWords
  <2>2. c[x] = 0
    <3>1. 0 \notin 0 .. WordLen(c[x]) - 1
      BY <1>3, <1>4, <2>1
    <3> QED BY <1>2, <3>1
  <2>3. \A w : Bits!Word(x, w) = {}
    BY <2>1 DEF Bits!Word
  <2> QED BY <1>1, <1>2, <1>3, <1>4, <1>5, <2>1, <2>2, <2>3
<1>6. CASE b[x] \notin {NULL, Freed}
  <2>1. PICK k \in 0 .. MaxBits : b[x] \in [0 .. k - 1 -> SUBSET Place]
    BY <1>1, <1>6 DEF Fits, Blocks
  <2>2. Bits!WordsAt(b[x]) = b[x] /\ DOMAIN b[x] = 0 .. k - 1 /\ ~Bits!IsPointer(b[x])
    BY <2>1, BlockWords
  <2>3. \A w : Bits!Word(x, w) = IF w \in 0 .. k - 1 THEN b[x][w] ELSE {}
    BY <2>2 DEF Bits!Word
  <2>4. \A w \in 0 .. k - 1 : b[x][w] \in SUBSET Place
    BY <2>1
  <2>5. ASSUME NEW w, w \notin Bits!Words(x) PROVE Bits!Word(x, w) = {}
    <3>1. CASE w \in 0 .. k - 1
      <4>1. w >= WordLen(c[x])
        BY <1>2, <1>3, <2>5, <3>1
      <4> QED BY <1>1, <2>2, <2>3, <3>1, <4>1 DEF Fits
    <3> QED BY <2>3, <3>1
  <2> QED BY <1>1, <1>2, <1>3, <1>4, <2>1, <2>2, <2>3, <2>4, <2>5
<1> QED BY <1>5, <1>6

LEMMA BlockFitsSize ==
  ASSUME NEW n \in 0 .. MaxBits, NEW k \in 0 .. MaxBits, NEW p \in [0 .. k - 1 -> SUBSET Place],
         WordLen(n) <= k, \A w \in 0 .. k - 1 : w >= WordLen(n) => p[w] = {}
  PROVE  Fits(n, p) /\ DOMAIN Bits!WordsAt(p) = 0 .. k - 1
<1>1. p \in Blocks /\ Bits!WordsAt(p) = p /\ DOMAIN p = 0 .. k - 1
  BY BlockWords
<1>2. WordLen(n) \in Nat /\ k \in Nat
  BY WordLenIs, WordAssumption
<1>3. 0 .. WordLen(n) - 1 \subseteq 0 .. k - 1
  BY <1>2
<1> QED BY <1>1, <1>3 DEF Fits

LEMMA PointerFits ==
  ASSUME NEW p \in {NULL, Freed}
  PROVE  Fits(0, p)
<1>1. WordLen(0) = 0 /\ 0 .. 0 - 1 = {}
  BY WordLenBounds
<1> QED BY <1>1, PointerWords DEF Fits

LEMMA BecomesFits ==
  ASSUME BitsInv, NEW x \in Names, NEW n \in 0 .. MaxBits, NEW p, Fits(n, p),
         NEW touched, touched \subseteq DOMAIN Bits!WordsAt(p), Bits!Becomes(x, n, p, touched)
  PROVE  BitsInv'
<1>1. c' = [c EXCEPT ![x] = n] /\ b' = [b EXCEPT ![x] = p] /\ bitfault' = "none"
  BY DEF Bits!Becomes
<1>2. p \in {NULL, Freed} \cup Blocks
  BY DEF Fits
<1>3. c' \in [Names -> 0 .. MaxBits] /\ b' \in [Names -> {NULL, Freed} \cup Blocks]
  BY <1>1, <1>2 DEF BitsInv
<1>4. ASSUME NEW y \in Names PROVE Fits(c'[y], b'[y])
  BY <1>1, <1>4 DEF BitsInv
<1>5. (\A y \in Names : Fits(c[y], b[y]))'
  BY <1>4 DEF Fits
<1> QED BY <1>1, <1>3, <1>5 DEF BitsInv

LEMMA UnchangedFits ==
  ASSUME BitsInv, UNCHANGED Bits!fields, bitfault' \in {"none", "freed"}
  PROVE  BitsInv'
BY DEF BitsInv, Bits!fields, Fits

(* Words in use become those of f.                                         *)
LEMMA RewriteFits ==
  ASSUME BitsInv, NEW x \in Names, NEW f,
         DOMAIN f \subseteq Bits!Words(x), \A w \in DOMAIN f : f[w] \in SUBSET Place,
         Bits!Rewrite(x, f)
  PROVE  BitsInv'
<1> DEFINE p == IF Bits!IsPointer(b[x]) THEN b[x]
                ELSE [w \in DOMAIN b[x] |-> IF w \in DOMAIN f THEN f[w] ELSE b[x][w]]
<1>1. Bits!Becomes(x, c[x], p, DOMAIN f)
  BY DEF Bits!Rewrite
<1>2. Fits(c[x], p) /\ DOMAIN f \subseteq DOMAIN Bits!WordsAt(p)
  <2>1. CASE Bits!IsPointer(b[x])
    BY <2>1, ArrayFits, PointerFits
  <2>2. CASE ~Bits!IsPointer(b[x])
    <3>1. PICK k \in 0 .. MaxBits : b[x] \in [0 .. k - 1 -> SUBSET Place] /\ DOMAIN b[x] = 0 .. k - 1
      BY <2>2, ArrayFits
    <3>2. /\ c[x] \in 0 .. MaxBits /\ WordLen(c[x]) \in 0 .. MaxBits
          /\ 0 .. WordLen(c[x]) - 1 \subseteq 0 .. k - 1 /\ DOMAIN f \subseteq 0 .. WordLen(c[x]) - 1
          /\ \A w \in 0 .. k - 1 : w >= WordLen(c[x]) => b[x][w] = {}
      BY <2>2, <3>1, ArrayFits DEF BitsInv, Fits
    <3>3. p = [w \in 0 .. k - 1 |-> IF w \in DOMAIN f THEN f[w] ELSE b[x][w]]
      BY <2>2, <3>1
    <3> HIDE DEF p
    <3>4. p \in [0 .. k - 1 -> SUBSET Place]
      BY <3>1, <3>3
    <3>5. WordLen(c[x]) <= k
      <4>1. WordLen(c[x]) > 0 => WordLen(c[x]) - 1 \in 0 .. WordLen(c[x]) - 1
        BY <3>2, WordAssumption
      <4> QED BY <3>2, <4>1, WordAssumption
    <3>6. \A w \in 0 .. k - 1 : w >= WordLen(c[x]) => p[w] = {}
      BY <3>2, <3>3, WordAssumption
    <3>7. Fits(c[x], p) /\ DOMAIN Bits!WordsAt(p) = 0 .. k - 1
      BY <3>2, <3>4, <3>5, <3>6, BlockFitsSize
    <3>8. DOMAIN f \subseteq 0 .. k - 1
      BY <3>2
    <3> QED BY <3>7, <3>8
  <2> QED BY <2>1, <2>2
<1>3. c[x] \in 0 .. MaxBits
  BY ArrayFits
<1> HIDE DEF p
<1> QED BY <1>1, <1>2, <1>3, BecomesFits

LEMMA MinWordsShared ==
  ASSUME BitsInv, NEW x \in Names, NEW y \in Names
  PROVE  Bits!MinWords(x, y) \subseteq Bits!Words(x) /\ Bits!MinWords(x, y) \subseteq Bits!Words(y)
<1> DEFINE least == IF c[x] > c[y] THEN c[y] ELSE c[x]
<1>1. c[x] \in Nat /\ c[y] \in Nat
  BY ArrayFits, WordAssumption
<1>2. least \in Nat /\ least <= c[x] /\ least <= c[y]
  BY <1>1
<1>3. Bits!MinWords(x, y) = 0 .. WordLen(least) - 1
  BY DEF Bits!MinWords, WordLen
<1> HIDE DEF least
<1>4. /\ WordLen(least) \in Nat /\ WordLen(c[x]) \in Nat /\ WordLen(c[y]) \in Nat
      /\ WordLen(least) <= WordLen(c[x]) /\ WordLen(least) <= WordLen(c[y])
  BY <1>1, <1>2, WordLenIs, WordLenBounds
<1>5. Bits!Words(x) = 0 .. WordLen(c[x]) - 1 /\ Bits!Words(y) = 0 .. WordLen(c[y]) - 1
  BY DEF Bits!Words, WordLen
<1> QED BY <1>3, <1>4, <1>5

LEMMA OneBitFits ==
  ASSUME BitsInv, NEW o, NEW x \in Names, NEW n \in 0 .. MaxBits, NEW s \in SUBSET Place,
         Bits!OneBit(o, x, n, s)
  PROVE  BitsInv'
<1>1. CASE Bits!InRange(x, n) /\ Bits!Rewrite(x, [w \in {n \div WORDBITS} |-> s])
  <2>1. c[x] \in Nat /\ n \in 0 .. c[x] - 1
    BY <1>1, ArrayFits, WordAssumption DEF Bits!InRange
  <2>2. n \div WORDBITS \in Bits!Words(x)
    BY <2>1, InUse, ArrayFits
  <2> DEFINE f == [w \in {n \div WORDBITS} |-> s]
  <2>3. DOMAIN f \subseteq Bits!Words(x) /\ \A w \in DOMAIN f : f[w] \in SUBSET Place
    BY <2>2
  <2> QED BY <1>1, <2>3, RewriteFits
<1>2. CASE Bits!Unchanged(TRUE, {})
  BY <1>2, UnchangedFits DEF Bits!Unchanged
<1> QED BY <1>1, <1>2 DEF Bits!OneBit

LEMMA BitsStep == BitsInv /\ Bits!Next => BitsInv'
<1> SUFFICES ASSUME BitsInv, Bits!Next PROVE BitsInv'
  OBVIOUS
<1>0. MaxBits \in Nat /\ 0 \in 0 .. MaxBits
  BY WordAssumption
<1>a. ASSUME NEW t, NEW s, Bits!Unchanged(t, s) PROVE BitsInv'
  BY <1>a, UnchangedFits DEF Bits!Unchanged
<1>b. ASSUME Bits!UsesFreed PROVE BitsInv'
  BY <1>b, UnchangedFits DEF Bits!UsesFreed
<1>c. ASSUME NEW x \in Names, NEW p \in {NULL, Freed}, Bits!Becomes(x, 0, p, {}) PROVE BitsInv'
  BY <1>0, <1>c, PointerFits, BecomesFits
<1>1. CASE Bits!init_bitarr
  <2>1. PICK x \in Names, n \in 0 .. MaxBits :
          \/ Bits!Becomes(x, 0, NULL, {})
          \/ Bits!Unchanged(FALSE, {})
          \/ Bits!Becomes(x, n, Bits!Zeroes(n), {})
    BY <1>1 DEF Bits!init_bitarr
  <2>2. CASE Bits!Becomes(x, n, Bits!Zeroes(n), {})
    <3>1. Bits!Zeroes(n) = [w \in 0 .. WordLen(n) - 1 |-> {}]
      BY DEF Bits!Zeroes, WordLen
    <3>2. WordLen(n) \in 0 .. MaxBits
      BY <1>0, WordLenIs, WordLenBounds
    <3>3. Fits(n, Bits!Zeroes(n))
      BY <1>0, <3>1, <3>2, BlockFitsSize
    <3> QED BY <2>2, <3>3, BecomesFits
  <2> QED BY <1>a, <1>c, <2>1, <2>2
<1>2. CASE Bits!init_cpy_bitarr
  <2>1. PICK x \in Names, y \in Names :
          \/ Bits!Becomes(x, 0, NULL, {})
          \/ Bits!Unchanged(FALSE, {})
          \/ Bits!Becomes(x, c[y], [w \in Bits!Words(y) |-> Bits!Word(y, w)], Bits!Words(y))
    BY <1>2 DEF Bits!init_cpy_bitarr
  <2>2. CASE Bits!Becomes(x, c[y], [w \in Bits!Words(y) |-> Bits!Word(y, w)], Bits!Words(y))
    <3> DEFINE p == [w \in Bits!Words(y) |-> Bits!Word(y, w)]
    <3>1. /\ c[y] \in 0 .. MaxBits /\ WordLen(c[y]) \in 0 .. MaxBits
          /\ Bits!Words(y) = 0 .. WordLen(c[y]) - 1
          /\ p \in [0 .. WordLen(c[y]) - 1 -> SUBSET Place]
      BY ArrayFits
    <3>2. \A w \in 0 .. WordLen(c[y]) - 1 : ~(w >= WordLen(c[y]))
      BY <1>0, <3>1
    <3>3. Fits(c[y], p) /\ DOMAIN Bits!WordsAt(p) = Bits!Words(y)
      BY <1>0, <3>1, <3>2, BlockFitsSize
    <3> HIDE DEF p
    <3> QED BY <2>2, <3>1, <3>3, BecomesFits DEF p
  <2> QED BY <1>a, <1>c, <2>1, <2>2
<1>3. CASE Bits!free_bitarr
  BY <1>3, <1>b, <1>c DEF Bits!free_bitarr
<1>4. CASE Bits!bitarr_compact
  <2>1. PICK x \in Names :
          \/ Bits!UsesFreed
          \/ Bits!Unchanged(TRUE, {})
          \/ Bits!Becomes(x, c[x], Bits!Resized(x, WordLen(c[x]), {}), {})
          \/ Bits!Becomes(x, 0, Freed, {})
    BY <1>4 DEF Bits!bitarr_compact, WordLen
  <2>2. CASE Bits!Becomes(x, c[x], Bits!Resized(x, WordLen(c[x]), {}), {})
    <3> DEFINE p == Bits!Resized(x, WordLen(c[x]), {})
    <3>1. p = [w \in 0 .. WordLen(c[x]) - 1 |-> Bits!Word(x, w)]
      BY DEF Bits!Resized, Bits!Word
    <3> HIDE DEF p
    <3>2. /\ c[x] \in 0 .. MaxBits /\ WordLen(c[x]) \in 0 .. MaxBits
          /\ p \in [0 .. WordLen(c[x]) - 1 -> SUBSET Place]
      BY <3>1, ArrayFits
    <3>3. \A w \in 0 .. WordLen(c[x]) - 1 : ~(w >= WordLen(c[x]))
      BY <1>0, <3>2
    <3>4. Fits(c[x], p)
      BY <1>0, <3>2, <3>3, BlockFitsSize
    <3> QED BY <2>2, <3>2, <3>4, BecomesFits DEF p
  <2> QED BY <1>a, <1>b, <1>c, <2>1, <2>2
<1>5. CASE Bits!bitarr_resize
  <2>1. PICK x \in Names, n \in 0 .. MaxBits :
          \/ Bits!Unchanged(TRUE, {}) \/ Bits!Unchanged(FALSE, {}) \/ Bits!UsesFreed
          \/ n < c[x] /\ Bits!Becomes(x, n, Bits!Shrunk(x, n), WordLen(n) .. WordLen(c[x]) - 1)
          \/ /\ n > c[x] /\ b[x] # Freed
             /\ \E fresh \in {{}, Bits!Positions} :
                  Bits!Becomes(x, n, Bits!Grown(x, n, fresh), 0 .. WordLen(n) - 1)
    BY <1>5 DEF Bits!bitarr_resize, WordLen
  <2>2. c[x] \in Nat /\ n \in Nat /\ WordLen(n) \in 0 .. MaxBits /\ WordLen(c[x]) \in 0 .. MaxBits
    <3>1. c[x] \in 0 .. MaxBits
      BY ArrayFits
    <3>2. \A m \in 0 .. MaxBits : m \in Nat /\ WordLen(m) \in Nat /\ WordLen(m) <= m
      BY <1>0, WordLenIs, WordLenBounds
    <3>3. \A m \in 0 .. MaxBits : WordLen(m) \in 0 .. MaxBits
      BY ONLY <1>0, <3>2
    <3> QED BY ONLY <3>1, <3>2, <3>3
  <2>3. CASE n < c[x] /\ Bits!Becomes(x, n, Bits!Shrunk(x, n), WordLen(n) .. WordLen(c[x]) - 1)
    <3> DEFINE p == Bits!Shrunk(x, n)
    <3>1. ~Bits!IsPointer(b[x])
      BY <2>2, <2>3, ArrayFits
    <3>2. PICK k \in 0 .. MaxBits : b[x] \in [0 .. k - 1 -> SUBSET Place] /\ DOMAIN b[x] = 0 .. k - 1
      BY <3>1, ArrayFits
    <3>3. Bits!WordsAt(b[x]) = b[x] /\ 0 .. WordLen(c[x]) - 1 \subseteq 0 .. k - 1
      BY <3>1, <3>2, ArrayFits
    <3>4. p = [w \in 0 .. k - 1 |-> IF w \in WordLen(n) .. WordLen(c[x]) - 1 THEN {} ELSE b[x][w]]
      BY <3>2, <3>3 DEF Bits!Shrunk, WordLen
    <3> HIDE DEF p
    <3>5. WordLen(n) <= WordLen(c[x]) /\ WordLen(c[x]) <= k
      <4>1. WordLen(c[x]) > 0 => WordLen(c[x]) - 1 \in 0 .. WordLen(c[x]) - 1
        BY <1>0, <2>2
      <4>2. WordLen(n) <= WordLen(c[x])
        BY <2>2, <2>3, WordLenBounds
      <4> QED BY <1>0, <2>2, <3>3, <4>1, <4>2
    <3>6. p \in [0 .. k - 1 -> SUBSET Place]
      BY <3>2, <3>4
    <3>7. \A w \in 0 .. k - 1 : w >= WordLen(c[x]) => b[x][w] = {}
      BY <3>2, <3>3 DEF BitsInv, Fits
    <3>8. \A w \in 0 .. k - 1 : w >= WordLen(n) => p[w] = {}
      BY <1>0, <2>2, <3>4, <3>5, <3>7
    <3>9. Fits(n, p) /\ DOMAIN Bits!WordsAt(p) = 0 .. k - 1
      BY <1>0, <2>2, <3>5, <3>6, <3>8, BlockFitsSize
    <3>10. WordLen(n) .. WordLen(c[x]) - 1 \subseteq 0 .. k - 1
      BY <1>0, <2>2, <3>5
    <3> QED BY <2>3, <3>9, <3>10, BecomesFits DEF p
  <2>4. ASSUME n > c[x], NEW fresh \in {{}, Bits!Positions},
               Bits!Becomes(x, n, Bits!Grown(x, n, fresh), 0 .. WordLen(n) - 1)
        PROVE  BitsInv'
    <3> DEFINE p == Bits!Grown(x, n, fresh)
    <3>1. p = [w \in 0 .. WordLen(n) - 1 |->
                 IF w >= WordLen(c[x]) THEN {} ELSE Bits!Resized(x, WordLen(n), fresh)[w]]
      BY DEF Bits!Grown, WordLen
    <3>2. ASSUME NEW w \in 0 .. WordLen(n) - 1, ~(w >= WordLen(c[x]))
          PROVE  Bits!Resized(x, WordLen(n), fresh)[w] = Bits!Word(x, w)
      <4>1. w \in Bits!Words(x)
        BY <1>0, <2>2, <3>2, ArrayFits
      <4>2. w \in DOMAIN Bits!WordsAt(b[x])
        BY <4>1, ArrayFits
      <4> QED BY <4>2 DEF Bits!Resized, Bits!Word
    <3> HIDE DEF p
    <3>3. p \in [0 .. WordLen(n) - 1 -> SUBSET Place]
      BY <3>1, <3>2, ArrayFits
    <3>4. \A w \in 0 .. WordLen(n) - 1 : w >= WordLen(n) => p[w] = {}
      BY <1>0, <2>2
    <3>5. Fits(n, p) /\ DOMAIN Bits!WordsAt(p) = 0 .. WordLen(n) - 1
      BY <1>0, <2>2, <3>3, <3>4, BlockFitsSize
    <3> QED BY <2>4, <3>5, BecomesFits DEF p
  <2> QED BY <1>a, <1>b, <2>1, <2>3, <2>4
<1>6. CASE Bits!bitarr_clear
  <2>1. PICK x \in Names : Bits!Rewrite(x, [w \in Bits!Words(x) |-> {}])
    BY <1>6 DEF Bits!bitarr_clear
  <2> QED BY <2>1, RewriteFits
<1>7. CASE Bits!bitarr_toggle \/ Bits!bitarr_unset \/ Bits!bitarr_set
  <2>1. PICK x \in Names, n \in 0 .. MaxBits :
          \/ Bits!OneBit("toggle", x, n, Bits!SymDiff(Bits!WordOf(x, n), Bits!Bit(n)))
          \/ Bits!OneBit("unset", x, n, Bits!WordOf(x, n) \ Bits!Bit(n))
          \/ Bits!OneBit("set", x, n, Bits!WordOf(x, n) \cup Bits!Bit(n))
    BY <1>7 DEF Bits!bitarr_toggle, Bits!bitarr_unset, Bits!bitarr_set
  <2>2. Bits!WordOf(x, n) \in SUBSET Place
    BY ArrayFits DEF Bits!WordOf
  <2>3. Bits!Bit(n) \in SUBSET Place
    BY <1>0, DivMod DEF Bits!Bit
  <2>4. /\ Bits!SymDiff(Bits!WordOf(x, n), Bits!Bit(n)) \in SUBSET Place
        /\ Bits!WordOf(x, n) \ Bits!Bit(n) \in SUBSET Place
        /\ Bits!WordOf(x, n) \cup Bits!Bit(n) \in SUBSET Place
    BY <2>2, <2>3 DEF Bits!SymDiff
  <2> QED BY <2>1, <2>4, OneBitFits
<1>8. CASE Bits!bitarr_get \/ Bits!bitarr_foreach
  BY <1>8, <1>a DEF Bits!bitarr_get, Bits!bitarr_foreach
<1>9. CASE Bits!bitarr_and
  <2>1. PICK x \in Names, y \in Names :
          Bits!Rewrite(x, [w \in Bits!Words(x) |-> Bits!Word(x, w) \cap Bits!InOther(y, w)])
    BY <1>9 DEF Bits!bitarr_and, Bits!AndWords
  <2>2. \A w : Bits!Word(x, w) \cap Bits!InOther(y, w) \in SUBSET Place
    BY ArrayFits
  <2> QED BY <2>1, <2>2, RewriteFits
<1>10. CASE Bits!bitarr_or
  <2>1. PICK x \in Names, y \in Names :
          Bits!Rewrite(x, [w \in Bits!MinWords(x, y) |-> Bits!Word(x, w) \cup Bits!Word(y, w)])
    BY <1>10 DEF Bits!bitarr_or
  <2>2. \A w : Bits!Word(x, w) \cup Bits!Word(y, w) \in SUBSET Place
    BY ArrayFits
  <2> QED BY <2>1, <2>2, MinWordsShared, RewriteFits
<1>11. CASE Bits!bitarr_xor
  <2>1. PICK x \in Names, y \in Names :
          Bits!Rewrite(x, [w \in Bits!MinWords(x, y) |-> Bits!SymDiff(Bits!Word(x, w), Bits!Word(y, w))])
    BY <1>11 DEF Bits!bitarr_xor
  <2>2. \A w : Bits!SymDiff(Bits!Word(x, w), Bits!Word(y, w)) \in SUBSET Place
    BY ArrayFits DEF Bits!SymDiff
  <2> QED BY <2>1, <2>2, MinWordsShared, RewriteFits
<1>12. CASE Bits!bitarr_not
  <2>1. PICK x \in Names :
          Bits!Rewrite(x, [w \in Bits!Words(x) |-> Bits!Mask(x, w) \ Bits!Word(x, w)])
    BY <1>12 DEF Bits!bitarr_not
  <2>2. \A w : Bits!Mask(x, w) \ Bits!Word(x, w) \in SUBSET Place
    BY DEF Bits!Mask, Place
  <2> QED BY <2>1, <2>2, RewriteFits
<1> QED BY <1>1, <1>2, <1>3, <1>4, <1>5, <1>6, <1>7, <1>8, <1>9, <1>10, <1>11, <1>12 DEF Bits!Next

-------------------------------------------------------------------------------
(* The calls, by the words they leave: array x has size n then, and g for  *)
(* its words.                                                              *)
Sets(x, n, g) ==
  /\ c' = [c EXCEPT ![x] = n]
  /\ \A y \in Names : \A w \in Nat : Bits!Word(y, w)' = IF y = x THEN g[w] ELSE Bits!Word(y, w)
  /\ bitret' = Bits!Reply(TRUE, {})

NoBits == [w \in Nat |-> {}]
Same(x) == [w \in Nat |-> Bits!Word(x, w)]

LEMMA BecomesSets ==
  ASSUME BitsInv, NEW x \in Names, NEW n, NEW p, NEW touched, Bits!Becomes(x, n, p, touched),
         NEW g, \A w \in Nat : g[w] = IF w \in DOMAIN Bits!WordsAt(p) THEN p[w] ELSE {}
  PROVE  Sets(x, n, g)
<1>1. c' = [c EXCEPT ![x] = n] /\ b' = [b EXCEPT ![x] = p] /\ bitret' = Bits!Reply(TRUE, {})
  BY DEF Bits!Becomes
<1>2. ASSUME NEW y \in Names, NEW w \in Nat
      PROVE  Bits!Word(y, w)' = IF y = x THEN g[w] ELSE Bits!Word(y, w)
  <2>1. b'[y] = IF y = x THEN p ELSE b[y]
    BY <1>1 DEF BitsInv
  <2> QED BY <2>1 DEF Bits!Word, Bits!WordsAt, Bits!IsPointer
<1> QED BY <1>1, <1>2 DEF Sets

LEMMA UnchangedSets ==
  ASSUME BitsInv, NEW x \in Names, Bits!Unchanged(TRUE, {})
  PROVE  Sets(x, c[x], Same(x))
<1>1. c' = c /\ b' = b /\ bitret' = Bits!Reply(TRUE, {})
  BY DEF Bits!Unchanged, Bits!fields
<1>2. c' = [c EXCEPT ![x] = c[x]]
  BY <1>1 DEF BitsInv
<1>3. \A y \in Names : \A w \in Nat : Bits!Word(y, w)' = Bits!Word(y, w)
  BY <1>1 DEF Bits!Word, Bits!WordsAt, Bits!IsPointer
<1> QED BY <1>1, <1>2, <1>3 DEF Sets, Same

LEMMA RewriteSets ==
  ASSUME BitsInv, NEW x \in Names, NEW f,
         DOMAIN f \subseteq Bits!Words(x), \A w \in DOMAIN f : f[w] \in SUBSET Place,
         Bits!Rewrite(x, f), NEW g,
         \A w \in Nat : g[w] = IF w \in DOMAIN f THEN f[w] ELSE Bits!Word(x, w)
  PROVE  Sets(x, c[x], g)
<1> DEFINE p == IF Bits!IsPointer(b[x]) THEN b[x]
                ELSE [w \in DOMAIN b[x] |-> IF w \in DOMAIN f THEN f[w] ELSE b[x][w]]
<1>1. Bits!Becomes(x, c[x], p, DOMAIN f)
  BY DEF Bits!Rewrite
<1>2. \A w \in Nat : g[w] = IF w \in DOMAIN Bits!WordsAt(p) THEN p[w] ELSE {}
  <2>1. CASE Bits!IsPointer(b[x])
    <3>1. DOMAIN Bits!WordsAt(b[x]) = {} /\ Bits!Words(x) = {}
      BY <2>1, ArrayFits
    <3>2. \A w : Bits!Word(x, w) = {}
      BY <3>1, ArrayFits
    <3> QED BY <2>1, <3>1, <3>2
  <2>2. CASE ~Bits!IsPointer(b[x])
    <3>1. PICK k \in 0 .. MaxBits : b[x] \in [0 .. k - 1 -> SUBSET Place] /\ DOMAIN b[x] = 0 .. k - 1
      BY <2>2, ArrayFits
    <3>2. Bits!WordsAt(b[x]) = b[x] /\ DOMAIN f \subseteq 0 .. k - 1
      BY <2>2, <3>1, ArrayFits
    <3>3. p = [w \in 0 .. k - 1 |-> IF w \in DOMAIN f THEN f[w] ELSE b[x][w]]
      BY <2>2, <3>1
    <3> HIDE DEF p
    <3>4. p \in [0 .. k - 1 -> SUBSET Place]
      BY <3>1, <3>3
    <3>5. Bits!WordsAt(p) = p /\ DOMAIN p = 0 .. k - 1
      BY <3>4, BlockWords
    <3>6. \A w : Bits!Word(x, w) = IF w \in 0 .. k - 1 THEN b[x][w] ELSE {}
      BY <3>1, <3>2 DEF Bits!Word
    <3> QED BY <3>2, <3>3, <3>5, <3>6
  <2> QED BY <2>1, <2>2
<1> QED BY <1>1, <1>2, BecomesSets

Calls(o, x, y, n) == bitop' = o /\ bitarg' = Bits!Arg(x, y, n)
Looks(s) == UNCHANGED Bits!fields /\ bitret' = s

(* The words of x with another in place of that of bit n; and those that   *)
(* array x shares with array y.                                            *)
WithWord(x, n, s) == [w \in Nat |-> IF w = n \div WORDBITS THEN s ELSE Bits!Word(x, w)]
Kept(x, n) == [w \in Nat |-> IF w < WordLen(n) THEN Bits!Word(x, w) ELSE {}]

Frees(x) == Calls("free", x, NULL, 0) /\ Sets(x, 0, NoBits)
Copies(x, y) == Calls("init_cpy", x, y, 0) /\ Sets(x, c[y], Same(y))
Resizes(x, n) == Calls("resize", x, NULL, n) /\ Sets(x, n, Kept(x, n))

ChangesOne(o, x, n, s) ==
  /\ Calls(o, x, NULL, n)
  /\ \/ n < c[x] /\ Sets(x, c[x], WithWord(x, n, s))
     \/ n >= c[x] /\ Sets(x, c[x], Same(x))

ChangesBit(x, n) ==
  \/ ChangesOne("toggle", x, n, Bits!SymDiff(Bits!WordOf(x, n), Bits!Bit(n)))
  \/ ChangesOne("unset", x, n, Bits!WordOf(x, n) \ Bits!Bit(n))
  \/ ChangesOne("set", x, n, Bits!WordOf(x, n) \cup Bits!Bit(n))

Combined(x, y, g) ==
  [w \in Nat |-> IF w \in Bits!MinWords(x, y) THEN g[w] ELSE Bits!Word(x, w)]

Combines(x, y) ==
  \/ /\ Calls("and", x, y, 0)
     /\ Sets(x, c[x], [w \in Nat |-> Bits!Word(x, w) \cap Bits!Word(y, w)])
  \/ /\ Calls("or", x, y, 0)
     /\ Sets(x, c[x], Combined(x, y, [w \in Nat |-> Bits!Word(x, w) \cup Bits!Word(y, w)]))
  \/ /\ Calls("xor", x, y, 0)
     /\ Sets(x, c[x], Combined(x, y, [w \in Nat |-> Bits!SymDiff(Bits!Word(x, w), Bits!Word(y, w))]))

WordStep ==
  \/ bitfault' = "freed" /\ UNCHANGED Bits!fields
  \/ bitop' \in {"init", "init_cpy", "resize"} /\ Looks(Bits!Reply(FALSE, {}))
  \/ \E x \in Names, n \in 0 .. MaxBits :
       \/ Calls("init", x, NULL, n) /\ Sets(x, n, NoBits)
       \/ Resizes(x, n)
       \/ ChangesBit(x, n)
       \/ Calls("get", x, NULL, n) /\ Looks(Bits!Reply(Bits!IsSet(x, n), {}))
  \/ \E x \in Names, y \in Names : Copies(x, y) \/ Combines(x, y)
  \/ \E x \in Names :
       \/ Frees(x)
       \/ Calls("compact", x, NULL, 0) /\ Sets(x, c[x], Same(x))
       \/ Calls("clear", x, NULL, 0) /\ Sets(x, c[x], NoBits)
       \/ /\ Calls("not", x, NULL, 0)
          /\ Sets(x, c[x], [w \in Nat |-> Bits!Mask(x, w) \ Bits!Word(x, w)])
       \/ Calls("foreach", x, NULL, 0)
          /\ Looks(Bits!Reply(TRUE, {n \in 0 .. c[x] - 1 : Bits!IsSet(x, n)}))

LEMMA PointerSets ==
  ASSUME BitsInv, NEW x \in Names, NEW p \in {NULL, Freed}, Bits!Becomes(x, 0, p, {})
  PROVE  Sets(x, 0, NoBits)
<1> DEFINE g == NoBits
<1>1. \A w \in Nat : g[w] = IF w \in DOMAIN Bits!WordsAt(p) THEN p[w] ELSE {}
  BY PointerWords DEF NoBits
<1> HIDE DEF g
<1>2. Sets(x, 0, g)
  BY <1>1, BecomesSets
<1> QED BY <1>2 DEF g

LEMMA InitWords ==
  ASSUME BitsInv, Bits!init_bitarr
  PROVE  WordStep
<1>1. PICK x \in Names, n \in 0 .. MaxBits :
        /\ Calls("init", x, NULL, n)
        /\ \/ n = 0 /\ Bits!Becomes(x, 0, NULL, {})
           \/ Bits!Unchanged(FALSE, {})
           \/ Bits!Becomes(x, n, Bits!Zeroes(n), {})
  BY DEF Bits!init_bitarr, Bits!Called, Calls
<1>2. CASE n = 0 /\ Bits!Becomes(x, 0, NULL, {})
  BY <1>1, <1>2, PointerSets DEF WordStep
<1>3. CASE Bits!Unchanged(FALSE, {})
  BY <1>1, <1>3 DEF WordStep, Calls, Looks, Bits!Unchanged
<1>4. CASE Bits!Becomes(x, n, Bits!Zeroes(n), {})
  <2> DEFINE g == NoBits
  <2>1. WordLen(n) \in 0 .. MaxBits /\ Bits!Zeroes(n) \in [0 .. WordLen(n) - 1 -> SUBSET Place]
        /\ \A w \in 0 .. WordLen(n) - 1 : Bits!Zeroes(n)[w] = {}
    BY WordLenIs, WordLenBounds, WordAssumption DEF Bits!Zeroes, WordLen
  <2>2. \A w \in Nat : g[w] = IF w \in DOMAIN Bits!WordsAt(Bits!Zeroes(n)) THEN Bits!Zeroes(n)[w] ELSE {}
    BY <2>1, BlockWords DEF NoBits
  <2> HIDE DEF g
  <2>3. Sets(x, n, g)
    BY <1>4, <2>2, BecomesSets
  <2> QED BY <1>1, <2>3 DEF WordStep, g
<1> QED BY <1>1, <1>2, <1>3, <1>4

LEMMA CopyWords ==
  ASSUME BitsInv, Bits!init_cpy_bitarr
  PROVE  WordStep
<1>a. bitop' = "init_cpy"
  BY DEF Bits!init_cpy_bitarr, Bits!Called
<1> SUFFICES ASSUME ~Bits!Unchanged(FALSE, {}) PROVE WordStep
  BY <1>a DEF WordStep, Looks, Bits!Unchanged
<1>1. PICK x \in Names, y \in Names :
        /\ Calls("init_cpy", x, y, 0)
        /\ \/ c[y] = 0 /\ Bits!Becomes(x, 0, NULL, {})
           \/ Bits!Becomes(x, c[y], [w \in Bits!Words(y) |-> Bits!Word(y, w)], Bits!Words(y))
  BY DEF Bits!init_cpy_bitarr, Bits!Called, Calls
<1>2. CASE c[y] = 0 /\ Bits!Becomes(x, 0, NULL, {})
  <2>1. WordLen(c[y]) = 0 /\ \A w \in Nat : Bits!Word(y, w) = {}
    <3>1. WordLen(c[y]) = 0
      BY <1>2, WordLenBounds
    <3>2. Bits!Words(y) = {}
      BY <3>1, ArrayFits
    <3> QED BY <3>1, <3>2, ArrayFits
  <2>2. Same(y) = NoBits
    BY <2>1 DEF Same, NoBits
  <2> QED BY <1>1, <1>2, <2>2, PointerSets DEF WordStep, Copies
<1>3. CASE Bits!Becomes(x, c[y], [w \in Bits!Words(y) |-> Bits!Word(y, w)], Bits!Words(y))
  <2> DEFINE g == Same(y)
             p == [w \in Bits!Words(y) |-> Bits!Word(y, w)]
  <2>1. WordLen(c[y]) \in 0 .. MaxBits /\ p \in [0 .. WordLen(c[y]) - 1 -> SUBSET Place]
    BY ArrayFits
  <2>2. Bits!WordsAt(p) = p
    BY <2>1, BlockWords
  <2>3. \A w \in Nat : g[w] = IF w \in DOMAIN Bits!WordsAt(p) THEN p[w] ELSE {}
    <3>1. \A w : w \notin Bits!Words(y) => Bits!Word(y, w) = {}
      BY ArrayFits
    <3> QED BY <2>2, <3>1 DEF Same
  <2> HIDE DEF g, p
  <2>4. Sets(x, c[y], g)
    BY <1>3, <2>3, BecomesSets DEF p
  <2> QED BY <1>1, <2>4 DEF WordStep, Copies, g
<1> QED BY <1>1, <1>2, <1>3

LEMMA CompactWords ==
  ASSUME BitsInv, Bits!bitarr_compact
  PROVE  WordStep
<1>1. PICK x \in Names :
        /\ Calls("compact", x, NULL, 0)
        /\ \/ Bits!UsesFreed
           \/ Bits!Unchanged(TRUE, {})
           \/ Bits!Becomes(x, c[x], Bits!Resized(x, WordLen(c[x]), {}), {})
           \/ c[x] = 0 /\ Bits!Becomes(x, 0, Freed, {})
  BY DEF Bits!bitarr_compact, WordLen, Bits!Called, Calls
<1>2. CASE Bits!UsesFreed
  BY <1>2 DEF Bits!UsesFreed, WordStep
<1>3. CASE Bits!Unchanged(TRUE, {})
  BY <1>1, <1>3, UnchangedSets DEF WordStep
<1>4. CASE Bits!Becomes(x, c[x], Bits!Resized(x, WordLen(c[x]), {}), {})
  <2> DEFINE g == Same(x)
             p == Bits!Resized(x, WordLen(c[x]), {})
  <2>1. p = [w \in 0 .. WordLen(c[x]) - 1 |-> Bits!Word(x, w)]
    BY DEF Bits!Resized, Bits!Word
  <2> HIDE DEF p
  <2>2. WordLen(c[x]) \in 0 .. MaxBits /\ p \in [0 .. WordLen(c[x]) - 1 -> SUBSET Place]
    BY <2>1, ArrayFits
  <2>3. Bits!WordsAt(p) = p /\ DOMAIN p = Bits!Words(x)
    BY <2>1, <2>2, BlockWords, ArrayFits
  <2>4. \A w \in Nat : g[w] = IF w \in DOMAIN Bits!WordsAt(p) THEN p[w] ELSE {}
    <3>1. \A w : w \notin Bits!Words(x) => Bits!Word(x, w) = {}
      BY ArrayFits
    <3> QED BY <2>1, <2>3, <3>1 DEF Same
  <2> HIDE DEF g
  <2>5. Sets(x, c[x], g)
    BY <1>4, <2>4, BecomesSets DEF p
  <2> QED BY <1>1, <2>5 DEF WordStep, g
<1>5. CASE c[x] = 0 /\ Bits!Becomes(x, 0, Freed, {})
  <2>1. \A w \in Nat : Bits!Word(x, w) = {}
    <3>1. WordLen(c[x]) = 0
      BY <1>5, WordLenBounds
    <3>2. Bits!Words(x) = {}
      BY <3>1, ArrayFits
    <3> QED BY <3>2, ArrayFits
  <2>2. Same(x) = NoBits
    BY <2>1 DEF Same, NoBits
  <2>3. Sets(x, c[x], Same(x))
    BY <1>5, <2>2, PointerSets
  <2> QED BY <1>1, <2>3 DEF WordStep
<1> QED BY <1>1, <1>2, <1>3, <1>4, <1>5

LEMMA ResizeWords ==
  ASSUME BitsInv, Bits!bitarr_resize
  PROVE  WordStep
<1>1. PICK x \in Names, n \in 0 .. MaxBits :
        /\ Calls("resize", x, NULL, n)
        /\ \/ n = c[x] /\ Bits!Unchanged(TRUE, {})
           \/ Bits!Unchanged(FALSE, {}) \/ Bits!UsesFreed
           \/ n < c[x] /\ Bits!Becomes(x, n, Bits!Shrunk(x, n), WordLen(n) .. WordLen(c[x]) - 1)
           \/ n > c[x] /\ \E fresh \in {{}, Bits!Positions} :
                Bits!Becomes(x, n, Bits!Grown(x, n, fresh), 0 .. WordLen(n) - 1)
  BY DEF Bits!bitarr_resize, WordLen, Bits!Called, Calls
<1>2. /\ c[x] \in Nat /\ n \in Nat /\ WordLen(n) \in 0 .. MaxBits /\ WordLen(c[x]) \in 0 .. MaxBits
      /\ MaxBits \in Nat /\ Bits!Words(x) = 0 .. WordLen(c[x]) - 1
      /\ \A w \in Nat : w >= WordLen(c[x]) => Bits!Word(x, w) = {}
      /\ \A w : Bits!Word(x, w) \in SUBSET Place
  <2>1. \A w \in Nat : w >= WordLen(c[x]) => w \notin 0 .. WordLen(c[x]) - 1
    BY WordAssumption, ArrayFits
  <2>2. MaxBits \in Nat /\ n \in Nat /\ c[x] \in Nat
    BY WordAssumption, ArrayFits
  <2>3. WordLen(n) \in 0 .. MaxBits
    BY <2>2, WordLenIs, WordLenBounds
  <2>4. /\ Bits!Words(x) = 0 .. WordLen(c[x]) - 1 /\ WordLen(c[x]) \in 0 .. MaxBits
        /\ \A w : w \notin Bits!Words(x) => Bits!Word(x, w) = {}
        /\ \A w : Bits!Word(x, w) \in SUBSET Place
    BY ArrayFits
  <2> QED BY <2>1, <2>2, <2>3, <2>4
<1> DEFINE g == Kept(x, n)
<1>3. \A w \in Nat : g[w] = IF w < WordLen(n) THEN Bits!Word(x, w) ELSE {}
  BY DEF Kept
<1> HIDE DEF g
<1>4. CASE n = c[x] /\ Bits!Unchanged(TRUE, {})
  <2>1. Same(x) = Kept(x, n)
    BY <1>2, <1>4 DEF Same, Kept
  <2> QED BY <1>1, <1>4, <2>1, UnchangedSets DEF WordStep, Resizes
<1>5. CASE Bits!Unchanged(FALSE, {})
  BY <1>1, <1>5 DEF WordStep, Calls, Looks, Bits!Unchanged
<1>6. CASE Bits!UsesFreed
  BY <1>6 DEF Bits!UsesFreed, WordStep
<1>7. CASE n < c[x] /\ Bits!Becomes(x, n, Bits!Shrunk(x, n), WordLen(n) .. WordLen(c[x]) - 1)
  <2> DEFINE p == Bits!Shrunk(x, n)
  <2>1. ~Bits!IsPointer(b[x])
    BY <1>2, <1>7, ArrayFits
  <2>2. PICK k \in 0 .. MaxBits : b[x] \in [0 .. k - 1 -> SUBSET Place] /\ DOMAIN b[x] = 0 .. k - 1
    BY <2>1, ArrayFits
  <2>3. Bits!WordsAt(b[x]) = b[x]
    BY <2>1, ArrayFits
  <2>4. p = [w \in 0 .. k - 1 |-> IF w \in WordLen(n) .. WordLen(c[x]) - 1 THEN {} ELSE b[x][w]]
    BY <2>2, <2>3 DEF Bits!Shrunk, WordLen
  <2> HIDE DEF p
  <2>5. p \in [0 .. k - 1 -> SUBSET Place]
    BY <2>2, <2>4
  <2>6. Bits!WordsAt(p) = p /\ DOMAIN p = 0 .. k - 1
    BY <2>5, BlockWords
  <2>7. \A w : Bits!Word(x, w) = IF w \in 0 .. k - 1 THEN b[x][w] ELSE {}
    BY <2>2, <2>3 DEF Bits!Word
  <2>8. WordLen(n) <= WordLen(c[x])
    BY <1>2, <1>7, WordLenBounds
  <2>9. ASSUME NEW w \in Nat PROVE g[w] = IF w \in DOMAIN Bits!WordsAt(p) THEN p[w] ELSE {}
    <3>1. CASE w \in WordLen(n) .. WordLen(c[x]) - 1
      BY <1>2, <1>3, <2>4, <2>6, <3>1
    <3>2. CASE w < WordLen(n)
      <4>1. g[w] = Bits!Word(x, w) /\ w \notin WordLen(n) .. WordLen(c[x]) - 1
        BY <1>2, <1>3, <3>2
      <4>2. w \in 0 .. k - 1 => p[w] = b[x][w]
        BY <2>4, <4>1
      <4> QED BY <2>6, <2>7, <4>1, <4>2
    <3>3. CASE w >= WordLen(c[x])
      <4>1. g[w] = {} /\ Bits!Word(x, w) = {} /\ w \notin WordLen(n) .. WordLen(c[x]) - 1
        BY <1>2, <1>3, <2>8, <3>3
      <4>2. w \in 0 .. k - 1 => p[w] = b[x][w]
        BY <2>4, <4>1
      <4> QED BY <2>6, <2>7, <4>1, <4>2
    <3> QED BY <1>2, <3>1, <3>2, <3>3
  <2>10. Sets(x, n, g)
    BY <1>7, <2>9, BecomesSets DEF p
  <2> QED BY <1>1, <2>10 DEF WordStep, Resizes, g
<1>8. ASSUME n > c[x], NEW fresh \in {{}, Bits!Positions},
             Bits!Becomes(x, n, Bits!Grown(x, n, fresh), 0 .. WordLen(n) - 1)
      PROVE  WordStep
  <2> DEFINE p == Bits!Grown(x, n, fresh)
  <2>1. p = [w \in 0 .. WordLen(n) - 1 |->
               IF w >= WordLen(c[x]) THEN {} ELSE Bits!Resized(x, WordLen(n), fresh)[w]]
    BY DEF Bits!Grown, WordLen
  <2>2. ASSUME NEW w \in 0 .. WordLen(n) - 1
        PROVE  p[w] = Bits!Word(x, w)
    <3>1. CASE w >= WordLen(c[x])
      BY <1>2, <2>1, <3>1
    <3>2. CASE w < WordLen(c[x])
      <4>1. w \in Bits!Words(x)
        BY <1>2, <3>2
      <4>2. w \in DOMAIN Bits!WordsAt(b[x])
        BY <4>1, ArrayFits
      <4>3. Bits!Resized(x, WordLen(n), fresh)[w] = Bits!Word(x, w)
        BY <4>2 DEF Bits!Resized, Bits!Word
      <4> QED BY <1>2, <2>1, <3>2, <4>3
    <3> QED BY <1>2, <3>1, <3>2
  <2>3. DOMAIN p = 0 .. WordLen(n) - 1
    BY <2>1
  <2>4. p = [w \in 0 .. WordLen(n) - 1 |-> p[w]]
    BY <2>1
  <2> HIDE DEF p
  <2>5. p \in [0 .. WordLen(n) - 1 -> SUBSET Place]
    BY <1>2, <2>2, <2>4
  <2>6. Bits!WordsAt(p) = p
    BY <1>2, <2>5, BlockWords
  <2>7. \A w \in Nat : g[w] = IF w \in DOMAIN Bits!WordsAt(p) THEN p[w] ELSE {}
    BY <1>2, <1>3, <2>2, <2>3, <2>6
  <2>8. Sets(x, n, g)
    BY <1>8, <2>7, BecomesSets DEF p
  <2> QED BY <1>1, <2>8 DEF WordStep, Resizes, g
<1> QED BY <1>1, <1>4, <1>5, <1>6, <1>7, <1>8

LEMMA OneBitWords ==
  ASSUME BitsInv, NEW o, NEW x \in Names, NEW n \in 0 .. MaxBits, NEW s \in SUBSET Place,
         Bits!OneBit(o, x, n, s)
  PROVE  ChangesOne(o, x, n, s)
<1>0. Calls(o, x, NULL, n)
  BY DEF Bits!OneBit, Bits!Called, Calls
<1>1. c[x] \in Nat /\ n \in Nat
  BY ArrayFits, WordAssumption
<1>2. CASE Bits!InRange(x, n) /\ Bits!Rewrite(x, [w \in {n \div WORDBITS} |-> s])
  <2>1. n < c[x] /\ n \in 0 .. c[x] - 1
    BY <1>1, <1>2 DEF Bits!InRange
  <2>2. n \div WORDBITS \in Bits!Words(x)
    BY <1>1, <2>1, InUse, ArrayFits
  <2> DEFINE f == [w \in {n \div WORDBITS} |-> s]
             g == WithWord(x, n, s)
  <2>3. DOMAIN f \subseteq Bits!Words(x) /\ \A w \in DOMAIN f : f[w] \in SUBSET Place
    BY <2>2
  <2>4. \A w \in Nat : g[w] = IF w \in DOMAIN f THEN f[w] ELSE Bits!Word(x, w)
    BY DEF WithWord
  <2> HIDE DEF f, g
  <2>5. Sets(x, c[x], g)
    BY <1>2, <2>3, <2>4, RewriteSets DEF f
  <2> QED BY <1>0, <2>1, <2>5 DEF ChangesOne, g
<1>3. CASE ~Bits!InRange(x, n) /\ Bits!Unchanged(TRUE, {})
  <2>1. n >= c[x]
    BY <1>1, <1>3, ArrayFits DEF Bits!InRange
  <2> QED BY <1>0, <1>3, <2>1, UnchangedSets DEF ChangesOne
<1> QED BY <1>2, <1>3 DEF Bits!OneBit

LEMMA BitWordsChange ==
  ASSUME BitsInv, Bits!bitarr_toggle \/ Bits!bitarr_unset \/ Bits!bitarr_set
  PROVE  WordStep
<1>1. PICK x \in Names, n \in 0 .. MaxBits :
        \/ Bits!OneBit("toggle", x, n, Bits!SymDiff(Bits!WordOf(x, n), Bits!Bit(n)))
        \/ Bits!OneBit("unset", x, n, Bits!WordOf(x, n) \ Bits!Bit(n))
        \/ Bits!OneBit("set", x, n, Bits!WordOf(x, n) \cup Bits!Bit(n))
  BY DEF Bits!bitarr_toggle, Bits!bitarr_unset, Bits!bitarr_set
<1>2. Bits!WordOf(x, n) \in SUBSET Place /\ Bits!Bit(n) \in SUBSET Place
  <2>1. n \in Nat
    BY WordAssumption
  <2> QED BY <2>1, ArrayFits, DivMod DEF Bits!WordOf, Bits!Bit
<1>3. /\ Bits!SymDiff(Bits!WordOf(x, n), Bits!Bit(n)) \in SUBSET Place
      /\ Bits!WordOf(x, n) \ Bits!Bit(n) \in SUBSET Place
      /\ Bits!WordOf(x, n) \cup Bits!Bit(n) \in SUBSET Place
  BY <1>2 DEF Bits!SymDiff
<1>4. ChangesBit(x, n)
  BY <1>1, <1>3, OneBitWords DEF ChangesBit
<1> QED BY <1>4 DEF WordStep

LEMMA WholeWordsChange ==
  ASSUME BitsInv, Bits!bitarr_clear \/ Bits!bitarr_not
  PROVE  WordStep
<1>1. CASE Bits!bitarr_clear
  <2>1. PICK x \in Names :
          Calls("clear", x, NULL, 0) /\ Bits!Rewrite(x, [w \in Bits!Words(x) |-> {}])
    BY <1>1 DEF Bits!bitarr_clear, Bits!Called, Calls
  <2> DEFINE f == [w \in Bits!Words(x) |-> {}]
             g == NoBits
  <2>2. \A w \in Nat : g[w] = IF w \in DOMAIN f THEN f[w] ELSE Bits!Word(x, w)
    BY ArrayFits DEF NoBits
  <2>3. DOMAIN f \subseteq Bits!Words(x) /\ \A w \in DOMAIN f : f[w] \in SUBSET Place
    OBVIOUS
  <2> HIDE DEF f, g
  <2>4. Sets(x, c[x], g)
    BY <2>1, <2>2, <2>3, RewriteSets DEF f
  <2> QED BY <2>1, <2>4 DEF WordStep, g
<1>2. CASE Bits!bitarr_not
  <2>1. PICK x \in Names :
          /\ Calls("not", x, NULL, 0)
          /\ Bits!Rewrite(x, [w \in Bits!Words(x) |-> Bits!Mask(x, w) \ Bits!Word(x, w)])
    BY <1>2 DEF Bits!bitarr_not, Bits!Called, Calls
  <2> DEFINE f == [w \in Bits!Words(x) |-> Bits!Mask(x, w) \ Bits!Word(x, w)]
             g == [w \in Nat |-> Bits!Mask(x, w) \ Bits!Word(x, w)]
  <2>2. ASSUME NEW w \in Nat, w \notin Bits!Words(x) PROVE Bits!Mask(x, w) = {}
    <3>1. c[x] \in Nat /\ ~(w < WordLen(c[x])) /\ w * WORDBITS \in Int
      BY <2>2, ArrayFits, WordAssumption
    <3>2. ~(w * WORDBITS < c[x])
      BY <3>1, WordLenIs
    <3>3. \A p \in Place : p \in Int /\ p >= 0 /\ ~(w * WORDBITS + p < c[x])
      BY <3>1, <3>2, WordAssumption DEF Place, Bits!Positions
    <3> QED BY <3>3 DEF Bits!Mask, Place
  <2>3. \A w \in Nat : g[w] = IF w \in DOMAIN f THEN f[w] ELSE Bits!Word(x, w)
    <3>1. \A w \in Nat : w \notin Bits!Words(x) => Bits!Mask(x, w) = {} /\ Bits!Word(x, w) = {}
      BY <2>2, ArrayFits
    <3> QED BY <3>1
  <2>4. DOMAIN f \subseteq Bits!Words(x) /\ \A w \in DOMAIN f : f[w] \in SUBSET Place
    BY DEF Bits!Mask, Place
  <2> HIDE DEF f, g
  <2>5. Sets(x, c[x], g)
    BY <2>1, <2>3, <2>4, RewriteSets DEF f
  <2> QED BY <2>1, <2>5 DEF WordStep, g
<1> QED BY <1>1, <1>2

LEMMA CombinedWords ==
  ASSUME BitsInv, Bits!bitarr_and \/ Bits!bitarr_or \/ Bits!bitarr_xor
  PROVE  WordStep
<1>1. CASE Bits!bitarr_and
  <2>1. PICK x \in Names, y \in Names :
          /\ Calls("and", x, y, 0)
          /\ Bits!Rewrite(x, [w \in Bits!Words(x) |-> Bits!Word(x, w) \cap Bits!InOther(y, w)])
    BY <1>1 DEF Bits!bitarr_and, Bits!AndWords, Bits!Called, Calls
  <2> DEFINE f == [w \in Bits!Words(x) |-> Bits!Word(x, w) \cap Bits!InOther(y, w)]
             g == [w \in Nat |-> Bits!Word(x, w) \cap Bits!Word(y, w)]
  <2>2. \A w : Bits!InOther(y, w) = Bits!Word(y, w)
    BY ArrayFits DEF Bits!InOther
  <2>3. \A w \in Nat : g[w] = IF w \in DOMAIN f THEN f[w] ELSE Bits!Word(x, w)
    <3>1. \A w : w \notin Bits!Words(x) => Bits!Word(x, w) = {}
      BY ArrayFits
    <3> QED BY <2>2, <3>1
  <2>4. DOMAIN f \subseteq Bits!Words(x) /\ \A w \in DOMAIN f : f[w] \in SUBSET Place
    BY ArrayFits
  <2> HIDE DEF f, g
  <2>5. Sets(x, c[x], g)
    BY <2>1, <2>3, <2>4, RewriteSets DEF f
  <2>6. Combines(x, y)
    BY <2>1, <2>5 DEF Combines, g
  <2> QED BY <2>6 DEF WordStep
<1>2. CASE Bits!bitarr_or
  <2>1. PICK x \in Names, y \in Names :
          /\ Calls("or", x, y, 0)
          /\ Bits!Rewrite(x, [w \in Bits!MinWords(x, y) |-> Bits!Word(x, w) \cup Bits!Word(y, w)])
    BY <1>2 DEF Bits!bitarr_or, Bits!Called, Calls
  <2> DEFINE f == [w \in Bits!MinWords(x, y) |-> Bits!Word(x, w) \cup Bits!Word(y, w)]
             g == Combined(x, y, [w \in Nat |-> Bits!Word(x, w) \cup Bits!Word(y, w)])
  <2>2. \A w \in Nat : g[w] = IF w \in DOMAIN f THEN f[w] ELSE Bits!Word(x, w)
    BY DEF Combined
  <2>3. DOMAIN f \subseteq Bits!Words(x) /\ \A w \in DOMAIN f : f[w] \in SUBSET Place
    BY MinWordsShared, ArrayFits
  <2> HIDE DEF f, g
  <2>4. Sets(x, c[x], g)
    BY <2>1, <2>2, <2>3, RewriteSets DEF f
  <2>5. Combines(x, y)
    BY <2>1, <2>4 DEF Combines, g
  <2> QED BY <2>5 DEF WordStep
<1>3. CASE Bits!bitarr_xor
  <2>1. PICK x \in Names, y \in Names :
          /\ Calls("xor", x, y, 0)
          /\ Bits!Rewrite(x, [w \in Bits!MinWords(x, y) |-> Bits!SymDiff(Bits!Word(x, w), Bits!Word(y, w))])
    BY <1>3 DEF Bits!bitarr_xor, Bits!Called, Calls
  <2> DEFINE f == [w \in Bits!MinWords(x, y) |-> Bits!SymDiff(Bits!Word(x, w), Bits!Word(y, w))]
             g == Combined(x, y, [w \in Nat |-> Bits!SymDiff(Bits!Word(x, w), Bits!Word(y, w))])
  <2>2. \A w \in Nat : g[w] = IF w \in DOMAIN f THEN f[w] ELSE Bits!Word(x, w)
    BY DEF Combined
  <2>3. DOMAIN f \subseteq Bits!Words(x) /\ \A w \in DOMAIN f : f[w] \in SUBSET Place
    <3>1. \A w : Bits!SymDiff(Bits!Word(x, w), Bits!Word(y, w)) \in SUBSET Place
      BY ArrayFits DEF Bits!SymDiff
    <3> QED BY <3>1, MinWordsShared
  <2> HIDE DEF f, g
  <2>4. Sets(x, c[x], g)
    BY <2>1, <2>2, <2>3, RewriteSets DEF f
  <2>5. Combines(x, y)
    BY <2>1, <2>4 DEF Combines, g
  <2> QED BY <2>5 DEF WordStep
<1> QED BY <1>1, <1>2, <1>3

LEMMA CallsAreWordSteps ==
  ASSUME BitsInv, Bits!Next
  PROVE  WordStep
<1>1. CASE Bits!free_bitarr
  <2>1. PICK x \in Names :
          Calls("free", x, NULL, 0) /\ (Bits!UsesFreed \/ Bits!Becomes(x, 0, NULL, {}))
    BY <1>1 DEF Bits!free_bitarr, Bits!Called, Calls
  <2>2. CASE Bits!UsesFreed
    BY <2>2 DEF Bits!UsesFreed, WordStep
  <2>3. CASE Bits!Becomes(x, 0, NULL, {})
    BY <2>1, <2>3, PointerSets DEF WordStep, Frees
  <2> QED BY <2>1, <2>2, <2>3
<1>2. CASE Bits!bitarr_get
  BY <1>2 DEF Bits!bitarr_get, Bits!Called, Bits!Unchanged, WordStep, Calls, Looks
<1>3. CASE Bits!bitarr_foreach
  BY <1>3 DEF Bits!bitarr_foreach, Bits!Called, Bits!Unchanged, WordStep, Calls, Looks
<1> QED BY <1>1, <1>2, <1>3, InitWords, CopyWords, CompactWords, ResizeWords, BitWordsChange,
           WholeWordsChange, CombinedWords DEF Bits!Next

-------------------------------------------------------------------------------
(* The bits of an array, by their numbers.                                 *)
IsOn(x, m) == m % WORDBITS \in Bits!Word(x, m \div WORDBITS)

BitsAre ==
  \A x \in Names : /\ c[x] \in Nat
                    /\ Bits!Stray(x) = {m \in Nat : m >= c[x] /\ IsOn(x, m)}
                    /\ Bits!TrueBits(x) = {m \in 0 .. c[x] - 1 : IsOn(x, m)}

LEMMA BitsKnown == BitsInv => BitsAre
<1> SUFFICES ASSUME BitsInv, NEW x \in Names
             PROVE  /\ c[x] \in Nat
                    /\ Bits!Stray(x) = {m \in Nat : m >= c[x] /\ IsOn(x, m)}
                    /\ Bits!TrueBits(x) = {m \in 0 .. c[x] - 1 : IsOn(x, m)}
  BY DEF BitsAre
<1>1. /\ c[x] \in Nat /\ \A w : Bits!Word(x, w) \in SUBSET Place
      /\ \A w : w \notin Bits!Words(x) => Bits!Word(x, w) = {}
      /\ Bits!Words(x) \subseteq DOMAIN Bits!WordsAt(b[x])
      /\ \A w \in Bits!Words(x) : w \in Nat
  BY ArrayFits, WordAssumption
<1>2. ASSUME NEW m \in Bits!InWords(x) PROVE m \in Nat /\ IsOn(x, m)
  <2>0. PICK w \in DOMAIN Bits!WordsAt(b[x]) : \E p \in Bits!Word(x, w) : m = w * WORDBITS + p
    BY <1>2 DEF Bits!InWords
  <2>1. PICK p \in Bits!Word(x, w) : m = w * WORDBITS + p
    BY <2>0
  <2>2. w \in Nat /\ p \in Place
    BY <1>1, <2>1
  <2>3. m \in Nat /\ m \div WORDBITS = w /\ m % WORDBITS = p
    BY <2>1, <2>2, DivOf
  <2> QED BY <2>1, <2>3 DEF IsOn
<1>3. ASSUME NEW m \in Nat, IsOn(x, m) PROVE m \in Bits!InWords(x)
  <2>1. m \div WORDBITS \in DOMAIN Bits!WordsAt(b[x])
    BY <1>1, <1>3 DEF IsOn
  <2>2. m = (m \div WORDBITS) * WORDBITS + (m % WORDBITS)
    BY DivMod
  <2> QED BY <1>3, <2>1, <2>2 DEF IsOn, Bits!InWords
<1>4. Bits!InWords(x) = {m \in Nat : IsOn(x, m)}
  BY <1>2, <1>3
<1>5. Bits!Stray(x) = {m \in Nat : m >= c[x] /\ IsOn(x, m)}
  BY <1>1, <1>4 DEF Bits!Stray
<1>6. Bits!TrueBits(x) = {m \in 0 .. c[x] - 1 : IsOn(x, m)}
  BY <1>1, <1>4 DEF Bits!TrueBits
<1> QED BY <1>1, <1>5, <1>6

LEMMA StraysFit == BitsInv => Bits!BlockFits
<1> SUFFICES ASSUME BitsInv PROVE Bits!BlockFits
  OBVIOUS
<1>1. ASSUME NEW x \in Names
      PROVE  /\ \A w \in DOMAIN Bits!WordsAt(b[x]) : b[x][w] \subseteq Bits!Positions
             /\ Bits!Words(x) \subseteq DOMAIN Bits!WordsAt(b[x])
             /\ \A n \in Bits!Stray(x) : n \div WORDBITS \in Bits!Words(x)
  <2>1. ASSUME NEW n \in Bits!Stray(x) PROVE n \div WORDBITS \in Bits!Words(x)
    <3>1. IsOn(x, n)
      BY <2>1, BitsKnown DEF BitsAre
    <3> QED BY <3>1, ArrayFits DEF IsOn
  <2>2. \A w \in DOMAIN Bits!WordsAt(b[x]) : b[x][w] \in SUBSET Bits!Positions
    BY ArrayFits DEF Place
  <2> QED BY <2>1, <2>2, ArrayFits
<1> QED BY <1>1 DEF BitsInv, Bits!BlockFits

LEMMA SetsBits ==
  ASSUME BitsInv, BitsAre', NEW x \in Names, NEW n \in 0 .. MaxBits, NEW g, Sets(x, n, g)
  PROVE  /\ c'[x] = n
         /\ Bits!Stray(x)' = {m \in Nat : m >= n /\ m % WORDBITS \in g[m \div WORDBITS]}
         /\ Bits!TrueBits(x)' = {m \in 0 .. n - 1 : m % WORDBITS \in g[m \div WORDBITS]}
         /\ \A y \in Names \ {x} : /\ c'[y] = c[y] /\ Bits!Stray(y)' = Bits!Stray(y)
                                   /\ Bits!TrueBits(y)' = Bits!TrueBits(y)
<1>1. c' = [c EXCEPT ![x] = n] /\ \A y \in Names \ {x} : c'[y] = c[y]
  BY DEF Sets, BitsInv
<1>2. c'[x] = n
  BY <1>1 DEF BitsInv
<1>3. ASSUME NEW y \in Names, NEW m \in Nat
      PROVE  IsOn(y, m)' <=> IF y = x THEN m % WORDBITS \in g[m \div WORDBITS] ELSE IsOn(y, m)
  <2>1. m \div WORDBITS \in Nat
    BY DivMod
  <2> QED BY <2>1 DEF Sets, IsOn
<1>4. \A y \in Names : /\ c'[y] \in Nat
                       /\ Bits!Stray(y)' = {m \in Nat : m >= c'[y] /\ IsOn(y, m)'}
                       /\ Bits!TrueBits(y)' = {m \in 0 .. c'[y] - 1 : IsOn(y, m)'}
  BY DEF BitsAre
<1>5. BitsAre
  BY BitsKnown
<1>6. /\ Bits!Stray(x)' = {m \in Nat : m >= n /\ m % WORDBITS \in g[m \div WORDBITS]}
      /\ Bits!TrueBits(x)' = {m \in 0 .. n - 1 : m % WORDBITS \in g[m \div WORDBITS]}
  BY <1>2, <1>3, <1>4
<1>7. ASSUME NEW y \in Names \ {x}
      PROVE  Bits!Stray(y)' = Bits!Stray(y) /\ Bits!TrueBits(y)' = Bits!TrueBits(y)
  <2>1. c'[y] = c[y] /\ c[y] \in Nat /\ \A m \in Nat : IsOn(y, m)' <=> IsOn(y, m)
    BY <1>1, <1>3, <1>5 DEF BitsAre
  <2>2. {m \in Nat : m >= c'[y] /\ IsOn(y, m)'} = {m \in Nat : m >= c[y] /\ IsOn(y, m)}
    BY <2>1
  <2>3. {m \in 0 .. c'[y] - 1 : IsOn(y, m)'} = {m \in 0 .. c[y] - 1 : IsOn(y, m)}
    BY <2>1
  <2> QED BY <1>4, <1>5, <2>2, <2>3 DEF BitsAre
<1> QED BY <1>1, <1>2, <1>6, <1>7

-------------------------------------------------------------------------------
(* Where bits past the size come from.                                     *)
Excused(x) ==
  \/ bitop' = "resize" /\ c'[x] < c[x]
  \/ bitop' \in {"or", "xor"} /\ (c[bitarg'.rhs] > c[x] \/ Bits!Stray(bitarg'.rhs) # {})
  \/ bitop' = "init_cpy" /\ Bits!Stray(bitarg'.rhs) # {}

LEMMA FieldsKeepStray ==
  ASSUME UNCHANGED Bits!fields, NEW x \in Names
  PROVE  Bits!Stray(x)' = Bits!Stray(x)
BY DEF Bits!fields, Bits!Stray, Bits!InWords, Bits!Word, Bits!WordsAt, Bits!IsPointer

(* A bit past the size was there before, or the call is excused.           *)
LEMMA OnlyThen ==
  ASSUME BitsInv, BitsAre', NEW x \in Names, NEW n \in 0 .. MaxBits, NEW g, Sets(x, n, g),
         NEW z \in Names, Bits!Stray(z) = {}, Bits!Stray(z)' # {},
         \A m \in Nat : m >= n /\ m % WORDBITS \in g[m \div WORDBITS] =>
                          Excused(x) \/ (m >= c[x] /\ IsOn(x, m))
  PROVE  z = x /\ Excused(x)
<1>1. z = x
  BY SetsBits
<1>2. PICK m \in Nat : m >= n /\ m % WORDBITS \in g[m \div WORDBITS]
  BY <1>1, SetsBits
<1>3. CASE m >= c[x] /\ IsOn(x, m)
  BY <1>1, <1>3, BitsKnown DEF BitsAre
<1> QED BY <1>1, <1>2, <1>3

LEMMA StrayStep ==
  ASSUME BitsInv, BitsAre', WordStep
  PROVE  Bits!StrayOrigin
<1> SUFFICES ASSUME NEW z \in Names, Bits!Stray(z) = {}, Bits!Stray(z)' # {} PROVE Excused(z)
  BY DEF Bits!StrayOrigin, Excused
<1>0. /\ MaxBits \in Nat /\ 0 \in 0 .. MaxBits
      /\ \A x \in Names : /\ c[x] \in 0 .. MaxBits /\ c[x] \in Nat
                          /\ Bits!Stray(x) = {m \in Nat : m >= c[x] /\ IsOn(x, m)}
  BY BitsKnown, ArrayFits, WordAssumption DEF BitsAre
<1>1. CASE UNCHANGED Bits!fields
  BY <1>1, FieldsKeepStray
<1>2. ASSUME NEW x \in Names, NEW n \in 0 .. MaxBits, Sets(x, n, NoBits) PROVE Excused(z)
  <2> DEFINE g == NoBits
  <2>1. \A m \in Nat : m % WORDBITS \notin g[m \div WORDBITS]
    BY DivMod DEF NoBits
  <2> HIDE DEF g
  <2>2. Sets(x, n, g)
    BY <1>2 DEF g
  <2> QED BY <2>1, <2>2, OnlyThen
<1>3. ASSUME NEW x \in Names, Sets(x, c[x], Same(x)) PROVE Excused(z)
  <2> DEFINE g == Same(x)
  <2>1. \A m \in Nat : m % WORDBITS \in g[m \div WORDBITS] => IsOn(x, m)
    BY DivMod DEF Same, IsOn
  <2> HIDE DEF g
  <2>2. Sets(x, c[x], g)
    BY <1>3 DEF g
  <2> QED BY <1>0, <2>1, <2>2, OnlyThen
<1>4. ASSUME NEW x \in Names, NEW n \in 0 .. MaxBits, Resizes(x, n) PROVE Excused(z)
  <2> DEFINE g == Kept(x, n)
  <2>1. \A m \in Nat : m % WORDBITS \in g[m \div WORDBITS] => IsOn(x, m)
    BY DivMod DEF Kept, IsOn
  <2> HIDE DEF g
  <2>2. Sets(x, n, g) /\ bitop' = "resize"
    BY <1>4 DEF g, Resizes, Calls
  <2>3. c'[x] = n
    BY <2>2, SetsBits
  <2>4. \A m \in Nat : m >= n /\ m % WORDBITS \in g[m \div WORDBITS] =>
                         Excused(x) \/ (m >= c[x] /\ IsOn(x, m))
    BY <1>0, <2>1, <2>2, <2>3 DEF Excused
  <2> QED BY <2>2, <2>4, OnlyThen
<1>5. ASSUME NEW x \in Names, NEW y \in Names, Copies(x, y) PROVE Excused(z)
  <2> DEFINE g == Same(y)
  <2>1. \A m \in Nat : m % WORDBITS \in g[m \div WORDBITS] => IsOn(y, m)
    BY DivMod DEF Same, IsOn
  <2> HIDE DEF g
  <2>2. Sets(x, c[y], g) /\ bitop' = "init_cpy" /\ bitarg'.rhs = y
    BY <1>5 DEF g, Copies, Calls, Bits!Arg
  <2>3. \A m \in Nat : m >= c[y] /\ m % WORDBITS \in g[m \div WORDBITS] => Excused(x)
    BY <1>0, <2>1, <2>2 DEF Excused
  <2> QED BY <1>0, <2>2, <2>3, OnlyThen
<1>6. ASSUME NEW x \in Names, NEW n \in 0 .. MaxBits, n < c[x], NEW s, Sets(x, c[x], WithWord(x, n, s)),
             s \subseteq Bits!WordOf(x, n) \cup Bits!Bit(n)
      PROVE  Excused(z)
  <2> DEFINE g == WithWord(x, n, s)
  <2>1. ASSUME NEW m \in Nat, m >= c[x], m % WORDBITS \in g[m \div WORDBITS] PROVE IsOn(x, m)
    <3>1. CASE m \div WORDBITS = n \div WORDBITS
      <4>1. m % WORDBITS \in Bits!WordOf(x, n) \/ m % WORDBITS = n % WORDBITS
        BY <1>6, <2>1, <3>1, DivMod DEF WithWord, Bits!Bit
      <4>2. m % WORDBITS # n % WORDBITS
        <5>1. /\ m = (m \div WORDBITS) * WORDBITS + (m % WORDBITS)
              /\ n = (n \div WORDBITS) * WORDBITS + (n % WORDBITS)
          BY <1>0, DivMod
        <5>2. m # n
          BY <1>0, <1>6, <2>1
        <5> QED BY <3>1, <5>1, <5>2
      <4> QED BY <3>1, <4>1, <4>2 DEF IsOn, Bits!WordOf
    <3>2. CASE m \div WORDBITS # n \div WORDBITS
      BY <2>1, <3>2, DivMod DEF WithWord, IsOn
    <3> QED BY <3>1, <3>2
  <2> HIDE DEF g
  <2>2. Sets(x, c[x], g)
    BY <1>6 DEF g
  <2> QED BY <1>0, <2>1, <2>2, OnlyThen
<1>7. ASSUME NEW x \in Names, NEW n \in 0 .. MaxBits, ChangesBit(x, n) PROVE Excused(z)
  <2>1. ASSUME NEW o, NEW s, ChangesOne(o, x, n, s), s \subseteq Bits!WordOf(x, n) \cup Bits!Bit(n)
        PROVE  Excused(z)
    BY <1>3, <1>6, <2>1 DEF ChangesOne
  <2>2. /\ Bits!SymDiff(Bits!WordOf(x, n), Bits!Bit(n)) \subseteq Bits!WordOf(x, n) \cup Bits!Bit(n)
        /\ Bits!WordOf(x, n) \ Bits!Bit(n) \subseteq Bits!WordOf(x, n) \cup Bits!Bit(n)
    BY DEF Bits!SymDiff
  <2> QED BY <1>7, <2>1, <2>2 DEF ChangesBit
<1>8. ASSUME NEW x \in Names, NEW y \in Names, NEW h,
             \A w \in Nat : h[w] \subseteq Bits!Word(x, w) \cup Bits!Word(y, w),
             Sets(x, c[x], Combined(x, y, h)), bitop' \in {"or", "xor"}, bitarg'.rhs = y
      PROVE  Excused(z)
  <2> DEFINE g == Combined(x, y, h)
  <2>1. ASSUME NEW m \in Nat, m >= c[x], m % WORDBITS \in g[m \div WORDBITS]
        PROVE  Excused(x) \/ IsOn(x, m)
    <3>1. IsOn(x, m) \/ IsOn(y, m)
      BY <1>8, <2>1, DivMod DEF Combined, IsOn
    <3>2. IsOn(y, m) => c[y] > c[x] \/ Bits!Stray(y) # {}
      BY <1>0, <2>1
    <3> QED BY <1>8, <3>1, <3>2 DEF Excused
  <2> HIDE DEF g
  <2>2. Sets(x, c[x], g)
    BY <1>8 DEF g
  <2> QED BY <1>0, <2>1, <2>2, OnlyThen
<1>9. ASSUME NEW x \in Names, NEW y \in Names, Combines(x, y) PROVE Excused(z)
  <2>1. bitarg'.rhs = y
    BY <1>9 DEF Combines, Calls, Bits!Arg
  <2>2. CASE Sets(x, c[x], [w \in Nat |-> Bits!Word(x, w) \cap Bits!Word(y, w)])
    <3> DEFINE g == [w \in Nat |-> Bits!Word(x, w) \cap Bits!Word(y, w)]
    <3>1. \A m \in Nat : m % WORDBITS \in g[m \div WORDBITS] => IsOn(x, m)
      BY DivMod DEF IsOn
    <3> HIDE DEF g
    <3>2. Sets(x, c[x], g)
      BY <2>2 DEF g
    <3> QED BY <1>0, <3>1, <3>2, OnlyThen
  <2>3. CASE /\ bitop' = "or"
             /\ Sets(x, c[x], Combined(x, y, [w \in Nat |-> Bits!Word(x, w) \cup Bits!Word(y, w)]))
    <3> DEFINE h == [w \in Nat |-> Bits!Word(x, w) \cup Bits!Word(y, w)]
    <3>1. \A w \in Nat : h[w] \subseteq Bits!Word(x, w) \cup Bits!Word(y, w)
      OBVIOUS
    <3> HIDE DEF h
    <3>2. Sets(x, c[x], Combined(x, y, h))
      BY <2>3 DEF h
    <3> QED BY <1>8, <2>1, <2>3, <3>1, <3>2
  <2>4. CASE /\ bitop' = "xor"
             /\ Sets(x, c[x], Combined(x, y, [w \in Nat |-> Bits!SymDiff(Bits!Word(x, w), Bits!Word(y, w))]))
    <3> DEFINE h == [w \in Nat |-> Bits!SymDiff(Bits!Word(x, w), Bits!Word(y, w))]
    <3>1. \A w \in Nat : h[w] \subseteq Bits!Word(x, w) \cup Bits!Word(y, w)
      BY DEF Bits!SymDiff
    <3> HIDE DEF h
    <3>2. Sets(x, c[x], Combined(x, y, h))
      BY <2>4 DEF h
    <3> QED BY <1>8, <2>1, <2>4, <3>1, <3>2
  <2> QED BY <1>9, <2>2, <2>3, <2>4 DEF Combines, Calls
<1>10. ASSUME NEW x \in Names, Sets(x, c[x], [w \in Nat |-> Bits!Mask(x, w) \ Bits!Word(x, w)])
       PROVE  Excused(z)
  <2> DEFINE g == [w \in Nat |-> Bits!Mask(x, w) \ Bits!Word(x, w)]
  <2>1. ASSUME NEW m \in Nat, m % WORDBITS \in g[m \div WORDBITS] PROVE m < c[x]
    <3>1. m % WORDBITS \in Bits!Mask(x, m \div WORDBITS)
      BY <2>1, DivMod
    <3> QED BY <3>1, DivMod DEF Bits!Mask
  <2> HIDE DEF g
  <2>2. Sets(x, c[x], g)
    BY <1>10 DEF g
  <2> QED BY <1>0, <2>1, <2>2, OnlyThen
<1> QED BY <1>0, <1>1, <1>2, <1>3, <1>4, <1>5, <1>7, <1>9, <1>10 DEF WordStep, Looks, Frees

-------------------------------------------------------------------------------
(* Arrays as sizes and sets of true bits.                                  *)
True(x) == {m \in 0 .. c[x] - 1 : IsOn(x, m)}

LEMMA VectorsAre ==
  ASSUME BitsInv
  PROVE  /\ Bits!Sizes = c /\ Bits!Trues = [x \in Names |-> True(x)]
         /\ \A x \in Names : Bits!Vectors!Bits(x) = 0 .. c[x] - 1
BY BitsKnown DEF BitsAre, Bits!Sizes, Bits!Trues, True, Bits!Vectors!Bits

(* The true bits a call leaves, given the words.                           *)
Leaves(n, g) == {m \in 0 .. n - 1 : m % WORDBITS \in g[m \div WORDBITS]}

LEMMA VectorBecomes ==
  ASSUME BitsInv, BitsAre', NEW x \in Names, NEW n \in 0 .. MaxBits, NEW g, Sets(x, n, g),
         bitarg'.lhs = x
  PROVE  Bits!Vectors!Becomes(n, Leaves(n, g))
<1>1. /\ Bits!TrueBits(x)' = Leaves(n, g)
      /\ \A y \in Names \ {x} : Bits!TrueBits(y)' = Bits!TrueBits(y)
  BY SetsBits DEF Leaves
<1>2. Bits!Sizes' = [Bits!Sizes EXCEPT ![x] = n]
  BY DEF Bits!Sizes, Sets
<1>3. Bits!Trues' = [Bits!Trues EXCEPT ![x] = Leaves(n, g)]
  BY <1>1 DEF Bits!Trues
<1>4. bitret' = Bits!Vectors!Reply(TRUE, {})
  BY DEF Sets, Bits!Reply, Bits!Vectors!Reply
<1> QED BY <1>2, <1>3, <1>4 DEF Bits!Vectors!Becomes

LEMMA VectorsStay ==
  ASSUME UNCHANGED Bits!fields
  PROVE  Bits!Sizes' = Bits!Sizes /\ Bits!Trues' = Bits!Trues
BY DEF Bits!fields, Bits!Sizes, Bits!Trues, Bits!TrueBits, Bits!InWords, Bits!Word, Bits!WordsAt,
       Bits!IsPointer

LEMMA TrueSets ==
  ASSUME BitsInv, NEW x \in Names
  PROVE  /\ c[x] \in 0 .. MaxBits /\ c[x] \in Nat /\ Bits!Sizes[x] = c[x] /\ Bits!Trues[x] = True(x)
         /\ Bits!Vectors!Bits(x) = 0 .. c[x] - 1
BY VectorsAre, ArrayFits, WordAssumption

LEMMA FreeVector ==
  ASSUME BitsInv, BitsAre', NEW x \in Names, Frees(x)
  PROVE  Bits!Vectors!Next
<1>1. bitop' = "free" /\ bitarg'.lhs = x /\ Sets(x, 0, NoBits) /\ 0 \in 0 .. MaxBits
  BY WordAssumption DEF Frees, Calls, Bits!Arg
<1> DEFINE g == NoBits
<1>2. Leaves(0, g) = {}
  BY DEF Leaves
<1> HIDE DEF g
<1>3. Bits!Vectors!Becomes(0, {})
  BY <1>1, <1>2, VectorBecomes DEF g
<1> QED BY <1>1, <1>3 DEF Bits!Vectors!Next, Bits!Vectors!Destroy

LEMMA CreateVector ==
  ASSUME BitsInv, BitsAre', NEW x \in Names, NEW n \in 0 .. MaxBits,
         Calls("init", x, NULL, n), Sets(x, n, NoBits)
  PROVE  Bits!Vectors!Next
<1>1. bitop' = "init" /\ bitarg'.lhs = x /\ bitarg'.n = n /\ n \in Nat
  BY WordAssumption DEF Calls, Bits!Arg
<1> DEFINE g == NoBits
<1>2. Leaves(n, g) = {}
  <2>1. \A m \in 0 .. n - 1 : m \div WORDBITS \in Nat
    BY <1>1, DivMod
  <2> QED BY <2>1 DEF Leaves, NoBits
<1> HIDE DEF g
<1>3. Sets(x, n, g)
  BY DEF g
<1>4. Bits!Vectors!Becomes(n, {})
  BY <1>1, <1>2, <1>3, VectorBecomes
<1> QED BY <1>1, <1>4 DEF Bits!Vectors!Next, Bits!Vectors!Create

LEMMA SameLeaves ==
  ASSUME BitsInv, NEW x \in Names
  PROVE  Leaves(c[x], Same(x)) = True(x)
<1>1. c[x] \in Nat
  BY TrueSets
<1>2. \A m \in 0 .. c[x] - 1 : m \div WORDBITS \in Nat
  BY <1>1, DivMod
<1> QED BY <1>2 DEF Leaves, Same, True, IsOn

LEMMA CopyVector ==
  ASSUME BitsInv, BitsAre', NEW x \in Names, NEW y \in Names, Copies(x, y)
  PROVE  Bits!Vectors!Next
<1>1. bitop' = "init_cpy" /\ bitarg'.lhs = x /\ bitarg'.rhs = y /\ Sets(x, c[y], Same(y))
  BY DEF Copies, Calls, Bits!Arg
<1>2. c[y] \in 0 .. MaxBits /\ Bits!Sizes[y] = c[y] /\ Bits!Trues[y] = True(y)
  BY TrueSets
<1> DEFINE g == Same(y)
<1>3. Leaves(c[y], g) = True(y)
  BY SameLeaves
<1> HIDE DEF g
<1>4. Sets(x, c[y], g)
  BY <1>1 DEF g
<1>5. Bits!Vectors!Becomes(c[y], True(y))
  BY <1>1, <1>2, <1>3, <1>4, VectorBecomes
<1> QED BY <1>1, <1>2, <1>5 DEF Bits!Vectors!Next, Bits!Vectors!Copy, Bits!Vectors!Theirs

LEMMA ResizeVector ==
  ASSUME BitsInv, BitsAre', NEW x \in Names, NEW n \in 0 .. MaxBits, Resizes(x, n), ~Bits!StrayShows
  PROVE  Bits!Vectors!Next
<1>1. bitop' = "resize" /\ bitarg'.lhs = x /\ bitarg'.n = n /\ Sets(x, n, Kept(x, n)) /\ n \in Nat
  BY WordAssumption DEF Resizes, Calls, Bits!Arg
<1>2. c[x] \in Nat /\ Bits!Trues[x] = True(x)
  BY TrueSets
<1>3. \A m \in 0 .. n - 1 : IsOn(x, m) => m < c[x]
  <2>1. Bits!Stray(x) \cap 0 .. n - 1 = {} /\ Bits!Stray(x) = {m \in Nat : m >= c[x] /\ IsOn(x, m)}
    BY <1>1, BitsKnown DEF Bits!StrayShows, BitsAre
  <2> QED BY <1>1, <1>2, <2>1
<1> DEFINE g == Kept(x, n)
<1>4. Leaves(n, g) = True(x) \cap 0 .. n - 1
  <2>1. ASSUME NEW m \in 0 .. n - 1 PROVE m % WORDBITS \in g[m \div WORDBITS] <=> m \in True(x)
    <3>1. m \in Nat /\ m \div WORDBITS \in Nat /\ m \div WORDBITS \in 0 .. WordLen(n) - 1
      BY <1>1, DivMod, InUse
    <3>2. m \div WORDBITS < WordLen(n)
      BY <1>1, <3>1, WordLenIs
    <3>3. m % WORDBITS \in g[m \div WORDBITS] <=> IsOn(x, m)
      BY <3>1, <3>2 DEF Kept, IsOn
    <3> QED BY <1>2, <1>3, <3>1, <3>3 DEF True
  <2> QED BY <2>1 DEF Leaves
<1> HIDE DEF g
<1>5. Sets(x, n, g)
  BY <1>1 DEF g
<1>6. Bits!Vectors!Becomes(n, True(x) \cap 0 .. n - 1)
  BY <1>1, <1>4, <1>5, VectorBecomes
<1> QED BY <1>1, <1>2, <1>6 DEF Bits!Vectors!Next, Bits!Vectors!Resize, Bits!Vectors!Mine

(* A call that keeps the size, with s for the true bits of x.              *)
LEMMA VectorChanged ==
  ASSUME BitsInv, BitsAre', NEW x \in Names, NEW g, Sets(x, c[x], g), bitarg'.lhs = x, NEW s,
         \A m \in 0 .. c[x] - 1 : m % WORDBITS \in g[m \div WORDBITS] <=> m \in s
  PROVE  Bits!Vectors!Changed(s)
<1>1. Leaves(c[x], g) = s \cap 0 .. c[x] - 1
  BY DEF Leaves
<1>2. Bits!Vectors!Becomes(c[x], s \cap 0 .. c[x] - 1)
  <2>1. c[x] \in 0 .. MaxBits
    BY TrueSets
  <2>2. Bits!Vectors!Becomes(c[x], Leaves(c[x], g))
    BY <2>1, VectorBecomes
  <2> QED BY <1>1, <2>2
<1> QED BY <1>2, TrueSets DEF Bits!Vectors!Changed

LEMMA SameVector ==
  ASSUME BitsInv, BitsAre', NEW x \in Names, Sets(x, c[x], Same(x)), bitarg'.lhs = x, NEW s,
         s \cap 0 .. c[x] - 1 = True(x)
  PROVE  Bits!Vectors!Changed(s)
<1> DEFINE g == Same(x)
<1>1. Leaves(c[x], g) = True(x)
  BY SameLeaves
<1> HIDE DEF g
<1>2. Bits!Vectors!Becomes(c[x], s \cap 0 .. c[x] - 1)
  <2>1. c[x] \in 0 .. MaxBits /\ Sets(x, c[x], g)
    BY TrueSets DEF g
  <2>2. Bits!Vectors!Becomes(c[x], Leaves(c[x], g))
    BY <2>1, VectorBecomes
  <2> QED BY <1>1, <2>2
<1> QED BY <1>2, TrueSets DEF Bits!Vectors!Changed

LEMMA OneBitVector ==
  ASSUME BitsInv, BitsAre', NEW x \in Names, NEW n \in 0 .. MaxBits, NEW s, NEW t,
         bitarg'.lhs = x,
         \/ n < c[x] /\ Sets(x, c[x], WithWord(x, n, s))
         \/ n >= c[x] /\ Sets(x, c[x], Same(x)),
         t \ {n} = True(x) \ {n},
         n < c[x] => \A p \in Place : p \in s <=> IF p = n % WORDBITS THEN n \in t ELSE p \in Bits!WordOf(x, n)
  PROVE  Bits!Vectors!Changed(t)
<1>0. c[x] \in Nat /\ n \in Nat
  BY TrueSets, WordAssumption
<1>1. CASE n < c[x] /\ Sets(x, c[x], WithWord(x, n, s))
  <2> DEFINE g == WithWord(x, n, s)
  <2>1. ASSUME NEW m \in 0 .. c[x] - 1 PROVE m % WORDBITS \in g[m \div WORDBITS] <=> m \in t
    <3>1. /\ m \in Nat /\ m \div WORDBITS \in Nat /\ m % WORDBITS \in Place
          /\ m = (m \div WORDBITS) * WORDBITS + (m % WORDBITS)
          /\ n = (n \div WORDBITS) * WORDBITS + (n % WORDBITS)
      BY <1>0, DivMod
    <3>2. CASE m = n
      BY <1>1, <3>1, <3>2 DEF WithWord
    <3>3. CASE m # n
      <4>1. m \in t <=> IsOn(x, m)
        BY <3>3 DEF True
      <4>2. CASE m \div WORDBITS = n \div WORDBITS
        <5>1. m % WORDBITS # n % WORDBITS
          BY <3>1, <3>3, <4>2
        <5> QED BY <1>1, <3>1, <4>1, <4>2, <5>1 DEF WithWord, IsOn, Bits!WordOf
      <4>3. CASE m \div WORDBITS # n \div WORDBITS
        BY <3>1, <4>1, <4>3 DEF WithWord, IsOn
      <4> QED BY <4>2, <4>3
    <3> QED BY <3>2, <3>3
  <2> HIDE DEF g
  <2>2. Sets(x, c[x], g)
    BY <1>1 DEF g
  <2> QED BY <2>1, <2>2, VectorChanged
<1>2. CASE n >= c[x] /\ Sets(x, c[x], Same(x))
  <2>1. t \cap 0 .. c[x] - 1 = True(x)
    BY <1>0, <1>2 DEF True
  <2> QED BY <1>2, <2>1, SameVector
<1> QED BY <1>1, <1>2

LEMMA BitVector ==
  ASSUME BitsInv, BitsAre', NEW x \in Names, NEW n \in 0 .. MaxBits, ChangesBit(x, n)
  PROVE  Bits!Vectors!Next
<1>1. /\ bitarg'.lhs = x /\ bitarg'.n = n
      /\ Bits!Vectors!Mine = True(x) \/ bitarg'.lhs # x
  BY TrueSets DEF ChangesBit, ChangesOne, Calls, Bits!Arg, Bits!Vectors!Mine
<1>2. n < c[x] => (n \in True(x) <=> n % WORDBITS \in Bits!WordOf(x, n))
  <2>1. n \in Nat /\ c[x] \in Nat
    BY TrueSets, WordAssumption
  <2> QED BY <2>1 DEF True, IsOn, Bits!WordOf
<1>3. n % WORDBITS \in Place
  <2>1. n \in Nat
    BY WordAssumption
  <2> QED BY <2>1, DivMod
<1>4. CASE ChangesOne("toggle", x, n, Bits!SymDiff(Bits!WordOf(x, n), Bits!Bit(n)))
  <2> DEFINE s == Bits!SymDiff(Bits!WordOf(x, n), Bits!Bit(n))
             t == Bits!Vectors!SymDiff(True(x), {n})
  <2>1. t \ {n} = True(x) \ {n}
    BY DEF Bits!Vectors!SymDiff
  <2>2. n < c[x] => \A p \in Place : p \in s <=> IF p = n % WORDBITS THEN n \in t ELSE p \in Bits!WordOf(x, n)
    BY <1>2 DEF Bits!SymDiff, Bits!Vectors!SymDiff, Bits!Bit
  <2> HIDE DEF s, t
  <2>3. Bits!Vectors!Changed(t)
    BY <1>1, <1>4, <2>1, <2>2, OneBitVector DEF ChangesOne, s
  <2> QED BY <1>1, <1>4, <2>3 DEF ChangesOne, Calls, t, Bits!Vectors!OneBit, Bits!Vectors!Next
<1>5. CASE ChangesOne("unset", x, n, Bits!WordOf(x, n) \ Bits!Bit(n))
  <2> DEFINE s == Bits!WordOf(x, n) \ Bits!Bit(n)
             t == True(x) \ {n}
  <2>1. t \ {n} = True(x) \ {n}
    OBVIOUS
  <2>2. n < c[x] => \A p \in Place : p \in s <=> IF p = n % WORDBITS THEN n \in t ELSE p \in Bits!WordOf(x, n)
    BY <1>2 DEF Bits!Bit
  <2> HIDE DEF s, t
  <2>3. Bits!Vectors!Changed(t)
    BY <1>1, <1>5, <2>1, <2>2, OneBitVector DEF ChangesOne, s
  <2> QED BY <1>1, <1>5, <2>3 DEF ChangesOne, Calls, t, Bits!Vectors!OneBit, Bits!Vectors!Next
<1>6. CASE ChangesOne("set", x, n, Bits!WordOf(x, n) \cup Bits!Bit(n))
  <2> DEFINE s == Bits!WordOf(x, n) \cup Bits!Bit(n)
             t == True(x) \cup {n}
  <2>1. t \ {n} = True(x) \ {n}
    OBVIOUS
  <2>2. n < c[x] => \A p \in Place : p \in s <=> IF p = n % WORDBITS THEN n \in t ELSE p \in Bits!WordOf(x, n)
    BY <1>2 DEF Bits!Bit
  <2> HIDE DEF s, t
  <2>3. Bits!Vectors!Changed(t)
    BY <1>1, <1>6, <2>1, <2>2, OneBitVector DEF ChangesOne, s
  <2> QED BY <1>1, <1>6, <2>3 DEF ChangesOne, Calls, t, Bits!Vectors!OneBit, Bits!Vectors!Next
<1> QED BY <1>4, <1>5, <1>6 DEF ChangesBit

LEMMA WholeVector ==
  ASSUME BitsInv, BitsAre', NEW x \in Names,
         \/ Calls("compact", x, NULL, 0) /\ Sets(x, c[x], Same(x))
         \/ Calls("clear", x, NULL, 0) /\ Sets(x, c[x], NoBits)
         \/ /\ Calls("not", x, NULL, 0)
            /\ Sets(x, c[x], [w \in Nat |-> Bits!Mask(x, w) \ Bits!Word(x, w)])
  PROVE  Bits!Vectors!Next
<1>1. bitarg'.lhs = x /\ bitop' \in {"compact", "clear", "not"}
  BY DEF Calls, Bits!Arg
<1>2. c[x] \in Nat /\ Bits!Vectors!Mine = True(x) /\ Bits!Vectors!Bits(bitarg'.lhs) = 0 .. c[x] - 1
  BY <1>1, TrueSets DEF Bits!Vectors!Mine
<1>3. \A m \in 0 .. c[x] - 1 : m \in Nat /\ m \div WORDBITS \in Nat /\ m % WORDBITS \in Place
                              /\ m = (m \div WORDBITS) * WORDBITS + (m % WORDBITS)
  BY <1>2, DivMod
<1>4. CASE bitop' = "compact" /\ Sets(x, c[x], Same(x))
  <2>1. Bits!Vectors!Changed(True(x))
    BY <1>1, <1>4, SameVector DEF True
  <2> QED BY <1>2, <1>4, <2>1 DEF Bits!Vectors!AllBits, Bits!Vectors!Next
<1>5. CASE bitop' = "clear" /\ Sets(x, c[x], NoBits)
  <2> DEFINE g == NoBits
  <2>1. \A m \in 0 .. c[x] - 1 : m % WORDBITS \in g[m \div WORDBITS] <=> m \in {}
    BY <1>3 DEF NoBits
  <2> HIDE DEF g
  <2>2. Bits!Vectors!Changed({})
    BY <1>1, <1>5, <2>1, VectorChanged DEF g
  <2> QED BY <1>5, <2>2 DEF Bits!Vectors!AllBits, Bits!Vectors!Next
<1>6. CASE bitop' = "not" /\ Sets(x, c[x], [w \in Nat |-> Bits!Mask(x, w) \ Bits!Word(x, w)])
  <2> DEFINE g == [w \in Nat |-> Bits!Mask(x, w) \ Bits!Word(x, w)]
             t == (0 .. c[x] - 1) \ True(x)
  <2>1. ASSUME NEW m \in 0 .. c[x] - 1 PROVE m % WORDBITS \in g[m \div WORDBITS] <=> m \in t
    <3>1. m % WORDBITS \in Bits!Mask(x, m \div WORDBITS)
      BY <1>2, <1>3 DEF Bits!Mask, Place
    <3> QED BY <1>3, <3>1 DEF True, IsOn
  <2> HIDE DEF g, t
  <2>2. Sets(x, c[x], g)
    BY <1>6 DEF g
  <2>3. Bits!Vectors!Changed(t)
    BY <1>1, <2>1, <2>2, VectorChanged
  <2> QED BY <1>2, <1>6, <2>3 DEF t, Bits!Vectors!AllBits, Bits!Vectors!Next
<1> QED BY <1>4, <1>5, <1>6 DEF Calls

LEMMA CombinedVector ==
  ASSUME BitsInv, BitsAre', NEW x \in Names, NEW y \in Names, Combines(x, y), ~Bits!StrayShows
  PROVE  Bits!Vectors!Next
<1>1. bitarg'.lhs = x /\ bitarg'.rhs = y /\ bitop' \in {"and", "or", "xor"}
  BY DEF Combines, Calls, Bits!Arg
<1>2. /\ c[x] \in Nat /\ c[y] \in Nat
      /\ Bits!Vectors!Mine = True(x) /\ Bits!Vectors!Theirs = True(y)
  BY <1>1, TrueSets DEF Bits!Vectors!Mine, Bits!Vectors!Theirs
<1>3. ASSUME NEW m \in 0 .. c[x] - 1
      PROVE  /\ m \in Nat /\ m \div WORDBITS \in Nat
             /\ m \in True(x) <=> IsOn(x, m)
             /\ m \in True(y) <=> IsOn(y, m)
             /\ m \in True(y) => m \div WORDBITS \in Bits!MinWords(x, y)
  <2>1. Bits!Stray(y) \cap 0 .. c[x] - 1 = {} /\ Bits!Stray(y) = {n \in Nat : n >= c[y] /\ IsOn(y, n)}
    BY <1>1, BitsKnown DEF Bits!StrayShows, BitsAre
  <2>2. m \in Nat /\ m \div WORDBITS \in Nat
    BY <1>2, DivMod
  <2>3. IsOn(y, m) => m < c[y]
    BY <1>2, <2>1, <2>2
  <2>4. m < c[y] => m \div WORDBITS \in Bits!MinWords(x, y)
    <3> DEFINE least == IF c[x] > c[y] THEN c[y] ELSE c[x]
    <3>1. least \in Nat /\ (m < c[y] => m \in 0 .. least - 1)
      BY <1>2, <2>2
    <3>2. Bits!MinWords(x, y) = 0 .. WordLen(least) - 1
      BY DEF Bits!MinWords, WordLen
    <3> HIDE DEF least
    <3> QED BY <3>1, <3>2, InUse
  <2> QED BY <1>2, <2>2, <2>3, <2>4 DEF True
<1>4. CASE bitop' = "and" /\ Sets(x, c[x], [w \in Nat |-> Bits!Word(x, w) \cap Bits!Word(y, w)])
  <2> DEFINE g == [w \in Nat |-> Bits!Word(x, w) \cap Bits!Word(y, w)]
             t == True(x) \cap True(y)
  <2>1. \A m \in 0 .. c[x] - 1 : m % WORDBITS \in g[m \div WORDBITS] <=> m \in t
    BY <1>3 DEF IsOn
  <2> HIDE DEF g, t
  <2>2. Sets(x, c[x], g)
    BY <1>4 DEF g
  <2>3. Bits!Vectors!Changed(t)
    BY <1>1, <2>1, <2>2, VectorChanged
  <2> QED BY <1>2, <1>4, <2>3 DEF t, Bits!Vectors!AllBits, Bits!Vectors!Next
<1>5. CASE /\ bitop' = "or"
           /\ Sets(x, c[x], Combined(x, y, [w \in Nat |-> Bits!Word(x, w) \cup Bits!Word(y, w)]))
  <2> DEFINE g == Combined(x, y, [w \in Nat |-> Bits!Word(x, w) \cup Bits!Word(y, w)])
             t == True(x) \cup True(y)
  <2>1. \A m \in 0 .. c[x] - 1 : m % WORDBITS \in g[m \div WORDBITS] <=> m \in t
    BY <1>3 DEF IsOn, Combined
  <2> HIDE DEF g, t
  <2>2. Sets(x, c[x], g)
    BY <1>5 DEF g
  <2>3. Bits!Vectors!Changed(t)
    BY <1>1, <2>1, <2>2, VectorChanged
  <2> QED BY <1>2, <1>5, <2>3 DEF t, Bits!Vectors!AllBits, Bits!Vectors!Next
<1>6. CASE /\ bitop' = "xor"
           /\ Sets(x, c[x], Combined(x, y, [w \in Nat |-> Bits!SymDiff(Bits!Word(x, w), Bits!Word(y, w))]))
  <2> DEFINE g == Combined(x, y, [w \in Nat |-> Bits!SymDiff(Bits!Word(x, w), Bits!Word(y, w))])
             t == Bits!Vectors!SymDiff(True(x), True(y))
  <2>1. \A m \in 0 .. c[x] - 1 : m % WORDBITS \in g[m \div WORDBITS] <=> m \in t
    BY <1>3 DEF IsOn, Combined, Bits!SymDiff, Bits!Vectors!SymDiff
  <2> HIDE DEF g, t
  <2>2. Sets(x, c[x], g)
    BY <1>6 DEF g
  <2>3. Bits!Vectors!Changed(t)
    BY <1>1, <2>1, <2>2, VectorChanged
  <2> QED BY <1>2, <1>6, <2>3 DEF t, Bits!Vectors!AllBits, Bits!Vectors!Next
<1> QED BY <1>4, <1>5, <1>6 DEF Combines, Calls

LEMMA LookVector ==
  ASSUME BitsInv, NEW x \in Names,
         \/ \E n \in 0 .. MaxBits :
              Calls("get", x, NULL, n) /\ Looks(Bits!Reply(Bits!IsSet(x, n), {}))
         \/ /\ Calls("foreach", x, NULL, 0)
            /\ Looks(Bits!Reply(TRUE, {n \in 0 .. c[x] - 1 : Bits!IsSet(x, n)}))
  PROVE  Bits!Vectors!Next
<1>0. UNCHANGED Bits!fields /\ bitarg'.lhs = x
  <2>1. \E t, s : Looks(Bits!Reply(t, s))
    OBVIOUS
  <2>2. \E o, n : Calls(o, x, NULL, n)
    OBVIOUS
  <2> QED BY <2>1, <2>2 DEF Looks, Calls, Bits!Arg
<1>1. Bits!Sizes' = Bits!Sizes /\ Bits!Trues' = Bits!Trues /\ bitarg'.lhs = x
  BY <1>0, VectorsStay
<1>2. c[x] \in Nat /\ Bits!Vectors!Mine = True(x) /\ (Bits!IsPointer(b[x]) => c[x] = 0)
  BY <1>1, TrueSets, ArrayFits DEF Bits!Vectors!Mine
<1>3. ASSUME NEW n \in Nat PROVE Bits!IsSet(x, n) <=> n \in True(x)
  BY <1>2, <1>3 DEF Bits!IsSet, Bits!InRange, Bits!Bit, Bits!WordOf, True, IsOn
<1>4. CASE \E n \in 0 .. MaxBits :
             Calls("get", x, NULL, n) /\ Looks(Bits!Reply(Bits!IsSet(x, n), {}))
  <2>1. PICK n \in 0 .. MaxBits :
          Calls("get", x, NULL, n) /\ Looks(Bits!Reply(Bits!IsSet(x, n), {}))
    BY <1>4
  <2>2. Bits!IsSet(x, n) = (n \in True(x)) /\ bitarg'.n = n /\ bitop' = "get"
    <3>1. n \in Nat
      BY WordAssumption
    <3>2. Bits!IsSet(x, n) \in BOOLEAN
      BY DEF Bits!IsSet
    <3> QED BY <1>3, <2>1, <3>1, <3>2 DEF Calls, Bits!Arg
  <2>3. bitret' = Bits!Vectors!Reply(bitarg'.n \in Bits!Vectors!Mine, {})
    BY <1>2, <2>1, <2>2 DEF Looks, Bits!Reply, Bits!Vectors!Reply
  <2> QED BY <1>1, <2>2, <2>3 DEF Bits!Vectors!Look, Bits!Vectors!Next
<1>5. CASE /\ Calls("foreach", x, NULL, 0)
           /\ Looks(Bits!Reply(TRUE, {n \in 0 .. c[x] - 1 : Bits!IsSet(x, n)}))
  <2>1. {n \in 0 .. c[x] - 1 : Bits!IsSet(x, n)} = True(x)
    BY <1>2, <1>3 DEF True
  <2>2. bitret' = Bits!Vectors!Reply(TRUE, Bits!Vectors!Mine) /\ bitop' = "foreach"
    BY <1>2, <1>5, <2>1 DEF Looks, Calls, Bits!Reply, Bits!Vectors!Reply
  <2> QED BY <1>1, <2>2 DEF Bits!Vectors!Look, Bits!Vectors!Next
<1> QED BY <1>4, <1>5

LEMMA VectorStep ==
  ASSUME BitsInv, BitsAre', WordStep
  PROVE  bitfault' = "freed" \/ Bits!StrayShows \/ Bits!Vectors!Next
<1> SUFFICES ASSUME bitfault' # "freed", ~Bits!StrayShows PROVE Bits!Vectors!Next
  OBVIOUS
<1>1. CASE bitop' \in {"init", "init_cpy", "resize"} /\ Looks(Bits!Reply(FALSE, {}))
  <2>1. UNCHANGED Bits!fields /\ bitret' = Bits!Vectors!Reply(FALSE, {})
    BY <1>1 DEF Looks, Bits!Reply, Bits!Vectors!Reply
  <2>2. Bits!Sizes' = Bits!Sizes /\ Bits!Trues' = Bits!Trues
    BY <2>1, VectorsStay
  <2> QED BY <1>1, <2>1, <2>2 DEF Bits!Vectors!Next, Bits!Vectors!Fails
<1>2. CASE \E x \in Names, n \in 0 .. MaxBits :
             \/ Calls("init", x, NULL, n) /\ Sets(x, n, NoBits)
             \/ Resizes(x, n)
             \/ ChangesBit(x, n)
             \/ Calls("get", x, NULL, n) /\ Looks(Bits!Reply(Bits!IsSet(x, n), {}))
  BY <1>2, CreateVector, ResizeVector, BitVector, LookVector
<1>3. CASE \E x \in Names, y \in Names : Copies(x, y) \/ Combines(x, y)
  BY <1>3, CopyVector, CombinedVector
<1>4. CASE \E x \in Names :
             \/ Frees(x)
             \/ Calls("compact", x, NULL, 0) /\ Sets(x, c[x], Same(x))
             \/ Calls("clear", x, NULL, 0) /\ Sets(x, c[x], NoBits)
             \/ /\ Calls("not", x, NULL, 0)
                /\ Sets(x, c[x], [w \in Nat |-> Bits!Mask(x, w) \ Bits!Word(x, w)])
             \/ Calls("foreach", x, NULL, 0)
                /\ Looks(Bits!Reply(TRUE, {n \in 0 .. c[x] - 1 : Bits!IsSet(x, n)}))
  BY <1>4, FreeVector, WholeVector, LookVector
<1> QED BY <1>1, <1>2, <1>3, <1>4 DEF WordStep

-------------------------------------------------------------------------------
(* The theorems.                                                           *)
LEMMA BitsInit == PartInit => BitsInv /\ Bits!Vectors!Init
<1> SUFFICES ASSUME PartInit PROVE BitsInv /\ Bits!Vectors!Init
  OBVIOUS
<1>1. /\ c = [x \in Names |-> 0] /\ b = [x \in Names |-> NULL] /\ bitfault = "none"
      /\ bitret = Bits!Reply(TRUE, {}) /\ 0 \in 0 .. MaxBits
  BY WordAssumption DEF PartInit, Bits!Init
<1>2. Fits(0, NULL)
  BY PointerFits
<1>3. BitsInv
  BY <1>1, <1>2 DEF BitsInv
<1>4. \A x \in Names : True(x) = {}
  BY <1>1 DEF True
<1>5. Bits!Trues = [x \in Names |-> {}]
  BY <1>3, <1>4, VectorsAre
<1> QED BY <1>1, <1>3, <1>5
        DEF Bits!Vectors!Init, Bits!Sizes, Bits!Reply, Bits!Vectors!Reply

LEMMA OthersKeep == BitsInv /\ UNCHANGED bitvars => BitsInv'
<1> SUFFICES ASSUME BitsInv, UNCHANGED bitvars PROVE BitsInv'
  OBVIOUS
<1>1. UNCHANGED Bits!fields /\ bitfault' \in {"none", "freed"}
  BY DEF bitvars, Bits!fields, BitsInv
<1> QED BY <1>1, UnchangedFits

LEMMA OneOfTheParts == [PartNext]_partvars => Bits!Next \/ UNCHANGED bitvars
BY DEF PartNext, partvars

(* Bit arrays have the words they use, and no bits in those they do not,   *)
(* whatever the word size: every call of bit_array.c stays in its blocks.  *)
THEOREM BitsFit == PartSpec => []BlockFits
<1>1. PartInit => BitsInv
  BY BitsInit
<1>2. BitsInv /\ [PartNext]_partvars => BitsInv'
  BY OneOfTheParts, BitsStep, OthersKeep
<1>3. BitsInv => BlockFits
  BY StraysFit DEF BlockFits
<1> QED BY <1>1, <1>2, <1>3, PTL DEF PartSpec

LEMMA Known == PartSpec => []BitsInv /\ []BitsAre
<1>1. PartInit => BitsInv
  BY BitsInit
<1>2. BitsInv /\ [PartNext]_partvars => BitsInv'
  BY OneOfTheParts, BitsStep, OthersKeep
<1> QED BY <1>1, <1>2, BitsKnown, PTL DEF PartSpec

LEMMA StrayOrStutter ==
  BitsInv /\ BitsAre' /\ [PartNext]_partvars => [Bits!StrayOrigin]_partvars
<1> SUFFICES ASSUME BitsInv, BitsAre', [PartNext]_partvars PROVE Bits!StrayOrigin
  OBVIOUS
<1>1. CASE Bits!Next
  BY <1>1, CallsAreWordSteps, StrayStep
<1>2. CASE UNCHANGED bitvars
  <2>1. UNCHANGED Bits!fields
    BY <1>2 DEF bitvars, Bits!fields
  <2> QED BY <2>1, FieldsKeepStray DEF Bits!StrayOrigin
<1> QED BY <1>1, <1>2, OneOfTheParts

(* Bits past an array's size come from a resize that cuts it, from or and  *)
(* xor with an array that is longer or has some, and from copying one;     *)
(* from no other call of bit_array.c.                                      *)
THEOREM StraysComeFrom == PartSpec => StrayOrigin
BY Known, StrayOrStutter, PTL DEF PartSpec, StrayOrigin

LEMMA VectorOrStutter ==
  BitsInv /\ BitsAre' /\ [PartNext]_partvars =>
    [bitfault' = "freed" \/ Bits!StrayShows \/ Bits!Vectors!Next]_<<Bits!Sizes, Bits!Trues, bitop, bitarg, bitret>>
<1> SUFFICES ASSUME BitsInv, BitsAre', [PartNext]_partvars
             PROVE  \/ bitfault' = "freed" \/ Bits!StrayShows \/ Bits!Vectors!Next
                    \/ UNCHANGED <<Bits!Sizes, Bits!Trues, bitop, bitarg, bitret>>
  OBVIOUS
<1>1. CASE Bits!Next
  BY <1>1, CallsAreWordSteps, VectorStep
<1>2. CASE UNCHANGED bitvars
  <2>1. UNCHANGED Bits!fields /\ UNCHANGED <<bitop, bitarg, bitret>>
    BY <1>2 DEF bitvars, Bits!fields
  <2> QED BY <2>1, VectorsStay
<1> QED BY <1>1, <1>2, OneOfTheParts

(* Words apart, bit_array.c implements arrays that are a size and a set of *)
(* true bits, from the first call that uses freed memory or shows bits     *)
(* past a size excepted.                                                   *)
THEOREM BitsAreVectors == PartSpec => ImplementsBits
<1>1. PartInit => Bits!Vectors!Init
  BY BitsInit
<1> QED BY <1>1, Known, VectorOrStutter, PTL DEF PartSpec, ImplementsBits, Bits!ImplementsBits

===============================================================================
