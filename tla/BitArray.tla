-------------------------------- MODULE BitArray --------------------------------
(***************************************************************************)
(* bit_array.c, with a second array for the functions that take two.       *)
(* Every call is one step.  A word is the set of positions of its bits     *)
(* that are 1; b is a block of words, or the pointer NULL, or Freed for a  *)
(* pointer to memory given back, whose use sets fault and ends what is     *)
(* known of the program.                                                   *)
(***************************************************************************)
EXTENDS BitWords

VARIABLES c, b,           \* of each array
          fault,          \* "none", "outside" when the last call left its block, "freed"
          op, arg, ret    \* the last call and its answer

fields == <<c, b>>
vars == <<fields, fault, op, arg, ret>>

Arg(x, y, n) == [lhs |-> x, rhs |-> y, n |-> n]
Reply(t, s) == [ok |-> t, bits |-> s]

NoWords == [w \in {} |-> {}]
IsPointer(p) == p \in {NULL, Freed}
WordsAt(p) == IF IsPointer(p) THEN NoWords ELSE p

(* Initialised without bits; the caller frees an array before the next     *)
(* init.                                                                   *)
Init == /\ c = [x \in Names |-> 0] /\ b = [x \in Names |-> NULL] /\ fault = "none"
        /\ op = "init" /\ arg = Arg(NULL, NULL, 0) /\ ret = Reply(TRUE, {})

Called(o, x, y, n) == fault = "none" /\ op' = o /\ arg' = Arg(x, y, n)

(* Array x gets size n and the block p, of which the words touched were    *)
(* read or written.                                                        *)
Becomes(x, n, p, touched) ==
  /\ c' = [c EXCEPT ![x] = n] /\ b' = [b EXCEPT ![x] = p] /\ ret' = Reply(TRUE, {})
  /\ fault' = IF touched \subseteq DOMAIN WordsAt(p) THEN "none" ELSE "outside"

Unchanged(t, s) == UNCHANGED fields /\ ret' = Reply(t, s) /\ fault' = "none"

UsesFreed == fault' = "freed" /\ ret' = Reply(FALSE, {}) /\ UNCHANGED fields

Words(x) == 0 .. compute_word_len(c[x]) - 1
Word(x, w) == IF w \in DOMAIN WordsAt(b[x]) THEN b[x][w] ELSE {}

-------------------------------------------------------------------------------
(* The block.                                                              *)

Zeroes(bits) == [w \in 0 .. compute_word_len(bits) - 1 |-> {}]

init_bitarr == \E x \in Names, n \in 0 .. MaxBits :
  /\ b[x] = NULL /\ Called("init", x, NULL, n)
  /\ \/ n = 0 /\ Becomes(x, 0, NULL, {})
     \/ n > 0 /\ Unchanged(FALSE, {})                           \* calloc failed
     \/ n > 0 /\ Becomes(x, n, Zeroes(n), {})

init_cpy_bitarr == \E x \in Names :
  /\ b[x] = NULL
  /\ \/ Called("init_cpy", x, NULL, 0) /\ Unchanged(FALSE, {})    \* no original
     \/ \E y \in Names \ {x} :
          /\ Called("init_cpy", x, y, 0)
          /\ \/ c[y] = 0 /\ Becomes(x, 0, NULL, {})
             \/ c[y] > 0 /\ Unchanged(FALSE, {})
             \/ c[y] > 0 /\ Becomes(x, c[y], [w \in Words(y) |-> Word(y, w)], Words(y))

free_bitarr == \E x \in Names :
  /\ Called("free", x, NULL, 0)
  /\ IF b[x] = Freed THEN UsesFreed ELSE Becomes(x, 0, NULL, {})

(* realloc to n words, as far as it succeeds.                              *)
Resized(x, n, fresh) ==
  [w \in 0 .. n - 1 |-> IF w \in DOMAIN WordsAt(b[x]) THEN b[x][w] ELSE fresh]

(* For no words, realloc may free the block and return NULL, which is      *)
(* taken for a failure.                                                    *)
bitarr_compact == \E x \in Names :
  /\ Called("compact", x, NULL, 0)
  /\ \/ b[x] = Freed /\ UsesFreed
     \/ b[x] # Freed /\ Unchanged(TRUE, {})                     \* realloc failed
     \/ b[x] # Freed /\ Becomes(x, c[x], Resized(x, compute_word_len(c[x]), {}), {})
     \/ b[x] \notin {NULL, Freed} /\ c[x] = 0 /\ Becomes(x, 0, Freed, {})

(* Mutant: the words that are cut off keep their bits.                     *)
NotCleared(x, n) == WordsAt(b[x])

Shrunk(x, n) ==
  [w \in DOMAIN WordsAt(b[x]) |-> IF w \in compute_word_len(n) .. compute_word_len(c[x]) - 1
                                  THEN {} ELSE b[x][w]]

(* New memory holds anything; the words from the old length on are cleared.*)
Grown(x, n, fresh) ==
  [w \in 0 .. compute_word_len(n) - 1 |-> IF w >= compute_word_len(c[x])
                                          THEN {} ELSE Resized(x, compute_word_len(n), fresh)[w]]

bitarr_resize == \E x \in Names, n \in 0 .. MaxBits :
  /\ Called("resize", x, NULL, n)
  /\ \/ n = c[x] /\ Unchanged(TRUE, {})
     \/ /\ n < c[x]
        /\ Becomes(x, n, Shrunk(x, n), compute_word_len(n) .. compute_word_len(c[x]) - 1)
     \/ n > c[x] /\ b[x] = Freed /\ UsesFreed
     \/ n > c[x] /\ b[x] # Freed /\ Unchanged(FALSE, {})        \* realloc failed
     \/ /\ n > c[x] /\ b[x] # Freed
        /\ \E fresh \in {{}, Positions} :
             Becomes(x, n, Grown(x, n, fresh), 0 .. compute_word_len(n) - 1)

-------------------------------------------------------------------------------
(* The bits.                                                               *)

(* The words of array x that f is a function on become those of f.         *)
Rewrite(x, f) ==
  Becomes(x, c[x],
          IF IsPointer(b[x]) THEN b[x]
          ELSE [w \in DOMAIN b[x] |-> IF w \in DOMAIN f THEN f[w] ELSE b[x][w]],
          DOMAIN f)

bitarr_clear == \E x \in Names :
  Called("clear", x, NULL, 0) /\ Rewrite(x, [w \in Words(x) |-> {}])

(* Mutant: one bit too many is in range.                                   *)
InRangeLate(x, n) == n <= c[x] /\ ~IsPointer(b[x])

InRange(x, n) == n < c[x] /\ ~IsPointer(b[x])

Bit(n) == {n % WORDBITS}
WordOf(x, n) == Word(x, n \div WORDBITS)

(* The word of bit n becomes s.                                            *)
OneBit(o, x, n, s) ==
  /\ Called(o, x, NULL, n)
  /\ \/ InRange(x, n) /\ Rewrite(x, [w \in {n \div WORDBITS} |-> s])
     \/ ~InRange(x, n) /\ Unchanged(TRUE, {})

bitarr_toggle == \E x \in Names, n \in 0 .. MaxBits :
  OneBit("toggle", x, n, SymDiff(WordOf(x, n), Bit(n)))
bitarr_unset == \E x \in Names, n \in 0 .. MaxBits :
  OneBit("unset", x, n, WordOf(x, n) \ Bit(n))
bitarr_set == \E x \in Names, n \in 0 .. MaxBits :
  OneBit("set", x, n, WordOf(x, n) \cup Bit(n))

IsSet(x, n) == InRange(x, n) /\ Bit(n) \subseteq WordOf(x, n)

bitarr_get == \E x \in Names, n \in 0 .. MaxBits :
  Called("get", x, NULL, n) /\ Unchanged(IsSet(x, n), {})

bitarr_foreach == \E x \in Names :
  Called("foreach", x, NULL, 0) /\ Unchanged(TRUE, {n \in 0 .. c[x] - 1 : IsSet(x, n)})

MinWords(x, y) == 0 .. compute_word_len(IF c[x] > c[y] THEN c[y] ELSE c[x]) - 1

(* Mutant: what the other array has no words for is left as it is.         *)
CommonWords(x, y) == MinWords(x, y)

(* The words past the other array's are cleared.                           *)
AndWords(x, y) == Words(x)

InOther(y, w) == IF w \in Words(y) THEN Word(y, w) ELSE {}

bitarr_and == \E x, y \in Names :
  /\ Called("and", x, y, 0)
  /\ Rewrite(x, [w \in AndWords(x, y) |-> Word(x, w) \cap InOther(y, w)])

bitarr_or == \E x, y \in Names :
  /\ Called("or", x, y, 0)
  /\ Rewrite(x, [w \in MinWords(x, y) |-> Word(x, w) \cup Word(y, w)])

bitarr_xor == \E x, y \in Names :
  /\ Called("xor", x, y, 0)
  /\ Rewrite(x, [w \in MinWords(x, y) |-> SymDiff(Word(x, w), Word(y, w))])

(* Mutant: the bits past the last one are set too.                         *)
WholeWord(x, w) == Positions

(* UINT_MAX >> (wordlen * WORDBITS - c) in the last word.                  *)
Mask(x, w) == {p \in Positions : w * WORDBITS + p < c[x]}

bitarr_not == \E x \in Names :
  /\ Called("not", x, NULL, 0)
  /\ Rewrite(x, [w \in Words(x) |-> Mask(x, w) \ Word(x, w)])

Next == \/ init_bitarr \/ init_cpy_bitarr \/ free_bitarr \/ bitarr_compact \/ bitarr_resize
        \/ bitarr_clear \/ bitarr_toggle \/ bitarr_unset \/ bitarr_set
        \/ bitarr_get \/ bitarr_foreach
        \/ bitarr_and \/ bitarr_or \/ bitarr_xor \/ bitarr_not

Spec == Init /\ [][Next]_vars

-------------------------------------------------------------------------------
(* Properties.                                                             *)

(* The bits in x's words, and those of them that are past its size.        *)
InWords(x) == UNION {{w * WORDBITS + p : p \in Word(x, w)} : w \in DOMAIN WordsAt(b[x])}
Stray(x) == InWords(x) \ 0 .. c[x] - 1

(* Every array has the words its size calls for, only an array without     *)
(* bits lets go of its block, and no call leaves one.  Past the size       *)
(* there may be bits in the last word, but never in the unused words of    *)
(* the block: that they are 0 is what a resize that brings them back       *)
(* relies on.                                                              *)
BlockFits ==
  /\ c \in [Names -> 0 .. MaxBits] /\ fault \in {"none", "freed"}
  /\ \A x \in Names : /\ \A w \in DOMAIN WordsAt(b[x]) : b[x][w] \subseteq Positions
                       /\ Words(x) \subseteq DOMAIN WordsAt(b[x])
                       /\ \A n \in Stray(x) : n \div WORDBITS \in Words(x)

(* Stray bits come from cutting an array inside a word, from or and xor    *)
(* with an array that is longer or has some itself, and from copying one;  *)
(* from nothing else, whatever was done before.                            *)
StrayOrigin ==
  \A x \in Names : Stray(x) = {} /\ Stray(x)' # {} =>
    \/ op' = "resize" /\ c'[x] < c[x]
    \/ op' \in {"or", "xor"} /\ (c[arg'.rhs] > c[x] \/ Stray(arg'.rhs) # {})
    \/ op' = "init_cpy" /\ Stray(arg'.rhs) # {}

(* Where stray bits show: in an array that grows over them, and in the     *)
(* longer operand of and, or and xor.                                      *)
StrayShows ==
  \/ op' = "resize" /\ Stray(arg'.lhs) \cap 0 .. arg'.n - 1 # {}
  \/ /\ op' \in {"and", "or", "xor"}
     /\ Stray(arg'.rhs) \cap 0 .. c[arg'.lhs] - 1 # {}

(* Everywhere else an array is a size and its true bits, with the missing  *)
(* bits of a shorter operand, and those added by resize, false.            *)
TrueBits(x) == InWords(x) \cap 0 .. c[x] - 1
Sizes == c
Trues == [x \in Names |-> TrueBits(x)]
Vectors == INSTANCE BitVectors WITH size <- Sizes, true <- Trues
ImplementsBits ==
  Vectors!Init /\ [][fault' = "freed" \/ StrayShows \/ Vectors!Next]_<<Sizes, Trues, op, arg, ret>>
===============================================================================
