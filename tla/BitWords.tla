-------------------------------- MODULE BitWords --------------------------------
(***************************************************************************)
(* How bit_array.c lays bits out in words.                                 *)
(***************************************************************************)
EXTENDS Integers, FiniteSetsExt

CONSTANTS Names,           \* the caller's arrays
          NULL, Freed,     \* the null pointer, a pointer to memory given back
          WORDBITS,        \* bits in a word
          MaxBits          \* the caller asks for no more

ASSUME WordAssumption == WORDBITS \in Nat \ {0} /\ MaxBits \in Nat
ASSUME NamesAssumption == Names # {}

Positions == 0 .. WORDBITS - 1

(* The null pointer and one to memory given back are not blocks of words.  *)
ASSUME PointerAssumption ==
  \A n \in 0 .. MaxBits : {NULL, Freed} \cap [0 .. n - 1 -> SUBSET Positions] = {}

(* Mutant: the last word is not counted when it is not full.               *)
FullWords(bits) == bits \div WORDBITS

compute_word_len(bits) == (bits + WORDBITS - 1) \div WORDBITS
===============================================================================
