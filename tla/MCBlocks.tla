-------------------------------- MODULE MCBlocks --------------------------------
(***************************************************************************)
(* The modules that work on one block of memory: in every behaviour one of *)
(* the array list, the string buffer, the bit array and heap.c is used,    *)
(* and the others stay as they are.  Arrays of five are the least that     *)
(* have a heap with a left and a right child two levels down.              *)
(***************************************************************************)
EXTENDS Block, BitWords, Heap

CONSTANTS Parts,     \* which of the four
          NUL

VARIABLES part,
          c, b, bitfault, bitop, bitarg, bitret    \* of BitArray

Texts == {<<>>} \cup {<<x, y>> : x, y \in Elems}

(* Always more than asked for, as with the macros' default.                *)
NextThree(n) == ((n \div 3) + 1) * 3
Difference(x, y) == x - y

(* No call tells elements, or names of arrays, apart.                      *)
Alike == Permutations(Elems) \cup Permutations(Names)

List == INSTANCE ArrayList
String == INSTANCE StringBuffer WITH Strings <- Texts
Bits == INSTANCE BitArray WITH fault <- bitfault, op <- bitop, arg <- bitarg, ret <- bitret

bitvars == <<c, b, bitfault, bitop, bitarg, bitret>>
partvars == <<part, blockvars, bitvars, vars>>

PartInit == part \in Parts /\ EmptyBlock /\ Bits!Init /\ Init

PartNext ==
  /\ UNCHANGED part
  /\ \/ part = "list" /\ List!Next /\ UNCHANGED <<bitvars, vars>>
     \/ part = "string" /\ String!Next /\ UNCHANGED <<bitvars, vars>>
     \/ part = "bits" /\ Bits!Next /\ UNCHANGED <<blockvars, vars>>
     \/ part = "heap" /\ Next /\ UNCHANGED <<blockvars, bitvars>>

PartSpec == PartInit /\ [][PartNext]_partvars

-------------------------------------------------------------------------------
(* What is in use of a list's or a string's block was written, and calls  *)
(* stay in the block, but those named.                                     *)
BlockSafe == IF part = "string" THEN String!BlockSafe ELSE List!BlockSafe

(* Strings stay terminated, but by the calls named.                        *)
KeepsTerminator == [][part = "string" => String!KeepsTerminator]_partvars

(* The contents are a sequence, and every call does to it what the headers *)
(* say, whatever memory is refused and wherever the block is left.  Of the *)
(* array list that holds with no exception.  Of the string buffer it holds *)
(* but for calls that end the program at a null pointer (LeavesBlock names *)
(* them), and for strings given out without their end: every copy, and the *)
(* hand-over of an unterminated block, which do the rest as promised.      *)
ImplementsSequence ==
  /\ Promise!Init
  /\ [][\/ Promise!Next
        \/ part = "string" /\ (fault' = "null" \/ String!Unended)]_<<Contents, op, arg, ret>>

(* Bit arrays have the words they use, and no bits in those they do not.   *)
BlockFits == Bits!BlockFits

(* Only cutting an array and longer operands leave bits past the size.     *)
StrayOrigin == [][Bits!StrayOrigin]_partvars

(* But where such bits show, bit arrays are sizes and sets of true bits.   *)
ImplementsBits == Bits!ImplementsBits

(* header/array_list.h:154 "Removes an item at a specific index of the     *)
(* list": within the block that the list has.                              *)
StaysInBlock == fault # "outside"
===============================================================================
