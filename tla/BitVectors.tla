------------------------------- MODULE BitVectors -------------------------------
(***************************************************************************)
(* What header/bit_array.h promises, with no words in sight: each array is *)
(* a size and the set of its true bits.                                    *)
(***************************************************************************)
EXTENDS Integers, FiniteSetsExt

CONSTANTS Names

VARIABLES size, true,     \* of each array
          op, arg, ret    \* the last call and its answer

Bits(x) == 0 .. size[x] - 1

(* Answers to get and foreach are sets of true bits.                       *)
Reply(b, s) == [ok |-> b, bits |-> s]

Init == /\ size = [x \in Names |-> 0] /\ true = [x \in Names |-> {}]
        /\ ret = Reply(TRUE, {})

Fails == op' \in {"init", "init_cpy", "resize"} /\ ret' = Reply(FALSE, {}) /\ UNCHANGED <<size, true>>

Becomes(n, s) == /\ size' = [size EXCEPT ![arg'.lhs] = n] /\ true' = [true EXCEPT ![arg'.lhs] = s]
                 /\ ret' = Reply(TRUE, {})

Mine == true[arg'.lhs]
Theirs == true[arg'.rhs]

Create == op' = "init" /\ Becomes(arg'.n, {})
Copy == op' = "init_cpy" /\ Becomes(size[arg'.rhs], Theirs)
Destroy == op' = "free" /\ Becomes(0, {})

(* Bits that are added are false.                                          *)
Resize == op' = "resize" /\ Becomes(arg'.n, Mine \cap 0 .. arg'.n - 1)

Changed(s) == Becomes(size[arg'.lhs], s \cap Bits(arg'.lhs))

(* A bit out of range is left alone.                                       *)
OneBit ==
  \/ op' = "toggle" /\ Changed(SymDiff(Mine, {arg'.n}))
  \/ op' = "unset" /\ Changed(Mine \ {arg'.n})
  \/ op' = "set" /\ Changed(Mine \cup {arg'.n})

AllBits ==
  \/ op' = "clear" /\ Changed({})
  \/ op' = "not" /\ Changed(Bits(arg'.lhs) \ Mine)
  \/ op' = "and" /\ Changed(Mine \cap Theirs)
  \/ op' = "or" /\ Changed(Mine \cup Theirs)
  \/ op' = "xor" /\ Changed(SymDiff(Mine, Theirs))
  \/ op' = "compact" /\ Changed(Mine)

(* A bit out of range reads as false.                                      *)
Look ==
  /\ UNCHANGED <<size, true>>
  /\ \/ op' = "get" /\ ret' = Reply(arg'.n \in Mine, {})
     \/ op' = "foreach" /\ ret' = Reply(TRUE, Mine)

Next == \/ Fails \/ Create \/ Copy \/ Destroy \/ Resize \/ OneBit \/ AllBits \/ Look

vars == <<size, true, op, arg, ret>>

Spec == Init /\ [][Next]_vars
===============================================================================
