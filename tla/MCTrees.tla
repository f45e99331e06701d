-------------------------------- MODULE MCTrees --------------------------------
(***************************************************************************)
(* Trees with five keys in a set, the least for which the minimum that     *)
(* replaces a removed node lies deeper and has a child of its own, and     *)
(* three keys where a node holds values.                                   *)
(***************************************************************************)
EXTENDS Trees

AllKinds == {"set", "map", "multiset", "multimap"}
SomeKeys == [x \in AllKinds |-> IF x = "set" THEN 1 .. 5 ELSE 1 .. 3]

(* Of up to three values: none, the first, all, one in the middle or at    *)
(* the end, all but the first; and bounds beyond the last.                 *)
SomeRanges == {<<0, 0>>, <<0, 1>>, <<0, 4>>, <<1, 2>>, <<1, 4>>, <<2, 3>>}

(* In steps of two: some puts grow the node, some find room in it.         *)
GrowByTwo(n) == ((n + 1) \div 2) * 2
===============================================================================
