-------------------------------- MODULE MCLists --------------------------------
(***************************************************************************)
(* Lists of up to four nodes, the least that sort splits twice on both     *)
(* sides, over three elements of which the comparator takes two for equal. *)
(***************************************************************************)
EXTENDS Lists

BothKinds == {"bidi", "forward"}
BidiOnly == {"bidi"}
SomeElems == {11, 12, 21}
ByTens(x, y) == (x \div 10) - (y \div 10)

(* One kind of element, all of them; what is not there is asked for by     *)
(* remove_match.                                                           *)
SomePredicates == {{11, 12}, {11, 12, 21}}
===============================================================================
