------------------------------ MODULE MCHashMap ------------------------------
(***************************************************************************)
(* HashMap with the macros of header/hash_map.h as they are by default,    *)
(* but for the quantum 16 of HMAP_GROW, and hash functions that collide,   *)
(* chain and wrap.                                                         *)
(***************************************************************************)
EXTENDS HashMap

CONSTANTS ka, kb, kc, \* keys
          Quantum     \* 16 in the source

DefaultGrow(n) == ((n \div Quantum + 1) * Quantum) % SizeMod
DefaultProbe(h, n) == (h + n) % SizeMod

(* ka and kb collide, kc's home is the slot next to theirs.                *)
Chained == [x \in Keys |-> IF x = kc THEN 1 ELSE 0]
(* All hash codes within one of the end of the range: h + k overflows.     *)
Wrapping == [x \in Keys |-> IF x = ka THEN SizeMod - 2 ELSE SizeMod - 1]

OneHasher == {Chained}
TwoHashers == {Chained, Wrapping}
ThreeKeys == {ka, kb, kc}
SmallArgs == {0, 1, MaxCap}

NoRemove == {"init", "free", "clear", "ensure", "put", "put_if_absent",
             "replace", "get", "get_or_default", "rehash"}
Everything == NoRemove \cup {"remove"}
Short == {"init", "put", "remove", "get"}
Rehashing == {"init", "put", "rehash"}
===============================================================================
