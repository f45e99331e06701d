---------------------------------- MODULE Heap ----------------------------------
(***************************************************************************)
(* heap.c.  The loops run one iteration, and one swap, per step: pc = "up" *)
(* is the loop of heapify that moves a child up, pc = "next" its end;      *)
(* heapsort calls heapify for ever shorter prefixes (pc = "shrink").       *)
(***************************************************************************)
EXTENDS Integers, Sequences

CONSTANTS Values,      \* what the array holds
          cmp(_, _),   \* the comparator: negative, zero or positive
          MaxCount     \* the largest array passed

ASSUME MaxCountAssumption == MaxCount \in Nat

(* A comparator as of qsort: a weak order of what the array holds.         *)
ASSUME CmpAssumption ==
  /\ \A x, y \in Values : cmp(x, y) \in Int /\ (cmp(x, y) < 0 <=> cmp(y, x) > 0)
  /\ \A x, y, z \in Values : cmp(x, y) >= 0 /\ cmp(y, z) >= 0 => cmp(x, z) >= 0

VARIABLES ptr, given,           \* the array, and as it was passed
          pc, fn,       \* the function running, or the last one
          count,                \* of heapify: the prefix that is to be a heap
          i, child, parent      \* of heapify

input == <<given, fn>>
vars == <<ptr, input, pc, count, i, child, parent>>

Size == Len(given)

(* Element n, counted from 0, of an array.                                 *)
At(a, n) == a[n + 1]

(* Mutant: the buffer is not copied back.                                  *)
HalfSwap(a, m, n) == [a EXCEPT ![m + 1] = At(a, n)]

Swap(a, m, n) == [a EXCEPT ![m + 1] = At(a, n), ![n + 1] = At(a, m)]

plevel(n) == (n - (2 - (n % 2))) \div 2

Init == /\ ptr = <<>> /\ given = <<>> /\ fn = "none" /\ pc = "idle"
        /\ count = 0 /\ i = 0 /\ child = 0 /\ parent = 0

(* The test of heapify's outer loop at n, for a prefix of c elements.      *)
Outer(n, c) ==
  /\ i' = n /\ count' = c
  /\ \/ n < c /\ pc' = "up" /\ child' = n /\ parent' = plevel(n)
     \/ n >= c /\ pc' = "next" /\ child' = 0 /\ parent' = 0

Start == \E n \in 0 .. MaxCount, o \in {"make_max_heap", "heapsort"} :
  /\ pc = "idle" /\ fn' = o
  /\ \E a \in [1 .. n -> Values] : ptr' = a /\ given' = a
  /\ Outer(1, n)

(* Mutant: the smaller element goes up.                                    *)
LargerBelow == cmp(At(ptr, parent), At(ptr, child)) > 0

SmallerAbove == cmp(At(ptr, parent), At(ptr, child)) < 0

(* Mutant: the root is taken to have a parent.                             *)
NoRoot == FALSE

AtRoot == parent = 0

heapify_swap ==
  /\ pc = "up" /\ SmallerAbove
  /\ ptr' = Swap(ptr, parent, child) /\ UNCHANGED input
  /\ \/ AtRoot /\ Outer(i + 1, count)
     \/ /\ ~AtRoot /\ child' = parent /\ parent' = plevel(parent)
        /\ UNCHANGED <<pc, count, i>>

heapify_next ==
  pc = "up" /\ ~SmallerAbove /\ Outer(i + 1, count) /\ UNCHANGED <<ptr, input>>

(* heapify is done: so is make_max_heap, and heapsort when its i is zero.  *)
Finish ==
  /\ pc = "next" /\ (fn = "make_max_heap" \/ count = 0)
  /\ pc' = "idle" /\ i' = 0 /\ count' = 0 /\ UNCHANGED <<ptr, input, child, parent>>

(* The root changes places with the last of the prefix.                    *)
heapsort_shrink ==
  /\ pc = "next" /\ fn = "heapsort" /\ count > 0
  /\ ptr' = Swap(ptr, 0, count - 1) /\ Outer(1, count - 1) /\ UNCHANGED input

Sorting == heapify_swap \/ heapify_next \/ heapsort_shrink \/ Finish

Next == Start \/ Sorting

Spec == Init /\ [][Next]_vars

-------------------------------------------------------------------------------
(* Properties.                                                             *)

TypeOK ==
  /\ given \in Seq(Values) /\ ptr \in [1 .. Size -> Values] /\ pc \in {"idle", "up", "next"}
  /\ fn \in {"none", "make_max_heap", "heapsort"} /\ count \in 0 .. Size /\ i \in Nat
  /\ child \in Nat /\ parent \in Nat
  /\ pc = "up" => i < count /\ child \in 1 .. i /\ parent = plevel(child)

(* Of n's children, 2n + 1 and 2n + 2, none is larger.  The elements       *)
(* before i form such a heap already; while an element moves up, only it   *)
(* may be larger than its parent, and its children are no larger than that *)
(* parent either.  make_max_heap leaves a heap, for every comparator that  *)
(* is a weak order.                                                        *)
Above(k) == (k - 1) \div 2
Heaped(k) == cmp(At(ptr, Above(k)), At(ptr, k)) >= 0
HeapUpTo(n) == \A k \in 1 .. n - 1 : Heaped(k)
IsHeap ==
  /\ pc = "up" =>
       /\ \A k \in 1 .. i : k = child \/ Heaped(k)
       /\ \A k \in 1 .. i : Above(k) = child => cmp(At(ptr, parent), At(ptr, k)) >= 0
  /\ pc = "next" => HeapUpTo(count)
  /\ pc = "idle" /\ fn = "make_max_heap" => HeapUpTo(Size)

(* The array holds what was passed, every element as often, and heapsort's *)
(* tail, past the prefix, is ascending and no smaller than what is before  *)
(* it; so the whole array is sorted in the end.                            *)
IsPermutation ==
  \E f \in [1 .. Size -> 1 .. Size] :
    /\ \A m, n \in 1 .. Size : f[m] = f[n] => m = n
    /\ \A n \in 1 .. Size : ptr[n] = given[f[n]]
TailSorted ==
  \A m, n \in 0 .. Size - 1 : m < n /\ n >= count => cmp(At(ptr, m), At(ptr, n)) <= 0
Sorts == IsPermutation /\ (fn = "heapsort" => TailSorted)
===============================================================================
