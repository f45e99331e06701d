------------------------------- MODULE HeapProofs -------------------------------
(***************************************************************************)
(* Theorems about Heap, for arrays of every length and every comparator    *)
(* that is a weak order.                                                   *)
(***************************************************************************)
EXTENDS Heap, SequenceTheorems, WellFoundedInduction, TLAPS

LEMMA LeastNatural ==
  ASSUME NEW T \in SUBSET Nat, T # {}
  PROVE  \E x \in T : \A y \in T : x <= y
<1> DEFINE Less == OpToRel(<, Nat)
<1>1. IsWellFoundedOn(Less, Nat)
  BY NatLessThanWellFounded
<1>2. \A x, y \in Nat : <<x, y>> \in Less <=> x < y
  BY DEF OpToRel
<1> HIDE DEF Less
<1>3. PICK x \in T : \A y \in T : ~ (<<y, x>> \in Less)
  BY <1>1, WFMin
<1>4. ASSUME NEW y \in T PROVE x <= y
  <2>1. x \in Nat /\ y \in Nat
    OBVIOUS
  <2>2. ~ (y < x)
    BY <1>2, <1>3, <2>1
  <2> QED BY <2>1, <2>2
<1> QED BY <1>4

LEMMA LevelAbove ==
  \A n \in Nat \ {0} : plevel(n) = Above(n) /\ plevel(n) \in Nat /\ plevel(n) < n
BY DEF plevel, Above

LEMMA SwapAt ==
  ASSUME NEW N \in Nat, NEW a \in [1 .. N -> Values],
         NEW m \in 0 .. N - 1, NEW n \in 0 .. N - 1
  PROVE  /\ Swap(a, m, n) \in [1 .. N -> Values]
         /\ \A k \in 0 .. N - 1 :
              At(Swap(a, m, n), k) = IF k = m THEN At(a, n)
                                     ELSE IF k = n THEN At(a, m) ELSE At(a, k)
BY DEF Swap, At

LEMMA AtType ==
  ASSUME NEW N \in Nat, NEW a \in [1 .. N -> Values], NEW n \in 0 .. N - 1
  PROVE  At(a, n) \in Values
BY DEF At

-------------------------------------------------------------------------------
LEMMA OuterType ==
  ASSUME NEW n \in Nat \ {0}, NEW c \in Nat, Outer(n, c)
  PROVE  /\ i' \in Nat /\ child' \in Nat /\ parent' \in Nat /\ count' = c
         /\ pc' \in {"up", "next"}
         /\ pc' = "up" => i' < count' /\ child' \in 1 .. i' /\ parent' = plevel(child')
<1>1. CASE n < c /\ pc' = "up" /\ child' = n /\ parent' = plevel(n)
  BY <1>1, LevelAbove DEF Outer
<1>2. CASE n >= c /\ pc' = "next" /\ child' = 0 /\ parent' = 0
  BY <1>2 DEF Outer
<1> QED BY <1>1, <1>2 DEF Outer

LEMMA InitType == Init => TypeOK
<1> SUFFICES ASSUME Init PROVE TypeOK
  OBVIOUS
<1>1. Size = 0 /\ given \in Seq(Values) /\ ptr \in [1 .. 0 -> Values]
  BY DEF Init, Size
<1> QED BY <1>1 DEF Init, TypeOK

LEMMA SizeType == TypeOK => Size \in Nat
BY DEF TypeOK, Size

LEMMA TypeStep == TypeOK /\ [Next]_vars => TypeOK'
<1> SUFFICES ASSUME TypeOK, [Next]_vars PROVE TypeOK'
  OBVIOUS
<1>0. Size \in Nat
  BY SizeType
<1>1. CASE Start
  <2>1. PICK n \in 0 .. MaxCount, o \in {"make_max_heap", "heapsort"} :
          /\ fn' = o /\ Outer(1, n)
          /\ \E a \in [1 .. n -> Values] : ptr' = a /\ given' = a
    BY <1>1 DEF Start
  <2>2. n \in Nat /\ given' \in Seq(Values) /\ Size' = n
    BY <2>1, MaxCountAssumption DEF Size
  <2>3. /\ i' \in Nat /\ child' \in Nat /\ parent' \in Nat /\ count' = n /\ pc' \in {"up", "next"}
        /\ pc' = "up" => i' < count' /\ child' \in 1 .. i' /\ parent' = plevel(child')
    BY <2>1, <2>2, OuterType
  <2> QED BY <2>1, <2>2, <2>3 DEF TypeOK
<1>2. CASE heapify_swap
  <2>1. /\ pc = "up" /\ ptr' = Swap(ptr, parent, child) /\ UNCHANGED <<given, fn>> /\ Size' = Size
        /\ \/ AtRoot /\ Outer(i + 1, count)
           \/ /\ ~AtRoot /\ child' = parent /\ parent' = plevel(parent)
              /\ UNCHANGED <<pc, count, i>>
    BY <1>2 DEF heapify_swap, input, Size
  <2>2. /\ i \in Nat /\ child \in 1 .. i /\ i < count /\ count \in 0 .. Size
        /\ parent \in Nat /\ parent < child
    BY <2>1, LevelAbove DEF TypeOK
  <2>3. ptr' \in [1 .. Size' -> Values]
    <3>1. parent \in 0 .. Size - 1 /\ child \in 0 .. Size - 1
      BY <1>0, <2>2
    <3> QED BY <1>0, <2>1, <3>1, SwapAt DEF TypeOK
  <2>4. CASE AtRoot /\ Outer(i + 1, count)
    BY <1>0, <2>1, <2>2, <2>3, <2>4, OuterType DEF TypeOK
  <2>5. CASE ~AtRoot /\ child' = parent /\ parent' = plevel(parent) /\ UNCHANGED <<pc, count, i>>
    <3>1. parent \in 1 .. i /\ plevel(parent) \in Nat
      BY <2>2, <2>5, LevelAbove DEF AtRoot
    <3> QED BY <2>1, <2>2, <2>3, <2>5, <3>1 DEF TypeOK
  <2> QED BY <2>1, <2>4, <2>5
<1>3. CASE heapify_next
  <2>1. Outer(i + 1, count) /\ i + 1 \in Nat \ {0} /\ count \in Nat /\ count \in 0 .. Size
    BY <1>0, <1>3 DEF heapify_next, TypeOK
  <2>2. UNCHANGED <<ptr, given, fn>> /\ Size' = Size
    BY <1>3 DEF heapify_next, input, Size
  <2> QED BY <2>1, <2>2, OuterType DEF TypeOK
<1>4. CASE heapsort_shrink
  <2>1. /\ count > 0 /\ ptr' = Swap(ptr, 0, count - 1) /\ Outer(1, count - 1)
        /\ UNCHANGED <<given, fn>> /\ Size' = Size
    BY <1>4 DEF heapsort_shrink, input, Size
  <2>2. /\ count - 1 \in Nat /\ count - 1 \in 0 .. Size
        /\ 0 \in 0 .. Size - 1 /\ count - 1 \in 0 .. Size - 1
    BY <1>0, <2>1 DEF TypeOK
  <2>3. ptr' \in [1 .. Size' -> Values]
    BY <1>0, <2>1, <2>2, SwapAt DEF TypeOK
  <2> QED BY <2>1, <2>2, <2>3, OuterType DEF TypeOK
<1>5. CASE Finish
  <2>1. UNCHANGED <<given, fn>> /\ Size' = Size
    BY <1>5 DEF Finish, input, Size
  <2> QED BY <1>0, <1>5, <2>1 DEF Finish, TypeOK
<1>6. CASE UNCHANGED vars
  <2>1. Size' = Size
    BY <1>6 DEF vars, input, Size
  <2> QED BY <1>6, <2>1 DEF vars, input, TypeOK
<1> QED BY <1>1, <1>2, <1>3, <1>4, <1>5, <1>6 DEF Next, Sorting

(* heapify's indices stay inside the array, with parent the element above  *)
(* child, for every array (heap.c:24-41).                                  *)
THEOREM TypeCorrect == Spec => []TypeOK
BY InitType, TypeStep, PTL DEF Spec

-------------------------------------------------------------------------------
LEMMA NotSmaller ==
  \A x, y \in Values : ~ (cmp(x, y) < 0) => cmp(x, y) >= 0
BY CmpAssumption

LEMMA Swapped ==
  \A x, y \in Values : cmp(x, y) < 0 => cmp(y, x) >= 0
BY CmpAssumption

LEMMA Transitive ==
  \A x, y, z \in Values : cmp(x, y) >= 0 /\ cmp(y, z) >= 0 => cmp(x, z) >= 0
BY CmpAssumption

LEMMA AboveBefore == \A k \in Nat \ {0} : Above(k) \in Nat /\ Above(k) < k
BY DEF Above

(* Outside the loops of heapify the whole array is the prefix: what        *)
(* make_max_heap leaves is a heap up to Size because count is Size.        *)
WholeArray == fn = "make_max_heap" /\ pc # "idle" => count = Size

HeapInv == TypeOK /\ IsHeap /\ WholeArray

LEMMA WholeStep == TypeOK /\ WholeArray /\ [Next]_vars => WholeArray'
<1> SUFFICES ASSUME TypeOK, WholeArray, [Next]_vars PROVE WholeArray'
  OBVIOUS
<1>1. CASE Start
  <2>1. PICK n \in 0 .. MaxCount :
          Outer(1, n) /\ \E a \in [1 .. n -> Values] : ptr' = a /\ given' = a
    BY <1>1 DEF Start
  <2>2. n \in Nat /\ count' = n /\ Size' = n
    BY <2>1, MaxCountAssumption DEF Size, Outer
  <2> QED BY <2>2 DEF WholeArray
<1>2. CASE heapify_swap
  BY <1>2 DEF heapify_swap, Outer, input, Size, WholeArray
<1>3. CASE heapify_next
  BY <1>3 DEF heapify_next, Outer, input, Size, WholeArray
<1>4. CASE heapsort_shrink
  BY <1>4 DEF heapsort_shrink, input, WholeArray
<1>5. CASE Finish
  BY <1>5 DEF Finish, WholeArray
<1>6. CASE UNCHANGED vars
  BY <1>6 DEF vars, input, Size, WholeArray
<1> QED BY <1>1, <1>2, <1>3, <1>4, <1>5, <1>6 DEF Next, Sorting

(* The outer loop goes on to n, or ends, with a heap up to n in place.     *)
LEMMA OuterHeap ==
  ASSUME NEW n \in Nat \ {0}, NEW c \in Nat, Outer(n, c), HeapUpTo(n)'
  PROVE  IsHeap'
<1>1. CASE n < c /\ pc' = "up" /\ child' = n /\ i' = n
  <2>1. \A k \in 1 .. n : k = n \/ Heaped(k)'
    BY <1>1 DEF HeapUpTo
  <2>2. \A k \in 1 .. n : Above(k) # n
    BY AboveBefore
  <2> QED BY <1>1, <2>1, <2>2 DEF IsHeap
<1>2. CASE n >= c /\ pc' = "next" /\ count' = c
  <2>1. HeapUpTo(c)'
    BY <1>2 DEF HeapUpTo
  <2> QED BY <1>2, <2>1 DEF IsHeap
<1> QED BY <1>1, <1>2 DEF Outer

(* What one swap does to a heap that has an element moving up.             *)
LEMMA SwapHeap ==
  ASSUME TypeOK, IsHeap, heapify_swap
  PROVE  /\ \A k \in 1 .. i : k = parent \/ Heaped(k)'
         /\ \A k \in 1 .. i : parent # 0 /\ Above(k) = parent =>
              cmp(At(ptr', plevel(parent)), At(ptr', k)) >= 0
<1> DEFINE before == At(ptr, parent)
           after == At(ptr, child)
<1>1. /\ pc = "up" /\ ptr' = Swap(ptr, parent, child) /\ cmp(before, after) < 0
      /\ ptr \in [1 .. Size -> Values] /\ Size \in Nat
  BY SizeType DEF heapify_swap, SmallerAbove, TypeOK
<1>2. /\ i \in Nat /\ child \in 1 .. i /\ i < Size /\ parent \in Nat
      /\ parent < child /\ parent = Above(child)
  BY <1>1, LevelAbove DEF TypeOK
<1>3. /\ \A k \in 1 .. i : k = child \/ Heaped(k)
      /\ \A k \in 1 .. i : Above(k) = child => cmp(before, At(ptr, k)) >= 0
  BY <1>1 DEF IsHeap
<1>4. \A k \in 0 .. i : /\ At(ptr, k) \in Values
                        /\ At(ptr', k) = IF k = parent THEN after
                                         ELSE IF k = child THEN before ELSE At(ptr, k)
  BY <1>1, <1>2, SwapAt, AtType
<1>5. cmp(after, before) >= 0
  BY <1>1, <1>2, <1>4, Swapped
<1>6. ASSUME NEW k \in 1 .. i, k # parent PROVE cmp(At(ptr', Above(k)), At(ptr', k)) >= 0
  <2>0. Above(k) \in 0 .. i /\ Above(k) < k /\ k \in 0 .. i
    BY <1>2, AboveBefore
  <2>1. CASE k = child
    BY <1>2, <1>4, <1>5, <2>0, <2>1
  <2>2. CASE k # child /\ Above(k) = child
    BY <1>2, <1>3, <1>4, <1>6, <2>0, <2>2
  <2>3. CASE k # child /\ Above(k) = parent
    <3>1. cmp(before, At(ptr, k)) >= 0
      BY <1>3, <2>3 DEF Heaped
    <3>2. cmp(after, At(ptr, k)) >= 0
      BY <1>2, <1>4, <1>5, <2>0, <3>1, Transitive
    <3> QED BY <1>4, <1>6, <2>0, <2>3, <3>2
  <2>4. CASE k # child /\ Above(k) # child /\ Above(k) # parent
    BY <1>3, <1>4, <1>6, <2>0, <2>4 DEF Heaped
  <2> QED BY <2>1, <2>2, <2>3, <2>4
<1>7. ASSUME NEW k \in 1 .. i, parent # 0, Above(k) = parent
      PROVE  cmp(At(ptr', Above(parent)), At(ptr', k)) >= 0
  <2>0. /\ Above(parent) \in 0 .. i /\ Above(parent) < parent /\ k \in 0 .. i /\ k # parent
        /\ parent \in 1 .. i
    BY <1>2, <1>7, AboveBefore
  <2>1. cmp(At(ptr, Above(parent)), before) >= 0
    BY <1>2, <1>3, <2>0 DEF Heaped
  <2>2. At(ptr', Above(parent)) = At(ptr, Above(parent))
    BY <1>2, <1>4, <2>0
  <2>3. CASE k = child
    BY <1>4, <2>0, <2>1, <2>2, <2>3
  <2>4. CASE k # child
    <3>1. cmp(before, At(ptr, k)) >= 0
      BY <1>3, <1>7, <2>4 DEF Heaped
    <3>2. cmp(At(ptr, Above(parent)), At(ptr, k)) >= 0
      BY <1>2, <1>4, <2>0, <2>1, <3>1, Transitive
    <3> QED BY <1>4, <2>0, <2>2, <2>4, <3>2
  <2> QED BY <2>3, <2>4
<1>8. parent # 0 => plevel(parent) = Above(parent)
  BY <1>2, LevelAbove
<1> QED BY <1>6, <1>7, <1>8 DEF Heaped

LEMMA HeapStep == HeapInv /\ [Next]_vars => IsHeap'
<1> SUFFICES ASSUME TypeOK, IsHeap, WholeArray, [Next]_vars PROVE IsHeap'
  BY DEF HeapInv
<1>1. CASE Start
  <2>1. PICK n \in 0 .. MaxCount : Outer(1, n)
    BY <1>1 DEF Start
  <2>2. n \in Nat /\ HeapUpTo(1)'
    BY MaxCountAssumption DEF HeapUpTo
  <2> QED BY <2>1, <2>2, OuterHeap
<1>2. CASE heapify_swap
  <2>1. /\ pc = "up" /\ i \in Nat /\ count \in Nat /\ UNCHANGED fn
        /\ i < count /\ child \in 1 .. i /\ parent \in Nat
        /\ \/ AtRoot /\ Outer(i + 1, count)
           \/ /\ ~AtRoot /\ child' = parent /\ parent' = plevel(parent)
              /\ UNCHANGED <<pc, count, i>>
    BY <1>2, SizeType DEF heapify_swap, input, TypeOK
  <2>2. CASE AtRoot /\ Outer(i + 1, count)
    <3>0. PICK n \in Nat \ {0}, c \in Nat : n = i + 1 /\ c = count
      BY <2>1
    <3>1. HeapUpTo(n)'
      BY <1>2, <2>1, <2>2, <3>0, SwapHeap DEF HeapUpTo, AtRoot
    <3> QED BY <2>2, <3>0, <3>1, OuterHeap
  <2>3. CASE /\ ~AtRoot /\ child' = parent /\ parent' = plevel(parent)
             /\ UNCHANGED <<pc, count, i>>
    <3>1. /\ \A k \in 1 .. i : k = child' \/ Heaped(k)'
          /\ \A k \in 1 .. i : Above(k) = child' => cmp(At(ptr', parent'), At(ptr', k)) >= 0
      BY <1>2, <2>3, SwapHeap DEF AtRoot
    <3> QED BY <2>1, <2>3, <3>1 DEF IsHeap
  <2> QED BY <2>1, <2>2, <2>3
<1>3. CASE heapify_next
  <2>1. /\ i \in Nat /\ i + 1 \in Nat \ {0} /\ count \in Nat /\ Outer(i + 1, count)
        /\ pc = "up" /\ ptr' = ptr /\ child \in 1 .. i /\ i < Size /\ Size \in Nat
    BY <1>3, SizeType DEF heapify_next, TypeOK
  <2>2. parent = Above(child) /\ parent \in 0 .. Size - 1 /\ child \in 0 .. Size - 1
    BY <2>1, LevelAbove DEF TypeOK
  <2>3. At(ptr, parent) \in Values /\ At(ptr, child) \in Values
    BY <2>1, <2>2, AtType DEF TypeOK
  <2>4. Heaped(child)
    BY <1>3, <2>2, <2>3, NotSmaller DEF heapify_next, SmallerAbove, Heaped
  <2>5. PICK n \in Nat \ {0}, c \in Nat : n = i + 1 /\ c = count
    BY <2>1
  <2>6. HeapUpTo(n)'
    BY <2>1, <2>4, <2>5 DEF IsHeap, HeapUpTo, Heaped
  <2> QED BY <2>1, <2>5, <2>6, OuterHeap
<1>4. CASE heapsort_shrink
  <2>1. Outer(1, count - 1) /\ count - 1 \in Nat
    BY <1>4, SizeType DEF heapsort_shrink, TypeOK
  <2>2. HeapUpTo(1)'
    BY DEF HeapUpTo
  <2> QED BY <2>1, <2>2, OuterHeap
<1>5. CASE Finish
  <2>1. pc = "next" /\ pc' = "idle" /\ UNCHANGED <<ptr, given, fn>> /\ HeapUpTo(count)
    BY <1>5 DEF Finish, input, IsHeap
  <2>2. fn = "make_max_heap" => HeapUpTo(Size)
    BY <2>1 DEF WholeArray
  <2> QED BY <2>1, <2>2 DEF IsHeap, HeapUpTo, Heaped, Size
<1>6. CASE UNCHANGED vars
  BY <1>6 DEF vars, input, IsHeap, HeapUpTo, Heaped, Size
<1> QED BY <1>1, <1>2, <1>3, <1>4, <1>5, <1>6 DEF Next, Sorting

LEMMA InitHeap == Init => HeapInv
BY InitType DEF Init, HeapInv, IsHeap, WholeArray

LEMMA HeapInvariant == Spec => []HeapInv
<1>1. HeapInv /\ [Next]_vars => HeapInv'
  BY TypeStep, HeapStep, WholeStep DEF HeapInv
<1> QED BY <1>1, InitHeap, PTL DEF Spec

(* make_max_heap turns every array into a heap, no child larger than its   *)
(* parent, and heapify does so to every prefix for heapsort (heap.c:6-41). *)
THEOREM MakesHeap == Spec => []IsHeap
<1>1. HeapInv => IsHeap
  BY DEF HeapInv
<1> QED BY <1>1, HeapInvariant, PTL

-------------------------------------------------------------------------------
(* The root of a heap is its largest element: a least counterexample would *)
(* be below an element that is none.                                       *)
LEMMA RootLargest ==
  ASSUME TypeOK, HeapUpTo(count)
  PROVE  \A k \in 0 .. count - 1 : cmp(At(ptr, 0), At(ptr, k)) >= 0
<1> DEFINE Larger == {k \in 0 .. count - 1 : ~ (cmp(At(ptr, 0), At(ptr, k)) >= 0)}
<1>1. Size \in Nat /\ count \in 0 .. Size /\ ptr \in [1 .. Size -> Values]
  BY SizeType DEF TypeOK
<1>2. \A k \in 0 .. count - 1 : At(ptr, k) \in Values
  BY <1>1, AtType
<1> SUFFICES ASSUME Larger # {} PROVE FALSE
  OBVIOUS
<1>0. Larger \in SUBSET Nat
  BY <1>1
<1>3. PICK x \in Larger : \A y \in Larger : x <= y
  <2> HIDE DEF Larger
  <2> QED BY <1>0, LeastNatural
<1>4. x \in 0 .. count - 1 /\ ~ (cmp(At(ptr, 0), At(ptr, x)) >= 0)
  OBVIOUS
<1>5. x # 0
  BY <1>2, <1>4, NotSmaller, Swapped
<1>6. Above(x) \in 0 .. count - 1 /\ Above(x) < x /\ x \in 1 .. count - 1 /\ 0 \in 0 .. count - 1
  BY <1>1, <1>4, <1>5, AboveBefore
<1>7. cmp(At(ptr, 0), At(ptr, Above(x))) >= 0
  BY <1>3, <1>6
<1>8. cmp(At(ptr, Above(x)), At(ptr, x)) >= 0
  BY <1>6 DEF HeapUpTo, Heaped
<1> QED BY <1>2, <1>4, <1>6, <1>7, <1>8, Transitive

LEMMA SwapPermutes ==
  ASSUME TypeOK, IsPermutation, NEW m \in 0 .. Size - 1, NEW n \in 0 .. Size - 1,
         ptr' = Swap(ptr, m, n), given' = given
  PROVE  IsPermutation'
<1>1. Size \in Nat /\ Size' = Size /\ ptr \in [1 .. Size -> Values]
  BY SizeType DEF TypeOK, Size
<1>2. PICK f \in [1 .. Size -> 1 .. Size] :
        /\ \A j, k \in 1 .. Size : f[j] = f[k] => j = k
        /\ \A k \in 1 .. Size : ptr[k] = given[f[k]]
  BY DEF IsPermutation
<1> DEFINE g == [f EXCEPT ![m + 1] = f[n + 1], ![n + 1] = f[m + 1]]
<1>3. g \in [1 .. Size -> 1 .. Size]
  <2> m + 1 \in 1 .. Size /\ n + 1 \in 1 .. Size
    BY <1>1
  <2> f[m + 1] \in 1 .. Size /\ f[n + 1] \in 1 .. Size
    OBVIOUS
  <2> QED OBVIOUS
<1>4. \A k \in 1 .. Size : g[k] = IF k = n + 1 THEN f[m + 1]
                                ELSE IF k = m + 1 THEN f[n + 1] ELSE f[k]
  BY <1>1
<1> HIDE DEF g
<1>5. \A j, k \in 1 .. Size : g[j] = g[k] => j = k
  <2> m + 1 \in 1 .. Size /\ n + 1 \in 1 .. Size
    BY <1>1
  <2> QED BY <1>2, <1>4
<1>6. \A k \in 1 .. Size : ptr'[k] = IF k = m + 1 THEN ptr[n + 1]
                                  ELSE IF k = n + 1 THEN ptr[m + 1] ELSE ptr[k]
  BY <1>1 DEF Swap, At
<1>7. \A k \in 1 .. Size : ptr'[k] = given[g[k]]
  <2> m + 1 \in 1 .. Size /\ n + 1 \in 1 .. Size
    BY <1>1
  <2> QED BY <1>2, <1>4, <1>6
<1> QED BY <1>1, <1>3, <1>5, <1>7 DEF IsPermutation

(* A swap inside the prefix leaves the tail sorted and no smaller.         *)
LEMMA SwapTail ==
  ASSUME TypeOK, TailSorted, NEW m \in 0 .. count - 1, NEW n \in 0 .. count - 1,
         ptr' = Swap(ptr, m, n)
  PROVE  \A j, k \in 0 .. Size - 1 : j < k /\ k >= count => cmp(At(ptr', j), At(ptr', k)) <= 0
<1>1. Size \in Nat /\ count \in 0 .. Size /\ ptr \in [1 .. Size -> Values]
  BY SizeType DEF TypeOK
<1>2. \A k \in 0 .. Size - 1 : At(ptr', k) = IF k = m THEN At(ptr, n)
                                          ELSE IF k = n THEN At(ptr, m) ELSE At(ptr, k)
  BY <1>1, SwapAt
<1> TAKE j, k \in 0 .. Size - 1
<1> HAVE j < k /\ k >= count
<1>3. At(ptr', k) = At(ptr, k)
  BY <1>1, <1>2
<1>4. PICK l \in 0 .. Size - 1 : l < k /\ At(ptr', j) = At(ptr, l)
  BY <1>1, <1>2
<1> QED BY <1>1, <1>3, <1>4 DEF TailSorted

LEMMA PermutationStep == TypeOK /\ IsPermutation /\ [Next]_vars => IsPermutation'
<1> SUFFICES ASSUME TypeOK, IsPermutation, [Next]_vars PROVE IsPermutation'
  OBVIOUS
<1>0. Size \in Nat
  BY SizeType
<1>1. CASE Start
  <2>1. PICK n \in 0 .. MaxCount : \E a \in [1 .. n -> Values] : ptr' = a /\ given' = a
    BY <1>1 DEF Start
  <2>2. n \in Nat /\ Size' = n /\ ptr' = given'
    BY <2>1, MaxCountAssumption DEF Size
  <2> DEFINE f == [k \in 1 .. n |-> k]
  <2>3. /\ f \in [1 .. n -> 1 .. n] /\ \A j, k \in 1 .. n : f[j] = f[k] => j = k
        /\ \A k \in 1 .. n : ptr'[k] = given'[f[k]]
    BY <2>2
  <2> HIDE DEF f
  <2> QED BY <2>2, <2>3 DEF IsPermutation
<1>2. CASE heapify_swap
  <2>1. /\ ptr' = Swap(ptr, parent, child) /\ given' = given
        /\ child \in 1 .. i /\ i < count /\ parent = plevel(child)
        /\ i \in Nat /\ count \in 0 .. Size
    BY <1>2 DEF heapify_swap, input, TypeOK
  <2>2. parent \in 0 .. Size - 1 /\ child \in 0 .. Size - 1
    BY <1>0, <2>1, LevelAbove
  <2> QED BY <2>1, <2>2, SwapPermutes
<1>3. CASE heapsort_shrink
  <2>1. ptr' = Swap(ptr, 0, count - 1) /\ given' = given /\ count \in 1 .. Size
    BY <1>0, <1>3 DEF heapsort_shrink, input, TypeOK
  <2>2. 0 \in 0 .. Size - 1 /\ count - 1 \in 0 .. Size - 1
    BY <1>0, <2>1
  <2> QED BY <2>1, <2>2, SwapPermutes
<1>4. CASE UNCHANGED <<ptr, given>>
  BY <1>4 DEF IsPermutation, Size
<1> QED BY <1>1, <1>2, <1>3, <1>4 DEF Next, Sorting, heapify_next, Finish, vars, input

LEMMA TailStep ==
  HeapInv /\ (fn = "heapsort" => TailSorted) /\ [Next]_vars => (fn = "heapsort" => TailSorted)'
<1> SUFFICES ASSUME TypeOK, IsHeap, fn = "heapsort" => TailSorted, [Next]_vars, fn' = "heapsort"
             PROVE  TailSorted'
  BY DEF HeapInv
<1>0. Size \in Nat /\ count \in 0 .. Size /\ ptr \in [1 .. Size -> Values]
  BY SizeType DEF TypeOK
<1>1. CASE Start
  <2>1. PICK n \in 0 .. MaxCount :
          Outer(1, n) /\ \E a \in [1 .. n -> Values] : ptr' = a /\ given' = a
    BY <1>1 DEF Start
  <2>2. n \in Nat /\ Size' = n /\ count' = n
    BY <2>1, MaxCountAssumption DEF Size, Outer
  <2> QED BY <2>2 DEF TailSorted
<1>2. CASE heapify_swap
  <2>1. /\ ptr' = Swap(ptr, parent, child) /\ Size' = Size /\ count' = count /\ fn' = fn
        /\ child \in 1 .. i /\ i < count /\ parent = plevel(child) /\ i \in Nat
    BY <1>2 DEF heapify_swap, Outer, input, TypeOK, Size
  <2>2. parent \in 0 .. count - 1 /\ child \in 0 .. count - 1
    BY <1>0, <2>1, LevelAbove
  <2> QED BY <2>1, <2>2, SwapTail DEF TailSorted
<1>3. CASE heapify_next
  BY <1>3 DEF heapify_next, Outer, input, TailSorted, Size
<1>4. CASE heapsort_shrink
  <2>1. /\ ptr' = Swap(ptr, 0, count - 1) /\ Size' = Size /\ count' = count - 1
        /\ fn = "heapsort" /\ count \in 1 .. Size /\ pc = "next"
    BY <1>0, <1>4 DEF heapsort_shrink, Outer, input, Size
  <2>2. 0 \in 0 .. count - 1 /\ count - 1 \in 0 .. count - 1 /\ 0 \in 0 .. Size - 1
        /\ count - 1 \in 0 .. Size - 1
    BY <1>0, <2>1
  <2>3. \A j, k \in 0 .. Size - 1 : j < k /\ k >= count => cmp(At(ptr', j), At(ptr', k)) <= 0
    BY <2>1, <2>2, SwapTail
  <2>4. \A k \in 0 .. count - 1 : cmp(At(ptr, 0), At(ptr, k)) >= 0
    BY <2>1, RootLargest DEF IsHeap
  <2>5. \A k \in 0 .. Size - 1 :
          /\ At(ptr, k) \in Values
          /\ At(ptr', k) = IF k = 0 THEN At(ptr, count - 1)
                           ELSE IF k = count - 1 THEN At(ptr, 0) ELSE At(ptr, k)
    BY <1>0, <2>1, <2>2, SwapAt, AtType
  <2>6. ASSUME NEW j \in 0 .. Size - 1, j < count - 1
        PROVE  cmp(At(ptr', j), At(ptr', count - 1)) <= 0
    <3>1. At(ptr', count - 1) = At(ptr, 0)
      BY <2>1, <2>2, <2>5
    <3>2. PICK l \in 0 .. count - 1 : At(ptr', j) = At(ptr, l)
      BY <2>1, <2>2, <2>5, <2>6
    <3>3. At(ptr, l) \in Values /\ At(ptr, 0) \in Values /\ cmp(At(ptr, 0), At(ptr, l)) >= 0
      BY <1>0, <2>1, <2>2, <2>4, <2>5
    <3> QED BY <3>1, <3>2, <3>3, CmpAssumption
  <2> QED BY <1>0, <2>1, <2>3, <2>6 DEF TailSorted
<1>5. CASE Finish
  BY <1>5 DEF Finish, input, TailSorted, Size
<1>6. CASE UNCHANGED vars
  BY <1>6 DEF vars, input, TailSorted, Size
<1> QED BY <1>1, <1>2, <1>3, <1>4, <1>5, <1>6 DEF Next, Sorting

LEMMA InitSorts == Init => Sorts
<1> SUFFICES ASSUME Init PROVE Sorts
  OBVIOUS
<1>1. Size = 0 /\ fn = "none"
  BY DEF Init, Size
<1>2. <<>> \in [1 .. 0 -> 1 .. 0] /\ 1 .. 0 = {}
  OBVIOUS
<1> QED BY <1>1, <1>2 DEF Sorts, IsPermutation

(* heapsort sorts: the array always holds what was passed, and what is     *)
(* past the prefix is in order and no smaller than the prefix, which is    *)
(* empty in the end (heap.c:68-79).                                        *)
THEOREM HeapsortSorts == Spec => []Sorts
<1>1. HeapInv /\ Sorts /\ [Next]_vars => Sorts'
  BY PermutationStep, TailStep DEF HeapInv, Sorts
<1> QED BY <1>1, InitSorts, HeapInvariant, PTL DEF Spec

=================================================================================
