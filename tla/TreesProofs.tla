------------------------------ MODULE TreesProofs ------------------------------
(***************************************************************************)
(* Theorems about the four tree containers, for all keys, values and       *)
(* growth macros.                                                          *)
(***************************************************************************)
EXTENDS Trees, FiniteSetTheorems, SequenceTheorems, WellFoundedInduction, TLAPS

LEMMA LeastNatural ==
  ASSUME NEW T \in SUBSET Nat, T # {}
  PROVE  \E x \in T : \A y \in T : x <= y
<1> DEFINE Less == OpToRel(<, Nat)
<1>1. IsWellFoundedOn(Less, Nat)
  BY NatLessThanWellFounded
<1>2. \A x, y \in Nat : <<x, y>> \in Less <=> x < y
  BY DEF OpToRel
<1> HIDE DEF Less
<1>3. PICK x \in T : \A y \in T : ~ (<<y, x>> \in Less)
  BY <1>1, WFMin
<1>4. ASSUME NEW y \in T PROVE x <= y
  <2>1. ~ (y < x)
    BY <1>2, <1>3
  <2> QED BY <2>1
<1> QED BY <1>4

-------------------------------------------------------------------------------
(* How many values the nodes of a finite set hold.                         *)
Held(ns, n) == Len(ns[n].vals)
Pick(s) == CHOOSE x \in s : TRUE
IsSum(f, ns, S) ==
  f = [s \in SUBSET S |-> IF s = {} THEN 0 ELSE Held(ns, Pick(s)) + f[s \ {Pick(s)}]]
Sum(ns, S) == (CHOOSE f : IsSum(f, ns, S))[S]

LEMMA SumIs ==
  ASSUME NEW ns, NEW S
  PROVE  MapThenSumSet(LAMBDA n : Len(ns[n].vals), S) = Sum(ns, S)
BY DEF MapThenSumSet, MapThenFoldSet, Sum, IsSum, Pick, Held

LEMMA PickIn == \A s : s # {} => Pick(s) \in s
BY DEF Pick

Unfolds(f, ns, s) == f[s] = IF s = {} THEN 0 ELSE Held(ns, Pick(s)) + f[s \ {Pick(s)}]

LEMMA SumStep == \A f, ns, S : IsSum(f, ns, S) => \A s : s \subseteq S => Unfolds(f, ns, s)
<1> SUFFICES ASSUME NEW f, NEW ns, NEW S, IsSum(f, ns, S), NEW s, s \subseteq S
             PROVE  Unfolds(f, ns, s)
  OBVIOUS
<1> DEFINE F == [t \in SUBSET S |-> IF t = {} THEN 0 ELSE Held(ns, Pick(t)) + f[t \ {Pick(t)}]]
<1>1. f = F
  BY DEF IsSum
<1>2. F[s] = IF s = {} THEN 0 ELSE Held(ns, Pick(s)) + f[s \ {Pick(s)}]
  OBVIOUS
<1> HIDE DEF F
<1> QED BY <1>1, <1>2 DEF Unfolds

(* Two sums agree where both are defined: a smallest set on which they do  *)
(* not would have a smaller one.                                           *)
LEMMA SumsAgree ==
  ASSUME NEW ns, NEW S, NEW T, IsFiniteSet(S), NEW f, NEW g, IsSum(f, ns, S), IsSum(g, ns, T)
  PROVE  \A s \in SUBSET (S \cap T) : f[s] = g[s]
<1> SUFFICES ASSUME NEW s \in SUBSET (S \cap T), f[s] # g[s] PROVE FALSE
  OBVIOUS
<1> DEFINE Sizes == {n \in Nat : \E t \in SUBSET (S \cap T) : Cardinality(t) = n /\ f[t] # g[t]}
<1>1. Cardinality(s) \in Sizes
  BY FS_Subset, FS_CardinalityType
<1>2. PICK n \in Sizes : \A m \in Sizes : n <= m
  BY <1>1, LeastNatural
<1>3. PICK t \in SUBSET (S \cap T) : Cardinality(t) = n /\ f[t] # g[t]
  OBVIOUS
<1>4. Unfolds(f, ns, t) /\ Unfolds(g, ns, t)
  <2>1. t \subseteq S /\ t \subseteq T
    OBVIOUS
  <2> HIDE DEF Sizes
  <2> QED BY <2>1, SumStep
<1>5. t # {} /\ f[t \ {Pick(t)}] # g[t \ {Pick(t)}]
  BY <1>3, <1>4 DEF Unfolds
<1>6. IsFiniteSet(t) /\ Pick(t) \in t
  BY <1>5, FS_Subset, PickIn
<1>7. Cardinality(t \ {Pick(t)}) = n - 1 /\ Cardinality(t \ {Pick(t)}) \in Nat
  BY <1>3, <1>6, FS_RemoveElement, FS_CardinalityType
<1>8. n - 1 \in Sizes
  BY <1>5, <1>7
<1> QED BY <1>2, <1>8

LEMMA SumExists ==
  ASSUME NEW ns, NEW S, IsFiniteSet(S)
  PROVE  IsSum(CHOOSE f : IsSum(f, ns, S), ns, S)
<1> DEFINE Sizes == {n \in Nat : \E T \in SUBSET S : Cardinality(T) = n /\ ~ \E f : IsSum(f, ns, T)}
<1> SUFFICES Sizes = {}
  <2>1. Cardinality(S) \in Nat
    BY FS_CardinalityType
  <2> QED BY <2>1
<1> SUFFICES ASSUME Sizes # {} PROVE FALSE
  OBVIOUS
<1>1. PICK n \in Sizes : \A m \in Sizes : n <= m
  BY LeastNatural
<1>2. PICK T \in SUBSET S : Cardinality(T) = n /\ ~ \E f : IsSum(f, ns, T)
  OBVIOUS
<1> DEFINE g(U) == CHOOSE f : IsSum(f, ns, U)
<1>3. ASSUME NEW U \in SUBSET T, U # T PROVE IsSum(g(U), ns, U) /\ IsFiniteSet(U)
  <2>1. IsFiniteSet(T) /\ IsFiniteSet(U)
    BY FS_Subset
  <2>2. Cardinality(U) \in Nat /\ Cardinality(U) < n
    BY <1>2, <1>3, <2>1, FS_CardinalityType, FS_Subset
  <2>3. Cardinality(U) \notin Sizes
    BY <1>1, <2>2
  <2> QED BY <2>1, <2>2, <2>3
<1> HIDE DEF g
<1> DEFINE h == [s \in SUBSET T |-> IF s = {} THEN 0
                                    ELSE Held(ns, Pick(s)) + g(s \ {Pick(s)})[s \ {Pick(s)}]]
<1>4. ASSUME NEW U \in SUBSET T, U # T PROVE h[U] = g(U)[U]
  <2>1. g(U)[U] = IF U = {} THEN 0 ELSE Held(ns, Pick(U)) + g(U)[U \ {Pick(U)}]
    BY <1>3, <1>4, SumStep DEF Unfolds
  <2>2. CASE U # {}
    <3> DEFINE V == U \ {Pick(U)}
    <3>1. V \in SUBSET T /\ V # T /\ V \in SUBSET U
      BY <1>4, <2>2, PickIn
    <3>2. g(U)[V] = g(V)[V]
      BY <1>3, <1>4, <3>1, SumsAgree
    <3> QED BY <2>1, <2>2, <3>2
  <2> QED BY <2>1, <2>2
<1>5. h = [s \in SUBSET T |-> IF s = {} THEN 0 ELSE Held(ns, Pick(s)) + h[s \ {Pick(s)}]]
  <2>1. ASSUME NEW s \in SUBSET T, s # {}
        PROVE  h[s \ {Pick(s)}] = g(s \ {Pick(s)})[s \ {Pick(s)}]
    <3> DEFINE U == s \ {Pick(s)}
    <3>1. U \in SUBSET T /\ U # T
      BY <2>1, PickIn
    <3> HIDE DEF U, h
    <3>2. \A V \in SUBSET T : V # T => h[V] = g(V)[V]
      BY <1>4 DEF h
    <3>3. h[U] = g(U)[U]
      BY <3>1, <3>2
    <3> QED BY <3>3 DEF U
  <2> QED BY <2>1
<1> QED BY <1>2, <1>5 DEF IsSum

LEMMA SumUnfolds ==
  ASSUME NEW ns, NEW S, IsFiniteSet(S)
  PROVE  Sum(ns, S) = IF S = {} THEN 0 ELSE Held(ns, Pick(S)) + Sum(ns, S \ {Pick(S)})
<1> DEFINE g(U) == CHOOSE f : IsSum(f, ns, U)
<1>1. g(S)[S] = IF S = {} THEN 0 ELSE Held(ns, Pick(S)) + g(S)[S \ {Pick(S)}]
  BY SumExists, SumStep DEF Unfolds
<1>2. CASE S # {}
  <2> DEFINE U == S \ {Pick(S)}
  <2>1. IsSum(g(S), ns, S) /\ IsSum(g(U), ns, U)
    BY SumExists, FS_Subset
  <2>2. U \in SUBSET (S \cap U)
    OBVIOUS
  <2>3. g(S)[U] = g(U)[U]
    BY <2>1, <2>2, SumsAgree
  <2> QED BY <1>1, <1>2, <2>3 DEF Sum
<1> QED BY <1>1, <1>2 DEF Sum

LEMMA SumEmpty == \A ns : Sum(ns, {}) = 0
BY SumUnfolds, FS_EmptySet

(* Facts about the sums over finite sets, by a smallest set that fails.    *)
LEMMA SumType ==
  ASSUME NEW ns, NEW S, IsFiniteSet(S), \A n \in S : Held(ns, n) \in Nat
  PROVE  Sum(ns, S) \in Nat
<1> SUFFICES ASSUME Sum(ns, S) \notin Nat PROVE FALSE
  OBVIOUS
<1> DEFINE Sizes == {n \in Nat : \E s \in SUBSET S : Cardinality(s) = n /\ Sum(ns, s) \notin Nat}
<1>1. Cardinality(S) \in Sizes
  BY FS_CardinalityType
<1>2. PICK n \in Sizes : \A m \in Sizes : n <= m
  BY <1>1, LeastNatural
<1>3. PICK s \in SUBSET S : Cardinality(s) = n /\ Sum(ns, s) \notin Nat
  OBVIOUS
<1>4. IsFiniteSet(s) /\ s # {} /\ Pick(s) \in s
  <2>1. IsFiniteSet(s)
    BY FS_Subset
  <2>2. s # {}
    BY <1>3, SumEmpty
  <2> QED BY <2>1, <2>2, PickIn
<1>5. Sum(ns, s) = Held(ns, Pick(s)) + Sum(ns, s \ {Pick(s)})
  BY <1>4, SumUnfolds
<1>6. Cardinality(s \ {Pick(s)}) = n - 1 /\ Cardinality(s \ {Pick(s)}) \in Nat
  BY <1>3, <1>4, FS_RemoveElement, FS_CardinalityType
<1>7. Sum(ns, s \ {Pick(s)}) \notin Nat
  BY <1>3, <1>4, <1>5
<1>8. n - 1 \in Sizes
  BY <1>6, <1>7
<1> QED BY <1>2, <1>8

LEMMA SumSame ==
  ASSUME NEW ns, NEW ms, NEW S, IsFiniteSet(S), \A n \in S : Held(ns, n) = Held(ms, n)
  PROVE  Sum(ns, S) = Sum(ms, S)
<1> SUFFICES ASSUME Sum(ns, S) # Sum(ms, S) PROVE FALSE
  OBVIOUS
<1> DEFINE Sizes == {n \in Nat : \E s \in SUBSET S : Cardinality(s) = n /\ Sum(ns, s) # Sum(ms, s)}
<1>1. Cardinality(S) \in Sizes
  BY FS_CardinalityType
<1>2. PICK n \in Sizes : \A m \in Sizes : n <= m
  BY <1>1, LeastNatural
<1>3. PICK s \in SUBSET S : Cardinality(s) = n /\ Sum(ns, s) # Sum(ms, s)
  OBVIOUS
<1>4. IsFiniteSet(s) /\ s # {} /\ Pick(s) \in s
  <2>1. Sum(ns, {}) = 0 /\ Sum(ms, {}) = 0
    BY SumEmpty
  <2>2. s # {}
    BY <1>3, <2>1
  <2>3. IsFiniteSet(s)
    BY FS_Subset
  <2> QED BY <2>2, <2>3, PickIn
<1>5. /\ Sum(ns, s) = Held(ns, Pick(s)) + Sum(ns, s \ {Pick(s)})
      /\ Sum(ms, s) = Held(ms, Pick(s)) + Sum(ms, s \ {Pick(s)})
  BY <1>4, SumUnfolds
<1>6. Cardinality(s \ {Pick(s)}) = n - 1 /\ Cardinality(s \ {Pick(s)}) \in Nat
  BY <1>3, <1>4, FS_RemoveElement, FS_CardinalityType
<1>7. Sum(ns, s \ {Pick(s)}) # Sum(ms, s \ {Pick(s)})
  BY <1>3, <1>4, <1>5
<1>8. n - 1 \in Sizes
  BY <1>6, <1>7
<1> QED BY <1>2, <1>8

(* Whichever node is taken out, the sum is short of what it holds.         *)
LEMMA SumWithout ==
  ASSUME NEW ns, NEW S, IsFiniteSet(S), \A n \in S : Held(ns, n) \in Nat, NEW x \in S
  PROVE  Sum(ns, S) = Held(ns, x) + Sum(ns, S \ {x})
<1> SUFFICES ASSUME Sum(ns, S) # Held(ns, x) + Sum(ns, S \ {x}) PROVE FALSE
  OBVIOUS
<1> DEFINE Wrong(s, y) == y \in s /\ Sum(ns, s) # Held(ns, y) + Sum(ns, s \ {y})
           Sizes == {n \in Nat : \E s \in SUBSET S : Cardinality(s) = n /\ \E y : Wrong(s, y)}
<1>1. Cardinality(S) \in Sizes
  BY FS_CardinalityType
<1>2. PICK n \in Sizes : \A m \in Sizes : n <= m
  BY <1>1, LeastNatural
<1>3. PICK s \in SUBSET S : Cardinality(s) = n /\ \E y : Wrong(s, y)
  OBVIOUS
<1>4. PICK y : Wrong(s, y)
  BY <1>3
<1> DEFINE p == Pick(s)
<1>5. IsFiniteSet(s) /\ p \in s /\ y \in s
  BY <1>4, FS_Subset, PickIn
<1>6. Sum(ns, s) = Held(ns, p) + Sum(ns, s \ {p})
  BY <1>5, SumUnfolds
<1> HIDE DEF p
<1>7. p # y
  BY <1>4, <1>6
<1>8. ASSUME NEW z \in s, NEW u \in s \ {z}
      PROVE  Sum(ns, s \ {z}) = Held(ns, u) + Sum(ns, s \ {z, u})
  <2>1. Cardinality(s \ {z}) = n - 1 /\ Cardinality(s \ {z}) \in Nat
    BY <1>3, <1>5, FS_RemoveElement, FS_CardinalityType
  <2>2. s \ {z} \in SUBSET S /\ n - 1 \notin Sizes
    BY <1>2, <2>1
  <2>3. ~ Wrong(s \ {z}, u)
    <3> HIDE DEF Wrong
    <3> QED BY <2>1, <2>2
  <2>4. (s \ {z}) \ {u} = s \ {z, u}
    OBVIOUS
  <2>5. Sum(ns, s \ {z}) = Held(ns, u) + Sum(ns, (s \ {z}) \ {u})
    BY <2>3
  <2> QED BY <2>4, <2>5
<1> HIDE DEF Wrong, Sizes
<1> DEFINE U == s \ {p, y}
<1>9. Sum(ns, s \ {p}) = Held(ns, y) + Sum(ns, U)
  BY <1>5, <1>7, <1>8
<1>10. Sum(ns, s \ {y}) = Held(ns, p) + Sum(ns, U)
  <2>1. Sum(ns, s \ {y}) = Held(ns, p) + Sum(ns, s \ {y, p})
    BY <1>5, <1>7, <1>8
  <2>2. s \ {y, p} = U
    OBVIOUS
  <2> QED BY <2>1, <2>2
<1>11. Sum(ns, U) \in Nat /\ Held(ns, p) \in Nat /\ Held(ns, y) \in Nat
  <2>1. IsFiniteSet(U)
    BY <1>5, FS_Subset
  <2> QED BY <1>5, <2>1, SumType
<1> HIDE DEF U
<1>12. Sum(ns, s) = Held(ns, y) + Sum(ns, s \ {y})
  BY <1>6, <1>9, <1>10, <1>11
<1> QED BY <1>4, <1>12 DEF Wrong

LEMMA SumAtLeast ==
  ASSUME NEW ns, NEW S, IsFiniteSet(S), \A n \in S : Held(ns, n) \in Nat, NEW x \in S
  PROVE  Held(ns, x) <= Sum(ns, S)
<1>1. Sum(ns, S \ {x}) \in Nat
  BY SumType, FS_Subset
<1> QED BY <1>1, SumWithout

-------------------------------------------------------------------------------
(* Nodes and what is below them.                                           *)
Sides == {"lhs", "rhs"}
Node(D) == [key : Int, vals : Seq(Vals \cup {NULL}), cap : Nat, lhs : D \cup {NULL}, rhs : D \cup {NULL}]
Forest(ns) == ns \in [DOMAIN ns -> Node(DOMAIN ns)] /\ NULL \notin DOMAIN ns

LEMMA KidsAre ==
  ASSUME NEW ns, Forest(ns), NEW m \in DOMAIN ns
  PROVE  /\ \A s \in Sides : ns[m][s] \in DOMAIN ns \cup {NULL}
         /\ ns[m].lhs \in DOMAIN ns \cup {NULL} /\ ns[m].rhs \in DOMAIN ns \cup {NULL}
         /\ ns[m].key \in Int
BY DEF Forest, Node, Sides

LEMMA ClosedSides ==
  ASSUME NEW ns, NEW S
  PROVE  Closed(ns, S) <=> \A m \in S, s \in Sides : ns[m][s] \in S \cup {NULL}
BY DEF Closed, Sides

LEMMA BelowNull == \A ns : Below(ns, NULL) = {}
BY DEF Below

LEMMA BelowIs ==
  ASSUME NEW ns, Forest(ns), NEW n \in DOMAIN ns
  PROVE  /\ Below(ns, n) \subseteq DOMAIN ns /\ n \in Below(ns, n)
         /\ Closed(ns, Below(ns, n))
         /\ \A S \in SUBSET DOMAIN ns : n \in S /\ Closed(ns, S) => Below(ns, n) \subseteq S
<1>1. Below(ns, n) = {m \in DOMAIN ns : \A S \in SUBSET DOMAIN ns : n \in S /\ Closed(ns, S) => m \in S}
  BY DEF Below, Forest
<1>2. ASSUME NEW m \in Below(ns, n), NEW s \in Sides PROVE ns[m][s] \in Below(ns, n) \cup {NULL}
  <2>1. m \in DOMAIN ns /\ ns[m][s] \in DOMAIN ns \cup {NULL}
    BY <1>1, KidsAre
  <2>2. ASSUME NEW S \in SUBSET DOMAIN ns, n \in S, Closed(ns, S) PROVE ns[m][s] \in S \cup {NULL}
    BY <1>1, <2>2, ClosedSides
  <2> QED BY <1>1, <2>1, <2>2
<1>3. Closed(ns, Below(ns, n))
  BY <1>2, ClosedSides
<1> QED BY <1>1, <1>3

LEMMA BelowIn ==
  ASSUME NEW ns, Forest(ns), NEW n \in DOMAIN ns \cup {NULL}, NEW m \in Below(ns, n)
  PROVE  Below(ns, m) \subseteq Below(ns, n)
BY BelowIs, BelowNull

LEMMA KidsBelow ==
  ASSUME NEW ns, Forest(ns), NEW n \in DOMAIN ns \cup {NULL}, NEW m \in Below(ns, n), NEW s \in Sides
  PROVE  /\ m \in DOMAIN ns /\ ns[m][s] \in Below(ns, n) \cup {NULL}
         /\ Below(ns, ns[m][s]) \subseteq Below(ns, n)
<1>1. m \in DOMAIN ns /\ ns[m][s] \in Below(ns, n) \cup {NULL}
  BY BelowIs, BelowNull, ClosedSides
<1> QED BY <1>1, BelowIn, BelowNull

LEMMA BelowStep ==
  ASSUME NEW ns, Forest(ns), NEW n \in DOMAIN ns
  PROVE  Below(ns, n) = {n} \cup Below(ns, ns[n].lhs) \cup Below(ns, ns[n].rhs)
<1> DEFINE l == ns[n].lhs
           h == ns[n].rhs
           S == {n} \cup Below(ns, l) \cup Below(ns, h)
<1>1. l \in DOMAIN ns \cup {NULL} /\ h \in DOMAIN ns \cup {NULL}
  BY KidsAre
<1>2. l = ns[n]["lhs"] /\ h = ns[n]["rhs"] /\ "lhs" \in Sides /\ "rhs" \in Sides
  BY DEF Sides
<1>3. S \subseteq Below(ns, n)
  BY <1>2, BelowIs, KidsBelow
<1>4. ASSUME NEW m \in S, NEW s \in Sides PROVE ns[m][s] \in S \cup {NULL}
  <2>1. CASE m = n
    <3>1. ns[n][s] = l \/ ns[n][s] = h
      BY DEF Sides
    <3>2. l \in Below(ns, l) \cup {NULL} /\ h \in Below(ns, h) \cup {NULL}
      BY <1>1, BelowIs
    <3> QED BY <2>1, <3>1, <3>2
  <2>2. CASE m \in Below(ns, l)
    BY <1>1, <2>2, KidsBelow
  <2>3. CASE m \in Below(ns, h)
    BY <1>1, <2>3, KidsBelow
  <2> QED BY <2>1, <2>2, <2>3
<1>5. Closed(ns, S)
  BY <1>4, ClosedSides
<1>6. S \in SUBSET DOMAIN ns
  BY <1>3, BelowIs
<1>7. Below(ns, n) \subseteq S
  BY <1>5, <1>6, BelowIs
<1> QED BY <1>3, <1>7

(* What is below n, but n itself, hangs from something below n.            *)
LEMMA HangsBelow ==
  ASSUME NEW ns, Forest(ns), NEW n \in DOMAIN ns, NEW k \in Below(ns, n), k # n
  PROVE  \E m \in Below(ns, n), s \in Sides : ns[m][s] = k
<1> SUFFICES ASSUME \A m \in Below(ns, n), s \in Sides : ns[m][s] # k PROVE FALSE
  OBVIOUS
<1> DEFINE S == Below(ns, n) \ {k}
<1>1. \A m \in S, s \in Sides : ns[m][s] \in S \cup {NULL}
  BY KidsBelow
<1>2. Closed(ns, S) /\ S \in SUBSET DOMAIN ns /\ n \in S
  BY <1>1, ClosedSides, BelowIs
<1> QED BY <1>2, BelowIs

(* Two things a node without children has: nothing below it, and nothing   *)
(* is freed with it.                                                       *)
LEMMA BelowLeaf ==
  ASSUME NEW ns, NEW n \in DOMAIN ns, n # NULL, ns[n].lhs = NULL, ns[n].rhs = NULL
  PROVE  Below(ns, n) = {n}
<1>1. Closed(ns, {n}) /\ {n} \in SUBSET DOMAIN ns
  BY DEF Closed
<1> QED BY <1>1 DEF Below

-------------------------------------------------------------------------------
(* The shape of a tree: every node hangs by one pointer, and any set of    *)
(* nodes that has the root and what hangs from its members has them all.   *)
LinksOf(ns) == {RootLink} \cup [at : DOMAIN ns, side : Sides]
Follow(ns, r, l) == IF l.at = NULL THEN r ELSE ns[l.at][l.side]

Tree(ns, r) ==
  /\ Forest(ns) /\ IsFiniteSet(DOMAIN ns) /\ r \in DOMAIN ns \cup {NULL}
  /\ \A m \in DOMAIN ns, s \in Sides : ns[m][s] # NULL => ns[m][s] # r
  /\ \A m, n \in DOMAIN ns, s, t \in Sides : ns[m][s] # NULL /\ ns[m][s] = ns[n][t] => m = n /\ s = t
  /\ \A S \in SUBSET DOMAIN ns : r \in S \cup {NULL} /\ Closed(ns, S) => S = DOMAIN ns

Sorted(ns) ==
  \A n \in DOMAIN ns : /\ \A m \in Below(ns, ns[n].lhs) : ns[m].key < ns[n].key
                       /\ \A m \in Below(ns, ns[n].rhs) : ns[m].key > ns[n].key

(* Link l is in n's subtree s.                                             *)
Lies(ns, l, n, s) == (l.at = n /\ l.side = s) \/ l.at \in Below(ns, ns[n][s])

LEMMA LinkIs ==
  ASSUME NEW ns, NEW r, Tree(ns, r), NEW l \in LinksOf(ns)
  PROVE  /\ l.at = NULL => l = RootLink
         /\ l.at # NULL => l.at \in DOMAIN ns /\ l.side \in Sides
         /\ Follow(ns, r, l) \in DOMAIN ns \cup {NULL}
<1>1. l.at = NULL => l = RootLink
  BY DEF LinksOf, Tree, Forest
<1>2. l.at # NULL => l.at \in DOMAIN ns /\ l.side \in Sides
  BY DEF LinksOf, RootLink
<1>3. Forest(ns) /\ r \in DOMAIN ns \cup {NULL}
  BY DEF Tree
<1> QED BY <1>1, <1>2, <1>3, KidsAre DEF Follow

LEMMA OneLink ==
  ASSUME NEW ns, NEW r, Tree(ns, r), NEW l \in LinksOf(ns), Follow(ns, r, l) # NULL,
         NEW m \in DOMAIN ns, NEW s \in Sides, ns[m][s] = Follow(ns, r, l)
  PROVE  l.at = m /\ l.side = s
BY LinkIs DEF Tree, Follow

LEMMA LiesAbove ==
  ASSUME NEW ns, NEW r, Tree(ns, r), NEW l \in LinksOf(ns),
         NEW k \in DOMAIN ns, Follow(ns, r, l) = k,
         NEW n \in DOMAIN ns, NEW s \in Sides, k \in Below(ns, ns[n][s])
  PROVE  Lies(ns, l, n, s)
<1> DEFINE x == ns[n][s]
<1>1. Forest(ns) /\ NULL \notin DOMAIN ns
  BY DEF Tree, Forest
<1>2. x \in DOMAIN ns
  BY <1>1, KidsAre, BelowNull
<1>3. CASE k = x
  BY <1>1, <1>3, OneLink DEF Lies
<1>4. CASE k # x
  <2>1. PICK m \in Below(ns, x), t \in Sides : ns[m][t] = k
    BY <1>1, <1>2, <1>4, HangsBelow
  <2>2. m \in DOMAIN ns
    BY <1>1, <1>2, BelowIs
  <2>3. l.at = m
    BY <1>1, <2>1, <2>2, OneLink
  <2> QED BY <2>1, <2>3 DEF Lies
<1> QED BY <1>3, <1>4

LEMMA NotBelowItself ==
  ASSUME NEW ns, Forest(ns), Sorted(ns), NEW n \in DOMAIN ns, NEW s \in Sides
  PROVE  n \notin Below(ns, ns[n][s])
<1>1. ns[n].key \in Int
  BY KidsAre
<1> QED BY <1>1 DEF Sorted, Sides

(* Two nodes below different sides of a third are not below each other.    *)
LEMMA SidesApart ==
  ASSUME NEW ns, Forest(ns), Sorted(ns), NEW n \in DOMAIN ns
  PROVE  Below(ns, ns[n].lhs) \cap Below(ns, ns[n].rhs) = {}
<1>1. ASSUME NEW m \in Below(ns, ns[n].lhs), m \in Below(ns, ns[n].rhs) PROVE FALSE
  <2>1. ns[n].lhs \in DOMAIN ns \cup {NULL}
    BY KidsAre
  <2>2. m \in DOMAIN ns
    BY <2>1, BelowIs, BelowNull
  <2> QED BY <1>1, <2>2, KidsAre DEF Sorted
<1> QED BY <1>1

LEMMA TreeIsTree ==
  ASSUME Tree(nodes, root)
  PROVE  IsTree
<1>1. /\ Forest(nodes) /\ NULL \notin DOMAIN nodes /\ root \in DOMAIN nodes \cup {NULL}
      /\ IsFiniteSet(DOMAIN nodes)
  BY DEF Tree, Forest
<1>2. Below(nodes, root) = DOMAIN nodes
  <2>1. CASE root = NULL
    <3>1. Closed(nodes, {})
      BY DEF Closed
    <3> QED BY <2>1, <3>1, BelowNull DEF Tree
  <2>2. CASE root # NULL
    BY <1>1, <2>2, BelowIs DEF Tree
  <2> QED BY <2>1, <2>2
<1>3. ASSUME NEW n \in DOMAIN nodes PROVE Cardinality({l \in Links : Deref(l) = n}) = 1
  <2> DEFINE To == {l \in LinksOf(nodes) : Follow(nodes, root, l) = n}
  <2>1. {l \in Links : Deref(l) = n} = To
    BY DEF Links, LinksOf, Deref, Follow, Sides
  <2>2. \E l \in LinksOf(nodes) : Follow(nodes, root, l) = n
    <3>1. CASE root = n
      <4>1. RootLink \in LinksOf(nodes) /\ RootLink.at = NULL
        BY DEF LinksOf, RootLink
      <4> QED BY <3>1, <4>1 DEF Follow
    <3>2. CASE root # n
      <4>1. ~ Closed(nodes, DOMAIN nodes \ {n})
        BY <1>1, <3>2 DEF Tree
      <4>2. PICK m \in DOMAIN nodes \ {n}, s \in Sides : nodes[m][s] \notin (DOMAIN nodes \ {n}) \cup {NULL}
        BY <4>1, ClosedSides
      <4>3. nodes[m][s] = n
        BY <1>1, <4>2, KidsAre
      <4>4. PICK k : k = [at |-> m, side |-> s]
        OBVIOUS
      <4>5. k \in LinksOf(nodes) /\ Follow(nodes, root, k) = n
        BY <1>1, <4>3, <4>4 DEF LinksOf, Follow
      <4> QED BY <4>5
    <3> QED BY <3>1, <3>2
  <2>3. ASSUME NEW l \in To, NEW h \in To PROVE l = h
    <3>1. CASE l.at = NULL /\ h.at = NULL
      BY <3>1, LinkIs
    <3>2. CASE l.at # NULL
      <4>1. l.at \in DOMAIN nodes /\ l.side \in Sides /\ nodes[l.at][l.side] = n
        BY <3>2, LinkIs DEF Follow
      <4>2. h.at = l.at /\ h.side = l.side
        BY <1>1, <4>1, OneLink
      <4> QED BY <1>1, <3>2, <4>2 DEF LinksOf, RootLink
    <3>3. CASE h.at # NULL
      <4>1. h.at \in DOMAIN nodes /\ h.side \in Sides /\ nodes[h.at][h.side] = n
        BY <3>3, LinkIs DEF Follow
      <4>2. h.at = l.at /\ h.side = l.side
        BY <1>1, <4>1, OneLink
      <4> QED BY <1>1, <3>3, <4>2 DEF LinksOf, RootLink
    <3> QED BY <3>1, <3>2, <3>3
  <2>4. \E l : To = {l}
    BY <2>2, <2>3
  <2> QED BY <2>1, <2>4, FS_Singleton
<1> QED BY <1>2, <1>3 DEF IsTree

-------------------------------------------------------------------------------
(* A new leaf c at a link that is NULL.                                    *)
Inserted(ns, r, l, c, node, ms, q) ==
  /\ q = IF l.at = NULL THEN c ELSE r
  /\ DOMAIN ms = DOMAIN ns \cup {c} /\ ms \in [DOMAIN ms -> Node(DOMAIN ms)] /\ ms[c] = node
  /\ \A m \in DOMAIN ns :
       /\ ms[m].key = ns[m].key /\ ms[m].vals = ns[m].vals /\ ms[m].cap = ns[m].cap
       /\ \A s \in Sides : ms[m][s] = IF l.at = m /\ l.side = s THEN c ELSE ns[m][s]

LEMMA WithLeaf ==
  ASSUME NEW ns, NEW r, Tree(ns, r), NEW l \in LinksOf(ns),
         NEW c, c # NULL, c \notin DOMAIN ns, NEW node \in Node({})
  PROVE  Inserted(ns, r, l, c, node, Relink(With(ns, c, node), l, c), IF l.at = NULL THEN c ELSE r)
<1> DEFINE D == DOMAIN ns \cup {c}
           xs == With(ns, c, node)
           ms == Relink(xs, l, c)
           q == IF l.at = NULL THEN c ELSE r
<1> SUFFICES Inserted(ns, r, l, c, node, ms, q)
  OBVIOUS
<1>1. ns \in [DOMAIN ns -> Node(DOMAIN ns)] /\ NULL \notin DOMAIN ns
  BY DEF Tree, Forest
<1>2. node \in Node(D) /\ \A m \in DOMAIN ns : ns[m] \in Node(D)
  BY <1>1 DEF Node
<1>3. xs = [m \in D |-> IF m = c THEN node ELSE ns[m]]
  BY DEF With
<1>4. xs \in [D -> Node(D)] /\ xs[c] = node /\ \A m \in DOMAIN ns : xs[m] = ns[m]
  BY <1>2, <1>3
<1> HIDE DEF xs
<1>5. CASE l.at = NULL
  <2>1. ms = xs /\ \A m \in DOMAIN ns : l.at # m
    BY <1>1, <1>5 DEF Relink
  <2> QED BY <1>4, <1>5, <2>1 DEF Inserted
<1>6. CASE l.at # NULL
  <2>1. l.at \in DOMAIN ns /\ l.side \in {"lhs", "rhs"} /\ l.at \in D /\ l.at # c
    BY <1>6, LinkIs DEF Sides
  <2>2. ms = [xs EXCEPT ![l.at][l.side] = c]
    BY <1>6 DEF Relink
  <2>3. ms = [xs EXCEPT ![l.at] = [xs[l.at] EXCEPT ![l.side] = c]]
    BY <2>2
  <2>4. xs[l.at] \in Node(D)
    BY <1>4, <2>1
  <2> DEFINE y == [xs[l.at] EXCEPT ![l.side] = c]
  <2>5. /\ y \in Node(D) /\ y.key = xs[l.at].key /\ y.vals = xs[l.at].vals /\ y.cap = xs[l.at].cap
        /\ \A s \in {"lhs", "rhs"} : y[s] = IF l.side = s THEN c ELSE xs[l.at][s]
    BY <2>1, <2>4 DEF Node
  <2>6. ms = [xs EXCEPT ![l.at] = y]
    BY <2>3
  <2> HIDE DEF y, ms
  <2>7. ms \in [D -> Node(D)] /\ \A m \in D : ms[m] = IF m = l.at THEN y ELSE xs[m]
    BY <1>4, <2>1, <2>5, <2>6
  <2> QED BY <1>4, <1>6, <2>1, <2>5, <2>7 DEF Inserted, Sides, ms
<1> QED BY <1>5, <1>6

LEMMA InsertedTree ==
  ASSUME NEW ns, NEW r, Tree(ns, r), NEW l \in LinksOf(ns), Follow(ns, r, l) = NULL,
         NEW c, c # NULL, c \notin DOMAIN ns, NEW node \in Node({}), NEW ms, NEW q,
         Inserted(ns, r, l, c, node, ms, q)
  PROVE  Tree(ms, q)
<1>1. /\ Forest(ns) /\ NULL \notin DOMAIN ns /\ DOMAIN ms = DOMAIN ns \cup {c}
      /\ ms[c] = node /\ \A s \in Sides : node[s] = NULL
      /\ \A m \in DOMAIN ns, s \in Sides : ms[m][s] = IF l.at = m /\ l.side = s THEN c ELSE ns[m][s]
      /\ q = IF l.at = NULL THEN c ELSE r
  BY DEF Tree, Forest, Inserted, Node, Sides
<1>2. Forest(ms)
  BY <1>1 DEF Forest, Inserted
<1>3. IsFiniteSet(DOMAIN ms)
  BY <1>1, FS_AddElement DEF Tree
<1>4. /\ l.at = NULL => l = RootLink /\ r = NULL
      /\ l.at # NULL => l.at \in DOMAIN ns /\ l.side \in Sides /\ ns[l.at][l.side] = NULL
  BY LinkIs DEF Follow
<1>5. q \in DOMAIN ms \cup {NULL}
  BY <1>1 DEF Tree
<1>6. ASSUME l.at = NULL PROVE DOMAIN ns = {}
  <2>1. Closed(ns, {})
    BY DEF Closed
  <2> QED BY <1>4, <1>6, <2>1 DEF Tree
<1>7. ASSUME NEW m \in DOMAIN ms, NEW s \in Sides, ms[m][s] # NULL PROVE ms[m][s] # q
  <2>1. m \in DOMAIN ns /\ l.at # NULL /\ q = r
    BY <1>1, <1>6, <1>7
  <2>2. r \in DOMAIN ns \cup {NULL}
    BY DEF Tree
  <2> QED BY <1>1, <1>7, <2>1, <2>2 DEF Tree
<1>8. ASSUME NEW m \in DOMAIN ms, NEW n \in DOMAIN ms, NEW s \in Sides, NEW t \in Sides,
             ms[m][s] # NULL, ms[m][s] = ms[n][t]
      PROVE  m = n /\ s = t
  <2>1. m \in DOMAIN ns /\ n \in DOMAIN ns
    BY <1>1, <1>8
  <2>2. ns[m][s] # c /\ ns[n][t] # c
    BY <1>1, <2>1, KidsAre
  <2> QED BY <1>1, <1>8, <2>1, <2>2 DEF Tree
<1>9. ASSUME NEW S \in SUBSET DOMAIN ms, q \in S \cup {NULL}, Closed(ms, S) PROVE S = DOMAIN ms
  <2> DEFINE T == S \ {c}
  <2>1. \A m \in T, s \in Sides : m \in DOMAIN ns /\ ns[m][s] \in T \cup {NULL}
    <3>1. ASSUME NEW m \in T, NEW s \in Sides PROVE m \in DOMAIN ns /\ ns[m][s] \in T \cup {NULL}
      <4>1. m \in DOMAIN ns /\ ms[m][s] \in S \cup {NULL} /\ ns[m][s] # c
        BY <1>1, <1>9, <3>1, ClosedSides, KidsAre
      <4> QED BY <1>1, <1>4, <4>1
    <3> QED BY <3>1
  <2>2. Closed(ns, T) /\ T \in SUBSET DOMAIN ns /\ r \in T \cup {NULL}
    BY <1>1, <1>4, <1>9, <2>1, ClosedSides DEF Tree
  <2>3. T = DOMAIN ns
    BY <2>2 DEF Tree
  <2>4. c \in S
    <3>1. CASE l.at = NULL
      BY <1>1, <1>9, <3>1
    <3>2. CASE l.at # NULL
      <4>1. l.at \in S /\ ms[l.at][l.side] = c
        BY <1>1, <1>4, <2>3, <3>2
      <4> QED BY <1>4, <1>9, <3>2, <4>1, ClosedSides
    <3> QED BY <3>1, <3>2
  <2> QED BY <1>1, <2>3, <2>4
<1> QED BY <1>2, <1>3, <1>5, <1>7, <1>8, <1>9 DEF Tree

(* Only c joins what was below a node, and where its link lies.            *)
LEMMA InsertedBelow ==
  ASSUME NEW ns, NEW r, Tree(ns, r), NEW l \in LinksOf(ns), Follow(ns, r, l) = NULL,
         NEW c, c # NULL, c \notin DOMAIN ns, NEW node \in Node({}), NEW ms, NEW q,
         Inserted(ns, r, l, c, node, ms, q), NEW n \in DOMAIN ns, NEW s \in Sides
  PROVE  Below(ms, ms[n][s]) \subseteq Below(ns, ns[n][s]) \cup {m \in {c} : Lies(ns, l, n, s)}
<1> DEFINE x == ns[n][s]
           T == Below(ns, x) \cup {m \in {c} : Lies(ns, l, n, s)}
<1>1. /\ Forest(ns) /\ NULL \notin DOMAIN ns /\ DOMAIN ms = DOMAIN ns \cup {c}
      /\ ms[c] = node /\ \A t \in Sides : node[t] = NULL
      /\ \A m \in DOMAIN ns, t \in Sides : ms[m][t] = IF l.at = m /\ l.side = t THEN c ELSE ns[m][t]
  BY DEF Tree, Forest, Inserted, Node, Sides
<1>2. Forest(ms)
  BY InsertedTree DEF Tree
<1>3. x \in DOMAIN ns \cup {NULL}
  BY <1>1, KidsAre
<1>4. T \in SUBSET DOMAIN ms
  BY <1>1, <1>3, BelowIs, BelowNull
<1>5. ASSUME NEW m \in T, NEW t \in Sides PROVE ms[m][t] \in T \cup {NULL}
  <2>1. CASE m = c
    BY <1>1, <2>1
  <2>2. CASE m # c
    <3>1. m \in Below(ns, x) /\ m \in DOMAIN ns
      BY <1>1, <1>4, <2>2
    <3>2. ns[m][t] \in Below(ns, x) \cup {NULL}
      BY <1>1, <1>3, <3>1, KidsBelow
    <3>3. l.at = m => Lies(ns, l, n, s)
      BY <3>1 DEF Lies
    <3> QED BY <1>1, <3>1, <3>2, <3>3
  <2> QED BY <2>1, <2>2
<1>6. Closed(ms, T)
  BY <1>5, ClosedSides
<1>7. ms[n][s] \in T \cup {NULL}
  <2>1. x \in Below(ns, x) \cup {NULL}
    BY <1>1, <1>3, BelowIs
  <2>2. l.at = n /\ l.side = s => Lies(ns, l, n, s)
    BY DEF Lies
  <2> QED BY <1>1, <2>1, <2>2
<1> HIDE DEF T
<1>8. Below(ms, ms[n][s]) \subseteq T
  <2>1. CASE ms[n][s] = NULL
    BY <2>1, BelowNull
  <2>2. CASE ms[n][s] # NULL
    BY <1>2, <1>4, <1>6, <1>7, <2>2, BelowIs
  <2> QED BY <2>1, <2>2
<1> QED BY <1>8 DEF T

LEMMA InsertedSorted ==
  ASSUME NEW ns, NEW r, Tree(ns, r), Sorted(ns), NEW l \in LinksOf(ns), Follow(ns, r, l) = NULL,
         NEW c, c # NULL, c \notin DOMAIN ns, NEW node \in Node({}), NEW ms, NEW q,
         Inserted(ns, r, l, c, node, ms, q),
         \A n \in DOMAIN ns : /\ Lies(ns, l, n, "lhs") => node.key < ns[n].key
                              /\ Lies(ns, l, n, "rhs") => node.key > ns[n].key
  PROVE  Sorted(ms)
<1>1. /\ DOMAIN ms = DOMAIN ns \cup {c} /\ ms[c] = node /\ node.lhs = NULL /\ node.rhs = NULL
      /\ \A m \in DOMAIN ns : ms[m].key = ns[m].key
  BY DEF Inserted, Node
<1>2. ASSUME NEW n \in DOMAIN ns
      PROVE  /\ \A m \in Below(ms, ms[n].lhs) : ms[m].key < ms[n].key
             /\ \A m \in Below(ms, ms[n].rhs) : ms[m].key > ms[n].key
  <2>1. /\ ms[n].lhs = ms[n]["lhs"] /\ ms[n].rhs = ms[n]["rhs"] /\ "lhs" \in Sides /\ "rhs" \in Sides
        /\ ns[n].lhs = ns[n]["lhs"] /\ ns[n].rhs = ns[n]["rhs"]
    BY DEF Sides
  <2>2. \A s \in Sides : Below(ms, ms[n][s]) \subseteq Below(ns, ns[n][s]) \cup {m \in {c} : Lies(ns, l, n, s)}
    BY InsertedBelow
  <2>3. \A s \in Sides : Below(ns, ns[n][s]) \subseteq DOMAIN ns
    BY KidsAre, BelowIs, BelowNull DEF Tree
  <2>4. ASSUME NEW m \in Below(ms, ms[n].lhs) PROVE ms[m].key < ms[n].key
    <3>1. (m \in Below(ns, ns[n].lhs) /\ m \in DOMAIN ns) \/ (m = c /\ Lies(ns, l, n, "lhs"))
      BY <2>1, <2>2, <2>3, <2>4
    <3> QED BY <1>1, <3>1 DEF Sorted
  <2>5. ASSUME NEW m \in Below(ms, ms[n].rhs) PROVE ms[m].key > ms[n].key
    <3>1. (m \in Below(ns, ns[n].rhs) /\ m \in DOMAIN ns) \/ (m = c /\ Lies(ns, l, n, "rhs"))
      BY <2>1, <2>2, <2>3, <2>5
    <3> QED BY <1>1, <3>1 DEF Sorted
  <2> QED BY <2>4, <2>5
<1>3. Below(ms, ms[c].lhs) = {} /\ Below(ms, ms[c].rhs) = {}
  BY <1>1, BelowNull
<1> QED BY <1>1, <1>2, <1>3 DEF Sorted

-------------------------------------------------------------------------------
(* A node k without a child on one side: its other child takes its place.  *)
Spliced(ns, r, l, k, side, ms, q) ==
  /\ q = IF l.at = NULL THEN ns[k][side] ELSE r
  /\ DOMAIN ms = DOMAIN ns \ {k} /\ ms \in [DOMAIN ms -> Node(DOMAIN ms)]
  /\ \A m \in DOMAIN ms :
       /\ ms[m].key = ns[m].key /\ ms[m].vals = ns[m].vals /\ ms[m].cap = ns[m].cap
       /\ \A s \in Sides : ms[m][s] = IF l.at = m /\ l.side = s THEN ns[k][side] ELSE ns[m][s]

LEMMA KidsOnce ==
  ASSUME NEW ns, NEW r, Tree(ns, r), Sorted(ns), NEW l \in LinksOf(ns),
         NEW k \in DOMAIN ns, Follow(ns, r, l) = k
  PROVE  /\ l.at # k /\ k # NULL /\ \A s \in Sides : ns[k][s] # k
         /\ l.at = NULL <=> r = k
         /\ \A m \in DOMAIN ns, s \in Sides : ns[m][s] = k <=> l.at = m /\ l.side = s
<1>1. Forest(ns) /\ NULL \notin DOMAIN ns
  BY DEF Tree, Forest
<1>2. \A s \in Sides : ns[k][s] # k
  BY <1>1, KidsAre, BelowIs, NotBelowItself
<1>3. l.at # NULL => ns[l.at][l.side] = k /\ l.at \in DOMAIN ns /\ l.side \in Sides
  BY LinkIs DEF Follow
<1>4. \A m \in DOMAIN ns, s \in Sides : ns[m][s] = k => l.at = m /\ l.side = s
  BY <1>1, OneLink
<1>5. l.at = NULL => r = k
  BY DEF Follow
<1>6. r = k => l.at = NULL
  BY <1>1, <1>3 DEF Tree
<1> QED BY <1>1, <1>2, <1>3, <1>4, <1>5, <1>6

(* A pointer set to x, and k's children to NULL where side says so.        *)
LEMMA RelinkIs ==
  ASSUME NEW ns, NEW r, Tree(ns, r), NEW l \in LinksOf(ns), NEW x \in DOMAIN ns \cup {NULL}
  PROVE  /\ Relink(ns, l, x) \in [DOMAIN ns -> Node(DOMAIN ns)]
         /\ DOMAIN Relink(ns, l, x) = DOMAIN ns
         /\ \A m \in DOMAIN ns :
              /\ Relink(ns, l, x)[m].key = ns[m].key /\ Relink(ns, l, x)[m].vals = ns[m].vals
              /\ Relink(ns, l, x)[m].cap = ns[m].cap
              /\ \A s \in Sides : Relink(ns, l, x)[m][s] = IF l.at = m /\ l.side = s THEN x ELSE ns[m][s]
<1> DEFINE D == DOMAIN ns
           ms == Relink(ns, l, x)
<1> SUFFICES /\ ms \in [D -> Node(D)] /\ DOMAIN ms = D
             /\ \A m \in D :
                  /\ ms[m].key = ns[m].key /\ ms[m].vals = ns[m].vals
                  /\ ms[m].cap = ns[m].cap
                  /\ \A s \in Sides : ms[m][s] = IF l.at = m /\ l.side = s THEN x ELSE ns[m][s]
  OBVIOUS
<1>1. ns \in [D -> Node(D)] /\ NULL \notin D
  BY DEF Tree, Forest
<1>2. CASE l.at = NULL
  BY <1>1, <1>2 DEF Relink
<1>3. CASE l.at # NULL
  <2>1. l.at \in D /\ l.side \in Sides
    BY <1>3, LinkIs
  <2> DEFINE y == [ns[l.at] EXCEPT ![l.side] = x]
  <2>2. ms = [ns EXCEPT ![l.at] = y]
    BY <1>3 DEF Relink
  <2>3. ns[l.at] \in Node(D)
    BY <1>1, <2>1
  <2>4. /\ y \in Node(D) /\ y.key = ns[l.at].key /\ y.vals = ns[l.at].vals /\ y.cap = ns[l.at].cap
        /\ \A s \in Sides : y[s] = IF l.side = s THEN x ELSE ns[l.at][s]
    BY <2>1, <2>3 DEF Node, Sides
  <2> HIDE DEF y, ms, D
  <2>5. ms \in [D -> Node(D)] /\ \A m \in D : ms[m] = IF m = l.at THEN y ELSE ns[m]
    BY <1>1, <2>1, <2>2, <2>4
  <2> QED BY <2>4, <2>5
<1> QED BY <1>2, <1>3

LEMMA WithoutNode ==
  ASSUME NEW ns, NEW r, Tree(ns, r), Sorted(ns), NEW l \in LinksOf(ns),
         NEW k \in DOMAIN ns, Follow(ns, r, l) = k,
         NEW side \in Sides, NEW other \in Sides, side # other, ns[k][other] = NULL,
         NEW q, q = IF l.at = NULL THEN ns[k][side] ELSE r
  PROVE  Spliced(ns, r, l, k, side,
                 free_subsequent_nodes([Relink(ns, l, ns[k][side]) EXCEPT ![k][side] = NULL], k), q)
<1> DEFINE D == DOMAIN ns
           x == ns[k][side]
           xs == Relink(ns, l, x)
           ys == [xs EXCEPT ![k][side] = NULL]
           ms == free_subsequent_nodes(ys, k)
<1> SUFFICES Spliced(ns, r, l, k, side, ms, q)
  OBVIOUS
<1>1. ns \in [D -> Node(D)] /\ NULL \notin D /\ x \in D \cup {NULL} /\ k \in D
  BY KidsAre DEF Tree, Forest
<1>2. /\ xs \in [D -> Node(D)] /\ DOMAIN xs = D
      /\ \A m \in D : /\ xs[m].key = ns[m].key /\ xs[m].vals = ns[m].vals /\ xs[m].cap = ns[m].cap
                      /\ \A s \in Sides : xs[m][s] = IF l.at = m /\ l.side = s THEN x ELSE ns[m][s]
  BY <1>1, RelinkIs
<1>3. /\ l.at # k /\ k # NULL /\ \A s \in Sides : ns[k][s] # k
      /\ \A m \in D, s \in Sides : ns[m][s] = k <=> l.at = m /\ l.side = s
  BY KidsOnce
<1> DEFINE y == [xs[k] EXCEPT ![side] = NULL]
<1>4. ys = [xs EXCEPT ![k] = y]
  OBVIOUS
<1>5. xs[k][other] = NULL
  BY <1>2, <1>3
<1> HIDE DEF xs
<1>6. y.lhs = NULL /\ y.rhs = NULL
  <2>1. xs[k] \in Node(D)
    BY <1>1, <1>2
  <2> QED BY <1>5, <2>1 DEF Node, Sides
<1> HIDE DEF y
<1>7. DOMAIN ys = D /\ ys[k] = y /\ \A m \in D \ {k} : ys[m] = xs[m]
  BY <1>1, <1>2, <1>4
<1> HIDE DEF ys
<1>8. Below(ys, k) = {k}
  BY <1>3, <1>6, <1>7, BelowLeaf
<1>9. ms = [m \in D \ {k} |-> xs[m]]
  BY <1>7, <1>8 DEF free_subsequent_nodes, Restrict
<1> HIDE DEF ms
<1>10. DOMAIN ms = D \ {k} /\ \A m \in D \ {k} : ms[m] = xs[m]
  BY <1>9
<1>11. ASSUME NEW m \in D \ {k} PROVE ms[m] \in Node(D \ {k})
  <2>1. xs[m] \in Node(D)
    BY <1>2
  <2>2. x # k
    BY <1>3
  <2>3. xs[m]["lhs"] # k /\ xs[m]["rhs"] # k
    BY <1>2, <1>3, <2>2 DEF Sides
  <2> QED BY <1>10, <2>1, <2>3 DEF Node
<1>12. ms \in [DOMAIN ms -> Node(DOMAIN ms)]
  BY <1>9, <1>10, <1>11
<1>13. ASSUME NEW m \in D \ {k}
       PROVE  /\ ms[m].key = ns[m].key /\ ms[m].vals = ns[m].vals /\ ms[m].cap = ns[m].cap
              /\ \A s \in Sides : ms[m][s] = IF l.at = m /\ l.side = s THEN x ELSE ns[m][s]
  BY <1>2, <1>10
<1> QED BY <1>10, <1>12, <1>13 DEF Spliced

LEMMA SplicedTree ==
  ASSUME NEW ns, NEW r, Tree(ns, r), Sorted(ns), NEW l \in LinksOf(ns),
         NEW k \in DOMAIN ns, Follow(ns, r, l) = k,
         NEW side \in Sides, NEW other \in Sides, side # other, ns[k][other] = NULL,
         NEW ms, NEW q, Spliced(ns, r, l, k, side, ms, q)
  PROVE  Tree(ms, q)
<1> DEFINE D == DOMAIN ns
           x == ns[k][side]
<1>1. /\ NULL \notin D /\ x \in D \cup {NULL} /\ Forest(ns) /\ DOMAIN ms = D \ {k}
      /\ \A m \in D \ {k}, s \in Sides : ms[m][s] = IF l.at = m /\ l.side = s THEN x ELSE ns[m][s]
      /\ q = IF l.at = NULL THEN x ELSE r
  BY KidsAre DEF Tree, Forest, Spliced
<1>2. /\ l.at # k /\ k # NULL /\ x # k /\ (l.at = NULL <=> r = k)
      /\ \A m \in D, s \in Sides : ns[m][s] = k <=> l.at = m /\ l.side = s
  BY KidsOnce
<1>3. \A m, n \in D, s, t \in Sides : ns[m][s] # NULL /\ ns[m][s] = ns[n][t] => m = n /\ s = t
  BY DEF Tree
<1>4. r \in D \cup {NULL} /\ \A m \in D, s \in Sides : ns[m][s] # NULL => ns[m][s] # r
  BY DEF Tree
<1>5. l.at # NULL => l.at \in D /\ l.side \in Sides
  BY LinkIs
<1> HIDE DEF D
<1>6. Forest(ms)
  BY <1>1 DEF Forest, Spliced
<1>7. IsFiniteSet(DOMAIN ms)
  BY <1>1, FS_RemoveElement DEF Tree, D
<1>8. q \in DOMAIN ms \cup {NULL}
  BY <1>1, <1>2, <1>4
<1>9. ASSUME NEW m \in DOMAIN ms, NEW s \in Sides, ms[m][s] # NULL PROVE ms[m][s] # q
  <2>1. m \in D /\ m # k
    BY <1>1
  <2>2. CASE l.at = NULL
    BY <1>1, <1>3, <1>9, <2>1, <2>2 DEF D
  <2>3. CASE l.at # NULL
    BY <1>1, <1>4, <1>9, <2>1, <2>3 DEF D
  <2> QED BY <2>2, <2>3
<1>10. ASSUME NEW m \in DOMAIN ms, NEW n \in DOMAIN ms, NEW s \in Sides, NEW t \in Sides,
              ms[m][s] # NULL, ms[m][s] = ms[n][t]
       PROVE  m = n /\ s = t
  <2>1. m \in D \ {k} /\ n \in D \ {k} /\ k \in D
    BY <1>1 DEF D
  <2> QED BY <1>1, <1>3, <1>10, <2>1
<1>11. ASSUME NEW S \in SUBSET DOMAIN ms, q \in S \cup {NULL}, Closed(ms, S) PROVE S = DOMAIN ms
  <2>1. \A m \in S, s \in Sides : m \in D \ {k} /\ ms[m][s] \in S \cup {NULL}
    BY <1>1, <1>11, ClosedSides
  <2>2. CASE l.at \in S \cup {NULL}
    <3> DEFINE T == S \cup {k}
    <3>1. x \in S \cup {NULL}
      BY <1>1, <1>5, <1>11, <2>1, <2>2
    <3>2. ASSUME NEW m \in T, NEW s \in Sides PROVE ns[m][s] \in T \cup {NULL}
      <4>1. CASE m = k
        BY <3>1, <4>1 DEF Sides
      <4>2. CASE m # k
        <5>1. m \in S /\ m \in D \ {k} /\ ms[m][s] \in S \cup {NULL}
          BY <2>1, <4>2
        <5> QED BY <1>1, <1>2, <5>1
      <4> QED BY <4>1, <4>2
    <3>3. Closed(ns, T) /\ T \in SUBSET D
      BY <1>1, <3>2, ClosedSides DEF D
    <3>4. r \in T \cup {NULL}
      BY <1>1, <1>2, <1>11
    <3>5. T = D
      BY <3>3, <3>4 DEF Tree, D
    <3> QED BY <1>1, <2>1, <3>5
  <2>3. CASE l.at \notin S \cup {NULL}
    <3>1. \A m \in S, s \in Sides : ns[m][s] \in S \cup {NULL}
      BY <1>1, <2>1, <2>3
    <3>2. Closed(ns, S) /\ S \in SUBSET D
      BY <1>1, <3>1, ClosedSides
    <3>3. r \in S \cup {NULL}
      BY <1>1, <1>11, <2>3
    <3>4. S = D
      BY <3>2, <3>3 DEF Tree, D
    <3> QED BY <1>1, <3>4 DEF D
  <2> QED BY <2>2, <2>3
<1> QED BY <1>6, <1>7, <1>8, <1>9, <1>10, <1>11 DEF Tree

LEMMA SplicedBelow ==
  ASSUME NEW ns, NEW r, Tree(ns, r), Sorted(ns), NEW l \in LinksOf(ns),
         NEW k \in DOMAIN ns, Follow(ns, r, l) = k,
         NEW side \in Sides, NEW other \in Sides, side # other, ns[k][other] = NULL,
         NEW ms, NEW q, Spliced(ns, r, l, k, side, ms, q),
         NEW n \in DOMAIN ms, NEW s \in Sides
  PROVE  Below(ms, ms[n][s]) \subseteq Below(ns, ns[n][s]) \ {k}
<1> DEFINE D == DOMAIN ns
           x == ns[k][side]
           z == ns[n][s]
           T == Below(ns, z) \ {k}
<1>1. /\ NULL \notin D /\ x \in D \cup {NULL} /\ Forest(ns) /\ DOMAIN ms = D \ {k} /\ n \in D
      /\ \A m \in D \ {k}, t \in Sides : ms[m][t] = IF l.at = m /\ l.side = t THEN x ELSE ns[m][t]
  BY KidsAre DEF Tree, Forest, Spliced
<1>2. /\ x # k /\ \A m \in D, t \in Sides : ns[m][t] = k <=> l.at = m /\ l.side = t
  BY KidsOnce
<1>3. Forest(ms)
  BY SplicedTree DEF Tree
<1>4. z \in D \cup {NULL} /\ z \in Below(ns, z) \cup {NULL} /\ Below(ns, z) \subseteq D
  BY <1>1, KidsAre, BelowIs, BelowNull
<1>5. k \in Below(ns, z) => x \in Below(ns, z) \cup {NULL}
  BY <1>1, <1>4, KidsBelow
<1>6. ASSUME NEW m \in T, NEW t \in Sides PROVE ms[m][t] \in T \cup {NULL}
  <2>1. ns[m][t] \in Below(ns, z) \cup {NULL} /\ m \in D \ {k}
    BY <1>1, <1>4, KidsBelow
  <2> QED BY <1>1, <1>2, <1>5, <2>1
<1>7. Closed(ms, T) /\ T \in SUBSET DOMAIN ms
  BY <1>1, <1>4, <1>6, ClosedSides
<1>8. ms[n][s] \in T \cup {NULL}
  BY <1>1, <1>2, <1>4, <1>5
<1> HIDE DEF T
<1>9. CASE ms[n][s] = NULL
  BY <1>9, BelowNull
<1>10. CASE ms[n][s] # NULL
  <2>1. Below(ms, ms[n][s]) \subseteq T
    BY <1>3, <1>7, <1>8, <1>10, BelowIs
  <2> QED BY <2>1 DEF T
<1> QED BY <1>9, <1>10

LEMMA SplicedSorted ==
  ASSUME NEW ns, NEW r, Tree(ns, r), Sorted(ns), NEW l \in LinksOf(ns),
         NEW k \in DOMAIN ns, Follow(ns, r, l) = k,
         NEW side \in Sides, NEW other \in Sides, side # other, ns[k][other] = NULL,
         NEW ms, NEW q, Spliced(ns, r, l, k, side, ms, q)
  PROVE  Sorted(ms)
<1> SUFFICES ASSUME NEW n \in DOMAIN ms
             PROVE  /\ \A m \in Below(ms, ms[n].lhs) : ms[m].key < ms[n].key
                    /\ \A m \in Below(ms, ms[n].rhs) : ms[m].key > ms[n].key
  BY DEF Sorted
<1>1. DOMAIN ms = DOMAIN ns \ {k} /\ \A m \in DOMAIN ms : ms[m].key = ns[m].key
  BY DEF Spliced
<1>2. \A s \in Sides : Below(ns, ns[n][s]) \subseteq DOMAIN ns
  BY <1>1, KidsAre, BelowIs, BelowNull DEF Tree
<1>3. \A s \in Sides : Below(ms, ms[n][s]) \subseteq Below(ns, ns[n][s]) \ {k}
  BY SplicedBelow
<1>4. /\ Below(ms, ms[n].lhs) \subseteq Below(ns, ns[n].lhs) \ {k}
      /\ Below(ms, ms[n].rhs) \subseteq Below(ns, ns[n].rhs) \ {k}
      /\ Below(ns, ns[n].lhs) \subseteq DOMAIN ns /\ Below(ns, ns[n].rhs) \subseteq DOMAIN ns
  BY <1>2, <1>3 DEF Sides
<1> QED BY <1>1, <1>4 DEF Sorted

-------------------------------------------------------------------------------
(* A node k with two children: the minimum d of those larger, a child of p,*)
(* takes its place.                                                        *)
Searching(ns, k, p, d) ==
  /\ d \in Below(ns, ns[k].rhs) /\ p \in {k} \cup Below(ns, ns[k].rhs)
  /\ ns[p][IF p = k THEN "rhs" ELSE "lhs"] = d
  /\ \A m \in Below(ns, ns[k].rhs) \ Below(ns, d) : ns[m].key > ns[d].key

Replaced(ns, r, l, k, p, d, ms, q) ==
  /\ q = IF l.at = NULL THEN d ELSE r
  /\ DOMAIN ms = DOMAIN ns \ {k} /\ ms \in [DOMAIN ms -> Node(DOMAIN ms)]
  /\ \A m \in DOMAIN ms :
       ms[m].key = ns[m].key /\ ms[m].vals = ns[m].vals /\ ms[m].cap = ns[m].cap
  /\ ms[d].lhs = ns[k].lhs /\ ms[d].rhs = IF p = k THEN ns[d].rhs ELSE ns[k].rhs
  /\ \A m \in DOMAIN ms \ {d}, s \in Sides :
       ms[m][s] = IF l.at = m /\ l.side = s THEN d
                  ELSE IF p = m /\ s = "lhs" THEN ns[d].rhs ELSE ns[m][s]

LEMMA SearchStarts ==
  ASSUME NEW ns, Forest(ns), NEW k \in DOMAIN ns, ns[k].rhs # NULL
  PROVE  Searching(ns, k, k, ns[k].rhs)
BY KidsAre, BelowIs DEF Searching

LEMMA SearchGoesOn ==
  ASSUME NEW ns, Forest(ns), Sorted(ns), NEW k \in DOMAIN ns, NEW p, NEW d, Searching(ns, k, p, d),
         ns[d].lhs # NULL
  PROVE  Searching(ns, k, d, ns[d].lhs)
<1> DEFINE B == Below(ns, ns[k].rhs)
           e == ns[d].lhs
<1>1. ns[k].rhs \in DOMAIN ns \cup {NULL} /\ d \in B /\ ns[k].rhs = ns[k]["rhs"] /\ "rhs" \in Sides
  BY KidsAre DEF Searching, Sides
<1>2. d \in DOMAIN ns /\ e \in B /\ e \in DOMAIN ns /\ B \subseteq DOMAIN ns
  <2>1. e = ns[d]["lhs"] /\ "lhs" \in Sides
    BY DEF Sides
  <2> QED BY <1>1, <2>1, KidsBelow
<1>3. d # k
  BY <1>1, NotBelowItself
<1>4. e \in Below(ns, e) /\ ns[e].key < ns[d].key
  BY <1>2, BelowIs DEF Sorted
<1>5. ASSUME NEW m \in B \ Below(ns, e) PROVE ns[m].key > ns[e].key
  <2>1. ns[m].key \in Int /\ ns[d].key \in Int /\ ns[e].key \in Int
    BY <1>2, KidsAre
  <2>2. CASE m \notin Below(ns, d)
    BY <1>4, <2>1, <2>2 DEF Searching
  <2>3. CASE m \in Below(ns, d)
    <3>1. m = d \/ m \in Below(ns, ns[d].rhs)
      BY <1>2, <2>3, BelowStep
    <3> QED BY <1>2, <1>4, <2>1, <3>1 DEF Sorted
  <2> QED BY <2>2, <2>3
<1> QED BY <1>1, <1>2, <1>3, <1>5 DEF Searching

LEMMA MinPlace ==
  ASSUME NEW ns, NEW r, Tree(ns, r), Sorted(ns), NEW l \in LinksOf(ns),
         NEW k \in DOMAIN ns, Follow(ns, r, l) = k, NEW p, NEW d, Searching(ns, k, p, d)
  PROVE  /\ p \in DOMAIN ns /\ d \in DOMAIN ns /\ p \in Below(ns, k) /\ d \in Below(ns, k)
         /\ l.at \notin {k, p, d} /\ d # k /\ p # d /\ d # r
         /\ ns[d].rhs \notin {k, d} /\ ns[d].rhs \in DOMAIN ns \cup {NULL}
         /\ \A m \in DOMAIN ns, s \in Sides : ns[m][s] = d <=> m = p /\ s = IF p = k THEN "rhs" ELSE "lhs"
<1> DEFINE z == ns[k].rhs
           B == Below(ns, z)
           ps == IF p = k THEN "rhs" ELSE "lhs"
<1>1. /\ Forest(ns) /\ NULL \notin DOMAIN ns /\ z = ns[k]["rhs"] /\ "rhs" \in Sides /\ ps \in Sides
      /\ z \in DOMAIN ns \cup {NULL}
  BY KidsAre DEF Tree, Forest, Sides
<1>2. k \notin B /\ B \subseteq DOMAIN ns /\ B \subseteq Below(ns, k) /\ k \in Below(ns, k)
  BY <1>1, NotBelowItself, BelowIs, BelowNull, BelowStep
<1>3. d \in B /\ p \in {k} \cup B /\ ns[p][ps] = d
  BY DEF Searching
<1>4. p \in DOMAIN ns /\ d \in DOMAIN ns /\ p \in Below(ns, k) /\ d \in Below(ns, k) /\ d # k
  BY <1>2, <1>3
<1>5. l.at \notin B
  <2>1. CASE l.at = NULL
    BY <1>1, <1>2, <2>1
  <2>2. CASE l.at # NULL
    <3>1. l.side \in Sides /\ ns[l.at][l.side] = k
      BY <2>2, LinkIs DEF Follow
    <3> QED BY <1>1, <1>2, <3>1, KidsBelow
  <2> QED BY <2>1, <2>2
<1>6. l.at # k
  BY KidsOnce
<1>7. p # d
  BY <1>1, <1>3, <1>4, NotBelowItself, BelowIs
<1>8. d # r
  BY <1>1, <1>3, <1>4 DEF Tree
<1>9. ns[d].rhs \notin {k, d} /\ ns[d].rhs \in DOMAIN ns \cup {NULL}
  <2>1. ns[d].rhs = ns[d]["rhs"] /\ ns[d].rhs \in DOMAIN ns \cup {NULL}
    BY <1>1, <1>4, KidsAre
  <2>2. ns[d].rhs # d
    BY <1>1, <1>4, <2>1, NotBelowItself, BelowIs
  <2>3. ns[d].rhs # k
    BY <1>1, <1>2, <1>3, <2>1, KidsBelow
  <2> QED BY <2>1, <2>2, <2>3
<1>10. \A m \in DOMAIN ns, s \in Sides : ns[m][s] = d <=> m = p /\ s = ps
  BY <1>1, <1>3, <1>4 DEF Tree
<1> QED BY <1>3, <1>4, <1>5, <1>6, <1>7, <1>8, <1>9, <1>10

(* Below the root of the new tree is all of it.                            *)
LEMMA ReplacedReach ==
  ASSUME NEW ns, NEW r, Tree(ns, r), Sorted(ns), NEW l \in LinksOf(ns),
         NEW k \in DOMAIN ns, Follow(ns, r, l) = k,
         NEW p, NEW d, Searching(ns, k, p, d), ns[d].lhs = NULL,
         NEW ms, NEW q, Replaced(ns, r, l, k, p, d, ms, q),
         NEW S \in SUBSET DOMAIN ms, q \in S \cup {NULL}, Closed(ms, S)
  PROVE  S = DOMAIN ms
<1> DEFINE D == DOMAIN ns
           x == ns[d].rhs
           ps == IF p = k THEN "rhs" ELSE "lhs"
<1>1. /\ NULL \notin D /\ Forest(ns) /\ DOMAIN ms = D \ {k}
      /\ ms[d]["lhs"] = ns[k]["lhs"] /\ ms[d]["rhs"] = IF p = k THEN x ELSE ns[k]["rhs"]
      /\ ns[d]["lhs"] = NULL /\ ns[d]["rhs"] = x
      /\ \A m \in D \ {k, d}, s \in Sides :
           ms[m][s] = IF l.at = m /\ l.side = s THEN d ELSE IF p = m /\ s = "lhs" THEN x ELSE ns[m][s]
      /\ q = IF l.at = NULL THEN d ELSE r
  BY DEF Tree, Forest, Replaced
<1>2. /\ k # NULL /\ (l.at = NULL <=> r = k)
      /\ \A m \in D, s \in Sides : ns[m][s] = k <=> l.at = m /\ l.side = s
  BY KidsOnce
<1>3. /\ p \in D /\ d \in D /\ p \in Below(ns, k) /\ d \in Below(ns, k)
      /\ l.at \notin {k, p, d} /\ d # k /\ p # d /\ d # r /\ x \notin {k, d} /\ x \in D \cup {NULL}
      /\ \A m \in D, s \in Sides : ns[m][s] = d <=> m = p /\ s = ps
  BY MinPlace
<1>4. (l.at # NULL => l.at \in D /\ l.side \in Sides) /\ "lhs" \in Sides /\ "rhs" \in Sides
      /\ k \in D /\ \A s \in Sides : s = "lhs" \/ s = "rhs"
  BY LinkIs DEF Sides
<1>5. \A m \in S, s \in Sides : m \in D \ {k} /\ ms[m][s] \in S \cup {NULL}
  BY <1>1, ClosedSides
<1>6. \A T \in SUBSET D : r \in T \cup {NULL} /\ (\A m \in T, s \in Sides : ns[m][s] \in T \cup {NULL}) => T = D
  BY ClosedSides DEF Tree
<1> HIDE DEF D, x
<1>7. CASE l.at \notin S \cup {NULL}
  <2> DEFINE T == S \ Below(ns, k)
  <2>1. k \in Below(ns, k) /\ \A v \in Below(ns, k) : v # k => \E m \in Below(ns, k), s \in Sides : m \in D /\ ns[m][s] = v
    BY <1>1, BelowIs, HangsBelow DEF D
  <2>2. \A m, n \in D, s, t \in Sides : ns[m][s] # NULL /\ ns[m][s] = ns[n][t] => m = n /\ s = t
    BY DEF Tree, D
  <2>3. r \in D \cup {NULL} /\ \A m \in D, s \in Sides : ns[m][s] # NULL => ns[m][s] # r
    BY DEF Tree, D
  <2>4. r \in T \cup {NULL}
    <3>1. r \in S \cup {NULL} /\ r # k
      BY <1>1, <1>2, <1>7
    <3>2. r \notin Below(ns, k) \/ r = NULL
      BY <2>1, <2>3, <3>1
    <3> QED BY <3>1, <3>2
  <2>5. ASSUME NEW m \in T, NEW s \in Sides PROVE ns[m][s] \in T \cup {NULL}
    <3>1. m \in D \ {k, d} /\ m # p /\ l.at # m
      BY <1>3, <1>5, <1>7, <2>1
    <3>2. ms[m][s] = ns[m][s] /\ ns[m][s] \in S \cup {NULL}
      BY <1>1, <1>5, <3>1
    <3>3. ns[m][s] # k
      BY <1>2, <3>1
    <3>4. ns[m][s] \in Below(ns, k) => ns[m][s] = NULL
      BY <2>1, <2>2, <3>1, <3>3
    <3> QED BY <3>2, <3>4
  <2>6. T \in SUBSET D
    BY <1>4, <1>5
  <2> HIDE DEF T
  <2>7. T = D
    BY <1>6, <2>4, <2>5, <2>6
  <2> QED BY <1>4, <2>1, <2>7 DEF T
<1>8. CASE l.at \in S \cup {NULL}
  <2>1. d \in S
    <3>1. CASE l.at = NULL
      BY <1>1, <1>3, <3>1
    <3>2. CASE l.at # NULL
      BY <1>1, <1>3, <1>4, <1>5, <1>8, <3>2
    <3> QED BY <3>1, <3>2
  <2>2. ns[k]["lhs"] \in S \cup {NULL} /\ (p # k => ns[k]["rhs"] \in S \cup {NULL})
    BY <1>1, <1>4, <1>5, <2>1
  <2>3. p \in S \cup {k}
    <3> SUFFICES ASSUME p \notin S, p # k PROVE FALSE
      OBVIOUS
    <3> DEFINE T == (S \ {d}) \cup {k}
    <3>1. ASSUME NEW m \in T, NEW s \in Sides PROVE ns[m][s] \in T \cup {NULL}
      <4>0. m \in D /\ m # p
        BY <1>4, <1>5
      <4>1. ns[m][s] # d
        BY <1>3, <4>0
      <4>2. CASE m = k
        BY <1>4, <2>2, <4>1, <4>2
      <4>3. CASE m # k
        <5>1. m \in S /\ m # d /\ ms[m][s] \in S \cup {NULL}
          BY <1>5, <4>3
        <5> QED BY <1>1, <1>2, <4>0, <4>1, <4>3, <5>1
      <4> QED BY <4>2, <4>3
    <3>2. r \in T \cup {NULL}
      BY <1>1, <1>2, <1>3
    <3>3. T \in SUBSET D
      BY <1>4, <1>5
    <3>4. d \notin T
      BY <1>3
    <3> HIDE DEF T
    <3>5. T = D
      BY <1>6, <3>1, <3>2, <3>3
    <3> QED BY <1>3, <3>4, <3>5
  <2> DEFINE T == S \cup {k}
  <2>4. ASSUME NEW m \in T, NEW s \in Sides PROVE ns[m][s] \in T \cup {NULL}
    <3>1. CASE m = k
      BY <1>3, <1>4, <2>1, <2>2, <3>1
    <3>2. CASE m = d
      <4>1. p # k => ms[p]["lhs"] \in S \cup {NULL} /\ ms[p]["lhs"] = x
        BY <1>1, <1>3, <1>4, <1>5, <2>3
      <4> QED BY <1>1, <1>4, <1>5, <2>1, <3>2, <4>1
    <3>3. CASE m \in S \ {k, d}
      <4>1. ms[m][s] \in S \cup {NULL} /\ m \in D
        BY <1>5, <3>3
      <4>2. CASE m = p /\ s = "lhs"
        BY <1>3, <2>1, <3>3, <4>2
      <4>3. CASE ~(m = p /\ s = "lhs")
        BY <1>1, <1>2, <3>3, <4>1, <4>3
      <4> QED BY <4>2, <4>3
    <3> QED BY <3>1, <3>2, <3>3
  <2>5. r \in T \cup {NULL}
    BY <1>1, <1>2
  <2>6. T \in SUBSET D
    BY <1>4, <1>5
  <2> HIDE DEF T
  <2>7. T = D
    BY <1>6, <2>4, <2>5, <2>6
  <2> QED BY <1>1, <1>5, <2>7 DEF T
<1> QED BY <1>7, <1>8

LEMMA ReplacedTree ==
  ASSUME NEW ns, NEW r, Tree(ns, r), Sorted(ns), NEW l \in LinksOf(ns),
         NEW k \in DOMAIN ns, Follow(ns, r, l) = k,
         NEW p, NEW d, Searching(ns, k, p, d), ns[d].lhs = NULL,
         NEW ms, NEW q, Replaced(ns, r, l, k, p, d, ms, q)
  PROVE  Tree(ms, q)
<1> DEFINE D == DOMAIN ns
           x == ns[d].rhs
           ps == IF p = k THEN "rhs" ELSE "lhs"
<1>1. /\ NULL \notin D /\ Forest(ns) /\ DOMAIN ms = D \ {k}
      /\ ms[d]["lhs"] = ns[k]["lhs"] /\ ms[d]["rhs"] = IF p = k THEN x ELSE ns[k]["rhs"]
      /\ ns[d]["lhs"] = NULL /\ ns[d]["rhs"] = x
      /\ \A m \in D \ {k, d}, s \in Sides :
           ms[m][s] = IF l.at = m /\ l.side = s THEN d ELSE IF p = m /\ s = "lhs" THEN x ELSE ns[m][s]
      /\ q = IF l.at = NULL THEN d ELSE r
  BY DEF Tree, Forest, Replaced
<1>2. k # NULL /\ (l.at = NULL <=> r = k)
  BY KidsOnce
<1>3. /\ p \in D /\ d \in D /\ l.at \notin {k, p, d} /\ d # k /\ p # d /\ x \in D \cup {NULL}
      /\ \A m \in D, s \in Sides : ns[m][s] = d <=> m = p /\ s = ps
  BY MinPlace
<1>4. \A m, n \in D, s, t \in Sides : ns[m][s] # NULL /\ ns[m][s] = ns[n][t] => m = n /\ s = t
  BY DEF Tree
<1>5. r \in D \cup {NULL} /\ \A m \in D, s \in Sides : ns[m][s] # NULL => ns[m][s] # r
  BY DEF Tree
<1>6. /\ "lhs" \in Sides /\ "rhs" \in Sides /\ k \in D /\ ps \in Sides
      /\ \A s \in Sides : s = "lhs" \/ s = "rhs"
  BY DEF Sides
<1> HIDE DEF D, x, ps
<1>7. Forest(ms) /\ IsFiniteSet(DOMAIN ms) /\ q \in DOMAIN ms \cup {NULL}
  <2>1. Forest(ms)
    BY <1>1 DEF Forest, Replaced
  <2>2. IsFiniteSet(DOMAIN ms)
    BY <1>1, FS_RemoveElement DEF Tree, D
  <2> QED BY <1>1, <1>2, <1>3, <1>5, <2>1, <2>2
<1> DEFINE From(m, s) == IF l.at = m /\ l.side = s THEN p
                         ELSE IF m = d THEN (IF s = "rhs" /\ p = k THEN d ELSE k)
                         ELSE IF m = p /\ s = "lhs" THEN d ELSE m
           Hand(m, s) == IF l.at = m /\ l.side = s THEN ps
                         ELSE IF m = p /\ s = "lhs" THEN "rhs" ELSE s
<1>8. ASSUME NEW m \in D \ {k}, NEW s \in Sides
      PROVE  From(m, s) \in D /\ Hand(m, s) \in Sides /\ ms[m][s] = ns[From(m, s)][Hand(m, s)]
  BY <1>1, <1>3, <1>6
<1>9. ASSUME NEW m \in D \ {k}, NEW n \in D \ {k}, NEW s \in Sides, NEW t \in Sides,
             From(m, s) = From(n, t), Hand(m, s) = Hand(n, t)
      PROVE  m = n /\ s = t
  BY <1>1, <1>3, <1>6, <1>9 DEF ps
<1>10. ASSUME NEW m \in D \ {k}, NEW s \in Sides, From(m, s) = p, Hand(m, s) = ps
       PROVE  l.at = m
  BY <1>3, <1>6, <1>10 DEF ps
<1> HIDE DEF From, Hand
<1>11. ASSUME NEW m \in DOMAIN ms, NEW s \in Sides, ms[m][s] # NULL PROVE ms[m][s] # q
  BY <1>1, <1>3, <1>5, <1>8, <1>10, <1>11
<1>12. ASSUME NEW m \in DOMAIN ms, NEW n \in DOMAIN ms, NEW s \in Sides, NEW t \in Sides,
              ms[m][s] # NULL, ms[m][s] = ms[n][t]
       PROVE  m = n /\ s = t
  <2>1. From(m, s) = From(n, t) /\ Hand(m, s) = Hand(n, t)
    BY <1>1, <1>4, <1>8, <1>12
  <2> QED BY <1>1, <1>9, <2>1
<1>13. \A S \in SUBSET DOMAIN ms : q \in S \cup {NULL} /\ Closed(ms, S) => S = DOMAIN ms
  BY ReplacedReach
<1> QED BY <1>7, <1>11, <1>12, <1>13 DEF Tree

LEMMA BelowWithin ==
  ASSUME NEW ns, Forest(ns), NEW T \in SUBSET DOMAIN ns, NEW n \in T \cup {NULL},
         \A m \in T, s \in Sides : ns[m][s] \in T \cup {NULL}
  PROVE  Below(ns, n) \subseteq T
<1>1. Closed(ns, T)
  BY ClosedSides
<1>2. CASE n = NULL
  BY <1>2, BelowNull
<1>3. CASE n # NULL
  BY <1>1, <1>3, BelowIs
<1> QED BY <1>2, <1>3

(* What is below a node that stays, and below the minimum that moves.      *)
LEMMA ReplacedBelow ==
  ASSUME NEW ns, NEW r, Tree(ns, r), Sorted(ns), NEW l \in LinksOf(ns),
         NEW k \in DOMAIN ns, Follow(ns, r, l) = k,
         NEW p, NEW d, Searching(ns, k, p, d), ns[d].lhs = NULL,
         NEW ms, NEW q, Replaced(ns, r, l, k, p, d, ms, q)
  PROVE  /\ \A n \in DOMAIN ms \ {d}, s \in Sides : Below(ms, ms[n][s]) \subseteq Below(ns, ns[n][s]) \ {k}
         /\ Below(ms, ms[d]["lhs"]) \subseteq Below(ns, ns[k]["lhs"])
         /\ Below(ms, ms[d]["rhs"]) \subseteq Below(ns, ns[k]["rhs"]) \ {d}
<1> DEFINE D == DOMAIN ns
           x == ns[d].rhs
           ps == IF p = k THEN "rhs" ELSE "lhs"
           L == Below(ns, ns[k]["lhs"])
           R == Below(ns, ns[k]["rhs"])
<1>1. /\ NULL \notin D /\ Forest(ns) /\ DOMAIN ms = D \ {k}
      /\ ms[d]["lhs"] = ns[k]["lhs"] /\ ms[d]["rhs"] = IF p = k THEN x ELSE ns[k]["rhs"]
      /\ ns[d]["lhs"] = NULL /\ ns[d]["rhs"] = x
      /\ \A m \in D \ {k, d}, s \in Sides :
           ms[m][s] = IF l.at = m /\ l.side = s THEN d ELSE IF p = m /\ s = "lhs" THEN x ELSE ns[m][s]
  BY DEF Tree, Forest, Replaced
<1>2. /\ k # NULL /\ \A s \in Sides : ns[k][s] # k
      /\ \A m \in D, s \in Sides : ns[m][s] = k <=> l.at = m /\ l.side = s
  BY KidsOnce
<1>3. /\ p \in D /\ d \in D /\ d \in Below(ns, k)
      /\ l.at \notin {k, p, d} /\ d # k /\ p # d /\ x \notin {k, d} /\ x \in D \cup {NULL}
      /\ \A m \in D, s \in Sides : ns[m][s] = d <=> m = p /\ s = ps
  BY MinPlace
<1>4. "lhs" \in Sides /\ "rhs" \in Sides /\ k \in D /\ \A s \in Sides : s = "lhs" \/ s = "rhs"
  BY DEF Sides
<1>5. Forest(ms)
  BY ReplacedTree DEF Tree
<1>6. d \in R /\ p \in {k} \cup R /\ k \notin R /\ k \notin L /\ L \cap R = {}
  <2>1. ns[k]["lhs"] = ns[k].lhs /\ ns[k]["rhs"] = ns[k].rhs
    OBVIOUS
  <2> QED BY <1>1, <1>4, <2>1, NotBelowItself, SidesApart DEF Searching
<1>7. \A n \in D, s \in Sides : ns[n][s] \in D \cup {NULL}
  BY <1>1, KidsAre
<1>8. \A z \in D \cup {NULL} :
        /\ Below(ns, z) \subseteq D /\ z \in Below(ns, z) \cup {NULL}
        /\ \A m \in Below(ns, z) : /\ Below(ns, m) \subseteq Below(ns, z)
                                   /\ \A s \in Sides : ns[m][s] \in Below(ns, z) \cup {NULL}
  <2>1. ASSUME NEW z \in D \cup {NULL}
        PROVE  Below(ns, z) \subseteq D /\ z \in Below(ns, z) \cup {NULL}
    BY <1>1, BelowIs, BelowNull
  <2>2. ASSUME NEW z \in D \cup {NULL}, NEW m \in Below(ns, z)
        PROVE  /\ Below(ns, m) \subseteq Below(ns, z)
               /\ \A s \in Sides : ns[m][s] \in Below(ns, z) \cup {NULL}
    BY <1>1, BelowIn, KidsBelow
  <2> QED BY <2>1, <2>2
<1> HIDE DEF D, x
<1>9. ASSUME NEW n \in D \ {k, d}, NEW s \in Sides
      PROVE  Below(ms, ms[n][s]) \subseteq Below(ns, ns[n][s]) \ {k}
  <2> DEFINE B == Below(ns, ns[n][s])
             T == IF k \in B THEN B \ {k} ELSE B \ {d}
  <2>1. /\ B \subseteq D /\ ns[n][s] \in B \cup {NULL}
        /\ \A m \in B : Below(ns, m) \subseteq B /\ \A t \in Sides : ns[m][t] \in B \cup {NULL}
    BY <1>7, <1>8
  <2>2. k \in B => d \in B
    BY <1>3, <2>1
  <2> HIDE DEF B
  <2>3. d \in B => x \in B \cup {NULL}
    BY <1>1, <1>4, <2>1
  <2>4. ASSUME NEW m \in T, NEW t \in Sides PROVE ms[m][t] \in T \cup {NULL}
    <3>1. m \in B /\ m \in D \ {k} /\ ns[m][t] \in B \cup {NULL}
      BY <1>1, <2>1
    <3>2. CASE k \in B
      <4>1. CASE m = d
        BY <1>1, <1>2, <1>3, <1>4, <2>1, <2>2, <2>3, <3>2, <4>1
      <4>2. CASE m # d
        BY <1>1, <1>2, <1>3, <2>2, <2>3, <3>1, <3>2, <4>2
      <4> QED BY <4>1, <4>2
    <3>3. CASE k \notin B
      <4>1. m # d /\ ns[m][t] # k
        BY <2>1, <3>1, <3>3, <1>2
      <4>2. CASE m = p /\ t = "lhs"
        <5>1. ns[m][t] = d
          BY <1>3, <3>1, <4>2
        <5>2. ms[m][t] = x
          BY <1>1, <1>3, <3>1, <4>1, <4>2
        <5> QED BY <1>3, <2>3, <3>1, <3>3, <5>1, <5>2
      <4>3. CASE ~(m = p /\ t = "lhs")
        <5>1. ms[m][t] = ns[m][t] /\ ns[m][t] # d
          BY <1>1, <1>2, <1>3, <3>1, <4>1, <4>3
        <5> QED BY <3>1, <3>3, <5>1
      <4> QED BY <4>2, <4>3
    <3> QED BY <3>2, <3>3
  <2>5. ms[n][s] \in T \cup {NULL}
    <3>1. CASE k \in B
      BY <1>1, <1>2, <1>3, <2>1, <2>2, <2>3, <3>1
    <3>2. CASE k \notin B
      BY <1>1, <1>2, <1>3, <2>1, <2>3, <3>2
    <3> QED BY <3>1, <3>2
  <2>6. T \in SUBSET DOMAIN ms /\ T \subseteq B \ {k}
    BY <1>1, <2>1
  <2> HIDE DEF T
  <2>7. Below(ms, ms[n][s]) \subseteq T
    BY <1>5, <2>4, <2>5, <2>6, BelowWithin
  <2> QED BY <2>6, <2>7 DEF B
<1>10. Below(ms, ms[d]["lhs"]) \subseteq L
  <2>1. L \subseteq D /\ ns[k]["lhs"] \in L \cup {NULL} /\ \A m \in L, t \in Sides : ns[m][t] \in L \cup {NULL}
    BY <1>4, <1>7, <1>8
  <2>2. L \in SUBSET DOMAIN ms
    BY <1>1, <1>6, <2>1
  <2>3. ASSUME NEW m \in L, NEW t \in Sides PROVE ms[m][t] \in L \cup {NULL}
    <3>1. m \in D \ {k, d} /\ m # p /\ ns[m][t] \in L \cup {NULL}
      BY <1>6, <2>1
    <3>2. ms[m][t] = ns[m][t]
      BY <1>1, <1>2, <1>6, <3>1
    <3> QED BY <3>1, <3>2
  <2> HIDE DEF L
  <2> QED BY <1>1, <1>5, <2>1, <2>2, <2>3, BelowWithin
<1>11. Below(ms, ms[d]["rhs"]) \subseteq R \ {d}
  <2> DEFINE T == R \ {d}
  <2>1. R \subseteq D /\ ns[k]["rhs"] \in R \cup {NULL} /\ \A m \in R, t \in Sides : ns[m][t] \in R \cup {NULL}
    BY <1>4, <1>7, <1>8
  <2>2. T \in SUBSET DOMAIN ms
    BY <1>1, <1>6, <2>1
  <2>3. x \in T \cup {NULL}
    BY <1>1, <1>3, <1>4, <1>6, <2>1
  <2>4. ASSUME NEW m \in T, NEW t \in Sides PROVE ms[m][t] \in T \cup {NULL}
    <3>1. m \in D \ {k, d} /\ ns[m][t] \in R \cup {NULL} /\ ns[m][t] # k
      BY <1>2, <1>6, <2>1
    <3> QED BY <1>1, <1>2, <1>3, <1>6, <2>3, <3>1
  <2>5. ms[d]["rhs"] \in T \cup {NULL}
    BY <1>1, <1>3, <1>4, <2>1, <2>3
  <2> HIDE DEF T
  <2>6. Below(ms, ms[d]["rhs"]) \subseteq T
    BY <1>5, <2>2, <2>4, <2>5, BelowWithin
  <2> QED BY <2>6 DEF T
<1> QED BY <1>1, <1>9, <1>10, <1>11

LEMMA ReplacedSorted ==
  ASSUME NEW ns, NEW r, Tree(ns, r), Sorted(ns), NEW l \in LinksOf(ns),
         NEW k \in DOMAIN ns, Follow(ns, r, l) = k,
         NEW p, NEW d, Searching(ns, k, p, d), ns[d].lhs = NULL,
         NEW ms, NEW q, Replaced(ns, r, l, k, p, d, ms, q)
  PROVE  Sorted(ms)
<1> SUFFICES ASSUME NEW n \in DOMAIN ms
             PROVE  /\ \A m \in Below(ms, ms[n].lhs) : ms[m].key < ms[n].key
                    /\ \A m \in Below(ms, ms[n].rhs) : ms[m].key > ms[n].key
  BY DEF Sorted
<1>1. DOMAIN ms = DOMAIN ns \ {k} /\ \A m \in DOMAIN ms : ms[m].key = ns[m].key
  BY DEF Replaced
<1>2. \A m \in DOMAIN ns, s \in Sides : Below(ns, ns[m][s]) \subseteq DOMAIN ns
  BY KidsAre, BelowIs, BelowNull DEF Tree
<1>3. "lhs" \in Sides /\ "rhs" \in Sides
  BY DEF Sides
<1>4. CASE n # d
  <2>1. /\ Below(ms, ms[n]["lhs"]) \subseteq Below(ns, ns[n]["lhs"]) \ {k}
        /\ Below(ms, ms[n]["rhs"]) \subseteq Below(ns, ns[n]["rhs"]) \ {k}
    <3>1. \A m \in DOMAIN ms \ {d}, s \in Sides : Below(ms, ms[m][s]) \subseteq Below(ns, ns[m][s]) \ {k}
      BY ReplacedBelow
    <3> QED BY <1>3, <1>4, <3>1
  <2> QED BY <1>1, <1>2, <1>3, <2>1 DEF Sorted
<1>5. CASE n = d
  <2>1. /\ Below(ms, ms[d]["lhs"]) \subseteq Below(ns, ns[k]["lhs"])
        /\ Below(ms, ms[d]["rhs"]) \subseteq Below(ns, ns[k]["rhs"]) \ {d}
    BY ReplacedBelow
  <2>2. d \in DOMAIN ns /\ d \in Below(ns, ns[k]["rhs"]) /\ Forest(ns)
    BY MinPlace DEF Searching, Tree
  <2>3. ns[d].key > ns[k].key /\ ns[d].key \in Int /\ ns[k].key \in Int
    BY <2>2, KidsAre DEF Sorted
  <2>4. ASSUME NEW m \in Below(ms, ms[d]["lhs"]) PROVE ms[m].key < ms[d].key
    <3>1. m \in DOMAIN ns /\ ns[m].key < ns[k].key /\ ns[m].key \in Int /\ m # k
      <4>1. m \in DOMAIN ns /\ ns[m].key < ns[k].key
        BY <1>2, <1>3, <2>1, <2>4 DEF Sorted
      <4> QED BY <2>2, <2>3, <4>1, KidsAre
    <3> QED BY <1>1, <1>5, <2>3, <3>1
  <2>5. ASSUME NEW m \in Below(ms, ms[d]["rhs"]) PROVE ms[m].key > ms[d].key
    <3>1. m \in DOMAIN ns /\ m \in Below(ns, ns[k]["rhs"]) \ {d}
      BY <1>2, <1>3, <2>1, <2>5
    <3>2. ns[m].key > ns[d].key
      <4>1. CASE m \notin Below(ns, d)
        BY <3>1, <4>1 DEF Searching
      <4>2. CASE m \in Below(ns, d)
        <5>1. m \in Below(ns, ns[d].rhs)
          BY <2>2, <3>1, <4>2, BelowStep, BelowNull
        <5> QED BY <2>2, <5>1 DEF Sorted
      <4> QED BY <4>1, <4>2
    <3>3. m # k
      BY <2>2, <3>1, <1>3, NotBelowItself
    <3> QED BY <1>1, <1>5, <3>1, <3>2, <3>3
  <2> QED BY <1>5, <2>4, <2>5
<1> QED BY <1>4, <1>5

(* One assignment to a child pointer.                                      *)
SetTo(ns, ms, D, N, k, side, x) ==
  /\ ms \in [D -> Node(N)]
  /\ \A m \in D : /\ ms[m].key = ns[m].key /\ ms[m].vals = ns[m].vals /\ ms[m].cap = ns[m].cap
                  /\ \A s \in Sides : ms[m][s] = IF m = k /\ s = side THEN x ELSE ns[m][s]

LEMMA SetIs ==
  ASSUME NEW D, NEW N, NEW ns \in [D -> Node(N)], NEW k \in D, NEW side \in Sides, NEW x \in N \cup {NULL}
  PROVE  SetTo(ns, [ns EXCEPT ![k][side] = x], D, N, k, side, x)
<1> DEFINE y == [ns[k] EXCEPT ![side] = x]
           ms == [ns EXCEPT ![k] = y]
<1>1. ns[k] \in Node(N)
  OBVIOUS
<1>2. /\ y \in Node(N) /\ y.key = ns[k].key /\ y.vals = ns[k].vals /\ y.cap = ns[k].cap
      /\ \A s \in Sides : y[s] = IF s = side THEN x ELSE ns[k][s]
  BY <1>1 DEF Node, Sides
<1>3. [ns EXCEPT ![k][side] = x] = ms
  OBVIOUS
<1> HIDE DEF y
<1>4. ms \in [D -> Node(N)] /\ \A m \in D : ms[m] = IF m = k THEN y ELSE ns[m]
  BY <1>2
<1> HIDE DEF ms
<1>5. SetTo(ns, ms, D, N, k, side, x)
  BY <1>2, <1>4 DEF SetTo
<1> QED BY <1>3, <1>5

(* The four pointers that change, and current on its own.                  *)
Cut == [nodes EXCEPT ![parent][MinSide] = nodes[min].rhs]
Moved == Relink(Cut, link, min)
Joined == [Moved EXCEPT ![min].lhs = Cut[current].lhs, ![min].rhs = Cut[current].rhs]
Kept == free_subsequent_nodes(Detached(Joined), current)

LEMMA WithMinimum ==
  ASSUME Tree(nodes, root), Sorted(nodes), link \in LinksOf(nodes), current \in DOMAIN nodes,
         Searching(nodes, current, parent, min), nodes[min].lhs = NULL
  PROVE  Replaced(nodes, root, link, current, parent, min, Kept, RootWith(link, min))
<1> DEFINE D == DOMAIN nodes
           k == current
           x == nodes[min].rhs
           left == [Moved EXCEPT ![min]["lhs"] = Cut[k].lhs]
           part == [Joined EXCEPT ![k]["lhs"] = NULL]
           alone == [part EXCEPT ![k]["rhs"] = NULL]
<1>1. nodes \in [D -> Node(D)] /\ NULL \notin D /\ "lhs" \in Sides /\ "rhs" \in Sides /\ MinSide \in Sides
  BY DEF Tree, Forest, Sides, MinSide
<1>2. Follow(nodes, root, link) = k
  BY DEF Follow, current, Deref
<1>3. /\ parent \in D /\ min \in D /\ link.at \notin {k, parent, min} /\ min # k /\ parent # min
      /\ x \notin {k, min} /\ x \in D \cup {NULL}
  BY <1>2, MinPlace
<1>4. /\ k # NULL /\ \A s \in Sides : nodes[k][s] # k
      /\ \A m \in D, s \in Sides : nodes[m][s] = k <=> link.at = m /\ link.side = s
  BY <1>2, KidsOnce
<1>5. (link.at # NULL => link.at \in D /\ link.side \in Sides) /\ k \in D
  BY LinkIs
<1> HIDE DEF D
<1>6. SetTo(nodes, Cut, D, D, parent, MinSide, x)
  BY <1>1, <1>3, SetIs DEF Cut
<1>7. Cut \in [D -> Node(D)] /\ Cut[k].lhs \in D \cup {NULL} /\ Cut[k].rhs \in D \cup {NULL}
  BY <1>5, <1>6 DEF SetTo, Node
<1>8. /\ Moved \in [D -> Node(D)]
      /\ \A m \in D : /\ Moved[m].key = Cut[m].key /\ Moved[m].vals = Cut[m].vals /\ Moved[m].cap = Cut[m].cap
                      /\ \A s \in Sides : Moved[m][s] = IF link.at = m /\ link.side = s THEN min ELSE Cut[m][s]
  <2>1. CASE link.at = NULL
    BY <1>1, <1>7, <2>1 DEF Moved, Relink
  <2>2. CASE link.at # NULL
    <3>1. SetTo(Cut, Moved, D, D, link.at, link.side, min)
      BY <1>3, <1>5, <1>7, <2>2, SetIs DEF Moved, Relink
    <3> QED BY <3>1 DEF SetTo
  <2> QED BY <2>1, <2>2
<1>9. SetTo(Moved, left, D, D, min, "lhs", Cut[k].lhs)
  BY <1>1, <1>3, <1>7, <1>8, SetIs
<1>10. SetTo(left, Joined, D, D, min, "rhs", Cut[k].rhs)
  <2>1. Joined = [left EXCEPT ![min]["rhs"] = Cut[k].rhs]
    BY DEF Joined
  <2>2. left \in [D -> Node(D)]
    BY <1>9 DEF SetTo
  <2> HIDE DEF left
  <2> QED BY <1>1, <1>3, <1>7, <2>1, <2>2, SetIs
<1>11. SetTo(Joined, part, D, D, k, "lhs", NULL)
  BY <1>1, <1>5, <1>10, SetIs DEF SetTo
<1>12. SetTo(part, alone, D, D, k, "rhs", NULL) /\ alone = Detached(Joined)
  <2>1. part \in [D -> Node(D)]
    BY <1>11 DEF SetTo
  <2>2. alone = Detached(Joined)
    BY DEF Detached
  <2> HIDE DEF part
  <2> QED BY <1>1, <1>5, <2>1, <2>2, SetIs
<1> HIDE DEF left, part, alone
<1>13. DOMAIN alone = D /\ alone[k].lhs = NULL /\ alone[k].rhs = NULL
  BY <1>1, <1>5, <1>11, <1>12 DEF SetTo
<1>14. Below(alone, k) = {k}
  BY <1>4, <1>5, <1>13, BelowLeaf
<1>15. Kept = [m \in D \ {k} |-> alone[m]]
  BY <1>12, <1>13, <1>14 DEF Kept, free_subsequent_nodes, Restrict
<1>16. ASSUME NEW m \in D \ {k}
       PROVE  /\ alone[m].key = nodes[m].key /\ alone[m].vals = nodes[m].vals /\ alone[m].cap = nodes[m].cap
              /\ alone[m] \in Node(D)
              /\ \A s \in Sides : alone[m][s] = IF m = min THEN Cut[k][s] ELSE Moved[m][s]
  BY <1>1, <1>6, <1>8, <1>9, <1>10, <1>11, <1>12 DEF SetTo, Sides
<1>17. Cut[k]["lhs"] = nodes[k]["lhs"] /\ Cut[k]["rhs"] = IF parent = k THEN x ELSE nodes[k]["rhs"]
  BY <1>1, <1>5, <1>6 DEF SetTo, MinSide
<1>18. \A m \in D \ {k, min}, s \in Sides :
          Moved[m][s] = IF link.at = m /\ link.side = s THEN min
                        ELSE IF parent = m /\ s = "lhs" THEN x ELSE nodes[m][s]
  BY <1>6, <1>8 DEF SetTo, MinSide
<1>19. ASSUME NEW m \in D \ {k} PROVE alone[m] \in Node(D \ {k})
  <2>1. \A s \in Sides : alone[m][s] # k
    BY <1>1, <1>3, <1>4, <1>5, <1>16, <1>17, <1>18 DEF Sides
  <2> QED BY <1>1, <1>16, <2>1 DEF Node
<1> HIDE DEF k, x
<1>20. DOMAIN Kept = D \ {k} /\ Kept \in [D \ {k} -> Node(D \ {k})] /\ \A m \in D \ {k} : Kept[m] = alone[m]
  BY <1>15, <1>19
<1>21. min \in D \ {k}
  BY <1>3
<1>22. /\ Kept[min].lhs = nodes[k].lhs
       /\ Kept[min].rhs = IF parent = k THEN x ELSE nodes[k].rhs
  BY <1>1, <1>16, <1>17, <1>20, <1>21
<1>23. \A m \in D \ {k, min}, s \in Sides :
          Kept[m][s] = IF link.at = m /\ link.side = s THEN min
                        ELSE IF parent = m /\ s = "lhs" THEN x ELSE nodes[m][s]
  BY <1>16, <1>18, <1>20
<1> QED BY <1>16, <1>20, <1>22, <1>23 DEF Replaced, RootWith, D, k, x

-------------------------------------------------------------------------------
(* The same tree with node k in the cell c, which may be k itself.         *)
Renamed(k, c, n) == IF n = k THEN c ELSE n

Rewritten(ns, r, k, c, ms, q) ==
  /\ c # NULL /\ (c = k \/ c \notin DOMAIN ns)
  /\ q = Renamed(k, c, r) /\ DOMAIN ms = (DOMAIN ns \ {k}) \cup {c} /\ Forest(ms)
  /\ \A m \in DOMAIN ns : /\ ms[Renamed(k, c, m)].key = ns[m].key
                          /\ \A s \in Sides : ms[Renamed(k, c, m)][s] = Renamed(k, c, ns[m][s])

LEMMA RewrittenTree ==
  ASSUME NEW ns, NEW r, Tree(ns, r), NEW k \in DOMAIN ns, NEW c, NEW ms, NEW q,
         Rewritten(ns, r, k, c, ms, q)
  PROVE  Tree(ms, q)
<1> DEFINE D == DOMAIN ns
           E == DOMAIN ms
           f(m) == Renamed(k, c, m)
<1>1. /\ NULL \notin D /\ NULL \notin E /\ E = (D \ {k}) \cup {c} /\ c # NULL /\ (c = k \/ c \notin D)
      /\ Forest(ms) /\ q = f(r) /\ \A m \in D, s \in Sides : ms[f(m)][s] = f(ns[m][s])
  BY DEF Rewritten, Tree, Forest
<1>2. /\ r \in D \cup {NULL} /\ \A m \in D, s \in Sides : ns[m][s] # NULL => ns[m][s] # r
      /\ \A m, n \in D, s, t \in Sides : ns[m][s] # NULL /\ ns[m][s] = ns[n][t] => m = n /\ s = t
  BY DEF Tree
<1>3. \A m \in D, s \in Sides : ns[m][s] \in D \cup {NULL}
  BY KidsAre DEF Tree
<1>4. \A T \in SUBSET D : r \in T \cup {NULL} /\ (\A m \in T, s \in Sides : ns[m][s] \in T \cup {NULL}) => T = D
  BY ClosedSides DEF Tree
<1>5. k \in D /\ IsFiniteSet(D)
  BY DEF Tree
<1> HIDE DEF D
<1>6. IsFiniteSet(E)
  <2>1. IsFiniteSet(D \ {k})
    BY <1>5, FS_RemoveElement
  <2>2. IsFiniteSet((D \ {k}) \cup {c})
    BY <2>1, FS_AddElement
  <2> HIDE DEF E
  <2> QED BY <1>1, <2>2
<1> HIDE DEF E
<1>7. /\ \A m \in D \cup {NULL} : f(m) \in E \cup {NULL}
      /\ \A m \in D : f(m) \in E
      /\ \A m, n \in D \cup {NULL} : f(m) = f(n) => m = n
      /\ \A e \in E : \E m \in D : f(m) = e
      /\ f(NULL) = NULL
  BY <1>1, <1>5 DEF Renamed
<1> HIDE DEF f
<1>8. ASSUME NEW a \in E, NEW s \in Sides, ms[a][s] # NULL PROVE ms[a][s] # q
  <2>1. PICK m \in D : f(m) = a
    BY <1>7
  <2> QED BY <1>1, <1>2, <1>3, <1>7, <1>8, <2>1
<1>9. ASSUME NEW a \in E, NEW b \in E, NEW s \in Sides, NEW t \in Sides,
             ms[a][s] # NULL, ms[a][s] = ms[b][t]
      PROVE  a = b /\ s = t
  <2>1. PICK m \in D, n \in D : f(m) = a /\ f(n) = b
    BY <1>7
  <2> QED BY <1>1, <1>2, <1>3, <1>7, <1>9, <2>1
<1>10. ASSUME NEW S \in SUBSET E, q \in S \cup {NULL}, Closed(ms, S) PROVE S = E
  <2> DEFINE T == {m \in D : f(m) \in S}
  <2>1. \A a \in S, s \in Sides : ms[a][s] \in S \cup {NULL}
    BY <1>10, ClosedSides
  <2>2. \A v \in D \cup {NULL} : f(v) \in S \cup {NULL} => v \in T \cup {NULL}
    BY <1>1, <1>7
  <2>3. ASSUME NEW m \in T, NEW s \in Sides PROVE ns[m][s] \in T \cup {NULL}
    BY <1>1, <1>3, <2>1, <2>2
  <2>4. r \in T \cup {NULL} /\ T \in SUBSET D
    BY <1>1, <1>2, <1>10, <2>2
  <2>5. \A m \in T : f(m) \in S
    OBVIOUS
  <2> HIDE DEF T
  <2>6. T = D
    BY <1>4, <2>3, <2>4
  <2> QED BY <1>7, <2>5, <2>6
<1> QED BY <1>1, <1>2, <1>6, <1>7, <1>8, <1>9, <1>10 DEF Tree, E

LEMMA RewrittenSorted ==
  ASSUME NEW ns, NEW r, Tree(ns, r), Sorted(ns), NEW k \in DOMAIN ns, NEW c, NEW ms, NEW q,
         Rewritten(ns, r, k, c, ms, q)
  PROVE  Sorted(ms)
<1> DEFINE D == DOMAIN ns
           E == DOMAIN ms
           f(m) == Renamed(k, c, m)
<1>1. /\ NULL \notin D /\ E = (D \ {k}) \cup {c} /\ c # NULL /\ (c = k \/ c \notin D)
      /\ Forest(ms) /\ Forest(ns)
      /\ \A m \in D : ms[f(m)].key = ns[m].key /\ \A s \in Sides : ms[f(m)][s] = f(ns[m][s])
  BY DEF Rewritten, Tree, Forest
<1>2. \A m \in D, s \in Sides : ns[m][s] \in D \cup {NULL}
  BY KidsAre DEF Tree
<1>3. k \in D /\ "lhs" \in Sides /\ "rhs" \in Sides
  BY DEF Sides
<1> HIDE DEF D, E
<1>4. /\ \A m \in D \cup {NULL} : f(m) \in E \cup {NULL}
      /\ \A m \in D : f(m) \in E
      /\ \A e \in E : \E m \in D : f(m) = e
      /\ f(NULL) = NULL
  BY <1>1, <1>3 DEF Renamed
<1> HIDE DEF f
<1>5. ASSUME NEW n \in D, NEW s \in Sides
      PROVE  \A a \in Below(ms, f(ns[n][s])) : \E m \in Below(ns, ns[n][s]) : m \in D /\ f(m) = a
  <2> DEFINE B == Below(ns, ns[n][s])
             T == {a \in E : \E m \in B : f(m) = a}
  <2>1. ns[n][s] \in D \cup {NULL}
    BY <1>2
  <2>2. B \subseteq D /\ ns[n][s] \in B \cup {NULL}
    BY <1>1, <2>1, BelowIs, BelowNull DEF D
  <2>3. \A m \in B, t \in Sides : ns[m][t] \in B \cup {NULL}
    BY <1>1, <2>1, KidsBelow DEF D
  <2> HIDE DEF B
  <2>4. \A m \in B \cup {NULL} : f(m) \in T \cup {NULL}
    BY <1>4, <2>2
  <2>5. \A a \in T : \E m \in B : f(m) = a
    OBVIOUS
  <2>6. T \in SUBSET E
    OBVIOUS
  <2> HIDE DEF T
  <2>7. ASSUME NEW a \in T, NEW t \in Sides PROVE ms[a][t] \in T \cup {NULL}
    BY <1>1, <2>2, <2>3, <2>4, <2>5
  <2>8. f(ns[n][s]) \in T \cup {NULL}
    BY <2>2, <2>4
  <2>9. Below(ms, f(ns[n][s])) \subseteq T
    BY <1>1, <2>6, <2>7, <2>8, BelowWithin DEF E
  <2> QED BY <2>2, <2>5, <2>9 DEF B
<1>6. ASSUME NEW a \in E
      PROVE  /\ \A b \in Below(ms, ms[a]["lhs"]) : ms[b].key < ms[a].key
             /\ \A b \in Below(ms, ms[a]["rhs"]) : ms[b].key > ms[a].key
  <2>1. PICK n \in D : f(n) = a
    BY <1>4
  <2>2. /\ ms[a]["lhs"] = f(ns[n]["lhs"]) /\ ms[a]["rhs"] = f(ns[n]["rhs"]) /\ ms[a].key = ns[n].key
    BY <1>1, <1>3, <2>1
  <2>3. /\ \A b \in Below(ms, ms[a]["lhs"]) : \E m \in Below(ns, ns[n]["lhs"]) : m \in D /\ f(m) = b
        /\ \A b \in Below(ms, ms[a]["rhs"]) : \E m \in Below(ns, ns[n]["rhs"]) : m \in D /\ f(m) = b
    BY <1>3, <1>5, <2>2
  <2>4. /\ \A m \in Below(ns, ns[n]["lhs"]) : ns[m].key < ns[n].key
        /\ \A m \in Below(ns, ns[n]["rhs"]) : ns[m].key > ns[n].key
    BY DEF Sorted, D
  <2> QED BY <1>1, <2>2, <2>3, <2>4
<1> QED BY <1>6 DEF Sorted, E

-------------------------------------------------------------------------------
(* A tree of kind x: sorted, every cell named after its own key, with      *)
(* values of that kind and the room they need.                             *)
Holds(ns, x, n) ==
  /\ ns[n].key \in KeysOf[x] /\ n \in {<<ns[n].key, 0>>, <<ns[n].key, 1>>}
  /\ ns[n].vals \in Seq(ValsOf(x)) \ {<<>>}
  /\ x = "multimap" => Len(ns[n].vals) <= ns[n].cap
  /\ x \in {"set", "map"} => Len(ns[n].vals) = 1

Distinct(ns) == \A m, n \in DOMAIN ns : ns[m].key = ns[n].key => m = n

Sound(ns, r, x) ==
  Tree(ns, r) /\ Sorted(ns) /\ Distinct(ns) /\ \A n \in DOMAIN ns : Holds(ns, x, n)

Total(ns) == Sum(ns, DOMAIN ns)

LEMMA HeldIs ==
  ASSUME NEW ns, NEW r, NEW x, Sound(ns, r, x)
  PROVE  /\ IsFiniteSet(DOMAIN ns) /\ \A n \in DOMAIN ns : Held(ns, n) \in Nat /\ Held(ns, n) > 0
         /\ Total(ns) \in Nat /\ \A n \in DOMAIN ns : Held(ns, n) <= Total(ns)
<1>1. IsFiniteSet(DOMAIN ns)
  BY DEF Sound, Tree
<1>2. ASSUME NEW n \in DOMAIN ns PROVE Held(ns, n) \in Nat /\ Held(ns, n) > 0
  BY DEF Sound, Holds, Held
<1> QED BY <1>1, <1>2, SumType, SumAtLeast DEF Total

(* A new node that belongs where l points to.                              *)
Fresh(ns, x, l, c, node) ==
  /\ node \in Node({}) /\ node.key \in KeysOf[x] /\ node.vals \in Seq(ValsOf(x))
  /\ Len(node.vals) = 1 /\ node.cap >= 1
  /\ c \in {<<node.key, 0>>, <<node.key, 1>>} /\ c # NULL /\ c \notin DOMAIN ns
  /\ \A n \in DOMAIN ns : /\ ns[n].key # node.key
                          /\ Lies(ns, l, n, "lhs") => node.key < ns[n].key
                          /\ Lies(ns, l, n, "rhs") => node.key > ns[n].key

LEMMA InsertedSound ==
  ASSUME NEW x, NEW ns, NEW r, Sound(ns, r, x), NEW l \in LinksOf(ns), Follow(ns, r, l) = NULL,
         NEW c, NEW node, Fresh(ns, x, l, c, node), NEW ms, NEW q, Inserted(ns, r, l, c, node, ms, q)
  PROVE  Sound(ms, q, x) /\ Total(ms) = Total(ns) + 1
<1> DEFINE D == DOMAIN ns
<1>1. Tree(ns, r) /\ Sorted(ns) /\ Distinct(ns) /\ \A n \in D : Holds(ns, x, n)
  BY DEF Sound
<1>2. /\ node \in Node({}) /\ node.key \in KeysOf[x] /\ node.vals \in Seq(ValsOf(x))
      /\ Len(node.vals) = 1 /\ node.cap >= 1 /\ node.cap \in Nat /\ node.vals # <<>>
      /\ c \in {<<node.key, 0>>, <<node.key, 1>>} /\ c # NULL /\ c \notin D
      /\ \A n \in D : ns[n].key # node.key
  <2>1. Len(<<>>) = 0
    OBVIOUS
  <2> QED BY <2>1 DEF Fresh, Node
<1>3. /\ DOMAIN ms = D \cup {c} /\ ms[c] = node
      /\ \A m \in D : ms[m].key = ns[m].key /\ ms[m].vals = ns[m].vals /\ ms[m].cap = ns[m].cap
  BY DEF Inserted
<1> HIDE DEF D
<1>5. Tree(ms, q)
  BY <1>1, <1>2, InsertedTree DEF D
<1>6. Sorted(ms)
  <2>1. \A n \in DOMAIN ns : /\ Lies(ns, l, n, "lhs") => node.key < ns[n].key
                             /\ Lies(ns, l, n, "rhs") => node.key > ns[n].key
    BY DEF Fresh
  <2> QED BY <1>1, <1>2, <2>1, InsertedSorted DEF D
<1>7. Distinct(ms)
  BY <1>1, <1>2, <1>3 DEF Distinct, D
<1>8. \A n \in DOMAIN ms : Holds(ms, x, n)
  <2>1. ASSUME NEW n \in D PROVE Holds(ms, x, n)
    BY <1>1, <1>3 DEF Holds
  <2>2. Holds(ms, x, c)
    BY <1>2, <1>3 DEF Holds
  <2> QED BY <1>3, <2>1, <2>2
<1>9. Sound(ms, q, x)
  BY <1>5, <1>6, <1>7, <1>8 DEF Sound
<1>10. Total(ms) = Total(ns) + 1
  <2>1. IsFiniteSet(DOMAIN ms) /\ \A n \in DOMAIN ms : Held(ms, n) \in Nat
    BY <1>9, HeldIs
  <2>2. Sum(ms, DOMAIN ms) = Held(ms, c) + Sum(ms, DOMAIN ms \ {c})
    <3>1. c \in DOMAIN ms
      BY <1>3
    <3> QED BY <2>1, <3>1, SumWithout
  <2>3. DOMAIN ms \ {c} = D
    BY <1>2, <1>3
  <2>4. Sum(ns, D) = Sum(ms, D)
    <3>1. IsFiniteSet(D) /\ \A n \in D : Held(ns, n) = Held(ms, n)
      BY <1>1, <1>3 DEF Tree, Held, D
    <3> QED BY <3>1, SumSame
  <2>5. Held(ms, c) = 1
    BY <1>2, <1>3 DEF Held
  <2>6. Total(ns) \in Nat
    BY HeldIs
  <2> QED BY <2>2, <2>3, <2>4, <2>5, <2>6 DEF Total, D
<1> QED BY <1>9, <1>10

(* What is left when node k is gone.                                       *)
LEMMA RemovedSound ==
  ASSUME NEW x, NEW ns, NEW r, Sound(ns, r, x), NEW k \in DOMAIN ns, NEW ms, NEW q,
         Tree(ms, q), Sorted(ms), DOMAIN ms = DOMAIN ns \ {k},
         \A m \in DOMAIN ms : ms[m].key = ns[m].key /\ ms[m].vals = ns[m].vals /\ ms[m].cap = ns[m].cap
  PROVE  Sound(ms, q, x) /\ Total(ms) = Sum(ns, DOMAIN ns \ {k})
<1>1. Distinct(ms) /\ \A n \in DOMAIN ms : Holds(ms, x, n)
  BY DEF Sound, Distinct, Holds
<1>2. Sound(ms, q, x)
  BY <1>1 DEF Sound
<1>3. Sum(ms, DOMAIN ms) = Sum(ns, DOMAIN ms)
  <2>1. IsFiniteSet(DOMAIN ms) /\ \A n \in DOMAIN ms : Held(ms, n) = Held(ns, n)
    BY DEF Tree, Held
  <2> HIDE DEF Held
  <2> QED BY <2>1, SumSame
<1> QED BY <1>2, <1>3 DEF Total

(* What holds when node k holds something else, in cell c.                 *)
Refilled(ns, x, k, c, ms) ==
  /\ c \in {<<ns[k].key, 0>>, <<ns[k].key, 1>>}
  /\ \A m \in DOMAIN ns \ {k} : ms[m].vals = ns[m].vals /\ ms[m].cap = ns[m].cap
  /\ ms[c].vals \in Seq(ValsOf(x)) \ {<<>>}
  /\ x = "multimap" => Len(ms[c].vals) <= ms[c].cap
  /\ x \in {"set", "map"} => Len(ms[c].vals) = 1

LEMMA RewrittenSound ==
  ASSUME NEW x, NEW ns, NEW r, Sound(ns, r, x), NEW k \in DOMAIN ns, NEW c, NEW ms, NEW q,
         Rewritten(ns, r, k, c, ms, q), Refilled(ns, x, k, c, ms)
  PROVE  Sound(ms, q, x) /\ Total(ms) = Len(ms[c].vals) + Sum(ns, DOMAIN ns \ {k})
<1> DEFINE D == DOMAIN ns
<1>1. Tree(ns, r) /\ Sorted(ns) /\ Distinct(ns) /\ \A n \in D : Holds(ns, x, n)
  BY DEF Sound
<1>2. /\ c # NULL /\ (c = k \/ c \notin D) /\ DOMAIN ms = (D \ {k}) \cup {c} /\ k \in D
      /\ ms[c].key = ns[k].key /\ \A m \in D \ {k} : ms[m].key = ns[m].key
  BY DEF Rewritten, Renamed
<1>3. Tree(ms, q) /\ Sorted(ms)
  BY <1>1, RewrittenTree, RewrittenSorted
<1> HIDE DEF D
<1>4. Distinct(ms)
  BY <1>1, <1>2 DEF Distinct, D
<1>5. \A n \in DOMAIN ms : Holds(ms, x, n)
  <2>1. ASSUME NEW n \in D \ {k} PROVE Holds(ms, x, n)
    BY <1>1, <1>2 DEF Holds, Refilled, D
  <2>2. Holds(ms, x, c)
    BY <1>1, <1>2 DEF Holds, Refilled
  <2> QED BY <1>2, <2>1, <2>2
<1>6. Sound(ms, q, x)
  BY <1>3, <1>4, <1>5 DEF Sound
<1>7. Sum(ms, DOMAIN ms) = Held(ms, c) + Sum(ms, DOMAIN ms \ {c})
  <2>1. IsFiniteSet(DOMAIN ms) /\ (\A n \in DOMAIN ms : Held(ms, n) \in Nat) /\ c \in DOMAIN ms
    BY <1>2, <1>6, HeldIs
  <2> QED BY <2>1, SumWithout
<1>8. DOMAIN ms \ {c} = D \ {k}
  BY <1>2
<1>9. Sum(ms, D \ {k}) = Sum(ns, D \ {k})
  <2>1. IsFiniteSet(D \ {k}) /\ \A n \in D \ {k} : Held(ms, n) = Held(ns, n)
    BY <1>1, FS_RemoveElement DEF Tree, Held, Refilled, D
  <2> QED BY <2>1, SumSame
<1> QED BY <1>6, <1>7, <1>8, <1>9 DEF Total, Held, D

-------------------------------------------------------------------------------
(* The invariant.  While a key is looked for, the link at hand lies on the *)
(* side of every node where that key belongs, and a node with the key is   *)
(* below it.                                                               *)
Asked ==
  /\ arg.key \in KeysOf[kind]
  /\ op \in {"put", "put_if_absent"} => arg.val \in ValsOf(kind) /\ (Multi => len < MaxLen)
  /\ op = "remove_some" => arg.lo \in Nat /\ arg.hi \in Nat /\ (kind = "multimap" => arg.lo < arg.hi)

Route == \A n \in DOMAIN nodes : /\ Lies(nodes, link, n, "lhs") => arg.key < nodes[n].key
                                 /\ Lies(nodes, link, n, "rhs") => arg.key > nodes[n].key
Sought == \A n \in DOMAIN nodes : nodes[n].key = arg.key => n \in Below(nodes, current)

Idle == pc = "idle" /\ link = RootLink /\ parent = NULL /\ min = NULL
Finding == pc = "find" /\ parent = NULL /\ min = NULL /\ Asked /\ Route /\ Sought
Splicing ==
  /\ pc = "min" /\ current \in DOMAIN nodes /\ nodes[current].key = arg.key
  /\ nodes[current].lhs # NULL /\ Searching(nodes, current, parent, min)

TreesInv ==
  /\ kind \in Kinds /\ Sound(nodes, root, kind) /\ len = Sum(nodes, Stored) /\ link \in LinksOf(nodes)
  /\ Idle \/ Finding \/ Splicing

(* What a call with the key y leaves alone.                                *)
Others(ns, ms, y) ==
  /\ \A n \in DOMAIN ns : ns[n].key # y => /\ n \in DOMAIN ms
                                           /\ ms[n].key = ns[n].key /\ ms[n].vals = ns[n].vals
  /\ \A n \in DOMAIN ms : ms[n].key # y => n \in DOMAIN ns /\ ns[n].key = ms[n].key

(* What the key y has afterwards, or that it has nothing.                  *)
Got(ms, y, w) == \E n \in DOMAIN ms : ms[n].key = y /\ ms[n].vals = w
Gone(ms, y) == \A n \in DOMAIN ms : ms[n].key # y

LEMMA InvFacts ==
  ASSUME TreesInv
  PROVE  /\ kind \in Kinds /\ Sound(nodes, root, kind) /\ link \in LinksOf(nodes)
         /\ Tree(nodes, root) /\ Sorted(nodes) /\ Forest(nodes) /\ NULL \notin DOMAIN nodes
         /\ Follow(nodes, root, link) = current /\ current \in DOMAIN nodes \cup {NULL}
         /\ pc # "min" => len = Total(nodes) /\ len \in Nat
         /\ \A n \in DOMAIN nodes : Holds(nodes, kind, n) /\ nodes[n].cap \in Nat
<1>1. Follow(nodes, root, link) = current
  BY DEF Follow, current, Deref
<1>2. Tree(nodes, root) /\ Sorted(nodes) /\ Forest(nodes) /\ NULL \notin DOMAIN nodes
  BY DEF TreesInv, Sound, Tree, Forest
<1>3. current \in DOMAIN nodes \cup {NULL}
  BY <1>1, <1>2, LinkIs DEF TreesInv
<1>4. pc # "min" => len = Total(nodes) /\ len \in Nat
  BY HeldIs DEF TreesInv, Stored, Total
<1>5. \A n \in DOMAIN nodes : Holds(nodes, kind, n) /\ nodes[n].cap \in Nat
  BY <1>2 DEF TreesInv, Sound, Forest, Node
<1> QED BY <1>1, <1>2, <1>3, <1>4, <1>5 DEF TreesInv

LEMMA FoundFacts ==
  ASSUME TreesInv, pc = "find", current # NULL, nodes[current].key = arg.key
  PROVE  /\ current \in DOMAIN nodes /\ current \in {<<arg.key, 0>>, <<arg.key, 1>>}
         /\ Weight \in Nat /\ Weight > 0 /\ len \in Nat /\ len >= Weight
         /\ nodes[current].vals \in Seq(ValsOf(kind)) \ {<<>>}
         /\ kind = "multimap" => Weight <= nodes[current].cap
         /\ kind \in {"set", "map"} => Weight = 1
         /\ len - Weight = Sum(nodes, DOMAIN nodes \ {current})
         /\ \A n \in DOMAIN nodes : nodes[n].key # arg.key <=> n # current
<1>1. current \in DOMAIN nodes /\ Holds(nodes, kind, current) /\ len = Total(nodes) /\ len \in Nat
  BY InvFacts
<1>2. Held(nodes, current) = Weight
  BY DEF Held, Weight
<1>3. Weight \in Nat /\ Weight > 0 /\ Weight <= len
  BY <1>1, <1>2, HeldIs DEF TreesInv
<1>4. len - Weight = Sum(nodes, DOMAIN nodes \ {current})
  <2>1. IsFiniteSet(DOMAIN nodes) /\ \A n \in DOMAIN nodes : Held(nodes, n) \in Nat
    BY HeldIs DEF TreesInv
  <2>2. Total(nodes) = Weight + Sum(nodes, DOMAIN nodes \ {current})
    BY <1>1, <1>2, <2>1, SumWithout DEF Total
  <2>3. Sum(nodes, DOMAIN nodes \ {current}) \in Nat
    BY <2>1, FS_RemoveElement, SumType
  <2> QED BY <1>1, <1>3, <2>2, <2>3
<1>5. Distinct(nodes)
  BY DEF TreesInv, Sound
<1> QED BY <1>1, <1>3, <1>4, <1>5 DEF Holds, Distinct, Weight

LEMMA AddedSound ==
  ASSUME TreesInv, pc = "find", op \in {"put", "put_if_absent"}, current = NULL,
         NEW c, c = FreeCell(arg.key), NEW ms,
         ms = Relink(With(nodes, c, create_new_node(arg.key, arg.val)), link, c)
  PROVE  /\ Sound(ms, RootWith(link, c), kind) /\ Total(ms) = len + 1
         /\ Others(nodes, ms, arg.key) /\ Got(ms, arg.key, <<arg.val>>)
<1> DEFINE a == IF kind = "multimap" THEN TMMAP_GROW(1) ELSE 1
           node == [key |-> arg.key, vals |-> <<arg.val>>, cap |-> a, lhs |-> NULL, rhs |-> NULL]
<1>1. Asked /\ Route /\ Sought
  BY DEF TreesInv, Idle, Finding, Splicing
<1>2. /\ kind \in Kinds /\ Sound(nodes, root, kind) /\ link \in LinksOf(nodes)
      /\ Follow(nodes, root, link) = NULL /\ len = Total(nodes) /\ len \in Nat
      /\ \A n \in DOMAIN nodes : Holds(nodes, kind, n)
  BY InvFacts
<1>3. arg.key \in KeysOf[kind] /\ arg.val \in ValsOf(kind) /\ (Multi => len < MaxLen)
  BY <1>1 DEF Asked
<1>4. a \in Nat /\ a >= 1
  BY <1>2, <1>3, GrowAssumption, MaxLenAssumption DEF Multi
<1>5. \A n \in DOMAIN nodes : nodes[n].key # arg.key
  BY <1>1, BelowNull DEF Sought
<1>6. c \in {<<arg.key, 0>>, <<arg.key, 1>>} /\ c \notin DOMAIN nodes
  BY <1>2, <1>5 DEF FreeCell, Holds
<1>7. c # NULL
  <2>1. arg.key \in Keys
    BY <1>2, <1>3 DEF Keys
  <2> QED BY <1>6, <2>1, NullAssumption DEF Cell
<1>8. node \in Node({})
  <2>1. arg.key \in Int /\ arg.val \in Vals \cup {NULL}
    BY <1>2, <1>3, KeysAssumption DEF ValsOf
  <2> HIDE DEF a
  <2> QED BY <1>4, <2>1 DEF Node
<1>9. create_new_node(arg.key, arg.val) = node
  BY DEF create_new_node
<1> HIDE DEF a, node
<1>10. Inserted(nodes, root, link, c, node, ms, RootWith(link, c))
  <2>1. RootWith(link, c) = IF link.at = NULL THEN c ELSE root
    BY DEF RootWith
  <2>2. Tree(nodes, root)
    BY <1>2 DEF Sound
  <2> QED BY <1>2, <1>6, <1>7, <1>8, <1>9, <2>1, <2>2, WithLeaf
<1>11. /\ node.key = arg.key /\ node.vals = <<arg.val>> /\ node.cap = a
  BY DEF node
<1>12. Fresh(nodes, kind, link, c, node)
  <2>1. /\ node.key \in KeysOf[kind] /\ node.vals \in Seq(ValsOf(kind)) /\ Len(node.vals) = 1 /\ node.cap >= 1
        /\ c \in {<<node.key, 0>>, <<node.key, 1>>}
    BY <1>3, <1>4, <1>6, <1>11
  <2>2. \A n \in DOMAIN nodes : /\ nodes[n].key # node.key
                                /\ Lies(nodes, link, n, "lhs") => node.key < nodes[n].key
                                /\ Lies(nodes, link, n, "rhs") => node.key > nodes[n].key
    BY <1>1, <1>5, <1>11 DEF Route
  <2> QED BY <1>6, <1>7, <1>8, <2>1, <2>2 DEF Fresh
<1>13. Sound(ms, RootWith(link, c), kind) /\ Total(ms) = Total(nodes) + 1
  BY <1>2, <1>10, <1>12, InsertedSound
<1>14. Others(nodes, ms, arg.key) /\ Got(ms, arg.key, <<arg.val>>)
  <2>1. /\ DOMAIN ms = DOMAIN nodes \cup {c} /\ ms[c].key = arg.key /\ ms[c].vals = <<arg.val>>
        /\ \A m \in DOMAIN nodes : ms[m].key = nodes[m].key /\ ms[m].vals = nodes[m].vals
    BY <1>10, <1>11 DEF Inserted
  <2> QED BY <2>1 DEF Others, Got
<1> QED BY <1>2, <1>13, <1>14

LEMMA PulledSound ==
  ASSUME TreesInv, pc = "find", current # NULL, nodes[current].key = arg.key,
         NEW side \in Sides, NEW other \in Sides, side # other, nodes[current][other] = NULL,
         NEW ms, ms = free_subsequent_nodes(
                        [Relink(nodes, link, nodes[current][side]) EXCEPT ![current][side] = NULL], current)
  PROVE  /\ Sound(ms, RootWith(link, nodes[current][side]), kind) /\ Total(ms) = len - Weight
         /\ Others(nodes, ms, arg.key) /\ Gone(ms, arg.key)
<1> PICK q : q = RootWith(link, nodes[current][side])
  OBVIOUS
<1>1. /\ Tree(nodes, root) /\ Sorted(nodes) /\ Sound(nodes, root, kind) /\ link \in LinksOf(nodes)
      /\ Follow(nodes, root, link) = current
  BY InvFacts
<1>2. /\ current \in DOMAIN nodes /\ len - Weight = Sum(nodes, DOMAIN nodes \ {current})
      /\ \A n \in DOMAIN nodes : nodes[n].key # arg.key <=> n # current
  BY FoundFacts
<1>3. q = IF link.at = NULL THEN nodes[current][side] ELSE root
  BY DEF RootWith
<1>4. Spliced(nodes, root, link, current, side, ms, q)
  BY <1>1, <1>2, <1>3, WithoutNode
<1>5. Tree(ms, q) /\ Sorted(ms)
  BY <1>1, <1>2, <1>4, SplicedTree, SplicedSorted
<1>6. /\ DOMAIN ms = DOMAIN nodes \ {current}
      /\ \A m \in DOMAIN ms : ms[m].key = nodes[m].key /\ ms[m].vals = nodes[m].vals /\ ms[m].cap = nodes[m].cap
  BY <1>4 DEF Spliced
<1>7. Sound(ms, q, kind) /\ Total(ms) = Sum(nodes, DOMAIN nodes \ {current})
  BY <1>1, <1>2, <1>5, <1>6, RemovedSound
<1>8. Others(nodes, ms, arg.key) /\ Gone(ms, arg.key)
  BY <1>2, <1>6 DEF Others, Gone
<1> QED BY <1>2, <1>7, <1>8

LEMMA MinSound ==
  ASSUME TreesInv, pc = "min", nodes[min].lhs = NULL
  PROVE  /\ Sound(Kept, RootWith(link, min), kind) /\ Total(Kept) = len
         /\ Others(nodes, Kept, arg.key) /\ Gone(Kept, arg.key)
<1> PICK q, ms : q = RootWith(link, min) /\ ms = Kept
  OBVIOUS
<1>1. /\ Tree(nodes, root) /\ Sorted(nodes) /\ Sound(nodes, root, kind) /\ link \in LinksOf(nodes)
      /\ Follow(nodes, root, link) = current
  BY InvFacts
<1>2. /\ current \in DOMAIN nodes /\ nodes[current].key = arg.key /\ Searching(nodes, current, parent, min)
      /\ len = Sum(nodes, DOMAIN nodes \ {current})
  BY DEF TreesInv, Idle, Finding, Splicing, Stored
<1>3. Replaced(nodes, root, link, current, parent, min, ms, q)
  BY <1>1, <1>2, WithMinimum
<1>4. Tree(ms, q) /\ Sorted(ms)
  BY <1>1, <1>2, <1>3, ReplacedTree, ReplacedSorted
<1>5. /\ DOMAIN ms = DOMAIN nodes \ {current}
      /\ \A m \in DOMAIN ms : ms[m].key = nodes[m].key /\ ms[m].vals = nodes[m].vals /\ ms[m].cap = nodes[m].cap
  BY <1>3 DEF Replaced
<1>6. Sound(ms, q, kind) /\ Total(ms) = len
  BY <1>1, <1>2, <1>4, <1>5, RemovedSound
<1>7. Others(nodes, ms, arg.key) /\ Gone(ms, arg.key)
  <2>1. \A n \in DOMAIN nodes : nodes[n].key = arg.key => n = current
    BY <1>1, <1>2 DEF Sound, Distinct
  <2> QED BY <1>2, <1>5, <2>1 DEF Others, Gone
<1> QED BY <1>6, <1>7

LEMMA ValsSound ==
  ASSUME TreesInv, pc = "find", current # NULL, nodes[current].key = arg.key,
         NEW w \in Seq(ValsOf(kind)) \ {<<>>}, kind = "multimap" => Len(w) <= nodes[current].cap,
         kind \in {"set", "map"} => Len(w) = 1,
         NEW ms, ms = [nodes EXCEPT ![current].vals = w]
  PROVE  /\ Sound(ms, root, kind) /\ Total(ms) = len - Weight + Len(w)
         /\ Others(nodes, ms, arg.key) /\ Got(ms, arg.key, w)
<1> DEFINE D == DOMAIN nodes
           y == [nodes[current] EXCEPT !.vals = w]
<1>1. Sound(nodes, root, kind) /\ Forest(nodes) /\ NULL \notin D /\ root \in D \cup {NULL}
  BY InvFacts DEF Tree
<1>2. /\ current \in D /\ len - Weight = Sum(nodes, D \ {current})
      /\ current \in {<<arg.key, 0>>, <<arg.key, 1>>}
      /\ \A n \in D : nodes[n].key # arg.key <=> n # current
  BY FoundFacts
<1>3. nodes \in [D -> Node(D)] /\ nodes[current] \in Node(D)
  BY <1>1, <1>2 DEF Forest
<1>4. w \in Seq(Vals \cup {NULL})
  BY DEF ValsOf
<1>5. /\ y \in Node(D) /\ y.key = nodes[current].key /\ y.cap = nodes[current].cap /\ y.vals = w
      /\ \A s \in Sides : y[s] = nodes[current][s]
  BY <1>3, <1>4 DEF Node, Sides
<1>6. ms = [nodes EXCEPT ![current] = y]
  OBVIOUS
<1> HIDE DEF y
<1>7. DOMAIN ms = D /\ ms \in [D -> Node(D)] /\ ms[current] = y /\ \A m \in D \ {current} : ms[m] = nodes[m]
  BY <1>2, <1>3, <1>5, <1>6
<1>8. Rewritten(nodes, root, current, current, ms, root)
  <2>1. Forest(ms)
    BY <1>1, <1>7 DEF Forest
  <2>2. \A m \in D : ms[m].key = nodes[m].key /\ \A s \in Sides : ms[m][s] = nodes[m][s]
    BY <1>5, <1>7
  <2>3. \A m : Renamed(current, current, m) = m
    BY DEF Renamed
  <2>4. current # NULL /\ DOMAIN ms = (D \ {current}) \cup {current}
    BY <1>1, <1>2, <1>7
  <2> QED BY <2>1, <2>2, <2>3, <2>4 DEF Rewritten
<1>9. /\ ms[current].vals = w
      /\ \A m \in D \ {current} : ms[m].vals = nodes[m].vals /\ ms[m].cap = nodes[m].cap
      /\ Refilled(nodes, kind, current, current, ms)
  BY <1>2, <1>5, <1>7 DEF Refilled
<1> HIDE DEF D
<1>10. Sound(ms, root, kind) /\ Total(ms) = Len(w) + Sum(nodes, D \ {current})
  <2> PICK c, v, q : c = current /\ v = ms /\ q = root
    OBVIOUS
  <2>1. Rewritten(nodes, root, current, c, v, q) /\ Refilled(nodes, kind, current, c, v)
    BY <1>8, <1>9
  <2>2. Sound(v, q, kind) /\ Total(v) = Len(v[c].vals) + Sum(nodes, DOMAIN nodes \ {current})
    <3>1. Sound(nodes, root, kind) /\ current \in DOMAIN nodes
      BY <1>1, <1>2 DEF D
    <3> QED BY ONLY <2>1, <3>1, RewrittenSound
  <2> QED BY <1>9, <2>2 DEF D
<1>11. Len(w) \in Nat /\ Sum(nodes, D \ {current}) \in Int
  <2>1. len \in Nat /\ Weight \in Nat
    BY FoundFacts
  <2> QED BY <1>2, <2>1
<1>12. Others(nodes, ms, arg.key) /\ Got(ms, arg.key, w)
  BY <1>2, <1>5, <1>7 DEF Others, Got, D
<1> QED BY <1>2, <1>10, <1>11, <1>12

LEMMA Appended ==
  ASSUME NEW S, NEW s \in Seq(S), NEW v \in S
  PROVE  Append(s, v) \in Seq(S) \ {<<>>} /\ Len(Append(s, v)) = Len(s) + 1
<1>1. Append(s, v) \in Seq(S) /\ Len(Append(s, v)) = Len(s) + 1 /\ Len(s) \in Nat /\ Len(<<>>) = 0
  OBVIOUS
<1> QED BY <1>1

LEMMA ResizedSound ==
  ASSUME TreesInv, pc = "find", op = "put", kind = "multimap", current # NULL, nodes[current].key = arg.key,
         NEW c \in {current, FreeCell(arg.key)}, Resized(c)
  PROVE  /\ Sound(nodes', root', kind) /\ Total(nodes') = len + 1
         /\ Others(nodes, nodes', arg.key) /\ Got(nodes', arg.key, OneMore)
<1> DEFINE D == DOMAIN nodes
           k == current
           node == [nodes[k] EXCEPT !.vals = OneMore, !.cap = TMMAP_GROW(NewSize)]
           rest == With(Restrict(nodes, D \ {k}), c, node)
           ms == Relink(rest, link, c)
           E == (D \ {k}) \cup {c}
<1>1. /\ Tree(nodes, root) /\ Sorted(nodes) /\ Sound(nodes, root, kind) /\ Forest(nodes) /\ NULL \notin D
      /\ link \in LinksOf(nodes) /\ Follow(nodes, root, link) = k /\ root \in D \cup {NULL}
  BY InvFacts DEF Tree
<1>2. /\ k \in D /\ len - Weight = Sum(nodes, D \ {k}) /\ k \in {<<arg.key, 0>>, <<arg.key, 1>>}
      /\ Weight \in Nat /\ len \in Nat /\ Weight <= len /\ nodes[k].vals \in Seq(ValsOf(kind))
      /\ \A n \in D : nodes[n].key # arg.key <=> n # k
  BY FoundFacts
<1>3. arg.key \in KeysOf[kind] /\ arg.val \in ValsOf(kind) /\ len < MaxLen
  BY DEF TreesInv, Idle, Finding, Splicing, Asked, Multi
<1>4. c \in {<<arg.key, 0>>, <<arg.key, 1>>} /\ (c = k \/ c \notin D) /\ c # NULL
  <2>1. \A n \in D : nodes[n].key = arg.key => n = k
    BY <1>2
  <2>2. \A n \in D : Holds(nodes, kind, n)
    BY <1>1 DEF Sound
  <2>3. \A n \in D : n \in {<<arg.key, 0>>, <<arg.key, 1>>} => n = k
    BY <2>1, <2>2 DEF Holds
  <2>4. c \in {<<arg.key, 0>>, <<arg.key, 1>>} /\ (c = k \/ c \notin D)
    BY <1>2, <2>3 DEF FreeCell
  <2>5. arg.key \in Keys
    BY <1>3 DEF Keys, TreesInv
  <2> QED BY <2>4, <2>5, NullAssumption DEF Cell
<1>5. OneMore \in Seq(ValsOf(kind)) \ {<<>>} /\ Len(OneMore) = Weight + 1 /\ OneMore \in Seq(Vals \cup {NULL})
  <2>1. OneMore \in Seq(ValsOf(kind)) \ {<<>>} /\ Len(OneMore) = Weight + 1
    BY <1>2, <1>3, Appended DEF OneMore, Weight
  <2> QED BY <2>1 DEF ValsOf
<1>6. TMMAP_GROW(NewSize) \in Nat /\ TMMAP_GROW(NewSize) >= Weight + 1
  <2>1. NewSize = Weight + 1
    BY DEF NewSize, Weight
  <2>2. NewSize \in 1 .. MaxLen
    BY <1>2, <1>3, <2>1, MaxLenAssumption
  <2> QED BY <2>1, <2>2, GrowAssumption
<1>7. /\ nodes[k] \in Node(D) /\ \A s \in Sides : nodes[k][s] # k
      /\ link.at # k /\ (link.at = NULL <=> root = k)
      /\ \A m \in D, s \in Sides : nodes[m][s] = k <=> link.at = m /\ link.side = s
  BY <1>1, <1>2, KidsOnce DEF Forest
<1>8. /\ node.key = nodes[k].key /\ node.vals = OneMore /\ node.cap = TMMAP_GROW(NewSize)
      /\ node \in Node(D) /\ \A s \in Sides : node[s] = nodes[k][s]
  BY <1>5, <1>6, <1>7 DEF Node, Sides
<1>9. nodes' = ms /\ root' = RootWith(link, c)
  BY DEF Resized
<1> HIDE DEF node
<1>10. DOMAIN rest = E /\ rest[c] = node /\ \A m \in D \ {k} : m # c => rest[m] = nodes[m]
  BY <1>2 DEF With, Restrict
<1>11. \A m \in D \ {k} : m # c
  BY <1>4
<1>12. rest = [m \in E |-> IF m = c THEN node ELSE nodes[m]]
  BY <1>11 DEF With, Restrict
<1>13. link.at # NULL => link.at \in D \ {k} /\ link.side \in Sides /\ link.at # c /\ link.at \in E
  BY <1>1, <1>7, <1>11, LinkIs
<1>14. rest \in [E -> Node(D \cup {c})]
  <2>1. \A m \in D : nodes[m] \in Node(D)
    BY <1>1 DEF Forest
  <2> QED BY <1>8, <1>12, <2>1 DEF Node
<1> HIDE DEF rest, D, E
<1>15. /\ ms \in [E -> Node(D \cup {c})]
       /\ \A m \in E : /\ ms[m].key = rest[m].key /\ ms[m].vals = rest[m].vals /\ ms[m].cap = rest[m].cap
                       /\ \A s \in Sides : ms[m][s] = IF link.at = m /\ link.side = s THEN c ELSE rest[m][s]
  <2>1. CASE link.at = NULL
    <3>1. NULL \notin E
      BY <1>1, <1>4 DEF E
    <3> QED BY <1>14, <2>1, <3>1 DEF Relink
  <2>2. CASE link.at # NULL
    <3>1. SetTo(rest, ms, E, D \cup {c}, link.at, link.side, c)
      BY <1>13, <1>14, <2>2, SetIs DEF Relink
    <3> QED BY <3>1 DEF SetTo
  <2> QED BY <2>1, <2>2
<1> HIDE DEF ms
<1>16. c \in E /\ \A m \in D \ {k} : m \in E
  BY DEF E
<1>17. /\ ms[c].key = nodes[k].key /\ ms[c].vals = OneMore /\ ms[c].cap = TMMAP_GROW(NewSize)
       /\ \A s \in Sides : ms[c][s] = nodes[k][s]
  BY <1>4, <1>8, <1>10, <1>13, <1>15, <1>16
<1>18. \A m \in D \ {k} : /\ ms[m].key = nodes[m].key /\ ms[m].vals = nodes[m].vals /\ ms[m].cap = nodes[m].cap
                            /\ \A s \in Sides : ms[m][s] = Renamed(k, c, nodes[m][s])
  BY <1>7, <1>10, <1>11, <1>15, <1>16 DEF Renamed
<1>19. Forest(ms)
  <2>1. \A m \in D, s \in Sides : Renamed(k, c, nodes[m][s]) \in E \cup {NULL}
    BY <1>1, KidsAre DEF Renamed, D, E
  <2>2. \A m \in E, s \in Sides : ms[m][s] \in E \cup {NULL}
    BY <1>2, <1>7, <1>17, <1>18, <2>1 DEF E, Renamed
  <2>3. \A m \in E : ms[m] \in Node(E)
    BY <1>15, <2>2 DEF Node, Sides
  <2>4. NULL \notin E
    BY <1>1, <1>4 DEF E
  <2> QED BY <1>15, <2>3, <2>4 DEF Forest
<1>20. Rewritten(nodes, root, k, c, ms, root')
  <2>1. root' = Renamed(k, c, root)
    BY <1>1, <1>7, <1>9 DEF RootWith, Renamed
  <2>2. DOMAIN ms = (DOMAIN nodes \ {k}) \cup {c}
    BY <1>15 DEF E, D
  <2> QED BY <1>4, <1>7, <1>17, <1>18, <1>19, <2>1, <2>2 DEF Rewritten, Renamed, D
<1>21. Refilled(nodes, kind, k, c, ms)
  <2>1. nodes[k].key = arg.key
    OBVIOUS
  <2> QED BY <1>4, <1>5, <1>6, <1>17, <1>18, <2>1 DEF Refilled, D
<1>22. Sound(ms, root', kind) /\ Total(ms) = Len(ms[c].vals) + Sum(nodes, DOMAIN nodes \ {k})
  BY <1>1, <1>2, <1>20, <1>21, RewrittenSound DEF D
<1>23. Total(ms) = len + 1
  BY <1>2, <1>5, <1>17, <1>22 DEF D
<1>24. Others(nodes, ms, arg.key) /\ Got(ms, arg.key, OneMore)
  <2>1. DOMAIN ms = (D \ {k}) \cup {c} /\ ms[c].key = arg.key /\ ms[c].vals = OneMore
    BY <1>15, <1>17 DEF E
  <2>2. \A n \in D : n # k <=> nodes[n].key # arg.key
    BY <1>2
  <2>3. \A n \in DOMAIN ms : ms[n].key # arg.key => n \in D \ {k}
    BY <2>1
  <2>4. \A n \in D \ {k} : n \in DOMAIN ms /\ ms[n].key = nodes[n].key /\ ms[n].vals = nodes[n].vals
    BY <1>18, <2>1
  <2> QED BY <2>1, <2>2, <2>3, <2>4 DEF Others, Got, D
<1> QED BY <1>9, <1>22, <1>23, <1>24

-------------------------------------------------------------------------------
(* What the end of a call leaves, and what it leaves alone.                *)
Outcome == TreesInv' /\ Others(nodes, nodes', arg.key)

LEMMA Ending ==
  ASSUME TreesInv, kind' = kind, Sound(nodes', root', kind), len' = Total(nodes'),
         NEW b, NEW n, NEW s, Return(b, n, s)
  PROVE  TreesInv'
<1>1. Idle' /\ link' = RootLink
  BY DEF Return, Idle
<1>2. Stored' = DOMAIN nodes' /\ RootLink \in LinksOf(nodes')
  BY <1>1 DEF Stored, Idle, LinksOf
<1> QED BY <1>1, <1>2 DEF TreesInv, Total

LEMMA EndsUnchanged ==
  ASSUME TreesInv, pc # "min", UNCHANGED <<tree, kind>>, NEW b, NEW n, NEW s, Return(b, n, s)
  PROVE  Outcome
<1>1. Sound(nodes', root', kind) /\ len' = Total(nodes') /\ kind' = kind
  BY InvFacts DEF tree
<1>2. Others(nodes, nodes', arg.key)
  BY DEF Others, tree
<1> QED BY <1>1, <1>2, Ending DEF Outcome

LEMMA AddNodeKeeps ==
  ASSUME TreesInv, NEW o \in {"put", "put_if_absent"}, Missed(o), AddNode
  PROVE  Outcome
<1>1. pc = "find" /\ current = NULL /\ op \in {"put", "put_if_absent"}
  BY DEF Missed
<1>2. CASE Return(FALSE, 0, <<>>) /\ UNCHANGED <<tree, call>>
  BY <1>1, <1>2, EndsUnchanged DEF call
<1>3. ASSUME NEW c, c = FreeCell(arg.key),
             nodes' = Relink(With(nodes, c, create_new_node(arg.key, arg.val)), link, c),
             root' = RootWith(link, c), len' = len + 1, Return(TRUE, 0, <<>>), UNCHANGED call
      PROVE  Outcome
  <2>1. Sound(nodes', root', kind) /\ Total(nodes') = len + 1 /\ Others(nodes, nodes', arg.key)
    BY <1>1, <1>3, AddedSound
  <2>2. kind' = kind
    BY <1>3 DEF call
  <2> QED BY <1>3, <2>1, <2>2, Ending DEF Outcome
<1> QED BY <1>2, <1>3 DEF AddNode

LEMMA ValsKeep ==
  ASSUME TreesInv, pc = "find", current # NULL, nodes[current].key = arg.key,
         NEW w \in Seq(ValsOf(kind)) \ {<<>>}, kind = "multimap" => Len(w) <= nodes[current].cap,
         kind \in {"set", "map"} => Len(w) = 1,
         nodes' = [nodes EXCEPT ![current].vals = w], len' = len - Weight + Len(w),
         UNCHANGED <<root, kind>>, NEW b, NEW n, NEW s, Return(b, n, s)
  PROVE  Outcome
<1>1. Sound(nodes', root, kind) /\ Total(nodes') = len - Weight + Len(w) /\ Others(nodes, nodes', arg.key)
  BY ValsSound
<1> QED BY <1>1, Ending DEF Outcome

LEMMA PullUpKeeps ==
  ASSUME TreesInv, pc = "find", current # NULL, nodes[current].key = arg.key,
         NEW side \in Sides, NEW other \in Sides, side # other, PullUp(side, other),
         len' = len - Weight, kind' = kind, NEW b, NEW n, NEW s, Return(b, n, s)
  PROVE  Outcome
<1>1. /\ nodes[current][other] = NULL /\ root' = RootWith(link, nodes[current][side])
      /\ nodes' = free_subsequent_nodes(
                    [Relink(nodes, link, nodes[current][side]) EXCEPT ![current][side] = NULL], current)
  BY DEF PullUp
<1>2. Sound(nodes', root', kind) /\ Total(nodes') = len - Weight /\ Others(nodes, nodes', arg.key)
  BY <1>1, PulledSound
<1> QED BY <1>2, Ending DEF Outcome

LEMMA RemoveKeeps ==
  ASSUME TreesInv, pc = "find", current # NULL, nodes[current].key = arg.key,
         NEW n, remove_node(n), len' = len - Weight, UNCHANGED call
  PROVE  Outcome
<1>1. "lhs" \in Sides /\ "rhs" \in Sides /\ kind' = kind
  BY DEF Sides, call
<1>2. CASE PullUp("rhs", "lhs") /\ Return(TRUE, n, <<>>)
  BY <1>1, <1>2, PullUpKeeps
<1>3. CASE nodes[current].lhs # NULL /\ PullUp("lhs", "rhs") /\ Return(TRUE, n, <<>>)
  BY <1>1, <1>3, PullUpKeeps
<1>4. CASE /\ nodes[current].lhs # NULL /\ nodes[current].rhs # NULL
           /\ pc' = "min" /\ parent' = current /\ min' = nodes[current].rhs
           /\ UNCHANGED <<root, nodes, ret, link>>
  <2>1. /\ kind \in Kinds /\ Sound(nodes, root, kind) /\ link \in LinksOf(nodes)
        /\ current \in DOMAIN nodes /\ len - Weight = Sum(nodes, DOMAIN nodes \ {current})
        /\ Forest(nodes)
    BY InvFacts, FoundFacts
  <2>2. Searching(nodes, current, current, nodes[current].rhs)
    BY <1>4, <2>1, SearchStarts
  <2>3. current' = current /\ arg' = arg /\ nodes' = nodes
    BY <1>4 DEF current, Deref, call
  <2>4. Splicing'
    BY <1>4, <2>1, <2>2, <2>3 DEF Splicing
  <2>5. Stored' = DOMAIN nodes \ {current}
    BY <1>4, <2>3 DEF Stored
  <2>6. TreesInv'
    BY <1>1, <1>4, <2>1, <2>4, <2>5 DEF TreesInv
  <2> QED BY <2>3, <2>6 DEF Outcome, Others
<1> QED BY <1>2, <1>3, <1>4 DEF remove_node

LEMMA PutsKeep ==
  ASSUME TreesInv, tset_put \/ tmap_put \/ tmset_put \/ tmmap_put
  PROVE  Outcome
<1>1. CASE Missed("put") /\ AddNode
  BY <1>1, AddNodeKeeps
<1>2. CASE Hit("put")
  <2>1. pc = "find" /\ pc # "min" /\ current # NULL /\ nodes[current].key = arg.key /\ op = "put"
    BY <1>2 DEF Hit
  <2>2. /\ current \in DOMAIN nodes /\ Weight \in Nat /\ len \in Nat
        /\ nodes[current].vals \in Seq(ValsOf(kind)) \ {<<>>}
        /\ kind = "multimap" => Weight <= nodes[current].cap
        /\ kind \in {"set", "map"} => Weight = 1
    BY <2>1, FoundFacts
  <2>3. arg.val \in ValsOf(kind)
    BY <2>1 DEF TreesInv, Idle, Finding, Splicing, Asked
  <2>4. OneMore \in Seq(ValsOf(kind)) \ {<<>>} /\ Len(OneMore) = Weight + 1
    BY <2>2, <2>3, Appended DEF OneMore, Weight
  <2>5. CASE UNCHANGED <<tree, call>> /\ \E b, n, s : Return(b, n, s)
    BY <2>1, <2>5, EndsUnchanged DEF call
  <2>6. CASE /\ kind = "map" /\ nodes' = [nodes EXCEPT ![current].vals = <<arg.val>>]
             /\ Return(TRUE, 0, <<>>) /\ UNCHANGED <<len, root, call>>
    <3>1. <<arg.val>> \in Seq(ValsOf(kind)) \ {<<>>} /\ Len(<<arg.val>>) = 1
      BY <2>3
    <3>2. len' = len - Weight + Len(<<arg.val>>) /\ UNCHANGED <<root, kind>>
      BY <2>2, <2>6, <3>1 DEF call
    <3> QED BY <2>1, <2>6, <3>1, <3>2, ValsKeep
  <2>7. CASE /\ kind \in {"multiset", "multimap"} /\ (kind = "multimap" => nodes[current].cap >= NewSize)
             /\ nodes' = [nodes EXCEPT ![current].vals = OneMore] /\ len' = len + 1
             /\ Return(TRUE, 0, <<>>) /\ UNCHANGED <<root, call>>
    <3>1. kind = "multimap" => Len(OneMore) <= nodes[current].cap
      BY <2>2, <2>4, <2>7, InvFacts DEF NewSize, Weight
    <3>2. len' = len - Weight + Len(OneMore) /\ UNCHANGED <<root, kind>>
      BY <2>2, <2>4, <2>7 DEF call
    <3> QED BY <2>1, <2>4, <2>7, <3>1, <3>2, ValsKeep
  <2>8. ASSUME kind = "multimap", NEW c \in {current, FreeCell(arg.key)}, Resized(c), len' = len + 1,
               Return(TRUE, 0, <<>>), UNCHANGED call
        PROVE  Outcome
    <3>1. Sound(nodes', root', kind) /\ Total(nodes') = len + 1 /\ Others(nodes, nodes', arg.key)
      BY <2>1, <2>8, ResizedSound
    <3> QED BY <2>8, <3>1, Ending DEF Outcome, call
  <2> QED BY <1>2, <2>5, <2>6, <2>7, <2>8 DEF tset_put, tmap_put, tmset_put, tmmap_put, Missed, Hit
<1> QED BY <1>1, <1>2 DEF tset_put, tmap_put, tmset_put, tmmap_put

LEMMA PutsIfAbsentKeep ==
  ASSUME TreesInv,
         tset_put_if_absent \/ tmap_put_if_absent \/ tmset_put_if_absent \/ tmmap_put_if_absent
  PROVE  Outcome
<1>1. PutIfAbsent
  BY DEF tset_put_if_absent, tmap_put_if_absent, tmset_put_if_absent, tmmap_put_if_absent
<1>2. CASE Missed("put_if_absent") /\ AddNode
  BY <1>2, AddNodeKeeps
<1>3. CASE Hit("put_if_absent") /\ Return(FALSE, 0, <<>>) /\ UNCHANGED <<tree, call>>
  BY <1>3, EndsUnchanged DEF Hit, call
<1> QED BY <1>1, <1>2, <1>3 DEF PutIfAbsent

LEMMA RemovesKeep ==
  ASSUME TreesInv, tset_remove \/ tmap_remove \/ tmset_remove \/ tmmap_remove
  PROVE  Outcome
<1>1. Remove
  BY DEF tset_remove, tmap_remove, tmset_remove, tmmap_remove
<1>2. CASE Missed("remove") /\ Return(FALSE, 0, <<>>) /\ UNCHANGED <<tree, call>>
  BY <1>2, EndsUnchanged DEF Missed, call
<1>3. CASE Hit("remove") /\ len' = len - Weight /\ remove_node(0) /\ UNCHANGED call
  BY <1>3, RemoveKeeps DEF Hit
<1> QED BY <1>1, <1>2, <1>3 DEF Remove

LEMMA ShortenKeeps ==
  ASSUME TreesInv, kind \in {"multiset", "multimap"}, Hit("remove_some"),
         NEW n \in Nat, NEW w \in Seq(ValsOf(kind)), Len(w) = Weight - n, n < Weight, Shorten(w, n)
  PROVE  Outcome
<1>1. pc = "find" /\ current # NULL /\ nodes[current].key = arg.key
  BY DEF Hit
<1>2. Weight \in Nat /\ len \in Nat /\ (kind = "multimap" => Weight <= nodes[current].cap)
  BY <1>1, FoundFacts
<1>3. w # <<>> /\ (kind = "multimap" => Len(w) <= nodes[current].cap)
  <2>1. Len(<<>>) = 0 /\ Len(w) > 0 /\ Len(w) <= Weight
    BY <1>2
  <2>2. kind = "multimap" => nodes[current].cap \in Nat
    BY <1>1, FoundFacts, InvFacts
  <2> QED BY <1>2, <2>1, <2>2
<1>4. len' = len - Weight + Len(w) /\ UNCHANGED <<root, kind>>
  BY <1>2 DEF Shorten, call
<1>5. nodes' = [nodes EXCEPT ![current].vals = w] /\ Return(TRUE, n, <<>>)
  BY DEF Shorten
<1>6. w \in Seq(ValsOf(kind)) \ {<<>>} /\ ~(kind \in {"set", "map"})
  BY <1>3
<1> QED BY ONLY TreesInv, <1>1, <1>3, <1>4, <1>5, <1>6, ValsKeep

LEMMA Parts ==
  ASSUME NEW S, NEW s \in Seq(S), NEW i \in 0 .. Len(s), NEW j \in 0 .. Len(s)
  PROVE  /\ SubSeq(s, 1, i) \in Seq(S) /\ Len(SubSeq(s, 1, i)) = i
         /\ SubSeq(s, 1, i) \o SubSeq(s, j + 1, Len(s)) \in Seq(S)
         /\ Len(SubSeq(s, 1, i) \o SubSeq(s, j + 1, Len(s))) = i + Len(s) - j
<1>1. Len(s) \in Nat /\ \A k \in 1 .. Len(s) : s[k] \in S
  OBVIOUS
<1>2. SubSeq(s, 1, i) \in Seq(S) /\ Len(SubSeq(s, 1, i)) = i
  <2>1. 1 \in Int /\ i \in Int /\ \A k \in 1 .. i : s[k] \in S
    BY <1>1
  <2>2. SubSeq(s, 1, i) \in Seq(S) /\ Len(SubSeq(s, 1, i)) = IF 1 <= i THEN i - 1 + 1 ELSE 0
    BY <2>1, SubSeqProperties
  <2> QED BY <2>2
<1>3. SubSeq(s, j + 1, Len(s)) \in Seq(S) /\ Len(SubSeq(s, j + 1, Len(s))) = Len(s) - j
  <2>1. j + 1 \in Int /\ Len(s) \in Int /\ \A k \in (j + 1) .. Len(s) : s[k] \in S
    BY <1>1
  <2>2. /\ SubSeq(s, j + 1, Len(s)) \in Seq(S)
        /\ Len(SubSeq(s, j + 1, Len(s))) = IF j + 1 <= Len(s) THEN Len(s) - (j + 1) + 1 ELSE 0
    BY <2>1, SubSeqProperties
  <2> QED BY <1>1, <2>2
<1>4. /\ SubSeq(s, 1, i) \o SubSeq(s, j + 1, Len(s)) \in Seq(S)
      /\ Len(SubSeq(s, 1, i) \o SubSeq(s, j + 1, Len(s))) = Len(SubSeq(s, 1, i)) + Len(SubSeq(s, j + 1, Len(s)))
  <2> DEFINE t == SubSeq(s, 1, i)
             u == SubSeq(s, j + 1, Len(s))
  <2>1. t \in Seq(S) /\ u \in Seq(S)
    BY <1>2, <1>3
  <2> HIDE DEF t, u
  <2>2. t \o u \in Seq(S) /\ Len(t \o u) = Len(t) + Len(u)
    BY <2>1
  <2> QED BY <2>2 DEF t, u
<1> QED BY <1>1, <1>2, <1>3, <1>4

LEMMA RemoveSomeKeep ==
  ASSUME TreesInv, tmset_remove_count \/ tmmap_remove_values
  PROVE  Outcome
<1>1. CASE Missed("remove_some") /\ Nothing
  BY <1>1, EndsUnchanged DEF Missed, Nothing, call
<1>2. CASE Hit("remove_some")
  <2>1. pc = "find" /\ op = "remove_some" /\ current # NULL /\ nodes[current].key = arg.key
    BY <1>2 DEF Hit
  <2>2. /\ Weight \in Nat /\ Weight > 0 /\ nodes[current].vals \in Seq(ValsOf(kind))
        /\ Weight = Len(nodes[current].vals)
    BY <2>1, FoundFacts DEF Weight
  <2>3. arg.lo \in Nat /\ arg.hi \in Nat /\ (kind = "multimap" => arg.lo < arg.hi)
    BY <2>1 DEF TreesInv, Idle, Finding, Splicing, Asked
  <2>4. CASE Nothing
    BY <2>1, <2>4, EndsUnchanged DEF Nothing, call
  <2>5. CASE len' = len - Weight /\ remove_node(Weight) /\ UNCHANGED call
    BY <2>1, <2>5, RemoveKeeps
  <2>6. CASE /\ kind = "multiset" /\ Weight > arg.hi
             /\ Shorten(SubSeq(nodes[current].vals, 1, Weight - arg.hi), arg.hi)
    <3> DEFINE v == nodes[current].vals
               i == Weight - arg.hi
               w == SubSeq(v, 1, i)
    <3>1. i \in 0 .. Len(v)
      BY <2>2, <2>3, <2>6
    <3>2. w \in Seq(ValsOf(kind)) /\ Len(w) = i
      BY <2>2, <3>1, Parts
    <3> HIDE DEF w
    <3>3. Shorten(w, arg.hi) /\ Len(w) = Weight - arg.hi /\ arg.hi < Weight
      BY <2>2, <2>3, <2>6, <3>2 DEF w
    <3> QED BY <1>2, <2>3, <2>6, <3>2, <3>3, ShortenKeeps
  <2>7. CASE /\ kind = "multimap" /\ arg.lo < Weight /\ ~(MaxIdx = Weight /\ arg.lo = 0)
             /\ LET v == nodes[current].vals
                IN  Shorten(SubSeq(v, 1, arg.lo) \o SubSeq(v, MaxIdx + 1, Weight), MaxIdx - arg.lo)
    <3> DEFINE v == nodes[current].vals
               w == SubSeq(v, 1, arg.lo) \o SubSeq(v, MaxIdx + 1, Weight)
               n == MaxIdx - arg.lo
    <3>1. /\ arg.lo \in 0 .. Len(v) /\ MaxIdx \in 0 .. Len(v) /\ n \in Nat /\ n < Weight
      BY <2>2, <2>3, <2>7 DEF MaxIdx
    <3>2. w \in Seq(ValsOf(kind)) /\ Len(w) = arg.lo + Weight - MaxIdx
      BY <2>2, <3>1, Parts
    <3>3. Shorten(w, n)
      BY <2>7
    <3> HIDE DEF w
    <3>4. Len(w) = Weight - n
      BY <2>2, <2>3, <3>1, <3>2
    <3> HIDE DEF n
    <3> QED BY <1>2, <2>7, <3>1, <3>2, <3>3, <3>4, ShortenKeeps
  <2> QED BY <1>2, <2>4, <2>5, <2>6, <2>7 DEF tmset_remove_count, tmmap_remove_values, Missed, Hit
<1> QED BY <1>1, <1>2 DEF tmset_remove_count, tmmap_remove_values

LEMMA GetsKeep ==
  ASSUME TreesInv, Get \/ GetOrDefault
  PROVE  Outcome
<1>1. pc = "find" /\ UNCHANGED <<tree, call>> /\ \E b, n, s : Return(b, n, s)
  BY DEF Get, GetOrDefault, Missed, Hit
<1> QED BY <1>1, EndsUnchanged DEF call

LEMMA MinEndsKeeps ==
  ASSUME TreesInv, MinEnds
  PROVE  Outcome
<1>1. /\ pc = "min" /\ nodes[min].lhs = NULL /\ root' = RootWith(link, min)
      /\ len' = len /\ kind' = kind /\ Return(TRUE, Removed, <<>>)
  BY DEF MinEnds, call
<1>2. nodes' = Kept
  BY DEF MinEnds, Kept, Joined, Moved, Cut
<1>3. Sound(nodes', root', kind) /\ Total(nodes') = len /\ Others(nodes, nodes', arg.key)
  BY <1>1, <1>2, MinSound
<1> QED BY <1>1, <1>3, Ending DEF Outcome

LEMMA EndsKeep ==
  ASSUME TreesInv, Ends \/ MinEnds
  PROVE  Outcome
BY PutsKeep, PutsIfAbsentKeep, RemovesKeep, RemoveSomeKeep, GetsKeep, MinEndsKeeps DEF Ends

-------------------------------------------------------------------------------
(* The other steps leave the tree as it is, or free all of it.             *)
LEMMA EmptySound ==
  ASSUME NEW ns, ns \in [{} -> {}], NEW x
  PROVE  Sound(ns, NULL, x) /\ Total(ns) = 0
<1>1. DOMAIN ns = {}
  OBVIOUS
<1>2. ns \in [DOMAIN ns -> Node(DOMAIN ns)]
  BY <1>1
<1>3. Tree(ns, NULL)
  BY <1>1, <1>2, FS_EmptySet DEF Tree, Forest
<1> QED BY <1>1, <1>3, SumEmpty DEF Sound, Sorted, Distinct, Total

LEMMA InitInv == Init => TreesInv
<1> SUFFICES ASSUME Init PROVE TreesInv
  OBVIOUS
<1>1. nodes \in [{} -> {}] /\ root = NULL /\ len = 0 /\ kind \in Kinds /\ Idle /\ link = RootLink
  BY DEF Init, Idle
<1>2. Sound(nodes, root, kind) /\ Total(nodes) = 0
  BY <1>1, EmptySound
<1>3. Stored = DOMAIN nodes /\ link \in LinksOf(nodes)
  BY <1>1 DEF Stored, Idle, LinksOf
<1> QED BY <1>1, <1>2, <1>3 DEF TreesInv, Total

LEMMA StartKeeps ==
  ASSUME TreesInv, NEW o, NEW y \in KeysOf[kind], NEW v, NEW a, NEW b, StartFind(o, Arg(y, v, a, b)),
         o \in {"put", "put_if_absent"} => v \in ValsOf(kind) /\ (Multi => len < MaxLen),
         o = "remove_some" => a \in Nat /\ b \in Nat /\ (kind = "multimap" => a < b)
  PROVE  TreesInv' /\ nodes' = nodes
<1>1. /\ pc = "idle" /\ op' = o /\ arg' = Arg(y, v, a, b) /\ kind' = kind /\ pc' = "find" /\ link' = RootLink
      /\ len' = len /\ root' = root /\ nodes' = nodes /\ parent' = parent /\ min' = min
  BY DEF StartFind, tree, splice
<1>2. /\ arg'.key = y /\ arg'.val = v /\ arg'.lo = a /\ arg'.hi = b /\ Multi' = Multi
  BY <1>1 DEF Arg, Multi
<1>3. Asked'
  BY <1>1, <1>2 DEF Asked
<1>4. /\ kind \in Kinds /\ Sound(nodes, root, kind) /\ Tree(nodes, root) /\ Forest(nodes) /\ NULL \notin DOMAIN nodes
      /\ len = Total(nodes)
  BY <1>1, InvFacts
<1>5. parent = NULL /\ min = NULL
  BY <1>1 DEF TreesInv, Idle, Finding, Splicing
<1>6. Route'
  <2>1. \A n \in DOMAIN nodes, s \in Sides : NULL \notin Below(nodes, nodes[n][s])
    BY <1>4, KidsAre, BelowIs, BelowNull
  <2>2. \A n \in DOMAIN nodes, s \in Sides : ~ Lies(nodes, RootLink, n, s)
    BY <1>4, <2>1 DEF Lies, RootLink
  <2> QED BY <1>1, <2>2 DEF Route, Sides
<1>7. Sought'
  <2>1. current' = root
    BY <1>1 DEF current, Deref, RootLink
  <2>2. Below(nodes, root) = DOMAIN nodes
    BY <1>4, TreeIsTree DEF IsTree
  <2> QED BY <1>1, <2>1, <2>2 DEF Sought
<1>8. Stored' = DOMAIN nodes /\ RootLink \in LinksOf(nodes)
  BY <1>1 DEF Stored, LinksOf
<1> QED BY <1>1, <1>3, <1>4, <1>5, <1>6, <1>7, <1>8 DEF TreesInv, Finding, Total

LEMMA StartsKeep ==
  ASSUME TreesInv, StartPut \/ StartOnKey \/ StartGetOrDefault \/ StartRemoveCount \/ StartRemoveValues
  PROVE  TreesInv' /\ nodes' = nodes
<1>1. CASE StartPut
  BY <1>1, StartKeeps DEF StartPut
<1>2. CASE StartOnKey
  BY <1>2, StartKeeps DEF StartOnKey
<1>3. CASE StartGetOrDefault
  BY <1>3, StartKeeps DEF StartGetOrDefault
<1>4. CASE StartRemoveCount
  BY <1>4, StartKeeps, RangesAssumption DEF StartRemoveCount
<1>5. CASE StartRemoveValues
  <2>1. PICK x \in KeysOf[kind], r \in Ranges :
           \/ r[1] < r[2] /\ StartFind("remove_some", Arg(x, NULL, r[1], r[2]))
           \/ r[1] >= r[2] /\ pc = "idle" /\ Return(TRUE, 0, <<>>) /\ UNCHANGED <<tree, kind>>
    BY <1>5 DEF StartRemoveValues
  <2>2. CASE r[1] < r[2] /\ StartFind("remove_some", Arg(x, NULL, r[1], r[2]))
    BY <2>2, StartKeeps, RangesAssumption
  <2>3. CASE r[1] >= r[2] /\ pc = "idle" /\ Return(TRUE, 0, <<>>) /\ UNCHANGED <<tree, kind>>
    BY <2>3, EndsUnchanged DEF Outcome, tree
  <2> QED BY <2>1, <2>2, <2>3
<1> QED BY <1>1, <1>2, <1>3, <1>4, <1>5

LEMMA FindNextKeeps ==
  ASSUME TreesInv, FindNext
  PROVE  TreesInv' /\ nodes' = nodes
<1> DEFINE side == Side(arg.key, nodes[current].key)
<1>1. /\ pc = "find" /\ current # NULL /\ nodes[current].key # arg.key
      /\ link' = [at |-> current, side |-> side]
      /\ len' = len /\ root' = root /\ nodes' = nodes /\ kind' = kind /\ op' = op /\ arg' = arg /\ pc' = "find"
      /\ parent' = parent /\ min' = min
  BY DEF FindNext, tree, call, splice
<1>2. /\ kind \in Kinds /\ Sound(nodes, root, kind) /\ Tree(nodes, root) /\ Sorted(nodes) /\ Forest(nodes)
      /\ NULL \notin DOMAIN nodes /\ len = Total(nodes) /\ current \in DOMAIN nodes
      /\ link \in LinksOf(nodes) /\ Follow(nodes, root, link) = current
  BY <1>1, InvFacts
<1>3. Asked /\ Route /\ Sought /\ parent = NULL /\ min = NULL
  BY <1>1 DEF TreesInv, Idle, Finding, Splicing
<1>4. /\ arg.key \in Int /\ nodes[current].key \in Int
  BY <1>2, <1>3, KidsAre, KeysAssumption DEF Asked
<1>5. /\ side \in Sides
      /\ side = "rhs" => arg.key > nodes[current].key
      /\ side = "lhs" => arg.key < nodes[current].key
  BY <1>1, <1>4 DEF Side, Sides
<1> HIDE DEF side
<1>6. link' \in LinksOf(nodes) /\ link'.at = current /\ link'.side = side
  BY <1>1, <1>2, <1>5 DEF LinksOf
<1>7. current' = nodes[current][side]
  BY <1>1, <1>2, <1>6 DEF current, Deref
<1>8. \A n \in DOMAIN nodes : /\ Lies(nodes, link', n, "lhs") => arg.key < nodes[n].key
                              /\ Lies(nodes, link', n, "rhs") => arg.key > nodes[n].key
  <2>1. ASSUME NEW n \in DOMAIN nodes, NEW s \in Sides, Lies(nodes, link', n, s)
        PROVE  (n = current /\ s = side) \/ Lies(nodes, link, n, s)
    <3>1. CASE link'.at = n /\ link'.side = s
      BY <1>6, <3>1
    <3>2. CASE link'.at \in Below(nodes, nodes[n][s])
      BY <1>2, <1>6, <3>2, LiesAbove
    <3> QED BY <2>1, <3>1, <3>2 DEF Lies
  <2> QED BY <1>3, <1>5, <2>1 DEF Route, Sides
<1>9. \A n \in DOMAIN nodes : nodes[n].key = arg.key => n \in Below(nodes, nodes[current][side])
  <2>1. ASSUME NEW n \in DOMAIN nodes, nodes[n].key = arg.key
        PROVE  n \in Below(nodes, nodes[current][side])
    <3>1. n \in Below(nodes, current)
      BY <1>3, <2>1 DEF Sought
    <3>2. n \in Below(nodes, nodes[current].lhs) \/ n \in Below(nodes, nodes[current].rhs)
      BY <1>1, <1>2, <2>1, <3>1, BelowStep
    <3>3. CASE side = "lhs"
      BY <1>2, <1>4, <1>5, <2>1, <3>2, <3>3 DEF Sorted
    <3>4. CASE side = "rhs"
      BY <1>2, <1>4, <1>5, <2>1, <3>2, <3>4 DEF Sorted
    <3> QED BY <1>5, <3>3, <3>4 DEF Sides
  <2> QED BY <2>1
<1>10. Route' /\ Sought'
  BY <1>1, <1>7, <1>8, <1>9 DEF Route, Sought
<1>11. Asked'
  BY <1>1, <1>3 DEF Asked, Multi
<1>12. Stored' = DOMAIN nodes
  BY <1>1 DEF Stored
<1> QED BY <1>1, <1>2, <1>3, <1>6, <1>10, <1>11, <1>12 DEF TreesInv, Finding, Total

LEMMA MinNextKeeps ==
  ASSUME TreesInv, MinNext
  PROVE  TreesInv' /\ nodes' = nodes
<1>1. /\ pc = "min" /\ nodes[min].lhs # NULL /\ parent' = min /\ min' = nodes[min].lhs
      /\ len' = len /\ root' = root /\ nodes' = nodes /\ kind' = kind /\ op' = op /\ arg' = arg /\ pc' = "min"
      /\ link' = link
  BY DEF MinNext, NextMin, tree, call
<1>2. /\ current \in DOMAIN nodes /\ nodes[current].key = arg.key /\ nodes[current].lhs # NULL
      /\ Searching(nodes, current, parent, min)
  BY <1>1 DEF TreesInv, Idle, Finding, Splicing
<1>3. Forest(nodes) /\ Sorted(nodes)
  BY InvFacts
<1>4. Searching(nodes, current, min, nodes[min].lhs)
  BY <1>1, <1>2, <1>3, SearchGoesOn
<1>5. current' = current
  BY <1>1 DEF current, Deref
<1>6. Splicing'
  BY <1>1, <1>2, <1>4, <1>5 DEF Splicing
<1>7. Stored' = Stored
  BY <1>1, <1>5 DEF Stored
<1> QED BY <1>1, <1>6, <1>7 DEF TreesInv

LEMMA WalksKeep ==
  ASSUME TreesInv, Walks
  PROVE  TreesInv' /\ nodes' = nodes
<1>1. pc = "idle" /\ UNCHANGED <<tree, kind>> /\ \E b, n, s : Return(b, n, s)
  BY DEF Walks, Walk
<1> QED BY <1>1, EndsUnchanged DEF Outcome, tree

LEMMA ClearKeeps ==
  ASSUME TreesInv, Clear
  PROVE  TreesInv'
<1>1. pc = "idle" /\ kind' = kind /\ Return(TRUE, 0, <<>>)
  BY DEF Clear
<1>2. CASE len > 0
  <2>1. Below(nodes, root) = DOMAIN nodes
    BY InvFacts, TreeIsTree DEF IsTree
  <2>2. len' = 0 /\ root' = NULL /\ nodes' = Restrict(nodes, DOMAIN nodes \ Below(nodes, root))
    BY <1>2 DEF Clear, free_subsequent_nodes
  <2>3. nodes' \in [{} -> {}]
    BY <2>1, <2>2 DEF Restrict
  <2>4. Sound(nodes', root', kind) /\ Total(nodes') = 0
    BY <2>2, <2>3, EmptySound
  <2> QED BY <1>1, <2>2, <2>4, Ending
<1>3. CASE ~(len > 0)
  <2>1. UNCHANGED <<tree, kind>>
    BY <1>3 DEF Clear
  <2> QED BY <1>1, <2>1, EndsUnchanged DEF Outcome
<1> QED BY <1>2, <1>3

LEMMA StepInv == TreesInv /\ [Next]_vars => TreesInv'
<1> SUFFICES ASSUME TreesInv, [Next]_vars PROVE TreesInv'
  OBVIOUS
<1>1. CASE Ends \/ MinEnds
  BY <1>1, EndsKeep DEF Outcome
<1>2. CASE StartPut \/ StartOnKey \/ StartGetOrDefault \/ StartRemoveCount \/ StartRemoveValues
  BY <1>2, StartsKeep
<1>3. CASE FindNext
  BY <1>3, FindNextKeeps
<1>4. CASE MinNext
  BY <1>4, MinNextKeeps
<1>5. CASE Walks
  BY <1>5, WalksKeep
<1>6. CASE Clear
  BY <1>6, ClearKeeps
<1>7. CASE UNCHANGED vars
  BY <1>7 DEF vars, tree, call, splice, TreesInv, Idle, Finding, Splicing, Stored, Asked, Route, Sought,
              current, Deref, Multi
<1> QED BY <1>1, <1>2, <1>3, <1>4, <1>5, <1>6, <1>7 DEF Next, Running

-------------------------------------------------------------------------------
(* The theorems.                                                           *)
LEMMA InvHolds == Spec => []TreesInv
BY InitInv, StepInv, PTL DEF Spec

(* No pointer dangles, and those about to be followed are not NULL.        *)
THEOREM TypeCorrect == Spec => []TypeOK
<1>1. TreesInv => TypeOK
  <2> SUFFICES ASSUME TreesInv PROVE TypeOK
    OBVIOUS
  <2>1. /\ kind \in Kinds /\ Tree(nodes, root) /\ Sorted(nodes) /\ link \in LinksOf(nodes) /\ Forest(nodes)
        /\ Follow(nodes, root, link) = current /\ NULL \notin DOMAIN nodes
        /\ root \in Pointer
        /\ \A n \in DOMAIN nodes : /\ Holds(nodes, kind, n) /\ nodes[n].cap \in Nat
                                   /\ nodes[n].lhs \in Pointer /\ nodes[n].rhs \in Pointer
    BY InvFacts, KidsAre DEF Tree, Pointer
  <2>2. DOMAIN nodes \subseteq Cell
    <3>1. \A n \in DOMAIN nodes : nodes[n].key \in Keys /\ n \in {<<nodes[n].key, 0>>, <<nodes[n].key, 1>>}
      BY <2>1 DEF Holds, Keys
    <3> QED BY <3>1 DEF Cell
  <2>3. len \in Nat
    <3>1. Stored \in SUBSET DOMAIN nodes
      BY DEF Stored
    <3>2. IsFiniteSet(Stored) /\ \A n \in Stored : Held(nodes, n) \in Nat
      BY <3>1, HeldIs, FS_Subset DEF TreesInv
    <3> QED BY <3>2, SumType DEF TreesInv
  <2>4. link = RootLink \/ link \in [at : DOMAIN nodes, side : {"lhs", "rhs"}]
    BY <2>1 DEF LinksOf, Sides
  <2>5. /\ pc \in {"idle", "find", "min"} /\ parent \in Pointer /\ min \in Pointer
        /\ pc = "min" => current # NULL /\ parent # NULL /\ min # NULL
    <3>1. CASE Idle \/ Finding
      BY <3>1 DEF Idle, Finding, Pointer
    <3>2. CASE Splicing
      <4>1. /\ pc = "min" /\ current \in DOMAIN nodes /\ Searching(nodes, current, parent, min)
        BY <3>2 DEF Splicing
      <4>2. parent \in DOMAIN nodes /\ min \in DOMAIN nodes
        BY <2>1, <4>1, MinPlace
      <4> QED BY <2>1, <4>1, <4>2 DEF Pointer
    <3> QED BY <3>1, <3>2 DEF TreesInv
  <2> QED BY <2>1, <2>2, <2>3, <2>4, <2>5 DEF TypeOK, Holds
<1> QED BY <1>1, InvHolds, PTL

(* Every splice leaves one tree: nothing leaks, nothing in use is freed,   *)
(* no circle is closed.                                                    *)
THEOREM StaysTree == Spec => []IsTree
<1>1. TreesInv => IsTree
  BY TreeIsTree DEF TreesInv, Sound
<1> QED BY <1>1, InvHolds, PTL

(* The search order survives every put and every removal.                  *)
THEOREM StaysOrdered == Spec => []Ordered
<1>1. TreesInv => Ordered
  BY DEF TreesInv, Sound, Sorted, Ordered
<1> QED BY <1>1, InvHolds, PTL

(* len is the number of values stored, also while a removal is on its way. *)
THEOREM LenIsExact == Spec => []LenExact
<1>1. TreesInv => LenExact
  BY SumIs DEF TreesInv, LenExact
<1> QED BY <1>1, InvHolds, PTL

(* A multimap node has room for what it holds, whatever TMMAP_GROW is.     *)
THEOREM ValuesFit == Spec => []Fits
<1>1. TreesInv => Fits
  BY DEF TreesInv, Sound, Holds, Fits
<1> QED BY <1>1, InvHolds, PTL

LEMMA EndsKeepCall == Ends \/ MinEnds => UNCHANGED call
BY DEF Ends, MinEnds, tset_put, tmap_put, tmset_put, tmmap_put, PutIfAbsent, AddNode,
       tset_put_if_absent, tmap_put_if_absent, tmset_put_if_absent, tmmap_put_if_absent,
       Remove, tset_remove, tmap_remove, tmset_remove, tmmap_remove,
       tmset_remove_count, tmmap_remove_values, Shorten, Nothing, Get, GetOrDefault

(* A pointer handed out stays good until its own key is put or removed.    *)
THEOREM PointersKept == Spec => PointersStay
<1> DEFINE A == op' # "clear" =>
                  \A n \in DOMAIN nodes : nodes[n].key # arg'.key =>
                    /\ n \in DOMAIN nodes'
                    /\ nodes'[n].key = nodes[n].key /\ nodes'[n].vals = nodes[n].vals
<1>1. TreesInv /\ [Next]_vars => [A]_vars
  <2> SUFFICES ASSUME TreesInv, Next PROVE A
    OBVIOUS
  <2>1. CASE Ends \/ MinEnds
    BY <2>1, EndsKeep, EndsKeepCall DEF Outcome, Others, call
  <2>2. CASE Clear
    BY <2>2 DEF Clear
  <2>3. CASE nodes' = nodes
    BY <2>3
  <2> QED BY <2>1, <2>2, <2>3, StartsKeep, FindNextKeeps, MinNextKeeps, WalksKeep DEF Next, Running
<1>2. Spec => [][A]_vars
  BY <1>1, InvHolds, PTL DEF Spec
<1> QED BY <1>2 DEF PointersStay


-------------------------------------------------------------------------------
(* In-order walks: what inorder hands out for a sorted tree.               *)
Met(ns, asked, n) ==
  IF ns[n].key \in asked THEN <<[key |-> ns[n].key, vals |-> ns[n].vals]>> ELSE <<>>
WalkStep(ns, asked, walk, k, n) ==
  IF k = 0 \/ n = NULL THEN <<>>
  ELSE walk[k - 1][ns[n].lhs] \o Met(ns, asked, n) \o walk[k - 1][ns[n].rhs]
IsWalk(ns, asked, N, walk) ==
  walk = [k \in 0 .. N |-> [n \in DOMAIN ns \cup {NULL} |-> WalkStep(ns, asked, walk, k, n)]]

LEMMA WalkGrows ==
  ASSUME NEW ns, NEW asked, Forest(ns), NEW walk, NEW N \in Nat, IsWalk(ns, asked, N, walk)
  PROVE  \E longer : IsWalk(ns, asked, N + 1, longer)
<1> DEFINE P == DOMAIN ns \cup {NULL}
           longer == [k \in 0 .. N + 1 |-> [n \in P |-> WalkStep(ns, asked, walk, k, n)]]
<1>1. \A k \in 0 .. N, n \in P : longer[k][n] = walk[k][n]
  <2>1. \A k \in 0 .. N, n \in P : walk[k][n] = WalkStep(ns, asked, walk, k, n)
    BY DEF IsWalk
  <2>2. \A k \in 0 .. N, n \in P : longer[k][n] = WalkStep(ns, asked, walk, k, n)
    OBVIOUS
  <2> QED BY <2>1, <2>2
<1>2. ASSUME NEW k \in 0 .. N + 1, NEW n \in P
      PROVE  WalkStep(ns, asked, walk, k, n) = WalkStep(ns, asked, longer, k, n)
  <2>1. CASE k = 0 \/ n = NULL
    BY <2>1 DEF WalkStep
  <2>2. CASE k # 0 /\ n # NULL
    <3>1. k - 1 \in 0 .. N /\ ns[n].lhs \in P /\ ns[n].rhs \in P
      BY <2>2, KidsAre
    <3> QED BY <1>1, <2>2, <3>1 DEF WalkStep
  <2> QED BY <2>1, <2>2
<1>3. IsWalk(ns, asked, N + 1, longer)
  BY <1>2 DEF IsWalk
<1> QED BY <1>3

LEMMA WalkExists ==
  ASSUME NEW ns, NEW asked, Forest(ns), NEW N \in Nat
  PROVE  \E walk : IsWalk(ns, asked, N, walk)
<1> DEFINE T == {n \in Nat : ~ \E walk : IsWalk(ns, asked, n, walk)}
<1>1. 0 \notin T
  <2> DEFINE w == [k \in 0 .. 0 |-> [n \in DOMAIN ns \cup {NULL} |-> <<>>]]
  <2>1. \A k \in 0 .. 0, n \in DOMAIN ns \cup {NULL} : WalkStep(ns, asked, w, k, n) = <<>>
    BY DEF WalkStep
  <2>2. IsWalk(ns, asked, 0, w)
    BY <2>1 DEF IsWalk
  <2> QED BY <2>2
<1>2. T = {}
  <2> SUFFICES ASSUME T # {} PROVE FALSE
    OBVIOUS
  <2>1. PICK x \in T : \A y \in T : x <= y
    BY LeastNatural
  <2>2. x - 1 \in Nat /\ x - 1 \notin T
    BY <1>1, <2>1
  <2>3. PICK w : IsWalk(ns, asked, x - 1, w)
    BY <2>2
  <2>4. \E longer : IsWalk(ns, asked, (x - 1) + 1, longer)
    BY <2>2, <2>3, WalkGrows
  <2> QED BY <2>1, <2>4
<1> QED BY <1>2

LEMMA InorderWalks ==
  ASSUME Forest(nodes), IsFiniteSet(DOMAIN nodes), NEW asked
  PROVE  \E walk : /\ IsWalk(nodes, asked, Cardinality(DOMAIN nodes), walk)
                   /\ inorder(asked) = walk[Cardinality(DOMAIN nodes)][root]
<1> DEFINE N == Cardinality(DOMAIN nodes)
           walk == CHOOSE w : IsWalk(nodes, asked, N, w)
<1>1. IsWalk(nodes, asked, N, walk)
  BY FS_CardinalityType, WalkExists
<1>2. inorder(asked) = walk[N][root]
  BY DEF inorder, IsWalk, WalkStep, Met
<1> QED BY <1>1, <1>2

Unfolded(ns, asked, N, walk) ==
  \A k \in 0 .. N :
    /\ walk[k][NULL] = <<>>
    /\ k > 0 => \A n \in DOMAIN ns :
         walk[k][n] = walk[k - 1][ns[n].lhs] \o Met(ns, asked, n) \o walk[k - 1][ns[n].rhs]

LEMMA WalkIs ==
  ASSUME NEW ns, NEW asked, Forest(ns), NEW walk, NEW N \in Nat, IsWalk(ns, asked, N, walk)
  PROVE  Unfolded(ns, asked, N, walk)
<1>1. \A k \in 0 .. N, n \in DOMAIN ns \cup {NULL} : walk[k][n] = WalkStep(ns, asked, walk, k, n)
  BY DEF IsWalk
<1>2. ASSUME NEW k \in 0 .. N PROVE walk[k][NULL] = <<>>
  <2>1. walk[k][NULL] = WalkStep(ns, asked, walk, k, NULL)
    BY <1>1
  <2> QED BY <2>1 DEF WalkStep
<1>3. ASSUME NEW k \in 0 .. N, k > 0, NEW n \in DOMAIN ns
      PROVE  walk[k][n] = walk[k - 1][ns[n].lhs] \o Met(ns, asked, n) \o walk[k - 1][ns[n].rhs]
  <2>1. walk[k][n] = WalkStep(ns, asked, walk, k, n)
    BY <1>1
  <2>2. k # 0 /\ n # NULL
    BY <1>3 DEF Forest
  <2> QED BY <2>1, <2>2 DEF WalkStep
<1> QED BY <1>2, <1>3 DEF Unfolded

(* s has the nodes of S with a key asked for, by ascending key.            *)
Entry == [key : Int, vals : Seq(Vals \cup {NULL})]
Visits(ns, S, asked, s) ==
  /\ s \in Seq(Entry)
  /\ \A j \in 1 .. Len(s) : \E n \in S : s[j].key = ns[n].key /\ s[j].vals = ns[n].vals
  /\ \A j \in 1 .. Len(s) : s[j].key \in asked
  /\ \A n \in S : ns[n].key \in asked => \E j \in 1 .. Len(s) : s[j].key = ns[n].key
  /\ \A i, j \in 1 .. Len(s) : i < j => s[i].key < s[j].key

LEMMA VisitsJoin ==
  ASSUME NEW ns, NEW asked, NEW S, NEW T, NEW s, NEW t,
         Visits(ns, S, asked, s), Visits(ns, T, asked, t),
         \A m \in S, n \in T : ns[m].key < ns[n].key
  PROVE  Visits(ns, S \cup T, asked, s \o t)
<1>1. s \in Seq(Entry) /\ t \in Seq(Entry)
  BY DEF Visits
<1>2. PICK u : u = s \o t
  OBVIOUS
<1>3. /\ u \in Seq(Entry) /\ Len(u) = Len(s) + Len(t) /\ Len(s) \in Nat /\ Len(t) \in Nat
      /\ \A j \in 1 .. Len(u) : u[j] = IF j <= Len(s) THEN s[j] ELSE t[j - Len(s)]
  BY <1>1, <1>2
<1>4. ASSUME NEW j \in 1 .. Len(u)
      PROVE  /\ \E n \in S \cup T : u[j].key = ns[n].key /\ u[j].vals = ns[n].vals
             /\ u[j].key \in asked
  <2>1. CASE j <= Len(s)
    <3>1. j \in 1 .. Len(s) /\ u[j] = s[j]
      BY <1>3, <2>1
    <3>2. PICK n \in S : s[j].key = ns[n].key /\ s[j].vals = ns[n].vals
      BY <3>1 DEF Visits
    <3> QED BY <3>1, <3>2 DEF Visits
  <2>2. CASE j > Len(s)
    <3>1. j - Len(s) \in 1 .. Len(t) /\ u[j] = t[j - Len(s)]
      BY <1>3, <2>2
    <3>2. PICK n \in T : t[j - Len(s)].key = ns[n].key /\ t[j - Len(s)].vals = ns[n].vals
      BY <3>1 DEF Visits
    <3> QED BY <3>1, <3>2 DEF Visits
  <2> QED BY <1>3, <2>1, <2>2
<1>5. ASSUME NEW n \in S \cup T, ns[n].key \in asked PROVE \E j \in 1 .. Len(u) : u[j].key = ns[n].key
  <2>1. CASE n \in S
    <3>1. PICK j \in 1 .. Len(s) : s[j].key = ns[n].key
      BY <1>5, <2>1 DEF Visits
    <3>2. j \in 1 .. Len(u) /\ u[j] = s[j]
      BY <1>3
    <3> QED BY <3>1, <3>2
  <2>2. CASE n \in T
    <3>1. PICK j \in 1 .. Len(t) : t[j].key = ns[n].key
      BY <1>5, <2>2 DEF Visits
    <3>2. Len(s) + j \in 1 .. Len(u) /\ ~(Len(s) + j <= Len(s)) /\ (Len(s) + j) - Len(s) = j
      BY <1>3
    <3>3. u[Len(s) + j] = t[j]
      BY <1>3, <3>2
    <3> QED BY <3>1, <3>2, <3>3
  <2> QED BY <2>1, <2>2
<1>6. ASSUME NEW i \in 1 .. Len(u), NEW j \in 1 .. Len(u), i < j PROVE u[i].key < u[j].key
  <2>1. CASE j <= Len(s)
    <3>1. i \in 1 .. Len(s) /\ j \in 1 .. Len(s) /\ u[i] = s[i] /\ u[j] = s[j]
      BY <1>3, <1>6, <2>1
    <3> QED BY <1>6, <3>1 DEF Visits
  <2>2. CASE i > Len(s)
    <3>1. /\ i - Len(s) \in 1 .. Len(t) /\ j - Len(s) \in 1 .. Len(t) /\ i - Len(s) < j - Len(s)
          /\ u[i] = t[i - Len(s)] /\ u[j] = t[j - Len(s)]
      BY <1>3, <1>6, <2>2
    <3> QED BY <3>1 DEF Visits
  <2>3. CASE i <= Len(s) /\ j > Len(s)
    <3>1. i \in 1 .. Len(s) /\ j - Len(s) \in 1 .. Len(t) /\ u[i] = s[i] /\ u[j] = t[j - Len(s)]
      BY <1>3, <2>3
    <3>2. PICK m \in S : s[i].key = ns[m].key
      BY <3>1 DEF Visits
    <3>3. PICK n \in T : t[j - Len(s)].key = ns[n].key
      BY <3>1 DEF Visits
    <3> QED BY <3>1, <3>2, <3>3
  <2> QED BY <1>3, <2>1, <2>2, <2>3
<1>7. Visits(ns, S \cup T, asked, u)
  BY <1>3, <1>4, <1>5, <1>6 DEF Visits
<1> QED BY <1>2, <1>7

LEMMA VisitsNone == \A ns, asked : Visits(ns, {}, asked, <<>>)
BY DEF Visits

LEMMA VisitsOne ==
  ASSUME NEW ns, NEW asked, Forest(ns), NEW n \in DOMAIN ns
  PROVE  Visits(ns, {n}, asked, Met(ns, asked, n))
<1>1. ns[n].key \in Int /\ ns[n].vals \in Seq(Vals \cup {NULL})
  BY DEF Forest, Node
<1>2. CASE ns[n].key \in asked
  <2>1. PICK e : e = [key |-> ns[n].key, vals |-> ns[n].vals]
    OBVIOUS
  <2>2. e \in Entry /\ e.key = ns[n].key /\ e.vals = ns[n].vals
    BY <1>1, <2>1 DEF Entry
  <2>3. <<e>> \in Seq(Entry) /\ Len(<<e>>) = 1 /\ <<e>>[1] = e
    BY <2>2
  <2>4. Met(ns, asked, n) = <<e>>
    BY <1>2, <2>1 DEF Met
  <2>5. Visits(ns, {n}, asked, <<e>>)
    BY <1>2, <2>2, <2>3 DEF Visits
  <2> QED BY <2>4, <2>5
<1>3. CASE ns[n].key \notin asked
  BY <1>3 DEF Met, Visits
<1> QED BY <1>2, <1>3

(* k levels are enough for a subtree of k nodes.                           *)
LEMMA SubtreeVisited ==
  ASSUME NEW ns, NEW asked, Forest(ns), Sorted(ns), IsFiniteSet(DOMAIN ns),
         NEW walk, NEW N \in Nat, Unfolded(ns, asked, N, walk)
  PROVE  \A k \in 0 .. N, n \in DOMAIN ns \cup {NULL} :
           Cardinality(Below(ns, n)) <= k => Visits(ns, Below(ns, n), asked, walk[k][n])
<1> DEFINE Fails(k) == \E n \in DOMAIN ns \cup {NULL} :
                         Cardinality(Below(ns, n)) <= k /\ ~ Visits(ns, Below(ns, n), asked, walk[k][n])
           T == {k \in 0 .. N : Fails(k)}
<1> SUFFICES ASSUME T # {} PROVE FALSE
  OBVIOUS
<1>1. PICK k \in T : \A j \in T : k <= j
  <2>1. T \in SUBSET Nat
    OBVIOUS
  <2> HIDE DEF T
  <2> QED BY <2>1, LeastNatural
<1>2. PICK n \in DOMAIN ns \cup {NULL} :
        Cardinality(Below(ns, n)) <= k /\ ~ Visits(ns, Below(ns, n), asked, walk[k][n])
  BY <1>1
<1>3. k \in 0 .. N
  BY <1>1
<1>4. walk[k][NULL] = <<>>
  BY <1>3 DEF Unfolded
<1>5. n \in DOMAIN ns
  BY <1>2, <1>4, BelowNull, VisitsNone
<1>6. ASSUME NEW m \in DOMAIN ns \cup {NULL} PROVE IsFiniteSet(Below(ns, m)) /\ Cardinality(Below(ns, m)) \in Nat
  BY BelowIs, BelowNull, FS_Subset, FS_CardinalityType, FS_EmptySet
<1>7. PICK l, r, S : l = ns[n].lhs /\ r = ns[n].rhs /\ S = Below(ns, n)
  OBVIOUS
<1>8. /\ l \in DOMAIN ns \cup {NULL} /\ r \in DOMAIN ns \cup {NULL} /\ n \in S
      /\ S = {n} \cup Below(ns, l) \cup Below(ns, r)
      /\ n \notin Below(ns, l) /\ n \notin Below(ns, r)
  <2>1. l = ns[n]["lhs"] /\ r = ns[n]["rhs"] /\ "lhs" \in Sides /\ "rhs" \in Sides
    BY <1>7 DEF Sides
  <2>2. n \notin Below(ns, l) /\ n \notin Below(ns, r)
    BY <1>5, <2>1, NotBelowItself
  <2> QED BY <1>5, <1>7, <2>2, KidsAre, BelowIs, BelowStep
<1>9. IsFiniteSet(S) /\ Cardinality(S) \in Nat /\ Cardinality(S) <= k
  <2>1. IsFiniteSet(Below(ns, n)) /\ Cardinality(Below(ns, n)) \in Nat
    BY <1>5, <1>6
  <2>2. Cardinality(Below(ns, n)) <= k
    BY <1>2
  <2> QED BY <1>7, <2>1, <2>2
<1>10. IsFiniteSet(S \ {n}) /\ Cardinality(S \ {n}) = Cardinality(S) - 1
  <2>1. n \in S /\ IsFiniteSet(S)
    BY <1>8, <1>9
  <2> QED BY ONLY <2>1, FS_RemoveElement
<1>11. ASSUME NEW m \in {l, r} PROVE Cardinality(Below(ns, m)) <= k - 1
  <2>1. Below(ns, m) \in SUBSET (S \ {n})
    BY <1>8
  <2>2. Cardinality(Below(ns, m)) <= Cardinality(S \ {n})
    BY <1>10, <2>1, FS_Subset
  <2> QED BY <1>6, <1>8, <1>9, <1>10, <2>2
<1>12. k > 0 /\ k - 1 \in 0 .. N
  BY <1>3, <1>6, <1>8, <1>11
<1>13. k - 1 \notin T
  BY <1>1, <1>3
<1>14. ASSUME NEW m \in {l, r} PROVE Visits(ns, Below(ns, m), asked, walk[k - 1][m])
  BY <1>8, <1>11, <1>12, <1>13
<1> HIDE DEF T, Fails
<1>15. \A m \in Below(ns, l) : ns[m].key < ns[n].key
  BY <1>5, <1>7 DEF Sorted
<1>16. \A m \in Below(ns, r) : ns[n].key < ns[m].key
  <2>1. \A m \in Below(ns, r) : ns[m].key > ns[n].key
    BY <1>5, <1>7 DEF Sorted
  <2>2. \A m \in Below(ns, r) : m \in DOMAIN ns
    BY <1>8, BelowIs, BelowNull
  <2> QED BY <1>5, <2>1, <2>2, KidsAre
<1>17. Visits(ns, {n}, asked, Met(ns, asked, n))
  BY <1>5, VisitsOne
<1>18. Visits(ns, Below(ns, l) \cup {n}, asked, walk[k - 1][l] \o Met(ns, asked, n))
  BY <1>14, <1>15, <1>17, VisitsJoin
<1>19. \A m \in Below(ns, l) \cup {n}, h \in Below(ns, r) : ns[m].key < ns[h].key
  <2>1. \A m \in Below(ns, l) \cup Below(ns, r) : m \in DOMAIN ns
    BY <1>8, BelowIs, BelowNull
  <2>2. \A m \in DOMAIN ns : ns[m].key \in Int
    BY KidsAre
  <2> QED BY <1>5, <1>15, <1>16, <2>1, <2>2
<1>20. Visits(ns, (Below(ns, l) \cup {n}) \cup Below(ns, r), asked,
              walk[k - 1][l] \o Met(ns, asked, n) \o walk[k - 1][r])
  BY <1>14, <1>18, <1>19, VisitsJoin
<1>21. walk[k][n] = walk[k - 1][l] \o Met(ns, asked, n) \o walk[k - 1][r]
  BY <1>3, <1>5, <1>7, <1>12 DEF Unfolded
<1>22. (Below(ns, l) \cup {n}) \cup Below(ns, r) = S
  BY <1>8
<1> QED BY <1>2, <1>7, <1>20, <1>21, <1>22

(* A walk meets every node with a key asked for.                           *)
LEMMA InorderVisits ==
  ASSUME TreesInv, NEW asked
  PROVE  Visits(nodes, DOMAIN nodes, asked, inorder(asked))
<1>1. /\ Forest(nodes) /\ Sorted(nodes) /\ IsFiniteSet(DOMAIN nodes) /\ root \in DOMAIN nodes \cup {NULL}
      /\ Below(nodes, root) = DOMAIN nodes
  BY InvFacts, TreeIsTree DEF Tree, IsTree
<1>2. PICK N : N = Cardinality(DOMAIN nodes)
  OBVIOUS
<1>3. N \in Nat
  BY <1>1, <1>2, FS_CardinalityType
<1>4. PICK walk : IsWalk(nodes, asked, N, walk) /\ inorder(asked) = walk[N][root]
  BY <1>1, <1>2, InorderWalks
<1>5. Unfolded(nodes, asked, N, walk)
  BY <1>1, <1>3, <1>4, WalkIs
<1>6. \A k \in 0 .. N, n \in DOMAIN nodes \cup {NULL} :
        Cardinality(Below(nodes, n)) <= k => Visits(nodes, Below(nodes, n), asked, walk[k][n])
  BY <1>1, <1>3, <1>5, SubtreeVisited
<1>7. N \in 0 .. N /\ N <= N
  BY <1>3
<1> QED BY <1>1, <1>2, <1>4, <1>6, <1>7

-------------------------------------------------------------------------------
(* The dictionary that a tree is.                                          *)
Shows(d, ns) ==
  /\ d = [x \in DOMAIN d |-> d[x]] /\ DOMAIN d = {ns[n].key : n \in DOMAIN ns}
  /\ \A n \in DOMAIN ns : d[ns[n].key] = ns[n].vals

Without(d, y) == [x \in DOMAIN d \ {y} |-> d[x]]
Given(d, y, w) == [x \in DOMAIN d \cup {y} |-> IF x = y THEN w ELSE d[x]]

LEMMA DictShows == TreesInv => Shows(DictOf, nodes)
<1> SUFFICES ASSUME TreesInv PROVE Shows(DictOf, nodes)
  OBVIOUS
<1>1. Below(nodes, root) = DOMAIN nodes /\ Distinct(nodes)
  BY InvFacts, TreeIsTree DEF IsTree, Sound
<1>2. PICK d : d = DictOf
  OBVIOUS
<1>3. d = [x \in {nodes[n].key : n \in DOMAIN nodes} |-> nodes[NodeOf(x)].vals]
  BY <1>1, <1>2 DEF DictOf
<1>4. ASSUME NEW n \in DOMAIN nodes PROVE d[nodes[n].key] = nodes[n].vals
  <2>1. NodeOf(nodes[n].key) = n
    BY <1>1 DEF NodeOf, Distinct
  <2> QED BY <1>3, <2>1
<1>5. d = [x \in DOMAIN d |-> d[x]] /\ DOMAIN d = {nodes[n].key : n \in DOMAIN nodes}
  BY <1>3
<1> QED BY <1>2, <1>4, <1>5 DEF Shows

LEMMA DictShowsNext == TreesInv' => Shows(DictOf, nodes)'
<1>1. TreesInv => Shows(DictOf, nodes)
  BY DictShows
<1> QED BY <1>1, PTL

LEMMA SetDict ==
  ASSUME NEW d, NEW e, NEW ns, NEW ms, NEW y, NEW w,
         Shows(d, ns), Shows(e, ms), Others(ns, ms, y), Got(ms, y, w)
  PROVE  e = Given(d, y, w)
<1>1. PICK c \in DOMAIN ms : ms[c].key = y /\ ms[c].vals = w
  BY DEF Got
<1>2. e[y] = w /\ y \in DOMAIN e
  BY <1>1 DEF Shows
<1>3. ASSUME NEW x \in DOMAIN d, x # y PROVE x \in DOMAIN e /\ e[x] = d[x]
  <2>1. PICK n \in DOMAIN ns : ns[n].key = x
    BY DEF Shows
  <2>2. n \in DOMAIN ms /\ ms[n].key = x /\ ms[n].vals = ns[n].vals
    BY <1>3, <2>1 DEF Others
  <2> QED BY <2>1, <2>2 DEF Shows
<1>4. ASSUME NEW x \in DOMAIN e, x # y PROVE x \in DOMAIN d
  <2>1. PICK n \in DOMAIN ms : ms[n].key = x
    BY DEF Shows
  <2> QED BY <1>4, <2>1 DEF Shows, Others
<1>5. DOMAIN e = DOMAIN d \cup {y}
  BY <1>2, <1>3, <1>4
<1>6. e = [x \in DOMAIN e |-> e[x]]
  BY DEF Shows
<1> QED BY <1>2, <1>3, <1>5, <1>6 DEF Given

LEMMA DropDict ==
  ASSUME NEW d, NEW e, NEW ns, NEW ms, NEW y,
         Shows(d, ns), Shows(e, ms), Others(ns, ms, y), Gone(ms, y)
  PROVE  e = Without(d, y)
<1>1. ASSUME NEW x \in DOMAIN d \ {y} PROVE x \in DOMAIN e /\ e[x] = d[x]
  <2>1. PICK n \in DOMAIN ns : ns[n].key = x
    BY DEF Shows
  <2>2. n \in DOMAIN ms /\ ms[n].key = x /\ ms[n].vals = ns[n].vals
    BY <1>1, <2>1 DEF Others
  <2> QED BY <2>1, <2>2 DEF Shows
<1>2. ASSUME NEW x \in DOMAIN e PROVE x \in DOMAIN d \ {y}
  <2>1. PICK n \in DOMAIN ms : ms[n].key = x
    BY DEF Shows
  <2>2. x # y
    BY <2>1 DEF Gone
  <2> QED BY <2>1, <2>2 DEF Shows, Others
<1>3. DOMAIN e = DOMAIN d \ {y}
  BY <1>1, <1>2
<1>4. e = [x \in DOMAIN e |-> e[x]]
  BY DEF Shows
<1> QED BY <1>1, <1>3, <1>4 DEF Without

LEMMA SameDict == UNCHANGED <<nodes, root>> => DictOf' = DictOf
BY DEF DictOf, NodeOf

(* What the end of a search says of the dictionary.                        *)
LEMMA Missing ==
  ASSUME TreesInv, pc = "find", current = NULL
  PROVE  arg.key \notin DOMAIN DictOf
<1>1. \A n \in DOMAIN nodes : nodes[n].key # arg.key
  <2>1. Sought
    BY DEF TreesInv, Idle, Finding, Splicing
  <2> QED BY <2>1, BelowNull DEF Sought
<1> QED BY <1>1, DictShows DEF Shows

LEMMA Present ==
  ASSUME TreesInv, current # NULL, nodes[current].key = arg.key
  PROVE  /\ arg.key \in DOMAIN DictOf /\ DictOf[arg.key] = nodes[current].vals
         /\ nodes[current].vals \in Seq(ValsOf(kind)) \ {<<>>}
         /\ kind \in {"set", "map"} => Len(nodes[current].vals) = 1
<1>1. current \in DOMAIN nodes /\ Holds(nodes, kind, current)
  BY InvFacts
<1> QED BY <1>1, DictShows DEF Shows, Holds

-------------------------------------------------------------------------------
(* What a removal keeps of the values of a key.                            *)
KeptOf(w, lo, hi) == {j \in 1 .. Len(w) : j <= lo \/ j > hi}
PlaceIn(K, j) == CHOOSE x \in K : Cardinality({y \in K : y <= x}) = j
RestOf(w, K) == [j \in 1 .. Cardinality(K) |-> w[PlaceIn(K, j)]]

IsPieces(S, s, i, j, t) ==
  /\ t = SubSeq(s, 1, i) \o SubSeq(s, j + 1, Len(s))
  /\ t \in Seq(S) /\ Len(t) = i + Len(s) - j
  /\ \A k \in 1 .. i + Len(s) - j : t[k] = IF k <= i THEN s[k] ELSE s[k - i + j]

LEMMA Pieces ==
  ASSUME NEW S, NEW s \in Seq(S), NEW i \in 0 .. Len(s), NEW j \in i .. Len(s)
  PROVE  \E t : IsPieces(S, s, i, j, t)
<1>1. Len(s) \in Nat /\ \A k \in 1 .. Len(s) : s[k] \in S
  OBVIOUS
<1>2. PICK t, u : t = SubSeq(s, 1, i) /\ u = SubSeq(s, j + 1, Len(s))
  OBVIOUS
<1>3. /\ t \in Seq(S) /\ Len(t) = i /\ \A k \in 1 .. i : t[k] = s[k]
  <2>1. 1 \in Int /\ i \in Int /\ \A k \in 1 .. i : s[k] \in S
    BY <1>1
  <2>2. /\ t \in Seq(S) /\ Len(t) = (IF 1 <= i THEN i - 1 + 1 ELSE 0)
        /\ \A k \in 1 .. i - 1 + 1 : t[k] = s[1 + k - 1]
    BY <1>2, <2>1, SubSeqProperties
  <2> QED BY <2>2
<1>4. /\ u \in Seq(S) /\ Len(u) = Len(s) - j /\ \A k \in 1 .. Len(s) - j : u[k] = s[k + j]
  <2>1. j + 1 \in Int /\ Len(s) \in Int /\ \A k \in (j + 1) .. Len(s) : s[k] \in S
    BY <1>1
  <2>2. /\ u \in Seq(S) /\ Len(u) = (IF j + 1 <= Len(s) THEN Len(s) - (j + 1) + 1 ELSE 0)
        /\ \A k \in 1 .. Len(s) - (j + 1) + 1 : u[k] = s[j + 1 + k - 1]
    BY <1>2, <2>1, SubSeqProperties
  <2> QED BY <1>1, <2>2
<1>5. PICK v : v = t \o u
  OBVIOUS
<1>6. /\ v \in Seq(S) /\ Len(v) = Len(t) + Len(u)
      /\ \A k \in 1 .. Len(v) : v[k] = IF k <= Len(t) THEN t[k] ELSE u[k - Len(t)]
  <2>1. t \in Seq(S) /\ u \in Seq(S)
    BY <1>3, <1>4
  <2> QED BY ONLY <1>5, <2>1
<1>7. Len(v) = i + Len(s) - j
  BY <1>1, <1>3, <1>4, <1>6
<1>8. ASSUME NEW k \in 1 .. Len(v) PROVE v[k] = IF k <= i THEN s[k] ELSE s[k - i + j]
  <2>1. CASE k <= i
    <3>1. k \in 1 .. i /\ k <= Len(t)
      BY <1>3, <2>1
    <3> QED BY <1>3, <1>6, <2>1, <3>1
  <2>2. CASE k > i
    <3>1. k - i \in 1 .. Len(s) - j
      BY <1>1, <1>7, <2>2
    <3>2. ~(k <= Len(t)) /\ k - Len(t) = k - i
      BY <1>3, <2>2
    <3>3. v[k] = u[k - i]
      BY <1>6, <3>2
    <3>4. u[k - i] = s[k - i + j]
      BY <1>4, <3>1
    <3> QED BY <2>2, <3>3, <3>4
  <2> QED BY <2>1, <2>2
<1> QED BY <1>2, <1>5, <1>6, <1>7, <1>8 DEF IsPieces

LEMMA KeptIs ==
  ASSUME NEW n \in Nat, NEW i \in 0 .. n, NEW j \in i .. n,
         NEW K, K = {x \in 1 .. n : x <= i \/ x > j}
  PROVE  /\ Cardinality(K) = i + n - j
         /\ \A k \in 1 .. i + n - j : PlaceIn(K, k) = IF k <= i THEN k ELSE k - i + j
<1>1. ASSUME NEW m \in j .. n
      PROVE  Cardinality({x \in 1 .. m : x <= i \/ x > j}) = i + m - j
  <2> DEFINE A == 1 .. i
             B == (j + 1) .. m
  <2>1. {x \in 1 .. m : x <= i \/ x > j} = A \cup B
    OBVIOUS
  <2>2. /\ IsFiniteSet(A) /\ Cardinality(A) = i
        /\ IsFiniteSet(B) /\ Cardinality(B) = m - j
    <3>1. IsFiniteSet(A) /\ Cardinality(A) = IF 1 > i THEN 0 ELSE i - 1 + 1
      BY FS_Interval
    <3>2. IsFiniteSet(B) /\ Cardinality(B) = IF j + 1 > m THEN 0 ELSE m - (j + 1) + 1
      BY FS_Interval
    <3> HIDE DEF A, B
    <3> QED BY <3>1, <3>2
  <2>3. A \cap B = {}
    OBVIOUS
  <2> HIDE DEF A, B
  <2>4. Cardinality(A \cup B) = Cardinality(A) + Cardinality(B) - Cardinality({})
    BY <2>2, <2>3, FS_Union
  <2>5. Cardinality({}) = 0
    BY FS_EmptySet
  <2>6. Cardinality(A \cup B) = i + m - j
    BY ONLY <2>2, <2>4, <2>5, i \in Int, j \in Int, m \in Int
  <2> QED BY <2>1, <2>6
<1>2. Cardinality(K) = i + n - j
  BY <1>1
<1>3. ASSUME NEW x \in K
      PROVE  Cardinality({y \in K : y <= x}) = IF x <= i THEN x ELSE i + x - j
  <2>1. CASE x <= i
    <3>1. {y \in K : y <= x} = 1 .. x
      BY <2>1
    <3>2. Cardinality(1 .. x) = x
      BY FS_Interval
    <3> QED BY <2>1, <3>1, <3>2
  <2>2. CASE x > j
    <3>1. {y \in K : y <= x} = {y \in 1 .. x : y <= i \/ y > j}
      BY <2>2
    <3>2. x \in j .. n /\ ~(x <= i)
      BY <2>2
    <3> QED BY <1>1, <3>1, <3>2
  <2> QED BY <2>1, <2>2
<1>4. ASSUME NEW k \in 1 .. i + n - j PROVE PlaceIn(K, k) = IF k <= i THEN k ELSE k - i + j
  <2> DEFINE p == IF k <= i THEN k ELSE k - i + j
  <2>1. p \in K /\ (IF p <= i THEN p ELSE i + p - j) = k
    OBVIOUS
  <2>2. ASSUME NEW x \in K, (IF x <= i THEN x ELSE i + x - j) = k PROVE x = p
    BY <2>2
  <2> HIDE DEF p
  <2>3. \A x \in K : Cardinality({y \in K : y <= x}) = k <=> x = p
    BY <1>3, <2>1, <2>2
  <2>4. PlaceIn(K, k) = p
    BY <2>1, <2>3 DEF PlaceIn
  <2> QED BY <2>4 DEF p
<1> QED BY <1>2, <1>4

LEMMA RestIs ==
  ASSUME NEW S, NEW w \in Seq(S), NEW i \in 0 .. Len(w), NEW j \in i .. Len(w),
         NEW K, K = {x \in 1 .. Len(w) : x <= i \/ x > j}
  PROVE  /\ Cardinality(K) = i + Len(w) - j
         /\ RestOf(w, K) = SubSeq(w, 1, i) \o SubSeq(w, j + 1, Len(w))
<1>1. Len(w) \in Nat
  OBVIOUS
<1>2. /\ Cardinality(K) = i + Len(w) - j
      /\ \A k \in 1 .. i + Len(w) - j : PlaceIn(K, k) = IF k <= i THEN k ELSE k - i + j
  BY <1>1, KeptIs
<1>3. PICK t : IsPieces(S, w, i, j, t)
  BY Pieces
<1>4. t = [k \in 1 .. Len(t) |-> t[k]] /\ Len(t) = Cardinality(K)
  <2>1. t \in Seq(S) /\ Len(t) = i + Len(w) - j
    BY <1>3 DEF IsPieces
  <2> QED BY ONLY <1>2, <2>1
<1>5. \A k \in 1 .. Cardinality(K) : w[PlaceIn(K, k)] = t[k]
  <2>1. \A k \in 1 .. i + Len(w) - j : t[k] = IF k <= i THEN w[k] ELSE w[k - i + j]
    BY <1>3 DEF IsPieces
  <2> QED BY ONLY <1>2, <2>1
<1>6. RestOf(w, K) = t
  BY <1>4, <1>5 DEF RestOf
<1> QED BY <1>2, <1>3, <1>6 DEF IsPieces

-------------------------------------------------------------------------------
(* What the steps do to the dictionary, and what they answer.              *)
LEMMA GivenDict ==
  ASSUME TreesInv, TreesInv', NEW y, NEW w, Others(nodes, nodes', y), Got(nodes', y, w)
  PROVE  DictOf' = Given(DictOf, y, w)
<1> PICK d, e, ns, ms : d = DictOf /\ e = DictOf' /\ ns = nodes /\ ms = nodes'
  OBVIOUS
<1>1. Shows(d, ns)
  BY DictShows
<1>2. Shows(e, ms)
  <2>1. Shows(DictOf, nodes)'
    BY DictShowsNext
  <2> QED BY <2>1
<1>3. Others(ns, ms, y) /\ Got(ms, y, w)
  OBVIOUS
<1>4. e = Given(d, y, w)
  BY ONLY <1>1, <1>2, <1>3, SetDict
<1> QED BY <1>4

LEMMA WithoutDict ==
  ASSUME TreesInv, TreesInv', NEW y, Others(nodes, nodes', y), Gone(nodes', y)
  PROVE  DictOf' = Without(DictOf, y)
<1> PICK d, e, ns, ms : d = DictOf /\ e = DictOf' /\ ns = nodes /\ ms = nodes'
  OBVIOUS
<1>1. Shows(d, ns)
  BY DictShows
<1>2. Shows(e, ms)
  <2>1. Shows(DictOf, nodes)'
    BY DictShowsNext
  <2> QED BY <2>1
<1>3. Others(ns, ms, y) /\ Gone(ms, y)
  OBVIOUS
<1>4. e = Without(d, y)
  BY ONLY <1>1, <1>2, <1>3, DropDict
<1> QED BY <1>4

LEMMA Replied ==
  ASSUME NEW b, NEW n, NEW s, Return(b, n, s)
  PROVE  pc' = "idle" /\ ret' = Reply(b, n, s) /\ ret' # Pending
<1>1. Reply(b, n, s) # Pending
  <2>1. Reply(b, n, s).done = TRUE /\ Pending.done = FALSE
    BY DEF Reply, Pending
  <2> QED BY <2>1
<1> QED BY <1>1 DEF Return

LEMMA NodeAdded ==
  ASSUME TreesInv, TreesInv', NEW o \in {"put", "put_if_absent"}, Missed(o), AddNode
  PROVE  /\ arg.key \notin DOMAIN DictOf
         /\ \/ ret' = Reply(FALSE, 0, <<>>) /\ DictOf' = DictOf
            \/ ret' = Reply(TRUE, 0, <<>>) /\ DictOf' = Given(DictOf, arg.key, <<arg.val>>)
<1>1. pc = "find" /\ current = NULL /\ op \in {"put", "put_if_absent"}
  BY DEF Missed
<1>2. arg.key \notin DOMAIN DictOf
  BY <1>1, Missing
<1>3. CASE Return(FALSE, 0, <<>>) /\ UNCHANGED <<tree, call>>
  BY <1>2, <1>3, Replied, SameDict DEF tree
<1>4. ASSUME NEW c, c = FreeCell(arg.key),
             nodes' = Relink(With(nodes, c, create_new_node(arg.key, arg.val)), link, c),
             Return(TRUE, 0, <<>>)
      PROVE  ret' = Reply(TRUE, 0, <<>>) /\ DictOf' = Given(DictOf, arg.key, <<arg.val>>)
  <2>1. Others(nodes, nodes', arg.key) /\ Got(nodes', arg.key, <<arg.val>>)
    BY <1>1, <1>4, AddedSound
  <2> QED BY <1>4, <2>1, GivenDict, Replied
<1> QED BY <1>2, <1>3, <1>4 DEF AddNode

LEMMA ValsGiven ==
  ASSUME TreesInv, TreesInv', pc = "find", current # NULL, nodes[current].key = arg.key,
         NEW w \in Seq(ValsOf(kind)) \ {<<>>}, kind = "multimap" => Len(w) <= nodes[current].cap,
         kind \in {"set", "map"} => Len(w) = 1,
         nodes' = [nodes EXCEPT ![current].vals = w]
  PROVE  DictOf' = Given(DictOf, arg.key, w)
<1>1. Others(nodes, nodes', arg.key) /\ Got(nodes', arg.key, w)
  BY ValsSound
<1> QED BY <1>1, GivenDict

(* A node goes at once, or waits for the one that takes its place.         *)
LEMMA NodeRemoved ==
  ASSUME TreesInv, TreesInv', pc = "find", current # NULL, nodes[current].key = arg.key,
         NEW n, remove_node(n)
  PROVE  \/ ret' = Reply(TRUE, n, <<>>) /\ DictOf' = Without(DictOf, arg.key)
         \/ pc' = "min" /\ ret' = ret /\ DictOf' = DictOf
<1>1. "lhs" \in Sides /\ "rhs" \in Sides
  BY DEF Sides
<1>2. ASSUME NEW side \in Sides, NEW other \in Sides, side # other, PullUp(side, other), Return(TRUE, n, <<>>)
      PROVE  ret' = Reply(TRUE, n, <<>>) /\ DictOf' = Without(DictOf, arg.key)
  <2>1. /\ nodes[current][other] = NULL
        /\ nodes' = free_subsequent_nodes(
                      [Relink(nodes, link, nodes[current][side]) EXCEPT ![current][side] = NULL], current)
    BY <1>2 DEF PullUp
  <2>2. Others(nodes, nodes', arg.key) /\ Gone(nodes', arg.key)
    BY <1>2, <2>1, PulledSound
  <2> QED BY <1>2, <2>2, WithoutDict, Replied
<1>3. CASE pc' = "min" /\ UNCHANGED <<root, nodes, ret, link>>
  BY <1>3, SameDict
<1> QED BY <1>1, <1>2, <1>3 DEF remove_node

LEMMA MinRemoved ==
  ASSUME TreesInv, TreesInv', MinEnds
  PROVE  /\ ret' = Reply(TRUE, Removed, <<>>) /\ DictOf' = Without(DictOf, arg.key) /\ UNCHANGED call
         /\ current # NULL /\ nodes[current].key = arg.key
<1>1. pc = "min" /\ nodes[min].lhs = NULL /\ Return(TRUE, Removed, <<>>) /\ UNCHANGED call
  BY DEF MinEnds
<1>2. nodes' = Kept
  BY DEF MinEnds, Kept, Joined, Moved, Cut
<1>3. Others(nodes, nodes', arg.key) /\ Gone(nodes', arg.key)
  BY <1>1, <1>2, MinSound
<1>4. current # NULL /\ nodes[current].key = arg.key
  <2>1. current \in DOMAIN nodes /\ nodes[current].key = arg.key
    BY <1>1 DEF TreesInv, Idle, Finding, Splicing
  <2> QED BY <2>1, InvFacts
<1> QED BY <1>1, <1>3, <1>4, WithoutDict, Replied

-------------------------------------------------------------------------------
(* What the answer of a call will need to be the promised one.             *)
Answering ==
  /\ pc = "idle" => ret # Pending
  /\ pc = "find" /\ op = "remove_some" /\ kind = "multiset" => arg.lo = 0
  /\ pc = "min" => \/ op = "remove"
                   \/ op = "remove_some" /\ arg.lo = 0 /\ arg.hi \in Nat /\ arg.hi >= Weight

LEMMA Returns ==
  ASSUME NEW b, NEW n, NEW s, Return(b, n, s)
  PROVE  Answering'
<1>1. pc' = "idle" /\ ret' # Pending
  BY Replied
<1> QED BY <1>1 DEF Answering, Pending

LEMMA InitAnswering == Init => Answering
<1>1. Reply(TRUE, 0, <<>>) # Pending
  <2>1. Reply(TRUE, 0, <<>>).done = TRUE /\ Pending.done = FALSE
    BY DEF Reply, Pending
  <2> QED BY <2>1
<1> QED BY <1>1 DEF Init, Answering

LEMMA StartAnswering ==
  ASSUME NEW o, NEW y, NEW v, NEW a, NEW b, StartFind(o, Arg(y, v, a, b)),
         o = "remove_some" /\ kind = "multiset" => a = 0
  PROVE  Answering'
<1>1. /\ op' = o /\ arg' = Arg(y, v, a, b) /\ kind' = kind /\ pc' = "find"
  BY DEF StartFind
<1>2. arg'.lo = a
  BY <1>1 DEF Arg
<1> QED BY <1>1, <1>2 DEF Answering

LEMMA StartsAnswering ==
  ASSUME StartPut \/ StartOnKey \/ StartGetOrDefault \/ StartRemoveCount \/ StartRemoveValues
  PROVE  Answering'
<1>1. CASE StartPut
  BY <1>1, StartAnswering DEF StartPut
<1>2. CASE StartOnKey
  BY <1>2, StartAnswering DEF StartOnKey
<1>3. CASE StartGetOrDefault
  BY <1>3, StartAnswering DEF StartGetOrDefault
<1>4. CASE StartRemoveCount
  BY <1>4, StartAnswering DEF StartRemoveCount
<1>5. CASE StartRemoveValues
  <2>1. PICK x \in KeysOf[kind], r \in Ranges :
           \/ StartFind("remove_some", Arg(x, NULL, r[1], r[2]))
           \/ Return(TRUE, 0, <<>>)
    BY <1>5 DEF StartRemoveValues
  <2>2. kind = "multimap"
    BY <1>5 DEF StartRemoveValues
  <2> QED BY <2>1, <2>2, StartAnswering, Returns
<1> QED BY <1>1, <1>2, <1>3, <1>4, <1>5

LEMMA RemoveAnswering ==
  ASSUME NEW n, remove_node(n), UNCHANGED call,
         \/ op = "remove"
         \/ op = "remove_some" /\ arg.lo = 0 /\ arg.hi \in Nat /\ arg.hi >= Weight
  PROVE  Answering'
<1>1. CASE Return(TRUE, n, <<>>)
  BY <1>1, Returns
<1>2. CASE pc' = "min" /\ UNCHANGED <<root, nodes, ret, link>>
  <2>1. Weight' = Weight
    BY <1>2 DEF Weight, current, Deref
  <2> QED BY <1>2, <2>1 DEF Answering, call
<1> QED BY <1>1, <1>2 DEF remove_node

LEMMA EndsAnswering ==
  ASSUME TreesInv, Answering, Ends
  PROVE  Answering'
<1>1. CASE \E b, n, s : Return(b, n, s)
  BY <1>1, Returns
<1>2. CASE \E n : Hit("remove") /\ remove_node(n)
  <2>1. op = "remove" /\ UNCHANGED call
    BY <1>2, EndsKeepCall DEF Hit
  <2> QED BY <1>2, <2>1, RemoveAnswering
<1>3. CASE /\ Hit("remove_some") /\ remove_node(Weight)
           /\ \/ kind = "multiset" /\ Weight <= arg.hi
              \/ kind = "multimap" /\ MaxIdx = Weight /\ arg.lo = 0
  <2>1. op = "remove_some" /\ UNCHANGED call /\ pc = "find" /\ current # NULL /\ nodes[current].key = arg.key
    BY <1>3, EndsKeepCall DEF Hit
  <2>2. arg.hi \in Nat /\ Weight \in Nat
    <3>1. Asked
      BY <2>1 DEF TreesInv, Idle, Finding, Splicing
    <3> QED BY <2>1, <3>1, FoundFacts DEF Asked
  <2>3. arg.lo = 0 /\ arg.hi >= Weight
    BY <1>3, <2>1, <2>2 DEF Answering, MaxIdx
  <2> QED BY <1>3, <2>1, <2>2, <2>3, RemoveAnswering
<1> QED BY <1>1, <1>2, <1>3
        DEF Ends, tset_put, tmap_put, tmset_put, tmmap_put, AddNode, PutIfAbsent, tset_put_if_absent,
            tmap_put_if_absent, tmset_put_if_absent, tmmap_put_if_absent, Remove, tset_remove, tmap_remove,
            tmset_remove, tmmap_remove, tmset_remove_count, tmmap_remove_values, Nothing, Shorten, Get, GetOrDefault

LEMMA StepAnswering == TreesInv /\ Answering /\ [Next]_vars => Answering'
<1> SUFFICES ASSUME TreesInv, Answering, [Next]_vars PROVE Answering'
  OBVIOUS
<1>1. CASE Ends
  BY <1>1, EndsAnswering
<1>2. CASE MinEnds
  BY <1>2, Returns DEF MinEnds
<1>3. CASE StartPut \/ StartOnKey \/ StartGetOrDefault \/ StartRemoveCount \/ StartRemoveValues
  BY <1>3, StartsAnswering
<1>4. CASE FindNext
  BY <1>4 DEF FindNext, Answering, call, tree
<1>5. CASE MinNext
  <2>1. Weight' = Weight
    BY <1>5 DEF MinNext, Weight, current, Deref, tree
  <2> QED BY <1>5, <2>1 DEF MinNext, Answering, call
<1>6. CASE Walks \/ Clear
  BY <1>6, Returns DEF Walks, Walk, Clear
<1>7. CASE UNCHANGED vars
  <2>1. Weight' = Weight
    BY <1>7 DEF vars, Weight, current, Deref, tree
  <2> QED BY <1>7, <2>1 DEF vars, call, Answering, Pending
<1> QED BY <1>1, <1>2, <1>3, <1>4, <1>5, <1>6, <1>7 DEF Next, Running

-------------------------------------------------------------------------------
(* Every step is one of Assoc, or shows nothing of itself.                 *)
Hidden == UNCHANGED <<kind, DictOf, op, arg, ret>>

LEMMA StartIssues ==
  ASSUME Answering, NEW o, NEW a, StartFind(o, a)
  PROVE  Association!Next
<1>1. ret # Pending /\ ret' = Pending /\ DictOf' = DictOf /\ kind' = kind
  BY SameDict DEF StartFind, Answering, tree
<1> QED BY <1>1 DEF Association!Next, Association!Issue, Association!Pending, Pending

(* An answer to the call that runs.                                        *)
LEMMA Answered ==
  ASSUME NEW o, NEW b, NEW n, NEW s, op = o, UNCHANGED call, ret' = Reply(b, n, s)
  PROVE  Association!Answers(o, b, n, s)
BY DEF Association!Answers, Association!Reply, Reply, call

LEMMA PutsAnswer ==
  ASSUME TreesInv, TreesInv', tset_put \/ tmap_put \/ tmset_put \/ tmmap_put
  PROVE  Association!Put
<1>1. UNCHANGED call /\ arg'.key = arg.key /\ arg'.val = arg.val /\ op = "put"
  BY EndsKeepCall
     DEF Ends, call, tset_put, tmap_put, tmset_put, tmmap_put, Missed, Hit
<1>2. CASE Missed("put") /\ AddNode
  <2>1. arg.key \notin DOMAIN DictOf
    BY <1>2, NodeAdded
  <2>2. CASE ret' = Reply(FALSE, 0, <<>>) /\ DictOf' = DictOf
    <3>1. Association!Answers("put", FALSE, 0, <<>>)
      BY <1>1, <2>2, Answered
    <3> QED BY <1>1, <2>1, <2>2, <3>1 DEF Association!Put, Association!Has
  <2>3. CASE ret' = Reply(TRUE, 0, <<>>) /\ DictOf' = Given(DictOf, arg.key, <<arg.val>>)
    <3>1. Association!Answers("put", TRUE, 0, <<>>)
      BY <1>1, <2>3, Answered
    <3>2. Association!Set(<<arg'.val>>)
      BY <1>1, <2>3 DEF Association!Set, Given
    <3> QED BY <1>1, <2>1, <3>1, <3>2 DEF Association!Put, Association!Has
  <2> QED BY <1>2, <2>2, <2>3, NodeAdded
<1>3. CASE Hit("put")
  <2>1. pc = "find" /\ current # NULL /\ nodes[current].key = arg.key
    BY <1>3 DEF Hit
  <2>2. /\ arg.key \in DOMAIN DictOf /\ DictOf[arg.key] = nodes[current].vals
        /\ Association!Has /\ Association!Old = nodes[current].vals
    BY <1>1, <2>1, Present DEF Association!Has, Association!Old
  <2>3. /\ Weight \in Nat /\ nodes[current].vals \in Seq(ValsOf(kind)) \ {<<>>}
        /\ kind = "multimap" => Weight <= nodes[current].cap
        /\ kind \in {"set", "map"} => Weight = 1
    BY <2>1, FoundFacts
  <2>4. arg.val \in ValsOf(kind)
    BY <1>1, <2>1 DEF TreesInv, Idle, Finding, Splicing, Asked
  <2>5. OneMore \in Seq(ValsOf(kind)) \ {<<>>} /\ Len(OneMore) = Weight + 1
    BY <2>3, <2>4, Appended DEF OneMore, Weight
  <2>6. ASSUME Return(TRUE, 0, <<>>) PROVE Association!Answers("put", TRUE, 0, <<>>)
    BY <1>1, <2>6, Answered, Replied
  <2>7. CASE kind = "set" /\ Return(TRUE, 0, <<>>) /\ UNCHANGED <<tree, call>>
    <3>1. DictOf' = DictOf
      BY <2>7, SameDict DEF tree
    <3> QED BY <2>2, <2>6, <2>7, <3>1 DEF Association!Put
  <2>8. CASE kind = "map" /\ nodes' = [nodes EXCEPT ![current].vals = <<arg.val>>] /\ Return(TRUE, 0, <<>>)
    <3>1. <<arg.val>> \in Seq(ValsOf(kind)) \ {<<>>} /\ Len(<<arg.val>>) = 1
      BY <2>4
    <3>2. DictOf' = Given(DictOf, arg.key, <<arg.val>>)
      BY <2>1, <2>8, <3>1, ValsGiven
    <3>3. Association!Set(<<arg'.val>>)
      BY <1>1, <3>2 DEF Association!Set, Given
    <3> QED BY <2>6, <2>8, <3>3 DEF Association!Put
  <2>9. ASSUME kind \in {"multiset", "multimap"}, DictOf' = Given(DictOf, arg.key, OneMore), Return(TRUE, 0, <<>>)
        PROVE  Association!Put
    <3>1. Append(Association!Old, arg'.val) = OneMore
      BY <1>1, <2>2 DEF OneMore
    <3>2. Association!Set(Append(Association!Old, arg'.val))
      BY <1>1, <2>9, <3>1 DEF Association!Set, Given
    <3> QED BY <2>2, <2>6, <2>9, <3>2 DEF Association!Put
  <2>10. CASE /\ kind \in {"multiset", "multimap"} /\ (kind = "multimap" => nodes[current].cap >= NewSize)
              /\ nodes' = [nodes EXCEPT ![current].vals = OneMore] /\ Return(TRUE, 0, <<>>)
    <3>1. kind = "multimap" => Len(OneMore) <= nodes[current].cap
      BY <2>3, <2>5, <2>10, InvFacts DEF NewSize, Weight
    <3>2. DictOf' = Given(DictOf, arg.key, OneMore)
      BY <2>1, <2>5, <2>10, <3>1, ValsGiven
    <3> QED BY <2>9, <2>10, <3>2
  <2>11. ASSUME kind = "multimap", NEW c \in {current, FreeCell(arg.key)}, Resized(c), Return(TRUE, 0, <<>>)
         PROVE  Association!Put
    <3>1. Others(nodes, nodes', arg.key) /\ Got(nodes', arg.key, OneMore)
      BY <1>1, <2>1, <2>11, ResizedSound
    <3>2. DictOf' = Given(DictOf, arg.key, OneMore)
      BY <3>1, GivenDict
    <3> QED BY <2>9, <2>11, <3>2
  <2>12. CASE kind = "multimap" /\ Return(FALSE, 0, <<>>) /\ UNCHANGED <<tree, call>>
    <3>1. DictOf' = DictOf /\ ret' = Reply(FALSE, 0, <<>>)
      BY <2>12, SameDict, Replied DEF tree
    <3>2. Association!Answers("put", FALSE, 0, <<>>)
      BY <1>1, <3>1, Answered
    <3> QED BY <2>12, <3>1, <3>2 DEF Association!Put
  <2> QED BY <1>3, <2>7, <2>8, <2>10, <2>11, <2>12 DEF tset_put, tmap_put, tmset_put, tmmap_put, Missed, Hit
<1> QED BY <1>2, <1>3 DEF tset_put, tmap_put, tmset_put, tmmap_put

LEMMA PutsIfAbsentAnswer ==
  ASSUME TreesInv, TreesInv',
         tset_put_if_absent \/ tmap_put_if_absent \/ tmset_put_if_absent \/ tmmap_put_if_absent
  PROVE  Association!PutIfAbsent
<1>1. PutIfAbsent
  BY DEF tset_put_if_absent, tmap_put_if_absent, tmset_put_if_absent, tmmap_put_if_absent
<1>2. UNCHANGED call /\ arg'.key = arg.key /\ arg'.val = arg.val /\ op = "put_if_absent"
  BY <1>1, EndsKeepCall DEF Ends, call, PutIfAbsent, Missed, Hit
<1>3. CASE ret' = Reply(FALSE, 0, <<>>) /\ DictOf' = DictOf
  <2>1. Association!Answers("put_if_absent", FALSE, 0, <<>>)
    BY <1>2, <1>3, Answered
  <2> QED BY <1>3, <2>1 DEF Association!PutIfAbsent
<1>4. CASE /\ arg.key \notin DOMAIN DictOf
           /\ ret' = Reply(TRUE, 0, <<>>) /\ DictOf' = Given(DictOf, arg.key, <<arg.val>>)
  <2>1. Association!Answers("put_if_absent", TRUE, 0, <<>>)
    BY <1>2, <1>4, Answered
  <2>2. Association!Set(<<arg'.val>>)
    BY <1>2, <1>4 DEF Association!Set, Given
  <2> QED BY <1>2, <1>4, <2>1, <2>2 DEF Association!PutIfAbsent, Association!Has
<1>5. CASE Missed("put_if_absent") /\ AddNode
  BY <1>3, <1>4, <1>5, NodeAdded
<1>6. CASE Return(FALSE, 0, <<>>) /\ UNCHANGED <<tree, call>>
  BY <1>3, <1>6, SameDict, Replied DEF tree
<1> QED BY <1>1, <1>5, <1>6 DEF PutIfAbsent

LEMMA RemovesAnswer ==
  ASSUME TreesInv, TreesInv', tset_remove \/ tmap_remove \/ tmset_remove \/ tmmap_remove
  PROVE  Association!Remove \/ Hidden
<1>1. Remove
  BY DEF tset_remove, tmap_remove, tmset_remove, tmmap_remove
<1>2. UNCHANGED call /\ arg'.key = arg.key /\ op = "remove"
  BY <1>1, EndsKeepCall DEF Ends, call, Remove, Missed, Hit
<1>3. CASE Missed("remove") /\ Return(FALSE, 0, <<>>) /\ UNCHANGED <<tree, call>>
  <2>1. arg.key \notin DOMAIN DictOf
    BY <1>3, Missing DEF Missed
  <2>2. DictOf' = DictOf /\ ret' = Reply(FALSE, 0, <<>>)
    BY <1>3, SameDict, Replied DEF tree
  <2>3. Association!Answers("remove", FALSE, 0, <<>>)
    BY <1>2, <2>2, Answered
  <2>4. DictOf' = Without(DictOf, arg.key)
    <3>1. DictOf = [x \in DOMAIN DictOf |-> DictOf[x]] /\ DOMAIN DictOf \ {arg.key} = DOMAIN DictOf
      BY <2>1, DictShows DEF Shows
    <3> QED BY <2>2, <3>1 DEF Without
  <2>5. Association!Has = FALSE
    BY <1>2, <2>1 DEF Association!Has
  <2>6. Association!Drop
    BY <1>2, <2>4 DEF Association!Drop, Without
  <2> QED BY <2>3, <2>5, <2>6 DEF Association!Remove
<1>4. CASE Hit("remove") /\ remove_node(0)
  <2>1. pc = "find" /\ current # NULL /\ nodes[current].key = arg.key
    BY <1>4 DEF Hit
  <2>2. arg.key \in DOMAIN DictOf
    BY <2>1, Present
  <2>3. CASE ret' = Reply(TRUE, 0, <<>>) /\ DictOf' = Without(DictOf, arg.key)
    <3>1. Association!Answers("remove", TRUE, 0, <<>>)
      BY <1>2, <2>3, Answered
    <3> QED BY <1>2, <2>2, <2>3, <3>1 DEF Association!Remove, Association!Has, Association!Drop, Without
  <2>4. CASE ret' = ret /\ DictOf' = DictOf
    BY <1>2, <2>4 DEF Hidden, call
  <2> QED BY <1>4, <2>1, <2>3, <2>4, NodeRemoved
<1> QED BY <1>1, <1>3, <1>4 DEF Remove

LEMMA GetsAnswer ==
  ASSUME TreesInv, Get \/ GetOrDefault
  PROVE  Association!Get \/ Association!GetOrDefault
<1>1. UNCHANGED call /\ arg'.key = arg.key /\ arg'.val = arg.val /\ DictOf' = DictOf /\ pc = "find"
  BY SameDict DEF Get, GetOrDefault, Missed, Hit, call, tree
<1>2. ASSUME current = NULL PROVE ~Association!Has /\ Association!Old = <<>> /\ Len(<<>>) = 0
  BY <1>1, <1>2, Missing DEF Association!Has, Association!Old
<1>3. ASSUME current # NULL, nodes[current].key = arg.key
      PROVE  Association!Has /\ Association!Old = nodes[current].vals /\ DictOf[arg'.key] = nodes[current].vals
  BY <1>1, <1>3, Present DEF Association!Has, Association!Old
<1>4. CASE Get
  <2>1. op = "get"
    BY <1>4 DEF Get, Missed, Hit
  <2>2. CASE Missed("get") /\ Return(FALSE, 0, <<>>)
    <3>1. Association!Answers("get", FALSE, 0, <<>>)
      BY <1>1, <2>1, <2>2, Answered, Replied
    <3>2. current = NULL
      BY <2>2 DEF Missed
    <3>3. Association!Has = FALSE
      BY <1>2, <3>2 DEF Association!Has
    <3>4. Association!Old = <<>> /\ Len(<<>>) = 0
      BY <1>2, <3>2
    <3> QED BY <1>1, <3>1, <3>3, <3>4 DEF Association!Get
  <2>3. CASE Hit("get") /\ Return(TRUE, Weight, nodes[current].vals)
    <3> PICK n, s : n = Weight /\ s = nodes[current].vals
      OBVIOUS
    <3>1. Association!Answers("get", TRUE, n, s)
      <4>1. ret' = Reply(TRUE, n, s)
        BY <2>3 DEF Return
      <4> QED BY <1>1, <2>1, <4>1, Answered
    <3>2. current # NULL /\ nodes[current].key = arg.key /\ n = Len(s)
      BY <2>3 DEF Hit, Weight
    <3>3. Association!Has /\ Association!Old = s
      BY <1>3, <3>2
    <3> QED BY <1>1, <3>1, <3>2, <3>3 DEF Association!Get
  <2> QED BY <1>4, <2>2, <2>3 DEF Get
<1>5. CASE GetOrDefault
  <2>1. op = "get_or_default"
    BY <1>5 DEF GetOrDefault, Missed, Hit
  <2>2. PICK e : Return(TRUE, 0, <<e>>) /\ \/ Missed("get_or_default") /\ e = arg.val
                                           \/ Hit("get_or_default") /\ e = nodes[current].vals[1]
    BY <1>5 DEF GetOrDefault
  <2>3. Association!Answers("get_or_default", TRUE, 0, <<e>>)
    BY <1>1, <2>1, <2>2, Answered, Replied
  <2>4. e = IF Association!Has THEN Association!Old[1] ELSE arg'.val
    BY <1>1, <1>2, <1>3, <2>2 DEF Missed, Hit
  <2> QED BY <1>1, <2>3, <2>4 DEF Association!GetOrDefault
<1> QED BY <1>4, <1>5

(* Removals of some values of a key: w are its values, K is what stays.    *)
LEMMA SomeRemoved ==
  ASSUME NEW w, NEW K, NEW n, Association!Old = w, K = KeptOf(w, arg'.lo, arg'.hi),
         Association!Answers("remove_some", TRUE, n, <<>>), n = Len(w) - Cardinality(K),
         K = {} => DictOf' = Without(DictOf, arg'.key),
         K # {} => DictOf' = Given(DictOf, arg'.key, RestOf(w, K))
  PROVE  Association!RemoveSome
<1>1. Association!Kept = K
  BY DEF Association!Kept, KeptOf
<1>2. \A S : Association!Cardinality(S) = Cardinality(S)
  BY DEF Association!Cardinality, Cardinality
<1>3. \A j : Association!Place(j) = PlaceIn(K, j)
  BY <1>1, <1>2 DEF Association!Place, PlaceIn
<1>4. Association!Rest = RestOf(w, K)
  BY <1>1, <1>2, <1>3 DEF Association!Rest, RestOf
<1>5. Len(Association!Old) - Association!Cardinality(Association!Kept) = n
  BY <1>1, <1>2
<1>6. CASE K = {}
  <2>1. Association!Drop
    BY <1>6 DEF Association!Drop, Without
  <2> QED BY <1>1, <1>5, <1>6, <2>1 DEF Association!RemoveSome
<1>7. CASE K # {}
  <2>1. Association!Set(Association!Rest)
    BY <1>4, <1>7 DEF Association!Set, Given
  <2> QED BY <1>1, <1>5, <1>7, <2>1 DEF Association!RemoveSome
<1> QED BY <1>6, <1>7

LEMMA AllKept ==
  ASSUME NEW S, NEW w \in Seq(S), NEW K, K = 1 .. Len(w)
  PROVE  Cardinality(K) = Len(w) /\ RestOf(w, K) = w
<1>1. Len(w) \in Nat /\ w = [k \in 1 .. Len(w) |-> w[k]]
  OBVIOUS
<1>2. PICK m : m = Len(w)
  OBVIOUS
<1>3. Cardinality(K) = m /\ \A k \in 1 .. m : PlaceIn(K, k) = k
  <2>1. m \in Nat /\ 0 \in 0 .. m /\ K = {x \in 1 .. m : x <= 0 \/ x > 0}
    BY <1>1, <1>2
  <2>2. /\ Cardinality(K) = 0 + m - 0
        /\ \A k \in 1 .. 0 + m - 0 : PlaceIn(K, k) = IF k <= 0 THEN k ELSE k - 0 + 0
    BY ONLY <2>1, KeptIs
  <2> QED BY <2>1, <2>2
<1> QED BY <1>1, <1>2, <1>3 DEF RestOf

LEMMA NothingRemoved ==
  ASSUME TreesInv, \A j \in 1 .. Len(Association!Old) : j <= arg'.lo \/ j > arg'.hi,
         DictOf' = DictOf, Association!Answers("remove_some", TRUE, 0, <<>>)
  PROVE  Association!RemoveSome
<1> PICK w, K, d, y : w = Association!Old /\ K = KeptOf(w, arg'.lo, arg'.hi) /\ d = DictOf /\ y = arg'.key
  OBVIOUS
<1>1. K = 1 .. Len(w)
  BY DEF KeptOf
<1>2. Shows(d, nodes)
  BY DictShows
<1>3. d = [x \in DOMAIN d |-> d[x]]
  BY <1>2 DEF Shows
<1>4. CASE y \in DOMAIN d
  <2>1. w = d[y]
    BY <1>4 DEF Association!Old, Association!Has
  <2>2. w \in Seq(ValsOf(kind)) \ {<<>>}
    <3>1. PICK n \in DOMAIN nodes : nodes[n].key = y /\ nodes[n].vals = w
      BY <1>2, <1>4, <2>1 DEF Shows
    <3> QED BY <3>1, InvFacts DEF Holds
  <2>3. Cardinality(K) = Len(w) /\ RestOf(w, K) = w
    BY <1>1, <2>2, AllKept
  <2>4. K # {} /\ 0 = Len(w) - Cardinality(K)
    BY <1>1, <2>2, <2>3
  <2>5. Given(d, y, w) = d
    <3>1. DOMAIN d \cup {y} = DOMAIN d
      BY <1>4
    <3> QED BY <1>3, <2>1, <3>1 DEF Given
  <2> QED BY <2>3, <2>4, <2>5, SomeRemoved
<1>5. CASE y \notin DOMAIN d
  <2>1. w = <<>> /\ Len(w) = 0
    BY <1>5 DEF Association!Old, Association!Has
  <2>2. K = {} /\ 0 = Len(w) - Cardinality(K)
    BY <1>1, <2>1, FS_EmptySet
  <2>3. Without(d, y) = d
    <3>1. DOMAIN d \ {y} = DOMAIN d
      BY <1>5
    <3> QED BY <1>3, <3>1 DEF Without
  <2> QED BY <2>2, <2>3, SomeRemoved
<1> QED BY <1>4, <1>5

LEMMA AllRemoved ==
  ASSUME NEW w \in Seq(ValsOf(kind)), Association!Old = w, arg'.lo = 0, arg'.hi \in Nat, arg'.hi >= Len(w),
         Association!Answers("remove_some", TRUE, Len(w), <<>>), DictOf' = Without(DictOf, arg'.key)
  PROVE  Association!RemoveSome
<1> PICK K : K = KeptOf(w, arg'.lo, arg'.hi)
  OBVIOUS
<1>1. K = {} /\ Len(w) = Len(w) - Cardinality(K)
  <2>1. Len(w) \in Nat /\ Cardinality({}) = 0
    BY FS_EmptySet
  <2>2. K = {}
    BY <2>1 DEF KeptOf
  <2>3. Cardinality(K) = 0
    BY ONLY <2>1, <2>2
  <2> QED BY ONLY <2>1, <2>2, <2>3
<1> QED BY <1>1, SomeRemoved

LEMMA RemoveCountAnswers ==
  ASSUME TreesInv, TreesInv', Answering, tmset_remove_count \/ tmmap_remove_values
  PROVE  Association!RemoveSome \/ Hidden
<1>1. UNCHANGED call /\ arg' = arg /\ op = "remove_some" /\ pc = "find"
  BY EndsKeepCall DEF Ends, call, tmset_remove_count, tmmap_remove_values, Missed, Hit
<1>2. arg.lo \in Nat /\ arg.hi \in Nat /\ (kind = "multiset" => arg.lo = 0) /\ (kind = "multimap" => arg.lo < arg.hi)
  BY <1>1 DEF TreesInv, Idle, Finding, Splicing, Asked, Answering
<1>3. CASE Missed("remove_some") /\ Nothing
  <2>1. Association!Old = <<>> /\ Len(<<>>) = 0
    BY <1>1, <1>3, Missing DEF Missed, Association!Old, Association!Has
  <2>2. DictOf' = DictOf /\ ret' = Reply(TRUE, 0, <<>>)
    BY <1>3, SameDict, Replied DEF Nothing, tree
  <2>3. Association!Answers("remove_some", TRUE, 0, <<>>)
    BY <1>1, <2>2, Answered
  <2> QED BY <2>1, <2>2, <2>3, NothingRemoved
<1>4. CASE Hit("remove_some")
  <2>1. current # NULL /\ nodes[current].key = arg.key
    BY <1>4 DEF Hit
  <2>2. PICK w : w = nodes[current].vals
    OBVIOUS
  <2>3. Association!Old = w /\ w \in Seq(ValsOf(kind)) \ {<<>>} /\ Weight = Len(w) /\ Len(w) \in Nat
    BY <1>1, <2>1, <2>2, Present DEF Association!Old, Association!Has, Weight
  <2>4. CASE Nothing /\ arg.lo >= Weight
    <3>1. DictOf' = DictOf /\ ret' = Reply(TRUE, 0, <<>>)
      BY <2>4, SameDict, Replied DEF Nothing, tree
    <3>2. Association!Answers("remove_some", TRUE, 0, <<>>)
      BY <1>1, <3>1, Answered
    <3>3. \A j \in 1 .. Len(Association!Old) : j <= arg'.lo \/ j > arg'.hi
      BY <1>1, <1>2, <2>3, <2>4
    <3> QED BY <3>1, <3>2, <3>3, NothingRemoved
  <2>5. CASE remove_node(Weight) /\ arg.lo = 0 /\ arg.hi >= Weight
    <3>1. PICK n : n = Weight
      OBVIOUS
    <3>2. CASE ret' = Reply(TRUE, n, <<>>) /\ DictOf' = Without(DictOf, arg.key)
      <4>1. Association!Answers("remove_some", TRUE, n, <<>>)
        BY <1>1, <3>2, Answered
      <4> QED BY <1>1, <1>2, <2>3, <2>5, <3>1, <3>2, <4>1, AllRemoved
    <3>3. CASE ret' = ret /\ DictOf' = DictOf
      BY <1>1, <3>3 DEF Hidden, call
    <3> QED BY <1>1, <2>1, <2>5, <3>1, <3>2, <3>3, NodeRemoved
  <2>6. ASSUME NEW i \in 0 .. Len(w), NEW j \in i .. Len(w), i + Len(w) - j > 0, i = arg.lo,
               \A x \in 1 .. Len(w) : x > j <=> x > arg.hi,
               NEW v, v = SubSeq(w, 1, i) \o SubSeq(w, j + 1, Len(w)), Shorten(v, j - i),
               kind \in {"multiset", "multimap"}
        PROVE  Association!RemoveSome
    <3> PICK K, n : K = KeptOf(w, arg'.lo, arg'.hi) /\ n = j - i
      OBVIOUS
    <3>1. K = {x \in 1 .. Len(w) : x <= i \/ x > j}
      BY <1>1, <2>6 DEF KeptOf
    <3>2. Cardinality(K) = i + Len(w) - j /\ RestOf(w, K) = v
      BY <2>3, <2>6, <3>1, RestIs
    <3>3. i \in Int /\ j \in Int /\ j >= i /\ i + Len(w) - j > 0 /\ Len(w) \in Nat
      BY <2>3, <2>6
    <3>4. K # {} /\ n = Len(w) - Cardinality(K)
      <4>1. Cardinality({}) = 0
        BY FS_EmptySet
      <4>2. Cardinality(K) = i + Len(w) - j /\ n = j - i
        BY <3>2
      <4>3. n = Len(w) - Cardinality(K) /\ Cardinality(K) # 0
        BY ONLY <3>3, <4>2
      <4> QED BY <4>1, <4>3
    <3>5. v \in Seq(ValsOf(kind)) \ {<<>>} /\ Len(v) <= Weight
      <4>1. PICK t : IsPieces(ValsOf(kind), w, i, j, t)
        BY <2>3, Pieces
      <4>2. v \in Seq(ValsOf(kind)) /\ Len(v) = i + Len(w) - j
        BY <2>6, <4>1 DEF IsPieces
      <4>3. Len(<<>>) = 0
        OBVIOUS
      <4>4. Len(v) # 0 /\ Len(v) <= Len(w)
        BY ONLY <3>3, <4>2
      <4>5. v # <<>>
        BY ONLY <4>3, <4>4
      <4> QED BY <2>3, <4>2, <4>4, <4>5
    <3>6. kind = "multimap" => Len(v) <= nodes[current].cap
      <4>1. kind = "multimap" => Weight <= nodes[current].cap /\ nodes[current].cap \in Nat
        BY <1>1, <2>1, FoundFacts, InvFacts
      <4> QED BY <2>3, <3>5, <4>1
    <3>7. nodes' = [nodes EXCEPT ![current].vals = v] /\ ret' = Reply(TRUE, n, <<>>)
      BY <2>6, Replied DEF Shorten
    <3>8. DictOf' = Given(DictOf, arg.key, v)
      BY <1>1, <2>1, <2>6, <3>5, <3>6, <3>7, ValsGiven
    <3>9. Association!Answers("remove_some", TRUE, n, <<>>)
      BY <1>1, <3>7, Answered
    <3> QED BY <1>1, <2>3, <3>2, <3>4, <3>8, <3>9, SomeRemoved
  <2>7. CASE /\ kind = "multiset" /\ Weight > arg.hi
             /\ Shorten(SubSeq(nodes[current].vals, 1, Weight - arg.hi), arg.hi)
    <3>1. PICK i, j : i = 0 /\ j = arg.hi
      OBVIOUS
    <3>2. i \in 0 .. Len(w) /\ j \in i .. Len(w) /\ i + Len(w) - j > 0 /\ i = arg.lo /\ j - i = arg.hi
      BY <1>2, <2>3, <2>7, <3>1
    <3>3. PICK v : v = SubSeq(w, 1, i) \o SubSeq(w, j + 1, Len(w))
      OBVIOUS
    <3>4. PICK u : u = SubSeq(w, 1, Len(w) - j)
      OBVIOUS
    <3>5. w \in Seq({NULL})
      BY <2>3, <2>7 DEF ValsOf
    <3>6. v \in Seq({NULL}) /\ Len(v) = Len(w) - j
      <4>1. PICK t : IsPieces({NULL}, w, i, j, t)
        BY <3>2, <3>5, Pieces
      <4> QED BY <2>3, <3>1, <3>2, <3>3, <4>1 DEF IsPieces
    <3>7. u \in Seq({NULL}) /\ Len(u) = Len(w) - j
      <4>1. Len(w) - j \in 0 .. Len(w)
        BY <2>3, <3>1, <3>2
      <4> QED BY <3>4, <3>5, <4>1, Parts
    <3>8. u = v
      <4>1. Len(u) = Len(v) /\ \A k \in 1 .. Len(u) : u[k] = NULL /\ v[k] = NULL
        BY <3>6, <3>7
      <4> QED BY <3>6, <3>7, <4>1, SeqEqual
    <3>9. Shorten(v, j - i)
      BY <2>2, <2>3, <2>7, <3>1, <3>2, <3>4, <3>8
    <3>10. \A x \in 1 .. Len(w) : x > j <=> x > arg.hi
      BY <3>1
    <3> QED BY <2>6, <2>7, <3>2, <3>3, <3>9, <3>10
  <2>8. CASE /\ kind = "multimap" /\ arg.lo < Weight /\ ~(MaxIdx = Weight /\ arg.lo = 0)
             /\ LET v == nodes[current].vals
                IN  Shorten(SubSeq(v, 1, arg.lo) \o SubSeq(v, MaxIdx + 1, Weight), MaxIdx - arg.lo)
    <3>1. PICK i, j : i = arg.lo /\ j = MaxIdx
      OBVIOUS
    <3>2. i \in 0 .. Len(w) /\ j \in i .. Len(w) /\ i + Len(w) - j > 0 /\ \A x \in 1 .. Len(w) : x > j <=> x > arg.hi
      BY <1>2, <2>3, <2>8, <3>1 DEF MaxIdx
    <3>3. PICK v : v = SubSeq(w, 1, i) \o SubSeq(w, j + 1, Len(w))
      OBVIOUS
    <3>4. Shorten(v, j - i)
      BY <2>2, <2>3, <2>8, <3>1, <3>3
    <3> QED BY <2>6, <2>8, <3>1, <3>2, <3>3, <3>4
  <2>9. kind = "multimap" /\ MaxIdx = Weight => arg.hi >= Weight
    BY <1>2, <2>3 DEF MaxIdx
  <2> QED BY <1>2, <1>4, <2>3, <2>4, <2>5, <2>7, <2>8, <2>9 DEF tmset_remove_count, tmmap_remove_values, Missed, Hit
<1> QED BY <1>3, <1>4 DEF tmset_remove_count, tmmap_remove_values

LEMMA MinEndsAnswers ==
  ASSUME TreesInv, TreesInv', Answering, MinEnds
  PROVE  Association!Remove \/ Association!RemoveSome
<1>1. /\ ret' = Reply(TRUE, Removed, <<>>) /\ DictOf' = Without(DictOf, arg.key) /\ UNCHANGED call
      /\ current # NULL /\ nodes[current].key = arg.key
  BY MinRemoved
<1>2. arg' = arg /\ pc = "min"
  BY <1>1 DEF call, MinEnds
<1>3. PICK w : w = nodes[current].vals
  OBVIOUS
<1>4. /\ w \in Seq(ValsOf(kind)) \ {<<>>} /\ arg.key \in DOMAIN DictOf /\ DictOf[arg.key] = w
      /\ Weight = Len(w)
  BY <1>1, <1>3, Present DEF Weight
<1>5. CASE op = "remove"
  <2>1. Removed = 0
    BY <1>5 DEF Removed
  <2>2. Association!Answers("remove", TRUE, 0, <<>>)
    BY <1>1, <1>5, <2>1, Answered
  <2>3. Association!Has = TRUE
    BY <1>2, <1>4 DEF Association!Has
  <2>4. Association!Drop
    BY <1>1, <1>2 DEF Association!Drop, Without
  <2> QED BY <2>2, <2>3, <2>4 DEF Association!Remove
<1>6. CASE op = "remove_some" /\ arg.lo = 0 /\ arg.hi \in Nat /\ arg.hi >= Weight
  <2>1. PICK n : n = Len(w)
    OBVIOUS
  <2>2. Removed = n
    BY <1>3, <1>6, <2>1 DEF Removed
  <2>3. Association!Answers("remove_some", TRUE, n, <<>>)
    BY <1>1, <1>6, <2>2, Answered
  <2>4. Association!Old = w
    BY <1>2, <1>4 DEF Association!Old, Association!Has
  <2> QED BY <1>1, <1>2, <1>4, <1>6, <2>1, <2>3, <2>4, AllRemoved
<1> QED BY <1>2, <1>5, <1>6 DEF Answering

(* The entries s are those of the keys given, in the dictionary d, in key order. *)
Listed(s, d, keys) ==
  /\ {s[j].key : j \in 1 .. Len(s)} = keys
  /\ \A j \in 1 .. Len(s) : s[j].vals = d[s[j].key]
  /\ \A j \in 1 .. Len(s) - 1 : s[j].key < s[j + 1].key

LEMMA WalkAnswers ==
  ASSUME TreesInv, Answering, NEW o, NEW x, NEW asked, Walk(o, x, inorder(asked)),
         NEW keys, keys = {y \in DOMAIN DictOf : y \in asked}
  PROVE  Association!Walk(o, keys) /\ arg'.key = x /\ kind' = kind
<1>1. PICK s : s = inorder(asked)
  OBVIOUS
<1>2. Visits(nodes, DOMAIN nodes, asked, s)
  BY <1>1, InorderVisits
<1>3. /\ pc = "idle" /\ op' = o /\ arg' = Arg(x, NULL, 0, 0) /\ Return(TRUE, 0, s) /\ kind' = kind
      /\ UNCHANGED tree
  BY <1>1 DEF Walk
<1>4. DictOf' = DictOf /\ ret' = Reply(TRUE, 0, s) /\ ret # Pending /\ arg'.key = x
  BY <1>3, SameDict, Replied DEF tree, Answering, Arg
<1>5. PICK d : d = DictOf
  OBVIOUS
<1>6. Shows(d, nodes)
  BY <1>5, DictShows
<1>7. {s[j].key : j \in 1 .. Len(s)} = keys
  <2>1. ASSUME NEW j \in 1 .. Len(s) PROVE s[j].key \in keys
    <3>1. PICK n \in DOMAIN nodes : s[j].key = nodes[n].key
      BY <1>2 DEF Visits
    <3>2. s[j].key \in asked
      BY <1>2 DEF Visits
    <3>3. s[j].key \in DOMAIN d
      BY <1>6, <3>1 DEF Shows
    <3> QED BY <1>5, <3>2, <3>3
  <2>2. ASSUME NEW y \in keys PROVE \E j \in 1 .. Len(s) : s[j].key = y
    <3>1. y \in DOMAIN d /\ y \in asked
      BY <1>5
    <3>2. PICK n \in DOMAIN nodes : nodes[n].key = y
      BY <1>6, <3>1 DEF Shows
    <3> QED BY <1>2, <3>1, <3>2 DEF Visits
  <2> QED BY <2>1, <2>2
<1>8. ASSUME NEW j \in 1 .. Len(s) PROVE s[j].vals = d[s[j].key]
  <2>1. PICK n \in DOMAIN nodes : s[j].key = nodes[n].key /\ s[j].vals = nodes[n].vals
    BY <1>2 DEF Visits
  <2> QED BY <1>6, <2>1 DEF Shows
<1>9. ASSUME NEW j \in 1 .. Len(s) - 1 PROVE s[j].key < s[j + 1].key
  <2>1. Len(s) \in Nat
    BY <1>2 DEF Visits
  <2>2. j \in 1 .. Len(s) /\ j + 1 \in 1 .. Len(s) /\ j < j + 1
    BY <2>1
  <2> QED BY <1>2, <2>2 DEF Visits
<1>10. ret'.seq = s
  BY <1>4 DEF Reply
<1>11. Association!Answers(o, TRUE, 0, s)
  BY <1>3, <1>4 DEF Association!Answers, Association!Reply, Reply, Association!Pending, Pending
<1>12. Listed(s, d, keys)
  BY <1>7, <1>8, <1>9 DEF Listed
<1>13. Listed(ret'.seq, DictOf, keys)
  BY <1>5, <1>10, <1>12
<1>14. Association!Walk(o, keys)
  BY <1>4, <1>10, <1>11, <1>13 DEF Association!Walk, Listed
<1> QED BY <1>3, <1>4, <1>14

LEMMA WalksAnswer ==
  ASSUME TreesInv, Answering, Walks
  PROVE  Association!Walks /\ kind' = kind
<1>1. DOMAIN DictOf \subseteq KeysOf[kind]
  BY DictShows, InvFacts DEF Shows, Holds
<1>2. CASE Walk("foreach", NULL, traversal_inorder)
  <2>1. DOMAIN DictOf = {y \in DOMAIN DictOf : y \in KeysOf[kind]}
    BY <1>1
  <2>2. Association!Walk("foreach", DOMAIN DictOf) /\ kind' = kind
    BY <1>2, <2>1, WalkAnswers DEF traversal_inorder
  <2> QED BY <2>2 DEF Association!Walks
<1>3. ASSUME NEW x \in KeysOf[kind], Walk("foreach_gt", x, traversal_inorder_gt(x))
      PROVE  Association!Walks /\ kind' = kind
  <2> DEFINE asked == {y \in KeysOf[kind] : y > x}
             keys == {y \in DOMAIN DictOf : y > x}
  <2>1. keys = {y \in DOMAIN DictOf : y \in asked}
    BY <1>1
  <2>2. Walk("foreach_gt", x, inorder(asked))
    BY <1>3 DEF traversal_inorder_gt
  <2> HIDE DEF asked, keys
  <2>3. Association!Walk("foreach_gt", keys) /\ arg'.key = x /\ kind' = kind
    BY <2>1, <2>2, WalkAnswers
  <2> QED BY <2>3 DEF Association!Walks, keys
<1>4. ASSUME NEW x \in KeysOf[kind], Walk("foreach_lt", x, traversal_inorder_lt(x))
      PROVE  Association!Walks /\ kind' = kind
  <2> DEFINE asked == {y \in KeysOf[kind] : y < x}
             keys == {y \in DOMAIN DictOf : y < x}
  <2>1. keys = {y \in DOMAIN DictOf : y \in asked}
    BY <1>1
  <2>2. Walk("foreach_lt", x, inorder(asked))
    BY <1>4 DEF traversal_inorder_lt
  <2> HIDE DEF asked, keys
  <2>3. Association!Walk("foreach_lt", keys) /\ arg'.key = x /\ kind' = kind
    BY <2>1, <2>2, WalkAnswers
  <2> QED BY <2>3 DEF Association!Walks, keys
<1> QED BY <1>2, <1>3, <1>4 DEF Walks

LEMMA EmptyDict ==
  ASSUME NEW d, NEW ns, Shows(d, ns), DOMAIN ns = {}
  PROVE  d = [x \in {} |-> <<>>]
BY DEF Shows

LEMMA ClearAnswers ==
  ASSUME TreesInv, TreesInv', Answering, Clear
  PROVE  Association!Clear /\ kind' = kind
<1>1. pc = "idle" /\ op' = "clear" /\ kind' = kind /\ ret' = Reply(TRUE, 0, <<>>) /\ ret # Pending
  BY Replied DEF Clear, Answering
<1>2. DOMAIN nodes' = {}
  <2>1. CASE len > 0
    <3>1. Below(nodes, root) = DOMAIN nodes
      BY InvFacts, TreeIsTree DEF IsTree
    <3> QED BY <2>1, <3>1 DEF Clear, free_subsequent_nodes, Restrict
  <2>2. CASE ~(len > 0)
    <3>1. len = Total(nodes) /\ len \in Nat /\ nodes' = nodes
      BY <1>1, <2>2, InvFacts DEF Clear, tree
    <3>2. Sound(nodes, root, kind)
      BY InvFacts
    <3>3. \A n \in DOMAIN nodes : Held(nodes, n) \in Nat /\ Held(nodes, n) > 0 /\ Held(nodes, n) <= Total(nodes)
      BY <3>2, HeldIs
    <3>4. ASSUME NEW n \in DOMAIN nodes PROVE FALSE
      BY <2>2, <3>1, <3>3
    <3> QED BY <3>1, <3>4
  <2> QED BY <2>1, <2>2
<1>3. PICK d, ns : d = DictOf' /\ ns = nodes'
  OBVIOUS
<1>4. Shows(d, ns)
  <2>1. Shows(DictOf, nodes)'
    BY DictShowsNext
  <2> QED BY <1>3, <2>1
<1>5. DictOf' = [x \in {} |-> <<>>]
  BY <1>2, <1>3, <1>4, EmptyDict
<1>6. Association!Answers("clear", TRUE, 0, <<>>)
  BY <1>1 DEF Association!Answers, Association!Reply, Reply, Association!Pending, Pending
<1> QED BY <1>1, <1>5, <1>6 DEF Association!Clear

LEMMA StartsAnswer ==
  ASSUME TreesInv, Answering, StartPut \/ StartOnKey \/ StartGetOrDefault \/ StartRemoveCount \/ StartRemoveValues
  PROVE  Association!Next
<1>1. CASE \E o, a : StartFind(o, a)
  BY <1>1, StartIssues
<1>2. CASE /\ pc = "idle" /\ Return(TRUE, 0, <<>>) /\ UNCHANGED <<tree, kind>>
           /\ \E x, r : r \in Ranges /\ r[1] >= r[2] /\ op' = "remove_some" /\ arg' = Arg(x, NULL, r[1], r[2])
  <2>1. PICK x, l, h : l \in Nat /\ h \in Nat /\ l >= h /\ arg' = Arg(x, NULL, l, h) /\ op' = "remove_some"
    BY <1>2, RangesAssumption
  <2>2. arg'.lo = l /\ arg'.hi = h
    BY <2>1 DEF Arg
  <2>3. DictOf' = DictOf /\ ret' = Reply(TRUE, 0, <<>>) /\ ret # Pending /\ kind' = kind
    BY <1>2, SameDict, Replied DEF tree, Answering
  <2>4. Association!Answers("remove_some", TRUE, 0, <<>>)
    BY <2>1, <2>3 DEF Association!Answers, Association!Reply, Reply, Association!Pending, Pending
  <2>5. \A j \in 1 .. Len(Association!Old) : j <= arg'.lo \/ j > arg'.hi
    BY <2>1, <2>2
  <2>6. Association!RemoveSome
    BY <2>3, <2>4, <2>5, NothingRemoved
  <2> QED BY <2>3, <2>6 DEF Association!Next
<1> QED BY <1>1, <1>2 DEF StartPut, StartOnKey, StartGetOrDefault, StartRemoveCount, StartRemoveValues

LEMMA StepAnswers ==
  TreesInv /\ TreesInv' /\ Answering /\ [Next]_vars => [Association!Next]_(Association!vars)
<1> SUFFICES ASSUME TreesInv, TreesInv', Answering, [Next]_vars PROVE Association!Next \/ Hidden
  BY DEF Association!vars, Hidden
<1>1. ASSUME Ends \/ MinEnds, \/ Association!Put \/ Association!PutIfAbsent \/ Association!Remove
                              \/ Association!RemoveSome \/ Association!Get \/ Association!GetOrDefault
      PROVE  Association!Next
  BY <1>1, EndsKeepCall DEF call, Association!Next
<1>2. CASE Ends
  BY <1>1, <1>2, PutsAnswer, PutsIfAbsentAnswer, RemovesAnswer, RemoveCountAnswers, GetsAnswer DEF Ends
<1>3. CASE MinEnds
  BY <1>1, <1>3, MinEndsAnswers
<1>4. CASE StartPut \/ StartOnKey \/ StartGetOrDefault \/ StartRemoveCount \/ StartRemoveValues
  BY <1>4, StartsAnswer
<1>5. CASE FindNext \/ MinNext
  BY <1>5, SameDict DEF FindNext, MinNext, Hidden, call, tree
<1>6. CASE Walks
  BY <1>6, WalksAnswer DEF Association!Next
<1>7. CASE Clear
  BY <1>7, ClearAnswers DEF Association!Next
<1>8. CASE UNCHANGED vars
  BY <1>8, SameDict DEF vars, Hidden, call, tree
<1> QED BY <1>2, <1>3, <1>4, <1>5, <1>6, <1>7, <1>8 DEF Next, Running

LEMMA InitAnswers == Init => Association!Init
<1> SUFFICES ASSUME Init PROVE Association!Init
  OBVIOUS
<1>1. TreesInv /\ DOMAIN nodes = {} /\ ret = Reply(TRUE, 0, <<>>)
  BY InitInv DEF Init
<1>2. DictOf = [x \in {} |-> <<>>]
  BY <1>1, DictShows, EmptyDict
<1> QED BY <1>1, <1>2 DEF Association!Init, Association!Reply, Reply

(* The trees keep what their headers promise, whatever shape they have:    *)
(* an ordered association, where every call has its effect and its answer. *)
THEOREM IsAssociation == Spec => ImplementsAssoc
<1>1. Spec => [](TreesInv /\ Answering)
  <2>1. Init => TreesInv /\ Answering
    BY InitInv, InitAnswering
  <2>2. TreesInv /\ Answering /\ [Next]_vars => TreesInv' /\ Answering'
    BY StepInv, StepAnswering
  <2> QED BY <2>1, <2>2, PTL DEF Spec
<1>2. TreesInv /\ Answering /\ TreesInv' /\ [Next]_vars => [Association!Next]_(Association!vars)
  BY StepAnswers
<1>3. Init => Association!Init
  BY InitAnswers
<1> QED BY <1>1, <1>2, <1>3, PTL DEF Spec, ImplementsAssoc, Association!Spec

===============================================================================
