------------------------------ MODULE ListsProofs ------------------------------
(***************************************************************************)
(* Theorems about Lists, for lists of every length and every comparator.   *)
(***************************************************************************)
EXTENDS Lists, FiniteSetTheorems, SequenceTheorems, WellFoundedInduction, TLAPS

LEMMA LeastNatural ==
  ASSUME NEW T \in SUBSET Nat, T # {}
  PROVE  \E x \in T : \A y \in T : x <= y
<1> DEFINE Less == OpToRel(<, Nat)
<1>1. IsWellFoundedOn(Less, Nat)
  BY NatLessThanWellFounded
<1>2. \A x, y \in Nat : <<x, y>> \in Less <=> x < y
  BY DEF OpToRel
<1> HIDE DEF Less
<1>3. PICK x \in T : \A y \in T : ~ (<<y, x>> \in Less)
  BY <1>1, WFMin
<1>4. ASSUME NEW y \in T PROVE x <= y
  <2>1. x \in Nat /\ y \in Nat
    OBVIOUS
  <2>2. ~ (y < x)
    BY <1>2, <1>3, <2>1
  <2> QED BY <2>1, <2>2
<1> QED BY <1>4

-------------------------------------------------------------------------------
(* Following links.                                                        *)

Linked(ns, side) == \A m \in DOMAIN ns : ns[m][side] \in DOMAIN ns \cup {NULL}

(* The walk of Chain, unfolded k times.                                    *)
WalkStep(ns, side, walk, k, m) ==
  IF k = 0 \/ m = NULL THEN <<>> ELSE <<m>> \o walk[k - 1][ns[m][side]]
IsWalk(ns, side, N, walk) ==
  walk = [k \in 0 .. N |-> [m \in DOMAIN ns \cup {NULL} |-> WalkStep(ns, side, walk, k, m)]]

LEMMA WalkGrows ==
  ASSUME NEW ns, NEW side, Linked(ns, side), NULL \notin DOMAIN ns,
         NEW walk, NEW N \in Nat, IsWalk(ns, side, N, walk)
  PROVE  \E longer : IsWalk(ns, side, N + 1, longer)
<1> DEFINE P == DOMAIN ns \cup {NULL}
           longer == [k \in 0 .. N + 1 |-> [m \in P |-> WalkStep(ns, side, walk, k, m)]]
<1>1. \A k \in 0 .. N, m \in P : longer[k][m] = walk[k][m]
  BY DEF IsWalk
<1>2. ASSUME NEW k \in 0 .. N + 1, NEW m \in P
      PROVE  WalkStep(ns, side, walk, k, m) = WalkStep(ns, side, longer, k, m)
  <2>1. CASE k = 0 \/ m = NULL
    BY <2>1 DEF WalkStep
  <2>2. CASE k # 0 /\ m # NULL
    <3>1. k - 1 \in 0 .. N /\ ns[m][side] \in P
      BY <2>2 DEF Linked
    <3> QED BY <1>1, <2>2, <3>1 DEF WalkStep
  <2> QED BY <2>1, <2>2
<1>3. IsWalk(ns, side, N + 1, longer)
  BY <1>2 DEF IsWalk
<1> QED BY <1>3

LEMMA WalkExists ==
  ASSUME NEW ns, NEW side, Linked(ns, side), NULL \notin DOMAIN ns, NEW N \in Nat
  PROVE  \E walk : IsWalk(ns, side, N, walk)
<1> DEFINE T == {n \in Nat : ~ \E walk : IsWalk(ns, side, n, walk)}
<1>1. 0 \notin T
  <2> DEFINE w == [k \in 0 .. 0 |-> [m \in DOMAIN ns \cup {NULL} |-> <<>>]]
  <2>1. \A k \in 0 .. 0, m \in DOMAIN ns \cup {NULL} : WalkStep(ns, side, w, k, m) = <<>>
    BY DEF WalkStep
  <2>2. IsWalk(ns, side, 0, w)
    BY <2>1 DEF IsWalk
  <2> QED BY <2>2
<1>2. T = {}
  <2> SUFFICES ASSUME T # {} PROVE FALSE
    OBVIOUS
  <2>1. PICK x \in T : \A y \in T : x <= y
    BY LeastNatural
  <2>2. x - 1 \in Nat /\ x - 1 \notin T
    BY <1>1, <2>1
  <2>3. PICK w : IsWalk(ns, side, x - 1, w)
    BY <2>2
  <2>4. \E w2 : IsWalk(ns, side, (x - 1) + 1, w2)
    BY <2>2, <2>3, WalkGrows
  <2> QED BY <2>1, <2>4
<1> QED BY <1>2

LEMMA ChainWalks ==
  ASSUME NEW ns, NEW side, Linked(ns, side), NULL \notin DOMAIN ns, NEW n,
         IsFiniteSet(DOMAIN ns)
  PROVE  \E walk : /\ IsWalk(ns, side, Cardinality(DOMAIN ns), walk)
                   /\ Chain(ns, n, side) = walk[Cardinality(DOMAIN ns)][n]
<1> DEFINE C == Cardinality(DOMAIN ns)
           walk == CHOOSE w : IsWalk(ns, side, C, w)
<1>1. IsWalk(ns, side, C, walk)
  BY FS_CardinalityType, WalkExists
<1>2. Chain(ns, n, side) = walk[C][n]
  BY DEF Chain, IsWalk, WalkStep
<1> QED BY <1>1, <1>2

Unfolds(ns, side, N, walk) ==
  /\ \A k \in 0 .. N : walk[k][NULL] = <<>>
  /\ \A m \in DOMAIN ns \cup {NULL} : walk[0][m] = <<>>
  /\ \A k \in 0 .. N, m \in DOMAIN ns :
       k > 0 /\ m # NULL => walk[k][m] = <<m>> \o walk[k - 1][ns[m][side]]

LEMMA WalkIs ==
  ASSUME NEW ns, NEW side, NEW walk, NEW N \in Nat, IsWalk(ns, side, N, walk)
  PROVE  Unfolds(ns, side, N, walk)
<1>1. \A k \in 0 .. N, m \in DOMAIN ns \cup {NULL} : walk[k][m] = WalkStep(ns, side, walk, k, m)
  BY DEF IsWalk
<1>2. \A k \in 0 .. N : walk[k][NULL] = <<>>
  BY <1>1 DEF WalkStep
<1>3. ASSUME NEW m \in DOMAIN ns \cup {NULL} PROVE walk[0][m] = <<>>
  <2>1. walk[0][m] = WalkStep(ns, side, walk, 0, m)
    BY <1>1
  <2> QED BY <2>1 DEF WalkStep
<1>4. ASSUME NEW k \in 0 .. N, NEW m \in DOMAIN ns, k > 0, m # NULL
      PROVE  walk[k][m] = <<m>> \o walk[k - 1][ns[m][side]]
  <2>1. walk[k][m] = WalkStep(ns, side, walk, k, m)
    BY <1>1
  <2> QED BY <1>4, <2>1 DEF WalkStep
<1> QED BY <1>2, <1>3, <1>4 DEF Unfolds

(* p is what hangs together from n on.                                     *)
Path(ns, n, side, p) ==
  /\ p \in Seq(DOMAIN ns) /\ \A i, j \in 1 .. Len(p) : p[i] = p[j] => i = j
  /\ n = IF p = <<>> THEN NULL ELSE p[1]
  /\ \A i \in 1 .. Len(p) : ns[p[i]][side] = IF i = Len(p) THEN NULL ELSE p[i + 1]

Ending(p, d) == [j \in 1 .. d |-> p[Len(p) - d + j]]

LEMMA TailGrows ==
  ASSUME NEW S, NEW p \in Seq(S), NEW d \in 0 .. Len(p) - 1
  PROVE  <<p[Len(p) - d]>> \o Ending(p, d) = Ending(p, d + 1)
<1>1. Len(p) \in Nat /\ \A j \in 1 .. Len(p) : p[j] \in S
  OBVIOUS
<1>2. Ending(p, d) \in Seq(S) /\ Len(Ending(p, d)) = d
  <2>1. \A j \in 1 .. d : p[Len(p) - d + j] \in S
    BY <1>1
  <2> QED BY <1>1, <2>1 DEF Ending
<1>3. Ending(p, d + 1) \in Seq(S) /\ Len(Ending(p, d + 1)) = d + 1
  <2>1. \A j \in 1 .. d + 1 : p[Len(p) - (d + 1) + j] \in S
    BY <1>1
  <2> QED BY <1>1, <2>1 DEF Ending
<1>4. <<p[Len(p) - d]>> \in Seq(S) /\ Len(<<p[Len(p) - d]>>) = 1
  BY <1>1
<1>5. PICK both : both = <<p[Len(p) - d]>> \o Ending(p, d)
  OBVIOUS
<1>6. /\ both \in Seq(S) /\ Len(both) = d + 1 /\ both[1] = p[Len(p) - d]
      /\ \A j \in 2 .. d + 1 : both[j] = Ending(p, d)[j - 1]
  BY <1>1, <1>2, <1>4, <1>5
<1>7. ASSUME NEW j \in 1 .. d + 1 PROVE both[j] = Ending(p, d + 1)[j]
  <2>1. Ending(p, d + 1)[j] = p[Len(p) - (d + 1) + j]
    BY <1>1 DEF Ending
  <2>2. CASE j = 1
    <3>1. Len(p) - (d + 1) + 1 = Len(p) - d
      BY <1>1
    <3> QED BY <1>6, <2>1, <2>2, <3>1
  <2>3. CASE j # 1
    <3>1. j \in 2 .. d + 1 /\ j - 1 \in 1 .. d /\ Len(p) - d + (j - 1) = Len(p) - (d + 1) + j
      BY <1>1, <2>3
    <3>2. Ending(p, d)[j - 1] = p[Len(p) - d + (j - 1)]
      BY <3>1 DEF Ending
    <3> QED BY <1>6, <2>1, <3>1, <3>2
  <2> QED BY <2>2, <2>3
<1> QED BY <1>3, <1>5, <1>6, <1>7, SeqEqual

LEMMA PathBounded ==
  ASSUME NEW D, IsFiniteSet(D), NEW p \in Seq(D), \A i, j \in 1 .. Len(p) : p[i] = p[j] => i = j
  PROVE  Len(p) <= Cardinality(D)
<1>1. p \in Injection(1 .. Len(p), D)
  BY DEF Injection, IsInjective
<1>2. Cardinality(1 .. Len(p)) = Len(p)
  BY FS_Interval
<1> QED BY <1>1, <1>2, FS_Injection

LEMMA PathWalked ==
  ASSUME NEW ns, NEW side, NULL \notin DOMAIN ns, NEW walk, NEW N \in Nat, IsWalk(ns, side, N, walk),
         NEW n, NEW p, Path(ns, n, side, p), Len(p) <= N
  PROVE  walk[N][n] = p
<1> DEFINE Start(d) == IF d = 0 THEN NULL ELSE p[Len(p) - d + 1]
           Good(d) == \A k \in d .. N : walk[k][Start(d)] = Ending(p, d)
           T == {d \in 0 .. Len(p) : ~Good(d)}
<1>1. p \in Seq(DOMAIN ns) /\ Len(p) \in Nat /\ \A i \in 1 .. Len(p) : p[i] \in DOMAIN ns
  BY DEF Path
<1>a. Unfolds(ns, side, N, walk)
  BY WalkIs
<1>2. 0 \notin T
  <2>1. Ending(p, 0) = <<>>
    BY <1>1 DEF Ending
  <2>2. \A k \in 0 .. N : walk[k][NULL] = <<>>
    BY <1>a DEF Unfolds
  <2> QED BY <2>1, <2>2
<1>3. ASSUME NEW d \in 0 .. Len(p) - 1, Good(d) PROVE Good(d + 1)
  <2> SUFFICES ASSUME NEW k \in d + 1 .. N PROVE walk[k][Start(d + 1)] = Ending(p, d + 1)
    OBVIOUS
  <2>1. d \in Nat /\ k \in 0 .. N /\ k > 0 /\ k - 1 \in d .. N
    BY <1>1
  <2>2. Start(d + 1) = p[Len(p) - d] /\ Len(p) - d \in 1 .. Len(p)
    BY <1>1
  <2>3. ns[p[Len(p) - d]][side] = Start(d)
    BY <1>1, <2>1, <2>2 DEF Path
  <2>4. walk[k][p[Len(p) - d]] = <<p[Len(p) - d]>> \o walk[k - 1][Start(d)]
    <3>1. PICK m \in DOMAIN ns : m = p[Len(p) - d]
      BY <1>1, <2>2
    <3>2. walk[k][m] = <<m>> \o walk[k - 1][ns[m][side]]
      BY <1>a, <2>1 DEF Unfolds
    <3> QED BY <2>3, <3>1, <3>2
  <2>5. walk[k - 1][Start(d)] = Ending(p, d)
    BY <1>3, <2>1
  <2> QED BY <1>1, <2>2, <2>4, <2>5, TailGrows
<1>4. T = {}
  <2> SUFFICES ASSUME T # {} PROVE FALSE
    OBVIOUS
  <2>1. T \in SUBSET Nat
    BY <1>1
  <2>2. PICK x \in T : \A y \in T : x <= y
    BY <2>1, LeastNatural
  <2>3. x - 1 \in 0 .. Len(p) - 1 /\ x - 1 \notin T /\ (x - 1) + 1 = x
    BY SMTT(30), <1>1, <1>2, <2>2
  <2>4. Good(x - 1)
    BY <1>1, <2>3
  <2>5. Good(x)
    BY <1>3, <2>3, <2>4
  <2> QED BY <2>5
<1>5. Good(Len(p))
  BY <1>1, <1>4
<1>6. Start(Len(p)) = n
  <2>1. p = <<>> <=> Len(p) = 0
    BY <1>1
  <2> QED BY <1>1, <2>1 DEF Path
<1>7. Ending(p, Len(p)) = p
  BY <1>1 DEF Ending
<1>8. N \in Len(p) .. N
  BY <1>1
<1> QED BY <1>5, <1>6, <1>7, <1>8

(* The chain from a path's start is the path.                              *)
LEMMA PathChain ==
  ASSUME NEW ns, NEW side, Linked(ns, side), NULL \notin DOMAIN ns, IsFiniteSet(DOMAIN ns),
         NEW n, NEW p, Path(ns, n, side, p)
  PROVE  Chain(ns, n, side) = p
<1>1. Cardinality(DOMAIN ns) \in Nat
  BY FS_CardinalityType
<1>2. Len(p) <= Cardinality(DOMAIN ns)
  BY PathBounded DEF Path
<1> QED BY <1>1, <1>2, ChainWalks, PathWalked

LEMMA ChainType ==
  ASSUME NEW ns, NEW side, Linked(ns, side), NULL \notin DOMAIN ns, IsFiniteSet(DOMAIN ns),
         NEW n \in DOMAIN ns \cup {NULL}
  PROVE  /\ Chain(ns, n, side) \in Seq(DOMAIN ns)
         /\ n # NULL => Len(Chain(ns, n, side)) > 0
<1> DEFINE C == Cardinality(DOMAIN ns)
           D == DOMAIN ns
<1>1. C \in Nat
  BY FS_CardinalityType
<1>2. PICK walk : IsWalk(ns, side, C, walk) /\ Chain(ns, n, side) = walk[C][n]
  BY ChainWalks
<1>3. Unfolds(ns, side, C, walk)
  BY <1>1, <1>2, WalkIs
<1> DEFINE Good(k) == \A m \in D \cup {NULL} : walk[k][m] \in Seq(D)
           T == {k \in 0 .. C : ~Good(k)}
<1>4. Good(0)
  <2> SUFFICES ASSUME NEW m \in D \cup {NULL} PROVE walk[0][m] \in Seq(D)
    OBVIOUS
  <2>1. walk[0][m] = <<>>
    BY <1>3 DEF Unfolds
  <2>2. <<>> \in Seq(D)
    OBVIOUS
  <2> QED BY ONLY <2>1, <2>2
<1>5. ASSUME NEW k \in 1 .. C, NEW m \in D PROVE walk[k][m] = <<m>> \o walk[k - 1][ns[m][side]]
  <2>1. k \in 0 .. C /\ k > 0
    BY <1>1
  <2> QED BY <1>3, <2>1 DEF Unfolds
<1>6. ASSUME NEW k \in 1 .. C, Good(k - 1) PROVE Good(k)
  <2>1. ASSUME NEW m \in D PROVE walk[k][m] \in Seq(D)
    <3>1. ns[m][side] \in D \cup {NULL}
      BY DEF Linked
    <3>2. PICK rest \in Seq(D) : rest = walk[k - 1][ns[m][side]]
      BY <1>6, <3>1
    <3>3. <<m>> \o rest \in Seq(D)
      OBVIOUS
    <3> QED BY <1>5, <3>2, <3>3
  <2>2. walk[k][NULL] \in Seq(D)
    <3>1. walk[k][NULL] = <<>>
      BY <1>1, <1>3 DEF Unfolds
    <3>2. <<>> \in Seq(D)
      OBVIOUS
    <3> QED BY ONLY <3>1, <3>2
  <2>3. \A m \in D \cup {NULL} : m \in D \/ m = NULL
    OBVIOUS
  <2> QED BY ONLY <2>1, <2>2, <2>3
<1>7. T = {}
  <2> SUFFICES ASSUME T # {} PROVE FALSE
    OBVIOUS
  <2>1. T \in SUBSET Nat
    BY <1>1
  <2>2. PICK x \in T : \A y \in T : x <= y
    BY <2>1, LeastNatural
  <2>3. x \in 1 .. C /\ x - 1 \notin T /\ x - 1 \in 0 .. C
    BY <1>1, <1>4, <2>2
  <2>4. Good(x - 1)
    BY <2>3
  <2> QED BY <1>6, <2>3, <2>4
<1>8. Good(C)
  BY <1>1, <1>7
<1>9. ASSUME n # NULL PROVE Len(walk[C][n]) > 0
  <2>1. C > 0
    BY <1>1, <1>9, FS_EmptySet
  <2>2. C \in 1 .. C /\ C - 1 \in 0 .. C
    BY <1>1, <2>1
  <2>3. ns[n][side] \in D \cup {NULL}
    BY <1>9 DEF Linked
  <2>4. Good(C - 1)
    BY <1>7, <2>2
  <2>5. PICK rest \in Seq(D) : rest = walk[C - 1][ns[n][side]]
    BY <2>3, <2>4
  <2>6. Len(<<n>> \o rest) = 1 + Len(rest)
    BY <1>9
  <2>7. walk[C][n] = <<n>> \o rest
    BY <1>5, <1>9, <2>2, <2>5
  <2> QED BY <2>5, <2>6, <2>7
<1> QED BY <1>2, <1>8, <1>9

-------------------------------------------------------------------------------
(* Nodes and links.                                                        *)

Entry(d, p, n) == [data |-> d, prev |-> p, next |-> n]

LEMMA EntryIs ==
  /\ \A D, e : e \in Node(D) =>
       /\ e = Entry(e.data, e.prev, e.next)
       /\ e.data \in Elems /\ e.prev \in D \cup {NULL} /\ e.next \in D \cup {NULL}
  /\ \A D : \A d \in Elems : \A p \in D \cup {NULL} : \A n \in D \cup {NULL} :
       Entry(d, p, n) \in Node(D)
  /\ \A d, p, n : Entry(d, p, n).data = d /\ Entry(d, p, n).prev = p /\ Entry(d, p, n).next = n
BY DEF Node, Entry

EntryFcn(d, p, n) ==
  [x \in {"data", "prev", "next"} |-> IF x = "data" THEN d ELSE IF x = "prev" THEN p ELSE n]

LEMMA EntryWith ==
  ASSUME NEW d, NEW p, NEW n, NEW m
  PROVE  /\ [Entry(d, p, n) EXCEPT !["next"] = m] = Entry(d, p, m)
         /\ [Entry(d, p, n) EXCEPT !["prev"] = m] = Entry(d, m, n)
<1>1. \A a, b, c : Entry(a, b, c) = EntryFcn(a, b, c)
  BY DEF Entry, EntryFcn
<1>2. [EntryFcn(d, p, n) EXCEPT !["next"] = m] = EntryFcn(d, p, m)
  BY DEF EntryFcn
<1>3. [EntryFcn(d, p, n) EXCEPT !["prev"] = m] = EntryFcn(d, m, n)
  BY DEF EntryFcn
<1> QED BY <1>1, <1>2, <1>3

LEMMA EntryTurned ==
  ASSUME NEW d, NEW p, NEW n
  PROVE  [Entry(d, p, n) EXCEPT !["next"] = p, !["prev"] = n] = Entry(d, n, p)
<1>1. \A a, b, c : Entry(a, b, c) = EntryFcn(a, b, c)
  BY DEF Entry, EntryFcn
<1>2. [EntryFcn(d, p, n) EXCEPT !["next"] = p, !["prev"] = n] = EntryFcn(d, n, p)
  BY DEF EntryFcn
<1> QED BY <1>1, <1>2

NextSet(D, ns, n, m, new) ==
  /\ new \in [D -> Node(D)]
  /\ \A y \in D : new[y] = IF y = n THEN Entry(ns[y].data, ns[y].prev, m) ELSE ns[y]
PrevSet(D, ns, n, m, new) ==
  /\ new \in [D -> Node(D)]
  /\ \A y \in D : new[y] = IF y = n THEN Entry(ns[y].data, m, ns[y].next) ELSE ns[y]

LEMMA SetLinkIs ==
  ASSUME NEW D, NEW ns, NEW n, NEW m, NULL \notin D, ns \in [D -> Node(D)],
         n \in D \cup {NULL}, m \in D \cup {NULL}
  PROVE  /\ NextSet(D, ns, n, m, SetLink(ns, n, "next", m))
         /\ PrevSet(D, ns, n, m, SetLink(ns, n, "prev", m))
<1>1. CASE n = NULL
  BY <1>1 DEF SetLink, NextSet, PrevSet
<1>2. CASE n # NULL
  <2>1. n \in D /\ ns[n] \in Node(D)
    BY <1>2
  <2>0. PICK e \in Node(D) : e = ns[n]
    BY <2>1
  <2>2. NextSet(D, ns, n, m, SetLink(ns, n, "next", m))
    <3>0. PICK new : new = SetLink(ns, n, "next", m)
      OBVIOUS
    <3>1. new = [ns EXCEPT ![n] = Entry(ns[n].data, ns[n].prev, m)]
      <4>1. new = [ns EXCEPT ![n]["next"] = m]
        BY <1>2, <3>0 DEF SetLink
      <4>2. [ns[n] EXCEPT !["next"] = m] = Entry(ns[n].data, ns[n].prev, m)
        <5>1. [e EXCEPT !["next"] = m] = Entry(e.data, e.prev, m)
          BY EntryIs, EntryWith
        <5> QED BY ONLY <2>0, <5>1
      <4>3. new = [ns EXCEPT ![n] = [ns[n] EXCEPT !["next"] = m]]
        BY <4>1
      <4> QED BY <4>2, <4>3
    <3>2. Entry(ns[n].data, ns[n].prev, m) \in Node(D)
      BY <2>1 DEF Entry, Node
    <3> QED BY <2>1, <3>0, <3>1, <3>2 DEF NextSet
  <2>3. PrevSet(D, ns, n, m, SetLink(ns, n, "prev", m))
    <3>0. PICK new : new = SetLink(ns, n, "prev", m)
      OBVIOUS
    <3>1. new = [ns EXCEPT ![n] = Entry(ns[n].data, m, ns[n].next)]
      <4>1. new = [ns EXCEPT ![n]["prev"] = m]
        BY <1>2, <3>0 DEF SetLink
      <4>2. [ns[n] EXCEPT !["prev"] = m] = Entry(ns[n].data, m, ns[n].next)
        <5>1. [e EXCEPT !["prev"] = m] = Entry(e.data, m, e.next)
          BY SMTT(30), EntryIs, EntryWith
        <5> QED BY ONLY <2>0, <5>1
      <4>3. new = [ns EXCEPT ![n] = [ns[n] EXCEPT !["prev"] = m]]
        BY <4>1
      <4> QED BY <4>2, <4>3
    <3>2. Entry(ns[n].data, m, ns[n].next) \in Node(D)
      BY <2>1 DEF Entry, Node
    <3> QED BY <2>1, <3>0, <3>1, <3>2 DEF PrevSet
  <2> QED BY <2>2, <2>3
<1> QED BY <1>1, <1>2

-------------------------------------------------------------------------------
(* The shape of a list.                                                    *)

(* The nodes of a list of kind x lie at p, in this order, and nowhere else.*)
Prev(x, p, i) == IF x = "bidi" /\ i > 1 THEN p[i - 1] ELSE NULL
Next1(p, i) == IF i < Len(p) THEN p[i + 1] ELSE NULL
Places(p) == {p[i] : i \in 1 .. Len(p)}
Distinct(p) == \A i, j \in 1 .. Len(p) : p[i] = p[j] => i = j
Shape(x, ns, p) ==
  /\ p \in Seq(Cell) /\ Distinct(p)
  /\ ns = [m \in Places(p) |-> ns[m]]
  /\ \A i \in 1 .. Len(p) : /\ ns[p[i]] = Entry(ns[p[i]].data, Prev(x, p, i), Next1(p, i))
                            /\ ns[p[i]].data \in Elems

FirstOf(p) == IF p = <<>> THEN NULL ELSE p[1]
LastOf(p) == IF p = <<>> THEN NULL ELSE p[Len(p)]

LEMMA PlacesIs ==
  ASSUME NEW p, p \in Seq(Cell)
  PROVE  /\ Len(p) \in Nat /\ DOMAIN p = 1 .. Len(p) /\ Places(p) \subseteq Cell
         /\ \A i \in 1 .. Len(p) : p[i] \in Places(p) /\ p[i] \in Cell
         /\ \A m \in Places(p) : \E i \in 1 .. Len(p) : m = p[i]
         /\ p = <<>> <=> Len(p) = 0
         /\ NULL \notin Places(p) /\ IsFiniteSet(Places(p)) /\ p \in Seq(Places(p))
<1>1. Len(p) \in Nat /\ DOMAIN p = 1 .. Len(p) /\ \A i \in 1 .. Len(p) : p[i] \in Cell
  OBVIOUS
<1>2. Places(p) \subseteq Cell /\ \A i \in 1 .. Len(p) : p[i] \in Places(p)
  BY <1>1 DEF Places
<1>3. IsFiniteSet(Cell)
  BY FS_Interval, MaxLenAssumption DEF Cell
<1>4. IsFiniteSet(Places(p))
  BY <1>2, <1>3, FS_Subset
<1>5. NULL \notin Places(p)
  BY <1>2, NullAssumption
<1>6. p \in Seq(Places(p))
  BY <1>1, <1>2
<1>7. \A m \in Places(p) : \E i \in 1 .. Len(p) : m = p[i]
  BY DEF Places
<1>8. p = <<>> <=> Len(p) = 0
  BY <1>1
<1> QED BY <1>1, <1>2, <1>4, <1>5, <1>6, <1>7, <1>8

LEMMA ShapeType ==
  ASSUME NEW x, NEW ns, NEW p, Shape(x, ns, p)
  PROVE  /\ DOMAIN ns = Places(p) /\ ns \in [Places(p) -> Node(Places(p))]
         /\ \A i \in 1 .. Len(p) : /\ ns[p[i]].prev = Prev(x, p, i)
                                   /\ ns[p[i]].next = Next1(p, i)
         /\ Linked(ns, "next") /\ Linked(ns, "prev")
<1>1. p \in Seq(Cell)
  BY DEF Shape
<1>2. DOMAIN ns = Places(p)
  BY DEF Shape
<1>3. \A i \in 1 .. Len(p) : /\ ns[p[i]] = Entry(ns[p[i]].data, Prev(x, p, i), Next1(p, i))
                             /\ ns[p[i]].data \in Elems
  BY DEF Shape
<1>4. \A i \in 1 .. Len(p) : Prev(x, p, i) \in Places(p) \cup {NULL} /\ Next1(p, i) \in Places(p) \cup {NULL}
  <2> SUFFICES ASSUME NEW i \in 1 .. Len(p)
               PROVE  Prev(x, p, i) \in Places(p) \cup {NULL} /\ Next1(p, i) \in Places(p) \cup {NULL}
    OBVIOUS
  <2>1. Len(p) \in Nat /\ \A j \in 1 .. Len(p) : p[j] \in Places(p)
    BY <1>1, PlacesIs
  <2>2. i > 1 => i - 1 \in 1 .. Len(p)
    BY <2>1
  <2>3. i < Len(p) => i + 1 \in 1 .. Len(p)
    BY <2>1
  <2> QED BY <2>1, <2>2, <2>3 DEF Prev, Next1
<1>5. \A i \in 1 .. Len(p) : /\ ns[p[i]] \in Node(Places(p))
                             /\ ns[p[i]].prev = Prev(x, p, i) /\ ns[p[i]].next = Next1(p, i)
  <2> SUFFICES ASSUME NEW i \in 1 .. Len(p)
               PROVE  /\ ns[p[i]] \in Node(Places(p))
                      /\ ns[p[i]].prev = Prev(x, p, i) /\ ns[p[i]].next = Next1(p, i)
    OBVIOUS
  <2>1. PICK d \in Elems : ns[p[i]] = Entry(d, Prev(x, p, i), Next1(p, i))
    BY <1>3
  <2>2. Entry(d, Prev(x, p, i), Next1(p, i)) \in Node(Places(p))
    BY <1>4, EntryIs
  <2>3. /\ Entry(d, Prev(x, p, i), Next1(p, i)).prev = Prev(x, p, i)
        /\ Entry(d, Prev(x, p, i), Next1(p, i)).next = Next1(p, i)
    BY EntryIs
  <2> QED BY ONLY <2>1, <2>2, <2>3
<1>6. \A m \in Places(p) : ns[m] \in Node(Places(p))
  BY <1>1, <1>5, PlacesIs
<1>7. ns \in [Places(p) -> Node(Places(p))]
  BY <1>6 DEF Shape
<1>8. \A m \in Places(p) : /\ ns[m].prev \in Places(p) \cup {NULL}
                           /\ ns[m].next \in Places(p) \cup {NULL}
  BY <1>6, EntryIs
<1>9. Linked(ns, "next") /\ Linked(ns, "prev")
  BY <1>2, <1>8 DEF Linked
<1> QED BY <1>2, <1>5, <1>7, <1>9

LEMMA ShapeChain ==
  ASSUME NEW x, NEW ns, NEW p, Shape(x, ns, p)
  PROVE  Chain(ns, FirstOf(p), "next") = p /\ Cardinality(DOMAIN ns) = Len(p) /\ Len(p) <= MaxLen
<1>1. p \in Seq(Cell) /\ Distinct(p)
  BY DEF Shape
<1>2. Len(p) \in Nat /\ p \in Seq(Places(p)) /\ IsFiniteSet(Places(p)) /\ NULL \notin Places(p)
  BY <1>1, PlacesIs
<1>3. DOMAIN ns = Places(p) /\ Linked(ns, "next")
  BY ShapeType
<1>4. \A i \in 1 .. Len(p) : ns[p[i]]["next"] = IF i = Len(p) THEN NULL ELSE p[i + 1]
  <2>1. \A i \in 1 .. Len(p) : ns[p[i]].next = Next1(p, i)
    BY ShapeType
  <2> QED BY <1>2, <2>1 DEF Next1
<1>5. Path(ns, FirstOf(p), "next", p)
  BY <1>1, <1>2, <1>3, <1>4 DEF Path, Distinct, FirstOf
<1>6. Chain(ns, FirstOf(p), "next") = p
  BY <1>2, <1>3, <1>5, PathChain
<1>7. Cardinality(DOMAIN ns) = Len(p)
  <2>1. p \in Bijection(1 .. Len(p), Places(p))
    BY SMTT(30), <1>1, <1>2, PlacesIs DEF Bijection, Injection, Surjection, IsInjective, Distinct, Places
  <2>2. IsFiniteSet(1 .. Len(p)) /\ Cardinality(1 .. Len(p)) = Len(p)
    BY <1>2, FS_Interval
  <2>3. ExistsBijection(1 .. Len(p), Places(p))
    BY <2>1 DEF ExistsBijection
  <2> QED BY <1>3, <2>2, <2>3, FS_Bijection
<1>8. Len(p) <= MaxLen
  <2>1. IsFiniteSet(Cell) /\ Cardinality(Cell) = MaxLen
    BY FS_Interval, MaxLenAssumption DEF Cell
  <2> QED BY <1>1, <2>1, PathBounded DEF Distinct
<1> QED BY <1>6, <1>7, <1>8

LEMMA ShapeFrom ==
  ASSUME NEW x, NEW ns, NEW p, NEW D, p \in Seq(Cell), Distinct(p), ns \in [Places(p) -> Node(D)],
         \A i \in 1 .. Len(p) : ns[p[i]].prev = Prev(x, p, i) /\ ns[p[i]].next = Next1(p, i)
  PROVE  Shape(x, ns, p)
<1>1. ASSUME NEW i \in 1 .. Len(p)
      PROVE  /\ ns[p[i]] = Entry(ns[p[i]].data, Prev(x, p, i), Next1(p, i))
             /\ ns[p[i]].data \in Elems
  <2>1. p[i] \in Places(p)
    BY PlacesIs
  <2>2. ns[p[i]] \in Node(D)
    BY <2>1
  <2>3. ns[p[i]] = Entry(ns[p[i]].data, ns[p[i]].prev, ns[p[i]].next) /\ ns[p[i]].data \in Elems
    BY ONLY <2>2, EntryIs
  <2>4. ns[p[i]].prev = Prev(x, p, i) /\ ns[p[i]].next = Next1(p, i)
    OBVIOUS
  <2> QED BY ONLY <2>3, <2>4
<1>2. ns = [m \in Places(p) |-> ns[m]]
  OBVIOUS
<1> QED BY <1>1, <1>2 DEF Shape

(* One more place, in front or behind.                                     *)
Grown(p, c, q) ==
  /\ q \in Seq(Cell) /\ Distinct(q) /\ Places(q) = Places(p) \cup {c}
  /\ Len(q) = Len(p) + 1 /\ q # <<>>
GrownInFront(p, c, q) ==
  Grown(p, c, q) /\ q[1] = c /\ \A i \in 2 .. Len(p) + 1 : q[i] = p[i - 1]
GrownBehind(p, c, q) ==
  Grown(p, c, q) /\ q[Len(p) + 1] = c /\ \A i \in 1 .. Len(p) : q[i] = p[i]

LEMMA PlacesWith ==
  ASSUME NEW p, NEW c, p \in Seq(Cell), Distinct(p), c \in Cell \ Places(p)
  PROVE  GrownInFront(p, c, <<c>> \o p) /\ GrownBehind(p, c, Append(p, c))
<1>1. /\ Len(p) \in Nat /\ c \in Cell /\ c \notin Places(p)
      /\ \A i \in 1 .. Len(p) : p[i] \in Places(p) /\ p[i] \in Cell
  BY PlacesIs
<1>2. GrownInFront(p, c, <<c>> \o p)
  <2>0. PICK q : q = <<c>> \o p
    OBVIOUS
  <2>1. <<c>> \in Seq(Cell) /\ Len(<<c>>) = 1
    BY <1>1
  <2>2. q \in Seq(Cell) /\ Len(q) = Len(p) + 1 /\ q[1] = c /\ \A i \in 2 .. Len(p) + 1 : q[i] = p[i - 1]
    BY <1>1, <2>0, <2>1
  <2>3. \A i \in 2 .. Len(p) + 1 : i - 1 \in 1 .. Len(p)
    BY <1>1
  <2>4. Distinct(q)
    <3>1. ASSUME NEW i \in 1 .. Len(q), NEW j \in 1 .. Len(q), q[i] = q[j], i < j PROVE FALSE
      <4>1. j \in 2 .. Len(p) + 1 /\ j - 1 \in 1 .. Len(p) /\ q[j] = p[j - 1]
        BY <1>1, <2>2, <3>1
      <4>2. CASE i = 1
        BY <1>1, <2>2, <3>1, <4>1, <4>2
      <4>3. CASE i # 1
        <5>1. i - 1 \in 1 .. Len(p) /\ q[i] = p[i - 1]
          BY <1>1, <2>2, <4>3
        <5> QED BY <3>1, <4>1, <5>1 DEF Distinct
      <4> QED BY <4>2, <4>3
    <3>2. \A i, j \in 1 .. Len(q) : i = j \/ i < j \/ j < i
      BY <2>2
    <3> QED BY <3>1, <3>2 DEF Distinct
  <2>5. ASSUME NEW m \in Places(q) PROVE m \in Places(p) \cup {c}
    <3>1. PICK i \in 1 .. Len(q) : m = q[i]
      BY DEF Places
    <3>2. i = 1 \/ (i \in 2 .. Len(p) + 1 /\ i - 1 \in 1 .. Len(p))
      BY <1>1, <2>2
    <3> QED BY <1>1, <2>2, <3>1, <3>2
  <2>6. \A i \in 1 .. Len(p) : i + 1 \in 1 .. Len(q) /\ q[i + 1] = p[i]
    BY <1>1, <2>2
  <2>7. ASSUME NEW m \in Places(p) \cup {c} PROVE m \in Places(q)
    <3>1. 1 \in 1 .. Len(q)
      BY <1>1, <2>2
    <3>2. CASE m \in Places(p)
      <4>1. PICK i \in 1 .. Len(p) : m = p[i]
        BY <3>2 DEF Places
      <4> QED BY <2>6, <4>1 DEF Places
    <3> QED BY <2>2, <3>1, <3>2 DEF Places
  <2>8. q # <<>>
    BY <1>1, <2>2
  <2> QED BY <2>0, <2>2, <2>4, <2>5, <2>7, <2>8 DEF GrownInFront, Grown
<1>3. GrownBehind(p, c, Append(p, c))
  <2>0. PICK q : q = Append(p, c)
    OBVIOUS
  <2>1. /\ q \in Seq(Cell) /\ Len(q) = Len(p) + 1 /\ q[Len(p) + 1] = c
        /\ \A i \in 1 .. Len(p) : q[i] = p[i]
    BY <1>1, <2>0
  <2>2. Distinct(q)
    BY <1>1, <2>1 DEF Distinct
  <2>3. Places(q) = Places(p) \cup {c}
    BY SMTT(30), <1>1, <2>1 DEF Places
  <2>4. q # <<>>
    BY <1>1, <2>1
  <2> QED BY <2>0, <2>1, <2>2, <2>3, <2>4 DEF GrownBehind, Grown
<1> QED BY <1>2, <1>3

WithCell(ns, c, e) ==
  [m \in DOMAIN ns \cup {c} |-> IF m = c THEN Entry(e, NULL, NULL) ELSE ns[m]]

(* A new node, not yet linked.                                             *)
Added(x, ns, p, c, e, ms) ==
  LET D == Places(p) \cup {c}
  IN  /\ p \in Seq(Cell) /\ Distinct(p) /\ NULL \notin D /\ c \notin Places(p)
      /\ ms \in [D -> Node(D)] /\ ms[c] = Entry(e, NULL, NULL)
      /\ \A i \in 1 .. Len(p) : ms[p[i]] = Entry(ns[p[i]].data, Prev(x, p, i), Next1(p, i))

LEMMA CellAdded ==
  ASSUME NEW x, NEW ns, NEW p, NEW c, NEW e,
         Shape(x, ns, p), c \in Cell \ Places(p), e \in Elems
  PROVE  Added(x, ns, p, c, e, WithCell(ns, c, e))
<1> DEFINE D == Places(p) \cup {c}
           ms == WithCell(ns, c, e)
<1>1. p \in Seq(Cell) /\ Distinct(p) /\ DOMAIN ns = Places(p) /\ ns \in [Places(p) -> Node(Places(p))]
  <2>1. p \in Seq(Cell) /\ Distinct(p)
    BY ONLY Shape(x, ns, p) DEF Shape
  <2>2. DOMAIN ns = Places(p) /\ ns \in [Places(p) -> Node(Places(p))]
    BY ONLY Shape(x, ns, p), ShapeType
  <2> QED BY <2>1, <2>2
<1>2. NULL \notin D /\ c \notin Places(p) /\ \A i \in 1 .. Len(p) : p[i] \in Places(p)
  BY <1>1, PlacesIs, NullAssumption
<1>3. Entry(e, NULL, NULL) \in Node(D)
  BY EntryIs
<1>4. \A m \in Places(p) : ns[m] \in Node(D)
  <2>1. \A m \in Places(p) : ns[m] \in Node(Places(p))
    BY <1>1
  <2>2. \A r \in Node(Places(p)) : r \in Node(D)
    BY DEF Node
  <2> QED BY <2>1, <2>2
<1>5. ms \in [D -> Node(D)] /\ ms[c] = Entry(e, NULL, NULL) /\ \A m \in Places(p) : ms[m] = ns[m]
  BY <1>1, <1>2, <1>3, <1>4 DEF WithCell
<1>6. \A i \in 1 .. Len(p) : ns[p[i]] = Entry(ns[p[i]].data, Prev(x, p, i), Next1(p, i))
  BY DEF Shape
<1> QED BY <1>1, <1>2, <1>5, <1>6 DEF Added

(* The node c, given spot as its neighbour on one side and nothing on the  *)
(* other.                                                                  *)
SetBefore(D, ms, spot, c, new) ==
  /\ new \in [D -> Node(D)]
  /\ new[c] = Entry(ms[c].data, NULL, spot)
  /\ spot # NULL => new[spot] = Entry(ms[spot].data, c, ms[spot].next)
  /\ \A m \in D \ {c, spot} : new[m] = ms[m]
SetAfter(D, ms, spot, c, new) ==
  /\ new \in [D -> Node(D)]
  /\ new[c] = Entry(ms[c].data, spot, NULL)
  /\ spot # NULL => new[spot] = Entry(ms[spot].data, ms[spot].prev, c)
  /\ \A m \in D \ {c, spot} : new[m] = ms[m]

LEMMA BesideIs ==
  ASSUME NEW D, NEW ms, NEW c, NEW spot,
         NULL \notin D, ms \in [D -> Node(D)], c \in D, spot \in D \cup {NULL}, spot # c
  PROVE  /\ (spot # NULL => ms[spot].prev = NULL) => SetBefore(D, ms, spot, c, insert_before(ms, spot, c))
         /\ (spot # NULL => ms[spot].next = NULL) => SetAfter(D, ms, spot, c, insert_after(ms, spot, c))
<1>1. c \in D \cup {NULL} /\ NULL \in D \cup {NULL} /\ c # NULL
  OBVIOUS
<1>2. ASSUME spot # NULL => ms[spot].prev = NULL
      PROVE  SetBefore(D, ms, spot, c, insert_before(ms, spot, c))
  <2>0. PICK new : new = insert_before(ms, spot, c)
    OBVIOUS
  <2>1. PICK ns1 : ns1 = SetLink(ms, c, "next", spot)
    OBVIOUS
  <2>2. NextSet(D, ms, c, spot, ns1)
    BY <1>1, <2>1, SetLinkIs
  <2>3. PICK ns2 : ns2 = SetLink(ns1, c, "prev", NULL)
    OBVIOUS
  <2>4. PrevSet(D, ns1, c, NULL, ns2)
    BY <1>1, <2>2, <2>3, SetLinkIs DEF NextSet, PrevSet
  <2>5. new = SetLink(ns2, spot, "prev", c)
    <3>1. ns1 = [ms EXCEPT ![c]["next"] = spot]
      BY <1>1, <2>1 DEF SetLink
    <3>2. ns2 = [ns1 EXCEPT ![c]["prev"] = NULL]
      BY <1>1, <2>3 DEF SetLink
    <3>3. ns2 = [ms EXCEPT ![c]["next"] = spot, ![c]["prev"] = NULL]
      BY <3>1, <3>2
    <3>4. (IF spot = NULL THEN NULL ELSE ms[spot]["prev"]) = NULL
      BY <1>2
    <3> QED BY <2>0, <3>3, <3>4 DEF insert_before, InsertBeside, SetLink
  <2>6. PrevSet(D, ns2, spot, c, new)
    BY <1>1, <2>4, <2>5, SetLinkIs DEF NextSet, PrevSet
  <2> QED BY <1>1, <2>0, <2>2, <2>4, <2>6, EntryIs DEF NextSet, PrevSet, SetBefore
<1>3. ASSUME spot # NULL => ms[spot].next = NULL
      PROVE  SetAfter(D, ms, spot, c, insert_after(ms, spot, c))
  <2>0. PICK new : new = insert_after(ms, spot, c)
    OBVIOUS
  <2>1. PICK ns1 : ns1 = SetLink(ms, c, "prev", spot)
    OBVIOUS
  <2>2. PrevSet(D, ms, c, spot, ns1)
    BY <1>1, <2>1, SetLinkIs
  <2>3. PICK ns2 : ns2 = SetLink(ns1, c, "next", NULL)
    OBVIOUS
  <2>4. NextSet(D, ns1, c, NULL, ns2)
    BY <1>1, <2>2, <2>3, SetLinkIs DEF NextSet, PrevSet
  <2>5. new = SetLink(ns2, spot, "next", c)
    <3>1. ns1 = [ms EXCEPT ![c]["prev"] = spot]
      BY <1>1, <2>1 DEF SetLink
    <3>2. ns2 = [ns1 EXCEPT ![c]["next"] = NULL]
      BY <1>1, <2>3 DEF SetLink
    <3>3. ns2 = [ms EXCEPT ![c]["prev"] = spot, ![c]["next"] = NULL]
      BY <3>1, <3>2
    <3>4. (IF spot = NULL THEN NULL ELSE ms[spot]["next"]) = NULL
      BY <1>3
    <3> QED BY <2>0, <3>3, <3>4 DEF insert_after, InsertBeside, SetLink
  <2>6. NextSet(D, ns2, spot, c, new)
    BY <1>1, <2>4, <2>5, SetLinkIs DEF NextSet, PrevSet
  <2> QED BY <1>1, <2>0, <2>2, <2>4, <2>6, EntryIs DEF NextSet, PrevSet, SetAfter
<1> QED BY <1>2, <1>3

SameData(ns, new, S) == \A m \in S : new[m].data = ns[m].data

LEMMA AddedInFront ==
  ASSUME NEW x, NEW ns, NEW p, NEW c, NEW e, NEW new,
         Shape(x, ns, p), c \in Cell \ Places(p), e \in Elems,
         \/ x = "bidi" /\ new = insert_before(WithCell(ns, c, e), FirstOf(p), c)
         \/ x = "forward" /\ new = SetLink(WithCell(ns, c, e), c, "next", FirstOf(p))
  PROVE  Shape(x, new, <<c>> \o p) /\ SameData(ns, new, Places(p)) /\ new[c].data = e
<1> DEFINE D == Places(p) \cup {c}
<1>1. PICK ms : ms = WithCell(ns, c, e)
  OBVIOUS
<1>2. PICK q : q = <<c>> \o p
  OBVIOUS
<1>3. /\ p \in Seq(Cell) /\ Distinct(p) /\ NULL \notin D /\ c \notin Places(p)
      /\ ms \in [D -> Node(D)] /\ ms[c] = Entry(e, NULL, NULL)
      /\ \A i \in 1 .. Len(p) : ms[p[i]] = Entry(ns[p[i]].data, Prev(x, p, i), Next1(p, i))
  <2>1. Added(x, ns, p, c, e, ms)
    BY <1>1, CellAdded
  <2> QED BY <2>1 DEF Added
<1>4. /\ q \in Seq(Cell) /\ Distinct(q) /\ Places(q) = D /\ Len(q) = Len(p) + 1 /\ q # <<>> /\ q[1] = c
      /\ \A i \in 2 .. Len(p) + 1 : q[i] = p[i - 1]
  <2>1. GrownInFront(p, c, q)
    BY <1>2, <1>3, PlacesWith
  <2> QED BY <2>1 DEF GrownInFront, Grown
<1>5. /\ Len(p) \in Nat /\ \A i \in 1 .. Len(p) : p[i] \in Places(p)
      /\ p = <<>> <=> Len(p) = 0
  BY <1>3, PlacesIs
<1>6. FirstOf(p) \in D \cup {NULL} /\ FirstOf(p) # c /\ (FirstOf(p) # NULL => Len(p) > 0 /\ FirstOf(p) = p[1])
  BY <1>3, <1>4, <1>5 DEF FirstOf
<1>7. FirstOf(p) # NULL => ms[FirstOf(p)].prev = NULL
  <2>1. FirstOf(p) # NULL => ms[FirstOf(p)] = Entry(ns[p[1]].data, NULL, Next1(p, 1))
    BY <1>3, <1>5, <1>6 DEF Prev
  <2> QED BY <2>1, EntryIs
<1>8. /\ new \in [D -> Node(D)]
      /\ new[c] = Entry(e, NULL, FirstOf(p))
      /\ FirstOf(p) # NULL => new[FirstOf(p)] = Entry(ms[FirstOf(p)].data, IF x = "bidi" THEN c ELSE NULL, ms[FirstOf(p)].next)
      /\ \A m \in D \ {c, FirstOf(p)} : new[m] = ms[m]
  <2>0. c \in D
    OBVIOUS
  <2>1. CASE x = "bidi"
    <3>1. new = insert_before(ms, FirstOf(p), c)
      BY <1>1, <2>1
    <3>2. SetBefore(D, ms, FirstOf(p), c, new)
      BY <1>3, <1>6, <1>7, <2>0, <3>1, BesideIs
    <3>3. ms[c].data = e
      BY <1>3, EntryIs
    <3> QED BY <2>1, <3>2, <3>3 DEF SetBefore
  <2>2. CASE x = "forward"
    <3>1. new = SetLink(ms, c, "next", FirstOf(p))
      BY <1>1, <2>2
    <3>2. NextSet(D, ms, c, FirstOf(p), new)
      BY <1>3, <1>6, <2>0, <3>1, SetLinkIs
    <3>3. FirstOf(p) # NULL => ms[FirstOf(p)] = Entry(ms[FirstOf(p)].data, NULL, ms[FirstOf(p)].next)
      <4>1. FirstOf(p) # NULL => ms[FirstOf(p)] = Entry(ns[p[1]].data, NULL, Next1(p, 1))
        BY <1>3, <1>5, <1>6 DEF Prev
      <4> QED BY <4>1, EntryIs
    <3>4. FirstOf(p) # NULL => new[FirstOf(p)] = ms[FirstOf(p)]
      BY <1>6, <3>2 DEF NextSet
    <3>5. new[c] = Entry(e, NULL, FirstOf(p))
      BY <1>3, <2>0, <3>2, EntryIs DEF NextSet
    <3> QED BY <2>2, <3>2, <3>3, <3>4, <3>5 DEF NextSet
  <2> QED BY <2>1, <2>2
<1>9. ASSUME NEW i \in 1 .. Len(p)
      PROVE  new[p[i]] = Entry(ns[p[i]].data, IF x = "bidi" THEN q[i] ELSE NULL, Next1(p, i))
  <2>1. p[i] \in D /\ p[i] # c /\ ms[p[i]] = Entry(ns[p[i]].data, Prev(x, p, i), Next1(p, i))
    BY <1>3, <1>5
  <2>2. CASE i = 1
    <3>1. p[i] = FirstOf(p) /\ q[i] = c /\ FirstOf(p) # NULL
      BY <1>3, <1>4, <1>5, <2>2 DEF FirstOf
    <3> QED BY <1>8, <2>1, <3>1, EntryIs
  <2>3. CASE i # 1
    <3>1. p[i] # FirstOf(p) /\ q[i] = p[i - 1] /\ i > 1
      <4>1. 1 \in 1 .. Len(p) /\ i > 1 /\ i \in 2 .. Len(p) + 1
        BY <1>5, <2>3
      <4>2. p[i] # p[1]
        BY <1>3, <2>3, <4>1 DEF Distinct
      <4>3. FirstOf(p) = p[1]
        BY <1>5, <4>1 DEF FirstOf
      <4> QED BY <1>4, <4>1, <4>2, <4>3
    <3>2. new[p[i]] = ms[p[i]]
      BY <1>8, <2>1, <3>1
    <3> QED BY <2>1, <3>1, <3>2 DEF Prev
  <2> QED BY <2>2, <2>3
<1>10. ASSUME NEW i \in 1 .. Len(q) PROVE new[q[i]].prev = Prev(x, q, i) /\ new[q[i]].next = Next1(q, i)
  <2>1. CASE i = 1
    <3>1. Next1(q, 1) = FirstOf(p) /\ Prev(x, q, 1) = NULL /\ q[1] = c
      <4>1. CASE Len(p) = 0
        BY <1>4, <1>5, <4>1 DEF Next1, FirstOf, Prev
      <4>2. CASE Len(p) > 0
        <5>1. q[2] = p[1]
          BY <1>4, <1>5, <4>2
        <5> QED BY <1>4, <1>5, <4>2, <5>1 DEF Next1, FirstOf, Prev
      <4> QED BY <1>5, <4>1, <4>2
    <3> QED BY <1>8, <2>1, <3>1, EntryIs
  <2>2. CASE i # 1
    <3>1. i - 1 \in 1 .. Len(p) /\ i \in 2 .. Len(p) + 1 /\ q[i] = p[i - 1]
      BY <1>4, <1>5, <2>2
    <3>2. Next1(q, i) = Next1(p, i - 1)
      <4>1. CASE i = Len(q)
        BY <1>4, <1>5, <4>1 DEF Next1
      <4>2. CASE i # Len(q)
        <5>1. i + 1 \in 2 .. Len(p) + 1 /\ i - 1 < Len(p) /\ i < Len(q)
          BY <1>4, <1>5, <3>1, <4>2
        <5>2. q[i + 1] = p[(i - 1) + 1]
          BY <1>4, <3>1, <5>1
        <5> QED BY <5>1, <5>2 DEF Next1
      <4> QED BY <4>1, <4>2
    <3>3. Prev(x, q, i) = IF x = "bidi" THEN q[i - 1] ELSE NULL
      BY <3>1 DEF Prev
    <3>4. new[q[i]] = Entry(ns[p[i - 1]].data, Prev(x, q, i), Next1(q, i))
      BY <1>9, <3>1, <3>2, <3>3
    <3> QED BY <3>4, EntryIs
  <2> QED BY <2>1, <2>2
<1>11. Shape(x, new, q)
  BY <1>4, <1>8, <1>10, ShapeFrom
<1>12. SameData(ns, new, Places(p)) /\ new[c].data = e
  BY <1>3, <1>8, <1>9, EntryIs, PlacesIs DEF SameData
<1> QED BY <1>2, <1>11, <1>12

LEMMA AddedBehind ==
  ASSUME NEW x, NEW ns, NEW p, NEW c, NEW e, NEW new,
         Shape(x, ns, p), c \in Cell \ Places(p), e \in Elems,
         x = "bidi", new = insert_after(WithCell(ns, c, e), LastOf(p), c)
  PROVE  Shape(x, new, Append(p, c)) /\ SameData(ns, new, Places(p)) /\ new[c].data = e
<1> DEFINE D == Places(p) \cup {c}
<1>1. PICK ms : ms = WithCell(ns, c, e)
  OBVIOUS
<1>2. PICK q : q = Append(p, c)
  OBVIOUS
<1>3. /\ p \in Seq(Cell) /\ Distinct(p) /\ NULL \notin D /\ c \notin Places(p)
      /\ ms \in [D -> Node(D)] /\ ms[c] = Entry(e, NULL, NULL)
      /\ \A i \in 1 .. Len(p) : ms[p[i]] = Entry(ns[p[i]].data, Prev(x, p, i), Next1(p, i))
  <2>1. Added(x, ns, p, c, e, ms)
    BY <1>1, CellAdded
  <2> QED BY <2>1 DEF Added
<1>4. /\ q \in Seq(Cell) /\ Distinct(q) /\ Places(q) = D /\ Len(q) = Len(p) + 1 /\ q # <<>>
      /\ q[Len(p) + 1] = c /\ \A i \in 1 .. Len(p) : q[i] = p[i]
  <2>1. GrownBehind(p, c, q)
    BY <1>2, <1>3, PlacesWith
  <2> QED BY <2>1 DEF GrownBehind, Grown
<1>5. /\ Len(p) \in Nat /\ \A i \in 1 .. Len(p) : p[i] \in Places(p)
      /\ p = <<>> <=> Len(p) = 0
  BY <1>3, PlacesIs
<1>6. /\ LastOf(p) \in D \cup {NULL} /\ LastOf(p) # c
      /\ LastOf(p) # NULL => Len(p) > 0 /\ LastOf(p) = p[Len(p)] /\ Len(p) \in 1 .. Len(p)
  BY <1>3, <1>4, <1>5 DEF LastOf
<1>7. LastOf(p) # NULL => ms[LastOf(p)].next = NULL
  <2>1. LastOf(p) # NULL => ms[LastOf(p)] = Entry(ns[p[Len(p)]].data, Prev(x, p, Len(p)), NULL)
    BY <1>3, <1>5, <1>6 DEF Next1
  <2> QED BY <2>1, EntryIs
<1>8. /\ new \in [D -> Node(D)]
      /\ new[c] = Entry(e, LastOf(p), NULL)
      /\ LastOf(p) # NULL => new[LastOf(p)] = Entry(ms[LastOf(p)].data, ms[LastOf(p)].prev, c)
      /\ \A m \in D \ {c, LastOf(p)} : new[m] = ms[m]
  <2>0. c \in D
    OBVIOUS
  <2>1. SetAfter(D, ms, LastOf(p), c, new)
    BY <1>1, <1>3, <1>6, <1>7, <2>0, BesideIs
  <2>2. ms[c].data = e
    BY <1>3, EntryIs
  <2> QED BY <2>1, <2>2 DEF SetAfter
<1>9. ASSUME NEW i \in 1 .. Len(p)
      PROVE  new[q[i]] = Entry(ns[p[i]].data, Prev(x, q, i), Next1(q, i))
  <2>1. p[i] \in D /\ p[i] # c /\ ms[p[i]] = Entry(ns[p[i]].data, Prev(x, p, i), Next1(p, i))
    BY <1>3, <1>5
  <2>2. q[i] = p[i] /\ Prev(x, q, i) = Prev(x, p, i) /\ Next1(q, i) = q[i + 1]
    <3>1. i > 1 => q[i - 1] = p[i - 1]
      BY <1>4, <1>5
    <3> QED BY <1>4, <1>5, <3>1 DEF Prev, Next1
  <2>3. CASE i = Len(p)
    <3>1. p[i] = LastOf(p) /\ LastOf(p) # NULL /\ q[i + 1] = c
      BY <1>3, <1>4, <1>5, <2>3 DEF LastOf
    <3> QED BY <1>8, <2>1, <2>2, <3>1, EntryIs
  <2>4. CASE i # Len(p)
    <3>1. i + 1 \in 1 .. Len(p) /\ Len(p) \in 1 .. Len(p)
      BY <1>5, <2>4
    <3>2. p[i] # LastOf(p)
      BY <1>3, <1>5, <2>4, <3>1 DEF Distinct, LastOf
    <3>3. new[p[i]] = ms[p[i]]
      BY <1>8, <2>1, <3>2
    <3>4. Next1(p, i) = Next1(q, i)
      BY <1>4, <1>5, <2>2, <3>1 DEF Next1
    <3> QED BY <2>1, <2>2, <3>3, <3>4
  <2> QED BY <2>3, <2>4
<1>10. ASSUME NEW i \in 1 .. Len(q) PROVE new[q[i]].prev = Prev(x, q, i) /\ new[q[i]].next = Next1(q, i)
  <2>1. CASE i = Len(p) + 1
    <3>1. q[i] = c /\ Next1(q, i) = NULL
      BY <1>4, <1>5, <2>1 DEF Next1
    <3>2. Prev(x, q, i) = LastOf(p)
      <4>1. CASE Len(p) = 0
        BY <1>5, <2>1, <4>1 DEF Prev, LastOf
      <4>2. CASE Len(p) > 0
        <5>1. q[i - 1] = p[Len(p)]
          BY <1>4, <1>5, <2>1, <4>2
        <5> QED BY <1>5, <2>1, <4>2, <5>1 DEF Prev, LastOf
      <4> QED BY <1>5, <4>1, <4>2
    <3> QED BY <1>8, <3>1, <3>2, EntryIs
  <2>2. CASE i # Len(p) + 1
    <3>1. i \in 1 .. Len(p)
      BY <1>4, <1>5, <2>2
    <3> QED BY <1>9, <3>1, EntryIs
  <2> QED BY <2>1, <2>2
<1>11. Shape(x, new, q)
  BY <1>4, <1>8, <1>10, ShapeFrom
<1>12. SameData(ns, new, Places(p)) /\ new[c].data = e
  <2>1. ASSUME NEW i \in 1 .. Len(p) PROVE new[p[i]].data = ns[p[i]].data
    BY <1>4, <1>9, EntryIs
  <2>2. \A m \in Places(p) : \E i \in 1 .. Len(p) : m = p[i]
    BY DEF Places
  <2> QED BY <1>8, <2>1, <2>2, EntryIs DEF SameData
<1> QED BY <1>2, <1>11, <1>12

(* malloc's cell.                                                          *)
LEMMA NewCell ==
  ASSUME NEW D, D \in SUBSET Cell, Cell \ D # {}
  PROVE  Min(Cell \ D) \in Cell \ D
<1> DEFINE T == Cell \ D
<1>1. T \in SUBSET Nat /\ T # {}
  BY MaxLenAssumption DEF Cell
<1>3. \E x \in T : \A y \in T : x <= y
  BY <1>1, LeastNatural
<1>4. (CHOOSE x \in T : \A y \in T : x <= y) \in T
  BY <1>3
<1> QED BY <1>4 DEF Min

-------------------------------------------------------------------------------
(* Taking a node off.                                                      *)

Cut(p, j) == [i \in 1 .. Len(p) - 1 |-> IF i < j THEN p[i] ELSE p[i + 1]]

CutOff(p, j, q) ==
  /\ q \in Seq(Cell) /\ Distinct(q) /\ Places(q) = Places(p) \ {p[j]}
  /\ Len(q) = Len(p) - 1 /\ Len(q) \in Nat
  /\ \A i \in 1 .. Len(p) - 1 : q[i] = IF i < j THEN p[i] ELSE p[i + 1]

LEMMA CutIs ==
  ASSUME NEW p, NEW j, p \in Seq(Cell), Distinct(p), j \in 1 .. Len(p)
  PROVE  CutOff(p, j, Cut(p, j))
<1>1. /\ Len(p) \in Nat /\ Len(p) - 1 \in Nat
      /\ \A i \in 1 .. Len(p) : p[i] \in Places(p) /\ p[i] \in Cell
  BY PlacesIs
<1>2. PICK q : q = Cut(p, j)
  OBVIOUS
<1>3. \A i \in 1 .. Len(p) - 1 : q[i] = IF i < j THEN p[i] ELSE p[i + 1]
  BY <1>2 DEF Cut
<1>4. \A i \in 1 .. Len(p) - 1 : i \in 1 .. Len(p) /\ i + 1 \in 1 .. Len(p)
  BY <1>1
<1>5. q \in Seq(Cell) /\ Len(q) = Len(p) - 1
  <2>1. \A i \in 1 .. Len(p) - 1 : (IF i < j THEN p[i] ELSE p[i + 1]) \in Cell
    BY <1>1, <1>4
  <2> QED BY <1>1, <1>2, <2>1 DEF Cut
<1> DEFINE at(i) == IF i < j THEN i ELSE i + 1
<1>6. \A i \in 1 .. Len(q) : q[i] = p[at(i)] /\ at(i) \in 1 .. Len(p) /\ at(i) # j
  BY <1>1, <1>3, <1>4, <1>5
<1>7. Distinct(q)
  <2>1. ASSUME NEW i \in 1 .. Len(q), NEW k \in 1 .. Len(q), q[i] = q[k] PROVE i = k
    <3>1. at(i) = at(k)
      BY <1>6, <2>1 DEF Distinct
    <3> QED BY <1>5, <3>1
  <2> QED BY <2>1 DEF Distinct
<1>8. ASSUME NEW m \in Places(q) PROVE m \in Places(p) \ {p[j]}
  <2>1. PICK i \in 1 .. Len(q) : m = q[i]
    BY DEF Places
  <2>2. at(i) \in 1 .. Len(p) /\ at(i) # j /\ m = p[at(i)]
    BY <1>6, <2>1
  <2> QED BY <1>1, <2>2 DEF Distinct
<1>9. ASSUME NEW m \in Places(p) \ {p[j]} PROVE m \in Places(q)
  <2>1. PICK i \in 1 .. Len(p) : m = p[i]
    BY DEF Places
  <2>2. i # j
    BY <2>1
  <2>3. CASE i < j
    <3>1. i \in 1 .. Len(q) /\ q[i] = p[i]
      BY <1>1, <1>3, <1>5, <2>3
    <3> QED BY <2>1, <3>1 DEF Places
  <2>4. CASE i > j
    <3>1. i - 1 \in 1 .. Len(q) /\ q[i - 1] = p[i]
      BY <1>1, <1>3, <1>5, <2>4
    <3> QED BY <2>1, <3>1 DEF Places
  <2> QED BY <2>2, <2>3, <2>4
<1>10. Places(q) = Places(p) \ {p[j]}
  BY <1>8, <1>9
<1> QED BY <1>1, <1>2, <1>3, <1>5, <1>7, <1>10 DEF CutOff

LEMMA FreedIs ==
  ASSUME NEW D, NEW ns, NEW n, NULL \notin D, ns \in [D -> Node(D)], n \in D, IsFiniteSet(D)
  PROVE  Freed(ns, n) = [m \in D \ {n} |-> ns[m]]
<1>1. PICK one : one = SetLink(ns, n, "prev", NULL)
  OBVIOUS
<1>2. PrevSet(D, ns, n, NULL, one)
  BY <1>1, SetLinkIs
<1>3. PICK two : two = SetLink(one, n, "next", NULL)
  OBVIOUS
<1>4. NextSet(D, one, n, NULL, two)
  BY <1>2, <1>3, SetLinkIs DEF PrevSet
<1>5. two = Unlinked(ns, n)
  BY <1>1, <1>3 DEF Unlinked
<1>6. /\ two \in [D -> Node(D)] /\ two[n].next = NULL
      /\ \A m \in D \ {n} : two[m] = ns[m]
  BY <1>2, <1>4, EntryIs DEF NextSet, PrevSet
<1>7. Linked(two, "next")
  BY <1>6, EntryIs DEF Linked
<1>8. DOMAIN two = D
  BY <1>6
<1>9. PICK p : p = <<n>>
  OBVIOUS
<1>10. p \in Seq(D) /\ Len(p) = 1 /\ p[1] = n /\ p # <<>>
  BY <1>9
<1>11. Path(two, n, "next", p)
  BY <1>6, <1>8, <1>10 DEF Path
<1>12. Chain(two, n, "next") = p
  BY <1>7, <1>8, <1>11, PathChain
<1>13. ToSet(p) = {n}
  BY <1>9 DEF ToSet
<1>14. Freed(ns, n) = [m \in D \ {n} |-> two[m]]
  BY <1>5, <1>8, <1>12, <1>13 DEF Freed, free_subsequent_nodes, Restrict
<1> QED BY <1>6, <1>14

(* Node j of p has been bypassed.                                          *)
Bypassed(x, ns, p, j, new) ==
  /\ new \in [Places(p) -> Node(Places(p))]
  /\ \A i \in 1 .. Len(p) : i # j =>
       new[p[i]] = Entry(ns[p[i]].data, IF i = j + 1 THEN Prev(x, p, j) ELSE Prev(x, p, i),
                         IF i = j - 1 THEN Next1(p, j) ELSE Next1(p, i))

LEMMA Removed ==
  ASSUME NEW x, NEW ns, NEW p, NEW j, NEW new, Shape(x, ns, p), j \in 1 .. Len(p),
         Bypassed(x, ns, p, j, new)
  PROVE  /\ Shape(x, Freed(new, p[j]), Cut(p, j))
         /\ SameData(ns, Freed(new, p[j]), Places(p) \ {p[j]})
         /\ Freed(new, p[j]) = [m \in Places(p) \ {p[j]} |-> new[m]]
<1>1. PICK q : q = Cut(p, j)
  OBVIOUS
<1>2. PICK ms : ms = Freed(new, p[j])
  OBVIOUS
<1>3. p \in Seq(Cell) /\ Distinct(p)
  BY DEF Shape
<1>4. /\ Len(p) \in Nat /\ NULL \notin Places(p) /\ IsFiniteSet(Places(p))
      /\ \A i \in 1 .. Len(p) : p[i] \in Places(p)
  BY <1>3, PlacesIs
<1>5. /\ q \in Seq(Cell) /\ Distinct(q) /\ Places(q) = Places(p) \ {p[j]} /\ Len(q) = Len(p) - 1
      /\ \A i \in 1 .. Len(p) - 1 : q[i] = IF i < j THEN p[i] ELSE p[i + 1]
  BY <1>1, <1>3, CutIs DEF CutOff
<1>6. ms = [m \in Places(p) \ {p[j]} |-> new[m]]
  <2>1. PICK n, D : n = p[j] /\ D = Places(p)
    OBVIOUS
  <2>2. NULL \notin D /\ IsFiniteSet(D) /\ n \in D /\ new \in [D -> Node(D)]
    BY <1>4, <2>1 DEF Bypassed
  <2>3. Freed(new, n) = [m \in D \ {n} |-> new[m]]
    BY ONLY <2>2, FreedIs
  <2> QED BY <1>2, <2>1, <2>3
<1>7. ms \in [Places(q) -> Node(Places(p))]
  BY <1>5, <1>6 DEF Bypassed
<1> DEFINE at(i) == IF i < j THEN i ELSE i + 1
<1>8. ASSUME NEW i \in 1 .. Len(q)
      PROVE  /\ at(i) \in 1 .. Len(p) /\ at(i) # j /\ q[i] = p[at(i)]
             /\ ms[q[i]] = Entry(ns[q[i]].data, IF at(i) = j + 1 THEN Prev(x, p, j) ELSE Prev(x, p, at(i)),
                                 IF at(i) = j - 1 THEN Next1(p, j) ELSE Next1(p, at(i)))
  <2>1. at(i) \in 1 .. Len(p) /\ at(i) # j /\ q[i] = p[at(i)]
    BY <1>4, <1>5
  <2>2. p[at(i)] \in Places(p) \ {p[j]}
    BY <1>3, <1>4, <2>1 DEF Distinct
  <2>3. ms[q[i]] = new[p[at(i)]]
    BY <1>6, <2>1, <2>2
  <2> QED BY <2>1, <2>3 DEF Bypassed
<1>9. ASSUME NEW i \in 1 .. Len(q)
      PROVE  /\ Prev(x, q, i) = IF at(i) = j + 1 THEN Prev(x, p, j) ELSE Prev(x, p, at(i))
             /\ Next1(q, i) = IF at(i) = j - 1 THEN Next1(p, j) ELSE Next1(p, at(i))
  <2>1. i > 1 => q[i - 1] = IF i - 1 < j THEN p[i - 1] ELSE p[(i - 1) + 1]
    BY <1>4, <1>5
  <2>2. i < Len(q) => q[i + 1] = IF i + 1 < j THEN p[i + 1] ELSE p[(i + 1) + 1]
    BY <1>4, <1>5
  <2>3. Prev(x, q, i) = IF at(i) = j + 1 THEN Prev(x, p, j) ELSE Prev(x, p, at(i))
    <3>1. CASE i < j
      BY <1>4, <1>5, <2>1, <3>1 DEF Prev
    <3>2. CASE i = j
      BY <1>4, <1>5, <2>1, <3>2 DEF Prev
    <3>3. CASE i > j
      <4>1. (i - 1) + 1 = i /\ (i + 1) - 1 = i /\ i > 1 /\ i + 1 > 1 /\ i + 1 # j + 1 /\ ~(i - 1 < j) /\ ~(i < j)
        BY <1>4, <1>5, <3>3
      <4> QED BY <2>1, <4>1 DEF Prev
    <3> QED BY <1>4, <1>5, <3>1, <3>2, <3>3
  <2>4. Next1(q, i) = IF at(i) = j - 1 THEN Next1(p, j) ELSE Next1(p, at(i))
    <3>1. CASE i + 1 < j
      BY <1>4, <1>5, <2>2, <3>1 DEF Next1
    <3>2. CASE i + 1 = j
      <4>1. i < Len(q) <=> j < Len(p)
        BY <1>4, <1>5, <3>2
      <4>2. i < Len(q) => q[i + 1] = p[j + 1]
        BY <1>4, <1>5, <2>2, <3>2
      <4>3. at(i) = j - 1
        BY <1>4, <1>5, <3>2
      <4> QED BY <4>1, <4>2, <4>3 DEF Next1
    <3>3. CASE i + 1 > j
      <4>1. (i < Len(q) <=> i + 1 < Len(p)) /\ ~(i + 1 < j) /\ ~(i < j) /\ i + 1 # j - 1
        BY <1>4, <1>5, <3>3
      <4> QED BY <2>2, <4>1 DEF Next1
    <3> QED BY <1>4, <1>5, <3>1, <3>2, <3>3
  <2> QED BY <2>3, <2>4
<1>10. ASSUME NEW i \in 1 .. Len(q) PROVE ms[q[i]].prev = Prev(x, q, i) /\ ms[q[i]].next = Next1(q, i)
  <2>1. ms[q[i]] = Entry(ns[q[i]].data, Prev(x, q, i), Next1(q, i))
    BY <1>8, <1>9
  <2> QED BY <2>1, EntryIs
<1>11. Shape(x, ms, q)
  BY <1>5, <1>7, <1>10, ShapeFrom
<1>12. SameData(ns, ms, Places(p) \ {p[j]})
  <2>1. ASSUME NEW i \in 1 .. Len(q) PROVE ms[q[i]].data = ns[q[i]].data
    BY <1>8, EntryIs
  <2>2. \A m \in Places(q) : \E i \in 1 .. Len(q) : m = q[i]
    BY DEF Places
  <2> QED BY <1>5, <2>1, <2>2 DEF SameData
<1> QED BY <1>1, <1>2, <1>6, <1>11, <1>12

Before(p, j) == IF j = 1 THEN NULL ELSE p[j - 1]

Beside(x, ns, p, j) ==
  /\ Before(p, j) \in Places(p) \cup {NULL} /\ Next1(p, j) \in Places(p) \cup {NULL}
  /\ p[j] \in Places(p) /\ p[j] # NULL
  /\ \A i \in 1 .. Len(p) : /\ p[i] = Before(p, j) <=> i = j - 1
                            /\ p[i] = Next1(p, j) <=> i = j + 1
  /\ ns[p[j]].next = Next1(p, j) /\ ns[p[j]].prev = Prev(x, p, j)
  /\ x = "bidi" => Prev(x, p, j) = Before(p, j)

LEMMA Neighbours ==
  ASSUME NEW x, NEW ns, NEW p, NEW j, Shape(x, ns, p), j \in 1 .. Len(p)
  PROVE  Beside(x, ns, p, j)
<1>1. p \in Seq(Cell) /\ Distinct(p)
  BY DEF Shape
<1>2. /\ Len(p) \in Nat /\ NULL \notin Places(p)
      /\ \A i \in 1 .. Len(p) : p[i] \in Places(p)
  BY <1>1, PlacesIs
<1>3. ns[p[j]].next = Next1(p, j) /\ ns[p[j]].prev = Prev(x, p, j)
  BY ShapeType
<1>4. /\ Before(p, j) \in Places(p) \cup {NULL}
      /\ \A i \in 1 .. Len(p) : p[i] = Before(p, j) <=> i = j - 1
      /\ x = "bidi" => Prev(x, p, j) = Before(p, j)
  <2>1. CASE j = 1
    <3>1. Before(p, j) = NULL /\ \A i \in 1 .. Len(p) : i # j - 1 /\ p[i] # NULL
      BY <1>2, <2>1 DEF Before
    <3>2. x = "bidi" => Prev(x, p, j) = Before(p, j)
      BY <2>1 DEF Prev, Before
    <3> QED BY <3>1, <3>2
  <2>2. CASE j # 1
    <3>1. j - 1 \in 1 .. Len(p) /\ j > 1 /\ Before(p, j) = p[j - 1]
      BY <1>2, <2>2 DEF Before
    <3>2. x = "bidi" => Prev(x, p, j) = Before(p, j)
      BY <3>1 DEF Prev
    <3>3. \A i \in 1 .. Len(p) : p[i] = Before(p, j) <=> i = j - 1
      BY <1>1, <3>1 DEF Distinct
    <3> QED BY <1>2, <3>1, <3>2, <3>3
  <2> QED BY <2>1, <2>2
<1>5. /\ Next1(p, j) \in Places(p) \cup {NULL}
      /\ \A i \in 1 .. Len(p) : p[i] = Next1(p, j) <=> i = j + 1
  <2>1. CASE j = Len(p)
    <3>1. Next1(p, j) = NULL /\ \A i \in 1 .. Len(p) : i # j + 1 /\ p[i] # NULL
      BY <1>2, <2>1 DEF Next1
    <3> QED BY <3>1
  <2>2. CASE j # Len(p)
    <3>1. j + 1 \in 1 .. Len(p) /\ Next1(p, j) = p[j + 1]
      BY <1>2, <2>2 DEF Next1
    <3>2. \A i \in 1 .. Len(p) : p[i] = Next1(p, j) <=> i = j + 1
      BY <1>1, <3>1 DEF Distinct
    <3> QED BY <1>2, <3>1, <3>2
  <2> QED BY <2>1, <2>2
<1>8. p[j] \in Places(p) /\ p[j] # NULL
  BY <1>2
<1> QED BY <1>3, <1>4, <1>5, <1>8 DEF Beside

(* What the removals do to the neighbours of node j.                       *)
LEMMA BypassedIs ==
  ASSUME NEW x, NEW ns, NEW p, NEW j, NEW new, Shape(x, ns, p), j \in 1 .. Len(p),
         \/ x = "bidi" /\ new = remove_at(ns, p[j])
         \/ x = "bidi" /\ new = SetLink(remove_at(ns, p[j]), Before(p, j), "next", Next1(p, j))
         \/ x = "forward" /\ new = SetLink(ns, Before(p, j), "next", Next1(p, j))
  PROVE  Bypassed(x, ns, p, j, new)
<1> DEFINE D == Places(p)
<1>1. p \in Seq(Cell) /\ Distinct(p)
  BY DEF Shape
<1>2. /\ Len(p) \in Nat /\ NULL \notin D /\ \A i \in 1 .. Len(p) : p[i] \in D
  BY <1>1, PlacesIs
<1>3. PICK b, n : b = Before(p, j) /\ n = Next1(p, j)
  OBVIOUS
<1>4. /\ b \in D \cup {NULL} /\ n \in D \cup {NULL}
      /\ \A i \in 1 .. Len(p) : (p[i] = b <=> i = j - 1) /\ (p[i] = n <=> i = j + 1)
      /\ ns[p[j]].next = n /\ (x = "bidi" => ns[p[j]].prev = b /\ Prev(x, p, j) = b)
  <2>1. Beside(x, ns, p, j)
    BY Neighbours
  <2>2. /\ b \in Places(p) \cup {NULL} /\ n \in Places(p) \cup {NULL}
        /\ \A i \in 1 .. Len(p) : /\ p[i] = b <=> i = j - 1
                                  /\ p[i] = n <=> i = j + 1
        /\ ns[p[j]].next = n /\ ns[p[j]].prev = Prev(x, p, j)
        /\ x = "bidi" => Prev(x, p, j) = b
    BY ONLY <1>3, <2>1 DEF Beside
  <2> QED BY ONLY <2>2
<1>5. ns \in [D -> Node(D)]
  BY ShapeType
<1>6. \A i \in 1 .. Len(p) : ns[p[i]] = Entry(ns[p[i]].data, Prev(x, p, i), Next1(p, i))
  BY DEF Shape
<1>7. PICK one : one = SetLink(ns, b, "next", n)
  OBVIOUS
<1>8. NextSet(D, ns, b, n, one)
  BY <1>2, <1>4, <1>5, <1>7, SetLinkIs
<1>9. ASSUME NEW i \in 1 .. Len(p)
      PROVE  one[p[i]] = Entry(ns[p[i]].data, Prev(x, p, i), IF i = j - 1 THEN n ELSE Next1(p, i))
  <2>1. p[i] \in D
    BY <1>2
  <2>2. one[p[i]] = IF p[i] = b THEN Entry(ns[p[i]].data, ns[p[i]].prev, n) ELSE ns[p[i]]
    BY <1>8, <2>1 DEF NextSet
  <2>3. ns[p[i]].prev = Prev(x, p, i)
    BY ShapeType
  <2> QED BY <1>4, <1>6, <2>2, <2>3
<1>10. CASE x = "forward"
  <2>1. new = one
    BY <1>3, <1>7, <1>10
  <2>2. \A i \in 1 .. Len(p) : Prev(x, p, i) = NULL
    BY <1>10 DEF Prev
  <2>3. new \in [D -> Node(D)]
    BY <1>8, <2>1 DEF NextSet
  <2> QED BY <1>3, <1>9, <2>1, <2>2, <2>3 DEF Bypassed
<1>11. CASE x = "bidi"
  <2>1. PICK two : two = SetLink(one, n, "prev", b)
    OBVIOUS
  <2>2. two = remove_at(ns, p[j])
    BY <1>4, <1>7, <1>11, <2>1 DEF remove_at
  <2>3. PrevSet(D, one, n, b, two)
    BY <1>2, <1>4, <1>8, <2>1, SetLinkIs DEF NextSet
  <2>4. ASSUME NEW i \in 1 .. Len(p)
        PROVE  two[p[i]] = Entry(ns[p[i]].data, IF i = j + 1 THEN Prev(x, p, j) ELSE Prev(x, p, i),
                                 IF i = j - 1 THEN n ELSE Next1(p, i))
    <3>1. p[i] \in D
      BY <1>2
    <3>2. two[p[i]] = IF p[i] = n THEN Entry(one[p[i]].data, b, one[p[i]].next) ELSE one[p[i]]
      BY <2>3, <3>1 DEF PrevSet
    <3>3. /\ one[p[i]].data = ns[p[i]].data
          /\ one[p[i]].next = IF i = j - 1 THEN n ELSE Next1(p, i)
      BY <1>9, EntryIs
    <3> QED BY <1>4, <1>9, <1>11, <3>2, <3>3
  <2>5. Bypassed(x, ns, p, j, two)
    BY <1>3, <2>3, <2>4 DEF Bypassed, PrevSet
  <2>6. PICK three : three = SetLink(two, b, "next", n)
    OBVIOUS
  <2>7. NextSet(D, two, b, n, three)
    BY <1>2, <1>4, <2>3, <2>6, SetLinkIs DEF PrevSet
  <2>8. ASSUME NEW i \in 1 .. Len(p), i # j
        PROVE  three[p[i]] = Entry(ns[p[i]].data, IF i = j + 1 THEN Prev(x, p, j) ELSE Prev(x, p, i),
                                   IF i = j - 1 THEN n ELSE Next1(p, i))
    <3>1. p[i] \in D
      BY <1>2
    <3>2. three[p[i]] = IF p[i] = b THEN Entry(two[p[i]].data, two[p[i]].prev, n) ELSE two[p[i]]
      BY <2>7, <3>1 DEF NextSet
    <3>3. /\ two[p[i]].data = ns[p[i]].data
          /\ two[p[i]].prev = IF i = j + 1 THEN Prev(x, p, j) ELSE Prev(x, p, i)
      BY <2>4, EntryIs
    <3> QED BY <1>4, <2>4, <3>2, <3>3
  <2>9. Bypassed(x, ns, p, j, three)
    BY <1>3, <2>7, <2>8 DEF Bypassed, NextSet
  <2> QED BY <1>3, <1>11, <2>2, <2>5, <2>6, <2>9
<1> QED BY <1>10, <1>11

-------------------------------------------------------------------------------
(* Reversing.                                                              *)

Turned(p, q) ==
  /\ q \in Seq(Cell) /\ Distinct(q) /\ Places(q) = Places(p) /\ Len(q) = Len(p)
  /\ \A i \in 1 .. Len(p) : q[i] = p[Len(p) + 1 - i]
  /\ FirstOf(q) = LastOf(p) /\ LastOf(q) = FirstOf(p)

LEMMA TurnedIs ==
  ASSUME NEW p, p \in Seq(Cell), Distinct(p)
  PROVE  Turned(p, Reverse(p))
<1>1. /\ Len(p) \in Nat /\ \A i \in 1 .. Len(p) : p[i] \in Places(p) /\ p[i] \in Cell
      /\ p = <<>> <=> Len(p) = 0
  BY PlacesIs
<1>2. PICK q : q = Reverse(p)
  OBVIOUS
<1>3. \A i \in 1 .. Len(p) : (Len(p) - i) + 1 \in 1 .. Len(p)
  BY <1>1
<1>4. q \in Seq(Cell) /\ Len(q) = Len(p) /\ \A i \in 1 .. Len(p) : q[i] = p[(Len(p) - i) + 1]
  BY <1>1, <1>2, <1>3 DEF Reverse
<1>5. \A i \in 1 .. Len(p) : q[i] = p[Len(p) + 1 - i] /\ Len(p) + 1 - i \in 1 .. Len(p)
  <2> TAKE i \in 1 .. Len(p)
  <2>1. (Len(p) - i) + 1 = Len(p) + 1 - i
    BY <1>1
  <2> QED BY <1>3, <1>4, <2>1
<1>6. Distinct(q)
  <2>1. ASSUME NEW i \in 1 .. Len(q), NEW k \in 1 .. Len(q), q[i] = q[k] PROVE i = k
    <3>1. PICK a \in 1 .. Len(p), b \in 1 .. Len(p) : a = Len(p) + 1 - i /\ b = Len(p) + 1 - k
      BY <1>4, <1>5
    <3>2. p[a] = p[b]
      BY <1>4, <1>5, <2>1, <3>1
    <3>3. a = b
      BY <3>2 DEF Distinct
    <3> QED BY <1>1, <1>4, <3>1, <3>3
  <2> QED BY <2>1 DEF Distinct
<1>7. ASSUME NEW m \in Places(q) PROVE m \in Places(p)
  <2>1. PICK i \in 1 .. Len(q) : m = q[i]
    BY DEF Places
  <2> QED BY <1>1, <1>4, <1>5, <2>1
<1>8. ASSUME NEW m \in Places(p) PROVE m \in Places(q)
  <2>1. PICK i \in 1 .. Len(p) : m = p[i]
    BY DEF Places
  <2>2. Len(p) + 1 - i \in 1 .. Len(q) /\ q[Len(p) + 1 - i] = p[Len(p) + 1 - (Len(p) + 1 - i)]
    BY <1>4, <1>5
  <2>3. Len(p) + 1 - (Len(p) + 1 - i) = i
    BY <1>1
  <2> QED BY <2>1, <2>2, <2>3 DEF Places
<1>9. FirstOf(q) = LastOf(p) /\ LastOf(q) = FirstOf(p)
  <2>1. CASE Len(p) = 0
    BY <1>1, <1>4, <2>1 DEF FirstOf, LastOf
  <2>2. CASE Len(p) > 0
    <3>1. 1 \in 1 .. Len(p) /\ Len(p) \in 1 .. Len(p) /\ p # <<>> /\ q # <<>>
      BY <1>1, <1>4, <2>2
    <3>2. q[1] = p[Len(p)] /\ q[Len(p)] = p[1]
      BY <1>1, <1>4, <3>1
    <3> QED BY <1>4, <3>1, <3>2 DEF FirstOf, LastOf
  <2> QED BY <1>1, <2>1, <2>2
<1>10. Places(q) = Places(p)
  BY <1>7, <1>8
<1>11. \A i \in 1 .. Len(p) : q[i] = p[Len(p) + 1 - i]
  BY <1>5
<1> QED BY ONLY <1>2, <1>4, <1>6, <1>9, <1>10, <1>11 DEF Turned

LEMMA ReversedIs ==
  ASSUME NEW x, NEW ns, NEW p, NEW new, Shape(x, ns, p), DOMAIN new = Places(p), new = [m \in Places(p) |-> new[m]],
         \A i \in 1 .. Len(p) :
           new[p[i]] = Entry(ns[p[i]].data, IF x = "bidi" THEN Next1(p, i) ELSE NULL, Before(p, i))
  PROVE  Shape(x, new, Reverse(p)) /\ SameData(ns, new, Places(p))
<1>1. p \in Seq(Cell) /\ Distinct(p) /\ ns \in [Places(p) -> Node(Places(p))]
  <2>1. p \in Seq(Cell) /\ Distinct(p)
    BY ONLY Shape(x, ns, p) DEF Shape
  <2>2. ns \in [Places(p) -> Node(Places(p))]
    BY ONLY Shape(x, ns, p), ShapeType
  <2> QED BY <2>1, <2>2
<1>2. /\ Len(p) \in Nat /\ \A i \in 1 .. Len(p) : p[i] \in Places(p)
      /\ \A m \in Places(p) : \E i \in 1 .. Len(p) : m = p[i]
  BY <1>1, PlacesIs
<1>3. PICK q : q = Reverse(p)
  OBVIOUS
<1>4. Turned(p, q)
  BY <1>1, <1>3, TurnedIs
<1>5. ASSUME NEW i \in 1 .. Len(p) PROVE new[p[i]] \in Node(Places(p)) /\ new[p[i]].data = ns[p[i]].data
  <2>1. Before(p, i) \in Places(p) \cup {NULL} /\ Next1(p, i) \in Places(p) \cup {NULL}
    <3>1. Beside(x, ns, p, i)
      BY Neighbours
    <3> QED BY <3>1 DEF Beside
  <2>2. ns[p[i]].data \in Elems
    BY DEF Shape
  <2>3. PICK b, n, d : b = Before(p, i) /\ n = (IF x = "bidi" THEN Next1(p, i) ELSE NULL) /\ d = ns[p[i]].data
    OBVIOUS
  <2>4. b \in Places(p) \cup {NULL} /\ n \in Places(p) \cup {NULL} /\ d \in Elems
    BY <2>1, <2>2, <2>3
  <2>5. Entry(d, n, b) \in Node(Places(p)) /\ Entry(d, n, b).data = d
    BY ONLY <2>4, EntryIs
  <2> QED BY <2>3, <2>5
<1>6. new \in [Places(q) -> Node(Places(p))]
  BY <1>2, <1>4, <1>5 DEF Turned
<1>7. ASSUME NEW i \in 1 .. Len(q) PROVE new[q[i]].prev = Prev(x, q, i) /\ new[q[i]].next = Next1(q, i)
  <2>1. PICK k \in 1 .. Len(p) : k = Len(p) + 1 - i /\ q[i] = p[k]
    BY <1>2, <1>4 DEF Turned
  <2>2. Before(p, k) = Next1(q, i)
    <3>1. CASE k = 1
      BY <1>2, <1>4, <2>1, <3>1 DEF Before, Next1, Turned
    <3>2. CASE k # 1
      <4>1. i + 1 \in 1 .. Len(p) /\ Len(p) + 1 - (i + 1) = k - 1 /\ i < Len(q)
        BY <1>2, <1>4, <2>1, <3>2 DEF Turned
      <4>2. q[i + 1] = p[k - 1]
        BY <1>4, <4>1 DEF Turned
      <4> QED BY <3>2, <4>1, <4>2 DEF Before, Next1
    <3> QED BY <3>1, <3>2
  <2>3. (IF x = "bidi" THEN Next1(p, k) ELSE NULL) = Prev(x, q, i)
    <3>1. CASE i = 1
      BY <1>2, <2>1, <3>1 DEF Prev, Next1
    <3>2. CASE i # 1
      <4>1. i - 1 \in 1 .. Len(p) /\ Len(p) + 1 - (i - 1) = k + 1 /\ i > 1 /\ k < Len(p)
        BY <1>2, <1>4, <2>1, <3>2 DEF Turned
      <4>2. q[i - 1] = p[k + 1]
        BY <1>4, <4>1 DEF Turned
      <4> QED BY <4>1, <4>2 DEF Prev, Next1
    <3> QED BY <3>1, <3>2
  <2>4. new[q[i]] = Entry(ns[q[i]].data, Prev(x, q, i), Next1(q, i))
    BY <2>1, <2>2, <2>3
  <2> QED BY <2>4, EntryIs
<1>8. Shape(x, new, q)
  <2>1. q \in Seq(Cell) /\ Distinct(q)
    BY <1>4 DEF Turned
  <2> QED BY <1>6, <1>7, <2>1, ShapeFrom
<1>9. SameData(ns, new, Places(p))
  BY <1>2, <1>5 DEF SameData
<1> QED BY <1>3, <1>8, <1>9

BidiReversed(ns, n) ==
  LET met == ToSet(Chain(ns, n, "next"))
  IN  [m \in DOMAIN ns |-> IF m \in met THEN [ns[m] EXCEPT !.next = ns[m].prev, !.prev = ns[m].next]
                           ELSE ns[m]]
ForwardReversed(ns, n) ==
  LET met == Chain(ns, n, "next")
  IN  [m \in DOMAIN ns |-> IF m \in ToSet(met) THEN [ns[m] EXCEPT !.next = prev(met, m)] ELSE ns[m]]

LEMMA SequenceSet ==
  ASSUME NEW p, p \in Seq(Cell)
  PROVE  ToSet(p) = Places(p)
BY PlacesIs DEF ToSet, Places

LEMMA BidiReversedIs ==
  ASSUME NEW ns, NEW p, Shape("bidi", ns, p)
  PROVE  /\ Shape("bidi", BidiReversed(ns, FirstOf(p)), Reverse(p))
         /\ SameData(ns, BidiReversed(ns, FirstOf(p)), Places(p))
<1>1. p \in Seq(Cell) /\ DOMAIN ns = Places(p) /\ Chain(ns, FirstOf(p), "next") = p
  <2>1. p \in Seq(Cell)
    BY DEF Shape
  <2>2. DOMAIN ns = Places(p)
    BY ShapeType
  <2>3. Chain(ns, FirstOf(p), "next") = p
    BY ShapeChain
  <2> QED BY <2>1, <2>2, <2>3
<1>2. PICK new : new = BidiReversed(ns, FirstOf(p))
  OBVIOUS
<1>3. new = [m \in Places(p) |-> [ns[m] EXCEPT !.next = ns[m].prev, !.prev = ns[m].next]]
  BY <1>1, <1>2, SequenceSet DEF BidiReversed
<1>4. ASSUME NEW i \in 1 .. Len(p)
      PROVE  new[p[i]] = Entry(ns[p[i]].data, Next1(p, i), Before(p, i))
  <2>1. p[i] \in Places(p)
    BY <1>1, PlacesIs
  <2>2. PICK d, b, n : d = ns[p[i]].data /\ b = Before(p, i) /\ n = Next1(p, i)
    OBVIOUS
  <2>3. ns[p[i]] = Entry(d, b, n) /\ ns[p[i]].prev = b /\ ns[p[i]].next = n
    <3>1. Beside("bidi", ns, p, i)
      BY Neighbours
    <3>2. ns[p[i]] = Entry(ns[p[i]].data, Prev("bidi", p, i), Next1(p, i))
      BY DEF Shape
    <3> QED BY <2>2, <3>1, <3>2 DEF Beside
  <2>4. new[p[i]] = [Entry(d, b, n) EXCEPT !["next"] = b, !["prev"] = n]
    BY <1>3, <2>1, <2>3
  <2>5. [Entry(d, b, n) EXCEPT !["next"] = b, !["prev"] = n] = Entry(d, n, b)
    BY EntryTurned
  <2> QED BY <2>2, <2>4, <2>5
<1>5. DOMAIN new = Places(p) /\ new = [m \in Places(p) |-> new[m]]
  BY <1>3
<1>6. Shape("bidi", new, Reverse(p)) /\ SameData(ns, new, Places(p))
  BY <1>4, <1>5, ReversedIs
<1> QED BY <1>2, <1>6

LEMMA ForwardReversedIs ==
  ASSUME NEW ns, NEW p, Shape("forward", ns, p)
  PROVE  /\ Shape("forward", ForwardReversed(ns, FirstOf(p)), Reverse(p))
         /\ SameData(ns, ForwardReversed(ns, FirstOf(p)), Places(p))
<1>1. /\ p \in Seq(Cell) /\ Distinct(p) /\ DOMAIN ns = Places(p)
      /\ Chain(ns, FirstOf(p), "next") = p
  <2>1. p \in Seq(Cell) /\ Distinct(p)
    BY DEF Shape
  <2>2. DOMAIN ns = Places(p)
    BY ShapeType
  <2>3. Chain(ns, FirstOf(p), "next") = p
    BY ShapeChain
  <2> QED BY <2>1, <2>2, <2>3
<1>2. PICK new : new = ForwardReversed(ns, FirstOf(p))
  OBVIOUS
<1>3. new = [m \in Places(p) |-> [ns[m] EXCEPT !.next = prev(p, m)]]
  <2>1. ToSet(p) = Places(p)
    BY <1>1, SequenceSet
  <2> QED BY <1>1, <1>2, <2>1 DEF ForwardReversed
<1>4. ASSUME NEW i \in 1 .. Len(p)
      PROVE  new[p[i]] = Entry(ns[p[i]].data, NULL, Before(p, i))
  <2>1. p[i] \in Places(p)
    BY <1>1, PlacesIs
  <2>2. prev(p, p[i]) = Before(p, i)
    <3>1. DOMAIN p = 1 .. Len(p)
      BY <1>1, PlacesIs
    <3>2. (CHOOSE j \in DOMAIN p : p[j] = p[i]) = i
      BY <1>1, <3>1 DEF Distinct
    <3>3. prev(p, p[i]) = LET at == CHOOSE j \in DOMAIN p : p[j] = p[i]
                          IN  IF at = 1 THEN NULL ELSE p[at - 1]
      BY DEF prev
    <3>4. PICK at : at = CHOOSE j \in DOMAIN p : p[j] = p[i]
      OBVIOUS
    <3>5. prev(p, p[i]) = IF at = 1 THEN NULL ELSE p[at - 1]
      BY ONLY <3>3, <3>4
    <3> QED BY <3>2, <3>4, <3>5 DEF Before
  <2>3. PICK d, b, n : d = ns[p[i]].data /\ b = Before(p, i) /\ n = Next1(p, i)
    OBVIOUS
  <2>4. ns[p[i]] = Entry(d, NULL, n)
    <3>1. ns[p[i]] = Entry(ns[p[i]].data, Prev("forward", p, i), Next1(p, i))
      BY DEF Shape
    <3>2. Prev("forward", p, i) = NULL
      BY DEF Prev
    <3> QED BY <2>3, <3>1, <3>2
  <2>5. new[p[i]] = [Entry(d, NULL, n) EXCEPT !["next"] = b]
    <3>1. new[p[i]] = [ns[p[i]] EXCEPT !["next"] = prev(p, p[i])]
      BY <1>3, <2>1
    <3> QED BY <2>2, <2>3, <2>4, <3>1
  <2> QED BY <2>3, <2>5, EntryWith
<1>5. DOMAIN new = Places(p) /\ new = [m \in Places(p) |-> new[m]]
  BY <1>3
<1>6. Shape("forward", new, Reverse(p)) /\ SameData(ns, new, Places(p))
  BY <1>4, <1>5, ReversedIs
<1> QED BY <1>2, <1>6

-------------------------------------------------------------------------------
(* Merging.                                                                *)

Joined(sub, h) ==
  LET joined == SetLink(sub.nodes, h, "next", sub.head)
  IN  [nodes |-> IF kind = "forward" THEN joined
                 ELSE SetLink(SetLink(joined, h, "prev", NULL), sub.head, "prev", h),
       head |-> h]
Chosen(ns, a, b) == IF FirstFirst(ns[a].data, ns[b].data) THEN a ELSE b
MergeStep(ns, merge, k, a, b) ==
  IF k = 0 \/ a = NULL \/ b = NULL THEN [nodes |-> ns, head |-> IF a = NULL THEN b ELSE a]
  ELSE Joined(IF Chosen(ns, a, b) = a THEN merge[k - 1][ns[a].next][b]
                                      ELSE merge[k - 1][a][ns[b].next], Chosen(ns, a, b))
IsMerge(ns, N, merge) ==
  merge = [k \in 0 .. N |-> [a \in DOMAIN ns \cup {NULL} |-> [b \in DOMAIN ns \cup {NULL} |->
             MergeStep(ns, merge, k, a, b)]]]

LEMMA MergeAt ==
  ASSUME NEW ns, NEW merge, NEW N, NEW k, NEW a, NEW b, IsMerge(ns, N, merge),
         k \in 0 .. N, a \in DOMAIN ns \cup {NULL}, b \in DOMAIN ns \cup {NULL}
  PROVE  merge[k][a][b] = MergeStep(ns, merge, k, a, b)
<1>1. merge[k] = [x \in DOMAIN ns \cup {NULL} |-> [y \in DOMAIN ns \cup {NULL} |->
                    MergeStep(ns, merge, k, x, y)]]
  BY DEF IsMerge
<1>2. merge[k][a] = [y \in DOMAIN ns \cup {NULL} |-> MergeStep(ns, merge, k, a, y)]
  BY ONLY <1>1, a \in DOMAIN ns \cup {NULL}
<1> QED BY ONLY <1>2, b \in DOMAIN ns \cup {NULL}

LEMMA MergeGrows ==
  ASSUME NEW ns, NEW merge, NEW N \in Nat, Linked(ns, "next"), IsMerge(ns, N, merge)
  PROVE  \E longer : IsMerge(ns, N + 1, longer)
<1> DEFINE P == DOMAIN ns \cup {NULL}
           longer == [k \in 0 .. N + 1 |-> [a \in P |-> [b \in P |-> MergeStep(ns, merge, k, a, b)]]]
<1>1. ASSUME NEW k \in 0 .. N, NEW a \in P, NEW b \in P PROVE longer[k][a][b] = merge[k][a][b]
  <2>1. merge[k][a][b] = MergeStep(ns, merge, k, a, b)
    BY MergeAt
  <2>2. k \in 0 .. N + 1
    OBVIOUS
  <2>3. longer[k][a][b] = MergeStep(ns, merge, k, a, b)
    BY <2>2
  <2> QED BY <2>1, <2>3
<1>2. ASSUME NEW k \in 0 .. N + 1, NEW a \in P, NEW b \in P
      PROVE  MergeStep(ns, merge, k, a, b) = MergeStep(ns, longer, k, a, b)
  <2>1. CASE k = 0 \/ a = NULL \/ b = NULL
    BY <2>1 DEF MergeStep
  <2>2. CASE k # 0 /\ a # NULL /\ b # NULL
    <3>1. k - 1 \in 0 .. N /\ ns[a].next \in P /\ ns[b].next \in P
      BY <2>2 DEF Linked
    <3>2. /\ merge[k - 1][ns[a].next][b] = longer[k - 1][ns[a].next][b]
          /\ merge[k - 1][a][ns[b].next] = longer[k - 1][a][ns[b].next]
      BY ZenonT(60), <1>1, <3>1
    <3> HIDE DEF longer
    <3> QED BY <3>2 DEF MergeStep
  <2> QED BY <2>1, <2>2
<1>3. IsMerge(ns, N + 1, longer)
  BY ZenonT(60), <1>2 DEF IsMerge
<1> QED BY <1>3

LEMMA MergeExists ==
  ASSUME NEW ns, NEW N \in Nat, Linked(ns, "next")
  PROVE  \E merge : IsMerge(ns, N, merge)
<1> DEFINE T == {n \in Nat : ~ \E merge : IsMerge(ns, n, merge)}
           P == DOMAIN ns \cup {NULL}
<1>1. 0 \notin T
  <2> DEFINE None(a, b) == [nodes |-> ns, head |-> IF a = NULL THEN b ELSE a]
             m == [k \in 0 .. 0 |-> [a \in P |-> [b \in P |-> None(a, b)]]]
  <2>1. \A k \in 0 .. 0, a \in P, b \in P : MergeStep(ns, m, k, a, b) = None(a, b)
    BY DEF MergeStep
  <2>2. IsMerge(ns, 0, m)
    BY <2>1 DEF IsMerge
  <2> QED BY <2>2
<1>2. T = {}
  <2> SUFFICES ASSUME T # {} PROVE FALSE
    OBVIOUS
  <2>1. PICK x \in T : \A y \in T : x <= y
    BY LeastNatural
  <2>2. x - 1 \in Nat /\ x - 1 \notin T
    BY <1>1, <2>1
  <2>3. PICK m : IsMerge(ns, x - 1, m)
    BY <2>2
  <2>4. \E m2 : IsMerge(ns, (x - 1) + 1, m2)
    BY <2>2, <2>3, MergeGrows
  <2> QED BY <2>1, <2>4
<1> QED BY <1>2

LEMMA MergeListIs ==
  ASSUME NEW ns, NEW a, NEW b, Linked(ns, "next"), IsFiniteSet(DOMAIN ns)
  PROVE  \E merge : /\ IsMerge(ns, Cardinality(DOMAIN ns), merge)
                    /\ merge_list(ns, a, b) = merge[Cardinality(DOMAIN ns)][a][b]
<1> DEFINE C == Cardinality(DOMAIN ns)
           merge == CHOOSE m : IsMerge(ns, C, m)
<1>1. IsMerge(ns, C, merge)
  BY FS_CardinalityType, MergeExists
<1>2. merge_list(ns, a, b) = merge[C][a][b]
  BY DEF merge_list, IsMerge, MergeStep, Joined, Chosen
<1> QED BY <1>1, <1>2

JoinIs(D, sub, h, new) ==
  /\ new.head = h /\ new.nodes \in [D -> Node(D)]
  /\ \A y \in D :
       /\ new.nodes[y].data = sub.nodes[y].data
       /\ new.nodes[y].next = IF y = h THEN sub.head ELSE sub.nodes[y].next
       /\ new.nodes[y].prev = IF kind = "forward" THEN sub.nodes[y].prev
                              ELSE IF y = sub.head THEN h
                              ELSE IF y = h THEN NULL ELSE sub.nodes[y].prev
       /\ y # h /\ y # sub.head => new.nodes[y] = sub.nodes[y]

Result(D, r) == r.nodes \in [D -> Node(D)] /\ r.head \in D \cup {NULL}

LEMMA JoinedIs ==
  ASSUME NEW D, NEW sub, NEW h, NULL \notin D, Result(D, sub), h \in D
  PROVE  JoinIs(D, sub, h, Joined(sub, h))
<1>1. h \in D \cup {NULL} /\ NULL \in D \cup {NULL} /\ sub.head \in D \cup {NULL} /\ h # NULL
  BY DEF Result
<1>2. PICK ns, s : ns = sub.nodes /\ s = sub.head
  OBVIOUS
<1>3. PICK one : one = SetLink(ns, h, "next", s)
  OBVIOUS
<1>4. ns \in [D -> Node(D)]
  BY <1>2 DEF Result
<1>5. NextSet(D, ns, h, s, one)
  BY <1>1, <1>2, <1>3, <1>4, SetLinkIs
<1>6. PICK two : two = SetLink(one, h, "prev", NULL)
  OBVIOUS
<1>7. PrevSet(D, one, h, NULL, two)
  BY <1>1, <1>5, <1>6, SetLinkIs DEF NextSet
<1>8. PICK three : three = SetLink(two, s, "prev", h)
  OBVIOUS
<1>9. PrevSet(D, two, s, h, three)
  BY <1>1, <1>2, <1>7, <1>8, SetLinkIs DEF PrevSet
<1>10. Joined(sub, h) = [nodes |-> IF kind = "forward" THEN one ELSE three, head |-> h]
  BY <1>2, <1>3, <1>6, <1>8 DEF Joined
<1>11. ASSUME NEW y \in D
       PROVE  /\ one[y].data = ns[y].data /\ one[y].prev = ns[y].prev
              /\ one[y].next = IF y = h THEN s ELSE ns[y].next
              /\ y # h => one[y] = ns[y]
  BY <1>5, EntryIs DEF NextSet
<1>12. ASSUME NEW y \in D
       PROVE  /\ two[y].data = ns[y].data
              /\ two[y].next = IF y = h THEN s ELSE ns[y].next
              /\ two[y].prev = IF y = h THEN NULL ELSE ns[y].prev
              /\ y # h => two[y] = ns[y]
  BY <1>7, <1>11, EntryIs DEF PrevSet
<1>13. ASSUME NEW y \in D
       PROVE  /\ three[y].data = ns[y].data
              /\ three[y].next = IF y = h THEN s ELSE ns[y].next
              /\ three[y].prev = IF y = s THEN h ELSE IF y = h THEN NULL ELSE ns[y].prev
              /\ y # h /\ y # s => three[y] = ns[y]
  BY <1>9, <1>12, EntryIs DEF PrevSet
<1>14. PICK new : new = Joined(sub, h)
  OBVIOUS
<1>15. new.head = h /\ new.nodes = IF kind = "forward" THEN one ELSE three
  BY <1>10, <1>14
<1>16. one \in [D -> Node(D)] /\ three \in [D -> Node(D)]
  BY <1>5, <1>9 DEF NextSet, PrevSet
<1>17. CASE kind = "forward"
  <2>1. new.nodes = one
    BY <1>15, <1>17
  <2> QED BY <1>2, <1>11, <1>14, <1>15, <1>16, <1>17, <2>1 DEF JoinIs
<1>18. CASE kind # "forward"
  <2>1. new.nodes = three
    BY <1>15, <1>18
  <2> QED BY <1>2, <1>13, <1>14, <1>15, <1>16, <1>18, <2>1 DEF JoinIs
<1> QED BY <1>17, <1>18

LEMMA MergeType ==
  ASSUME NEW D, NEW ns, NEW merge, NEW N \in Nat, NULL \notin D, ns \in [D -> Node(D)],
         IsMerge(ns, N, merge)
  PROVE  \A k \in 0 .. N : \A a \in D \cup {NULL} : \A b \in D \cup {NULL} : Result(D, merge[k][a][b])
<1> DEFINE Good(k) == \A a \in D \cup {NULL} : \A b \in D \cup {NULL} : Result(D, merge[k][a][b])
           T == {k \in 0 .. N : ~Good(k)}
<1>1. ASSUME NEW k \in 0 .. N, NEW a \in D \cup {NULL}, NEW b \in D \cup {NULL}
      PROVE  merge[k][a][b] = MergeStep(ns, merge, k, a, b)
  BY SMTT(30) DEF IsMerge
<1>2. ASSUME NEW k \in 0 .. N, NEW a \in D \cup {NULL}, NEW b \in D \cup {NULL}, k = 0 \/ a = NULL \/ b = NULL
      PROVE  Result(D, merge[k][a][b])
  <2>1. merge[k][a][b] = MergeStep(ns, merge, k, a, b)
    BY <1>1
  <2>2. merge[k][a][b] = [nodes |-> ns, head |-> IF a = NULL THEN b ELSE a]
    BY <1>2, <2>1 DEF MergeStep
  <2> QED BY <2>2 DEF Result
<1>3. ASSUME NEW k \in 0 .. N, k # 0, Good(k - 1), NEW a \in D, NEW b \in D
      PROVE  Result(D, merge[k][a][b])
  <2>1. ns[a].next \in D \cup {NULL} /\ ns[b].next \in D \cup {NULL}
    BY EntryIs
  <2>2. PICK sub : sub = IF Chosen(ns, a, b) = a THEN merge[k - 1][ns[a].next][b]
                                                ELSE merge[k - 1][a][ns[b].next]
    OBVIOUS
  <2>3. Result(D, sub)
    BY <1>3, <2>1, <2>2
  <2>4. Chosen(ns, a, b) \in D
    BY DEF Chosen
  <2>5. merge[k][a][b] = Joined(sub, Chosen(ns, a, b))
    <3>1. a # NULL /\ b # NULL
      OBVIOUS
    <3>2. merge[k][a][b] = MergeStep(ns, merge, k, a, b)
      BY <1>1
    <3> QED BY <1>3, <2>2, <3>1, <3>2 DEF MergeStep
  <2>6. JoinIs(D, sub, Chosen(ns, a, b), merge[k][a][b])
    BY <2>3, <2>4, <2>5, JoinedIs
  <2> QED BY <2>4, <2>6 DEF JoinIs, Result
<1>4. T = {}
  <2> SUFFICES ASSUME T # {} PROVE FALSE
    OBVIOUS
  <2>0. T \in SUBSET Nat
    OBVIOUS
  <2>1. PICK x \in T : \A y \in T : x <= y
    BY <2>0, LeastNatural
  <2>2. x # 0
    BY <1>2, <2>1
  <2>3. Good(x - 1)
    BY <2>1, <2>2
  <2>4. Good(x)
    BY <1>2, <1>3, <2>1, <2>2, <2>3
  <2> QED BY <2>1, <2>4
<1> QED BY <1>4

(* Nodes hanging together from n on, as far as sorting relies on it: the   *)
(* prev of the first one may be any.                                       *)
Strand(D, ns, n, p) ==
  /\ p \in Seq(Cell) /\ Places(p) \subseteq D /\ Distinct(p) /\ n = FirstOf(p)
  /\ \A i \in 1 .. Len(p) : ns[p[i]].next = Next1(p, i)
  /\ kind # "forward" => \A i \in 2 .. Len(p) : ns[p[i]].prev = p[i - 1]

(* R is how the nodes should come.                                         *)
Rising(R, p) == \A i, j \in 1 .. Len(p) : i < j => <<p[i], p[j]>> \in R

StrandRests(D, ns, R, n, p, q) ==
  /\ n = p[1] /\ n \in D /\ n \in Places(p) /\ n # NULL
  /\ Strand(D, ns, ns[n].next, q) /\ Places(q) = Places(p) \ {n} /\ Len(q) = Len(p) - 1
  /\ Rising(R, p) => Rising(R, q) /\ \A y \in Places(q) : <<n, y>> \in R

LEMMA StrandRest ==
  ASSUME NEW D, NEW ns, NEW R, NEW n, NEW p, Strand(D, ns, n, p), n # NULL
  PROVE  StrandRests(D, ns, R, n, p, Cut(p, 1))
<1>1. /\ p \in Seq(Cell) /\ Distinct(p) /\ Len(p) \in Nat /\ \A i \in 1 .. Len(p) : p[i] \in Places(p)
      /\ p = <<>> <=> Len(p) = 0
  BY PlacesIs DEF Strand
<1>2. Len(p) > 0 /\ n = p[1] /\ 1 \in 1 .. Len(p)
  BY <1>1 DEF Strand, FirstOf
<1>3. n \in Places(p) /\ n \in D
  BY <1>1, <1>2 DEF Strand
<1>4. PICK q : q = Cut(p, 1)
  OBVIOUS
<1>5. /\ q \in Seq(Cell) /\ Distinct(q) /\ Places(q) = Places(p) \ {n} /\ Len(q) = Len(p) - 1
      /\ Len(q) \in Nat
      /\ \A i \in 1 .. Len(q) : i + 1 \in 1 .. Len(p) /\ q[i] = p[i + 1]
  <2>1. CutOff(p, 1, q)
    BY <1>1, <1>2, <1>4, CutIs
  <2>2. /\ q \in Seq(Cell) /\ Distinct(q) /\ Places(q) = Places(p) \ {n} /\ Len(q) = Len(p) - 1
        /\ Len(q) \in Nat
        /\ \A i \in 1 .. Len(p) - 1 : q[i] = IF i < 1 THEN p[i] ELSE p[i + 1]
    BY <1>2, <2>1 DEF CutOff
  <2> QED BY <1>1, <2>2
<1>6. ns[n].next = FirstOf(q)
  <2>1. ns[n].next = Next1(p, 1)
    BY <1>2 DEF Strand
  <2>2. CASE Len(p) = 1
    <3>1. q = <<>>
      BY <1>5, <2>2
    <3> QED BY <1>1, <2>1, <2>2, <3>1 DEF Next1, FirstOf
  <2>3. CASE Len(p) # 1
    <3>1. 1 \in 1 .. Len(q) /\ 1 < Len(p)
      BY <1>1, <1>2, <1>5, <2>3
    <3>2. q # <<>> /\ q[1] = p[1 + 1]
      BY <1>5, <3>1
    <3> QED BY <2>1, <3>1, <3>2 DEF Next1, FirstOf
  <2> QED BY <2>2, <2>3
<1>7. ASSUME NEW i \in 1 .. Len(q) PROVE ns[q[i]].next = Next1(q, i)
  <2>1. ns[q[i]].next = Next1(p, i + 1)
    BY <1>5 DEF Strand
  <2>2. i + 1 < Len(p) <=> i < Len(q)
    BY <1>1, <1>5
  <2>3. i < Len(q) => q[i + 1] = p[(i + 1) + 1]
    BY <1>1, <1>5
  <2> QED BY <2>1, <2>2, <2>3 DEF Next1
<1>8. ASSUME kind # "forward", NEW i \in 2 .. Len(q) PROVE ns[q[i]].prev = q[i - 1]
  <2>1. i \in 1 .. Len(q) /\ i - 1 \in 1 .. Len(q) /\ i + 1 \in 2 .. Len(p) /\ (i - 1) + 1 = (i + 1) - 1
    BY <1>1, <1>5
  <2>2. q[i] = p[i + 1] /\ q[i - 1] = p[(i + 1) - 1]
    BY <1>5, <2>1
  <2> QED BY <1>8, <2>1, <2>2 DEF Strand
<1>9. Strand(D, ns, ns[n].next, q)
  BY <1>5, <1>6, <1>7, <1>8 DEF Strand
<1>10. ASSUME Rising(R, p) PROVE Rising(R, q) /\ \A y \in Places(q) : <<n, y>> \in R
  <2>1. ASSUME NEW i \in 1 .. Len(q), NEW j \in 1 .. Len(q), i < j PROVE <<q[i], q[j]>> \in R
    <3>1. i + 1 < j + 1
      BY <1>5, <2>1
    <3> QED BY <1>5, <1>10, <3>1 DEF Rising
  <2>2. ASSUME NEW y \in Places(q) PROVE <<n, y>> \in R
    <3>1. PICK i \in 1 .. Len(q) : y = q[i]
      BY DEF Places
    <3>2. 1 < i + 1
      OBVIOUS
    <3> QED BY <1>2, <1>5, <1>10, <3>1, <3>2 DEF Rising
  <2> QED BY <2>1, <2>2 DEF Rising
<1> QED BY <1>2, <1>3, <1>4, <1>5, <1>9, <1>10 DEF StrandRests

StrandGrows(D, R, new, S) ==
  \E q : Strand(D, new.nodes, new.head, q) /\ Places(q) = S /\ Rising(R, q)

LEMMA StrandGrown ==
  ASSUME NEW D, NEW R, NEW sub, NEW h, NEW new, NEW r, D \in SUBSET Cell,
         JoinIs(D, sub, h, new), Strand(D, sub.nodes, sub.head, r), h \in D \ Places(r),
         Rising(R, r), \A y \in Places(r) : <<h, y>> \in R
  PROVE  StrandGrows(D, R, new, Places(r) \cup {h})
<1>1. /\ r \in Seq(Cell) /\ Distinct(r) /\ Len(r) \in Nat /\ \A i \in 1 .. Len(r) : r[i] \in Places(r)
      /\ r = <<>> <=> Len(r) = 0
  BY PlacesIs DEF Strand
<1>2. Places(r) \subseteq D /\ sub.head = FirstOf(r) /\ h \in Cell \ Places(r)
  BY DEF Strand
<1>3. PICK q : q = <<h>> \o r
  OBVIOUS
<1>4. /\ q \in Seq(Cell) /\ Distinct(q) /\ Places(q) = Places(r) \cup {h}
      /\ Len(q) = Len(r) + 1 /\ q # <<>> /\ q[1] = h
      /\ \A i \in 2 .. Len(r) + 1 : q[i] = r[i - 1]
  <2>1. GrownInFront(r, h, q)
    BY <1>1, <1>2, <1>3, PlacesWith
  <2> QED BY <2>1 DEF GrownInFront, Grown
<1>5. \A i \in 1 .. Len(r) : r[i] \in D /\ r[i] # h
  BY <1>1, <1>2
<1>6. ASSUME NEW i \in 1 .. Len(q) PROVE new.nodes[q[i]].next = Next1(q, i)
  <2>1. CASE i = 1
    <3>1. new.nodes[q[i]].next = FirstOf(r)
      BY <1>2, <1>4, <2>1 DEF JoinIs
    <3>2. CASE Len(r) = 0
      BY <1>1, <1>4, <2>1, <3>1, <3>2 DEF Next1, FirstOf
    <3>3. CASE Len(r) # 0
      <4>1. q[2] = r[1] /\ 1 < Len(q)
        BY <1>1, <1>4, <3>3
      <4> QED BY <1>1, <2>1, <3>1, <3>3, <4>1 DEF Next1, FirstOf
    <3> QED BY <3>2, <3>3
  <2>2. CASE i # 1
    <3>1. i \in 2 .. Len(r) + 1 /\ i - 1 \in 1 .. Len(r) /\ q[i] = r[i - 1]
      BY <1>1, <1>4, <2>2
    <3>2. new.nodes[q[i]].next = Next1(r, i - 1)
      BY <1>5, <3>1 DEF JoinIs, Strand
    <3>3. i < Len(q) <=> i - 1 < Len(r)
      BY <1>1, <1>4
    <3>4. i < Len(q) => i + 1 \in 2 .. Len(r) + 1 /\ (i + 1) - 1 = (i - 1) + 1
      BY <1>1, <1>4, <3>1
    <3>5. i < Len(q) => q[i + 1] = r[(i - 1) + 1]
      BY <1>4, <3>4
    <3> QED BY <3>2, <3>3, <3>5 DEF Next1
  <2> QED BY <2>1, <2>2
<1>7. ASSUME kind # "forward", NEW i \in 2 .. Len(q) PROVE new.nodes[q[i]].prev = q[i - 1]
  <2>1. i \in 2 .. Len(r) + 1 /\ i - 1 \in 1 .. Len(r) /\ q[i] = r[i - 1]
    BY <1>1, <1>4
  <2>2. new.nodes[q[i]].prev = IF q[i] = sub.head THEN h ELSE sub.nodes[q[i]].prev
    BY <1>5, <1>7, <2>1 DEF JoinIs
  <2>3. CASE i = 2
    <3>1. q[i] = FirstOf(r) /\ q[i - 1] = h
      BY <1>1, <1>4, <2>1, <2>3 DEF FirstOf
    <3> QED BY <1>2, <2>2, <3>1
  <2>4. CASE i # 2
    <3>1. i - 1 \in 2 .. Len(r) /\ 1 \in 1 .. Len(r) /\ i - 1 # 1
      BY <1>1, <2>1, <2>4
    <3>2. q[i] # sub.head
      BY <1>1, <1>2, <2>1, <3>1 DEF Distinct, FirstOf
    <3>3. sub.nodes[q[i]].prev = r[(i - 1) - 1]
      BY <1>7, <2>1, <3>1 DEF Strand
    <3>4. q[i - 1] = r[(i - 1) - 1]
      BY <1>1, <1>4, <3>1
    <3> QED BY <2>2, <3>2, <3>3, <3>4
  <2> QED BY <2>3, <2>4
<1>8. Strand(D, new.nodes, new.head, q)
  <2>1. new.head = FirstOf(q)
    BY <1>4 DEF JoinIs, FirstOf
  <2>2. Places(q) \subseteq D
    BY <1>2, <1>4
  <2> QED BY <1>4, <1>6, <1>7, <2>1, <2>2 DEF Strand
<1>9. ASSUME NEW i \in 1 .. Len(q), NEW j \in 1 .. Len(q), i < j PROVE <<q[i], q[j]>> \in R
  <2>1. j \in 2 .. Len(r) + 1 /\ j - 1 \in 1 .. Len(r) /\ q[j] = r[j - 1]
    BY <1>1, <1>4, <1>9
  <2>2. CASE i = 1
    BY <1>1, <1>4, <2>1, <2>2
  <2>3. CASE i # 1
    <3>1. i - 1 \in 1 .. Len(r) /\ q[i] = r[i - 1] /\ i - 1 < j - 1
      BY <1>1, <1>4, <1>9, <2>3
    <3> QED BY <2>1, <3>1 DEF Rising
  <2> QED BY <2>2, <2>3
<1> QED BY <1>4, <1>8, <1>9 DEF Rising, StrandGrows

KeepsRest(D, S, ns, new) ==
  /\ \A n \in D \ S : new[n] = ns[n]
  /\ SameData(ns, new, D)
  /\ kind = "forward" => \A n \in D : new[n].prev = ns[n].prev

Agrees(ns, R, p, q) ==
  \A a \in Places(p), b \in Places(q) :
    IF FirstFirst(ns[a].data, ns[b].data) THEN <<a, b>> \in R ELSE <<b, a>> \in R
Transitive(D, R) ==
  \A x \in D : \A y \in D : \A z \in D : <<x, y>> \in R /\ <<y, z>> \in R => <<x, z>> \in R

(* m is the list of the nodes S, in the order R, and ns elsewhere.         *)
Arranged(D, R, ns, S, m) ==
  Result(D, m) /\ KeepsRest(D, S, ns, m.nodes) /\ StrandGrows(D, R, m, S)

HeadIsFirst(m) == kind # "forward" => m.nodes[m.head].prev = NULL

LEMMA MergeJoined ==
  ASSUME NEW D, NEW R, NEW ns, NEW S, NEW sub, NEW h, D \in SUBSET Cell,
         Arranged(D, R, ns, S, sub), h \in D \ S, \A y \in S : <<h, y>> \in R
  PROVE  Arranged(D, R, ns, S \cup {h}, Joined(sub, h)) /\ HeadIsFirst(Joined(sub, h))
<1>1. PICK new : new = Joined(sub, h)
  OBVIOUS
<1>2. NULL \notin D /\ h # NULL /\ h \in D
  BY NullAssumption
<1>3. JoinIs(D, sub, h, new)
  BY <1>1, <1>2, JoinedIs DEF Arranged
<1>4. PICK r : Strand(D, sub.nodes, sub.head, r) /\ Places(r) = S /\ Rising(R, r)
  BY DEF Arranged, StrandGrows
<1>5. sub.head \in S \cup {NULL} /\ sub.head # h
  <2>1. sub.head = FirstOf(r) /\ r \in Seq(Cell)
    BY <1>4 DEF Strand
  <2>2. r # <<>> => r[1] \in Places(r)
    <3>1. r # <<>> => 1 \in 1 .. Len(r)
      BY <2>1, PlacesIs
    <3> QED BY <2>1, <3>1, PlacesIs
  <2> QED BY <1>2, <1>4, <2>1, <2>2 DEF FirstOf
<1>6. StrandGrows(D, R, new, S \cup {h})
  BY <1>3, <1>4, StrandGrown
<1>7. Result(D, new)
  BY <1>2, <1>3 DEF JoinIs, Result
<1>8. KeepsRest(D, S \cup {h}, ns, new.nodes)
  <2>1. ASSUME NEW n \in D \ (S \cup {h}) PROVE new.nodes[n] = ns[n]
    <3>1. n # h /\ n # sub.head
      BY <1>2, <1>5
    <3> QED BY <1>3, <3>1 DEF JoinIs, Arranged, KeepsRest
  <2>2. SameData(ns, new.nodes, D)
    BY <1>3 DEF JoinIs, Arranged, KeepsRest, SameData
  <2>3. kind = "forward" => \A n \in D : new.nodes[n].prev = ns[n].prev
    BY <1>3 DEF JoinIs, Arranged, KeepsRest
  <2> QED BY <2>1, <2>2, <2>3 DEF KeepsRest
<1>9. HeadIsFirst(new)
  BY <1>2, <1>3, <1>5 DEF JoinIs, HeadIsFirst
<1> QED BY <1>1, <1>6, <1>7, <1>8, <1>9 DEF Arranged

Mergeable(D, R, ns, a, p, b, q) ==
  /\ Strand(D, ns, a, p) /\ Strand(D, ns, b, q) /\ Places(p) \cap Places(q) = {}
  /\ Rising(R, p) /\ Rising(R, q) /\ Agrees(ns, R, p, q)
Merges(D, R, ns, a, p, b, q, m) ==
  /\ Arranged(D, R, ns, Places(p) \cup Places(q), m)
  /\ a # NULL /\ b # NULL => HeadIsFirst(m)
MergeGood(D, R, ns, merge, k) ==
  \A a, p, b, q : Mergeable(D, R, ns, a, p, b, q) /\ Len(p) + Len(q) <= k =>
                    Merges(D, R, ns, a, p, b, q, merge[k][a][b])

LEMMA MergedStep ==
  ASSUME NEW D, NEW R, NEW ns, NEW merge, NEW N, NEW k, NEW a, NEW p, NEW b, NEW q,
         D \in SUBSET Cell, ns \in [D -> Node(D)], Transitive(D, R), N \in Nat, k \in 0 .. N,
         IsMerge(ns, N, merge), k # 0 => MergeGood(D, R, ns, merge, k - 1),
         Mergeable(D, R, ns, a, p, b, q), Len(p) + Len(q) <= k
  PROVE  Merges(D, R, ns, a, p, b, q, merge[k][a][b])
<1>1. NULL \notin D /\ DOMAIN ns = D
  BY NullAssumption
<1>2. /\ Strand(D, ns, a, p) /\ Strand(D, ns, b, q) /\ Places(p) \cap Places(q) = {}
      /\ Rising(R, p) /\ Rising(R, q) /\ Agrees(ns, R, p, q)
  BY DEF Mergeable
<1>3. /\ p \in Seq(Cell) /\ Len(p) \in Nat /\ (p = <<>> <=> Len(p) = 0)
      /\ q \in Seq(Cell) /\ Len(q) \in Nat /\ (q = <<>> <=> Len(q) = 0)
      /\ \A i \in 1 .. Len(p) : p[i] \in Places(p)
      /\ \A i \in 1 .. Len(q) : q[i] \in Places(q)
  BY <1>2, PlacesIs DEF Strand
<1>4. /\ a \in D \cup {NULL} /\ (a = NULL <=> Len(p) = 0)
      /\ b \in D \cup {NULL} /\ (b = NULL <=> Len(q) = 0)
  <2>1. /\ a = FirstOf(p) /\ Places(p) \subseteq D
        /\ b = FirstOf(q) /\ Places(q) \subseteq D
    BY <1>2 DEF Strand
  <2>2. Len(p) # 0 => p[1] \in Places(p)
    BY <1>3
  <2>3. Len(q) # 0 => q[1] \in Places(q)
    BY <1>3
  <2> QED BY <1>1, <1>3, <2>1, <2>2, <2>3 DEF FirstOf
<1>5. PICK m : m = merge[k][a][b]
  OBVIOUS
<1>6. m = MergeStep(ns, merge, k, a, b)
  BY <1>1, <1>4, <1>5, MergeAt
<1>7. \A S : KeepsRest(D, S, ns, ns)
  BY DEF KeepsRest, SameData
<1>8. CASE a = NULL
  <2>1. m = [nodes |-> ns, head |-> b]
    BY <1>6, <1>8 DEF MergeStep
  <2>2. m.nodes = ns /\ m.head = b
    BY <2>1
  <2>3. Places(p) \cup Places(q) = Places(q)
    BY <1>3, <1>4, <1>8 DEF Places
  <2>4. Arranged(D, R, ns, Places(q), m)
    BY <1>2, <1>4, <1>7, <2>2 DEF Arranged, Result, StrandGrows
  <2> QED BY <1>5, <1>8, <2>3, <2>4 DEF Merges
<1>9. CASE a # NULL /\ b = NULL
  <2>1. m = [nodes |-> ns, head |-> a]
    BY <1>6, <1>9 DEF MergeStep
  <2>2. m.nodes = ns /\ m.head = a
    BY <2>1
  <2>3. Places(p) \cup Places(q) = Places(p)
    BY <1>3, <1>4, <1>9 DEF Places
  <2>4. Arranged(D, R, ns, Places(p), m)
    BY <1>2, <1>4, <1>7, <2>2 DEF Arranged, Result, StrandGrows
  <2> QED BY <1>5, <1>9, <2>3, <2>4 DEF Merges
<1>10. CASE a # NULL /\ b # NULL
  <2>1. k # 0 /\ k - 1 \in 0 .. N /\ MergeGood(D, R, ns, merge, k - 1)
    BY <1>3, <1>4, <1>10
  <2>2. PICK p1, q1 : p1 = Cut(p, 1) /\ q1 = Cut(q, 1)
    OBVIOUS
  <2>3. StrandRests(D, ns, R, a, p, p1) /\ StrandRests(D, ns, R, b, q, q1)
    BY <1>2, <1>10, <2>2, StrandRest
  <2>4. /\ a \in Places(p) /\ Strand(D, ns, ns[a].next, p1) /\ Places(p1) = Places(p) \ {a}
        /\ Len(p1) = Len(p) - 1 /\ Rising(R, p1) /\ \A y \in Places(p1) : <<a, y>> \in R
        /\ b \in Places(q) /\ Strand(D, ns, ns[b].next, q1) /\ Places(q1) = Places(q) \ {b}
        /\ Len(q1) = Len(q) - 1 /\ Rising(R, q1) /\ \A y \in Places(q1) : <<b, y>> \in R
    BY <1>2, <2>3 DEF StrandRests
  <2>5. Places(p) \subseteq D /\ Places(q) \subseteq D
    BY <1>2 DEF Strand
  <2>6. PICK h : h = Chosen(ns, a, b)
    OBVIOUS
  <2>7. CASE FirstFirst(ns[a].data, ns[b].data)
    <3>1. h = a /\ m = Joined(merge[k - 1][ns[a].next][b], a)
      BY <1>6, <1>10, <2>1, <2>6, <2>7 DEF MergeStep, Chosen
    <3>2. PICK sub : sub = merge[k - 1][ns[a].next][b]
      OBVIOUS
    <3>3. Mergeable(D, R, ns, ns[a].next, p1, b, q)
      BY <1>2, <2>4 DEF Mergeable, Agrees
    <3>4. Merges(D, R, ns, ns[a].next, p1, b, q, sub)
      BY <1>3, <2>1, <2>4, <3>2, <3>3 DEF MergeGood
    <3>5. \A y \in Places(p1) \cup Places(q) : <<a, y>> \in R
      <4>1. <<a, b>> \in R
        BY <1>2, <2>4, <2>7 DEF Agrees
      <4>2. \A y \in Places(q1) : <<a, y>> \in R
        BY <2>4, <2>5, <4>1 DEF Transitive
      <4> QED BY <2>4, <4>1, <4>2
    <3>6. a \in D \ (Places(p1) \cup Places(q))
      BY <1>2, <2>4, <2>5
    <3>7. /\ Arranged(D, R, ns, (Places(p1) \cup Places(q)) \cup {a}, m)
          /\ HeadIsFirst(m)
      BY <3>1, <3>2, <3>4, <3>5, <3>6, MergeJoined DEF Merges
    <3>8. (Places(p1) \cup Places(q)) \cup {a} = Places(p) \cup Places(q)
      BY <2>4
    <3> QED BY <1>5, <3>7, <3>8 DEF Merges
  <2>8. CASE ~FirstFirst(ns[a].data, ns[b].data)
    <3>0. a # b
      BY <1>2, <2>4
    <3>1. h = b /\ m = Joined(merge[k - 1][a][ns[b].next], b)
      BY <1>6, <1>10, <2>1, <2>6, <2>8, <3>0 DEF MergeStep, Chosen
    <3>2. PICK sub : sub = merge[k - 1][a][ns[b].next]
      OBVIOUS
    <3>3. Mergeable(D, R, ns, a, p, ns[b].next, q1)
      BY <1>2, <2>4 DEF Mergeable, Agrees
    <3>4. Merges(D, R, ns, a, p, ns[b].next, q1, sub)
      BY <1>3, <2>1, <2>4, <3>2, <3>3 DEF MergeGood
    <3>5. \A y \in Places(p) \cup Places(q1) : <<b, y>> \in R
      <4>1. <<b, a>> \in R
        BY <1>2, <2>4, <2>8 DEF Agrees
      <4>2. \A y \in Places(p1) : <<b, y>> \in R
        BY <2>4, <2>5, <4>1 DEF Transitive
      <4> QED BY <2>4, <4>1, <4>2
    <3>6. b \in D \ (Places(p) \cup Places(q1))
      BY <1>2, <2>4, <2>5
    <3>7. /\ Arranged(D, R, ns, (Places(p) \cup Places(q1)) \cup {b}, m)
          /\ HeadIsFirst(m)
      BY <3>1, <3>2, <3>4, <3>5, <3>6, MergeJoined DEF Merges
    <3>8. (Places(p) \cup Places(q1)) \cup {b} = Places(p) \cup Places(q)
      BY <2>4
    <3> QED BY <1>5, <3>7, <3>8 DEF Merges
  <2> QED BY <2>7, <2>8
<1> QED BY <1>8, <1>9, <1>10

LEMMA CellsFinite ==
  ASSUME NEW D, D \in SUBSET Cell
  PROVE  IsFiniteSet(D) /\ Cardinality(D) \in Nat /\ NULL \notin D
<1>1. IsFiniteSet(Cell)
  BY FS_Interval, MaxLenAssumption DEF Cell
<1>2. IsFiniteSet(D)
  BY <1>1, FS_Subset
<1>3. Cardinality(D) \in Nat
  BY <1>2, FS_CardinalityType
<1> QED BY <1>2, <1>3, NullAssumption

LEMMA PlacesCount ==
  ASSUME NEW p, p \in Seq(Cell), Distinct(p)
  PROVE  Cardinality(Places(p)) = Len(p) /\ IsFiniteSet(Places(p))
<1>0. Len(p) \in Nat
  BY PlacesIs
<1>1. p \in Seq(Places(p)) /\ IsFiniteSet(Places(p))
  BY PlacesIs
<1>2. p \in Bijection(1 .. Len(p), Places(p))
  <2>1. p \in [1 .. Len(p) -> Places(p)]
    BY <1>1
  <2>2. \A m \in Places(p) : \E i \in 1 .. Len(p) : p[i] = m
    BY DEF Places
  <2> QED BY <2>1, <2>2 DEF Bijection, Injection, Surjection, IsInjective, Distinct
<1>3. IsFiniteSet(1 .. Len(p)) /\ Cardinality(1 .. Len(p)) = Len(p)
  <2>1. PICK n \in Nat : n = Len(p)
    BY <1>0
  <2>2. IsFiniteSet(1 .. n) /\ Cardinality(1 .. n) = n
    BY ONLY n \in Nat, FS_Interval
  <2> QED BY <2>1, <2>2
<1>4. ExistsBijection(1 .. Len(p), Places(p))
  BY <1>2 DEF ExistsBijection
<1> QED BY <1>1, <1>3, <1>4, FS_Bijection

LEMMA MergeAllGood ==
  ASSUME NEW D, NEW R, NEW ns, NEW merge, NEW N,
         D \in SUBSET Cell, ns \in [D -> Node(D)], Transitive(D, R), N \in Nat, IsMerge(ns, N, merge)
  PROVE  \A k \in 0 .. N : MergeGood(D, R, ns, merge, k)
<1> DEFINE T == {k \in 0 .. N : ~MergeGood(D, R, ns, merge, k)}
<1>1. ASSUME NEW k \in 0 .. N, k # 0 => MergeGood(D, R, ns, merge, k - 1)
      PROVE  MergeGood(D, R, ns, merge, k)
  <2>1. ASSUME NEW a, NEW p, NEW b, NEW q, Mergeable(D, R, ns, a, p, b, q), Len(p) + Len(q) <= k
        PROVE  Merges(D, R, ns, a, p, b, q, merge[k][a][b])
    BY <1>1, <2>1, MergedStep
  <2> QED BY <2>1 DEF MergeGood
<1>2. T = {}
  <2> SUFFICES ASSUME T # {} PROVE FALSE
    OBVIOUS
  <2>0. T \in SUBSET Nat
    OBVIOUS
  <2>1. PICK x \in T : \A y \in T : x <= y
    BY <2>0, LeastNatural
  <2>2. x # 0 => MergeGood(D, R, ns, merge, x - 1)
    BY <2>1
  <2> QED BY <1>1, <2>1, <2>2
<1> QED BY <1>2

(* merge_list interleaves two strands, each kept in order.                 *)
LEMMA MergeListMerges ==
  ASSUME NEW D, NEW R, NEW ns, NEW a, NEW p, NEW b, NEW q,
         D \in SUBSET Cell, ns \in [D -> Node(D)], Transitive(D, R), Mergeable(D, R, ns, a, p, b, q)
  PROVE  Merges(D, R, ns, a, p, b, q, merge_list(ns, a, b))
<1> DEFINE C == Cardinality(D)
<1>1. IsFiniteSet(D) /\ C \in Nat /\ DOMAIN ns = D
  BY CellsFinite
<1>2. Linked(ns, "next")
  BY <1>1, EntryIs DEF Linked
<1>3. PICK merge : IsMerge(ns, C, merge) /\ merge_list(ns, a, b) = merge[C][a][b]
  BY <1>1, <1>2, MergeListIs
<1>4. MergeGood(D, R, ns, merge, C)
  <2>1. C \in 0 .. C
    BY <1>1
  <2> QED BY <1>1, <1>3, <2>1, MergeAllGood
<1>5. Len(p) + Len(q) <= C
  <2>1. /\ p \in Seq(Cell) /\ Distinct(p) /\ q \in Seq(Cell) /\ Distinct(q)
        /\ Places(p) \cap Places(q) = {} /\ Places(p) \cup Places(q) \in SUBSET D
    BY DEF Mergeable, Strand
  <2>2. /\ Cardinality(Places(p)) = Len(p) /\ IsFiniteSet(Places(p)) /\ Len(p) \in Nat
        /\ Cardinality(Places(q)) = Len(q) /\ IsFiniteSet(Places(q)) /\ Len(q) \in Nat
    BY <2>1, PlacesCount, PlacesIs
  <2>3. Cardinality(Places(p) \cup Places(q)) = Len(p) + Len(q)
    <3>1. Cardinality(Places(p) \cap Places(q)) = 0
      BY <2>1, FS_EmptySet
    <3>2. PICK P, Q : P = Places(p) /\ Q = Places(q)
      OBVIOUS
    <3>3. IsFiniteSet(P) /\ IsFiniteSet(Q)
      BY <2>2, <3>2
    <3>4. Cardinality(P \cup Q) = Cardinality(P) + Cardinality(Q) - Cardinality(P \cap Q)
      BY ONLY <3>3, FS_Union
    <3> QED BY <2>2, <3>1, <3>2, <3>4
  <2>4. Cardinality(Places(p) \cup Places(q)) <= C
    BY <1>1, <2>1, FS_Subset
  <2> QED BY <2>3, <2>4
<1> QED BY <1>3, <1>4, <1>5 DEF MergeGood

LEMMA MergeListType ==
  ASSUME NEW D, NEW ns, NEW a, NEW b, D \in SUBSET Cell, ns \in [D -> Node(D)],
         a \in D \cup {NULL}, b \in D \cup {NULL}
  PROVE  Result(D, merge_list(ns, a, b))
<1> DEFINE C == Cardinality(D)
<1>1. IsFiniteSet(D) /\ C \in Nat /\ DOMAIN ns = D /\ NULL \notin D
  BY CellsFinite
<1>2. Linked(ns, "next")
  BY <1>1, EntryIs DEF Linked
<1>3. PICK merge : IsMerge(ns, C, merge) /\ merge_list(ns, a, b) = merge[C][a][b]
  BY <1>1, <1>2, MergeListIs
<1>4. \A k \in 0 .. C : \A u \in D \cup {NULL} : \A v \in D \cup {NULL} : Result(D, merge[k][u][v])
  BY <1>1, <1>3, MergeType
<1>5. C \in 0 .. C
  BY <1>1
<1> QED BY <1>3, <1>4, <1>5

-------------------------------------------------------------------------------
(* Sorting.                                                                *)

SortStep(sort, k, ms, head) ==
  IF k = 0 \/ head = NULL \/ ms[head].next = NULL THEN [nodes |-> ms, head |-> head]
  ELSE LET cut == slow(ms, head)
           half1 == sort[k - 1][SetLink(ms, cut, "next", NULL)][head]
           half2 == sort[k - 1][half1.nodes][ms[cut].next]
       IN  merge_list(half2.nodes, half1.head, half2.head)
IsSort(D, N, sort) ==
  sort = [k \in 0 .. N |-> [ms \in [D -> Node(D)] |-> [head \in D \cup {NULL} |->
            SortStep(sort, k, ms, head)]]]

LEMMA SortAt ==
  ASSUME NEW D, NEW sort, NEW N, NEW k, NEW ms, NEW head, IsSort(D, N, sort),
         k \in 0 .. N, ms \in [D -> Node(D)], head \in D \cup {NULL}
  PROVE  sort[k][ms][head] = SortStep(sort, k, ms, head)
<1>1. sort[k] = [u \in [D -> Node(D)] |-> [v \in D \cup {NULL} |-> SortStep(sort, k, u, v)]]
  BY DEF IsSort
<1>2. sort[k][ms] = [v \in D \cup {NULL} |-> SortStep(sort, k, ms, v)]
  BY ONLY <1>1, ms \in [D -> Node(D)]
<1> QED BY ONLY <1>2, head \in D \cup {NULL}

LEMMA SlowType ==
  ASSUME NEW D, NEW ms, NEW head, D \in SUBSET Cell, ms \in [D -> Node(D)], head \in D
  PROVE  slow(ms, head) \in D /\ ms[slow(ms, head)].next \in D \cup {NULL}
<1>1. IsFiniteSet(D) /\ NULL \notin D /\ DOMAIN ms = D
  BY CellsFinite
<1>2. Linked(ms, "next")
  BY <1>1, EntryIs DEF Linked
<1>3. PICK met : met = Chain(ms, head, "next")
  OBVIOUS
<1>4. head \in DOMAIN ms \cup {NULL} /\ head # NULL
  BY <1>1
<1>5. met \in Seq(D) /\ Len(met) > 0
  BY <1>1, <1>2, <1>3, <1>4, ChainType
<1>6. (Len(met) + 1) \div 2 \in 1 .. Len(met)
  <2>1. Len(met) \in Nat
    BY <1>5
  <2> QED BY <1>5, <2>1
<1>7. slow(ms, head) \in D
  BY <1>3, <1>5, <1>6 DEF slow
<1> QED BY <1>7, EntryIs

Halved(D, sort, k, ms, head, half1, half2) ==
  /\ half1 = sort[k - 1][SetLink(ms, slow(ms, head), "next", NULL)][head]
  /\ half2 = sort[k - 1][half1.nodes][ms[slow(ms, head)].next]

LEMMA SortHalves ==
  ASSUME NEW D, NEW sort, NEW k, NEW ms, NEW head, NEW half1, NEW half2,
         D \in SUBSET Cell, ms \in [D -> Node(D)], head \in D,
         \A ns \in [D -> Node(D)] : \A h \in D \cup {NULL} : Result(D, sort[k - 1][ns][h]),
         Halved(D, sort, k, ms, head, half1, half2)
  PROVE  /\ SetLink(ms, slow(ms, head), "next", NULL) \in [D -> Node(D)]
         /\ ms[slow(ms, head)].next \in D \cup {NULL}
         /\ Result(D, half1) /\ Result(D, half2)
         /\ Result(D, merge_list(half2.nodes, half1.head, half2.head))
<1>1. slow(ms, head) \in D /\ ms[slow(ms, head)].next \in D \cup {NULL} /\ NULL \notin D
  BY SlowType, CellsFinite
<1>2. PICK cut, ms1 : cut = slow(ms, head) /\ ms1 = SetLink(ms, cut, "next", NULL)
  OBVIOUS
<1>3. NextSet(D, ms, cut, NULL, ms1)
  BY <1>1, <1>2, SetLinkIs
<1>4. ms1 \in [D -> Node(D)]
  BY <1>3 DEF NextSet
<1>5. Result(D, half1)
  BY SMTT(30), <1>2, <1>4 DEF Halved
<1>6. Result(D, half2)
  BY <1>1, <1>5 DEF Halved, Result
<1>7. Result(D, merge_list(half2.nodes, half1.head, half2.head))
  BY <1>5, <1>6, MergeListType DEF Result
<1> QED BY <1>1, <1>2, <1>4, <1>5, <1>6, <1>7

LEMMA SortType ==
  ASSUME NEW D, NEW sort, NEW N, D \in SUBSET Cell, N \in Nat, IsSort(D, N, sort)
  PROVE  \A k \in 0 .. N : \A ms \in [D -> Node(D)] : \A head \in D \cup {NULL} :
           Result(D, sort[k][ms][head])
<1> DEFINE Good(k) == \A ms \in [D -> Node(D)] : \A head \in D \cup {NULL} : Result(D, sort[k][ms][head])
           T == {k \in 0 .. N : ~Good(k)}
<1>1. ASSUME NEW k \in 0 .. N, k # 0 => Good(k - 1), NEW ms \in [D -> Node(D)], NEW head \in D \cup {NULL}
      PROVE  Result(D, sort[k][ms][head])
  <2>1. sort[k][ms][head] = SortStep(sort, k, ms, head)
    BY SortAt
  <2>2. CASE k = 0 \/ head = NULL \/ ms[head].next = NULL
    <3>1. sort[k][ms][head] = [nodes |-> ms, head |-> head]
      BY <2>1, <2>2 DEF SortStep
    <3> QED BY SMTT(30), <3>1 DEF Result
  <2>3. CASE ~(k = 0 \/ head = NULL \/ ms[head].next = NULL)
    <3>1. PICK half1, half2 : Halved(D, sort, k, ms, head, half1, half2)
      BY DEF Halved
    <3>2. sort[k][ms][head] = merge_list(half2.nodes, half1.head, half2.head)
      BY <2>1, <2>3, <3>1 DEF SortStep, Halved
    <3>3. head \in D /\ Good(k - 1)
      BY <1>1, <2>3
    <3> QED BY <3>1, <3>2, <3>3, SortHalves
  <2> QED BY <2>2, <2>3
<1>2. T = {}
  <2> SUFFICES ASSUME T # {} PROVE FALSE
    OBVIOUS
  <2>0. T \in SUBSET Nat
    OBVIOUS
  <2>1. PICK x \in T : \A y \in T : x <= y
    BY <2>0, LeastNatural
  <2>2. x \in 0 .. N /\ (x # 0 => Good(x - 1))
    BY <2>1
  <2>3. Good(x)
    BY <1>1, <2>2
  <2> QED BY <2>1, <2>3
<1> QED BY <1>2

LEMMA SortGrows ==
  ASSUME NEW D, NEW sort, NEW N, D \in SUBSET Cell, N \in Nat, IsSort(D, N, sort)
  PROVE  \E longer : IsSort(D, N + 1, longer)
<1> DEFINE M == [D -> Node(D)]
           P == D \cup {NULL}
           longer == [k \in 0 .. N + 1 |-> [ms \in M |-> [head \in P |-> SortStep(sort, k, ms, head)]]]
<1>1. ASSUME NEW k \in 0 .. N, NEW ms \in M, NEW head \in P
      PROVE  longer[k][ms][head] = sort[k][ms][head]
  <2>1. sort[k][ms][head] = SortStep(sort, k, ms, head)
    BY SortAt
  <2>2. k \in 0 .. N + 1
    OBVIOUS
  <2>3. longer[k][ms][head] = SortStep(sort, k, ms, head)
    BY <2>2
  <2> QED BY <2>1, <2>3
<1>2. ASSUME NEW k \in 0 .. N + 1, NEW ms \in M, NEW head \in P
      PROVE  SortStep(sort, k, ms, head) = SortStep(longer, k, ms, head)
  <2>1. CASE k = 0 \/ head = NULL \/ ms[head].next = NULL
    BY <2>1 DEF SortStep
  <2>2. CASE ~(k = 0 \/ head = NULL \/ ms[head].next = NULL)
    <3>1. PICK half1, half2 : Halved(D, sort, k, ms, head, half1, half2)
      BY DEF Halved
    <3>2. head \in D /\ k - 1 \in 0 .. N
      BY <2>2
    <3>3. \A ns \in [D -> Node(D)] : \A h \in D \cup {NULL} : Result(D, sort[k - 1][ns][h])
      BY <3>2, SortType
    <3>4. /\ SetLink(ms, slow(ms, head), "next", NULL) \in M
          /\ ms[slow(ms, head)].next \in P /\ Result(D, half1)
      BY <3>1, <3>2, <3>3, SortHalves
    <3> HIDE DEF longer
    <3>5. half1 = longer[k - 1][SetLink(ms, slow(ms, head), "next", NULL)][head]
      BY SMTT(30), <1>1, <3>1, <3>2, <3>4 DEF Halved
    <3>6. half2 = longer[k - 1][half1.nodes][ms[slow(ms, head)].next]
      BY SMTT(30), <1>1, <3>1, <3>2, <3>4 DEF Halved, Result
    <3>7. SortStep(sort, k, ms, head) = merge_list(half2.nodes, half1.head, half2.head)
      BY SMTT(30), <2>2, <3>1 DEF SortStep, Halved
    <3>8. SortStep(longer, k, ms, head) = merge_list(half2.nodes, half1.head, half2.head)
      BY <2>2, <3>5, <3>6 DEF SortStep
    <3> QED BY <3>7, <3>8
  <2> QED BY SMTT(30), <2>1, <2>2
<1>3. IsSort(D, N + 1, longer)
  <2>1. PICK l : l = longer
    OBVIOUS
  <2>2. ASSUME NEW k \in 0 .. N + 1, NEW ms \in M, NEW head \in P
        PROVE  SortStep(sort, k, ms, head) = SortStep(l, k, ms, head)
    BY <1>2, <2>1
  <2>3. ASSUME NEW k \in 0 .. N + 1, NEW ms \in M
        PROVE  [head \in P |-> SortStep(sort, k, ms, head)] = [head \in P |-> SortStep(l, k, ms, head)]
    BY ONLY k \in 0 .. N + 1, ms \in M, <2>2
  <2>4. ASSUME NEW k \in 0 .. N + 1
        PROVE  [ms \in M |-> [head \in P |-> SortStep(sort, k, ms, head)]]
                 = [ms \in M |-> [head \in P |-> SortStep(l, k, ms, head)]]
    BY ONLY k \in 0 .. N + 1, <2>3
  <2>5. longer = [k \in 0 .. N + 1 |-> [ms \in M |-> [head \in P |-> SortStep(l, k, ms, head)]]]
    BY ONLY <2>4
  <2> QED BY ONLY <2>1, <2>5 DEF IsSort
<1> QED BY <1>3

LEMMA SortExists ==
  ASSUME NEW D, NEW N, D \in SUBSET Cell, N \in Nat
  PROVE  \E sort : IsSort(D, N, sort)
<1> DEFINE T == {n \in Nat : ~ \E sort : IsSort(D, n, sort)}
<1>1. 0 \notin T
  <2> DEFINE None(ms, head) == [nodes |-> ms, head |-> head]
             s == [k \in 0 .. 0 |-> [ms \in [D -> Node(D)] |-> [head \in D \cup {NULL} |-> None(ms, head)]]]
  <2>1. \A k \in 0 .. 0, ms \in [D -> Node(D)], head \in D \cup {NULL} :
          SortStep(s, k, ms, head) = None(ms, head)
    BY DEF SortStep
  <2>2. IsSort(D, 0, s)
    BY <2>1 DEF IsSort
  <2> QED BY <2>2
<1>2. T = {}
  <2> SUFFICES ASSUME T # {} PROVE FALSE
    OBVIOUS
  <2>1. PICK x \in T : \A y \in T : x <= y
    BY LeastNatural
  <2>2. x - 1 \in Nat /\ x - 1 \notin T
    BY <1>1, <2>1
  <2>3. PICK s : IsSort(D, x - 1, s)
    BY <2>2
  <2>4. \E s2 : IsSort(D, (x - 1) + 1, s2)
    BY <2>2, <2>3, SortGrows
  <2> QED BY <2>1, <2>4
<1> QED BY <1>2

LEMMA SortHelperIs ==
  ASSUME NEW ns, NEW head, DOMAIN ns \in SUBSET Cell
  PROVE  \E sort : /\ IsSort(DOMAIN ns, Cardinality(DOMAIN ns), sort)
                   /\ sort_helper(ns, head) = sort[Cardinality(DOMAIN ns)][ns][head]
<1> DEFINE D == DOMAIN ns
           C == Cardinality(D)
           sort == CHOOSE s : IsSort(D, C, s)
<1>1. IsSort(D, C, sort)
  BY SortExists, CellsFinite
<1>2. sort_helper(ns, head) = sort[C][ns][head]
  BY DEF sort_helper, IsSort, SortStep
<1> QED BY <1>1, <1>2

FirstPart(p, c) == [i \in 1 .. c |-> p[i]]
SecondPart(p, c) == [i \in 1 .. Len(p) - c |-> p[c + i]]

Parts(p, c, p1, p2) ==
  /\ p1 \in Seq(Cell) /\ Distinct(p1) /\ Len(p1) = c /\ Places(p1) \subseteq Places(p) /\ p1 # <<>>
  /\ p2 \in Seq(Cell) /\ Distinct(p2) /\ Len(p2) = Len(p) - c /\ Places(p2) \subseteq Places(p) /\ p2 # <<>>
  /\ Places(p1) \cap Places(p2) = {} /\ Places(p) = Places(p1) \cup Places(p2)
  /\ \A i \in 1 .. c : p1[i] = p[i] /\ i \in 1 .. Len(p)
  /\ \A i \in 1 .. Len(p) - c : p2[i] = p[c + i] /\ c + i \in 1 .. Len(p)

LEMMA PartsAre ==
  ASSUME NEW p, NEW c, p \in Seq(Cell), Distinct(p), c \in 1 .. Len(p) - 1
  PROVE  Parts(p, c, FirstPart(p, c), SecondPart(p, c))
<1>1. /\ Len(p) \in Nat /\ c \in Nat /\ c > 0 /\ c < Len(p) /\ Len(p) - c \in Nat
      /\ \A i \in 1 .. Len(p) : p[i] \in Places(p) /\ p[i] \in Cell
  BY PlacesIs
<1>2. PICK p1, p2 : p1 = FirstPart(p, c) /\ p2 = SecondPart(p, c)
  OBVIOUS
<1>3. \A i \in 1 .. c : i \in 1 .. Len(p)
  BY <1>1
<1>4. \A i \in 1 .. Len(p) - c : c + i \in 1 .. Len(p)
  BY <1>1
<1>5. p1 \in Seq(Cell) /\ Len(p1) = c /\ \A i \in 1 .. c : p1[i] = p[i]
  BY <1>1, <1>2, <1>3 DEF FirstPart
<1>6. p2 \in Seq(Cell) /\ Len(p2) = Len(p) - c /\ \A i \in 1 .. Len(p) - c : p2[i] = p[c + i]
  BY <1>1, <1>2, <1>4 DEF SecondPart
<1>7. Distinct(p1)
  BY <1>3, <1>5 DEF Distinct
<1>8. Distinct(p2)
  <2>1. ASSUME NEW i \in 1 .. Len(p2), NEW j \in 1 .. Len(p2), p2[i] = p2[j] PROVE i = j
    <3>1. PICK a \in 1 .. Len(p), b \in 1 .. Len(p) : a = c + i /\ b = c + j
      BY <1>4, <1>6
    <3>2. p[a] = p[b]
      BY <1>6, <2>1, <3>1
    <3>3. a = b
      BY <3>2 DEF Distinct
    <3> QED BY <1>1, <1>6, <3>1, <3>3
  <2> QED BY <2>1 DEF Distinct
<1>9. ASSUME NEW m \in Places(p1) PROVE \E i \in 1 .. c : m = p[i]
  BY <1>5 DEF Places
<1>10. ASSUME NEW m \in Places(p2) PROVE \E i \in 1 .. Len(p) - c : m = p[c + i]
  BY <1>6 DEF Places
<1>11. Places(p1) \subseteq Places(p) /\ Places(p2) \subseteq Places(p)
  BY <1>1, <1>3, <1>4, <1>9, <1>10
<1>12. ASSUME NEW m, m \in Places(p1), m \in Places(p2) PROVE FALSE
  <2>1. PICK i \in 1 .. c : m = p[i]
    BY <1>9, <1>12
  <2>2. PICK j \in 1 .. Len(p) - c : m = p[c + j]
    BY <1>10, <1>12
  <2>3. i = c + j
    BY <1>3, <1>4, <2>1, <2>2 DEF Distinct
  <2> QED BY <1>1, <2>3
<1>13. ASSUME NEW m \in Places(p) PROVE m \in Places(p1) \cup Places(p2)
  <2>1. PICK i \in 1 .. Len(p) : m = p[i]
    BY DEF Places
  <2>2. CASE i <= c
    <3>1. i \in 1 .. Len(p1) /\ m = p1[i]
      BY <1>1, <1>5, <2>1, <2>2
    <3> QED BY <3>1 DEF Places
  <2>3. CASE i > c
    <3>1. i - c \in 1 .. Len(p) - c /\ c + (i - c) = i
      BY <1>1, <2>3
    <3>2. i - c \in 1 .. Len(p2) /\ m = p2[i - c]
      BY <1>6, <2>1, <3>1
    <3> QED BY <3>2 DEF Places
  <2> QED BY <1>1, <2>2, <2>3
<1>14. Places(p1) \cap Places(p2) = {} /\ Places(p) = Places(p1) \cup Places(p2)
  BY <1>11, <1>12, <1>13
<1>15. p1 # <<>> /\ p2 # <<>>
  BY <1>1, <1>5, <1>6
<1> QED BY <1>2, <1>3, <1>4, <1>5, <1>6, <1>7, <1>8, <1>11, <1>14, <1>15 DEF Parts

LEMMA StrandSame ==
  ASSUME NEW D, NEW ns, NEW n, NEW p, NEW new, Strand(D, ns, n, p), \A m \in Places(p) : new[m] = ns[m]
  PROVE  Strand(D, new, n, p)
<1>1. /\ Len(p) \in Nat /\ \A i \in 1 .. Len(p) : p[i] \in Places(p) /\ new[p[i]] = ns[p[i]]
      /\ \A i \in 2 .. Len(p) : i \in 1 .. Len(p)
  BY PlacesIs DEF Strand
<1> QED BY <1>1 DEF Strand

LEMMA KeepsRestTwice ==
  ASSUME NEW D, NEW S, NEW T, NEW U, NEW a, NEW b, NEW c, KeepsRest(D, S, a, b), KeepsRest(D, T, b, c),
         S \subseteq U, T \subseteq U
  PROVE  KeepsRest(D, U, a, c)
<1>1. \A n \in D \ U : c[n] = a[n]
  BY DEF KeepsRest
<1>2. SameData(a, c, D)
  BY DEF KeepsRest, SameData
<1>3. kind = "forward" => \A n \in D : c[n].prev = a[n].prev
  BY DEF KeepsRest
<1> QED BY <1>1, <1>2, <1>3 DEF KeepsRest

(* The list cut behind its cth node.                                       *)
LEMMA StrandSplit ==
  ASSUME NEW D, NEW ns, NEW n, NEW p, NEW c, NEW p1, NEW p2, NEW new,
         D \in SUBSET Cell, ns \in [D -> Node(D)], Strand(D, ns, n, p), c \in 1 .. Len(p) - 1,
         Parts(p, c, p1, p2), NextSet(D, ns, p[c], NULL, new)
  PROVE  /\ Strand(D, new, n, p1) /\ Strand(D, ns, ns[p[c]].next, p2)
         /\ KeepsRest(D, Places(p1), ns, new) /\ p[c] \in D
<1>1. /\ p \in Seq(Cell) /\ Distinct(p) /\ Len(p) \in Nat /\ c \in 1 .. Len(p)
      /\ p # <<>> /\ Places(p) \subseteq D /\ n = p[1]
      /\ \A i \in 1 .. Len(p) : p[i] \in Places(p) /\ p[i] \in D
  <2>1. p \in Seq(Cell) /\ Distinct(p) /\ Places(p) \subseteq D /\ n = FirstOf(p)
    BY DEF Strand
  <2>2. Len(p) \in Nat /\ (p = <<>> <=> Len(p) = 0) /\ \A i \in 1 .. Len(p) : p[i] \in Places(p)
    BY <2>1, PlacesIs
  <2> QED BY <2>1, <2>2 DEF FirstOf
<1>2. /\ p1 \in Seq(Cell) /\ Distinct(p1) /\ Len(p1) = c /\ Places(p1) \subseteq Places(p) /\ p1 # <<>>
      /\ p2 \in Seq(Cell) /\ Distinct(p2) /\ Len(p2) = Len(p) - c /\ Places(p2) \subseteq Places(p) /\ p2 # <<>>
      /\ \A i \in 1 .. c : p1[i] = p[i] /\ i \in 1 .. Len(p)
      /\ \A i \in 1 .. Len(p) - c : p2[i] = p[c + i] /\ c + i \in 1 .. Len(p)
  BY DEF Parts
<1>3. ASSUME NEW m \in D
      PROVE  /\ new[m].data = ns[m].data /\ new[m].prev = ns[m].prev
             /\ new[m].next = IF m = p[c] THEN NULL ELSE ns[m].next
             /\ m # p[c] => new[m] = ns[m]
  BY EntryIs DEF NextSet
<1>4. ASSUME NEW i \in 1 .. Len(p1) PROVE new[p1[i]].next = Next1(p1, i)
  <2>1. p1[i] = p[i] /\ i \in 1 .. Len(p)
    BY <1>2
  <2>2. new[p1[i]].next = IF i = c THEN NULL ELSE ns[p[i]].next
    BY <1>1, <1>3, <2>1 DEF Distinct
  <2>3. ns[p[i]].next = Next1(p, i)
    BY <2>1 DEF Strand
  <2>4. i # c => i + 1 \in 1 .. c /\ i < c /\ i < Len(p)
    BY <1>1, <1>2
  <2>5. i # c => p1[i + 1] = p[i + 1]
    BY <1>2, <2>4
  <2> QED BY <1>2, <2>2, <2>3, <2>4, <2>5 DEF Next1
<1>5. ASSUME kind # "forward", NEW i \in 2 .. Len(p1) PROVE new[p1[i]].prev = p1[i - 1]
  <2>1. i \in 1 .. c /\ i - 1 \in 1 .. c /\ i \in 2 .. Len(p)
    BY <1>1, <1>2
  <2>2. p1[i] = p[i] /\ p1[i - 1] = p[i - 1]
    BY <1>2, <2>1
  <2>3. ns[p[i]].prev = p[i - 1]
    BY <1>5, <2>1 DEF Strand
  <2> QED BY <1>1, <1>2, <1>3, <2>1, <2>2, <2>3
<1>6. Strand(D, new, n, p1)
  <2>1. n = FirstOf(p1)
    <3>1. 1 \in 1 .. c
      BY <1>1
    <3> QED BY <1>1, <1>2, <3>1 DEF FirstOf
  <2> QED BY <1>1, <1>2, <1>4, <1>5, <2>1 DEF Strand
<1>7. ASSUME NEW i \in 1 .. Len(p2) PROVE ns[p2[i]].next = Next1(p2, i)
  <2>1. p2[i] = p[c + i] /\ c + i \in 1 .. Len(p)
    BY <1>2
  <2>2. ns[p[c + i]].next = Next1(p, c + i)
    BY <2>1 DEF Strand
  <2>3. i < Len(p2) <=> c + i < Len(p)
    BY <1>1, <1>2
  <2>4. i < Len(p2) => i + 1 \in 1 .. Len(p) - c /\ c + (i + 1) = (c + i) + 1
    BY <1>1, <1>2
  <2>5. i < Len(p2) => p2[i + 1] = p[(c + i) + 1]
    BY <1>2, <2>4
  <2> QED BY <2>1, <2>2, <2>3, <2>5 DEF Next1
<1>8. ASSUME kind # "forward", NEW i \in 2 .. Len(p2) PROVE ns[p2[i]].prev = p2[i - 1]
  <2>1. i \in 1 .. Len(p) - c /\ i - 1 \in 1 .. Len(p) - c /\ c + i \in 2 .. Len(p) /\ c + (i - 1) = (c + i) - 1
    BY <1>1, <1>2
  <2>2. p2[i] = p[c + i] /\ p2[i - 1] = p[(c + i) - 1]
    BY <1>2, <2>1
  <2> QED BY <1>8, <2>1, <2>2 DEF Strand
<1>9. Strand(D, ns, ns[p[c]].next, p2)
  <2>1. ns[p[c]].next = p[c + 1]
    BY <1>1 DEF Strand, Next1
  <2>2. 1 \in 1 .. Len(p) - c
    BY <1>1
  <2>3. ns[p[c]].next = FirstOf(p2)
    BY <1>2, <2>1, <2>2 DEF FirstOf
  <2> QED BY <1>1, <1>2, <1>7, <1>8, <2>3 DEF Strand
<1>10. KeepsRest(D, Places(p1), ns, new)
  <2>1. p[c] \in Places(p1)
    <3>1. c \in 1 .. Len(p1) /\ p1[c] = p[c]
      BY <1>1, <1>2
    <3> QED BY <3>1 DEF Places
  <2> QED BY <1>3, <2>1 DEF KeepsRest, SameData
<1> QED BY <1>1, <1>6, <1>9, <1>10

(* R is the order of comp on p, and that of p where comp does not decide.  *)
Follows(ns, R, p) ==
  \A i, j \in 1 .. Len(p) : i < j =>
    IF FirstFirst(ns[p[i]].data, ns[p[j]].data) THEN <<p[i], p[j]>> \in R ELSE <<p[j], p[i]>> \in R

Sortable(D, R, ms, head, p) ==
  ms \in [D -> Node(D)] /\ Strand(D, ms, head, p) /\ Follows(ms, R, p)
Sorts(D, R, ms, p, m) ==
  Arranged(D, R, ms, Places(p), m) /\ (Len(p) > 1 => HeadIsFirst(m))
SortGood(D, R, sort, k) ==
  \A ms, head, p : Sortable(D, R, ms, head, p) /\ Len(p) <= k =>
                     Sorts(D, R, ms, p, sort[k][ms][head])

LEMMA SlowIs ==
  ASSUME NEW D, NEW ms, NEW head, NEW p, D \in SUBSET Cell, ms \in [D -> Node(D)],
         Strand(D, ms, head, p), Len(p) > 1
  PROVE  (Len(p) + 1) \div 2 \in 1 .. Len(p) - 1 /\ slow(ms, head) = p[(Len(p) + 1) \div 2]
<1>1. IsFiniteSet(D) /\ NULL \notin D /\ DOMAIN ms = D
  BY CellsFinite
<1>2. Linked(ms, "next")
  BY <1>1, EntryIs DEF Linked
<1>3. p \in Seq(Cell) /\ Distinct(p) /\ Places(p) \subseteq D /\ head = FirstOf(p)
  BY DEF Strand
<1>4. Len(p) \in Nat /\ p \in Seq(Places(p))
  BY <1>3, PlacesIs
<1>5. p \in Seq(D)
  BY <1>3, <1>4
<1>6. \A i \in 1 .. Len(p) : ms[p[i]]["next"] = IF i = Len(p) THEN NULL ELSE p[i + 1]
  BY <1>4 DEF Strand, Next1
<1>7. Path(ms, head, "next", p)
  BY <1>1, <1>3, <1>5, <1>6 DEF Path, Distinct, FirstOf
<1>8. Chain(ms, head, "next") = p
  BY <1>1, <1>2, <1>7, PathChain
<1>9. (Len(p) + 1) \div 2 \in 1 .. Len(p) - 1
  BY <1>4
<1> QED BY <1>8, <1>9 DEF slow

LEMMA SortedStep ==
  ASSUME NEW D, NEW R, NEW sort, NEW N, NEW k, NEW ms, NEW head, NEW p,
         D \in SUBSET Cell, Transitive(D, R), N \in Nat, k \in 0 .. N, IsSort(D, N, sort),
         k # 0 => SortGood(D, R, sort, k - 1), Sortable(D, R, ms, head, p), Len(p) <= k
  PROVE  Sorts(D, R, ms, p, sort[k][ms][head])
<1>1. ms \in [D -> Node(D)] /\ Strand(D, ms, head, p) /\ Follows(ms, R, p)
  BY DEF Sortable
<1>2. /\ p \in Seq(Cell) /\ Distinct(p) /\ Len(p) \in Nat /\ (p = <<>> <=> Len(p) = 0)
      /\ Places(p) \subseteq D /\ head = FirstOf(p)
      /\ \A i \in 1 .. Len(p) : p[i] \in D
  <2>1. p \in Seq(Cell) /\ Distinct(p) /\ Places(p) \subseteq D /\ head = FirstOf(p)
    BY <1>1 DEF Strand
  <2>2. Len(p) \in Nat /\ (p = <<>> <=> Len(p) = 0) /\ \A i \in 1 .. Len(p) : p[i] \in Places(p)
    BY <2>1, PlacesIs
  <2> QED BY <2>1, <2>2
<1>3. NULL \notin D
  BY CellsFinite
<1>a. Len(p) = 0 \/ Len(p) = 1 \/ Len(p) > 1
  <2>1. Len(p) \in Nat
    BY <1>2
  <2>2. \A l \in Nat : l = 0 \/ l = 1 \/ l > 1
    OBVIOUS
  <2> QED BY ONLY <2>1, <2>2
<1>4. /\ head \in D \cup {NULL} /\ (head = NULL <=> Len(p) = 0)
      /\ Len(p) > 0 => head = p[1] /\ (ms[head].next = NULL <=> Len(p) = 1)
  <2>1. Len(p) > 0 => head = p[1] /\ head \in D
    BY <1>2 DEF FirstOf
  <2>2. Len(p) = 0 => head = NULL
    BY <1>2 DEF FirstOf
  <2>3. Len(p) > 0 => ms[p[1]].next = Next1(p, 1)
    BY <1>1, <1>2 DEF Strand
  <2>4. Len(p) > 1 => Next1(p, 1) # NULL
    BY <1>2, <1>3 DEF Next1
  <2>5. Len(p) = 1 => Next1(p, 1) = NULL
    BY <1>2 DEF Next1
  <2>6. Len(p) = 0 \/ Len(p) = 1 \/ Len(p) > 1
    BY <1>a
  <2>7. head \in D \cup {NULL} /\ (head = NULL <=> Len(p) = 0)
    BY ONLY <1>3, <2>1, <2>2, <2>6
  <2>8. Len(p) > 0 => (ms[head].next = NULL <=> Len(p) = 1)
    BY ONLY <2>1, <2>3, <2>4, <2>5, <2>6
  <2> QED BY <2>1, <2>7, <2>8
<1>5. PICK m : m = sort[k][ms][head]
  OBVIOUS
<1>6. m = SortStep(sort, k, ms, head)
  BY <1>1, <1>4, <1>5, SortAt
<1>7. CASE Len(p) <= 1
  <2>1. head = NULL \/ ms[head].next = NULL
    <3>1. Len(p) = 0 \/ Len(p) = 1
      BY <1>a, <1>7
    <3>2. Len(p) = 1 => Len(p) > 0
      BY ONLY <3>1
    <3> QED BY ONLY <1>4, <3>1, <3>2
  <2>2. m = [nodes |-> ms, head |-> head]
    BY <1>6, <2>1 DEF SortStep
  <2>3. m.nodes = ms /\ m.head = head
    BY <2>2
  <2>4. Rising(R, p)
    BY <1>2, <1>7 DEF Rising
  <2>5. KeepsRest(D, Places(p), ms, ms)
    BY DEF KeepsRest, SameData
  <2>6. Arranged(D, R, ms, Places(p), m)
    BY <1>1, <1>4, <2>3, <2>4, <2>5 DEF Arranged, Result, StrandGrows
  <2> QED BY <1>2, <1>5, <1>7, <2>6 DEF Sorts
<1>8. CASE Len(p) > 1
  <2>1. /\ k # 0 /\ k - 1 \in 0 .. N /\ SortGood(D, R, sort, k - 1)
        /\ head # NULL /\ ms[head].next # NULL /\ head \in D
    BY <1>2, <1>4, <1>8
  <2>2. PICK c : c \in 1 .. Len(p) - 1 /\ slow(ms, head) = p[c]
    BY <1>1, <1>8, SlowIs
  <2>3. PICK half1, half2 : Halved(D, sort, k, ms, head, half1, half2)
    BY DEF Halved
  <2>4. m = merge_list(half2.nodes, half1.head, half2.head)
    BY <1>6, <2>1, <2>3 DEF SortStep, Halved
  <2>5. PICK p1, p2 : Parts(p, c, p1, p2)
    BY <1>2, <2>2, PartsAre
  <2>6. PICK ms1 : ms1 = SetLink(ms, p[c], "next", NULL)
    OBVIOUS
  <2>7. p[c] \in D
    BY <1>2, <2>2
  <2>8. NextSet(D, ms, p[c], NULL, ms1)
    BY <1>1, <1>3, <2>6, <2>7, SetLinkIs
  <2>9. /\ Strand(D, ms1, head, p1) /\ Strand(D, ms, ms[p[c]].next, p2)
        /\ KeepsRest(D, Places(p1), ms, ms1) /\ ms1 \in [D -> Node(D)]
    <3>1. ms1 \in [D -> Node(D)]
      BY <2>8 DEF NextSet
    <3>2. /\ Strand(D, ms1, head, p1) /\ Strand(D, ms, ms[p[c]].next, p2)
          /\ KeepsRest(D, Places(p1), ms, ms1)
      BY ONLY D \in SUBSET Cell, <1>1, <2>2, <2>5, <2>8, StrandSplit
    <3> QED BY <3>1, <3>2
  <2>10. /\ half1 = sort[k - 1][ms1][head]
         /\ half2 = sort[k - 1][half1.nodes][ms[p[c]].next]
    BY <2>2, <2>3, <2>6 DEF Halved
  <2>11. /\ Len(p1) = c /\ Len(p2) = Len(p) - c /\ Len(p1) <= k - 1 /\ Len(p2) <= k - 1
         /\ Places(p1) \cap Places(p2) = {} /\ Places(p) = Places(p1) \cup Places(p2)
         /\ p1 # <<>> /\ p2 # <<>>
         /\ \A i \in 1 .. c : p1[i] = p[i] /\ i \in 1 .. Len(p)
         /\ \A i \in 1 .. Len(p) - c : p2[i] = p[c + i] /\ c + i \in 1 .. Len(p)
    BY <1>2, <2>1, <2>2, <2>5 DEF Parts
  <2>12. Sorts(D, R, ms1, p1, half1)
    <3>1. Follows(ms1, R, p1)
      <4>1. ASSUME NEW i \in 1 .. Len(p1), NEW j \in 1 .. Len(p1), i < j
            PROVE  IF FirstFirst(ms1[p1[i]].data, ms1[p1[j]].data)
                     THEN <<p1[i], p1[j]>> \in R ELSE <<p1[j], p1[i]>> \in R
        <5>1. i \in 1 .. Len(p) /\ j \in 1 .. Len(p) /\ p1[i] = p[i] /\ p1[j] = p[j]
          BY <2>11
        <5>2. ms1[p[i]].data = ms[p[i]].data /\ ms1[p[j]].data = ms[p[j]].data
          BY <1>2, <2>9, <5>1 DEF KeepsRest, SameData
        <5> QED BY <1>1, <4>1, <5>1, <5>2 DEF Follows
      <4> QED BY <4>1 DEF Follows
    <3> QED BY <2>1, <2>9, <2>10, <2>11, <3>1 DEF SortGood, Sortable
  <2>13. /\ Result(D, half1) /\ KeepsRest(D, Places(p1), ms1, half1.nodes)
         /\ StrandGrows(D, R, half1, Places(p1))
    BY <2>12 DEF Sorts, Arranged
  <2>14. KeepsRest(D, Places(p1), ms, half1.nodes)
    BY <2>9, <2>13, KeepsRestTwice
  <2>15. Strand(D, half1.nodes, ms[p[c]].next, p2)
    <3>1. \A n \in Places(p2) : half1.nodes[n] = ms[n]
      BY SMTT(30), <1>2, <2>11, <2>14 DEF KeepsRest
    <3> QED BY <2>9, <3>1, StrandSame
  <2>16. Sorts(D, R, half1.nodes, p2, half2)
    <3>1. ASSUME NEW i \in 1 .. Len(p2), NEW j \in 1 .. Len(p2), i < j
          PROVE  IF FirstFirst(half1.nodes[p2[i]].data, half1.nodes[p2[j]].data)
                   THEN <<p2[i], p2[j]>> \in R ELSE <<p2[j], p2[i]>> \in R
      <4>1. PICK a \in 1 .. Len(p), b \in 1 .. Len(p) : a = c + i /\ b = c + j /\ p2[i] = p[a] /\ p2[j] = p[b]
        BY ZenonT(60), <2>11
      <4>2. a < b
        BY <1>2, <2>2, <2>11, <3>1, <4>1
      <4>3. half1.nodes[p[a]].data = ms[p[a]].data /\ half1.nodes[p[b]].data = ms[p[b]].data
        BY <1>2, <2>14 DEF KeepsRest, SameData
      <4> QED BY <1>1, <4>1, <4>2, <4>3 DEF Follows
    <3>2. Follows(half1.nodes, R, p2)
      BY <3>1 DEF Follows
    <3>3. Sortable(D, R, half1.nodes, ms[p[c]].next, p2)
      BY <2>13, <2>15, <3>2 DEF Sortable, Result
    <3> QED BY <2>1, <2>10, <2>11, <3>3 DEF SortGood
  <2>17. /\ Result(D, half2) /\ KeepsRest(D, Places(p2), half1.nodes, half2.nodes)
         /\ StrandGrows(D, R, half2, Places(p2))
    BY <2>16 DEF Sorts, Arranged
  <2>18. PICK r1 : Strand(D, half1.nodes, half1.head, r1) /\ Places(r1) = Places(p1) /\ Rising(R, r1)
    BY <2>13 DEF StrandGrows
  <2>19. PICK r2 : Strand(D, half2.nodes, half2.head, r2) /\ Places(r2) = Places(p2) /\ Rising(R, r2)
    BY <2>17 DEF StrandGrows
  <2>20. Strand(D, half2.nodes, half1.head, r1)
    <3>1. \A n \in Places(r1) : half2.nodes[n] = half1.nodes[n]
      BY <1>2, <2>11, <2>17, <2>18 DEF KeepsRest
    <3> QED BY <2>18, <3>1, StrandSame
  <2>21. Agrees(half2.nodes, R, r1, r2)
    <3>1. ASSUME NEW a \in Places(p1), NEW b \in Places(p2)
          PROVE  IF FirstFirst(half2.nodes[a].data, half2.nodes[b].data)
                   THEN <<a, b>> \in R ELSE <<b, a>> \in R
      <4>1. PICK i \in 1 .. Len(p1), j \in 1 .. Len(p2) : a = p1[i] /\ b = p2[j]
        BY DEF Places
      <4>2. PICK d \in 1 .. Len(p) : d = c + j /\ b = p[d]
        BY <2>11, <4>1
      <4>3. i \in 1 .. Len(p) /\ a = p[i] /\ i < d
        BY <1>2, <2>2, <2>11, <4>1, <4>2
      <4>4. half2.nodes[a].data = ms[a].data /\ half2.nodes[b].data = ms[b].data
        BY <1>2, <2>14, <2>17, <4>2, <4>3 DEF KeepsRest, SameData
      <4> QED BY <1>1, <4>2, <4>3, <4>4 DEF Follows
    <3> QED BY <2>18, <2>19, <3>1 DEF Agrees
  <2>22. Mergeable(D, R, half2.nodes, half1.head, r1, half2.head, r2)
    BY <2>11, <2>18, <2>19, <2>20, <2>21 DEF Mergeable
  <2>23. Merges(D, R, half2.nodes, half1.head, r1, half2.head, r2, m)
    <3>1. half2.nodes \in [D -> Node(D)]
      BY <2>17 DEF Result
    <3> QED BY <2>4, <2>22, <3>1, MergeListMerges
  <2>24. half1.head # NULL /\ half2.head # NULL
    <3>1. Places(p1) # {} /\ Places(p2) # {}
      <4>1. 1 \in 1 .. Len(p1) /\ 1 \in 1 .. Len(p2)
        BY <1>2, <2>2, <2>11
      <4> QED BY <4>1 DEF Places
    <3>2. half1.head = FirstOf(r1) /\ r1 \in Seq(Cell) /\ half2.head = FirstOf(r2) /\ r2 \in Seq(Cell)
      BY <2>18, <2>19 DEF Strand
    <3>3. r1 # <<>> /\ r2 # <<>>
      <4>1. ASSUME NEW r, r = <<>> PROVE Places(r) = {}
        BY <4>1 DEF Places
      <4> QED BY <2>18, <2>19, <3>1, <4>1
    <3>4. 1 \in 1 .. Len(r1) /\ 1 \in 1 .. Len(r2)
      BY SMTT(30), <3>2, <3>3, PlacesIs
    <3>5. r1[1] \in Places(r1) /\ r2[1] \in Places(r2)
      BY <3>2, <3>4, PlacesIs
    <3> QED BY <1>2, <1>3, <2>11, <2>18, <2>19, <3>2, <3>3, <3>5 DEF FirstOf
  <2>25. Arranged(D, R, half2.nodes, Places(p), m) /\ HeadIsFirst(m)
    BY <2>11, <2>18, <2>19, <2>23, <2>24 DEF Merges
  <2>26. KeepsRest(D, Places(p), ms, half2.nodes)
    BY <2>11, <2>14, <2>17, KeepsRestTwice
  <2>27. KeepsRest(D, Places(p), ms, m.nodes)
    BY <2>25, <2>26, KeepsRestTwice DEF Arranged
  <2> QED BY <1>5, <2>25, <2>27 DEF Sorts, Arranged
<1> QED BY <1>2, <1>a, <1>7, <1>8

LEMMA SortHelperSorts ==
  ASSUME NEW D, NEW R, NEW ms, NEW head, NEW p,
         D \in SUBSET Cell, Transitive(D, R), Sortable(D, R, ms, head, p)
  PROVE  Sorts(D, R, ms, p, sort_helper(ms, head))
<1> DEFINE C == Cardinality(D)
<1>1. /\ ms \in [D -> Node(D)] /\ DOMAIN ms = D /\ IsFiniteSet(D) /\ C \in Nat
      /\ p \in Seq(Cell) /\ Distinct(p) /\ Places(p) \subseteq D
  BY CellsFinite DEF Sortable, Strand
<1>2. PICK sort : IsSort(D, C, sort) /\ sort_helper(ms, head) = sort[C][ms][head]
  BY <1>1, SortHelperIs
<1> DEFINE T == {k \in 0 .. C : ~SortGood(D, R, sort, k)}
<1>3. ASSUME NEW k \in 0 .. C, k # 0 => SortGood(D, R, sort, k - 1)
      PROVE  SortGood(D, R, sort, k)
  <2>1. ASSUME NEW ns, NEW h, NEW q, Sortable(D, R, ns, h, q), Len(q) <= k
        PROVE  Sorts(D, R, ns, q, sort[k][ns][h])
    BY <1>1, <1>2, <1>3, <2>1, SortedStep
  <2> QED BY <2>1 DEF SortGood
<1>4. T = {}
  <2> SUFFICES ASSUME T # {} PROVE FALSE
    OBVIOUS
  <2>0. T \in SUBSET Nat
    OBVIOUS
  <2>1. PICK x \in T : \A y \in T : x <= y
    BY <2>0, LeastNatural
  <2>2. x # 0 => SortGood(D, R, sort, x - 1)
    <3>1. x \in Nat /\ x \in 0 .. C
      BY <2>0, <2>1
    <3>2. x # 0 => x - 1 \in 0 .. C /\ ~(x <= x - 1)
      BY <1>1, <3>1
    <3>3. x # 0 => x - 1 \notin T
      BY <2>1, <3>2
    <3> QED BY <3>2, <3>3
  <2> QED BY <1>3, <2>1, <2>2
<1>5. SortGood(D, R, sort, C)
  <2>1. C \in 0 .. C
    BY <1>1
  <2> QED BY <1>4, <2>1
<1>6. Len(p) <= C
  <2>1. Cardinality(Places(p)) = Len(p)
    BY <1>1, PlacesCount
  <2> QED BY <1>1, <2>1, FS_Subset
<1> QED BY <1>2, <1>5, <1>6 DEF SortGood

SortedList(R, ns, p, m, r) ==
  /\ Shape(kind, m.nodes, r) /\ m.head = FirstOf(r) /\ Places(r) = Places(p) /\ Len(r) = Len(p)
  /\ SameData(ns, m.nodes, Places(p)) /\ Rising(R, r)

(* A whole list is sorted into a whole list of the same nodes.             *)
LEMMA ListSorted ==
  ASSUME NEW R, NEW ns, NEW p, kind \in {"bidi", "forward"}, Shape(kind, ns, p), Len(p) > 1,
         Transitive(Places(p), R), Follows(ns, R, p)
  PROVE  \E r : SortedList(R, ns, p, sort_helper(ns, FirstOf(p)), r)
<1> DEFINE D == Places(p)
<1>1. /\ p \in Seq(Cell) /\ Distinct(p) /\ Len(p) \in Nat /\ D \in SUBSET Cell
      /\ \A i \in 2 .. Len(p) : i > 1 /\ i \in 1 .. Len(p)
  <2>1. p \in Seq(Cell) /\ Distinct(p)
    BY DEF Shape
  <2>2. Len(p) \in Nat /\ D \in SUBSET Cell
    BY <2>1, PlacesIs
  <2> QED BY <2>1, <2>2
<1>2. /\ ns \in [D -> Node(D)]
      /\ \A i \in 1 .. Len(p) : ns[p[i]].prev = Prev(kind, p, i) /\ ns[p[i]].next = Next1(p, i)
  BY ShapeType
<1>3. Strand(D, ns, FirstOf(p), p)
  BY <1>1, <1>2 DEF Strand, Prev
<1>4. PICK m : m = sort_helper(ns, FirstOf(p))
  OBVIOUS
<1>5. Sorts(D, R, ns, p, m)
  BY <1>1, <1>2, <1>3, <1>4, SortHelperSorts DEF Sortable
<1>6. PICK r : Strand(D, m.nodes, m.head, r) /\ Places(r) = D /\ Rising(R, r)
  BY <1>5 DEF Sorts, Arranged, StrandGrows
<1>7. /\ r \in Seq(Cell) /\ Distinct(r) /\ Len(r) = Len(p) /\ Len(r) \in Nat /\ r # <<>>
      /\ m.head = FirstOf(r) /\ FirstOf(r) = r[1] /\ r[1] \in D
  <2>1. r \in Seq(Cell) /\ Distinct(r) /\ m.head = FirstOf(r)
    BY <1>6 DEF Strand
  <2>2. Len(r) = Len(p)
    BY <1>1, <1>6, <2>1, PlacesCount
  <2>3. r # <<>> /\ 1 \in 1 .. Len(r)
    BY <1>1, <2>1, <2>2, PlacesIs
  <2>4. r[1] \in D
    BY <1>6, <2>1, <2>3, PlacesIs
  <2> QED BY <1>1, <2>1, <2>2, <2>3, <2>4 DEF FirstOf
<1>8. m.nodes \in [Places(r) -> Node(D)] /\ SameData(ns, m.nodes, D)
  BY <1>5, <1>6 DEF Sorts, Arranged, Result, KeepsRest
<1>9. ASSUME NEW i \in 1 .. Len(r) PROVE m.nodes[r[i]].prev = Prev(kind, r, i) /\ m.nodes[r[i]].next = Next1(r, i)
  <2>1. m.nodes[r[i]].next = Next1(r, i)
    BY <1>6 DEF Strand
  <2>2. CASE kind = "forward"
    <3>1. r[i] \in D
      BY <1>6, <1>7, PlacesIs
    <3>2. m.nodes[r[i]].prev = ns[r[i]].prev
      BY <1>5, <2>2, <3>1 DEF Sorts, Arranged, KeepsRest
    <3>3. PICK j \in 1 .. Len(p) : r[i] = p[j]
      BY <3>1 DEF Places
    <3>4. ns[p[j]].prev = NULL
      BY <1>2, <2>2 DEF Prev
    <3> QED BY <2>1, <2>2, <3>2, <3>3, <3>4 DEF Prev
  <2>3. CASE kind # "forward" /\ i = 1
    <3>1. m.nodes[m.head].prev = NULL
      BY <1>5, <2>3 DEF Sorts, HeadIsFirst
    <3> QED BY <1>7, <2>1, <2>3, <3>1 DEF Prev
  <2>4. CASE kind # "forward" /\ i # 1
    <3>1. i \in 2 .. Len(r) /\ i > 1
      BY <1>7, <2>4
    <3>2. m.nodes[r[i]].prev = r[i - 1]
      BY <1>6, <2>4, <3>1 DEF Strand
    <3> QED BY <2>1, <2>4, <3>1, <3>2 DEF Prev
  <2> QED BY <2>2, <2>3, <2>4
<1>10. Shape(kind, m.nodes, r)
  BY <1>7, <1>8, <1>9, ShapeFrom
<1> QED BY <1>4, <1>6, <1>7, <1>8, <1>10 DEF SortedList

-------------------------------------------------------------------------------
(* The invariant.                                                          *)

At(p, j) == IF j = 0 THEN NULL ELSE p[j]

(* What a removal has passed stays: its loop stands behind the jth node.   *)
Loop(p) ==
  \/ /\ pc \in {"idle", "crashed"} /\ entry = NULL /\ rem_count = 0
     /\ ret.done <=> pc = "idle"
  \/ /\ pc = "remove" /\ ret = Pending /\ op \in {"remove_match", "remove_if"}
     /\ \E j \in 0 .. Len(p) : entry = At(p, j) /\ \A i \in 1 .. j : nodes[p[i]].data \notin arg.drop

Sits(p) ==
  /\ kind \in Kinds /\ Shape(kind, nodes, p) /\ first = FirstOf(p)
  /\ last \in Places(p) \cup {NULL} /\ (kind = "forward" => last = NULL)
  /\ kind = "bidi" /\ pc # "crashed" => last = LastOf(p)
  /\ len = Len(p) + rem_count /\ len <= MaxLen /\ rem_count \in Nat
  /\ Loop(p)

LInv == \E p : Sits(p)

(* The same between two calls.                                             *)
Rests(p) ==
  /\ kind \in Kinds /\ kind \in {"bidi", "forward"} /\ Shape(kind, nodes, p) /\ first = FirstOf(p)
  /\ last = IF kind = "bidi" THEN LastOf(p) ELSE NULL
  /\ len = Len(p) /\ Len(p) \in Nat /\ Len(p) <= MaxLen /\ p \in Seq(Cell) /\ Distinct(p)
  /\ DOMAIN nodes = Places(p) /\ (p = <<>> <=> Len(p) = 0)
  /\ ret.done /\ rem_count = 0 /\ entry = NULL

LEMMA RestsIs ==
  ASSUME NEW p, Sits(p), pc = "idle"
  PROVE  Rests(p)
<1>1. kind \in {"bidi", "forward"}
  BY KindsAssumption DEF Sits
<1>2. p \in Seq(Cell) /\ Distinct(p) /\ Shape(kind, nodes, p)
  BY DEF Sits, Shape
<1>3. DOMAIN nodes = Places(p)
  BY <1>2, ShapeType
<1>4. Len(p) \in Nat /\ (p = <<>> <=> Len(p) = 0)
  BY <1>2, PlacesIs
<1>5. Len(p) <= MaxLen
  BY <1>2, ShapeChain
<1>6. rem_count = 0 /\ entry = NULL /\ ret.done
  BY DEF Sits, Loop
<1> QED
  BY <1>1, <1>2, <1>3, <1>4, <1>5, <1>6 DEF Sits, Rests

Returns(q) ==
  /\ kind \in Kinds /\ Shape(kind, nodes, q) /\ first = FirstOf(q) /\ len = Len(q)
  /\ last = IF kind = "bidi" THEN LastOf(q) ELSE NULL
  /\ pc = "idle" /\ ret.done /\ entry = NULL /\ rem_count = 0

LEMMA ReturnsSits ==
  ASSUME NEW p
  PROVE  Returns(p) => Sits(p)
<1> SUFFICES ASSUME Returns(p) PROVE Sits(p)
  OBVIOUS
<1>0. Shape(kind, nodes, p) /\ len = Len(p) /\ rem_count = 0
  BY DEF Returns
<1>1. p \in Seq(Cell)
  BY <1>0 DEF Shape
<1>2. Len(p) <= MaxLen
  BY <1>0, ShapeChain
<1>3. Len(p) \in Nat /\ LastOf(p) \in Places(p) \cup {NULL}
  BY <1>1, PlacesIs DEF LastOf
<1>4. Loop(p)
  BY DEF Loop, Returns
<1>5. len <= MaxLen /\ len = Len(p) + rem_count /\ rem_count \in Nat
  BY <1>0, <1>2, <1>3
<1> QED
  BY <1>0, <1>3, <1>4, <1>5 DEF Sits, Returns

LEMMA ReturnsSitsNext ==
  ASSUME NEW p
  PROVE  Returns(p)' => Sits(p)'
<1>1. Returns(p) => Sits(p)
  BY ReturnsSits
<1> QED
  BY <1>1, PTL

(* A call that returns leaves such a list.                                 *)
LEMMA Returned ==
  ASSUME NEW q, NEW b, NEW n, NEW s, Return(b, n, s), kind \in Kinds, kind' = kind,
         Shape(kind, nodes', q), first' = FirstOf(q), len' = Len(q),
         last' = IF kind = "bidi" THEN LastOf(q) ELSE NULL
  PROVE  Sits(q)'
<1>1. Returns(q)'
  BY DEF Return, Reply, Returns
<1> QED
  BY <1>1, ReturnsSitsNext

LEMMA StartsEmpty ==
  ASSUME Init
  PROVE  Sits(<<>>)
<1>1. <<>> \in Seq(Cell) /\ Len(<<>>) = 0
  OBVIOUS
<1>2. Places(<<>>) = {}
  BY <1>1, PlacesIs DEF Places
<1>3. Shape(kind, nodes, <<>>)
  BY <1>1, <1>2 DEF Shape, Distinct, Init
<1>4. Returns(<<>>)
  BY <1>1, <1>3 DEF Returns, Init, Reply, FirstOf, LastOf
<1> QED
  BY <1>4, ReturnsSits

LEMMA UnchangedStep ==
  ASSUME NEW p, Rests(p), NEW b, NEW n, NEW s, Unchanged(b, n, s), kind' = kind
  PROVE  Sits(p)'
<1>1. nodes' = nodes /\ first' = first /\ last' = last /\ len' = len
  BY DEF Unchanged, list
<1>2. kind \in Kinds /\ Shape(kind, nodes, p) /\ first = FirstOf(p) /\ len = Len(p)
      /\ last = IF kind = "bidi" THEN LastOf(p) ELSE NULL
  BY DEF Rests
<1>3. Return(b, n, s)
  BY DEF Unchanged
<1>4. Shape(kind, nodes', p) /\ first' = FirstOf(p) /\ len' = Len(p)
      /\ last' = IF kind = "bidi" THEN LastOf(p) ELSE NULL
  BY <1>1, <1>2
<1> QED
  BY <1>2, <1>3, <1>4, Returned

(* What the calls do to the places of the nodes.                           *)
GrowsInFront(p, e) ==
  \E c \in Cell \ Places(p) :
    /\ Sits(<<c>> \o p)' /\ SameData(nodes, nodes', Places(p)) /\ nodes'[c].data = e
GrowsBehind(p, e) ==
  \E c \in Cell \ Places(p) :
    /\ Sits(Append(p, c))' /\ SameData(nodes, nodes', Places(p)) /\ nodes'[c].data = e

LEMMA NewEntry ==
  ASSUME NEW p, Rests(p), HasMemory, NEW e
  PROVE  new_ent \in Cell \ Places(p) /\ new_ent # NULL /\ WithNew(e) = WithCell(nodes, new_ent, e)
<1>1. DOMAIN nodes = Places(p) /\ DOMAIN nodes \subseteq Cell
  BY PlacesIs DEF Rests
<1>2. new_ent \in Cell \ Places(p)
  BY <1>1, NewCell DEF HasMemory, new_ent
<1>3. WithNew(e) = WithCell(nodes, new_ent, e)
  BY DEF WithNew, WithCell, make_node, Entry
<1> QED
  BY <1>2, <1>3, NullAssumption

LEMMA AddFirstStep ==
  ASSUME NEW p, Rests(p), NEW e \in Elems, HasMemory, Return(TRUE, 0, <<>>), kind' = kind,
         first' = new_ent, len' = len + 1,
         \/ /\ kind = "bidi" /\ nodes' = insert_before(WithNew(e), first, new_ent)
            /\ last' = IF len = 0 THEN new_ent ELSE last
         \/ kind = "forward" /\ nodes' = SetLink(WithNew(e), new_ent, "next", first) /\ last' = last
  PROVE  GrowsInFront(p, e)
<1>0. PICK c : c = new_ent
  OBVIOUS
<1> DEFINE q == <<c>> \o p
<1>1. c \in Cell \ Places(p) /\ WithNew(e) = WithCell(nodes, c, e)
  BY <1>0, NewEntry
<1>2. Shape(kind, nodes, p) /\ first = FirstOf(p) /\ kind \in Kinds /\ p \in Seq(Cell) /\ Distinct(p)
      /\ len = Len(p) /\ Len(p) \in Nat /\ (p = <<>> <=> Len(p) = 0)
      /\ last = (IF kind = "bidi" THEN LastOf(p) ELSE NULL)
  BY DEF Rests
<1>3. Shape(kind, nodes', q) /\ SameData(nodes, nodes', Places(p)) /\ nodes'[c].data = e
  <2>1. \/ kind = "bidi" /\ nodes' = insert_before(WithCell(nodes, c, e), FirstOf(p), c)
        \/ kind = "forward" /\ nodes' = SetLink(WithCell(nodes, c, e), c, "next", FirstOf(p))
    BY <1>0, <1>1, <1>2
  <2> QED
    <3>1. e \in Elems
      OBVIOUS
    <3>2. PICK ms, x : ms = nodes' /\ x = kind
      OBVIOUS
    <3>3. \/ x = "bidi" /\ ms = insert_before(WithCell(nodes, c, e), FirstOf(p), c)
          \/ x = "forward" /\ ms = SetLink(WithCell(nodes, c, e), c, "next", FirstOf(p))
      BY <2>1, <3>2
    <3>4. Shape(x, nodes, p)
      BY <1>2, <3>2
    <3>5. Shape(x, ms, q) /\ SameData(nodes, ms, Places(p)) /\ ms[c].data = e
      <4>1. Shape(x, ms, <<c>> \o p) /\ SameData(nodes, ms, Places(p)) /\ ms[c].data = e
        <5>1. CASE x = "bidi" /\ ms = insert_before(WithCell(nodes, c, e), FirstOf(p), c)
          BY ONLY <1>1, <3>1, <3>4, <5>1, AddedInFront
        <5>2. CASE x = "forward" /\ ms = SetLink(WithCell(nodes, c, e), c, "next", FirstOf(p))
          BY ONLY <1>1, <3>1, <3>4, <5>2, AddedInFront
        <5> QED
          BY <3>3, <5>1, <5>2
      <4> QED
        BY <4>1
    <3> QED
      BY <3>2, <3>5
<1>4. GrownInFront(p, c, q)
  BY <1>1, <1>2, PlacesWith
<1>5. Len(q) = Len(p) + 1 /\ q # <<>> /\ q[1] = c /\ \A i \in 2 .. Len(p) + 1 : q[i] = p[i - 1]
  BY <1>4 DEF GrownInFront, Grown
<1>6. FirstOf(q) = c /\ LastOf(q) = IF len = 0 THEN c ELSE LastOf(p)
  <2> HIDE DEF q
  <2>1. CASE len = 0
    BY <1>2, <1>5, <2>1 DEF FirstOf, LastOf
  <2>2. CASE len # 0
    <3>1. q[Len(p) + 1] = p[Len(p)]
      BY <1>2, <1>5, <2>2
    <3> QED
      BY <1>2, <1>5, <2>2, <3>1 DEF FirstOf, LastOf
  <2> QED
    BY <2>1, <2>2
<1>7. last' = IF kind = "bidi" THEN LastOf(q) ELSE NULL
  BY <1>0, <1>2, <1>6
<1>8. Sits(q)'
  <2> HIDE DEF q
  <2>1. first' = FirstOf(q) /\ len' = Len(q)
    BY <1>0, <1>2, <1>5, <1>6
  <2> QED
    BY <1>2, <1>3, <1>7, <2>1, Returned
<1> QED
  BY <1>1, <1>3, <1>8 DEF GrowsInFront

LEMMA AddLastStep ==
  ASSUME NEW p, Rests(p), NEW e \in Elems, HasMemory, Return(TRUE, 0, <<>>), kind' = kind,
         kind = "bidi", nodes' = insert_after(WithNew(e), last, new_ent),
         last' = new_ent, first' = IF len = 0 THEN new_ent ELSE first, len' = len + 1
  PROVE  GrowsBehind(p, e)
<1>0. PICK c : c = new_ent
  OBVIOUS
<1> DEFINE q == Append(p, c)
<1>1. c \in Cell \ Places(p) /\ WithNew(e) = WithCell(nodes, c, e)
  BY <1>0, NewEntry
<1>2. Shape(kind, nodes, p) /\ first = FirstOf(p) /\ kind \in Kinds /\ p \in Seq(Cell) /\ Distinct(p)
      /\ len = Len(p) /\ Len(p) \in Nat /\ (p = <<>> <=> Len(p) = 0)
      /\ last = LastOf(p)
  BY DEF Rests
<1>3. Shape(kind, nodes', q) /\ SameData(nodes, nodes', Places(p)) /\ nodes'[c].data = e
  <2>1. nodes' = insert_after(WithCell(nodes, c, e), LastOf(p), c)
    BY <1>0, <1>1, <1>2
  <2> QED
    BY <1>1, <1>2, <2>1, AddedBehind
<1>4. GrownBehind(p, c, q)
  BY <1>1, <1>2, PlacesWith
<1>5. Len(q) = Len(p) + 1 /\ q # <<>> /\ q[Len(p) + 1] = c /\ \A i \in 1 .. Len(p) : q[i] = p[i]
  BY <1>4 DEF GrownBehind, Grown
<1>6. LastOf(q) = c /\ FirstOf(q) = IF len = 0 THEN c ELSE FirstOf(p)
  <2> HIDE DEF q
  <2>1. CASE len = 0
    BY <1>2, <1>5, <2>1 DEF FirstOf, LastOf
  <2>2. CASE len # 0
    <3>1. q[1] = p[1]
      BY <1>2, <1>5, <2>2
    <3> QED
      BY <1>2, <1>5, <2>2, <3>1 DEF FirstOf, LastOf
  <2> QED
    BY <2>1, <2>2
<1>7. last' = IF kind = "bidi" THEN LastOf(q) ELSE NULL
  BY <1>0, <1>2, <1>6
<1>8. Sits(q)'
  <2> HIDE DEF q
  <2>1. first' = FirstOf(q) /\ len' = Len(q)
    BY <1>0, <1>2, <1>5, <1>6
  <2> QED
    BY <1>2, <1>3, <1>7, <2>1, Returned
<1> QED
  BY <1>1, <1>3, <1>8 DEF GrowsBehind

LEMMA CutEnds ==
  ASSUME NEW p, NEW j, p \in Seq(Cell), Distinct(p), j \in 1 .. Len(p)
  PROVE  /\ FirstOf(Cut(p, j)) = IF j = 1 THEN Next1(p, j) ELSE FirstOf(p)
         /\ LastOf(Cut(p, j)) = IF j = Len(p) THEN Before(p, j) ELSE LastOf(p)
<1>0. p \in Seq(Cell) /\ Distinct(p) /\ j \in 1 .. Len(p)
  OBVIOUS
<1>1. PICK q : q = Cut(p, j)
  OBVIOUS
<1>2. PICK l : l = Len(p) /\ l \in Nat
  BY PlacesIs
<1>3. j \in 1 .. l /\ (p = <<>> <=> l = 0) /\ q \in Seq(Cell) /\ Len(q) = l - 1
      /\ \A i \in 1 .. l - 1 : q[i] = IF i < j THEN p[i] ELSE p[i + 1]
  <2>1. CutOff(p, j, q)
    BY ONLY <1>0, <1>1, CutIs
  <2>2. p = <<>> <=> Len(p) = 0
    BY PlacesIs
  <2> QED
    BY ONLY <1>0, <1>2, <2>1, <2>2 DEF CutOff
<1>4. q = <<>> <=> Len(q) = 0
  BY <1>3, PlacesIs
<1>5. CASE l = 1
  BY ONLY <1>2, <1>3, <1>4, <1>5, <1>1 DEF FirstOf, LastOf, Next1, Before
<1>6. CASE l # 1
  <2>1. q[1] = IF j = 1 THEN p[2] ELSE p[1]
    BY ONLY <1>2, <1>3, <1>6
  <2>2. q[l - 1] = IF j = l THEN p[l - 1] ELSE p[l]
    BY ONLY <1>2, <1>3, <1>6
  <2>3. q # <<>> /\ p # <<>> /\ Len(q) = l - 1
    BY ONLY <1>2, <1>3, <1>4, <1>6
  <2>4. FirstOf(q) = IF j = 1 THEN Next1(p, j) ELSE FirstOf(p)
    BY ONLY <1>2, <1>3, <1>6, <2>1, <2>3 DEF FirstOf, Next1
  <2>5. LastOf(q) = IF j = l THEN Before(p, j) ELSE LastOf(p)
    BY ONLY <1>2, <1>3, <1>6, <2>2, <2>3 DEF LastOf, Before
  <2> QED
    BY <1>1, <1>2, <2>4, <2>5
<1> QED
  BY <1>5, <1>6

Loses(p, j) == Sits(Cut(p, j))' /\ SameData(nodes, nodes', Places(p) \ {p[j]})

LEMMA RemoveFirstStep ==
  ASSUME NEW p, Rests(p), NEW s, Return(TRUE, 0, s), kind' = kind, len # 0,
         first' = nodes[first].next, len' = len - 1,
         \/ /\ kind = "bidi" /\ nodes' = Freed(remove_at(nodes, first), first)
            /\ last' = IF len = 1 THEN NULL ELSE last
         \/ kind = "forward" /\ nodes' = Freed(nodes, first) /\ last' = last
  PROVE  1 \in 1 .. Len(p) /\ first = p[1] /\ Loses(p, 1)
<1>1. Shape(kind, nodes, p) /\ first = FirstOf(p) /\ kind \in Kinds /\ p \in Seq(Cell) /\ Distinct(p)
      /\ len = Len(p) /\ Len(p) \in Nat /\ (p = <<>> <=> Len(p) = 0)
      /\ last = (IF kind = "bidi" THEN LastOf(p) ELSE NULL)
  BY DEF Rests
<1>2. 1 \in 1 .. Len(p) /\ p # <<>> /\ first = p[1]
  BY <1>1 DEF FirstOf
<1>3. Beside(kind, nodes, p, 1)
  BY <1>1, <1>2, Neighbours
<1>4. \E new : Bypassed(kind, nodes, p, 1, new) /\ nodes' = Freed(new, p[1])
  <2>1. CASE kind = "bidi"
    <3>1. Bypassed(kind, nodes, p, 1, remove_at(nodes, p[1]))
      BY <1>1, <1>2, <2>1, BypassedIs
    <3> QED
      BY <1>2, <2>1, <3>1
  <2>2. CASE kind = "forward"
    <3>1. SetLink(nodes, Before(p, 1), "next", Next1(p, 1)) = nodes
      BY DEF SetLink, Before
    <3>2. Bypassed(kind, nodes, p, 1, nodes)
      BY <1>1, <1>2, <2>2, <3>1, BypassedIs
    <3> QED
      BY <1>2, <2>2, <3>2
  <2> QED
    BY <2>1, <2>2
<1>5. Shape(kind, nodes', Cut(p, 1)) /\ SameData(nodes, nodes', Places(p) \ {p[1]})
  <2>1. PICK new, ms : Bypassed(kind, nodes, p, 1, new) /\ ms = nodes' /\ ms = Freed(new, p[1])
    BY <1>4
  <2>2. Shape(kind, Freed(new, p[1]), Cut(p, 1)) /\ SameData(nodes, Freed(new, p[1]), Places(p) \ {p[1]})
    BY <1>1, <1>2, <2>1, Removed
  <2> QED
    BY <2>1, <2>2
<1>6. PICK q : q = Cut(p, 1)
  OBVIOUS
<1>7. FirstOf(q) = Next1(p, 1) /\ LastOf(q) = (IF 1 = Len(p) THEN NULL ELSE LastOf(p)) /\ Len(q) = Len(p) - 1
  BY <1>1, <1>2, <1>6, CutEnds, CutIs DEF Before, CutOff
<1>8. first' = FirstOf(q) /\ len' = Len(q) /\ last' = IF kind = "bidi" THEN LastOf(q) ELSE NULL
  <2>1. nodes[first].next = Next1(p, 1)
    BY <1>2, <1>3 DEF Beside
  <2> QED
    BY <1>1, <1>7, <2>1
<1>9. Sits(q)'
  BY <1>1, <1>5, <1>6, <1>8, Returned
<1> QED
  BY <1>2, <1>5, <1>6, <1>9 DEF Loses

LEMMA RemoveLastStep ==
  ASSUME NEW p, Rests(p), NEW s, Return(TRUE, 0, s), kind' = kind, len # 0,
         kind = "bidi", nodes' = Freed(remove_at(nodes, last), last),
         last' = nodes[last].prev, first' = IF len = 1 THEN NULL ELSE first, len' = len - 1
  PROVE  Len(p) \in 1 .. Len(p) /\ last = p[Len(p)] /\ Loses(p, Len(p))
<1>1. Shape(kind, nodes, p) /\ first = FirstOf(p) /\ kind \in Kinds /\ p \in Seq(Cell) /\ Distinct(p)
      /\ len = Len(p) /\ Len(p) \in Nat /\ (p = <<>> <=> Len(p) = 0)
      /\ last = LastOf(p)
  BY DEF Rests
<1> DEFINE l == Len(p)
<1>2. l \in 1 .. l /\ p # <<>> /\ last = p[l]
  BY <1>1 DEF LastOf
<1> HIDE DEF l
<1>3. Beside(kind, nodes, p, l)
  BY <1>1, <1>2, Neighbours DEF l
<1>4. Bypassed(kind, nodes, p, l, remove_at(nodes, p[l]))
  BY <1>1, <1>2, BypassedIs DEF l
<1>5. Shape(kind, nodes', Cut(p, l)) /\ SameData(nodes, nodes', Places(p) \ {p[l]})
  BY <1>1, <1>2, <1>4, Removed DEF l
<1>6. PICK q : q = Cut(p, l)
  OBVIOUS
<1>7. FirstOf(q) = (IF l = 1 THEN Next1(p, l) ELSE FirstOf(p)) /\ LastOf(q) = Before(p, l) /\ Len(q) = l - 1
  BY <1>1, <1>2, <1>6, CutEnds, CutIs DEF CutOff, l
<1>8. first' = FirstOf(q) /\ len' = Len(q) /\ last' = IF kind = "bidi" THEN LastOf(q) ELSE NULL
  <2>1. nodes[last].prev = Before(p, l)
    BY <1>2, <1>3 DEF Beside
  <2>2. l = 1 => Next1(p, l) = NULL
    BY <1>1 DEF Next1, l
  <2> QED
    BY <1>1, <1>7, <2>1, <2>2 DEF l
<1>9. Sits(q)'
  BY <1>1, <1>5, <1>6, <1>8, Returned
<1> QED
  BY <1>2, <1>5, <1>6, <1>9 DEF Loses, l

(* The loop of a removal behind the jth node.                              *)
Looping(p, j) ==
  /\ kind \in Kinds /\ Shape(kind, nodes, p) /\ first = FirstOf(p)
  /\ last = IF kind = "bidi" THEN LastOf(p) ELSE NULL
  /\ len = Len(p) + rem_count /\ len <= MaxLen /\ rem_count \in Nat
  /\ pc = "remove" /\ ret = Pending /\ op \in {"remove_match", "remove_if"}
  /\ j \in 0 .. Len(p) /\ entry = At(p, j) /\ \A i \in 1 .. j : nodes[p[i]].data \notin arg.drop

LEMMA LoopIs ==
  ASSUME NEW p, Sits(p), pc = "remove"
  PROVE  \E j \in 0 .. Len(p) : Looping(p, j)
<1>1. kind \in {"bidi", "forward"}
  BY KindsAssumption DEF Sits
<1>2. PICK j \in 0 .. Len(p) : entry = At(p, j) /\ \A i \in 1 .. j : nodes[p[i]].data \notin arg.drop
  BY DEF Sits, Loop
<1>3. last = IF kind = "bidi" THEN LastOf(p) ELSE NULL
  BY <1>1 DEF Sits
<1> QED
  BY <1>2, <1>3 DEF Sits, Looping, Loop

LEMMA LoopingSits ==
  ASSUME NEW p, NEW j
  PROVE  Looping(p, j) => Sits(p)
<1> SUFFICES ASSUME Looping(p, j) PROVE Sits(p)
  OBVIOUS
<1>1. p \in Seq(Cell)
  BY DEF Looping, Shape
<1>2. LastOf(p) \in Places(p) \cup {NULL}
  BY <1>1, PlacesIs DEF LastOf
<1>3. Loop(p)
  BY DEF Loop, Looping
<1> QED
  BY <1>2, <1>3 DEF Sits, Looping

LEMMA LoopingSitsNext ==
  ASSUME NEW p, NEW j
  PROVE  Looping(p, j)' => Sits(p)'
<1>1. Looping(p, j) => Sits(p)
  BY LoopingSits
<1> QED
  BY <1>1, PTL

LEMMA CurrentIs ==
  ASSUME NEW p, NEW j, Looping(p, j)
  PROVE  /\ p \in Seq(Cell) /\ Distinct(p) /\ Len(p) \in Nat /\ j \in 0 .. Len(p) /\ kind \in {"bidi", "forward"}
         /\ current = NULL <=> j = Len(p)
         /\ j # Len(p) => j + 1 \in 1 .. Len(p) /\ current = p[j + 1] /\ current \in Cell
         /\ entry = NULL <=> j = 0
         /\ entry = Before(p, j + 1)
<1>0. kind \in {"bidi", "forward"}
  BY KindsAssumption DEF Looping
<1>1. p \in Seq(Cell) /\ Distinct(p) /\ Shape(kind, nodes, p) /\ j \in 0 .. Len(p)
  BY DEF Looping, Shape
<1>2. Len(p) \in Nat /\ (p = <<>> <=> Len(p) = 0) /\ \A i \in 1 .. Len(p) : p[i] \in Cell
  BY <1>1, PlacesIs
<1>3. \A i \in 1 .. Len(p) : nodes[p[i]].next = Next1(p, i)
  BY <1>1, ShapeType
<1>4. entry = At(p, j) /\ first = FirstOf(p)
  BY DEF Looping
<1>5. entry = NULL <=> j = 0
  BY <1>1, <1>2, <1>4, NullAssumption DEF At
<1>6. entry = Before(p, j + 1)
  BY <1>1, <1>2, <1>4 DEF At, Before
<1>7. current = IF j = Len(p) THEN NULL ELSE p[j + 1]
  <2>1. CASE j = 0
    BY <1>2, <1>4, <1>5, <2>1 DEF current, FirstOf
  <2>2. CASE j # 0
    <3>1. j \in 1 .. Len(p)
      BY <1>1, <1>2, <2>2
    <3>2. current = nodes[p[j]].next
      BY <1>4, <1>5, <2>2 DEF current, At
    <3> QED
      BY <1>1, <1>2, <1>3, <3>1, <3>2 DEF Next1
  <2> QED
    BY <2>1, <2>2
<1>8. j # Len(p) => j + 1 \in 1 .. Len(p)
  BY <1>1, <1>2
<1>9. j # Len(p) => p[j + 1] \in Cell
  BY <1>2, <1>8
<1> QED
  BY <1>0, <1>1, <1>2, <1>5, <1>6, <1>7, <1>8, <1>9, NullAssumption

LEMMA StartRemoveStep ==
  ASSUME NEW p, Rests(p), NEW x, StartRemove(x)
  PROVE  Looping(p, 0)' /\ nodes' = nodes
<1>1. kind' = kind /\ nodes' = nodes /\ first' = first /\ last' = last /\ len' = len
  BY DEF StartRemove, Called, list
<1>2. op' \in {"remove_match", "remove_if"}
  BY DEF StartRemove, Called
<1>3. pc' = "remove" /\ ret' = Pending /\ entry' = NULL /\ rem_count' = 0
  BY DEF StartRemove
<1>4. len = Len(p) + 0 /\ len <= MaxLen /\ 0 \in 0 .. Len(p) /\ At(p, 0) = NULL
  BY DEF Rests, At
<1> QED
  BY <1>1, <1>2, <1>3, <1>4 DEF Looping, Rests

LEMMA KeepStep ==
  ASSUME NEW p, NEW j, Looping(p, j), Keep
  PROVE  Looping(p, j + 1)' /\ nodes' = nodes /\ j # Len(p)
<1>1. kind' = kind /\ nodes' = nodes /\ first' = first /\ last' = last /\ len' = len
      /\ pc' = pc /\ op' = op /\ arg' = arg /\ ret' = ret /\ rem_count' = rem_count /\ entry' = current
      /\ current # NULL /\ nodes[current].data \notin arg.drop
  BY DEF Keep, list, InLoop, NextEntry, Matches
<1>2. Len(p) \in Nat /\ j \in 0 .. Len(p) /\ j # Len(p) /\ current = p[j + 1]
  BY <1>1, CurrentIs
<1>3. j + 1 \in 0 .. Len(p) /\ current = At(p, j + 1)
  BY <1>2 DEF At
<1>4. \A i \in 1 .. j + 1 : nodes[p[i]].data \notin arg.drop
  <2> SUFFICES ASSUME NEW i \in 1 .. j + 1 PROVE nodes[p[i]].data \notin arg.drop
    OBVIOUS
  <2>1. i = j + 1 \/ i \in 1 .. j
    BY <1>2
  <2> QED
    BY <1>1, <1>2, <2>1 DEF Looping
<1> QED
  BY <1>1, <1>2, <1>3, <1>4 DEF Looping

LEMMA DropStep ==
  ASSUME NEW p, NEW j, Looping(p, j), (kind = "bidi" /\ DropBidi) \/ (kind = "forward" /\ DropForward)
  PROVE  /\ j + 1 \in 1 .. Len(p) /\ current = p[j + 1] /\ nodes[p[j + 1]].data \in arg.drop
         /\ Looping(Cut(p, j + 1), j)' /\ SameData(nodes, nodes', Places(p) \ {p[j + 1]})
<1>1. kind' = kind /\ len' = len /\ pc' = pc /\ op' = op /\ arg' = arg /\ ret' = ret /\ entry' = entry
      /\ rem_count' = rem_count + 1 /\ current # NULL /\ nodes[current].data \in arg.drop
      /\ first' = IF entry = NULL THEN nodes[current].next ELSE first
  BY DEF DropBidi, DropForward, Drop, InLoop, Matches
<1>2. PICK k : k = j + 1
  OBVIOUS
<1>3. p \in Seq(Cell) /\ Distinct(p) /\ Shape(kind, nodes, p) /\ Len(p) \in Nat /\ j \in 0 .. Len(p) /\ j # Len(p)
      /\ k \in 1 .. Len(p) /\ current = p[k] /\ entry = Before(p, k) /\ (entry = NULL <=> j = 0)
  BY <1>1, <1>2, CurrentIs DEF Looping
<1>4. Beside(kind, nodes, p, k)
  BY <1>3, Neighbours
<1>5. nodes[current].next = Next1(p, k) /\ (kind = "bidi" => nodes[current].prev = Before(p, k))
  BY <1>3, <1>4 DEF Beside
<1>6. \E new : Bypassed(kind, nodes, p, k, new) /\ nodes' = Freed(new, p[k])
  <2>1. CASE kind = "bidi" /\ DropBidi
    <3> DEFINE new == SetLink(remove_at(nodes, p[k]), Before(p, k), "next", Next1(p, k))
    <3>1. nodes' = Freed(new, p[k])
      BY <1>3, <1>5, <2>1 DEF DropBidi, Drop
    <3>2. Bypassed(kind, nodes, p, k, new)
      BY <1>3, <2>1, BypassedIs
    <3> QED
      BY <3>1, <3>2
  <2>2. CASE kind = "forward" /\ DropForward
    <3> DEFINE new == SetLink(nodes, Before(p, k), "next", Next1(p, k))
    <3>1. nodes' = Freed(new, p[k])
      BY <1>3, <1>5, <2>2 DEF DropForward, Drop
    <3>2. Bypassed(kind, nodes, p, k, new)
      BY <1>3, <2>2, BypassedIs
    <3> QED
      BY <3>1, <3>2
  <2> QED
    BY <2>1, <2>2
<1>7. Shape(kind, nodes', Cut(p, k)) /\ SameData(nodes, nodes', Places(p) \ {p[k]})
  <2>1. PICK new, ms : Bypassed(kind, nodes, p, k, new) /\ ms = nodes' /\ ms = Freed(new, p[k])
    BY <1>6
  <2>2. Shape(kind, Freed(new, p[k]), Cut(p, k)) /\ SameData(nodes, Freed(new, p[k]), Places(p) \ {p[k]})
    BY <1>3, <2>1, Removed
  <2> QED
    BY <2>1, <2>2
<1>8. PICK q : q = Cut(p, k)
  OBVIOUS
<1>9. /\ FirstOf(q) = IF k = 1 THEN Next1(p, k) ELSE FirstOf(p)
      /\ LastOf(q) = IF k = Len(p) THEN Before(p, k) ELSE LastOf(p)
      /\ CutOff(p, k, q)
  BY <1>3, <1>8, CutEnds, CutIs
<1>10. Len(q) = Len(p) - 1 /\ j \in 0 .. Len(q) /\ \A i \in 1 .. j : q[i] = p[i] /\ p[i] \in Places(p) \ {p[k]}
  <2>1. Len(q) = Len(p) - 1
    BY <1>9 DEF CutOff
  <2>2. \A i \in 1 .. j : i \in 1 .. Len(p) - 1 /\ i < k /\ i \in 1 .. Len(p) /\ i # k
    BY <1>2, <1>3
  <2>3. \A i \in 1 .. j : q[i] = p[i]
    BY <1>9, <2>2 DEF CutOff
  <2>4. \A i \in 1 .. j : p[i] \in Places(p) \ {p[k]}
    BY <1>3, <2>2 DEF Places, Distinct
  <2> QED
    BY <1>2, <1>3, <2>1, <2>3, <2>4
<1>11. first' = FirstOf(q)
  <2>1. j = 0 <=> k = 1
    BY <1>2, <1>3
  <2> QED
    BY <1>1, <1>3, <1>5, <1>9, <2>1 DEF Looping
<1>12. last' = IF kind = "bidi" THEN LastOf(q) ELSE NULL
  <2>1. CASE kind = "bidi" /\ DropBidi
    <3>1. last = p[Len(p)]
      BY <1>3, <2>1, PlacesIs DEF Looping, LastOf
    <3>2. current = last <=> k = Len(p)
      BY <1>3, <3>1 DEF Distinct
    <3>3. last = LastOf(p)
      BY <2>1 DEF Looping
    <3> QED
      BY <1>5, <1>9, <2>1, <3>2, <3>3 DEF DropBidi, LastAfterDrop
  <2>2. CASE kind = "forward" /\ DropForward
    BY <2>2 DEF DropForward, Looping
  <2> QED
    BY <2>1, <2>2
<1>13. At(q, j) = At(p, j)
  BY <1>3, <1>10 DEF At
<1>14. \A i \in 1 .. j : nodes'[q[i]].data \notin arg.drop
  BY <1>7, <1>10 DEF SameData, Looping
<1>15. len = Len(q) + (rem_count + 1) /\ rem_count + 1 \in Nat
  BY <1>3, <1>10 DEF Looping
<1>16. Looping(q, j)'
  BY <1>1, <1>7, <1>8, <1>10, <1>11, <1>12, <1>13, <1>14, <1>15 DEF Looping
<1> QED
  BY <1>1, <1>2, <1>3, <1>7, <1>8, <1>16

LEMMA EndRemoveStep ==
  ASSUME NEW p, NEW j, Looping(p, j), EndRemove
  PROVE  /\ Sits(p)' /\ nodes' = nodes /\ len' = Len(p) /\ ret' = Reply(TRUE, rem_count, <<>>)
         /\ \A i \in 1 .. Len(p) : nodes[p[i]].data \notin arg.drop
<1>1. kind' = kind /\ nodes' = nodes /\ first' = first /\ last' = last /\ current = NULL
      /\ len' = len - rem_count /\ Return(TRUE, rem_count, <<>>)
  BY DEF EndRemove
<1>2. j = Len(p) /\ Len(p) \in Nat
  BY <1>1, CurrentIs
<1>3. len' = Len(p)
  BY <1>1, <1>2 DEF Looping
<1>4. kind \in Kinds /\ Shape(kind, nodes', p) /\ first' = FirstOf(p)
      /\ last' = IF kind = "bidi" THEN LastOf(p) ELSE NULL
  BY <1>1 DEF Looping
<1>5. Sits(p)'
  BY <1>1, <1>3, <1>4, Returned
<1> QED
  BY <1>1, <1>2, <1>3, <1>5 DEF Looping, Return

Rearranges(p, q) == Sits(q)' /\ Places(q) = Places(p) /\ SameData(nodes, nodes', Places(p))

LEMMA ReverseStep ==
  ASSUME NEW p, Rests(p), list_reverse \/ fwdlist_reverse
  PROVE  Rearranges(p, Reverse(p))
<1>1. Shape(kind, nodes, p) /\ first = FirstOf(p) /\ kind \in Kinds /\ p \in Seq(Cell) /\ Distinct(p)
      /\ len = Len(p) /\ Len(p) \in Nat /\ last = (IF kind = "bidi" THEN LastOf(p) ELSE NULL)
  BY DEF Rests
<1>2. PICK q : q = Reverse(p)
  OBVIOUS
<1>3. Turned(p, q)
  BY <1>1, <1>2, TurnedIs
<1>4. len' = len /\ kind' = kind /\ Return(TRUE, 0, <<>>)
  BY DEF list_reverse, fwdlist_reverse, Called
<1>5. CASE list_reverse
  <2>1. kind = "bidi" /\ first' = last /\ last' = first /\ nodes' = BidiReversed(nodes, first)
    BY <1>5 DEF list_reverse, Called, BidiReversed
  <2>2. Shape("bidi", BidiReversed(nodes, FirstOf(p)), q) /\ SameData(nodes, BidiReversed(nodes, FirstOf(p)), Places(p))
    BY <1>1, <1>2, <2>1, BidiReversedIs
  <2>3. Shape(kind, nodes', q) /\ SameData(nodes, nodes', Places(p))
    BY <1>1, <2>1, <2>2
  <2>4. first' = FirstOf(q) /\ len' = Len(q) /\ last' = IF kind = "bidi" THEN LastOf(q) ELSE NULL
    BY <1>1, <1>3, <1>4, <2>1 DEF Turned
  <2>5. Sits(q)'
    BY <1>1, <1>4, <2>3, <2>4, Returned
  <2> QED
    BY <1>2, <1>3, <2>3, <2>5 DEF Rearranges, Turned
<1>6. CASE fwdlist_reverse
  <2>1. kind = "forward" /\ last' = last /\ nodes' = ForwardReversed(nodes, first)
        /\ first' = IF Chain(nodes, first, "next") = <<>> THEN NULL ELSE Last(Chain(nodes, first, "next"))
    BY <1>6 DEF fwdlist_reverse, Called, ForwardReversed
  <2>2. Shape("forward", ForwardReversed(nodes, FirstOf(p)), q)
        /\ SameData(nodes, ForwardReversed(nodes, FirstOf(p)), Places(p))
    BY <1>1, <1>2, <2>1, ForwardReversedIs
  <2>3. Shape(kind, nodes', q) /\ SameData(nodes, nodes', Places(p))
    BY <1>1, <2>1, <2>2
  <2>4. Chain(nodes, first, "next") = p
    BY <1>1, ShapeChain
  <2>5. first' = LastOf(p)
    BY <2>1, <2>4 DEF LastOf, Last
  <2>6. first' = FirstOf(q) /\ len' = Len(q) /\ last' = IF kind = "bidi" THEN LastOf(q) ELSE NULL
    BY <1>1, <1>3, <1>4, <2>1, <2>5 DEF Turned
  <2>7. Sits(q)'
    BY <1>1, <1>4, <2>3, <2>6, Returned
  <2> QED
    BY <1>2, <1>3, <2>3, <2>7 DEF Rearranges, Turned
<1> QED
  BY <1>5, <1>6

(* Where list_sort finds the last node.                                    *)
LEMMA FromThird ==
  ASSUME NEW x, NEW ns, NEW r, Shape(x, ns, r), Len(r) > 1
  PROVE  LET third == ns[ns[FirstOf(r)].next].next
         IN  /\ third = NULL <=> Len(r) = 2
             /\ third # NULL => Last(Chain(ns, third, "next")) = LastOf(r)
<1>1. r \in Seq(Cell) /\ Distinct(r)
  BY DEF Shape
<1>2. PICK l : l = Len(r) /\ l \in Nat /\ l > 1
  BY <1>1, PlacesIs
<1>3. DOMAIN ns = Places(r) /\ Linked(ns, "next") /\ \A i \in 1 .. l : ns[r[i]].next = Next1(r, i)
  BY <1>2, ShapeType
<1>4. NULL \notin Places(r) /\ IsFiniteSet(Places(r)) /\ r # <<>> /\ \A i \in 1 .. l : r[i] \in Places(r)
  BY <1>1, <1>2, PlacesIs
<1>5. FirstOf(r) = r[1] /\ 1 \in 1 .. l /\ 2 \in 1 .. l /\ Next1(r, 1) = r[2]
  BY <1>2, <1>4 DEF FirstOf, Next1
<1>6. ns[ns[FirstOf(r)].next].next = Next1(r, 2)
  BY <1>3, <1>5
<1>7. Next1(r, 2) = NULL <=> l = 2
  BY <1>2, <1>4 DEF Next1
<1>8. ASSUME l # 2 PROVE Last(Chain(ns, Next1(r, 2), "next")) = LastOf(r)
  <2>1. PICK d : d = l - 2 /\ d \in 1 .. l /\ d > 0 /\ d \in Nat
    BY <1>2, <1>8
  <2>2. PICK q : q = [j \in 1 .. d |-> r[j + 2]]
    OBVIOUS
  <2>3. q \in Seq(Places(r)) /\ Len(q) = d /\ \A j \in 1 .. d : q[j] = r[j + 2] /\ j + 2 \in 1 .. l
    <3>1. \A j \in 1 .. d : j + 2 \in 1 .. l
      BY <1>2, <2>1
    <3> QED
      BY <1>4, <2>1, <2>2, <3>1
  <2>4. Next1(r, 2) = q[1] /\ q # <<>>
    BY <1>2, <1>8, <2>1, <2>3 DEF Next1
  <2>5. \A i, j \in 1 .. d : q[i] = q[j] => i = j
    <3> SUFFICES ASSUME NEW i \in 1 .. d, NEW j \in 1 .. d, q[i] = q[j] PROVE i = j
      OBVIOUS
    <3>1. r[i + 2] = r[j + 2] /\ i + 2 \in 1 .. l /\ j + 2 \in 1 .. l
      BY <2>3
    <3>2. i + 2 = j + 2
      BY ONLY <1>1, <1>2, <3>1 DEF Distinct
    <3> QED
      BY <3>2
  <2>6. \A i \in 1 .. d : ns[q[i]].next = IF i = d THEN NULL ELSE q[i + 1]
    <3> SUFFICES ASSUME NEW i \in 1 .. d PROVE ns[q[i]].next = IF i = d THEN NULL ELSE q[i + 1]
      OBVIOUS
    <3>1. ns[q[i]].next = Next1(r, i + 2) /\ i + 2 \in 1 .. l
      BY <1>3, <2>3
    <3>2. CASE i = d
      BY <1>2, <2>1, <3>1, <3>2 DEF Next1
    <3>3. CASE i # d
      <4>1. i + 1 \in 1 .. d /\ i + 2 < l
        BY <2>1, <3>3, <1>2
      <4>2. q[i + 1] = r[(i + 1) + 2] /\ (i + 1) + 2 = (i + 2) + 1
        BY <2>3, <4>1
      <4> QED
        BY <1>2, <3>1, <3>3, <4>1, <4>2 DEF Next1
    <3> QED
      BY <3>2, <3>3
  <2>7. Path(ns, Next1(r, 2), "next", q)
    BY <1>3, <2>3, <2>4, <2>5, <2>6 DEF Path
  <2>8. Chain(ns, Next1(r, 2), "next") = q
    BY <1>3, <1>4, <2>7, PathChain
  <2>9. q[d] = r[l]
    BY <1>2, <2>1, <2>3
  <2> QED
    BY <1>2, <1>4, <2>3, <2>8, <2>9 DEF Last, LastOf
<1> QED
  BY <1>2, <1>6, <1>7, <1>8

LEMMA SortStepIs ==
  ASSUME NEW p, Rests(p), list_sort \/ fwdlist_sort, len > 1, NEW R,
         Transitive(Places(p), R), Follows(nodes, R, p)
  PROVE  \E r : Rearranges(p, r) /\ Len(r) = Len(p) /\ Rising(R, r)
<1>1. Shape(kind, nodes, p) /\ first = FirstOf(p) /\ kind \in Kinds /\ p \in Seq(Cell) /\ Distinct(p)
      /\ len = Len(p) /\ Len(p) \in Nat /\ last = (IF kind = "bidi" THEN LastOf(p) ELSE NULL)
      /\ kind \in {"bidi", "forward"} /\ rem_count = 0 /\ entry = NULL /\ Len(p) <= MaxLen /\ Len(p) > 1
  BY DEF Rests
<1>2. PICK r : SortedList(R, nodes, p, sort_helper(nodes, FirstOf(p)), r)
  BY <1>1, ListSorted
<1>3. PICK m : m = sort_helper(nodes, first)
  OBVIOUS
<1>4. Shape(kind, m.nodes, r) /\ m.head = FirstOf(r) /\ Places(r) = Places(p) /\ Len(r) = Len(p)
      /\ SameData(nodes, m.nodes, Places(p)) /\ Rising(R, r)
  BY <1>1, <1>2, <1>3 DEF SortedList
<1>5. nodes' = m.nodes /\ first' = m.head /\ len' = len /\ kind' = kind
  <2>1. ~(len <= 1)
    BY <1>1
  <2> QED
    BY <2>1, <1>3 DEF list_sort, fwdlist_sort, Called
<1>6. CASE Return(TRUE, 0, <<>>) /\ last' = IF kind = "bidi" THEN LastOf(r) ELSE NULL
  <2>1. Sits(r)'
    BY <1>1, <1>4, <1>5, <1>6, Returned
  <2> QED
    BY <1>4, <1>5, <2>1 DEF Rearranges
<1>7. CASE kind = "bidi" /\ pc' = "crashed" /\ ret' = Pending /\ last' = last /\ entry' = entry /\ rem_count' = rem_count
  <2>1. last' \in Places(r) \cup {NULL}
    BY <1>1, <1>4, <1>7, PlacesIs DEF LastOf
  <2>2. Loop(r)'
    BY <1>1, <1>7 DEF Loop, Pending
  <2>3. Sits(r)'
    BY <1>1, <1>4, <1>5, <1>7, <2>1, <2>2, MaxLenAssumption DEF Sits
  <2> QED
    BY <1>4, <1>5, <2>3 DEF Rearranges
<1>8. CASE list_sort
  <2> DEFINE third == m.nodes[m.nodes[m.head].next].next
  <2>1. kind = "bidi"
    BY <1>8 DEF list_sort, Called
  <2>2. \/ third # NULL /\ last' = Last(Chain(m.nodes, third, "next")) /\ Return(TRUE, 0, <<>>)
        \/ third = NULL /\ pc' = "crashed" /\ ret' = Pending /\ last' = last /\ entry' = entry /\ rem_count' = rem_count
    <3>1. ~(len <= 1)
      BY <1>1
    <3> QED
      BY <3>1, <1>3, <1>8 DEF list_sort, loop
  <2>3. third # NULL => Last(Chain(m.nodes, third, "next")) = LastOf(r)
    BY <1>1, <1>4, FromThird
  <2> QED
    BY <1>6, <1>7, <2>1, <2>2, <2>3
<1>9. CASE fwdlist_sort
  <2>1. kind = "forward" /\ last' = last /\ Return(TRUE, 0, <<>>)
    <3>1. ~(len <= 1)
      BY <1>1
    <3> QED
      BY <3>1, <1>9 DEF fwdlist_sort, Called
  <2> QED
    BY <1>1, <1>6, <2>1
<1> QED
  BY <1>8, <1>9

LEMMA ClearStep ==
  ASSUME NEW p, Rests(p), Clear, kind' = kind, len > 0
  PROVE  Sits(<<>>)'
<1>1. nodes' = free_subsequent_nodes(nodes, first) /\ len' = 0 /\ first' = NULL /\ last' = NULL
      /\ Return(TRUE, 0, <<>>)
  <2>1. len # 0
    BY DEF Rests
  <2> QED
    BY <2>1 DEF Clear
<1>2. Chain(nodes, first, "next") = p /\ p \in Seq(Cell)
  BY ShapeChain DEF Rests
<1>3. DOMAIN nodes \ ToSet(p) = {}
  BY <1>2, SequenceSet DEF Rests
<1>4. nodes' = [m \in {} |-> nodes[m]]
  BY <1>1, <1>2, <1>3 DEF free_subsequent_nodes, Restrict
<1>5. <<>> \in Seq(Cell) /\ Len(<<>>) = 0
  OBVIOUS
<1>6. Places(<<>>) = {}
  BY <1>5, PlacesIs DEF Places
<1>7. Shape(kind, nodes', <<>>)
  BY <1>4, <1>5, <1>6 DEF Shape, Distinct
<1> QED
  BY <1>1, <1>5, <1>7, Returned DEF Rests, FirstOf, LastOf

-------------------------------------------------------------------------------
(* Every step.                                                             *)

(* What NodesStay says of a step.                                          *)
NodeKept(n) ==
  \/ n \in DOMAIN nodes' /\ nodes'[n].data = nodes[n].data
  \/ op' = "clear"
  \/ op' = "remove_first" /\ n = first
  \/ op' = "remove_last" /\ n = last
  \/ op' \in {"remove_match", "remove_if"} /\ nodes[n].data \in arg'.drop
NodesKept == \A n \in DOMAIN nodes : NodeKept(n)

Seated(p) == DOMAIN nodes = Places(p) /\ p \in Seq(Cell) /\ Distinct(p)

LEMMA SitsPlaces ==
  ASSUME NEW p
  PROVE  Sits(p) => Seated(p)
<1> SUFFICES ASSUME Sits(p) PROVE Seated(p)
  OBVIOUS
<1>1. Shape(kind, nodes, p)
  BY DEF Sits
<1> QED
  BY <1>1, ShapeType DEF Shape, Seated

LEMMA SitsPlacesNext ==
  ASSUME NEW p
  PROVE  Sits(p)' => Seated(p)'
<1>1. Sits(p) => Seated(p)
  BY SitsPlaces
<1> QED
  BY <1>1, PTL

(* Nothing but the nodes outside S may go.                                 *)
LEMMA NodesGoOn ==
  ASSUME NEW p, NEW q, NEW S, Sits(p), Sits(q)', S \subseteq Places(q), SameData(nodes, nodes', S),
         \A n \in Places(p) \ S : NodeKept(n)
  PROVE  NodesKept
<1>1. DOMAIN nodes = Places(p) /\ DOMAIN nodes' = Places(q)
  BY SitsPlaces, SitsPlacesNext DEF Seated
<1> QED
  BY <1>1 DEF NodesKept, SameData, NodeKept

LEMMA GrowsStep ==
  ASSUME NEW p, NEW e, Sits(p), GrowsInFront(p, e) \/ GrowsBehind(p, e)
  PROVE  LInv' /\ NodesKept
<1>1. p \in Seq(Cell) /\ Distinct(p)
  BY SitsPlaces DEF Seated
<1>2. PICK c, q :
        /\ c \in Cell \ Places(p)
        /\ q = <<c>> \o p \/ q = Append(p, c)
        /\ Sits(q)' /\ SameData(nodes, nodes', Places(p))
  BY DEF GrowsInFront, GrowsBehind
<1>3. Places(q) = Places(p) \cup {c}
  <2>1. GrownInFront(p, c, <<c>> \o p) /\ GrownBehind(p, c, Append(p, c))
    BY <1>1, <1>2, PlacesWith
  <2> QED
    BY <1>2, <2>1 DEF GrownInFront, GrownBehind, Grown
<1>4. NodesKept
  BY <1>2, <1>3, NodesGoOn
<1> QED
  BY <1>2, <1>4 DEF LInv

LEMMA LosesStep ==
  ASSUME NEW p, NEW j, Sits(p), j \in 1 .. Len(p), NEW q, q = Cut(p, j), Sits(q)',
         SameData(nodes, nodes', Places(p) \ {p[j]}), NodeKept(p[j])
  PROVE  LInv' /\ NodesKept
<1>1. p \in Seq(Cell) /\ Distinct(p)
  BY SitsPlaces DEF Seated
<1>2. Places(q) = Places(p) \ {p[j]}
  BY <1>1, CutIs DEF CutOff
<1>3. NodesKept
  BY <1>2, NodesGoOn
<1> QED
  BY <1>3 DEF LInv

LEMMA RearrangesStep ==
  ASSUME NEW p, NEW q, Sits(p), Rearranges(p, q)
  PROVE  LInv' /\ NodesKept
<1>1. NodesKept
  BY NodesGoOn DEF Rearranges
<1> QED
  BY <1>1 DEF Rearranges, LInv

LEMMA SameStep ==
  ASSUME NEW p, Sits(p)', nodes' = nodes
  PROVE  LInv' /\ NodesKept
BY DEF LInv, NodesKept, NodeKept

(* A call that adds or removes at an end.                                  *)
LEMMA EndsStep ==
  ASSUME NEW p, Sits(p),
         \/ list_add_first \/ list_add_last \/ fwdlist_add_first
         \/ list_remove_first \/ list_remove_last \/ fwdlist_remove_first
  PROVE  LInv' /\ NodesKept
<1>1. pc = "idle" /\ kind' = kind
  BY DEF list_add_first, list_add_last, fwdlist_add_first, list_remove_first, list_remove_last,
         fwdlist_remove_first, Called
<1>2. Rests(p)
  BY <1>1, RestsIs
<1>3. ASSUME NEW b, NEW n, NEW s, Unchanged(b, n, s) PROVE LInv' /\ NodesKept
  BY <1>1, <1>2, <1>3, UnchangedStep, SameStep DEF Unchanged, list
<1>4. CASE list_add_first \/ fwdlist_add_first
  <2>1. PICK e \in Elems :
           \/ Unchanged(FALSE, 0, <<>>)
           \/ /\ HasMemory /\ Return(TRUE, 0, <<>>) /\ first' = new_ent /\ len' = len + 1
              /\ \/ /\ kind = "bidi" /\ nodes' = insert_before(WithNew(e), first, new_ent)
                    /\ last' = IF len = 0 THEN new_ent ELSE last
                 \/ kind = "forward" /\ nodes' = SetLink(WithNew(e), new_ent, "next", first) /\ last' = last
    BY <1>4 DEF list_add_first, fwdlist_add_first, Called
  <2> QED
    BY <1>1, <1>2, <1>3, <2>1, AddFirstStep, GrowsStep
<1>5. CASE list_add_last
  <2>1. PICK e \in Elems :
           \/ Unchanged(FALSE, 0, <<>>)
           \/ /\ HasMemory /\ Return(TRUE, 0, <<>>) /\ last' = new_ent /\ len' = len + 1
              /\ kind = "bidi" /\ nodes' = insert_after(WithNew(e), last, new_ent)
              /\ first' = IF len = 0 THEN new_ent ELSE first
    BY <1>5 DEF list_add_last, Called
  <2> QED
    BY <1>1, <1>2, <1>3, <2>1, AddLastStep, GrowsStep
<1>6. CASE list_remove_first \/ fwdlist_remove_first
  <2>0. op' = "remove_first"
    BY <1>6 DEF list_remove_first, fwdlist_remove_first, list_remove_last, Called
  <2>1. \/ Unchanged(FALSE, 0, <<>>)
        \/ /\ len # 0 /\ first' = nodes[first].next /\ len' = len - 1
           /\ \E s : Return(TRUE, 0, s)
           /\ \/ /\ kind = "bidi" /\ nodes' = Freed(remove_at(nodes, first), first)
                 /\ last' = IF len = 1 THEN NULL ELSE last
              \/ kind = "forward" /\ nodes' = Freed(nodes, first) /\ last' = last
    BY <1>6 DEF list_remove_first, fwdlist_remove_first, Called
  <2>2. CASE Unchanged(FALSE, 0, <<>>)
    BY <1>3, <2>2
  <2>3. CASE ~Unchanged(FALSE, 0, <<>>)
    <3>1. 1 \in 1 .. Len(p) /\ first = p[1] /\ Loses(p, 1)
      BY <1>1, <1>2, <2>1, <2>3, RemoveFirstStep
    <3>2. NodeKept(p[1])
      <4>1. op' = "remove_first"
        BY <2>0
      <4> QED
        BY ONLY <3>1, <4>1 DEF NodeKept
    <3>3. PICK q : q = Cut(p, 1) /\ Sits(q)'
      BY <3>1 DEF Loses
    <3> QED
      BY <3>1, <3>2, <3>3, LosesStep DEF Loses
  <2> QED
    BY <2>2, <2>3
<1>7. CASE list_remove_last
  <2>0. op' = "remove_last"
    BY <1>7 DEF list_remove_first, fwdlist_remove_first, list_remove_last, Called
  <2>1. \/ Unchanged(FALSE, 0, <<>>)
        \/ /\ len # 0 /\ last' = nodes[last].prev /\ len' = len - 1
           /\ \E s : Return(TRUE, 0, s)
           /\ kind = "bidi" /\ nodes' = Freed(remove_at(nodes, last), last)
           /\ first' = IF len = 1 THEN NULL ELSE first
    BY <1>7 DEF list_remove_last, Called
  <2>2. CASE Unchanged(FALSE, 0, <<>>)
    BY <1>3, <2>2
  <2>3. CASE ~Unchanged(FALSE, 0, <<>>)
    <3>1. Len(p) \in 1 .. Len(p) /\ last = p[Len(p)] /\ Loses(p, Len(p))
      BY <1>1, <1>2, <2>1, <2>3, RemoveLastStep
    <3>2. NodeKept(p[Len(p)])
      <4>1. op' = "remove_last"
        BY <2>0
      <4> QED
        BY ONLY <3>1, <4>1 DEF NodeKept
    <3>3. PICK q : q = Cut(p, Len(p)) /\ Sits(q)'
      BY <3>1 DEF Loses
    <3> QED
      BY <3>1, <3>2, <3>3, LosesStep DEF Loses
  <2> QED
    BY <2>2, <2>3
<1> QED
  BY <1>4, <1>5, <1>6, <1>7

LEMMA LoopStep ==
  ASSUME NEW p, Sits(p), Removing
  PROVE  LInv' /\ NodesKept
<1>1. pc = "remove"
  BY DEF Removing, list_remove_match, list_remove_if, fwdlist_remove_match, fwdlist_remove_if,
         BidiLoop, ForwardLoop, Keep, DropBidi, DropForward, Drop, InLoop, EndRemove
<1>2. PICK j \in 0 .. Len(p) : Looping(p, j)
  BY <1>1, LoopIs
<1>3. Keep \/ EndRemove \/ ((kind = "bidi" /\ DropBidi) \/ (kind = "forward" /\ DropForward))
  BY DEF Removing, list_remove_match, list_remove_if, fwdlist_remove_match, fwdlist_remove_if,
         BidiLoop, ForwardLoop
<1>4. CASE Keep
  BY <1>2, <1>4, KeepStep, LoopingSitsNext, SameStep
<1>5. CASE EndRemove
  BY <1>2, <1>5, EndRemoveStep, SameStep
<1>6. CASE (kind = "bidi" /\ DropBidi) \/ (kind = "forward" /\ DropForward)
  <2>1. /\ j + 1 \in 1 .. Len(p) /\ nodes[p[j + 1]].data \in arg.drop
        /\ Looping(Cut(p, j + 1), j)' /\ SameData(nodes, nodes', Places(p) \ {p[j + 1]})
    BY <1>2, <1>6, DropStep
  <2>2. op' = op /\ arg' = arg
    BY <1>6 DEF DropBidi, DropForward, Drop
  <2>3. NodeKept(p[j + 1])
    BY <1>2, <2>1, <2>2 DEF NodeKept, Looping
  <2>4. PICK q, k : q = Cut(p, j + 1) /\ Looping(q, j)' /\ k = j + 1
    BY <2>1
  <2>5. Sits(q)'
    BY <2>4, LoopingSitsNext
  <2> QED
    BY <2>1, <2>3, <2>4, <2>5, LosesStep
<1> QED
  BY <1>3, <1>4, <1>5, <1>6

(* The calls that do the whole list.                                       *)
LEMMA WholeStep ==
  ASSUME NEW p, Sits(p),
         \/ StartRemove("bidi") \/ StartRemove("forward")
         \/ list_reverse \/ fwdlist_reverse \/ list_sort \/ fwdlist_sort
         \/ list_clear \/ fwdlist_clear
         \/ list_foreach \/ list_reveach \/ fwdlist_foreach
         \/ list_get \/ fwdlist_get
  PROVE  LInv' /\ NodesKept
<1>1. pc = "idle" /\ kind' = kind
  BY DEF StartRemove, list_reverse, fwdlist_reverse, list_sort, fwdlist_sort, list_clear, fwdlist_clear,
         list_foreach, list_reveach, fwdlist_foreach, Walk, list_get, fwdlist_get, Called
<1>2. Rests(p)
  BY <1>1, RestsIs
<1>3. ASSUME NEW b, NEW n, NEW s, Unchanged(b, n, s) PROVE LInv' /\ NodesKept
  BY <1>1, <1>2, <1>3, UnchangedStep, SameStep DEF Unchanged, list
<1>4. CASE StartRemove("bidi") \/ StartRemove("forward")
  BY <1>2, <1>4, StartRemoveStep, LoopingSitsNext, SameStep
<1>5. CASE list_reverse \/ fwdlist_reverse
  BY <1>2, <1>5, ReverseStep, RearrangesStep
<1>6. CASE list_sort \/ fwdlist_sort
  <2>1. CASE len > 1
    <3> DEFINE R == Places(p) \X Places(p)
    <3>1. Transitive(Places(p), R)
      BY DEF Transitive
    <3>2. Follows(nodes, R, p)
      BY DEF Follows, Places
    <3> HIDE DEF R
    <3> QED
      BY <1>2, <1>6, <2>1, <3>1, <3>2, SortStepIs, RearrangesStep
  <2>2. CASE ~(len > 1)
    BY <1>3, <1>6, <2>2 DEF list_sort, fwdlist_sort
  <2> QED
    BY <2>1, <2>2
<1>7. CASE list_clear \/ fwdlist_clear
  <2>1. Clear /\ op' = "clear"
    BY <1>7 DEF list_clear, fwdlist_clear, Called
  <2>2. NodesKept
    BY <2>1 DEF NodesKept, NodeKept
  <2>3. CASE len > 0
    BY <1>1, <1>2, <2>1, <2>2, <2>3, ClearStep DEF LInv
  <2>4. CASE ~(len > 0)
    BY <1>3, <2>1, <2>4 DEF Clear
  <2> QED
    BY <2>3, <2>4
<1>8. CASE list_foreach \/ list_reveach \/ fwdlist_foreach \/ list_get \/ fwdlist_get
  <2>1. \E b, n, s : Unchanged(b, n, s)
    BY <1>8 DEF list_foreach, list_reveach, fwdlist_foreach, Walk, list_get, fwdlist_get
  <2> QED
    BY <1>3, <2>1
<1> QED
  BY SMTT(30), <1>4, <1>5, <1>6, <1>7, <1>8

LEMMA StutterStep ==
  ASSUME NEW p, Sits(p), UNCHANGED vars
  PROVE  LInv' /\ NodesKept
<1>1. Sits(p)'
  BY DEF Sits, vars, list, loop, Loop
<1>2. nodes' = nodes
  BY DEF vars, list
<1> QED
  BY <1>1, <1>2, SameStep

LEMMA LStep ==
  ASSUME LInv, [Next]_vars
  PROVE  LInv' /\ NodesKept
<1>1. PICK p : Sits(p)
  BY DEF LInv
<1> QED
  BY <1>1, EndsStep, LoopStep, WholeStep, StutterStep DEF Next

(* Between any two steps the allocated nodes are one chain, linked both    *)
(* ways in a bidi list; a removal has passed only nodes that stay.         *)
THEOREM ListInvariant == Spec => []LInv
<1>1. Init => LInv
  BY StartsEmpty DEF LInv
<1>2. LInv /\ [Next]_vars => LInv'
  BY LStep
<1> QED
  BY <1>1, <1>2, PTL DEF Spec

LEMMA LInvType ==
  LInv => TypeOK
<1> SUFFICES ASSUME NEW p, Sits(p) PROVE TypeOK
  BY DEF LInv
<1>1. p \in Seq(Cell) /\ Shape(kind, nodes, p) /\ Len(p) \in Nat
  BY PlacesIs DEF Sits, Shape
<1>2. DOMAIN nodes = Places(p) /\ nodes \in [Places(p) -> Node(Places(p))] /\ Places(p) \subseteq Cell
  BY <1>1, ShapeType, PlacesIs
<1>3. \A n \in DOMAIN nodes :
        nodes[n].data \in Elems /\ nodes[n].prev \in Pointer /\ nodes[n].next \in Pointer
  <2> SUFFICES ASSUME NEW n \in DOMAIN nodes
               PROVE  nodes[n].data \in Elems /\ nodes[n].prev \in Pointer /\ nodes[n].next \in Pointer
    OBVIOUS
  <2>1. nodes[n] \in Node(Places(p))
    BY <1>2
  <2> QED
    BY <1>2, <2>1, EntryIs DEF Pointer
<1>4. first \in Pointer /\ last \in Pointer
  <2>1. FirstOf(p) \in Places(p) \cup {NULL}
    BY <1>1, PlacesIs DEF FirstOf
  <2> QED
    BY <1>2, <2>1 DEF Sits, Pointer
<1>5. len \in 0 .. MaxLen /\ rem_count \in 0 .. MaxLen
  BY <1>1, MaxLenAssumption DEF Sits
<1>6. pc \in {"idle", "remove", "crashed"} /\ (pc # "remove" => entry = NULL /\ rem_count = 0)
  BY DEF Sits, Loop
<1>7. entry \in Pointer
  <2>1. \A j \in 0 .. Len(p) : At(p, j) \in Places(p) \cup {NULL}
    BY <1>1, PlacesIs DEF At
  <2> QED
    BY <1>2, <2>1 DEF Sits, Loop, Pointer
<1> QED
  BY <1>2, <1>3, <1>4, <1>5, <1>6, <1>7 DEF TypeOK, Sits

LEMMA LInvList ==
  LInv => IsList
<1> SUFFICES ASSUME NEW p, Sits(p) PROVE IsList
  BY DEF LInv
<1>1. p \in Seq(Cell) /\ Shape(kind, nodes, p) /\ Len(p) \in Nat /\ (p = <<>> <=> Len(p) = 0)
      /\ DOMAIN p = 1 .. Len(p)
  BY PlacesIs DEF Sits, Shape
<1>2. DOMAIN nodes = Places(p) /\ Chain(nodes, first, "next") = p /\ Cardinality(DOMAIN nodes) = Len(p)
  BY <1>1, ShapeType, ShapeChain DEF Sits
<1>3. ToSet(p) = DOMAIN nodes
  BY <1>1, <1>2, SequenceSet
<1>4. \A i \in 1 .. Len(p) : nodes[p[i]].prev = Prev(kind, p, i) /\ nodes[p[i]].next = Next1(p, i)
  BY <1>1, ShapeType
<1>5. p # <<>> => nodes[Last(p)].next = NULL
  BY <1>1, <1>4 DEF Last, Next1
<1>6. kind = "bidi" => \A k \in DOMAIN p : nodes[p[k]].prev = IF k = 1 THEN NULL ELSE p[k - 1]
  BY <1>1, <1>4 DEF Prev
<1>7. kind = "bidi" /\ pc # "crashed" => last = IF p = <<>> THEN NULL ELSE Last(p)
  BY DEF Sits, LastOf, Last
<1> QED
  BY <1>2, <1>3, <1>5, <1>6, <1>7 DEF IsList, Sits

(* Every pointer is NULL or a node that is allocated, and the counts and   *)
(* the state of the loop keep to their ranges.                             *)
THEOREM TypeCorrect == Spec => []TypeOK
BY ListInvariant, LInvType, PTL

(* No call leaks a node, frees one in use, closes a circle or miscounts:   *)
(* next runs through all nodes, prev back, first and last are the ends.    *)
THEOREM StaysAList == Spec => []IsList
BY ListInvariant, LInvList, PTL

(* An element keeps its node, whatever is added, relinked or sorted, until *)
(* a call takes out that element.                                          *)
THEOREM NodesAreKept == Spec => NodesStay
<1>1. LInv /\ [Next]_vars => [NodesKept]_vars
  BY LStep
<1>2. LInv /\ [Next]_vars =>
        [\A n \in DOMAIN nodes :
           \/ n \in DOMAIN nodes' /\ nodes'[n].data = nodes[n].data
           \/ op' = "clear"
           \/ op' = "remove_first" /\ n = first
           \/ op' = "remove_last" /\ n = last
           \/ op' \in {"remove_match", "remove_if"} /\ nodes[n].data \in arg'.drop]_vars
  BY <1>1 DEF NodesKept, NodeKept
<1> QED
  BY <1>2, ListInvariant, PTL DEF Spec, NodesStay

-------------------------------------------------------------------------------
(* The elements of a list.                                                 *)

Elements(ns, p) == [i \in 1 .. Len(p) |-> ns[p[i]].data]

AreElements(ns, p, s) ==
  s \in Seq(Elems) /\ Len(s) = Len(p) /\ Len(p) \in Nat /\ \A i \in 1 .. Len(p) : s[i] = ns[p[i]].data

LEMMA ElementsAre ==
  ASSUME NEW x, NEW ns, NEW p, Shape(x, ns, p)
  PROVE  AreElements(ns, p, Elements(ns, p))
<1>1. p \in Seq(Cell) /\ \A i \in 1 .. Len(p) : ns[p[i]].data \in Elems
  BY DEF Shape
<1>2. PICK l : l = Len(p) /\ l \in Nat
  BY <1>1, PlacesIs
<1>3. PICK s : s = [i \in 1 .. l |-> ns[p[i]].data]
  OBVIOUS
<1>4. s \in Seq(Elems) /\ Len(s) = l /\ \A i \in 1 .. l : s[i] = ns[p[i]].data
  BY <1>1, <1>2, <1>3
<1> QED
  BY <1>2, <1>3, <1>4 DEF AreElements, Elements

LEMMA SameElements ==
  ASSUME NEW ns, NEW new, NEW p, p \in Seq(Cell), SameData(ns, new, Places(p))
  PROVE  Elements(new, p) = Elements(ns, p)
BY PlacesIs DEF Elements, SameData

GrowsElements(ns, new, p, c, e) ==
  /\ Elements(new, <<c>> \o p) = <<e>> \o Elements(ns, p)
  /\ Elements(new, Append(p, c)) = Elements(ns, p) \o <<e>>

LEMMA GrownElements ==
  ASSUME NEW x, NEW ns, NEW new, NEW p, NEW c, NEW e, Shape(x, ns, p), c \in Cell \ Places(p),
         SameData(ns, new, Places(p)), new[c].data = e, e \in Elems
  PROVE  GrowsElements(ns, new, p, c, e)
<1>1. PICK s : s = Elements(ns, p) /\ AreElements(ns, p, s)
  BY ElementsAre
<1>2. p \in Seq(Cell) /\ Distinct(p)
  BY DEF Shape
<1>3. PICK l : l = Len(p) /\ l \in Nat
  BY <1>2, PlacesIs
<1>4. \A i \in 1 .. l : new[p[i]].data = s[i]
  BY <1>1, <1>2, <1>3, PlacesIs DEF AreElements, SameData
<1>5. GrownInFront(p, c, <<c>> \o p) /\ GrownBehind(p, c, Append(p, c))
  BY <1>2, PlacesWith
<1>6. s \in Seq(Elems) /\ Len(s) = l /\ <<e>> \in Seq(Elems) /\ Len(<<e>>) = 1 /\ <<e>>[1] = e
  BY <1>1, <1>3 DEF AreElements
<1>7. Elements(new, <<c>> \o p) = <<e>> \o s
  <2>1. PICK q : q = <<c>> \o p /\ Len(q) = l + 1 /\ q[1] = c /\ \A i \in 2 .. l + 1 : q[i] = p[i - 1]
    BY <1>3, <1>5 DEF GrownInFront, Grown
  <2>2. PICK t : t = <<e>> \o s /\ t \in Seq(Elems) /\ Len(t) = l + 1
          /\ \A i \in 1 .. l + 1 : t[i] = IF i <= 1 THEN e ELSE s[i - 1]
    <3>1. PICK u : u = <<e>> /\ u \in Seq(Elems) /\ Len(u) = 1 /\ u[1] = e
      BY <1>6
    <3>2. u \o s \in Seq(Elems) /\ Len(u \o s) = 1 + l
          /\ \A i \in 1 .. 1 + l : (u \o s)[i] = IF i <= 1 THEN u[i] ELSE s[i - 1]
      BY <1>6, <3>1, ConcatProperties
    <3>3. \A i \in 1 .. 1 + l : i <= 1 => u[i] = e
      BY <3>1, <1>3
    <3>4. 1 + l = l + 1
      BY <1>3
    <3> QED
      BY <3>1, <3>2, <3>3, <3>4
  <2>3. \A i \in 1 .. l + 1 : new[q[i]].data = t[i]
    <3> SUFFICES ASSUME NEW i \in 1 .. l + 1 PROVE new[q[i]].data = t[i]
      OBVIOUS
    <3>1. CASE i = 1
      BY <2>1, <2>2, <3>1
    <3>2. CASE i # 1
      <4>1. i \in 2 .. l + 1 /\ i - 1 \in 1 .. l /\ ~(i <= 1)
        BY <1>3, <3>2
      <4> QED
        BY <1>4, <2>1, <2>2, <4>1
    <3> QED
      BY <3>1, <3>2
  <2>4. t = [i \in 1 .. l + 1 |-> t[i]]
    BY <2>2, LenProperties
  <2>5. Elements(new, q) = [i \in 1 .. l + 1 |-> new[q[i]].data]
    BY <2>1 DEF Elements
  <2>6. Elements(new, q) = t
    BY <2>3, <2>4, <2>5
  <2> QED
    BY <2>1, <2>2, <2>6
<1>8. Elements(new, Append(p, c)) = s \o <<e>>
  <2>1. PICK q : q = Append(p, c) /\ Len(q) = l + 1 /\ q[l + 1] = c /\ \A i \in 1 .. l : q[i] = p[i]
    BY <1>3, <1>5 DEF GrownBehind, Grown
  <2>2. PICK t : t = s \o <<e>> /\ t \in Seq(Elems) /\ Len(t) = l + 1
          /\ \A i \in 1 .. l + 1 : t[i] = IF i <= l THEN s[i] ELSE e
    <3>1. PICK u : u = <<e>> /\ u \in Seq(Elems) /\ Len(u) = 1 /\ u[1] = e
      BY <1>6
    <3>2. s \o u \in Seq(Elems) /\ Len(s \o u) = l + 1
          /\ \A i \in 1 .. l + 1 : (s \o u)[i] = IF i <= l THEN s[i] ELSE u[i - l]
      BY ZenonT(60), <1>6, <3>1, ConcatProperties
    <3>3. \A i \in 1 .. l + 1 : ~(i <= l) => i - l = 1
      BY <1>3
    <3>4. \A i \in 1 .. l + 1 : (s \o u)[i] = IF i <= l THEN s[i] ELSE e
      BY ONLY <3>1, <3>2, <3>3
    <3> QED
      BY ONLY <3>1, <3>2, <3>4
  <2>3. \A i \in 1 .. l + 1 : new[q[i]].data = t[i]
    <3> SUFFICES ASSUME NEW i \in 1 .. l + 1 PROVE new[q[i]].data = t[i]
      OBVIOUS
    <3>1. CASE i = l + 1
      <4>1. ~(i <= l)
        BY <1>3, <3>1
      <4> QED
        BY <2>1, <2>2, <3>1, <4>1
    <3>2. CASE i # l + 1
      <4>1. i \in 1 .. l /\ i <= l
        BY <1>3, <3>2
      <4> QED
        BY <1>4, <2>1, <2>2, <4>1
    <3> QED
      BY <3>1, <3>2
  <2>4. t = [i \in 1 .. l + 1 |-> t[i]]
    BY <2>2, LenProperties
  <2>5. Elements(new, q) = [i \in 1 .. l + 1 |-> new[q[i]].data]
    BY <2>1 DEF Elements
  <2>6. Elements(new, q) = t
    BY <2>3, <2>4, <2>5
  <2> QED
    BY <2>1, <2>2, <2>6
<1> QED
  BY <1>1, <1>7, <1>8 DEF GrowsElements

IsWithout(s, n, t) ==
  t \in Seq(Elems) /\ Len(t) = Len(s) - 1 /\ \A i \in 1 .. Len(s) - 1 : t[i] = IF i < n THEN s[i] ELSE s[i + 1]

LEMMA RemovedAt ==
  ASSUME NEW s, s \in Seq(Elems), NEW n, n \in 1 .. Len(s)
  PROVE  IsWithout(s, n, RemoveAt(s, n))
<1> DEFINE left == SubSeq(s, 1, n - 1)
           right == SubSeq(s, n + 1, Len(s))
<1>1. Len(s) \in Nat /\ n \in Nat /\ 1 <= n /\ n <= Len(s)
  BY LenProperties
<1>2. left \in Seq(Elems) /\ Len(left) = n - 1 /\ \A i \in 1 .. n - 1 : left[i] = s[i]
  <2>1. \A i \in 1 .. n - 1 : s[i] \in Elems
    BY <1>1, ElementOfSeq
  <2> QED
    BY <1>1, <2>1, SubSeqProperties
<1>3. right \in Seq(Elems) /\ Len(right) = Len(s) - n /\ \A i \in 1 .. Len(s) - n : right[i] = s[n + i]
  <2>1. \A i \in n + 1 .. Len(s) : s[i] \in Elems
    BY <1>1, ElementOfSeq
  <2> QED
    BY <1>1, <2>1, SubSeqProperties
<1> HIDE DEF left, right
<1>4. /\ left \o right \in Seq(Elems) /\ Len(left \o right) = Len(s) - 1
      /\ \A i \in 1 .. Len(s) - 1 : (left \o right)[i] = IF i <= n - 1 THEN left[i] ELSE right[i - (n - 1)]
  <2>1. PICK a, b : a = left /\ b = right
    OBVIOUS
  <2>2. /\ a \o b \in Seq(Elems) /\ Len(a \o b) = (n - 1) + (Len(s) - n)
        /\ \A i \in 1 .. (n - 1) + (Len(s) - n) : (a \o b)[i] = IF i <= n - 1 THEN a[i] ELSE b[i - (n - 1)]
    BY ONLY <1>2, <1>3, <2>1, ConcatProperties
  <2>3. (n - 1) + (Len(s) - n) = Len(s) - 1
    BY ONLY <1>1
  <2> QED
    BY <2>1, <2>2, <2>3
<1>5. \A i \in n .. Len(s) - 1 : right[i - (n - 1)] = s[i + 1]
  <2>1. \A i \in n .. Len(s) - 1 : i - (n - 1) \in 1 .. Len(s) - n /\ n + (i - (n - 1)) = i + 1
    BY <1>1
  <2> QED
    BY <1>3, <2>1
<1>6. \A i \in 1 .. Len(s) - 1 : (left \o right)[i] = IF i < n THEN s[i] ELSE s[i + 1]
  BY <1>1, <1>2, <1>4, <1>5
<1> QED
  BY <1>4, <1>6 DEF left, right, IsWithout, RemoveAt

LEMMA CutElements ==
  ASSUME NEW x, NEW ns, NEW new, NEW p, NEW j, Shape(x, ns, p), j \in 1 .. Len(p),
         SameData(ns, new, Places(p) \ {p[j]})
  PROVE  Elements(new, Cut(p, j)) = RemoveAt(Elements(ns, p), j)
<1>1. PICK s : s = Elements(ns, p) /\ AreElements(ns, p, s)
  BY ElementsAre
<1>2. p \in Seq(Cell) /\ Distinct(p)
  BY DEF Shape
<1>3. PICK l : l = Len(p) /\ l \in Nat /\ j \in 1 .. l
  BY <1>2, PlacesIs
<1>4. s \in Seq(Elems) /\ Len(s) = l /\ \A i \in 1 .. l : s[i] = ns[p[i]].data
  BY <1>1, <1>3 DEF AreElements
<1>5. \A i \in 1 .. l : i # j => new[p[i]].data = s[i]
  <2> SUFFICES ASSUME NEW i \in 1 .. l, i # j PROVE new[p[i]].data = s[i]
    OBVIOUS
  <2>1. p[i] \in Places(p) \ {p[j]}
    BY <1>2, <1>3 DEF Places, Distinct
  <2> QED
    BY <1>4, <2>1 DEF SameData
<1>6. PICK q : q = Cut(p, j) /\ Len(q) = l - 1 /\ \A i \in 1 .. l - 1 : q[i] = IF i < j THEN p[i] ELSE p[i + 1]
  BY SMTT(30), <1>2, <1>3, CutIs DEF CutOff
<1>7. PICK t : t = RemoveAt(s, j) /\ IsWithout(s, j, t)
  BY <1>3, <1>4, RemovedAt
<1>8. t \in Seq(Elems) /\ Len(t) = l - 1 /\ \A i \in 1 .. l - 1 : t[i] = IF i < j THEN s[i] ELSE s[i + 1]
  BY <1>4, <1>7 DEF IsWithout
<1>9. \A i \in 1 .. l - 1 : new[q[i]].data = t[i]
  <2> SUFFICES ASSUME NEW i \in 1 .. l - 1 PROVE new[q[i]].data = t[i]
    OBVIOUS
  <2>1. CASE i < j
    <3>1. i \in 1 .. l /\ i # j
      BY <1>3, <2>1
    <3> QED
      BY <1>5, <1>6, <1>8, <2>1, <3>1
  <2>2. CASE ~(i < j)
    <3>1. i + 1 \in 1 .. l /\ i + 1 # j
      BY <1>3, <2>2
    <3> QED
      BY <1>5, <1>6, <1>8, <2>2, <3>1
  <2> QED
    BY <2>1, <2>2
<1>10. t = [i \in 1 .. l - 1 |-> t[i]]
  BY <1>8, LenProperties
<1>11. Elements(new, q) = [i \in 1 .. l - 1 |-> new[q[i]].data]
  BY <1>6 DEF Elements
<1>12. Elements(new, q) = t
  BY <1>9, <1>10, <1>11
<1> QED
  BY <1>1, <1>6, <1>7, <1>12

LEMMA TurnedElements ==
  ASSUME NEW x, NEW ns, NEW new, NEW p, Shape(x, ns, p), SameData(ns, new, Places(p))
  PROVE  Elements(new, Reverse(p)) = Reverse(Elements(ns, p))
<1>1. PICK s : s = Elements(ns, p) /\ AreElements(ns, p, s)
  BY ElementsAre
<1>2. p \in Seq(Cell) /\ Distinct(p)
  BY DEF Shape
<1>3. PICK l : l = Len(p) /\ l \in Nat
  BY <1>2, PlacesIs
<1>4. Len(s) = l /\ \A i \in 1 .. l : s[i] = new[p[i]].data
  BY <1>1, <1>2, <1>3, PlacesIs DEF AreElements, SameData
<1>5. PICK q : q = Reverse(p) /\ Len(q) = l /\ \A i \in 1 .. l : q[i] = p[l + 1 - i]
  BY <1>2, <1>3, TurnedIs DEF Turned
<1>6. \A i \in 1 .. l : new[q[i]].data = s[(l - i) + 1]
  <2> SUFFICES ASSUME NEW i \in 1 .. l PROVE new[q[i]].data = s[(l - i) + 1]
    OBVIOUS
  <2>1. PICK k : k = (l - i) + 1 /\ k = l + 1 - i /\ k \in 1 .. l
    BY <1>3
  <2>2. q[i] = p[k]
    BY <1>5, <2>1
  <2>3. s[k] = new[p[k]].data
    BY <1>4, <2>1
  <2> QED
    BY <2>1, <2>2, <2>3
<1>7. Elements(new, q) = [i \in 1 .. l |-> s[(l - i) + 1]]
  BY <1>5, <1>6 DEF Elements
<1> QED
  BY <1>1, <1>4, <1>5, <1>7 DEF Reverse

-------------------------------------------------------------------------------
(* Sorted elements.                                                        *)

(* Sequence's order of positions, for the sequence s.                      *)
Ahead(s, i, j) == LET c == comp(s[i], s[j]) IN c < 0 \/ (c = 0 /\ i < j)
Behind(s, x) == {y \in DOMAIN s : Ahead(s, y, x)}
Ranked(s, n) == CHOOSE x \in DOMAIN s : Cardinality(Behind(s, x)) = n - 1
InOrder(s) == [n \in DOMAIN s |-> s[Ranked(s, n)]]

LEMMA AheadIs ==
  ASSUME NEW s, s \in Seq(Elems), NEW i, NEW j, i \in 1 .. Len(s), j \in 1 .. Len(s)
  PROVE  /\ i < j => IF FirstFirst(s[i], s[j]) THEN Ahead(s, i, j) ELSE Ahead(s, j, i)
         /\ ~Ahead(s, i, i)
         /\ \A k \in 1 .. Len(s) : Ahead(s, i, j) /\ Ahead(s, j, k) => Ahead(s, i, k)
<1>1. PICK l : l = Len(s) /\ l \in Nat /\ \A k \in 1 .. l : s[k] \in Elems
  BY LenProperties, ElementOfSeq
<1>2. PICK a, b : a = s[i] /\ b = s[j] /\ a \in Elems /\ b \in Elems
  BY <1>1
<1>3. comp(a, b) \in Int /\ comp(b, a) \in Int /\ (comp(a, b) < 0 <=> comp(b, a) > 0)
      /\ (comp(b, a) < 0 <=> comp(a, b) > 0) /\ comp(a, a) \in Int /\ (comp(a, a) < 0 <=> comp(a, a) > 0)
  BY <1>2, CompAssumption
<1>4. i < j => IF FirstFirst(s[i], s[j]) THEN Ahead(s, i, j) ELSE Ahead(s, j, i)
  <2>1. i < j => IF comp(a, b) <= 0 THEN comp(a, b) < 0 \/ comp(a, b) = 0 ELSE comp(b, a) < 0
    BY <1>3
  <2> QED
    BY <1>2, <2>1 DEF FirstFirst, Ahead
<1>5. ~Ahead(s, i, i)
  <2>1. i \in Int
    OBVIOUS
  <2>2. ~(comp(a, a) < 0) /\ ~(i < i)
    BY <1>3, <2>1
  <2> QED
    BY <1>2, <2>2 DEF Ahead
<1>6. ASSUME NEW k \in 1 .. Len(s), Ahead(s, i, j), Ahead(s, j, k) PROVE Ahead(s, i, k)
  <2>1. PICK d : d = s[k] /\ d \in Elems
    BY <1>1
  <2>2. comp(a, b) < 0 \/ (comp(a, b) = 0 /\ i < j)
    BY <1>2, <1>6 DEF Ahead
  <2>3. comp(b, d) < 0 \/ (comp(b, d) = 0 /\ j < k)
    BY <1>2, <1>6, <2>1 DEF Ahead
  <2>4. /\ comp(b, d) \in Int /\ comp(a, d) \in Int /\ comp(d, a) \in Int /\ comp(d, b) \in Int
        /\ comp(a, d) < 0 <=> comp(d, a) > 0
        /\ comp(b, d) < 0 <=> comp(d, b) > 0
    BY <1>2, <2>1, CompAssumption
  <2>5. /\ comp(a, b) <= 0 /\ comp(b, d) <= 0 => comp(a, d) <= 0
        /\ comp(b, d) <= 0 /\ comp(d, a) <= 0 => comp(b, a) <= 0
        /\ comp(d, a) <= 0 /\ comp(a, b) <= 0 => comp(d, b) <= 0
    BY <1>2, <2>1, CompAssumption
  <2>6. i \in Int /\ j \in Int /\ k \in Int
    BY <1>1, <1>6
  <2>7. comp(a, d) < 0 \/ (comp(a, d) = 0 /\ i < k)
    BY ONLY <1>3, <2>2, <2>3, <2>4, <2>5, <2>6
  <2> QED
    BY <1>2, <2>1, <2>7 DEF Ahead
<1> QED
  BY <1>4, <1>5, <1>6

(* pi puts the positions of s in order.                                    *)
Ranking(s, pi, l) ==
  /\ s \in Seq(Elems) /\ l = Len(s) /\ l <= MaxLen /\ pi \in [1 .. l -> 1 .. l]
  /\ \A i, j \in 1 .. l : pi[i] = pi[j] => i = j
  /\ \A y \in 1 .. l : \E k \in 1 .. l : y = pi[k]
  /\ \A i, j \in 1 .. l : i < j => Ahead(s, pi[i], pi[j])

LEMMA RankedFrom ==
  ASSUME NEW s, NEW pi, NEW l, Ranking(s, pi, l)
  PROVE  InOrder(s) = [n \in 1 .. l |-> s[pi[n]]]
<1>0. /\ s \in Seq(Elems) /\ l = Len(s) /\ l <= MaxLen /\ pi \in [1 .. l -> 1 .. l]
      /\ \A i, j \in 1 .. l : pi[i] = pi[j] => i = j
      /\ \A y \in 1 .. l : \E k \in 1 .. l : y = pi[k]
      /\ \A i, j \in 1 .. l : i < j => Ahead(s, pi[i], pi[j])
  BY DEF Ranking
<1>1. l \in Nat /\ DOMAIN s = 1 .. l
  BY <1>0, LenProperties
<1>2. ASSUME NEW n \in 1 .. l PROVE Cardinality(Behind(s, pi[n])) = n - 1
  <2>1. PICK m : m = n - 1 /\ m \in Nat /\ \A k \in 1 .. m : k \in 1 .. l /\ k < n
    BY <1>1
  <2>2. PICK q : q = [k \in 1 .. m |-> pi[k]]
    OBVIOUS
  <2>3. q \in Seq(Cell) /\ Len(q) = m /\ \A k \in 1 .. m : q[k] = pi[k]
    <3>1. \A k \in 1 .. m : pi[k] \in Cell
      <4> SUFFICES ASSUME NEW k \in 1 .. m PROVE pi[k] \in Cell
        OBVIOUS
      <4>1. pi[k] \in 1 .. l
        BY <1>0, <2>1
      <4> QED
        BY <1>0, <1>1, <4>1, MaxLenAssumption DEF Cell
    <3> QED
      BY <2>1, <2>2, <3>1
  <2>4. Distinct(q)
    BY <1>0, <2>1, <2>3 DEF Distinct
  <2>5. Cardinality(Places(q)) = n - 1
    BY <2>1, <2>3, <2>4, PlacesCount
  <2>6. ASSUME NEW y \in Places(q) PROVE y \in Behind(s, pi[n])
    <3>1. PICK k \in 1 .. m : y = pi[k] /\ k \in 1 .. l /\ k < n
      BY <2>1, <2>3 DEF Places
    <3> QED
      BY <1>0, <1>1, <3>1 DEF Behind
  <2>7. ASSUME NEW y \in Behind(s, pi[n]) PROVE y \in Places(q)
    <3>1. PICK k \in 1 .. l : y = pi[k]
      BY <1>0, <1>1 DEF Behind
    <3>2. Ahead(s, pi[k], pi[n]) /\ pi[k] \in 1 .. Len(s) /\ pi[n] \in 1 .. Len(s)
      BY <1>0, <3>1 DEF Behind
    <3>3. k # n
      BY <1>0, <3>2, AheadIs
    <3>4. ~(n < k)
      <4> SUFFICES ASSUME n < k PROVE FALSE
        OBVIOUS
      <4>1. Ahead(s, pi[n], pi[k])
        BY <1>0
      <4>2. Ahead(s, pi[n], pi[n]) /\ ~Ahead(s, pi[n], pi[n])
        BY <1>0, <3>2, <4>1, AheadIs
      <4> QED
        BY <4>2
    <3>5. k \in 1 .. m
      BY <1>1, <2>1, <3>3, <3>4
    <3> QED
      BY <2>3, <3>1, <3>5 DEF Places
  <2>8. Behind(s, pi[n]) = Places(q)
    BY <2>6, <2>7
  <2> QED
    BY <2>5, <2>8
<1>3. ASSUME NEW n \in 1 .. l
      PROVE  Ranked(s, n) = pi[n]
  <2>1. \A x \in 1 .. l : Cardinality(Behind(s, x)) = n - 1 => x = pi[n]
    <3> SUFFICES ASSUME NEW x \in 1 .. l, Cardinality(Behind(s, x)) = n - 1 PROVE x = pi[n]
      OBVIOUS
    <3>1. PICK k \in 1 .. l : x = pi[k]
      BY <1>0
    <3>2. Cardinality(Behind(s, x)) = k - 1
      BY <1>2, <3>1
    <3>3. k = n
      BY <3>2
    <3> QED
      BY <3>1, <3>3
  <2>2. pi[n] \in DOMAIN s /\ Cardinality(Behind(s, pi[n])) = n - 1
    BY <1>0, <1>1, <1>2
  <2> QED
    BY <1>1, <2>1, <2>2 DEF Ranked
<1> QED
  BY <1>1, <1>3 DEF InOrder

(* How sort orders the nodes.                                              *)
NodeOrder(s, p) ==
  {w \in Places(p) \X Places(p) :
     \E i, j \in 1 .. Len(p) : w = <<p[i], p[j]>> /\ Ahead(s, i, j)}

LEMMA NodeOrderIs ==
  ASSUME NEW x, NEW ns, NEW p, NEW s, Shape(x, ns, p), AreElements(ns, p, s)
  PROVE  /\ \A i, j \in 1 .. Len(p) : <<p[i], p[j]>> \in NodeOrder(s, p) <=> Ahead(s, i, j)
         /\ Transitive(Places(p), NodeOrder(s, p)) /\ Follows(ns, NodeOrder(s, p), p)
<1>1. p \in Seq(Cell) /\ Distinct(p)
  BY DEF Shape
<1>2. s \in Seq(Elems) /\ Len(s) = Len(p) /\ Len(p) \in Nat /\ \A i \in 1 .. Len(p) : s[i] = ns[p[i]].data
  BY DEF AreElements
<1>3. ASSUME NEW i \in 1 .. Len(p), NEW j \in 1 .. Len(p)
      PROVE  <<p[i], p[j]>> \in NodeOrder(s, p) <=> Ahead(s, i, j)
  <2>1. p[i] \in Places(p) /\ p[j] \in Places(p)
    BY DEF Places
  <2>2. ASSUME <<p[i], p[j]>> \in NodeOrder(s, p) PROVE Ahead(s, i, j)
    <3>1. PICK a, b \in 1 .. Len(p) : <<p[i], p[j]>> = <<p[a], p[b]>> /\ Ahead(s, a, b)
      BY <2>2 DEF NodeOrder
    <3>2. a = i /\ b = j
      BY <1>1, <3>1 DEF Distinct
    <3> QED
      BY <3>1, <3>2
  <2>3. ASSUME Ahead(s, i, j) PROVE <<p[i], p[j]>> \in NodeOrder(s, p)
    BY <2>1, <2>3 DEF NodeOrder
  <2> QED
    BY <2>2, <2>3
<1>4. Transitive(Places(p), NodeOrder(s, p))
  <2> SUFFICES ASSUME NEW a \in Places(p), NEW b \in Places(p), NEW c \in Places(p),
                      <<a, b>> \in NodeOrder(s, p), <<b, c>> \in NodeOrder(s, p)
               PROVE  <<a, c>> \in NodeOrder(s, p)
    BY DEF Transitive
  <2>1. PICK i, j, k \in 1 .. Len(p) : a = p[i] /\ b = p[j] /\ c = p[k]
    BY DEF Places
  <2>2. Ahead(s, i, j) /\ Ahead(s, j, k)
    BY <1>3, <2>1
  <2>3. Ahead(s, i, k)
    BY <1>2, <2>2, AheadIs
  <2> QED
    BY <1>3, <2>1, <2>3
<1>5. Follows(ns, NodeOrder(s, p), p)
  <2> SUFFICES ASSUME NEW i \in 1 .. Len(p), NEW j \in 1 .. Len(p), i < j
               PROVE  IF FirstFirst(ns[p[i]].data, ns[p[j]].data)
                        THEN <<p[i], p[j]>> \in NodeOrder(s, p) ELSE <<p[j], p[i]>> \in NodeOrder(s, p)
    BY DEF Follows
  <2>1. s[i] = ns[p[i]].data /\ s[j] = ns[p[j]].data
    BY <1>2
  <2>2. IF FirstFirst(s[i], s[j]) THEN Ahead(s, i, j) ELSE Ahead(s, j, i)
    BY <1>2, AheadIs
  <2> QED
    BY <1>3, <2>1, <2>2
<1> QED
  BY <1>3, <1>4, <1>5

LEMMA SortedElements ==
  ASSUME NEW x, NEW ns, NEW new, NEW p, NEW r, NEW s, Shape(x, ns, p), AreElements(ns, p, s),
         r \in Seq(Cell), Distinct(r), Places(r) = Places(p), Len(r) = Len(p),
         SameData(ns, new, Places(p)), Rising(NodeOrder(s, p), r)
  PROVE  Elements(new, r) = InOrder(s)
<1>1. p \in Seq(Cell) /\ Distinct(p)
  BY DEF Shape
<1>2. PICK l : l = Len(p) /\ l \in Nat /\ l <= MaxLen
  BY ShapeChain DEF AreElements
<1>3. s \in Seq(Elems) /\ Len(s) = l /\ \A i \in 1 .. l : s[i] = ns[p[i]].data
  BY <1>2 DEF AreElements
<1>4. \A n \in 1 .. l : r[n] \in Places(r) /\ p[n] \in Places(p)
  BY <1>1, <1>2, PlacesIs
<1>5. \A n \in 1 .. l : \E i \in 1 .. l : r[n] = p[i]
  BY <1>2, <1>4 DEF Places
<1>6. PICK pi : pi = [n \in 1 .. l |-> CHOOSE i \in 1 .. l : r[n] = p[i]]
  OBVIOUS
<1>7. pi \in [1 .. l -> 1 .. l] /\ \A n \in 1 .. l : r[n] = p[pi[n]]
  BY <1>5, <1>6
<1>8. \A i, j \in 1 .. l : pi[i] = pi[j] => i = j
  <2> SUFFICES ASSUME NEW i \in 1 .. l, NEW j \in 1 .. l, pi[i] = pi[j] PROVE i = j
    OBVIOUS
  <2>1. r[i] = r[j]
    BY <1>7
  <2> QED
    BY <1>2, <2>1 DEF Distinct
<1>9. \A y \in 1 .. l : \E k \in 1 .. l : y = pi[k]
  <2> SUFFICES ASSUME NEW y \in 1 .. l PROVE \E k \in 1 .. l : y = pi[k]
    OBVIOUS
  <2>1. PICK k \in 1 .. l : p[y] = r[k]
    BY <1>2, <1>4 DEF Places
  <2>2. p[y] = p[pi[k]] /\ pi[k] \in 1 .. l
    BY <1>7, <2>1
  <2> QED
    BY <1>1, <1>2, <2>2 DEF Distinct
<1>10. \A i, j \in 1 .. l : i < j => Ahead(s, pi[i], pi[j])
  <2> SUFFICES ASSUME NEW i \in 1 .. l, NEW j \in 1 .. l, i < j PROVE Ahead(s, pi[i], pi[j])
    OBVIOUS
  <2>1. <<p[pi[i]], p[pi[j]]>> \in NodeOrder(s, p)
    BY <1>2, <1>7 DEF Rising
  <2>2. pi[i] \in 1 .. Len(p) /\ pi[j] \in 1 .. Len(p)
    BY <1>2, <1>7
  <2> QED
    BY <2>1, <2>2, NodeOrderIs
<1>11. InOrder(s) = [n \in 1 .. l |-> s[pi[n]]]
  <2>1. Ranking(s, pi, l)
    BY <1>2, <1>3, <1>7, <1>8, <1>9, <1>10 DEF Ranking
  <2> QED
    BY <2>1, RankedFrom
<1>12. \A n \in 1 .. l : new[r[n]].data = s[pi[n]]
  BY <1>3, <1>4, <1>7 DEF SameData
<1> QED
  BY <1>2, <1>11, <1>12 DEF Elements

-------------------------------------------------------------------------------
(* Elements without some.                                                  *)

WithoutStep(s, d, f, n) ==
  IF n = 0 THEN <<>> ELSE IF s[n] \in d THEN f[n - 1] ELSE Append(f[n - 1], s[n])
IsFilter(s, d, N, f) == f = [n \in 0 .. N |-> WithoutStep(s, d, f, n)]

LEMMA FilterExists ==
  ASSUME NEW s, NEW d, NEW N \in Nat
  PROVE  \E f : IsFilter(s, d, N, f)
<1> DEFINE T == {n \in Nat : ~ \E f : IsFilter(s, d, n, f)}
<1>1. 0 \notin T
  <2> DEFINE f == [n \in 0 .. 0 |-> <<>>]
  <2>1. \A n \in 0 .. 0 : WithoutStep(s, d, f, n) = <<>>
    BY DEF WithoutStep
  <2>2. IsFilter(s, d, 0, f)
    BY <2>1 DEF IsFilter
  <2> QED
    BY <2>2
<1>2. ASSUME NEW m \in Nat, NEW f, IsFilter(s, d, m, f) PROVE \E g : IsFilter(s, d, m + 1, g)
  <2> DEFINE g == [n \in 0 .. m + 1 |-> WithoutStep(s, d, f, n)]
  <2>1. \A n \in 0 .. m : g[n] = f[n]
    BY <1>2 DEF IsFilter
  <2>2. ASSUME NEW n \in 0 .. m + 1 PROVE WithoutStep(s, d, f, n) = WithoutStep(s, d, g, n)
    <3>1. n # 0 => n - 1 \in 0 .. m
      OBVIOUS
    <3>2. n # 0 => g[n - 1] = f[n - 1]
      BY <2>1, <3>1
    <3> HIDE DEF g
    <3> QED
      BY <3>2 DEF WithoutStep
  <2>3. IsFilter(s, d, m + 1, g)
    BY <2>2 DEF IsFilter
  <2> QED
    BY <2>3
<1>3. T = {}
  <2> SUFFICES ASSUME T # {} PROVE FALSE
    OBVIOUS
  <2>1. PICK x \in T : \A y \in T : x <= y
    BY LeastNatural
  <2>2. x - 1 \in Nat /\ x - 1 \notin T
    BY <1>1, <2>1
  <2>3. PICK f : IsFilter(s, d, x - 1, f)
    BY <2>2
  <2>4. \E g : IsFilter(s, d, (x - 1) + 1, g)
    BY <1>2, <2>2, <2>3
  <2> QED
    BY <2>1, <2>4
<1> QED
  BY <1>3

Filters(s, d, N, f) ==
  /\ f[0] = <<>>
  /\ \A n \in 1 .. N : f[n] = IF s[n] \in d THEN f[n - 1] ELSE Append(f[n - 1], s[n])

LEMMA WithoutIs ==
  ASSUME NEW s, NEW d, s \in Seq(Elems)
  PROVE  \E f : Filters(s, d, Len(s), f) /\ Without(s, d) = f[Len(s)]
<1>1. Len(s) \in Nat
  BY LenProperties
<1> DEFINE f == CHOOSE g : IsFilter(s, d, Len(s), g)
<1>2. IsFilter(s, d, Len(s), f)
  BY <1>1, FilterExists
<1>3. Without(s, d) = f[Len(s)]
  BY DEF Without, IsFilter, WithoutStep
<1> HIDE DEF f
<1>4. \A n \in 0 .. Len(s) : f[n] = WithoutStep(s, d, f, n)
  <2>1. PICK g : g = [n \in 0 .. Len(s) |-> WithoutStep(s, d, f, n)]
    OBVIOUS
  <2>2. f = g
    BY <1>2, <2>1 DEF IsFilter
  <2> QED
    BY <2>1, <2>2
<1>5. Filters(s, d, Len(s), f)
  <2>1. 0 \in 0 .. Len(s) /\ \A n \in 1 .. Len(s) : n \in 0 .. Len(s) /\ n # 0
    BY <1>1
  <2>2. WithoutStep(s, d, f, 0) = <<>>
    BY DEF WithoutStep
  <2>3. \A n \in 1 .. Len(s) :
          WithoutStep(s, d, f, n) = IF s[n] \in d THEN f[n - 1] ELSE Append(f[n - 1], s[n])
    BY <2>1 DEF WithoutStep
  <2> QED
    BY <1>4, <2>1, <2>2, <2>3 DEF Filters
<1> QED
  BY <1>3, <1>5

(* Nothing to leave out.                                                   *)
LEMMA WithoutNothing ==
  ASSUME NEW s, NEW d, s \in Seq(Elems), \A i \in 1 .. Len(s) : s[i] \notin d
  PROVE  Without(s, d) = s
<1>1. PICK f : Filters(s, d, Len(s), f) /\ Without(s, d) = f[Len(s)]
  BY WithoutIs
<1>2. PICK l : l = Len(s) /\ l \in Nat /\ s = [i \in 1 .. l |-> s[i]] /\ \A i \in 1 .. l : s[i] \in Elems
  BY LenProperties, ElementOfSeq
<1> DEFINE Good(n) == f[n] \in Seq(Elems) /\ Len(f[n]) = n /\ \A i \in 1 .. n : f[n][i] = s[i]
           T == {n \in 0 .. l : ~Good(n)}
<1>3. Good(0)
  BY <1>1, <1>2 DEF Filters
<1>4. ASSUME NEW n \in 1 .. l, Good(n - 1) PROVE Good(n)
  <2>1. f[n] = Append(f[n - 1], s[n]) /\ s[n] \in Elems
    BY <1>1, <1>2 DEF Filters
  <2>2. PICK g : g = f[n - 1] /\ g \in Seq(Elems) /\ Len(g) = n - 1 /\ \A i \in 1 .. n - 1 : g[i] = s[i]
    BY <1>4
  <2>3. PICK e : e = s[n] /\ e \in Elems
    BY <2>1
  <2>4. n \in Nat /\ n > 0
    BY <1>2
  <2>5. Append(g, e) \in Seq(Elems) /\ Len(Append(g, e)) = n
        /\ \A i \in 1 .. n : Append(g, e)[i] = IF i = n THEN e ELSE g[i]
    BY ONLY <2>2, <2>3, <2>4
  <2>6. \A i \in 1 .. n : Append(g, e)[i] = s[i]
    BY ONLY <2>2, <2>3, <2>4, <2>5
  <2> QED
    BY <2>1, <2>2, <2>3, <2>5, <2>6
<1>5. T = {}
  <2> SUFFICES ASSUME T # {} PROVE FALSE
    OBVIOUS
  <2>0. T \in SUBSET Nat
    BY <1>2
  <2>1. PICK x \in T : \A y \in T : x <= y
    BY <2>0, LeastNatural
  <2>2. x \in 1 .. l /\ x - 1 \in 0 .. l /\ x - 1 \notin T
    <3> HIDE DEF Good
    <3>1. x # 0 /\ x \in 0 .. l
      BY <1>3, <2>1
    <3>2. x \in 1 .. l /\ x - 1 \in 0 .. l
      BY <1>2, <3>1
    <3>3. ~(x <= x - 1)
      BY <1>2, <3>1
    <3> QED
      BY <2>1, <3>2, <3>3
  <2> HIDE DEF Good
  <2> QED
    BY <1>4, <2>1, <2>2
<1>6. Good(l)
  <2> HIDE DEF Good
  <2> QED
    BY <1>2, <1>5
<1>7. PICK t : t = f[l] /\ t \in Seq(Elems) /\ Len(t) = l /\ \A i \in 1 .. l : t[i] = s[i]
  BY <1>6
<1>8. t = s
  BY <1>2, <1>7, SeqEqual
<1> QED
  BY <1>1, <1>2, <1>7, <1>8

(* One that goes anyway is no loss.                                        *)
LEMMA WithoutOne ==
  ASSUME NEW s, NEW d, NEW j, NEW t, s \in Seq(Elems), j \in 1 .. Len(s), s[j] \in d, IsWithout(s, j, t)
  PROVE  Without(t, d) = Without(s, d)
<1>1. PICK l : l = Len(s) /\ l \in Nat /\ j \in 1 .. l
  BY LenProperties
<1>2. t \in Seq(Elems) /\ Len(t) = l - 1 /\ \A i \in 1 .. l - 1 : t[i] = IF i < j THEN s[i] ELSE s[i + 1]
  BY <1>1 DEF IsWithout
<1>3. PICK f : Filters(s, d, l, f) /\ Without(s, d) = f[l]
  BY <1>1, WithoutIs
<1>4. PICK g : Filters(t, d, l - 1, g) /\ Without(t, d) = g[l - 1]
  BY <1>2, WithoutIs
<1> DEFINE Good(n) == g[n] = IF n < j THEN f[n] ELSE f[n + 1]
           T == {n \in 0 .. l - 1 : ~Good(n)}
<1>5. Good(0)
  <2>1. 0 < j
    BY <1>1
  <2> QED
    BY <1>3, <1>4, <2>1 DEF Filters
<1>6. ASSUME NEW n \in 1 .. l - 1, Good(n - 1) PROVE Good(n)
  <2>1. g[n] = IF t[n] \in d THEN g[n - 1] ELSE Append(g[n - 1], t[n])
    BY <1>4 DEF Filters
  <2>2. n \in 1 .. l /\ n + 1 \in 1 .. l /\ (n + 1) - 1 = n /\ (n - 1) + 1 = n
    BY <1>1
  <2>3. f[n] = IF s[n] \in d THEN f[n - 1] ELSE Append(f[n - 1], s[n])
    BY <1>3, <2>2 DEF Filters
  <2>4. f[n + 1] = IF s[n + 1] \in d THEN f[n] ELSE Append(f[n], s[n + 1])
    BY <1>3, <2>2 DEF Filters
  <2>5. CASE n < j
    <3>1. n - 1 < j
      BY <1>1, <2>2, <2>5
    <3>2. t[n] = s[n] /\ g[n - 1] = f[n - 1]
      BY <1>2, <1>6, <2>5, <3>1
    <3> QED
      BY <2>1, <2>3, <2>5, <3>2
  <2>6. CASE n = j
    <3>1. n - 1 < j /\ ~(n < j)
      BY <1>1, <2>6
    <3>2. t[n] = s[n + 1] /\ g[n - 1] = f[n - 1] /\ f[n] = f[n - 1]
      BY <1>2, <1>6, <2>3, <2>6, <3>1
    <3> QED
      BY <2>1, <2>4, <3>1, <3>2
  <2>7. CASE n > j
    <3>1. ~(n - 1 < j) /\ ~(n < j)
      BY <1>1, <2>2, <2>7
    <3>2. t[n] = s[n + 1] /\ g[n - 1] = f[n]
      BY <1>2, <1>6, <2>2, <3>1
    <3> QED
      BY <2>1, <2>4, <3>1, <3>2
  <2> QED
    BY <1>1, <2>2, <2>5, <2>6, <2>7
<1>7. T = {}
  <2> SUFFICES ASSUME T # {} PROVE FALSE
    OBVIOUS
  <2>0. T \in SUBSET Nat
    BY <1>1
  <2>1. PICK x \in T : \A y \in T : x <= y
    BY <2>0, LeastNatural
  <2>2. x \in 1 .. l - 1 /\ x - 1 \in 0 .. l - 1 /\ x - 1 \notin T
    <3> HIDE DEF Good
    <3>1. x # 0 /\ x \in 0 .. l - 1
      BY <1>5, <2>1
    <3>2. x \in 1 .. l - 1 /\ x - 1 \in 0 .. l - 1
      BY <1>1, <3>1
    <3>3. ~(x <= x - 1)
      BY <1>1, <3>1
    <3> QED
      BY <2>1, <3>2, <3>3
  <2> HIDE DEF Good
  <2> QED
    BY <1>6, <2>1, <2>2
<1>8. Good(l - 1)
  <2>1. l - 1 \in 0 .. l - 1
    BY <1>1
  <2> HIDE DEF Good
  <2> QED
    BY <1>7, <2>1
<1>9. g[l - 1] = f[l]
  <2>1. CASE l - 1 < j
    <3>1. j = l
      BY <1>1, <2>1
    <3>2. f[l] = f[l - 1]
      BY <1>1, <1>3, <3>1 DEF Filters
    <3> QED
      BY <1>8, <2>1, <3>2
  <2>2. CASE ~(l - 1 < j)
    <3>1. (l - 1) + 1 = l
      BY <1>1
    <3> QED
      BY <1>8, <2>2, <3>1
  <2> QED
    BY <2>1, <2>2
<1> QED
  BY <1>3, <1>4, <1>9

-------------------------------------------------------------------------------
(* The list as a sequence.                                                 *)

SeqIs(p) ==
  Data(first, "next") = Elements(nodes, p) /\ AreElements(nodes, p, Elements(nodes, p))

LEMMA SitsSeq ==
  ASSUME NEW p
  PROVE  Sits(p) => SeqIs(p)
<1> SUFFICES ASSUME Sits(p) PROVE SeqIs(p)
  OBVIOUS
<1>1. Shape(kind, nodes, p) /\ p \in Seq(Cell) /\ first = FirstOf(p)
  BY DEF Sits, Shape
<1>2. Chain(nodes, first, "next") = p /\ DOMAIN p = 1 .. Len(p)
  BY <1>1, ShapeChain, PlacesIs
<1>3. Data(first, "next") = Elements(nodes, p)
  BY <1>2 DEF Data, Elements
<1> QED
  BY <1>1, <1>3, ElementsAre DEF SeqIs

LEMMA SitsSeqNext ==
  ASSUME NEW p
  PROVE  Sits(p)' => SeqIs(p)'
<1>1. Sits(p) => SeqIs(p)
  BY SitsSeq
<1> QED
  BY <1>1, PTL

(* Walking back.                                                           *)
LEMMA Backward ==
  ASSUME NEW ns, NEW p, Shape("bidi", ns, p)
  PROVE  Chain(ns, LastOf(p), "prev") = Reverse(p)
<1>1. p \in Seq(Cell) /\ Distinct(p)
  BY DEF Shape
<1>2. PICK l : l = Len(p) /\ l \in Nat
  BY <1>1, PlacesIs
<1>3. PICK q : q = Reverse(p) /\ Turned(p, q)
  BY <1>1, TurnedIs
<1>4. DOMAIN ns = Places(p) /\ Linked(ns, "prev") /\ \A i \in 1 .. l : ns[p[i]].prev = Prev("bidi", p, i)
  BY <1>2, ShapeType
<1>5. NULL \notin DOMAIN ns /\ IsFiniteSet(DOMAIN ns)
  BY <1>1, <1>4, PlacesIs
<1>6. q \in Seq(Cell) /\ Distinct(q) /\ Places(q) = DOMAIN ns /\ Len(q) = l
      /\ LastOf(p) = FirstOf(q) /\ \A i \in 1 .. l : q[i] = p[l + 1 - i]
  BY <1>2, <1>3, <1>4 DEF Turned
<1>7. q \in Seq(DOMAIN ns)
  BY <1>6, PlacesIs
<1>8. \A i \in 1 .. l : ns[q[i]].prev = IF i = l THEN NULL ELSE q[i + 1]
  <2> SUFFICES ASSUME NEW i \in 1 .. l PROVE ns[q[i]].prev = IF i = l THEN NULL ELSE q[i + 1]
    OBVIOUS
  <2>1. PICK k : k = l + 1 - i /\ k \in 1 .. l /\ (i = l <=> k = 1)
    BY <1>2
  <2>2. ns[q[i]].prev = Prev("bidi", p, k)
    BY <1>4, <1>6, <2>1
  <2>3. CASE i = l
    BY <1>2, <2>1, <2>2, <2>3 DEF Prev
  <2>4. CASE i # l
    <3>1. i + 1 \in 1 .. l /\ l + 1 - (i + 1) = k - 1 /\ k > 1
      BY <1>2, <2>1, <2>4
    <3>2. q[i + 1] = p[k - 1]
      BY <1>6, <3>1
    <3> QED
      BY <2>2, <2>4, <3>1, <3>2 DEF Prev
  <2> QED
    BY <2>3, <2>4
<1>9. Path(ns, LastOf(p), "prev", q)
  BY <1>6, <1>7, <1>8 DEF Path, Distinct, FirstOf
<1> QED
  BY <1>3, <1>4, <1>5, <1>9, PathChain

(* Before and after a call that returns.                                   *)
Shows(p, q) ==
  /\ Contents = Elements(nodes, p) /\ AreElements(nodes, p, Elements(nodes, p))
  /\ Contents' = Elements(nodes', q) /\ Going = 0 /\ Going' = 0 /\ ret.done

LEMMA Shown ==
  ASSUME NEW p, NEW q, Rests(p), Sits(p), pc = "idle", Sits(q)', pc' = "idle"
  PROVE  Shows(p, q)
<1>1. SeqIs(p) /\ SeqIs(q)'
  BY SitsSeq, SitsSeqNext
<1> QED
  BY <1>1 DEF Shows, SeqIs, Contents, Going, Rests

LEMMA AddsAsPromised ==
  ASSUME NEW p, Sits(p), list_add_first \/ list_add_last \/ fwdlist_add_first
  PROVE  Abstract!Next
<1>1. pc = "idle" /\ kind' = kind /\ op' \in {"add_first", "add_last"}
  BY DEF list_add_first, list_add_last, fwdlist_add_first, Called
<1>2. Rests(p) /\ Shape(kind, nodes, p)
  BY <1>1, RestsIs DEF Rests
<1>3. CASE Unchanged(FALSE, 0, <<>>)
  <2>1. Sits(p)' /\ pc' = "idle" /\ nodes' = nodes /\ ret' = Reply(FALSE, 0, <<>>)
    BY <1>1, <1>2, <1>3, UnchangedStep DEF Unchanged, Return, list
  <2>2. Shows(p, p)
    BY <1>1, <1>2, <2>1, Shown
  <2>3. Contents' = Contents
    BY <2>1, <2>2 DEF Shows
  <2>4. Abstract!NoMemory
    BY <1>1, <2>1, <2>2, <2>3
       DEF Shows, Reply, Abstract!NoMemory, Abstract!Refused, Abstract!Answers, Abstract!Reply
  <2> QED
    BY <2>4 DEF Abstract!Next
<1>4. CASE list_add_first \/ fwdlist_add_first
  <2>1. PICK e \in Elems :
           \/ Unchanged(FALSE, 0, <<>>)
           \/ /\ HasMemory /\ Return(TRUE, 0, <<>>) /\ first' = new_ent /\ len' = len + 1
              /\ op' = "add_first" /\ arg' = Arg(0, <<e>>, {})
              /\ \/ /\ kind = "bidi" /\ nodes' = insert_before(WithNew(e), first, new_ent)
                    /\ last' = IF len = 0 THEN new_ent ELSE last
                 \/ kind = "forward" /\ nodes' = SetLink(WithNew(e), new_ent, "next", first) /\ last' = last
    BY <1>4 DEF list_add_first, fwdlist_add_first, Called
  <2>2. CASE ~Unchanged(FALSE, 0, <<>>)
    <3>0. GrowsInFront(p, e)
      BY <1>1, <1>2, <2>1, <2>2, AddFirstStep
    <3>1. GrowsInFront(p, e) /\ op' = "add_first" /\ arg'.els = <<e>> /\ Return(TRUE, 0, <<>>)
      <4>1. op' = "add_first" /\ arg' = Arg(0, <<e>>, {}) /\ Return(TRUE, 0, <<>>)
        BY <2>1, <2>2
      <4> QED
        BY <3>0, <4>1 DEF Arg
    <3>2. PICK c, q : /\ c \in Cell \ Places(p) /\ q = <<c>> \o p
                      /\ Sits(q)' /\ SameData(nodes, nodes', Places(p)) /\ nodes'[c].data = e
      BY <3>1 DEF GrowsInFront
    <3>3. Elements(nodes', q) = <<e>> \o Elements(nodes, p)
      <4>1. PICK ms : ms = nodes'
        OBVIOUS
      <4>2. SameData(nodes, ms, Places(p)) /\ ms[c].data = e /\ c \in Cell \ Places(p) /\ e \in Elems
        BY <3>2, <4>1
      <4>3. GrowsElements(nodes, ms, p, c, e)
        BY <1>2, <4>2, GrownElements
      <4> QED
        BY <3>2, <4>1, <4>3 DEF GrowsElements
    <3>4. pc' = "idle" /\ ret' = Reply(TRUE, 0, <<>>)
      BY <3>1 DEF Return
    <3>5. Shows(p, q)
      BY <1>1, <1>2, <3>2, <3>4, Shown
    <3>6. Abstract!AddFirst
      BY <3>1, <3>3, <3>4, <3>5
         DEF Shows, Reply, Abstract!AddFirst, Abstract!Succeeds, Abstract!Answers, Abstract!Reply
    <3> QED
      BY <3>6 DEF Abstract!Next
  <2> QED
    BY <1>3, <2>2
<1>5. CASE list_add_last
  <2>1. PICK e \in Elems :
           \/ Unchanged(FALSE, 0, <<>>)
           \/ /\ HasMemory /\ Return(TRUE, 0, <<>>) /\ last' = new_ent /\ len' = len + 1
              /\ op' = "add_last" /\ arg' = Arg(0, <<e>>, {})
              /\ kind = "bidi" /\ nodes' = insert_after(WithNew(e), last, new_ent)
              /\ first' = IF len = 0 THEN new_ent ELSE first
    BY <1>5 DEF list_add_last, Called
  <2>2. CASE ~Unchanged(FALSE, 0, <<>>)
    <3>0. GrowsBehind(p, e)
      BY <1>1, <1>2, <2>1, <2>2, AddLastStep
    <3>1. GrowsBehind(p, e) /\ op' = "add_last" /\ arg'.els = <<e>> /\ Return(TRUE, 0, <<>>)
      <4>1. op' = "add_last" /\ arg' = Arg(0, <<e>>, {}) /\ Return(TRUE, 0, <<>>)
        BY <2>1, <2>2
      <4> QED
        BY <3>0, <4>1 DEF Arg
    <3>2. PICK c, q : /\ c \in Cell \ Places(p) /\ q = Append(p, c)
                      /\ Sits(q)' /\ SameData(nodes, nodes', Places(p)) /\ nodes'[c].data = e
      BY <3>1 DEF GrowsBehind
    <3>3. Elements(nodes', q) = Elements(nodes, p) \o <<e>>
      <4>1. PICK ms : ms = nodes'
        OBVIOUS
      <4>2. SameData(nodes, ms, Places(p)) /\ ms[c].data = e /\ c \in Cell \ Places(p) /\ e \in Elems
        BY <3>2, <4>1
      <4>3. GrowsElements(nodes, ms, p, c, e)
        BY <1>2, <4>2, GrownElements
      <4> QED
        BY <3>2, <4>1, <4>3 DEF GrowsElements
    <3>4. pc' = "idle" /\ ret' = Reply(TRUE, 0, <<>>)
      BY <3>1 DEF Return
    <3>5. Shows(p, q)
      BY <1>1, <1>2, <3>2, <3>4, Shown
    <3>6. Abstract!AddLast
      BY <3>1, <3>3, <3>4, <3>5
         DEF Shows, Reply, Abstract!AddLast, Abstract!Succeeds, Abstract!Answers, Abstract!Reply
    <3> QED
      BY <3>6 DEF Abstract!Next
  <2> QED
    BY <1>3, <2>2
<1> QED
  BY <1>4, <1>5

LEMMA TakesAsPromised ==
  ASSUME NEW p, Sits(p), list_remove_first \/ list_remove_last \/ fwdlist_remove_first
  PROVE  Abstract!Next
<1>1. pc = "idle" /\ kind' = kind
  BY DEF list_remove_first, list_remove_last, fwdlist_remove_first, Called
<1>2. Rests(p) /\ Shape(kind, nodes, p) /\ len = Len(p)
  BY <1>1, RestsIs DEF Rests
<1> DEFINE s == Elements(nodes, p)
<1>3. s \in Seq(Elems) /\ Len(s) = Len(p) /\ Len(p) \in Nat /\ DOMAIN s = 1 .. Len(p)
      /\ \A i \in 1 .. Len(p) : s[i] = nodes[p[i]].data
  BY <1>2, ElementsAre, LenProperties DEF AreElements
<1> HIDE DEF s
<1>4. ASSUME len = 0, Unchanged(FALSE, 0, <<>>), op' \in {"remove_first", "remove_last"}
      PROVE  Abstract!Next
  <2>1. Sits(p)' /\ pc' = "idle" /\ nodes' = nodes /\ ret' = Reply(FALSE, 0, <<>>)
    BY <1>1, <1>2, <1>4, UnchangedStep DEF Unchanged, Return, list
  <2>2. Shows(p, p)
    BY <1>1, <1>2, <2>1, Shown
  <2>3. Contents = s /\ Contents' = s
    BY <2>1, <2>2 DEF Shows, s
  <2>4. 1 \notin DOMAIN s /\ Len(s) \notin DOMAIN s
    BY <1>2, <1>3, <1>4
  <2>5. ret.done /\ ret' = Abstract!Reply(FALSE, 0, <<>>) /\ Going' = 0
    BY <2>1, <2>2 DEF Shows, Reply, Abstract!Reply
  <2>6. Abstract!Take("remove_first", 1) \/ Abstract!Take("remove_last", Len(Contents))
    BY <1>4, <2>3, <2>4, <2>5 DEF Abstract!Take, Abstract!Refused, Abstract!Answers
  <2> QED
    BY <2>6 DEF Abstract!Next, Abstract!TakeOne
<1>5. ASSUME NEW j \in 1 .. Len(p), Loses(p, j), Return(TRUE, 0, <<nodes[p[j]].data>>),
             (op' = "remove_first" /\ j = 1) \/ (op' = "remove_last" /\ j = Len(p))
      PROVE  Abstract!Next
  <2>1. PICK q : q = Cut(p, j) /\ Sits(q)' /\ SameData(nodes, nodes', Places(p) \ {p[j]})
    BY <1>5 DEF Loses
  <2>2. Elements(nodes', q) = RemoveAt(s, j)
    BY <1>2, <2>1, CutElements DEF s
  <2>3. pc' = "idle" /\ ret' = Reply(TRUE, 0, <<s[j]>>)
    BY <1>3, <1>5 DEF Return
  <2>4. Shows(p, q)
    BY <1>1, <1>2, <2>1, <2>3, Shown
  <2>5. Contents = s /\ Contents' = RemoveAt(s, j) /\ j \in DOMAIN s
    BY <1>3, <2>2, <2>4 DEF Shows, s
  <2>6. ret.done /\ ret' = Abstract!Reply(TRUE, 0, <<s[j]>>) /\ Going' = 0
    BY <2>3, <2>4 DEF Shows, Reply, Abstract!Reply
  <2>7. j \in DOMAIN Contents /\ ret' = Abstract!Reply(TRUE, 0, <<Contents[j]>>) /\ Contents' = RemoveAt(Contents, j)
    BY <2>5, <2>6
  <2>8. Abstract!Take("remove_first", 1) \/ Abstract!Take("remove_last", Len(Contents))
    <3>1. CASE op' = "remove_first" /\ j = 1
      BY <2>6, <2>7, <3>1 DEF Abstract!Take, Abstract!Answers, Abstract!RemoveAt, RemoveAt
    <3>2. CASE op' = "remove_last" /\ j = Len(p)
      <4>1. Len(Contents) = j
        BY <1>3, <2>5, <3>2
      <4> QED
        BY <2>6, <2>7, <3>2, <4>1 DEF Abstract!Take, Abstract!Answers, Abstract!RemoveAt, RemoveAt
    <3> QED
      BY <1>5, <3>1, <3>2
  <2> QED
    BY <2>8 DEF Abstract!Next, Abstract!TakeOne
<1>6. CASE list_remove_first \/ fwdlist_remove_first
  <2>0. op' = "remove_first"
    BY <1>6 DEF list_remove_first, fwdlist_remove_first, Called
  <2>1. \/ len = 0 /\ Unchanged(FALSE, 0, <<>>)
        \/ /\ len # 0 /\ first' = nodes[first].next /\ len' = len - 1
           /\ Return(TRUE, 0, <<nodes[first].data>>)
           /\ \/ /\ kind = "bidi" /\ nodes' = Freed(remove_at(nodes, first), first)
                 /\ last' = IF len = 1 THEN NULL ELSE last
              \/ kind = "forward" /\ nodes' = Freed(nodes, first) /\ last' = last
    BY <1>6 DEF list_remove_first, fwdlist_remove_first, Called
  <2>2. CASE len = 0
    BY <1>4, <2>0, <2>1, <2>2
  <2>3. CASE len # 0
    <3>1. 1 \in 1 .. Len(p) /\ first = p[1] /\ Loses(p, 1)
      BY <1>1, <1>2, <2>1, <2>3, RemoveFirstStep
    <3>2. Return(TRUE, 0, <<nodes[p[1]].data>>)
      BY <2>1, <2>3, <3>1
    <3> QED
      BY <1>5, <2>0, <3>1, <3>2
  <2> QED
    BY <2>2, <2>3
<1>7. CASE list_remove_last
  <2>0. op' = "remove_last"
    BY <1>7 DEF list_remove_last, Called
  <2>1. \/ len = 0 /\ Unchanged(FALSE, 0, <<>>)
        \/ /\ len # 0 /\ last' = nodes[last].prev /\ len' = len - 1
           /\ Return(TRUE, 0, <<nodes[last].data>>)
           /\ kind = "bidi" /\ nodes' = Freed(remove_at(nodes, last), last)
           /\ first' = IF len = 1 THEN NULL ELSE first
    BY <1>7 DEF list_remove_last, Called
  <2>2. CASE len = 0
    BY <1>4, <2>0, <2>1, <2>2
  <2>3. CASE len # 0
    <3>1. Len(p) \in 1 .. Len(p) /\ last = p[Len(p)] /\ Loses(p, Len(p))
      BY <1>1, <1>2, <2>1, <2>3, RemoveLastStep
    <3>2. Return(TRUE, 0, <<nodes[p[Len(p)]].data>>)
      BY <2>1, <2>3, <3>1
    <3> QED
      BY <1>5, <2>0, <3>1, <3>2
  <2> QED
    BY <2>2, <2>3
<1> QED
  BY <1>6, <1>7

LEMMA RearrangedShows ==
  ASSUME NEW p, NEW q, Sits(p), pc = "idle", Rearranges(p, q), pc' = "idle"
  PROVE  Shows(p, q)
BY RestsIs, Shown DEF Rearranges

LEMMA TurnsAsPromised ==
  ASSUME NEW p, Sits(p), list_reverse \/ fwdlist_reverse
  PROVE  Abstract!Next
<1>1. pc = "idle" /\ op' = "reverse" /\ pc' = "idle" /\ ret' = Reply(TRUE, 0, <<>>)
  BY DEF list_reverse, fwdlist_reverse, Called, Return
<1>2. Rests(p) /\ Shape(kind, nodes, p)
  BY <1>1, RestsIs DEF Rests
<1>3. PICK q : q = Reverse(p) /\ Rearranges(p, q)
  BY <1>2, ReverseStep
<1>4. Shows(p, q)
  BY <1>1, <1>3, RearrangedShows
<1>5. Elements(nodes', q) = Reverse(Elements(nodes, p))
  BY <1>2, <1>3, TurnedElements DEF Rearranges
<1>6. Contents' = Reverse(Contents) /\ ret.done /\ Going' = 0
  BY <1>4, <1>5 DEF Shows
<1>7. Abstract!Backwards
  BY <1>1, <1>6
     DEF Reply, Abstract!Backwards, Abstract!Succeeds, Abstract!Answers, Abstract!Reply, Abstract!Reverse, Reverse
<1> QED
  BY <1>7 DEF Abstract!Next

LEMMA SortedSeqIs == Abstract!SortedSeq = InOrder(Contents)
<1>1. \A x : {y \in DOMAIN Contents : Abstract!Precedes(y, x)} = Behind(Contents, x)
  BY DEF Abstract!Precedes, Behind, Ahead
<1>2. \A S : Abstract!Cardinality(S) = Cardinality(S)
  BY DEF Abstract!Cardinality, Cardinality
<1>3. \A n : Abstract!Smallest(n) = Ranked(Contents, n)
  BY <1>1, <1>2 DEF Ranked, Abstract!Smallest
<1> QED
  BY <1>3 DEF Abstract!SortedSeq, InOrder

LEMMA SortsAsPromised ==
  ASSUME NEW p, Sits(p), list_sort \/ fwdlist_sort
  PROVE  Abstract!Next \/ pc' = "crashed"
<1>1. pc = "idle" /\ kind' = kind /\ op' = "sort"
  BY DEF list_sort, fwdlist_sort, Called
<1>2. Rests(p) /\ Shape(kind, nodes, p) /\ p \in Seq(Cell) /\ Distinct(p) /\ len = Len(p) /\ Len(p) \in Nat
  BY <1>1, RestsIs DEF Rests
<1>3. PICK s : s = Elements(nodes, p) /\ AreElements(nodes, p, s)
  BY <1>2, ElementsAre
<1>4. Transitive(Places(p), NodeOrder(s, p)) /\ Follows(nodes, NodeOrder(s, p), p)
  BY <1>2, <1>3, NodeOrderIs
<1>5. \E r : /\ Rearranges(p, r) /\ Len(r) = Len(p) /\ Rising(NodeOrder(s, p), r)
             /\ pc' = "crashed" \/ (pc' = "idle" /\ ret' = Reply(TRUE, 0, <<>>))
  <2>1. CASE len > 1
    <3>1. \E r : Rearranges(p, r) /\ Len(r) = Len(p) /\ Rising(NodeOrder(s, p), r)
      BY <1>2, <1>4, <2>1, SortStepIs
    <3>2. pc' = "crashed" \/ (pc' = "idle" /\ ret' = Reply(TRUE, 0, <<>>))
      <4>1. ~(len <= 1)
        BY <1>2, <2>1
      <4> QED
        BY <4>1 DEF list_sort, fwdlist_sort, Return
    <3> QED
      BY <3>1, <3>2
  <2>2. CASE ~(len > 1)
    <3>1. Unchanged(TRUE, 0, <<>>)
      BY <2>2 DEF list_sort, fwdlist_sort
    <3>2. Sits(p)' /\ nodes' = nodes /\ pc' = "idle" /\ ret' = Reply(TRUE, 0, <<>>)
      BY <1>1, <1>2, <3>1, UnchangedStep DEF Unchanged, Return, list
    <3>3. Rising(NodeOrder(s, p), p)
      BY <1>2, <2>2 DEF Rising
    <3> QED
      BY <3>2, <3>3 DEF Rearranges, SameData
  <2> QED
    BY <2>1, <2>2
<1>6. PICK r : /\ Rearranges(p, r) /\ Len(r) = Len(p) /\ Rising(NodeOrder(s, p), r)
               /\ pc' = "crashed" \/ (pc' = "idle" /\ ret' = Reply(TRUE, 0, <<>>))
  BY <1>5
<1>7. CASE pc' = "idle" /\ ret' = Reply(TRUE, 0, <<>>)
  <2>1. Shows(p, r)
    BY <1>1, <1>6, <1>7, RearrangedShows
  <2>2. r \in Seq(Cell) /\ Distinct(r)
    BY <1>6, SitsPlacesNext DEF Rearranges, Seated
  <2>3. Elements(nodes', r) = InOrder(s)
    BY <1>2, <1>3, <1>6, <2>2, SortedElements DEF Rearranges
  <2>4. Contents' = InOrder(Contents) /\ ret.done /\ Going' = 0
    BY <1>3, <2>1, <2>3 DEF Shows
  <2>5. Abstract!Sort
    BY <1>1, <1>7, <2>4, SortedSeqIs DEF Reply, Abstract!Sort, Abstract!Succeeds, Abstract!Answers, Abstract!Reply
  <2> QED
    BY <2>5 DEF Abstract!Next
<1> QED
  BY <1>6, <1>7

LEMMA ClearsAsPromised ==
  ASSUME NEW p, Sits(p), list_clear \/ fwdlist_clear
  PROVE  Abstract!Next
<1>1. pc = "idle" /\ kind' = kind /\ op' = "clear" /\ Clear
  BY DEF list_clear, fwdlist_clear, Called
<1>2. Rests(p) /\ Shape(kind, nodes, p) /\ len = Len(p) /\ Len(p) \in Nat /\ (p = <<>> <=> Len(p) = 0)
  BY <1>1, RestsIs DEF Rests
<1>3. pc' = "idle" /\ ret' = Reply(TRUE, 0, <<>>)
  BY <1>1 DEF Clear, Unchanged, Return
<1>4. Sits(<<>>)'
  <2>1. CASE len > 0
    BY <1>1, <1>2, <2>1, ClearStep
  <2>2. CASE ~(len > 0)
    <3>1. Unchanged(TRUE, 0, <<>>) /\ p = <<>>
      BY <1>1, <1>2, <2>2 DEF Clear
    <3>2. Sits(p)'
      BY <1>1, <1>2, <3>1, UnchangedStep
    <3> QED
      BY <3>1, <3>2
  <2> QED
    BY <2>1, <2>2
<1>5. PICK q : q = <<>> /\ Sits(q)' /\ Len(q) = 0
  BY <1>4
<1>6. Shows(p, q)
  BY <1>1, <1>2, <1>3, <1>5, Shown
<1>7. Contents' = <<>>
  <2>1. Elements(nodes', q) = [i \in 1 .. 0 |-> nodes'[q[i]].data]
    BY <1>5 DEF Elements
  <2>2. [i \in 1 .. 0 |-> nodes'[q[i]].data] = <<>>
    OBVIOUS
  <2> QED
    BY <1>6, <2>1, <2>2 DEF Shows
<1>8. ret.done /\ Going' = 0
  BY <1>6 DEF Shows
<1>9. Abstract!Empty
  BY <1>1, <1>3, <1>7, <1>8 DEF Reply, Abstract!Empty, Abstract!Succeeds, Abstract!Answers, Abstract!Reply
<1> QED
  BY <1>9 DEF Abstract!Next

LEMMA LooksAsPromised ==
  ASSUME NEW p, Sits(p), list_foreach \/ list_reveach \/ fwdlist_foreach \/ list_get \/ fwdlist_get
  PROVE  Abstract!Next
<1>1. pc = "idle" /\ kind' = kind
  BY DEF list_foreach, list_reveach, fwdlist_foreach, Walk, list_get, fwdlist_get, Called
<1>2. Rests(p) /\ Shape(kind, nodes, p) /\ first = FirstOf(p) /\ len = Len(p) /\ Len(p) \in Nat
      /\ (p = <<>> <=> Len(p) = 0) /\ last = (IF kind = "bidi" THEN LastOf(p) ELSE NULL)
  BY <1>1, RestsIs DEF Rests
<1>3. PICK s : s = Elements(nodes, p) /\ AreElements(nodes, p, s)
  BY <1>2, ElementsAre
<1>4. s \in Seq(Elems) /\ Len(s) = Len(p) /\ \A i \in 1 .. Len(p) : s[i] = nodes[p[i]].data
  BY <1>3 DEF AreElements
<1>5. Chain(nodes, first, "next") = p /\ Data(first, "next") = s
  BY <1>2, <1>3, ShapeChain, SitsSeq DEF SeqIs
<1>6. \E b, n, t : Unchanged(b, n, t)
  BY DEF list_foreach, list_reveach, fwdlist_foreach, Walk, list_get, fwdlist_get
<1>7. Sits(p)' /\ pc' = "idle" /\ nodes' = nodes
  BY <1>1, <1>2, <1>6, UnchangedStep DEF Unchanged, Return, list
<1>8. Shows(p, p)
  BY <1>1, <1>2, <1>7, Shown
<1>9. Contents = s /\ Contents' = s /\ ret.done /\ Going' = 0
  BY <1>3, <1>7, <1>8 DEF Shows
<1>10. CASE list_foreach \/ fwdlist_foreach
  <2>1. op' = "foreach" /\ ret' = Reply(TRUE, len, s)
    BY <1>5, <1>10 DEF list_foreach, fwdlist_foreach, Walk, Called, Unchanged, Return
  <2>2. Abstract!Look
    BY <1>2, <1>4, <1>9, <2>1 DEF Reply, Abstract!Look, Abstract!Answers, Abstract!Reply
  <2> QED
    BY <2>2 DEF Abstract!Next
<1>11. CASE list_reveach
  <2>1. kind = "bidi" /\ op' = "reveach" /\ ret' = Reply(TRUE, len, Data(last, "prev"))
    BY <1>11 DEF list_reveach, Walk, Called, Unchanged, Return
  <2>2. Chain(nodes, last, "prev") = Reverse(p)
    BY <1>2, <2>1, Backward
  <2>3. Elements(nodes, Reverse(p)) = Reverse(s)
    <3>1. SameData(nodes, nodes, Places(p))
      BY DEF SameData
    <3> QED
      BY <1>2, <1>3, <3>1, TurnedElements
  <2>4. PICK q : q = Reverse(p) /\ DOMAIN q = 1 .. Len(q)
    <3>1. Turned(p, Reverse(p))
      BY <1>2, TurnedIs DEF Shape
    <3> QED
      BY <3>1, PlacesIs DEF Turned
  <2>5. Data(last, "prev") = Reverse(s)
    BY <2>2, <2>3, <2>4 DEF Data, Elements
  <2>6. Abstract!Look
    BY <1>2, <1>4, <1>9, <2>1, <2>5
       DEF Reply, Abstract!Look, Abstract!Answers, Abstract!Reply, Abstract!Reverse, Reverse
  <2> QED
    BY <2>6 DEF Abstract!Next
<1>12. first = NULL <=> s = <<>>
  <2>1. first = NULL <=> p = <<>>
    BY <1>2, PlacesIs, NullAssumption DEF FirstOf, Shape
  <2>2. s = <<>> <=> Len(s) = 0
    BY <1>4
  <2> QED
    BY <1>2, <1>4, <2>1, <2>2
<1>13. ASSUME first # NULL
       PROVE  nodes[first].data = s[1] /\ nodes[LastOf(p)].data = s[Len(s)]
  <2>1. p # <<>> /\ 1 \in 1 .. Len(p) /\ Len(p) \in 1 .. Len(p) /\ first = p[1] /\ LastOf(p) = p[Len(p)]
    BY <1>2, <1>13 DEF FirstOf, LastOf
  <2> QED
    BY <1>4, <2>1
<1>14. CASE list_get
  <2>1. op' = "get" /\ kind = "bidi" /\ ret' = Reply(first # NULL, len,
          IF first = NULL THEN <<>> ELSE <<nodes[first].data, nodes[last].data>>)
    BY <1>14 DEF list_get, Called, Unchanged, Return
  <2>2. ret' = Reply(s # <<>>, Len(s), IF s = <<>> THEN <<>> ELSE <<s[1], s[Len(s)]>>)
    BY <1>2, <1>4, <1>12, <1>13, <2>1
  <2>3. Abstract!Look
    BY <1>9, <2>1, <2>2 DEF Reply, Abstract!Look, Abstract!Answers, Abstract!Reply, Abstract!Last
  <2> QED
    BY <2>3 DEF Abstract!Next
<1>15. CASE fwdlist_get
  <2>1. op' = "get_first" /\ ret' = Reply(first # NULL, len,
          IF first = NULL THEN <<>> ELSE <<nodes[first].data>>)
    BY <1>15 DEF fwdlist_get, Called, Unchanged, Return
  <2>2. ret' = Reply(s # <<>>, Len(s), IF s = <<>> THEN <<>> ELSE <<s[1]>>)
    BY <1>2, <1>4, <1>12, <1>13, <2>1
  <2>3. Abstract!Look
    BY <1>9, <2>1, <2>2 DEF Reply, Abstract!Look, Abstract!Answers, Abstract!Reply
  <2> QED
    BY <2>3 DEF Abstract!Next
<1> QED
  BY <1>10, <1>11, <1>14, <1>15

(* While a removal runs, what it will take out is gone already.            *)
LoopShows(p) ==
  /\ Contents = Without(Elements(nodes, p), arg.drop) /\ Going = len - Len(Contents)
  /\ AreElements(nodes, p, Elements(nodes, p)) /\ ret = Pending /\ ~ret.done

LEMMA LoopShown ==
  ASSUME NEW p, NEW j
  PROVE  Looping(p, j) => LoopShows(p)
<1> SUFFICES ASSUME Looping(p, j) PROVE LoopShows(p)
  OBVIOUS
<1>1. SeqIs(p)
  BY LoopingSits, SitsSeq
<1>2. pc = "remove" /\ ret = Pending
  BY DEF Looping
<1>3. ~ret.done
  BY <1>2 DEF Pending
<1> QED
  BY <1>1, <1>2, <1>3 DEF LoopShows, SeqIs, Contents, Going

LEMMA LoopShownNext ==
  ASSUME NEW p, NEW j
  PROVE  Looping(p, j)' => LoopShows(p)'
<1>1. Looping(p, j) => LoopShows(p)
  BY LoopShown
<1> QED
  BY <1>1, PTL

LEMMA StartsRemovalAsPromised ==
  ASSUME NEW p, Sits(p), StartRemove("bidi") \/ StartRemove("forward")
  PROVE  Abstract!Next
<1>1. pc = "idle" /\ op' \in {"remove_match", "remove_if"} /\ ret' = Pending /\ len' = len
  BY DEF StartRemove, Called, list
<1>2. Rests(p) /\ Shape(kind, nodes, p) /\ len = Len(p) /\ ret.done
  BY <1>1, RestsIs DEF Rests
<1>3. PICK j : j = 0 /\ Looping(p, j)' /\ nodes' = nodes
  BY <1>2, StartRemoveStep
<1>4. LoopShows(p)'
  BY <1>3, LoopShownNext
<1>5. PICK s : s = Elements(nodes, p) /\ AreElements(nodes, p, s)
  BY <1>2, ElementsAre
<1>6. Contents = s /\ Len(s) = len
  BY <1>1, <1>2, <1>5, SitsSeq DEF SeqIs, Contents, AreElements
<1>7. Contents' = Without(s, arg'.drop) /\ Going' = Len(s) - Len(Contents')
  BY <1>1, <1>3, <1>4, <1>5, <1>6 DEF LoopShows
<1>8. Abstract!StartRemoval
  BY <1>1, <1>2, <1>6, <1>7
     DEF Pending, Abstract!StartRemoval, Abstract!Pending, Abstract!Without, Without
<1> QED
  BY <1>8 DEF Abstract!Next

LEMMA RemovesAsPromised ==
  ASSUME NEW p, Sits(p), Removing
  PROVE  Abstract!Next \/ UNCHANGED <<Contents, Going, op, arg, ret>>
<1>1. pc = "remove"
  BY DEF Removing, list_remove_match, list_remove_if, fwdlist_remove_match, fwdlist_remove_if,
         BidiLoop, ForwardLoop, Keep, DropBidi, DropForward, Drop, InLoop, EndRemove
<1>2. PICK j \in 0 .. Len(p) : Looping(p, j)
  BY <1>1, LoopIs
<1>3. Keep \/ EndRemove \/ ((kind = "bidi" /\ DropBidi) \/ (kind = "forward" /\ DropForward))
  BY DEF Removing, list_remove_match, list_remove_if, fwdlist_remove_match, fwdlist_remove_if,
         BidiLoop, ForwardLoop
<1>4. LoopShows(p) /\ Shape(kind, nodes, p)
  BY <1>2, LoopShown DEF Looping
<1>5. PICK s : s = Elements(nodes, p) /\ AreElements(nodes, p, s)
  BY <1>4, ElementsAre
<1>6. s \in Seq(Elems) /\ Len(s) = Len(p) /\ Len(p) \in Nat /\ \A i \in 1 .. Len(p) : s[i] = nodes[p[i]].data
  BY <1>5 DEF AreElements
<1>7. Contents = Without(s, arg.drop) /\ Going = len - Len(Contents) /\ ~ret.done
  BY <1>4, <1>5 DEF LoopShows
<1>8. CASE Keep
  <2>1. PICK k : k = j + 1 /\ Looping(p, k)' /\ nodes' = nodes
    BY <1>2, <1>8, KeepStep
  <2>2. LoopShows(p)'
    BY <2>1, LoopShownNext
  <2>3. op' = op /\ arg' = arg /\ ret' = ret /\ len' = len
    BY <1>8 DEF Keep, list
  <2> QED
    BY <1>5, <1>7, <2>1, <2>2, <2>3 DEF LoopShows
<1>9. CASE (kind = "bidi" /\ DropBidi) \/ (kind = "forward" /\ DropForward)
  <2>1. /\ j + 1 \in 1 .. Len(p) /\ nodes[p[j + 1]].data \in arg.drop
        /\ Looping(Cut(p, j + 1), j)' /\ SameData(nodes, nodes', Places(p) \ {p[j + 1]})
    BY <1>2, <1>9, DropStep
  <2>2. PICK k, q, ms : k = j + 1 /\ q = Cut(p, k) /\ ms = nodes' /\ Looping(q, j)' /\ k \in 1 .. Len(p)
                        /\ nodes[p[k]].data \in arg.drop /\ SameData(nodes, ms, Places(p) \ {p[k]})
    BY <2>1
  <2>3. LoopShows(q)'
    BY <2>2, LoopShownNext
  <2>4. op' = op /\ arg' = arg /\ ret' = ret /\ len' = len
    BY <1>9 DEF DropBidi, DropForward, Drop
  <2>5. PICK t : t = Elements(ms, q) /\ t = RemoveAt(s, k)
    BY <1>4, <1>5, <2>2, CutElements
  <2>6. IsWithout(s, k, t) /\ s[k] \in arg.drop
    BY <1>6, <2>2, <2>5, RemovedAt
  <2>7. Without(t, arg.drop) = Without(s, arg.drop)
    BY <1>6, <2>2, <2>6, WithoutOne
  <2>8. Contents' = Contents
    BY <1>7, <2>2, <2>3, <2>4, <2>5, <2>7 DEF LoopShows
  <2>9. Going' = Going
    BY <1>7, <2>3, <2>4, <2>8 DEF LoopShows
  <2> QED
    BY <2>4, <2>8, <2>9
<1>10. CASE EndRemove
  <2>1. /\ Sits(p)' /\ nodes' = nodes /\ ret' = Reply(TRUE, rem_count, <<>>)
        /\ \A i \in 1 .. Len(p) : nodes[p[i]].data \notin arg.drop
    BY <1>2, <1>10, EndRemoveStep
  <2>2. op' = op /\ arg' = arg /\ pc' = "idle"
    BY <1>10 DEF EndRemove, Return
  <2>3. \A i \in 1 .. Len(s) : s[i] \notin arg.drop
    BY <1>6, <2>1
  <2>4. Without(s, arg.drop) = s
    BY <1>6, <2>3, WithoutNothing
  <2>5. SeqIs(p)'
    BY <2>1, SitsSeqNext
  <2>6. Contents' = s /\ Contents = s /\ Going' = 0
    BY <1>5, <1>7, <2>1, <2>2, <2>4, <2>5 DEF SeqIs, Contents, Going
  <2>7. Going = rem_count
    BY <1>2, <1>6, <1>7, <2>6 DEF Looping
  <2>8. Abstract!EndRemoval
    BY <1>7, <2>1, <2>2, <2>6, <2>7 DEF Reply, Abstract!EndRemoval, Abstract!Reply
  <2> QED
    BY <2>8 DEF Abstract!Next
<1> QED
  BY <1>3, <1>8, <1>9, <1>10

LEMMA StartsAsPromised ==
  Init => Abstract!Init
<1> SUFFICES ASSUME Init PROVE Abstract!Init
  OBVIOUS
<1>1. PICK q : q = <<>> /\ Sits(q) /\ Len(q) = 0
  BY StartsEmpty
<1>2. Contents = Elements(nodes, q) /\ Going = 0
  BY <1>1, SitsSeq DEF SeqIs, Contents, Going, Init
<1>3. Elements(nodes, q) = [i \in 1 .. 0 |-> nodes[q[i]].data]
  BY <1>1 DEF Elements
<1>4. [i \in 1 .. 0 |-> nodes[q[i]].data] = <<>>
  OBVIOUS
<1>5. Contents = <<>>
  BY <1>2, <1>3, <1>4
<1> QED
  BY <1>2, <1>5 DEF Init, Reply, Abstract!Init, Abstract!Reply

LEMMA StepAsPromised ==
  ASSUME LInv, [Next]_vars
  PROVE  \/ pc' = "crashed" \/ Abstract!Next
         \/ UNCHANGED <<Contents, Going, op, arg, ret>>
<1>1. PICK p : Sits(p)
  BY DEF LInv
<1>2. CASE UNCHANGED vars
  BY <1>2 DEF vars, list, loop, Contents, Going, Data, Chain
<1>3. CASE Next
  BY <1>1, <1>3, AddsAsPromised, TakesAsPromised, StartsRemovalAsPromised, RemovesAsPromised,
     TurnsAsPromised, SortsAsPromised, ClearsAsPromised, LooksAsPromised DEF Next
<1> QED
  BY <1>2, <1>3

(* Both lists do to their contents what Sequence promises: stable sorts,   *)
(* reversal, and removals that seem to happen when they start; only the    *)
(* sort of a bidi list of two, which follows a null pointer, is excepted.  *)
THEOREM ImplementsASequence == Spec => ImplementsSequence
<1>1. LInv /\ [Next]_vars =>
        [pc' = "crashed" \/ Abstract!Next]_<<Contents, Going, op, arg, ret>>
  BY StepAsPromised
<1> QED
  BY <1>1, StartsAsPromised, ListInvariant, PTL DEF Spec, ImplementsSequence
===============================================================================
