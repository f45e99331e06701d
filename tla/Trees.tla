--------------------------------- MODULE Trees ---------------------------------
(***************************************************************************)
(* tree_set.c, tree_map.c, tree_multiset.c and tree_multimap.c: the same   *)
(* unbalanced search tree with different payloads.  One call runs at a     *)
(* time; its two loops run one iteration per step, find_tree_node          *)
(* (pc = "find") and the search for the minimum in remove (pc = "min").    *)
(*                                                                         *)
(* A payload is a sequence of values: one NULL in a set, count times NULL  *)
(* in a multiset.  A memory cell is named after the key that is stored     *)
(* there first; which unused cell malloc returns makes no difference.      *)
(***************************************************************************)
EXTENDS Integers, Sequences, FiniteSetsExt, Functions

CONSTANTS Kinds,         \* of "set", "map", "multiset" and "multimap"
          KeysOf,        \* the keys used with each kind, in the comparator's order
          Vals, NULL,
          MaxLen,        \* the caller of a multiset or multimap stops at this size
          Ranges,        \* the lo and hi of tmmap_remove_values; hi counts for a multiset
          TMMAP_GROW(_)  \* a macro the build may override

ASSUME KindsAssumption == Kinds \subseteq {"set", "map", "multiset", "multimap"}
ASSUME KeysAssumption == \A x \in Kinds : KeysOf[x] \subseteq Int
ASSUME RangesAssumption == Ranges \subseteq Nat \X Nat
ASSUME MaxLenAssumption == MaxLen \in Nat
ASSUME GrowAssumption == \A n \in 1 .. MaxLen : TMMAP_GROW(n) \in Nat /\ TMMAP_GROW(n) >= n

Keys == UNION {KeysOf[x] : x \in Kinds}
Cell == Keys \X {0, 1}
ASSUME NullAssumption == NULL \notin Cell

VARIABLES kind,
          len, root, nodes,    \* the tree, and the cells allocated
          pc, op, arg, ret,    \* the running or last call
          link,                \* find_tree_node: the pointer that node points to
          parent, min          \* remove: the pointers of that name

tree == <<len, root, nodes>>
call == <<kind, op, arg>>
splice == <<parent, min>>
vars == <<tree, call, pc, ret, link, splice>>

Multi == kind \in {"multiset", "multimap"}
ValsOf(x) == IF x \in {"set", "multiset"} THEN {NULL} ELSE Vals

Arg(x, v, l, h) == [key |-> x, val |-> v, lo |-> l, hi |-> h]
Pending == [done |-> FALSE, ok |-> FALSE, num |-> 0, seq |-> <<>>]
Reply(b, n, s) == [done |-> TRUE, ok |-> b, num |-> n, seq |-> s]

(* A pointer to a pointer: a node's lhs or rhs, or the tree's root.        *)
RootLink == [at |-> NULL, side |-> "root"]
Deref(l) == IF l.at = NULL THEN root ELSE nodes[l.at][l.side]

Init == /\ kind \in Kinds
        /\ len = 0 /\ root = NULL /\ nodes = [c \in {} |-> NULL]
        /\ pc = "idle" /\ op = "init" /\ arg = Arg(NULL, NULL, 0, 0)
        /\ ret = Reply(TRUE, 0, <<>>)
        /\ link = RootLink /\ parent = NULL /\ min = NULL

Return(b, n, s) == /\ pc' = "idle" /\ ret' = Reply(b, n, s)
                   /\ link' = RootLink /\ parent' = NULL /\ min' = NULL

-------------------------------------------------------------------------------
(* Links and cells.                                                        *)

(* The pointer at l becomes n.                                             *)
Relink(ns, l, n) == IF l.at = NULL THEN ns ELSE [ns EXCEPT ![l.at][l.side] = n]
RootWith(l, n) == IF l.at = NULL THEN n ELSE root

(* The nodes from n down.                                                  *)
Closed(ns, S) == \A m \in S : {ns[m].lhs, ns[m].rhs} \ {NULL} \subseteq S
Below(ns, n) ==
  IF n = NULL THEN {}
  ELSE {m \in DOMAIN ns : \A S \in SUBSET DOMAIN ns : n \in S /\ Closed(ns, S) => m \in S}

free_subsequent_nodes(ns, n) == Restrict(ns, DOMAIN ns \ Below(ns, n))

create_new_node(x, v) ==
  [key |-> x, vals |-> <<v>>, cap |-> IF kind = "multimap" THEN TMMAP_GROW(1) ELSE 1,
   lhs |-> NULL, rhs |-> NULL]

With(ns, c, node) == [m \in DOMAIN ns \cup {c} |-> IF m = c THEN node ELSE ns[m]]
FreeCell(x) == IF <<x, 0>> \notin DOMAIN nodes THEN <<x, 0>> ELSE <<x, 1>>

-------------------------------------------------------------------------------
(* find_tree_node and the functions that start with it.                    *)

StartFind(o, a) ==
  /\ pc = "idle" /\ op' = o /\ arg' = a /\ UNCHANGED kind
  /\ pc' = "find" /\ link' = RootLink /\ ret' = Pending /\ UNCHANGED <<tree, splice>>

StartPut == \E o \in {"put", "put_if_absent"}, x \in KeysOf[kind], v \in ValsOf(kind) :
              (Multi => len < MaxLen) /\ StartFind(o, Arg(x, v, 0, 0))

(* get stands for the has_key, count_matches and get of each container.    *)
StartOnKey == \E o \in {"remove", "get"}, x \in KeysOf[kind] :
                StartFind(o, Arg(x, NULL, 0, 0))

StartGetOrDefault == \E x \in KeysOf[kind], v \in ValsOf(kind) :
  kind \in {"map", "multimap"} /\ StartFind("get_or_default", Arg(x, v, 0, 0))

(* tmset_remove_count has hi for count.                                    *)
StartRemoveCount == \E x \in KeysOf[kind], r \in Ranges :
  kind = "multiset" /\ StartFind("remove_some", Arg(x, NULL, 0, r[2]))

StartRemoveValues == \E x \in KeysOf[kind], r \in Ranges :
  /\ kind = "multimap"
  /\ \/ r[1] < r[2] /\ StartFind("remove_some", Arg(x, NULL, r[1], r[2]))
     \/ /\ r[1] >= r[2] /\ pc = "idle"
        /\ op' = "remove_some" /\ arg' = Arg(x, NULL, r[1], r[2])
        /\ Return(TRUE, 0, <<>>) /\ UNCHANGED <<tree, kind>>

current == Deref(link)

(* Mutant: the larger keys are looked for on the left.                     *)
SideMirrored(x, y) == IF x > y THEN "lhs" ELSE "rhs"

Side(x, y) == IF x > y THEN "rhs" ELSE "lhs"

FindNext ==
  /\ pc = "find" /\ current # NULL /\ nodes[current].key # arg.key
  /\ link' = [at |-> current, side |-> Side(arg.key, nodes[current].key)]
  /\ UNCHANGED <<tree, call, pc, ret, splice>>

Missed(o) == pc = "find" /\ op = o /\ current = NULL
Hit(o) == pc = "find" /\ op = o /\ current # NULL /\ nodes[current].key = arg.key

-------------------------------------------------------------------------------
(* Putting.                                                                *)

AddNode ==
  \/ Return(FALSE, 0, <<>>) /\ UNCHANGED <<tree, call>>       \* malloc failed
  \/ LET c == FreeCell(arg.key)
     IN  /\ nodes' = Relink(With(nodes, c, create_new_node(arg.key, arg.val)), link, c)
         /\ root' = RootWith(link, c) /\ len' = len + 1
         /\ Return(TRUE, 0, <<>>) /\ UNCHANGED call

tset_put ==
  /\ kind = "set"
  /\ \/ Missed("put") /\ AddNode
     \/ Hit("put") /\ Return(TRUE, 0, <<>>) /\ UNCHANGED <<tree, call>>

tmap_put ==
  /\ kind = "map"
  /\ \/ Missed("put") /\ AddNode
     \/ /\ Hit("put") /\ nodes' = [nodes EXCEPT ![current].vals = <<arg.val>>]
        /\ Return(TRUE, 0, <<>>) /\ UNCHANGED <<len, root, call>>

OneMore == Append(nodes[current].vals, arg.val)

tmset_put ==
  /\ kind = "multiset"
  /\ \/ Missed("put") /\ AddNode
     \/ /\ Hit("put") /\ nodes' = [nodes EXCEPT ![current].vals = OneMore] /\ len' = len + 1
        /\ Return(TRUE, 0, <<>>) /\ UNCHANGED <<root, call>>

(* Mutant: the room there is counts as the room for one more.              *)
NewSizeShort == Len(nodes[current].vals)

NewSize == Len(nodes[current].vals) + 1

(* realloc leaves the node where it is or moves it to c.                   *)
Resized(c) ==
  LET grown == [nodes[current] EXCEPT !.vals = OneMore, !.cap = TMMAP_GROW(NewSize)]
  IN  /\ nodes' = Relink(With(Restrict(nodes, DOMAIN nodes \ {current}), c, grown), link, c)
      /\ root' = RootWith(link, c)

tmmap_put ==
  /\ kind = "multimap"
  /\ \/ Missed("put") /\ AddNode
     \/ /\ Hit("put") /\ nodes[current].cap < NewSize
        /\ Return(FALSE, 0, <<>>) /\ UNCHANGED <<tree, call>>   \* realloc failed
     \/ /\ Hit("put") /\ nodes[current].cap < NewSize
        /\ \E c \in {current, FreeCell(arg.key)} : Resized(c)
        /\ len' = len + 1 /\ Return(TRUE, 0, <<>>) /\ UNCHANGED call
     \/ /\ Hit("put") /\ nodes[current].cap >= NewSize
        /\ nodes' = [nodes EXCEPT ![current].vals = OneMore] /\ len' = len + 1
        /\ Return(TRUE, 0, <<>>) /\ UNCHANGED <<root, call>>

PutIfAbsent ==
  \/ Missed("put_if_absent") /\ AddNode
  \/ Hit("put_if_absent") /\ Return(FALSE, 0, <<>>) /\ UNCHANGED <<tree, call>>

tset_put_if_absent == kind = "set" /\ PutIfAbsent
tmap_put_if_absent == kind = "map" /\ PutIfAbsent
tmset_put_if_absent == kind = "multiset" /\ PutIfAbsent
tmmap_put_if_absent == kind = "multimap" /\ PutIfAbsent

-------------------------------------------------------------------------------
(* Removing.                                                               *)

(* The two short ways of remove_node: the only child moves up to link.     *)
PullUp(side, other) ==
  LET heir == nodes[current][side]
      detached == [Relink(nodes, link, heir) EXCEPT ![current][side] = NULL]
  IN  /\ nodes[current][other] = NULL
      /\ nodes' = free_subsequent_nodes(detached, current)
      /\ root' = RootWith(link, heir)

(* remove_node as far as its loop; the answer is known by now.             *)
remove_node(n) ==
  \/ PullUp("rhs", "lhs") /\ Return(TRUE, n, <<>>)
  \/ nodes[current].lhs # NULL /\ PullUp("lhs", "rhs") /\ Return(TRUE, n, <<>>)
  \/ /\ nodes[current].lhs # NULL /\ nodes[current].rhs # NULL
     /\ pc' = "min" /\ parent' = current /\ min' = nodes[current].rhs
     /\ UNCHANGED <<root, nodes, ret, link>>

(* Mutant: the loop does not move on.                                      *)
StuckMin == min

NextMin == nodes[min].lhs

MinNext ==
  /\ pc = "min" /\ nodes[min].lhs # NULL
  /\ parent' = min /\ min' = NextMin
  /\ UNCHANGED <<tree, call, pc, ret, link>>

(* Mutant: the minimum is always taken for a left child.                   *)
LeftChild == "lhs"

MinSide == IF parent = current THEN "rhs" ELSE "lhs"

(* Mutant: current keeps its right subtree, which is freed with it.        *)
DetachedLeft(ns) == [ns EXCEPT ![current].lhs = NULL]

Detached(ns) == [ns EXCEPT ![current].lhs = NULL, ![current].rhs = NULL]

(* What remove_node answers is what the call removed.                      *)
Removed == IF op = "remove" THEN 0 ELSE Len(nodes[current].vals)

(* The minimum's right child takes its place, and it takes current's.      *)
MinEnds ==
  /\ pc = "min" /\ nodes[min].lhs = NULL
  /\ LET cut == [nodes EXCEPT ![parent][MinSide] = nodes[min].rhs]
         moved == Relink(cut, link, min)
         joined == [moved EXCEPT ![min].lhs = cut[current].lhs, ![min].rhs = cut[current].rhs]
     IN  nodes' = free_subsequent_nodes(Detached(joined), current)
  /\ root' = RootWith(link, min)
  /\ Return(TRUE, Removed, <<>>) /\ UNCHANGED <<len, call>>

(* Mutant: a key counts once.                                              *)
WeightOne == 1

Weight == Len(nodes[current].vals)

Remove ==
  \/ Missed("remove") /\ Return(FALSE, 0, <<>>) /\ UNCHANGED <<tree, call>>
  \/ Hit("remove") /\ len' = len - Weight /\ remove_node(0) /\ UNCHANGED call

tset_remove == kind = "set" /\ Remove
tmap_remove == kind = "map" /\ Remove
tmset_remove == kind = "multiset" /\ Remove
tmmap_remove == kind = "multimap" /\ Remove

Nothing == Return(TRUE, 0, <<>>) /\ UNCHANGED <<tree, call>>

(* n values go, all but those from position keep on.                       *)
Shorten(vals, n) ==
  /\ nodes' = [nodes EXCEPT ![current].vals = vals] /\ len' = len - n
  /\ Return(TRUE, n, <<>>) /\ UNCHANGED <<root, call>>

tmset_remove_count ==
  /\ kind = "multiset"
  /\ \/ Missed("remove_some") /\ Nothing
     \/ /\ Hit("remove_some") /\ Weight > arg.hi
        /\ Shorten(SubSeq(nodes[current].vals, 1, Weight - arg.hi), arg.hi)
     \/ /\ Hit("remove_some") /\ Weight <= arg.hi
        /\ len' = len - Weight /\ remove_node(Weight) /\ UNCHANGED call

(* Mutant: the upper bound is not cut to the values there are.             *)
UpperBound == arg.hi

MaxIdx == IF Weight < arg.hi THEN Weight ELSE arg.hi

tmmap_remove_values ==
  /\ kind = "multimap"
  /\ \/ Missed("remove_some") /\ Nothing
     \/ Hit("remove_some") /\ arg.lo >= Weight /\ Nothing
     \/ /\ Hit("remove_some") /\ MaxIdx = Weight /\ arg.lo = 0
        /\ len' = len - Weight /\ remove_node(Weight) /\ UNCHANGED call
     \/ /\ Hit("remove_some") /\ arg.lo < Weight /\ ~(MaxIdx = Weight /\ arg.lo = 0)
        /\ LET v == nodes[current].vals
           IN  Shorten(SubSeq(v, 1, arg.lo) \o SubSeq(v, MaxIdx + 1, Weight), MaxIdx - arg.lo)

-------------------------------------------------------------------------------
(* Looking up, walking and clearing.                                       *)

Get ==
  \/ Missed("get") /\ Return(FALSE, 0, <<>>) /\ UNCHANGED <<tree, call>>
  \/ Hit("get") /\ Return(TRUE, Weight, nodes[current].vals) /\ UNCHANGED <<tree, call>>

GetOrDefault ==
  \/ Missed("get_or_default") /\ Return(TRUE, 0, <<arg.val>>) /\ UNCHANGED <<tree, call>>
  \/ /\ Hit("get_or_default") /\ Return(TRUE, 0, <<nodes[current].vals[1]>>)
     /\ UNCHANGED <<tree, call>>

(* The nodes with a key that is asked for, in order; k bounds the depth.   *)
inorder(asked) ==
  LET walk[k \in 0 .. Cardinality(DOMAIN nodes)] == [n \in DOMAIN nodes \cup {NULL} |->
        IF k = 0 \/ n = NULL THEN <<>>
        ELSE walk[k - 1][nodes[n].lhs]
               \o (IF nodes[n].key \in asked
                     THEN <<[key |-> nodes[n].key, vals |-> nodes[n].vals]>> ELSE <<>>)
               \o walk[k - 1][nodes[n].rhs]]
  IN  walk[Cardinality(DOMAIN nodes)][root]

traversal_inorder == inorder(KeysOf[kind])
traversal_inorder_gt(x) == inorder({y \in KeysOf[kind] : y > x})
traversal_inorder_lt(x) == inorder({y \in KeysOf[kind] : y < x})

Walk(o, x, s) ==
  /\ pc = "idle" /\ op' = o /\ arg' = Arg(x, NULL, 0, 0)
  /\ Return(TRUE, 0, s) /\ UNCHANGED <<tree, kind>>

Walks ==
  \/ Walk("foreach", NULL, traversal_inorder)
  \/ \E x \in KeysOf[kind] : \/ Walk("foreach_gt", x, traversal_inorder_gt(x))
                              \/ Walk("foreach_lt", x, traversal_inorder_lt(x))

(* free_tset and the like do the same.                                     *)
Clear ==
  /\ pc = "idle" /\ op' = "clear" /\ arg' = Arg(NULL, NULL, 0, 0)
  /\ IF len > 0
       THEN len' = 0 /\ root' = NULL /\ nodes' = free_subsequent_nodes(nodes, root)
       ELSE UNCHANGED tree
  /\ Return(TRUE, 0, <<>>) /\ UNCHANGED kind

-------------------------------------------------------------------------------
Ends == \/ tset_put \/ tmap_put \/ tmset_put \/ tmmap_put
        \/ tset_put_if_absent \/ tmap_put_if_absent
        \/ tmset_put_if_absent \/ tmmap_put_if_absent
        \/ tset_remove \/ tmap_remove \/ tmset_remove \/ tmmap_remove
        \/ tmset_remove_count \/ tmmap_remove_values
        \/ Get \/ GetOrDefault

Running == FindNext \/ Ends \/ MinNext \/ MinEnds

Next == \/ StartPut \/ StartOnKey \/ StartGetOrDefault \/ StartRemoveCount
        \/ StartRemoveValues \/ Walks \/ Clear \/ Running

(* A running call is never left by the only thread there is.               *)
Spec == Init /\ [][Next]_vars /\ WF_vars(Running)

-------------------------------------------------------------------------------
(* Properties.                                                             *)

(* Every pointer is NULL or points to allocated memory, and those that are *)
(* followed are not NULL.                                                  *)
Pointer == DOMAIN nodes \cup {NULL}
TypeOK ==
  /\ kind \in Kinds /\ len \in Nat /\ root \in Pointer /\ DOMAIN nodes \subseteq Cell
  /\ \A n \in DOMAIN nodes :
       /\ nodes[n].key \in KeysOf[kind] /\ nodes[n].cap \in Nat
       /\ nodes[n].vals \in Seq(ValsOf(kind)) \ {<<>>}
       /\ nodes[n].lhs \in Pointer /\ nodes[n].rhs \in Pointer
  /\ pc \in {"idle", "find", "min"} /\ parent \in Pointer /\ min \in Pointer
  /\ link = RootLink \/ link \in [at : DOMAIN nodes, side : {"lhs", "rhs"}]
  /\ pc = "min" => current # NULL /\ parent # NULL /\ min # NULL

(* The allocated nodes hang from the root, each by exactly one pointer:    *)
(* no splice leaks a node, frees one in use or closes a circle.            *)
Links == {RootLink} \cup [at : DOMAIN nodes, side : {"lhs", "rhs"}]
IsTree ==
  /\ Below(nodes, root) = DOMAIN nodes
  /\ \A n \in DOMAIN nodes : Cardinality({l \in Links : Deref(l) = n}) = 1

(* Search order: what is left of a node is smaller, what is right larger.  *)
Ordered ==
  \A n \in DOMAIN nodes :
    /\ \A m \in Below(nodes, nodes[n].lhs) : nodes[m].key < nodes[n].key
    /\ \A m \in Below(nodes, nodes[n].rhs) : nodes[m].key > nodes[n].key

(* len counts the values stored; a node about to be spliced out is no      *)
(* longer counted.  clear relies on it to free anything at all.            *)
Stored == IF pc = "min" THEN DOMAIN nodes \ {current} ELSE DOMAIN nodes
LenExact == len = MapThenSumSet(LAMBDA n : Len(nodes[n].vals), Stored)

(* A multimap node never holds more values than its memory has room for,   *)
(* whatever TMMAP_GROW a build chooses.                                    *)
Fits == kind = "multimap" => \A n \in DOMAIN nodes : Len(nodes[n].vals) <= nodes[n].cap

(* A pointer that a get or a walk handed out stays good until its own key  *)
(* is put or removed: no call moves, frees or rewrites another key's node. *)
PointersStay ==
  [][op' # "clear" =>
       \A n \in DOMAIN nodes : nodes[n].key # arg'.key =>
         /\ n \in DOMAIN nodes'
         /\ nodes'[n].key = nodes[n].key /\ nodes'[n].vals = nodes[n].vals]_vars

(* Every call returns: both loops go down the tree.                        *)
CallsReturn == pc # "idle" ~> pc = "idle"

(* The tree is an ordered association, for every shape it can take.        *)
NodeOf(x) == CHOOSE n \in DOMAIN nodes : nodes[n].key = x
DictOf == [x \in {nodes[n].key : n \in Below(nodes, root)} |-> nodes[NodeOf(x)].vals]

Association == INSTANCE Assoc WITH dict <- DictOf
ImplementsAssoc == Association!Spec
===============================================================================
