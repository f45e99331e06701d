--------------------------------- MODULE Lists ---------------------------------
(***************************************************************************)
(* bidi_list.c and forward_list.c, link by link.  A call is one step, but  *)
(* for remove_match and remove_if: their loop runs one iteration per step  *)
(* (pc = "remove"), since it calls the caller's predicate while the list   *)
(* is half done.  Where C follows a null pointer the program is over       *)
(* (pc = "crashed").                                                       *)
(*                                                                         *)
(* A node of a forward list has no prev, and the list no last: they stay   *)
(* NULL.  malloc returns the first free cell: which one it is does not     *)
(* matter.                                                                 *)
(***************************************************************************)
EXTENDS Integers, SequencesExt, Kept

CONSTANTS Kinds,        \* of "bidi" and "forward"
          Elems, NULL,
          comp(_, _),   \* the comparator given to sort
          Predicates,   \* given to remove_if, as the elements each is true of
          MaxLen        \* there is memory for this many nodes

ASSUME KindsAssumption == Kinds \subseteq {"bidi", "forward"}
ASSUME PredicatesAssumption == Predicates \subseteq SUBSET Elems
ASSUME MaxLenAssumption == MaxLen \in Nat

(* A comparator as of qsort: a weak order of the elements.                 *)
ASSUME CompAssumption ==
  /\ \A x, y \in Elems : comp(x, y) \in Int /\ (comp(x, y) < 0 <=> comp(y, x) > 0)
  /\ \A x, y, z \in Elems : comp(x, y) <= 0 /\ comp(y, z) <= 0 => comp(x, z) <= 0

Cell == 1 .. MaxLen
ASSUME NullAssumption == NULL \notin Cell

VARIABLES kind,
          len, first, last, nodes,   \* the list, and the cells allocated
          pc, op, arg, ret,          \* the running or last call
          entry, rem_count           \* remove_match and remove_if: the node whose
                                     \* next entry points to, NULL for the list's first

list == <<len, first, last, nodes>>
loop == <<entry, rem_count>>
vars == <<kind, list, pc, op, arg, ret, loop>>

Arg(i, s, d) == [at |-> i, els |-> s, drop |-> d]
Pending == [done |-> FALSE, ok |-> FALSE, num |-> 0, out |-> <<>>]
Reply(b, n, s) == [done |-> TRUE, ok |-> b, num |-> n, out |-> s]

Init == /\ kind \in Kinds
        /\ len = 0 /\ first = NULL /\ last = NULL /\ nodes = [c \in {} |-> NULL]
        /\ pc = "idle" /\ op = "init" /\ arg = Arg(0, <<>>, {})
        /\ ret = Reply(TRUE, 0, <<>>) /\ entry = NULL /\ rem_count = 0

(* Call o of a list of kind x, with its arguments.                         *)
Called(x, o, a) == kind = x /\ pc = "idle" /\ op' = o /\ arg' = a /\ UNCHANGED kind

Return(b, n, s) == pc' = "idle" /\ ret' = Reply(b, n, s) /\ entry' = NULL /\ rem_count' = 0

Unchanged(b, n, s) == Return(b, n, s) /\ UNCHANGED list

-------------------------------------------------------------------------------
(* Links.                                                                  *)

(* n->side = m, for an n that is not NULL.                                 *)
SetLink(ns, n, side, m) == IF n = NULL THEN ns ELSE [ns EXCEPT ![n][side] = m]

(* The nodes met from n on, following side.                                *)
Chain(ns, n, side) ==
  LET walk[k \in 0 .. Cardinality(DOMAIN ns)] ==
        [m \in DOMAIN ns \cup {NULL} |->
           IF k = 0 \/ m = NULL THEN <<>> ELSE <<m>> \o walk[k - 1][ns[m][side]]]
  IN  walk[Cardinality(DOMAIN ns)][n]

free_subsequent_nodes(ns, n) == Restrict(ns, DOMAIN ns \ ToSet(Chain(ns, n, "next")))

(* make_node, and what fwdlist_add_first has in its place.                 *)
make_node(e) == [data |-> e, prev |-> NULL, next |-> NULL]
HasMemory == Cell \ DOMAIN nodes # {}
new_ent == Min(Cell \ DOMAIN nodes)
WithNew(e) == [n \in DOMAIN nodes \cup {new_ent} |-> IF n = new_ent THEN make_node(e) ELSE nodes[n]]

(* ins gets spot on its side `to' and what spot had there on the other.    *)
InsertBeside(ns, spot, ins, to, back) ==
  LET beyond == IF spot = NULL THEN NULL ELSE ns[spot][back]
      placed == [ns EXCEPT ![ins][to] = spot, ![ins][back] = beyond]
  IN  SetLink(SetLink(placed, beyond, to, ins), spot, back, ins)

insert_before(ns, spot, ins) == InsertBeside(ns, spot, ins, "next", "prev")
insert_after(ns, spot, ins) == InsertBeside(ns, spot, ins, "prev", "next")

(* Mutant: the node after spot keeps its prev.                             *)
remove_at_forward(ns, spot) == SetLink(ns, ns[spot].prev, "next", ns[spot].next)

remove_at(ns, spot) ==
  SetLink(SetLink(ns, ns[spot].prev, "next", ns[spot].next), ns[spot].next, "prev", ns[spot].prev)

(* Mutant: the node still points into the list.                            *)
StillLinked(ns, n) == ns

Unlinked(ns, n) == SetLink(SetLink(ns, n, "prev", NULL), n, "next", NULL)

(* n is cut loose and freed.                                               *)
Freed(ns, n) == free_subsequent_nodes(Unlinked(ns, n), n)

-------------------------------------------------------------------------------
(* Adding and removing at the ends.                                        *)

list_add_first == \E e \in Elems :
  /\ Called("bidi", "add_first", Arg(0, <<e>>, {}))
  /\ \/ Unchanged(FALSE, 0, <<>>)                             \* malloc failed
     \/ /\ HasMemory
        /\ nodes' = insert_before(WithNew(e), first, new_ent)
        /\ first' = new_ent /\ last' = IF len = 0 THEN new_ent ELSE last
        /\ len' = len + 1 /\ Return(TRUE, 0, <<>>)

list_add_last == \E e \in Elems :
  /\ Called("bidi", "add_last", Arg(0, <<e>>, {}))
  /\ \/ Unchanged(FALSE, 0, <<>>)
     \/ /\ HasMemory
        /\ nodes' = insert_after(WithNew(e), last, new_ent)
        /\ last' = new_ent /\ first' = IF len = 0 THEN new_ent ELSE first
        /\ len' = len + 1 /\ Return(TRUE, 0, <<>>)

fwdlist_add_first == \E e \in Elems :
  /\ Called("forward", "add_first", Arg(0, <<e>>, {}))
  /\ \/ Unchanged(FALSE, 0, <<>>)
     \/ /\ HasMemory
        /\ nodes' = SetLink(WithNew(e), new_ent, "next", first)
        /\ first' = new_ent /\ len' = len + 1 /\ Return(TRUE, 0, <<>>) /\ UNCHANGED last

list_remove_first ==
  /\ Called("bidi", "remove_first", Arg(0, <<>>, {}))
  /\ \/ len = 0 /\ Unchanged(FALSE, 0, <<>>)
     \/ /\ len # 0
        /\ first' = nodes[first].next /\ last' = IF len = 1 THEN NULL ELSE last
        /\ nodes' = Freed(remove_at(nodes, first), first)
        /\ len' = len - 1 /\ Return(TRUE, 0, <<nodes[first].data>>)

list_remove_last ==
  /\ Called("bidi", "remove_last", Arg(0, <<>>, {}))
  /\ \/ len = 0 /\ Unchanged(FALSE, 0, <<>>)
     \/ /\ len # 0
        /\ last' = nodes[last].prev /\ first' = IF len = 1 THEN NULL ELSE first
        /\ nodes' = Freed(remove_at(nodes, last), last)
        /\ len' = len - 1 /\ Return(TRUE, 0, <<nodes[last].data>>)

fwdlist_remove_first ==
  /\ Called("forward", "remove_first", Arg(0, <<>>, {}))
  /\ \/ len = 0 /\ Unchanged(FALSE, 0, <<>>)
     \/ /\ len # 0
        /\ first' = nodes[first].next /\ nodes' = Freed(nodes, first)
        /\ len' = len - 1 /\ Return(TRUE, 0, <<nodes[first].data>>) /\ UNCHANGED last

-------------------------------------------------------------------------------
(* remove_match and remove_if.                                             *)

(* len is not touched before the loop ends.                                *)
StartRemove(x) ==
  /\ \/ \E e \in Elems : Called(x, "remove_match", Arg(0, <<>>, {e}))
     \/ \E P \in Predicates : Called(x, "remove_if", Arg(0, <<>>, P))
  /\ pc' = "remove" /\ ret' = Pending /\ entry' = NULL /\ rem_count' = 0 /\ UNCHANGED list

(* The node that *entry points to.                                         *)
current == IF entry = NULL THEN first ELSE nodes[entry].next

InLoop == pc = "remove" /\ current # NULL
Matches == nodes[current].data \in arg.drop

(* Mutant: the loop does not move on.                                      *)
SameEntry == entry

NextEntry == current

Keep == /\ InLoop /\ ~Matches /\ entry' = NextEntry
        /\ UNCHANGED <<kind, list, pc, op, arg, ret, rem_count>>

(* *entry = del_node->next, and the node is freed; ns has its neighbours   *)
(* relinked already.                                                       *)
Drop(ns) ==
  /\ InLoop /\ Matches
  /\ first' = IF entry = NULL THEN nodes[current].next ELSE first
  /\ nodes' = Freed(SetLink(ns, entry, "next", nodes[current].next), current)
  /\ rem_count' = rem_count + 1 /\ UNCHANGED <<kind, len, pc, op, arg, ret, entry>>

(* Mutant: last is not moved back.                                         *)
LastStays == last

LastAfterDrop == IF current = last THEN nodes[current].prev ELSE last

DropBidi == Drop(remove_at(nodes, current)) /\ last' = LastAfterDrop
DropForward == Drop(nodes) /\ UNCHANGED last

EndRemove ==
  /\ pc = "remove" /\ current = NULL
  /\ len' = len - rem_count /\ Return(TRUE, rem_count, <<>>)
  /\ UNCHANGED <<kind, first, last, nodes, op, arg>>

BidiLoop(o) == kind = "bidi" /\ op = o /\ (Keep \/ DropBidi \/ EndRemove)
ForwardLoop(o) == kind = "forward" /\ op = o /\ (Keep \/ DropForward \/ EndRemove)

list_remove_match == BidiLoop("remove_match")
list_remove_if == BidiLoop("remove_if")
fwdlist_remove_match == ForwardLoop("remove_match")
fwdlist_remove_if == ForwardLoop("remove_if")

-------------------------------------------------------------------------------
(* Reversing and sorting.                                                  *)

list_reverse ==
  /\ Called("bidi", "reverse", Arg(0, <<>>, {}))
  /\ LET met == ToSet(Chain(nodes, first, "next"))
     IN  nodes' = [n \in DOMAIN nodes |->
                     IF n \in met THEN [nodes[n] EXCEPT !.next = nodes[n].prev, !.prev = nodes[n].next]
                     ELSE nodes[n]]
  /\ first' = last /\ last' = first /\ Return(TRUE, 0, <<>>) /\ UNCHANGED len

(* The node that comes before n.                                           *)
prev(met, n) ==
  LET at == CHOOSE k \in DOMAIN met : met[k] = n IN IF at = 1 THEN NULL ELSE met[at - 1]

fwdlist_reverse ==
  /\ Called("forward", "reverse", Arg(0, <<>>, {}))
  /\ LET met == Chain(nodes, first, "next")
     IN  /\ nodes' = [n \in DOMAIN nodes |->
                        IF n \in ToSet(met) THEN [nodes[n] EXCEPT !.next = prev(met, n)] ELSE nodes[n]]
         /\ first' = IF met = <<>> THEN NULL ELSE Last(met)
  /\ Return(TRUE, 0, <<>>) /\ UNCHANGED <<len, last>>

(* Mutant: equal elements come from the second half first.                 *)
SecondFirst(x, y) == comp(x, y) < 0

FirstFirst(x, y) == comp(x, y) <= 0

(* The merged nodes and their head; only a bidi list has a prev to mend.   *)
(* k bounds the depth of the recursion, here as in the walk of Chain.      *)
merge_list(ns, head1, head2) ==
  LET Spot == DOMAIN ns \cup {NULL}
      merge[k \in 0 .. Cardinality(DOMAIN ns)] == [split1 \in Spot |-> [split2 \in Spot |->
        IF k = 0 \/ split1 = NULL \/ split2 = NULL
          THEN [nodes |-> ns, head |-> IF split1 = NULL THEN split2 ELSE split1]
          ELSE LET newhead == IF FirstFirst(ns[split1].data, ns[split2].data)
                                THEN split1 ELSE split2
                   sub == IF newhead = split1 THEN merge[k - 1][ns[split1].next][split2]
                                              ELSE merge[k - 1][split1][ns[split2].next]
                   joined == SetLink(sub.nodes, newhead, "next", sub.head)
               IN  [nodes |-> IF kind = "forward" THEN joined
                              ELSE SetLink(SetLink(joined, newhead, "prev", NULL),
                                           sub.head, "prev", newhead),
                    head |-> newhead]]]
  IN  merge[Cardinality(DOMAIN ns)][head1][head2]

(* The last node of the first half: where slow stops.                      *)
slow(ns, head) == LET met == Chain(ns, head, "next") IN met[(Len(met) + 1) \div 2]

(* The sorted nodes, and what first points to in the end.                  *)
Node(D) == [data : Elems, prev : D \cup {NULL}, next : D \cup {NULL}]
sort_helper(ns, first1) ==
  LET D == DOMAIN ns
      sort[k \in 0 .. Cardinality(D)] == [ms \in [D -> Node(D)] |-> [head \in D \cup {NULL} |->
        IF k = 0 \/ head = NULL \/ ms[head].next = NULL THEN [nodes |-> ms, head |-> head]
        ELSE LET cut == slow(ms, head)
                 half1 == sort[k - 1][SetLink(ms, cut, "next", NULL)][head]
                 half2 == sort[k - 1][half1.nodes][ms[cut].next]
             IN  merge_list(half2.nodes, half1.head, half2.head)]]
  IN  sort[Cardinality(D)][ns][first1]

(* last is looked for from the third node on, which a list of two has not. *)
list_sort ==
  /\ Called("bidi", "sort", Arg(0, <<>>, {}))
  /\ \/ len <= 1 /\ Unchanged(TRUE, 0, <<>>)
     \/ /\ len > 1
        /\ LET sorted == sort_helper(nodes, first)
               third == sorted.nodes[sorted.nodes[sorted.head].next].next
           IN  /\ nodes' = sorted.nodes /\ first' = sorted.head /\ UNCHANGED len
               /\ \/ /\ third # NULL /\ last' = Last(Chain(sorted.nodes, third, "next"))
                     /\ Return(TRUE, 0, <<>>)
                  \/ third = NULL /\ pc' = "crashed" /\ ret' = Pending /\ UNCHANGED <<last, loop>>

fwdlist_sort ==
  /\ Called("forward", "sort", Arg(0, <<>>, {}))
  /\ \/ len <= 1 /\ Unchanged(TRUE, 0, <<>>)
     \/ /\ len > 1
        /\ LET sorted == sort_helper(nodes, first)
           IN  nodes' = sorted.nodes /\ first' = sorted.head
        /\ Return(TRUE, 0, <<>>) /\ UNCHANGED <<len, last>>

-------------------------------------------------------------------------------
(* Clearing and looking.                                                   *)

(* free_list and free_fwdlist do the same.                                 *)
Clear ==
  \/ len = 0 /\ Unchanged(TRUE, 0, <<>>)
  \/ /\ len > 0
     /\ nodes' = free_subsequent_nodes(nodes, first) /\ len' = 0 /\ first' = NULL /\ last' = NULL
     /\ Return(TRUE, 0, <<>>)

list_clear == Called("bidi", "clear", Arg(0, <<>>, {})) /\ Clear
fwdlist_clear == Called("forward", "clear", Arg(0, <<>>, {})) /\ Clear

Data(n, side) == LET met == Chain(nodes, n, side) IN [k \in DOMAIN met |-> nodes[met[k]].data]

Walk(x, o, s) == Called(x, o, Arg(0, <<>>, {})) /\ Unchanged(TRUE, len, s)

list_foreach == Walk("bidi", "foreach", Data(first, "next"))
list_reveach == Walk("bidi", "reveach", Data(last, "prev"))
fwdlist_foreach == Walk("forward", "foreach", Data(first, "next"))

(* The functions size, get_first and get_last, asked together; a forward   *)
(* list has no get_last.                                                   *)
list_get ==
  /\ Called("bidi", "get", Arg(0, <<>>, {}))
  /\ Unchanged(first # NULL, len,
               IF first = NULL THEN <<>> ELSE <<nodes[first].data, nodes[last].data>>)

fwdlist_get ==
  /\ Called("forward", "get_first", Arg(0, <<>>, {}))
  /\ Unchanged(first # NULL, len, IF first = NULL THEN <<>> ELSE <<nodes[first].data>>)

-------------------------------------------------------------------------------
Removing == \/ list_remove_match \/ list_remove_if
            \/ fwdlist_remove_match \/ fwdlist_remove_if

Next == \/ list_add_first \/ list_add_last \/ fwdlist_add_first
        \/ list_remove_first \/ list_remove_last \/ fwdlist_remove_first
        \/ StartRemove("bidi") \/ StartRemove("forward") \/ Removing
        \/ list_reverse \/ fwdlist_reverse \/ list_sort \/ fwdlist_sort
        \/ list_clear \/ fwdlist_clear
        \/ list_foreach \/ list_reveach \/ fwdlist_foreach
        \/ list_get \/ fwdlist_get

(* A running call is never left by the only thread there is.               *)
Spec == Init /\ [][Next]_vars /\ WF_vars(Removing)

-------------------------------------------------------------------------------
(* Properties.                                                             *)

(* Every pointer is NULL or points to allocated memory, the one that the   *)
(* loop of a removal holds included.                                       *)
Pointer == DOMAIN nodes \cup {NULL}
TypeOK ==
  /\ kind \in Kinds /\ len \in 0 .. MaxLen /\ first \in Pointer /\ last \in Pointer
  /\ DOMAIN nodes \subseteq Cell
  /\ \A n \in DOMAIN nodes :
       nodes[n].data \in Elems /\ nodes[n].prev \in Pointer /\ nodes[n].next \in Pointer
  /\ pc \in {"idle", "remove", "crashed"} /\ entry \in Pointer /\ rem_count \in 0 .. MaxLen
  /\ pc # "remove" => entry = NULL /\ rem_count = 0

(* Every node allocated is on the list, once: no call, and no iteration of *)
(* a removal, leaks a node, frees one in use or closes a circle.  prev is  *)
(* next backwards, first and last are the two ends, and len is exact but   *)
(* for what a removal has not yet taken off; clear and the removals at the *)
(* ends go by len alone.  The caller's predicate looks at such a list too. *)
IsList ==
  LET met == Chain(nodes, first, "next")
  IN  /\ ToSet(met) = DOMAIN nodes /\ Len(met) = Cardinality(DOMAIN nodes)
      /\ met # <<>> => nodes[Last(met)].next = NULL
      /\ len = Len(met) + rem_count
      /\ kind = "bidi" =>
           \A k \in DOMAIN met : nodes[met[k]].prev = IF k = 1 THEN NULL ELSE met[k - 1]
      /\ kind = "bidi" /\ pc # "crashed" => last = IF met = <<>> THEN NULL ELSE Last(met)

(* A pointer to an element, from get_first or a walk, stays good until the *)
(* element is removed: whatever relinks nodes moves and rewrites no data,  *)
(* and a removal frees the nodes it was asked for and no other.            *)
NodesStay ==
  [][\A n \in DOMAIN nodes :
       \/ n \in DOMAIN nodes' /\ nodes'[n].data = nodes[n].data
       \/ op' = "clear"
       \/ op' = "remove_first" /\ n = first
       \/ op' = "remove_last" /\ n = last
       \/ op' \in {"remove_match", "remove_if"} /\ nodes[n].data \in arg'.drop]_vars

(* Every removal returns.                                                  *)
CallsReturn == pc = "remove" ~> pc = "idle"

(* Both lists are sequences, with a stable sort; a removal has its effect  *)
(* when it starts, seen from outside.  Nothing is said of a crash.         *)
Contents == IF pc = "remove" THEN Without(Data(first, "next"), arg.drop) ELSE Data(first, "next")
Going == IF pc = "remove" THEN len - Len(Contents) ELSE 0

Abstract == INSTANCE Sequence WITH seq <- Contents, going <- Going
ImplementsSequence ==
  Abstract!Init /\ [][pc' = "crashed" \/ Abstract!Next]_<<Contents, Going, op, arg, ret>>

(* header/bidi_list.h:72 "Sorts the bidi list": and comes back from it.    *)
SortReturns == pc # "crashed"
===============================================================================
