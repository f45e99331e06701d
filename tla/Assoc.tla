--------------------------------- MODULE Assoc ---------------------------------
(***************************************************************************)
(* What the headers of the four tree containers promise, with no tree in   *)
(* sight: keys in order, each with a non-empty sequence of values.  A set  *)
(* has one value NULL per key, a multiset one NULL per occurrence, a map   *)
(* one value, a multimap any number.  A call is issued and later answered, *)
(* or answered at once.                                                    *)
(***************************************************************************)
EXTENDS Integers, Sequences, FiniteSets

CONSTANTS NULL

VARIABLES kind,   \* "set", "map", "multiset" or "multimap"
          dict,   \* the values of every key that has any
          op, arg, ret

Pending == [done |-> FALSE, ok |-> FALSE, num |-> 0, seq |-> <<>>]
Reply(b, n, s) == [done |-> TRUE, ok |-> b, num |-> n, seq |-> s]

Init == dict = [x \in {} |-> <<>>] /\ ret = Reply(TRUE, 0, <<>>)

Issue == ret # Pending /\ ret' = Pending /\ UNCHANGED dict

(* The answer to call o: a call that is pending is that one.               *)
Answers(o, b, n, s) ==
  /\ op' = o /\ ret' = Reply(b, n, s)
  /\ ret = Pending => op' = op /\ arg' = arg

Has == arg'.key \in DOMAIN dict
Old == IF Has THEN dict[arg'.key] ELSE <<>>

Set(vals) == dict' = [x \in DOMAIN dict \cup {arg'.key} |->
                        IF x = arg'.key THEN vals ELSE dict[x]]
Drop == dict' = [x \in DOMAIN dict \ {arg'.key} |-> dict[x]]

(* A put that needs memory may fail.                                       *)
Put ==
  \/ /\ ~Has \/ kind = "multimap"
     /\ Answers("put", FALSE, 0, <<>>) /\ UNCHANGED dict
  \/ /\ Answers("put", TRUE, 0, <<>>)
     /\ \/ Has /\ kind = "set" /\ UNCHANGED dict
        \/ (~Has \/ kind = "map") /\ Set(<<arg'.val>>)
        \/ Has /\ kind \in {"multiset", "multimap"} /\ Set(Append(Old, arg'.val))

PutIfAbsent ==
  \/ Answers("put_if_absent", FALSE, 0, <<>>) /\ UNCHANGED dict
  \/ ~Has /\ Answers("put_if_absent", TRUE, 0, <<>>) /\ Set(<<arg'.val>>)

Remove == Answers("remove", Has, 0, <<>>) /\ Drop

(* Occurrences hi of a multiset, values lo .. hi - 1 of a multimap: what   *)
(* there is of them goes, and a key without values goes as well.           *)
Kept == {j \in 1 .. Len(Old) : j <= arg'.lo \/ j > arg'.hi}
Place(j) == CHOOSE x \in Kept : Cardinality({y \in Kept : y <= x}) = j
Rest == [j \in 1 .. Cardinality(Kept) |-> Old[Place(j)]]
RemoveSome ==
  /\ Answers("remove_some", TRUE, Len(Old) - Cardinality(Kept), <<>>)
  /\ IF Kept = {} THEN Drop ELSE Set(Rest)

Get == Answers("get", Has, Len(Old), Old) /\ UNCHANGED dict
GetOrDefault ==
  /\ Answers("get_or_default", TRUE, 0, <<IF Has THEN Old[1] ELSE arg'.val>>)
  /\ UNCHANGED dict

(* A walk meets the keys asked for, in ascending order, with their values. *)
Walk(o, keys) ==
  LET s == ret'.seq
  IN  /\ Answers(o, TRUE, 0, s) /\ UNCHANGED dict
      /\ {s[j].key : j \in 1 .. Len(s)} = keys
      /\ \A j \in 1 .. Len(s) : s[j].vals = dict[s[j].key]
      /\ \A j \in 1 .. Len(s) - 1 : s[j].key < s[j + 1].key
Walks ==
  \/ Walk("foreach", DOMAIN dict)
  \/ Walk("foreach_gt", {x \in DOMAIN dict : x > arg'.key})
  \/ Walk("foreach_lt", {x \in DOMAIN dict : x < arg'.key})

Clear == Answers("clear", TRUE, 0, <<>>) /\ dict' = [x \in {} |-> <<>>]

Next == /\ UNCHANGED kind
        /\ \/ Issue \/ Put \/ PutIfAbsent \/ Remove \/ RemoveSome
           \/ Get \/ GetOrDefault \/ Walks \/ Clear

vars == <<kind, dict, op, arg, ret>>

Spec == Init /\ [][Next]_vars
===============================================================================
