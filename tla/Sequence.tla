------------------------------- MODULE Sequence -------------------------------
(***************************************************************************)
(* What the headers of the two linked lists, the array list and the string *)
(* buffer promise, with no memory in sight: a finite sequence.  Every call *)
(* is answered at once, but for a removal of whatever matches, which calls *)
(* back for every element: it is issued, and answered later.               *)
(***************************************************************************)
EXTENDS Integers, SequencesExt, Kept

CONSTANTS comp(_, _)   \* the order of sort: negative, zero or positive

VARIABLES seq,
          going,          \* elements that a removal under way has taken out
          op, arg, ret    \* the call and its answer

Arg(i, s, d) == [at |-> i, els |-> s, drop |-> d]
Pending == [done |-> FALSE, ok |-> FALSE, num |-> 0, out |-> <<>>]
Reply(b, n, s) == [done |-> TRUE, ok |-> b, num |-> n, out |-> s]

Init == seq = <<>> /\ going = 0 /\ ret = Reply(TRUE, 0, <<>>)

Answers(o, b, n, s) ==
  ret.done /\ op' = o /\ ret' = Reply(b, n, s) /\ going' = 0

Succeeds(o) == Answers(o, TRUE, 0, <<>>)
Refused(o) == Answers(o, FALSE, 0, <<>>) /\ UNCHANGED seq

(* A call that needs memory may fail, and then changes nothing; handing    *)
(* over an empty sequence needs some.                                      *)
NoMemory ==
  \/ \E o \in {"add_first", "add_last", "insert", "ensure_capacity", "compact"} : Refused(o)
  \/ seq = <<>> /\ Refused("cpy_free")

AddFirst == Succeeds("add_first") /\ seq' = arg'.els \o seq
AddLast == Succeeds("add_last") /\ seq' = seq \o arg'.els

Insert ==
  \/ arg'.at > Len(seq) /\ Refused("insert")
  \/ /\ arg'.at <= Len(seq) /\ Succeeds("insert")
     /\ seq' = SubSeq(seq, 1, arg'.at) \o arg'.els \o SubSeq(seq, arg'.at + 1, Len(seq))

Replace ==
  \/ arg'.at >= Len(seq) /\ Refused("set")
  \/ /\ arg'.at < Len(seq) /\ Answers("set", TRUE, 0, <<seq[arg'.at + 1]>>)
     /\ seq' = [seq EXCEPT ![arg'.at + 1] = arg'.els[1]]

(* The element at position n goes, if there is one.                        *)
Take(o, n) ==
  \/ n \notin DOMAIN seq /\ Refused(o)
  \/ n \in DOMAIN seq /\ Answers(o, TRUE, 0, <<seq[n]>>) /\ seq' = RemoveAt(seq, n)

TakeOne == Take("remove_first", 1) \/ Take("remove_last", Len(seq)) \/ Take("remove", arg'.at + 1)

StartRemoval ==
  /\ ret.done /\ op' \in {"remove_match", "remove_if"} /\ ret' = Pending
  /\ seq' = Without(seq, arg'.drop) /\ going' = Len(seq) - Len(seq')
EndRemoval ==
  ~ret.done /\ ret' = Reply(TRUE, going, <<>>) /\ going' = 0 /\ UNCHANGED <<seq, op, arg>>

Backwards == Succeeds("reverse") /\ seq' = Reverse(seq)

(* Ascending; elements that compare equal stay in the order they were in.  *)
Precedes(x, y) == LET c == comp(seq[x], seq[y]) IN c < 0 \/ (c = 0 /\ x < y)
Smallest(n) == CHOOSE x \in DOMAIN seq :
                 Cardinality({y \in DOMAIN seq : Precedes(y, x)}) = n - 1
SortedSeq == [n \in DOMAIN seq |-> seq[Smallest(n)]]
Sort == Succeeds("sort") /\ seq' = SortedSeq

Empty == Succeeds("clear") /\ seq' = <<>>

(* The contents are handed over, as they were.                             *)
HandOver == Answers("cpy_free", TRUE, Len(seq), seq) /\ seq' = <<>>

Look ==
  /\ \/ Answers("foreach", TRUE, Len(seq), seq)
     \/ Answers("reveach", TRUE, Len(seq), Reverse(seq))
     \/ Answers("copy", TRUE, Len(seq), seq)
     \/ Answers("get", seq # <<>>, Len(seq), IF seq = <<>> THEN <<>> ELSE <<seq[1], Last(seq)>>)
     \/ Answers("get_first", seq # <<>>, Len(seq), IF seq = <<>> THEN <<>> ELSE <<seq[1]>>)
  /\ UNCHANGED seq

(* Room is made or given back.                                             *)
Room == (Succeeds("ensure_capacity") \/ Succeeds("compact")) /\ UNCHANGED seq

Next == \/ NoMemory \/ AddFirst \/ AddLast \/ Insert \/ Replace \/ TakeOne
        \/ StartRemoval \/ EndRemoval \/ Backwards \/ Sort \/ Empty \/ HandOver
        \/ Look \/ Room

vars == <<seq, going, op, arg, ret>>

Spec == Init /\ [][Next]_vars
===============================================================================
