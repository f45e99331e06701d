--------------------------------- MODULE Block ---------------------------------
(***************************************************************************)
(* What array_list.c and string_buffer.c have in common: a length, and a   *)
(* block that grows.  mem maps the slots of the block to what is in them,  *)
(* Junk where nothing was written; it has no slots when the pointer is     *)
(* NULL.  Every call is one step.  One that reads or writes past the block *)
(* sets fault and goes on, as it does where nobody minds, reading Junk     *)
(* there; one that follows a null pointer ends the program.                *)
(***************************************************************************)
EXTENDS Integers, SequencesExt

CONSTANTS Elems, Junk,
          MaxLen,      \* the caller adds nothing beyond this length
          MaxCap,      \* there is memory for this many slots
          GROW(_)      \* ARRLIST_GROW or STRBUF_GROW, which the build may override

ASSUME MaxAssumption == MaxLen \in Nat /\ MaxCap \in Nat
ASSUME GrowAssumption == \A n \in 1 .. MaxLen + 1 : GROW(n) \in Nat /\ GROW(n) >= n
ASSUME JunkAssumption == Junk \notin Elems

VARIABLES len, cap, mem,
          fault,          \* "none", "outside" when the last call left the block, "null"
          op, arg, ret    \* the last call and its answer

fields == <<len, cap, mem>>
blockvars == <<fields, fault, op, arg, ret>>

Arg(n, s) == [at |-> n, els |-> s, drop |-> {}]
Pending == [done |-> FALSE, ok |-> FALSE, num |-> 0, out |-> <<>>]
Reply(b, n, s) == [done |-> TRUE, ok |-> b, num |-> n, out |-> s]

NoBlock == [j \in {} |-> Junk]
IsNull == mem = NoBlock
Slot(j) == IF j \in DOMAIN mem THEN mem[j] ELSE Junk
Contents == [j \in 1 .. len |-> Slot(j - 1)]

EmptyBlock == /\ len = 0 /\ cap = 0 /\ mem = NoBlock /\ fault = "none"
              /\ op = "init" /\ arg = Arg(0, <<>>) /\ ret = Reply(TRUE, 0, <<>>)

Called(o, a) == fault # "null" /\ op' = o /\ arg' = a

(* The call answers, having read and written the slots touched.            *)
Return(b, n, s, touched) ==
  /\ ret' = Reply(b, n, s)
  /\ fault' = IF touched \subseteq DOMAIN mem' THEN "none" ELSE "outside"

Succeed(touched) == Return(TRUE, 0, <<>>, touched)
Refuse == UNCHANGED fields /\ Return(FALSE, 0, <<>>, {})
Crash == UNCHANGED fields /\ ret' = Pending /\ fault' = "null"

-------------------------------------------------------------------------------
Resized(n) == [j \in 0 .. n - 1 |-> Slot(j)]

(* Mutant: a slot is counted twice.                                        *)
EnoughByOne(n) == cap + 1 >= n

Enough(n) == cap >= n

(* The capacities that ensure_capacity may end with, when it succeeds,     *)
(* asking for room for spare slots more; realloc may fail, and does for    *)
(* more than MaxCap slots.                                                 *)
CapFor(n, spare) == IF Enough(n) THEN {cap} ELSE {GROW(n + spare)} \cap 0 .. MaxCap
BlockOf(room) == IF room = cap THEN mem ELSE Resized(room)
NoRoom(n) == ~Enough(n) /\ Refuse

EnsureCapacity(spare) == \E n \in 0 .. MaxLen :
  /\ Called("ensure_capacity", Arg(n, <<>>))
  /\ \/ NoRoom(n)
     \/ \E room \in CapFor(n, spare) :
          cap' = room /\ mem' = BlockOf(room) /\ UNCHANGED len /\ Succeed({})

Released == len' = 0 /\ cap' = 0 /\ mem' = NoBlock

(* free asks for the capacity only, and gives nothing back when it is 0.   *)
FreeIt == IF cap > 0 THEN Released ELSE UNCHANGED fields

Free == Called("clear", Arg(0, <<>>)) /\ FreeIt /\ Succeed({})

(* spare slots are left after the elements, and not counted.               *)
Compact(spare) ==
  /\ Called("compact", Arg(0, <<>>))
  /\ \/ cap = len /\ UNCHANGED fields
     \/ cap # len /\ len = 0 /\ FreeIt
     \/ cap # len /\ len > 0 /\ UNCHANGED fields      \* realloc failed
     \/ cap # len /\ len > 0 /\ cap' = len /\ mem' = Resized(len + spare) /\ UNCHANGED len
  /\ Succeed({})

(* The block is handed over, or the empty one that calloc gives or refuses, *)
(* and a fresh start made.                                                 *)
CpyFree(handed) ==
  /\ Called("cpy_free", Arg(0, <<>>)) /\ fault' = "none"
  /\ \/ len = 0 /\ FreeIt /\ ret' \in {Reply(TRUE, 0, <<>>), Reply(FALSE, 0, <<>>)}
     \/ len > 0 /\ Released /\ ret' = Reply(TRUE, len, handed)

-------------------------------------------------------------------------------
(* The contents, wherever the block is left, as the headers' sequence.     *)
InOrder(x, y) == 0
Promise == INSTANCE Sequence WITH seq <- Contents, going <- 0, comp <- InOrder
===============================================================================
