------------------------------ MODULE RingBuffer ------------------------------
(***************************************************************************)
(* ring_buffer.c.  A pointer into the block is the index of its element:   *)
(* start is 0, end is cnt, and the NULL block of a freed buffer has cnt 0. *)
(* A call is one step, but for ringbuf_foreach: it hands control to the    *)
(* caller's function for every element, and that function may use the      *)
(* same buffer before it returns.                                          *)
(***************************************************************************)
EXTENDS Integers, Sequences

CONSTANTS Elems,   \* what the caller stores
          NULL,    \* no element: the null pointer
          Zero,    \* an element of zero bytes, as calloc leaves it
          Counts,  \* counts passed to init_ringbuf
          MaxPolls \* elements the function given to foreach may poll per call

ASSUME CountsAssumption == Counts \subseteq Nat
ASSUME MaxPollsAssumption == MaxPolls \in Nat

Block == Elems \cup {Zero}

VARIABLES
  live,               \* between init_ringbuf and free_ringbuf
  cnt, lo, hi, mem,   \* the fields, in elements, and the block
  ret,                \* the last answer
  walking, cur,       \* inside a call made by foreach, and its i
  polls,              \* polls that call may still make
  given, touched      \* elements handed out by foreach, and whether the
                      \* function changed the buffer ("yes") and polled twice
                      \* in one call ("hasty"): what is observed of it

fields == <<live, cnt, lo, hi, mem>>
walk == <<walking, cur, polls, given, touched>>
vars == <<fields, ret, walk>>

Answer(o, b, e, n) == [op |-> o, ok |-> b, elem |-> e, num |-> n]

NoWalk == walking = FALSE /\ cur = 0 /\ polls = 0 /\ given = <<>> /\ touched = "no"

Init == /\ live = FALSE /\ cnt = 0 /\ lo = 0 /\ hi = 0 /\ mem = <<>>
        /\ ret = Answer("none", FALSE, NULL, 0) /\ NoWalk

(* Mutant: a pointer at the end is let through.                            *)
WrapLate(x) == IF x > cnt THEN 0 ELSE x

(* A pointer moved on by one element.                                      *)
Wrap(x) == IF x >= cnt THEN 0 ELSE x

(* Mutant: the elements behind the wrap are forgotten.                     *)
SizeFlat == IF lo <= hi THEN hi - lo ELSE cnt - lo

ringbuf_size == IF lo <= hi THEN hi - lo ELSE (cnt - lo) + hi
ringbuf_capacity == cnt
ringbuf_empty == hi = lo
ringbuf_peek == IF ringbuf_empty THEN NULL ELSE mem[lo]

(* The function that foreach calls has changed the buffer: from then on    *)
(* what foreach hands out is no longer recorded.                           *)
Touch(how) == IF walking
                THEN touched' = how /\ given' = <<>> /\ UNCHANGED <<walking, cur>>
                ELSE UNCHANGED <<walking, cur, given, touched>>

Offered == IF touched = "hasty" THEN "hasty" ELSE "yes"
Polled == IF polls < MaxPolls THEN "hasty" ELSE Offered

init_ringbuf ==
  /\ ~live
  /\ \/ \E n \in Counts \ {0} :
          /\ live' = TRUE /\ cnt' = n /\ lo' = 0 /\ hi' = 0
          /\ mem' = [j \in 0 .. n - 1 |-> Zero]
          /\ ret' = Answer("init", TRUE, NULL, 0)
     \/ UNCHANGED fields /\ ret' = Answer("init", FALSE, NULL, 0)  \* a zero count, calloc failed
  /\ UNCHANGED walk

free_ringbuf ==
  /\ live /\ ~walking
  /\ live' = FALSE /\ cnt' = 0 /\ lo' = 0 /\ hi' = 0 /\ mem' = <<>>
  /\ ret' = Answer("free", TRUE, NULL, 0) /\ UNCHANGED walk

ringbuf_clear ==
  /\ live /\ ~walking
  /\ lo' = 0 /\ hi' = 0
  /\ ret' = Answer("clear", TRUE, NULL, 0) /\ UNCHANGED <<live, cnt, mem, walk>>

(* Mutant: the last element of the block is offered too.                   *)
FullNever == FALSE

Full == Wrap(hi + 1) = lo

ringbuf_offer(e) ==
  /\ live
  /\ \/ /\ Full
        /\ ret' = Answer("offer", FALSE, e, 0) /\ UNCHANGED <<fields, walk>>
     \/ /\ ~Full
        /\ mem' = [mem EXCEPT ![hi] = e] /\ hi' = Wrap(hi + 1)
        /\ ret' = Answer("offer", TRUE, e, 0)
        /\ Touch(Offered) /\ UNCHANGED <<live, cnt, lo, polls>>

ringbuf_poll ==
  /\ live /\ (walking => polls > 0)
  /\ \/ /\ ringbuf_empty
        /\ ret' = Answer("poll", FALSE, NULL, 0) /\ UNCHANGED <<fields, walk>>
     \/ /\ ~ringbuf_empty
        /\ ret' = Answer("poll", TRUE, ringbuf_peek, 0) /\ lo' = Wrap(lo + 1)
        /\ polls' = IF walking THEN polls - 1 ELSE 0
        /\ Touch(Polled)
        /\ UNCHANGED <<live, cnt, hi, mem>>

(* ringbuf_size, ringbuf_empty and ringbuf_peek, asked together.           *)
Observe ==
  /\ live
  /\ ret' = Answer("observe", ringbuf_empty, ringbuf_peek, ringbuf_size)
  /\ UNCHANGED <<fields, walk>>

(* Mutants: the newest element is not reached; the loop runs to the end of *)
(* the block.                                                              *)
AtEndEarly(p) == p = hi \/ Wrap(p + 1) = hi
AtEndOfBlock(p) == p = cnt

AtEnd(p) == p = hi

(* The loop test of foreach at pointer p: the function is called with the  *)
(* element there, or foreach returns.                                      *)
Visit(p) ==
  IF AtEnd(p)
    THEN walking' = FALSE /\ cur' = 0 /\ polls' = 0 /\ given' = <<>> /\ touched' = "no"
    ELSE /\ walking' = TRUE /\ cur' = p /\ polls' = MaxPolls
         /\ given' = IF touched = "no" THEN Append(given, mem[p]) ELSE <<>>
         /\ UNCHANGED touched

(* Mutant: foreach starts at the block's first element.                    *)
BlockStart == 0

Oldest == lo

ringbuf_foreach == live /\ ~walking /\ Visit(Oldest) /\ UNCHANGED <<fields, ret>>

(* The function returns: i moves on.                                       *)
ForeachNext == walking /\ Visit(Wrap(cur + 1)) /\ UNCHANGED <<fields, ret>>

Next == \/ init_ringbuf \/ free_ringbuf \/ ringbuf_clear \/ ringbuf_poll
        \/ Observe \/ ringbuf_foreach \/ ForeachNext
        \/ \E e \in Elems : ringbuf_offer(e)

(* The function foreach calls returns in the end.                          *)
Spec == Init /\ [][Next]_vars /\ WF_vars(ForeachNext)

-------------------------------------------------------------------------------
(* Properties.                                                             *)

(* The pointers point into the block; a freed buffer has none.             *)
TypeOK ==
  /\ live \in BOOLEAN /\ cnt \in Nat
  /\ lo \in Nat /\ hi \in Nat /\ mem \in [0 .. cnt - 1 -> Block]
  /\ IF live THEN cnt > 0 /\ lo < cnt /\ hi < cnt ELSE cnt = 0 /\ lo = 0 /\ hi = 0
  /\ walking \in BOOLEAN /\ cur \in Nat /\ polls \in 0 .. MaxPolls
  /\ (walking => live /\ cur < cnt) /\ touched \in {"no", "yes", "hasty"}
  /\ given \in Seq(Block)

(* The elements from lo up to hi, around the end of the block.             *)
Around(x) == IF x >= cnt THEN x - cnt ELSE x
Contents == [j \in 1 .. ringbuf_size |-> mem[Around(lo + j - 1)]]

Queue == INSTANCE Fifo WITH queue <- Contents, max <- IF live THEN cnt - 1 ELSE 0

(* The buffer is a first-in first-out queue of cnt - 1 elements: nothing   *)
(* is lost, repeated or reordered where lo and hi wrap.                    *)
ImplementsFifo == Queue!Spec

(* How far x is ahead of lo, in elements.                                  *)
Ahead(x) == IF lo <= x THEN x - lo ELSE (cnt - lo) + x

(* Every element foreach hands out is in the buffer at that moment, even   *)
(* when the function it calls offers and polls, as long as that function   *)
(* never polled twice in one call: then lo may overtake the cursor, which  *)
(* runs on over dead elements to the end of the block.                     *)
HandsOutLive ==
  [][(ringbuf_foreach \/ ForeachNext) /\ walking' /\ touched' # "hasty"
       => (Ahead(cur) < ringbuf_size)']_vars

(* Until a call polls twice, the cursor is not behind lo by more than one  *)
(* element, polled by the call that is running, nor past hi: what          *)
(* HandsOutLive rests on.                                                  *)
CursorInside ==
  walking /\ touched # "hasty" =>
    \/ Ahead(cur) < ringbuf_size
    \/ polls < MaxPolls /\ Wrap(cur + 1) = lo

(* A foreach that is left alone hands out the contents, oldest first.      *)
HandsOutInOrder ==
  walking /\ touched = "no" =>
    /\ Len(given) = Ahead(cur) + 1
    /\ \A j \in 1 .. Len(given) : given[j] = Contents[j]

(* And all of them when it ends.                                           *)
HandedOutAll ==
  [][walking /\ ~walking' /\ touched = "no" => given = Contents]_vars

(* foreach comes to an end whatever its function polls, a cursor overtaken *)
(* by lo included, unless that function goes on offering for ever.         *)
ForeachEnds ==
  []<>~walking \/ []<><<\E e \in Elems : ringbuf_offer(e) /\ ret'.ok>>_vars

(* header/ring_buffer.h:33 "Initializes a ring buffer with the specified   *)
(* capacity": an offer is refused when that many elements are in.          *)
RefusedWhenFull ==
  [][\A e \in Elems : ringbuf_offer(e) /\ ~ret'.ok => ringbuf_size = ringbuf_capacity]_vars
===============================================================================
