--------------------------- MODULE RingBufferProofs ---------------------------
(***************************************************************************)
(* Theorems about RingBuffer for every count and every kind of element.    *)
(***************************************************************************)
EXTENDS RingBuffer, SequenceTheorems, TLAPS

LEMMA WrapInBlock ==
  ASSUME TypeOK, live, NEW x \in Nat, x < cnt
  PROVE  Wrap(x + 1) \in Nat /\ Wrap(x + 1) < cnt
BY DEF TypeOK, Wrap

LEMMA VisitType ==
  ASSUME TypeOK, live, NEW p \in Nat, p < cnt, Visit(p), UNCHANGED fields
  PROVE  TypeOK'
<1>1. UNCHANGED <<live, cnt, lo, hi, mem>>
  BY DEF fields
<1>2. CASE AtEnd(p)
  <2>1. walking' = FALSE /\ cur' = 0 /\ polls' = 0 /\ given' = <<>> /\ touched' = "no"
    BY <1>2 DEF Visit
  <2>2. polls' \in 0 .. MaxPolls /\ given' \in Seq(Block)
    BY <2>1, MaxPollsAssumption
  <2> QED BY <1>1, <2>1, <2>2 DEF TypeOK
<1>3. CASE ~AtEnd(p)
  <2>1. /\ walking' = TRUE /\ cur' = p /\ polls' = MaxPolls /\ touched' = touched
        /\ given' = IF touched = "no" THEN Append(given, mem[p]) ELSE <<>>
    BY <1>3 DEF Visit
  <2>2. mem[p] \in Block /\ given \in Seq(Block)
    BY DEF TypeOK
  <2>3. given' \in Seq(Block)
    BY <2>1, <2>2
  <2>4. polls' \in 0 .. MaxPolls
    BY <2>1, MaxPollsAssumption
  <2> QED BY <1>1, <2>1, <2>3, <2>4 DEF TypeOK
<1> QED BY <1>2, <1>3

LEMMA InitType == Init => TypeOK
<1> SUFFICES ASSUME Init PROVE TypeOK
  OBVIOUS
<1>1. mem \in [0 .. cnt - 1 -> Block] /\ given \in Seq(Block)
  BY DEF Init, NoWalk
<1>2. live = FALSE /\ walking = FALSE /\ cnt = 0 /\ lo = 0 /\ hi = 0 /\ cur = 0
  BY DEF Init, NoWalk
<1>3. polls \in 0 .. MaxPolls /\ touched = "no"
  BY MaxPollsAssumption DEF Init, NoWalk
<1> QED BY <1>1, <1>2, <1>3 DEF TypeOK

LEMMA TypeStep == TypeOK /\ [Next]_vars => TypeOK'
<1> SUFFICES ASSUME TypeOK, [Next]_vars PROVE TypeOK'
  OBVIOUS
<1>1. CASE init_ringbuf
  <2>1. UNCHANGED walk /\ ~live
    BY <1>1 DEF init_ringbuf
  <2>2. CASE UNCHANGED fields
    BY <2>1, <2>2 DEF TypeOK, fields, walk
  <2>3. ASSUME NEW n \in Counts \ {0}, live' = TRUE, cnt' = n, lo' = 0, hi' = 0,
               mem' = [j \in 0 .. n - 1 |-> Zero]
        PROVE  TypeOK'
    <3>1. n \in Nat /\ n > 0
      BY CountsAssumption
    <3>2. mem' \in [0 .. cnt' - 1 -> Block]
      BY <2>3 DEF Block
    <3>3. ~walking
      BY <2>1 DEF TypeOK
    <3> QED BY <2>1, <2>3, <3>1, <3>2, <3>3 DEF TypeOK, walk
  <2> QED BY <1>1, <2>2, <2>3 DEF init_ringbuf
<1>2. CASE free_ringbuf
  <2>1. mem' \in [0 .. cnt' - 1 -> Block]
    BY <1>2 DEF free_ringbuf
  <2> QED BY <1>2, <2>1 DEF free_ringbuf, walk, TypeOK
<1>3. CASE ringbuf_clear
  BY <1>3 DEF ringbuf_clear, walk, TypeOK
<1>4. CASE ringbuf_poll
  <2>1. CASE UNCHANGED <<fields, walk>>
    BY <2>1 DEF TypeOK, fields, walk
  <2>2. CASE /\ ~ringbuf_empty /\ lo' = Wrap(lo + 1)
             /\ polls' = (IF walking THEN polls - 1 ELSE 0)
             /\ Touch(Polled)
             /\ UNCHANGED <<live, cnt, hi, mem>>
    <3>1. lo' \in Nat /\ lo' < cnt /\ live
      BY <1>4, <2>2, WrapInBlock DEF TypeOK, ringbuf_poll
    <3>2. polls' \in 0 .. MaxPolls
      BY <1>4, <2>2, MaxPollsAssumption DEF TypeOK, ringbuf_poll
    <3>3. UNCHANGED <<walking, cur>> /\ touched' \in {"no", "yes", "hasty"}
      BY <2>2 DEF Touch, Polled, Offered, TypeOK
    <3>4. given' \in Seq(Block)
      <4>1. given' = <<>> \/ given' = given
        BY <2>2 DEF Touch
      <4>2. <<>> \in Seq(Block) /\ given \in Seq(Block)
        BY DEF TypeOK
      <4> QED BY <4>1, <4>2
    <3> QED BY <2>2, <3>1, <3>2, <3>3, <3>4 DEF TypeOK
  <2> QED BY <1>4, <2>1, <2>2 DEF ringbuf_poll
<1>5. CASE Observe
  BY <1>5 DEF Observe, fields, walk, TypeOK
<1>6. CASE ringbuf_foreach
  BY <1>6, VisitType DEF ringbuf_foreach, Oldest, TypeOK
<1>7. CASE ForeachNext
  <2>1. live /\ cur \in Nat /\ cur < cnt
    BY <1>7 DEF ForeachNext, TypeOK
  <2> QED BY <1>7, <2>1, WrapInBlock, VisitType DEF ForeachNext
<1>8. ASSUME NEW e \in Elems, ringbuf_offer(e) PROVE TypeOK'
  <2>1. CASE UNCHANGED <<fields, walk>>
    BY <2>1 DEF TypeOK, fields, walk
  <2>2. CASE /\ mem' = [mem EXCEPT ![hi] = e] /\ hi' = Wrap(hi + 1)
             /\ Touch(Offered) /\ UNCHANGED <<live, cnt, lo, polls>>
    <3>1. hi' \in Nat /\ hi' < cnt /\ live
      BY <1>8, <2>2, WrapInBlock DEF TypeOK, ringbuf_offer
    <3>2. mem' \in [0 .. cnt' - 1 -> Block]
      BY <2>2 DEF TypeOK, Block
    <3>3. UNCHANGED <<walking, cur>> /\ touched' \in {"no", "yes", "hasty"}
      BY <2>2 DEF Touch, Polled, Offered, TypeOK
    <3>4. given' \in Seq(Block)
      <4>1. given' = <<>> \/ given' = given
        BY <2>2 DEF Touch
      <4>2. <<>> \in Seq(Block) /\ given \in Seq(Block)
        BY DEF TypeOK
      <4> QED BY <4>1, <4>2
    <3> QED BY <2>2, <3>1, <3>2, <3>3, <3>4 DEF TypeOK
  <2> QED BY <1>8, <2>1, <2>2 DEF ringbuf_offer
<1>9. CASE UNCHANGED vars
  BY <1>9 DEF vars, fields, walk, TypeOK
<1> QED BY <1>1, <1>2, <1>3, <1>4, <1>5, <1>6, <1>7, <1>8, <1>9 DEF Next

(* lo, hi and the cursor of foreach stay inside the block, whatever the    *)
(* caller and the function given to foreach do.                            *)
THEOREM TypeCorrect == Spec => []TypeOK
BY InitType, TypeStep, PTL DEF Spec

-------------------------------------------------------------------------------
LEMMA CursorStep == TypeOK /\ CursorInside /\ [Next]_vars => CursorInside'
<1> SUFFICES ASSUME TypeOK, CursorInside, [Next]_vars PROVE CursorInside'
  OBVIOUS
<1> USE DEF CursorInside, Ahead, ringbuf_size
<1>1. CASE init_ringbuf
  BY <1>1 DEF init_ringbuf, walk, TypeOK
<1>2. CASE free_ringbuf
  BY <1>2 DEF free_ringbuf, walk, TypeOK
<1>3. CASE ringbuf_clear
  BY <1>3 DEF ringbuf_clear, walk, TypeOK
<1>4. CASE ringbuf_poll
  <2>1. CASE UNCHANGED <<fields, walk>>
    BY <2>1 DEF fields, walk, Wrap
  <2>2. CASE /\ ~ringbuf_empty /\ lo' = Wrap(lo + 1)
             /\ polls' = (IF walking THEN polls - 1 ELSE 0)
             /\ Touch(Polled)
             /\ UNCHANGED <<live, cnt, hi, mem>>
    <3>1. UNCHANGED <<walking, cur>>
      BY <2>2 DEF Touch
    <3> SUFFICES ASSUME walking, touched' # "hasty" PROVE CursorInside'
      BY <3>1
    <3>2. live /\ polls = MaxPolls /\ polls' < MaxPolls /\ touched # "hasty"
      BY <1>4, <2>2, MaxPollsAssumption DEF ringbuf_poll, TypeOK, Touch, Polled, Offered
    <3>3. Ahead(cur) < ringbuf_size
      BY <3>2, MaxPollsAssumption
    <3> QED BY <2>2, <3>1, <3>2, <3>3 DEF TypeOK, ringbuf_empty, Wrap
  <2> QED BY <1>4, <2>1, <2>2 DEF ringbuf_poll
<1>5. CASE Observe
  BY <1>5 DEF Observe, fields, walk, Wrap
<1>6. CASE ringbuf_foreach
  BY <1>6 DEF ringbuf_foreach, Oldest, Visit, AtEnd, fields, TypeOK
<1>7. CASE ForeachNext
  <2>1. UNCHANGED <<cnt, lo, hi>> /\ walking /\ live
    BY <1>7 DEF ForeachNext, fields, TypeOK
  <2>2. CASE AtEnd(Wrap(cur + 1))
    BY <1>7, <2>2 DEF ForeachNext, Visit
  <2>3. CASE ~AtEnd(Wrap(cur + 1))
    <3>1. cur' = Wrap(cur + 1) /\ cur' # hi /\ touched' = touched
      BY <1>7, <2>3 DEF ForeachNext, Visit, AtEnd
    <3> QED BY <2>1, <3>1 DEF TypeOK, Wrap
  <2> QED BY <2>2, <2>3
<1>8. ASSUME NEW e \in Elems, ringbuf_offer(e) PROVE CursorInside'
  <2>1. CASE UNCHANGED <<fields, walk>>
    BY <2>1 DEF fields, walk, Wrap
  <2>2. CASE /\ ~Full /\ hi' = Wrap(hi + 1)
             /\ Touch(Offered) /\ UNCHANGED <<live, cnt, lo, polls>>
    <3>1. UNCHANGED <<walking, cur>> /\ live
      BY <1>8, <2>2 DEF Touch, ringbuf_offer
    <3>2. walking /\ touched' # "hasty" => touched # "hasty"
      BY <2>2 DEF Touch, Offered
    <3> QED BY <2>2, <3>1, <3>2 DEF TypeOK, Full, Wrap
  <2> QED BY <1>8, <2>1, <2>2 DEF ringbuf_offer
<1>9. CASE UNCHANGED vars
  BY <1>9 DEF vars, fields, walk, Wrap
<1> QED BY <1>1, <1>2, <1>3, <1>4, <1>5, <1>6, <1>7, <1>8, <1>9 DEF Next

(* Until its function polls twice in one call, the cursor of foreach is at *)
(* an element of the buffer, or at the slot of the one just polled: it is  *)
(* not lost among the dead slots, from which the loop (ring_buffer.c:115)  *)
(* would only come back after handing them out.                            *)
THEOREM CursorNeverLost == Spec => []CursorInside
<1>1. Init => CursorInside
  BY DEF Init, NoWalk, CursorInside
<1>2. TypeOK /\ CursorInside /\ [Next]_vars => CursorInside'
  BY CursorStep
<1> QED BY <1>1, <1>2, InitType, TypeStep, PTL DEF Spec

(* Until its function polls twice in one call, every element foreach hands *)
(* out (ring_buffer.c:117) is in the buffer at that moment.                *)
THEOREM HandedOutIsLive == Spec => HandsOutLive
<1>1. /\ TypeOK /\ CursorInside /\ TypeOK' /\ CursorInside' /\ [Next]_vars
      => [(ringbuf_foreach \/ ForeachNext) /\ walking' /\ touched' # "hasty"
            => (Ahead(cur) < ringbuf_size)']_vars
  <2> SUFFICES ASSUME TypeOK, CursorInside, TypeOK', CursorInside',
                      ringbuf_foreach \/ ForeachNext, walking', touched' # "hasty"
               PROVE  (Ahead(cur) < ringbuf_size)'
    OBVIOUS
  <2>1. UNCHANGED <<live, cnt, lo, hi>> /\ \E p \in {lo, Wrap(cur + 1)} : Visit(p)
    BY DEF ringbuf_foreach, ForeachNext, fields, Oldest
  <2>2. polls' = MaxPolls /\ cur' # hi /\ touched # "hasty"
    BY <2>1 DEF Visit, AtEnd
  <2>3. CASE ringbuf_foreach
    <3>1. cur' = lo /\ live
      BY <2>3 DEF ringbuf_foreach, Visit, Oldest, TypeOK
    <3> QED BY <2>1, <2>2, <3>1 DEF Ahead, ringbuf_size, TypeOK
  <2>4. CASE ForeachNext
    <3>1. cur' = Wrap(cur + 1) /\ walking /\ live
      BY <2>4 DEF ForeachNext, Visit, TypeOK
    <3> QED BY <2>1, <2>2, <3>1 DEF CursorInside, Ahead, ringbuf_size, TypeOK, Wrap
  <2> QED BY <2>3, <2>4
<1>2. TypeOK /\ CursorInside /\ [Next]_vars => CursorInside'
  BY CursorStep
<1>3. Init => CursorInside
  BY DEF Init, NoWalk, CursorInside
<1> QED BY <1>1, <1>2, <1>3, InitType, TypeStep, PTL DEF Spec, HandsOutLive
-------------------------------------------------------------------------------
(* A foreach that is left alone has handed out the elements from lo to the *)
(* cursor; outside of foreach nothing is recorded.                         *)
Recorded ==
  /\ ~walking => given = <<>> /\ touched = "no"
  /\ walking /\ touched = "no" =>
       /\ Len(given) = Ahead(cur) + 1 /\ Ahead(cur) < ringbuf_size
       /\ \A j \in 1 .. Len(given) : given[j] = mem[Around(lo + j - 1)]

LEMMA GivenLen == TypeOK => Len(given) \in Nat
BY DEF TypeOK

LEMMA AppendAt ==
  ASSUME NEW s \in Seq(Block), NEW e \in Block
  PROVE  /\ Len(Append(s, e)) = Len(s) + 1 /\ Len(s) \in Nat
         /\ \A j \in 1 .. Len(s) : Append(s, e)[j] = s[j]
         /\ Append(s, e)[Len(s) + 1] = e
OBVIOUS

LEMMA RecordedStep == TypeOK /\ Recorded /\ [Next]_vars => Recorded'
<1> SUFFICES ASSUME TypeOK, Recorded, [Next]_vars PROVE Recorded'
  OBVIOUS
<1>1. ASSUME UNCHANGED walk, ~walking PROVE Recorded'
  BY <1>1 DEF Recorded, walk
<1>2. ASSUME UNCHANGED <<fields, walk>> PROVE Recorded'
  BY <1>2 DEF Recorded, fields, walk, Ahead, Around, ringbuf_size
<1>3. ASSUME NEW how \in {"yes", "hasty"}, Touch(how) PROVE Recorded'
  BY <1>3 DEF Recorded, Touch
<1>4. CASE init_ringbuf \/ free_ringbuf \/ ringbuf_clear
  <2>1. UNCHANGED walk /\ ~walking
    BY <1>4 DEF init_ringbuf, free_ringbuf, ringbuf_clear, TypeOK
  <2> QED BY <1>1, <2>1
<1>5. CASE ringbuf_poll
  <2>1. Polled \in {"yes", "hasty"}
    BY DEF Polled, Offered
  <2> QED BY <1>2, <1>3, <1>5, <2>1 DEF ringbuf_poll
<1>6. CASE Observe
  BY <1>2, <1>6 DEF Observe
<1>7. CASE ringbuf_foreach
  <2>1. /\ UNCHANGED <<live, cnt, lo, hi, mem>> /\ Visit(lo) /\ live
        /\ given = <<>> /\ touched = "no"
    BY <1>7 DEF ringbuf_foreach, fields, Oldest, Recorded, TypeOK
  <2>2. CASE AtEnd(lo)
    BY <2>1, <2>2 DEF Visit, Recorded
  <2>3. CASE ~AtEnd(lo)
    <3>1. walking' /\ cur' = lo /\ given' = Append(<<>>, mem[lo]) /\ lo # hi
      BY <2>1, <2>3 DEF Visit, AtEnd
    <3>2. given' = <<mem[lo]>> /\ Len(given') = 1 /\ given'[1] = mem[lo]
      BY <3>1
    <3>3. (Ahead(cur) = 0 /\ 0 < ringbuf_size /\ Around(lo + 1 - 1) = lo)'
      BY <2>1, <3>1 DEF Ahead, ringbuf_size, Around, TypeOK
    <3>4. \A j \in 1 .. Len(given') : given'[j] = mem'[Around(lo + j - 1)']
      BY <2>1, <3>2, <3>3
    <3> QED BY <3>1, <3>2, <3>3, <3>4 DEF Recorded
  <2> QED BY <2>2, <2>3
<1>8. CASE ForeachNext
  <2>1. UNCHANGED <<live, cnt, lo, hi, mem>> /\ Visit(Wrap(cur + 1)) /\ walking /\ live
    BY <1>8 DEF ForeachNext, fields, TypeOK
  <2>2. CASE AtEnd(Wrap(cur + 1))
    BY <2>1, <2>2 DEF Visit, Recorded
  <2>3. CASE ~AtEnd(Wrap(cur + 1)) /\ touched # "no"
    BY <2>1, <2>3 DEF Visit, Recorded
  <2>4. CASE ~AtEnd(Wrap(cur + 1)) /\ touched = "no"
    <3>1. /\ walking' /\ cur' = Wrap(cur + 1) /\ given' = Append(given, mem[cur']) /\ cur' # hi
          /\ Len(given) = Ahead(cur) + 1 /\ Ahead(cur) < ringbuf_size
          /\ \A j \in 1 .. Len(given) : given[j] = mem[Around(lo + j - 1)]
      BY <2>1, <2>4 DEF Visit, AtEnd, Recorded
    <3>2. cur' \in 0 .. cnt - 1 /\ Len(given) \in Nat /\ mem[cur'] \in Block
      BY <2>1, <3>1, WrapInBlock, GivenLen DEF TypeOK
    <3>3. /\ Len(given') = Len(given) + 1 /\ given'[Len(given) + 1] = mem[cur']
          /\ \A j \in 1 .. Len(given) : given'[j] = given[j]
      BY <3>1, <3>2, AppendAt DEF TypeOK
    <3>4. /\ Ahead(cur)' = Ahead(cur) + 1 /\ (Ahead(cur) < ringbuf_size)'
          /\ Around(lo + Ahead(cur) + 1) = cur'
      BY <2>1, <3>1, <3>2 DEF Ahead, ringbuf_size, Around, Wrap, TypeOK
    <3>5. Len(given') = Ahead(cur)' + 1
      BY <3>1, <3>3, <3>4
    <3>6. ASSUME NEW j \in 1 .. Len(given') PROVE given'[j] = mem'[Around(lo + j - 1)']
      <4>1. Around(lo + j - 1)' = Around(lo + j - 1)
        BY <2>1 DEF Around
      <4>2. CASE j \in 1 .. Len(given)
        BY <2>1, <3>1, <3>3, <4>1, <4>2
      <4>3. CASE j = Len(given) + 1
        <5>1. lo + j - 1 = lo + Ahead(cur) + 1
          <6>1. j = Ahead(cur) + 2 /\ Ahead(cur) \in Nat /\ lo \in Nat
            BY <3>1, <3>2, <4>3 DEF TypeOK, Ahead
          <6> QED BY <6>1
        <5> QED BY <2>1, <3>3, <3>4, <4>1, <4>3, <5>1
      <4> QED BY <3>2, <3>3, <4>2, <4>3
    <3> QED BY <3>1, <3>4, <3>5, <3>6 DEF Recorded
  <2> QED BY <2>2, <2>3, <2>4
<1>9. ASSUME NEW e \in Elems, ringbuf_offer(e) PROVE Recorded'
  <2>1. Offered \in {"yes", "hasty"}
    BY DEF Offered
  <2> QED BY <1>2, <1>3, <1>9, <2>1 DEF ringbuf_offer
<1>10. CASE UNCHANGED vars
  BY <1>2, <1>10 DEF vars
<1> QED BY <1>4, <1>5, <1>6, <1>7, <1>8, <1>9, <1>10 DEF Next

LEMMA InitRecorded == Init => Recorded
BY DEF Init, NoWalk, Recorded

LEMMA RecordedInvariant == Spec => [](TypeOK /\ Recorded)
BY InitType, TypeStep, InitRecorded, RecordedStep, PTL DEF Spec

LEMMA RecordedInOrder == TypeOK /\ Recorded => HandsOutInOrder
<1> SUFFICES ASSUME TypeOK, Recorded, walking, touched = "no"
             PROVE  /\ Len(given) = Ahead(cur) + 1
                    /\ \A j \in 1 .. Len(given) : given[j] = Contents[j]
  BY DEF HandsOutInOrder
<1>1. Len(given) \in Nat /\ Len(given) <= ringbuf_size /\ ringbuf_size \in Nat
  BY GivenLen DEF Recorded, Ahead, ringbuf_size, TypeOK
<1> QED BY <1>1 DEF Recorded, Contents

(* A foreach that is left alone hands out the contents, oldest first, for  *)
(* any number of elements and wherever lo and hi are (ring_buffer.c:109).  *)
THEOREM HandedOutInOrder == Spec => []HandsOutInOrder
BY RecordedInvariant, RecordedInOrder, PTL

(* And it has handed out all of them when it ends.                         *)
THEOREM AllHandedOut == Spec => HandedOutAll
<1>1. TypeOK /\ Recorded /\ [Next]_vars
        => [walking /\ ~walking' /\ touched = "no" => given = Contents]_vars
  <2> SUFFICES ASSUME TypeOK, Recorded, [Next]_vars, walking, ~walking', touched = "no"
               PROVE  given = Contents
    OBVIOUS
  <2>1. ForeachNext
    BY DEF Next, init_ringbuf, free_ringbuf, ringbuf_clear, ringbuf_poll, Observe,
           ringbuf_foreach, ringbuf_offer, Touch, vars, walk
  <2>2. Wrap(cur + 1) = hi /\ live
    BY <2>1 DEF ForeachNext, Visit, AtEnd, TypeOK
  <2>3. Len(given) = ringbuf_size
    <3>1. Len(given) = Ahead(cur) + 1 /\ Ahead(cur) < ringbuf_size
      BY DEF Recorded
    <3>2. Ahead(cur) + 1 = ringbuf_size
      BY <2>2, <3>1 DEF Ahead, ringbuf_size, Wrap, TypeOK
    <3> QED BY <3>1, <3>2
  <2>4. given = [j \in 1 .. Len(given) |-> given[j]]
    BY DEF TypeOK
  <2>5. \A j \in 1 .. Len(given) : given[j] = mem[Around(lo + j - 1)]
    BY DEF Recorded
  <2> QED BY <2>3, <2>4, <2>5 DEF Contents
<1> QED BY <1>1, RecordedInvariant, PTL DEF Spec, HandedOutAll
-------------------------------------------------------------------------------
(* The refinement of Fifo.                                                 *)
Room == IF live THEN cnt - 1 ELSE 0

LEMMA SizeOf == TypeOK => ringbuf_size \in Nat /\ (ringbuf_size = 0 <=> ringbuf_empty)
BY DEF TypeOK, ringbuf_size, ringbuf_empty

Listed ==
  /\ Contents \in Seq(Block) /\ Len(Contents) = ringbuf_size
  /\ \A j \in 1 .. ringbuf_size : Contents[j] = mem[Around(lo + j - 1)]

LEMMA ContentsAt == TypeOK => Listed
<1> SUFFICES ASSUME TypeOK PROVE Listed
  OBVIOUS
<1>1. ringbuf_size \in Nat
  BY SizeOf
<1>2. ASSUME NEW j \in 1 .. ringbuf_size PROVE mem[Around(lo + j - 1)] \in Block
  <2>1. Around(lo + j - 1) \in 0 .. cnt - 1
    BY <1>2 DEF TypeOK, Around, ringbuf_size
  <2> QED BY <2>1 DEF TypeOK
<1> QED BY <1>1, <1>2 DEF Contents, Listed

LEMMA SameContents == UNCHANGED fields => UNCHANGED <<Contents, Room>>
<1> SUFFICES ASSUME UNCHANGED fields PROVE UNCHANGED <<Contents, Room>>
  OBVIOUS
<1>1. UNCHANGED <<live, cnt, lo, hi, mem>>
  BY DEF fields
<1>2. ringbuf_size' = ringbuf_size /\ Room' = Room
  BY <1>1 DEF ringbuf_size, Room
<1>3. \A j : mem'[Around(lo + j - 1)'] = mem[Around(lo + j - 1)]
  BY <1>1 DEF Around
<1> QED BY <1>2, <1>3 DEF Contents

(* Seen as sequences, contents are equal when their elements are.          *)
LEMMA SameElements ==
  ASSUME NEW s \in Seq(Block), NEW t \in Seq(Block), Len(s) = Len(t),
         \A j \in 1 .. Len(s) : s[j] = t[j]
  PROVE  s = t
BY SeqEqual

LEMMA EmptyContents == TypeOK /\ lo = hi => Contents = <<>>
<1> SUFFICES ASSUME TypeOK, lo = hi PROVE Contents = <<>>
  OBVIOUS
<1>1. Contents \in Seq(Block) /\ Len(Contents) = 0
  BY ContentsAt, SizeOf DEF Listed, ringbuf_empty
<1> QED BY <1>1

LEMMA OfferAppends ==
  ASSUME TypeOK, TypeOK', NEW e \in Elems, ringbuf_offer(e), ~Full,
         mem' = [mem EXCEPT ![hi] = e], hi' = Wrap(hi + 1), UNCHANGED <<live, cnt, lo>>
  PROVE  Contents' = Append(Contents, e)
<1>1. live /\ e \in Block
  BY DEF ringbuf_offer, Block
<1>2. /\ ringbuf_size' = ringbuf_size + 1 /\ ringbuf_size \in Nat
      /\ \A j \in 1 .. ringbuf_size : Around(lo + j - 1) # hi /\ Around(lo + j - 1) \in 0 .. cnt - 1
      /\ Around(lo + ringbuf_size) = hi
  BY <1>1 DEF TypeOK, Full, Wrap, ringbuf_size, Around
<1>3. /\ Contents \in Seq(Block) /\ Len(Contents) = ringbuf_size
      /\ \A j \in 1 .. ringbuf_size : Contents[j] = mem[Around(lo + j - 1)]
  BY ContentsAt DEF Listed
<1>4. /\ Contents' \in Seq(Block) /\ Len(Contents') = ringbuf_size + 1
      /\ \A j \in 1 .. ringbuf_size + 1 : Contents'[j] = mem'[Around(lo + j - 1)]
  <2>1. Listed'
    BY ContentsAt, PTL
  <2> QED BY <1>2, <2>1 DEF Listed, Around
<1>6. /\ Append(Contents, e) \in Seq(Block) /\ Len(Append(Contents, e)) = ringbuf_size + 1
      /\ \A j \in 1 .. ringbuf_size : Append(Contents, e)[j] = Contents[j]
      /\ Append(Contents, e)[ringbuf_size + 1] = e
  BY <1>1, <1>3, AppendAt, AppendProperties
<1>7. mem'[hi] = e /\ \A k \in 0 .. cnt - 1 : k # hi => mem'[k] = mem[k]
  BY <1>1 DEF TypeOK
<1>8. ASSUME NEW j \in 1 .. ringbuf_size + 1 PROVE Contents'[j] = Append(Contents, e)[j]
  <2>1. CASE j \in 1 .. ringbuf_size
    <3>1. Contents'[j] = mem'[Around(lo + j - 1)] /\ Contents[j] = mem[Around(lo + j - 1)]
      BY <1>3, <1>4, <2>1
    <3> QED BY <1>2, <1>6, <1>7, <2>1, <3>1
  <2>2. CASE j = ringbuf_size + 1
    <3>1. lo + j - 1 = lo + ringbuf_size
      BY <1>2, <2>2 DEF TypeOK
    <3> QED BY <1>2, <1>4, <1>6, <1>7, <2>2, <3>1
  <2>3. j \in 1 .. ringbuf_size \/ j = ringbuf_size + 1
    BY <1>2
  <2> QED BY <2>1, <2>2, <2>3
<1> QED BY <1>4, <1>6, <1>8, SameElements

LEMMA PollRemoves ==
  ASSUME TypeOK, TypeOK', live, ~ringbuf_empty, lo' = Wrap(lo + 1), UNCHANGED <<live, cnt, hi, mem>>
  PROVE  Contents # <<>> /\ Contents' = Tail(Contents) /\ Head(Contents) = mem[lo]
<1>1. /\ ringbuf_size' = ringbuf_size - 1 /\ ringbuf_size \in Nat /\ ringbuf_size > 0
      /\ \A j \in 1 .. ringbuf_size - 1 : Around(lo' + j - 1) = Around(lo + (j + 1) - 1)
      /\ Around(lo + 1 - 1) = lo
  BY DEF TypeOK, ringbuf_empty, Wrap, ringbuf_size, Around
<1>2. /\ Contents \in Seq(Block) /\ Len(Contents) = ringbuf_size
      /\ \A j \in 1 .. ringbuf_size : Contents[j] = mem[Around(lo + j - 1)]
  BY ContentsAt DEF Listed
<1>3. /\ Contents' \in Seq(Block) /\ Len(Contents') = ringbuf_size - 1
      /\ \A j \in 1 .. ringbuf_size - 1 : Contents'[j] = mem[Around(lo' + j - 1)]
  <2>1. Listed'
    BY ContentsAt, PTL
  <2> QED BY <1>1, <2>1 DEF Listed, Around
<1>5. Contents # <<>> /\ Head(Contents) = Contents[1]
  BY <1>1, <1>2
<1>6. /\ Tail(Contents) \in Seq(Block) /\ Len(Tail(Contents)) = ringbuf_size - 1
      /\ \A j \in 1 .. ringbuf_size - 1 : Tail(Contents)[j] = Contents[j + 1]
  BY <1>1, <1>2, <1>5, HeadTailProperties
<1>7. ASSUME NEW j \in 1 .. ringbuf_size - 1 PROVE Contents'[j] = Tail(Contents)[j]
  <2>1. Contents'[j] = mem[Around(lo' + j - 1)]
    BY <1>3
  <2>2. j + 1 \in 1 .. ringbuf_size
    BY <1>1
  <2> QED BY <1>1, <1>2, <1>6, <2>1, <2>2
<1>8. Contents' = Tail(Contents)
  BY <1>1, <1>3, <1>6, <1>7, SameElements
<1> QED BY <1>1, <1>2, <1>5, <1>8

LEMMA FifoInit == Init => Queue!Init
<1> SUFFICES ASSUME Init PROVE Queue!Init
  OBVIOUS
<1>1. Contents = <<>>
  BY InitType, EmptyContents DEF Init
<1> QED BY <1>1 DEF Init, Queue!Init, Answer, Queue!Answer

LEMMA FifoStep == TypeOK /\ TypeOK' /\ [Next]_vars => [Queue!Next]_<<Contents, Room, ret>>
<1> SUFFICES ASSUME TypeOK, TypeOK', [Next]_vars
             PROVE  Queue!Next \/ UNCHANGED <<Contents, Room, ret>>
  OBVIOUS
<1> USE DEF Answer, Queue!Answer
<1>0. (lo = hi)' => (Contents = <<>>)'
  BY EmptyContents, PTL
<1>1. CASE init_ringbuf
  <2>1. CASE UNCHANGED fields /\ ret' = Answer("init", FALSE, NULL, 0)
    BY <2>1, SameContents DEF Queue!Next, Queue!CreateFails, Room
  <2>2. ASSUME NEW n \in Counts \ {0}, live' = TRUE, cnt' = n, lo' = 0, hi' = 0,
               ret' = Answer("init", TRUE, NULL, 0)
        PROVE  Queue!Create
    <3>1. Room' = n - 1 /\ n - 1 \in Nat
      BY <2>2, CountsAssumption DEF Room
    <3> QED BY <1>0, <2>2, <3>1 DEF Queue!Create, Room
  <2> QED BY <1>1, <2>1, <2>2 DEF init_ringbuf, Queue!Next
<1>2. CASE free_ringbuf
  BY <1>0, <1>2 DEF free_ringbuf, Queue!Next, Queue!Destroy, Room
<1>3. CASE ringbuf_clear
  BY <1>0, <1>3 DEF ringbuf_clear, Queue!Next, Queue!Clear, Room
<1>4. CASE ringbuf_poll
  <2>1. CASE ringbuf_empty /\ ret' = Answer("poll", FALSE, NULL, 0) /\ UNCHANGED fields
    <3>1. Contents = <<>>
      BY <2>1, EmptyContents DEF ringbuf_empty
    <3> QED BY <2>1, <3>1, SameContents DEF Queue!Next, Queue!Poll, Room
  <2>2. CASE /\ ~ringbuf_empty /\ lo' = Wrap(lo + 1) /\ UNCHANGED <<live, cnt, hi, mem>>
             /\ ret' = Answer("poll", TRUE, ringbuf_peek, 0)
    <3>1. live /\ ringbuf_peek = mem[lo]
      BY <1>4, <2>2 DEF ringbuf_poll, ringbuf_peek
    <3>2. Contents # <<>> /\ Contents' = Tail(Contents) /\ Head(Contents) = mem[lo]
      BY <2>2, <3>1, PollRemoves
    <3> QED BY <2>2, <3>1, <3>2 DEF Queue!Next, Queue!Poll, Room
  <2> QED BY <1>4, <2>1, <2>2 DEF ringbuf_poll
<1>5. CASE Observe
  <2>1. UNCHANGED fields /\ ret' = Answer("observe", ringbuf_empty, ringbuf_peek, ringbuf_size) /\ live
    BY <1>5 DEF Observe
  <2>2. /\ Contents \in Seq(Block) /\ Len(Contents) = ringbuf_size /\ ringbuf_size \in Nat
        /\ \A j \in 1 .. ringbuf_size : Contents[j] = mem[Around(lo + j - 1)]
    BY ContentsAt, SizeOf DEF Listed
  <2>3. ringbuf_empty <=> Contents = <<>>
    BY <2>2, SizeOf
  <2>4. Contents # <<>> => Head(Contents) = mem[lo]
    <3> SUFFICES ASSUME Contents # <<>> PROVE Head(Contents) = mem[lo]
      OBVIOUS
    <3>1. ringbuf_size > 0 /\ Head(Contents) = Contents[1]
      BY <2>2
    <3>2. Around(lo + 1 - 1) = lo
      BY <2>1 DEF Around, TypeOK
    <3> QED BY <2>2, <3>1, <3>2
  <2> QED BY <2>1, <2>2, <2>3, <2>4, SameContents DEF Queue!Next, Queue!Observe, Room, ringbuf_peek
<1>6. CASE ringbuf_foreach \/ ForeachNext
  BY <1>6, SameContents DEF ringbuf_foreach, ForeachNext
<1>7. ASSUME NEW e \in Elems, ringbuf_offer(e) PROVE Queue!Offer(e)
  <2>1. /\ Contents \in Seq(Block) /\ Len(Contents) = ringbuf_size /\ live /\ Room = cnt - 1
    BY <1>7, ContentsAt DEF Listed, ringbuf_offer, Room
  <2>2. CASE Full /\ ret' = Answer("offer", FALSE, e, 0) /\ UNCHANGED fields
    <3>1. ringbuf_size = cnt - 1
      BY <2>1, <2>2 DEF Full, Wrap, ringbuf_size, TypeOK
    <3> QED BY <2>1, <2>2, <3>1, SameContents DEF Queue!Offer, Room
  <2>3. CASE /\ ~Full /\ mem' = [mem EXCEPT ![hi] = e] /\ hi' = Wrap(hi + 1)
             /\ ret' = Answer("offer", TRUE, e, 0) /\ UNCHANGED <<live, cnt, lo>>
    <3>1. ringbuf_size < cnt - 1
      BY <2>1, <2>3 DEF Full, Wrap, ringbuf_size, TypeOK
    <3>2. Contents' = Append(Contents, e)
      BY <1>7, <2>3, OfferAppends
    <3> QED BY <2>1, <2>3, <3>1, <3>2 DEF Queue!Offer, Room
  <2> QED BY <1>7, <2>2, <2>3 DEF ringbuf_offer
<1>8. CASE UNCHANGED vars
  BY <1>8, SameContents DEF vars
<1> QED BY <1>1, <1>2, <1>3, <1>4, <1>5, <1>6, <1>7, <1>8 DEF Next, Queue!Next

(* The ring buffer is a first-in first-out queue: every call answers as    *)
(* the queue of cnt - 1 places does, for every sequence of calls, those of *)
(* foreach's function included.                                            *)
THEOREM IsFifo == Spec => ImplementsFifo
<1>1. TypeOK /\ TypeOK' /\ [Next]_vars => [Queue!Next]_(Queue!vars)
  BY FifoStep DEF Queue!vars, Room
<1> QED BY <1>1, FifoInit, TypeCorrect, PTL DEF Spec, ImplementsFifo, Queue!Spec

===============================================================================
