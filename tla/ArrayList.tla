------------------------------- MODULE ArrayList -------------------------------
(***************************************************************************)
(* array_list.c, on the block of Block: free_arrlist, cpy_free_arrlist and *)
(* arrlist_compact are there.                                              *)
(***************************************************************************)
EXTENDS Block

Init == EmptyBlock

arrlist_ensure_capacity == EnsureCapacity(0)
arrlist_compact == Compact(0)
cpy_free_arrlist == CpyFree(Contents)
free_arrlist == Free

arrlist_clear ==
  Called("clear", Arg(0, <<>>)) /\ len' = 0 /\ UNCHANGED <<cap, mem>> /\ Succeed({})

arrlist_add == \E e \in Elems :
  /\ len < MaxLen /\ Called("add_last", Arg(0, <<e>>))
  /\ \/ NoRoom(len + 1)
     \/ \E room \in CapFor(len + 1, 0) :
          /\ cap' = room /\ mem' = [BlockOf(room) EXCEPT ![len] = e]
          /\ len' = len + 1 /\ Succeed({len})

(* Mutant: one element too few moves up.                                   *)
MovesUpShort(j, at) == at < j /\ j < len

MovesUp(j, at) == at < j /\ j <= len

arrlist_insert == \E at \in 0 .. MaxLen + 1, e \in Elems :
  /\ len < MaxLen /\ Called("insert", Arg(at, <<e>>))
  /\ \/ at > len /\ Refuse
     \/ at <= len /\ NoRoom(len + 1)
     \/ /\ at <= len
        /\ \E room \in CapFor(len + 1, 0) :
             /\ cap' = room
             /\ mem' = [j \in 0 .. room - 1 |->
                          IF j = at THEN e ELSE Slot(IF MovesUp(j, at) THEN j - 1 ELSE j)]
             /\ len' = len + 1 /\ Succeed(at .. len)

arrlist_set == \E at \in 0 .. MaxLen, e \in Elems :
  /\ Called("set", Arg(at, <<e>>))
  /\ \/ at >= len /\ Refuse
     \/ /\ at < len /\ mem' = [mem EXCEPT ![at] = e] /\ UNCHANGED <<len, cap>>
        /\ Return(TRUE, 0, <<mem[at]>>, {at})

(* Elements move down from at + 1 on: len - at + 1, two more than remain.  *)
MovesDown(j, at) == at <= j /\ j <= len
LastRead == len + 1

RemoveOne(o, at) ==
  /\ Called(o, Arg(at, <<>>))
  /\ \/ at \notin 0 .. len - 1 /\ Refuse
     \/ /\ at \in 0 .. len - 1
        /\ mem' = [j \in DOMAIN mem |-> IF MovesDown(j, at) THEN Slot(j + 1) ELSE mem[j]]
        /\ len' = len - 1 /\ UNCHANGED cap /\ Return(TRUE, 0, <<mem[at]>>, at .. LastRead)

arrlist_remove == \E at \in 0 .. MaxLen : RemoveOne("remove", at)
arrlist_remove_first == RemoveOne("remove_first", 0)
arrlist_remove_last == RemoveOne("remove_last", len - 1)

arrlist_reverse ==
  /\ Called("reverse", Arg(0, <<>>))
  /\ mem' = [j \in DOMAIN mem |-> mem[IF j < len THEN len - j - 1 ELSE j]]
  /\ UNCHANGED <<len, cap>> /\ Succeed(0 .. len - 1)

(* size, capacity, data and get change nothing: get shows what foreach     *)
(* does, one index at a time.                                              *)
arrlist_foreach ==
  /\ Called("foreach", Arg(0, <<>>)) /\ UNCHANGED fields
  /\ Return(TRUE, len, Contents, 0 .. len - 1)

Next == \/ arrlist_ensure_capacity \/ arrlist_compact \/ cpy_free_arrlist
        \/ free_arrlist \/ arrlist_clear \/ arrlist_add \/ arrlist_insert \/ arrlist_set
        \/ arrlist_remove \/ arrlist_remove_first \/ arrlist_remove_last
        \/ arrlist_reverse \/ arrlist_foreach

Spec == Init /\ [][Next]_blockvars

-------------------------------------------------------------------------------
(* Properties.                                                             *)

(* The block has cap slots, and what is below len was written: never       *)
(* uninitialised memory nor what lay past the block, however elements were *)
(* shifted and the block resized.  No call leaves the block, for any       *)
(* growth macro and whatever realloc refuses, but a removal when fewer     *)
(* than two slots are unused.                                              *)
Written ==
  /\ len \in 0 .. cap /\ mem \in [0 .. cap - 1 -> Elems \cup {Junk}]
  /\ \A j \in 0 .. len - 1 : mem[j] \in Elems
LeavesBlock ==
  /\ fault # "null"
  /\ fault = "outside" =>
       op \in {"remove", "remove_first", "remove_last"} /\ cap <= len + 2
BlockSafe == Written /\ LeavesBlock
===============================================================================
