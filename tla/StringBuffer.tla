------------------------------ MODULE StringBuffer ------------------------------
(***************************************************************************)
(* string_buffer.c, on the block of Block: free_strbuf and cpy_free_strbuf *)
(* are there.  After strbuf_compact the block is a byte larger than cap.   *)
(***************************************************************************)
EXTENDS Block

CONSTANTS NUL,
          Strings      \* what the caller appends

Init == EmptyBlock

(* A string as its reader takes it, with end as the byte behind the        *)
(* characters: unless that is the terminator, the reader goes on with it.  *)
AsRead(end) == IF end = NUL THEN Contents ELSE Append(Contents, end)

strbuf_ensure_capacity == EnsureCapacity(1)
strbuf_compact == Compact(1)
cpy_free_strbuf == CpyFree(AsRead(Slot(len)))
free_strbuf == Free

(* The copy has len + 1 bytes, of which the last stays as malloc left it:  *)
(* the terminator goes to the byte after it.                               *)
strbuf_copy ==
  /\ Called("copy", Arg(0, <<>>))
  /\ \/ Crash                                            \* malloc failed
     \/ /\ UNCHANGED fields /\ ret' = Reply(TRUE, len, AsRead(Junk))
        /\ fault' = IF len + 1 \in 0 .. len THEN "none" ELSE "outside"

Terminate(b, n) == [j \in DOMAIN b |-> IF j = n THEN NUL ELSE b[j]]

strbuf_clear ==
  /\ Called("clear", Arg(0, <<>>))
  /\ \/ IsNull /\ Crash
     \/ ~IsNull /\ len' = 0 /\ mem' = Terminate(mem, 0) /\ UNCHANGED cap /\ Succeed({0})

Placed(b, s) ==
  [j \in DOMAIN b |-> IF j \in len .. len + Len(s) - 1 THEN s[j - len + 1] ELSE b[j]]

(* Mutant: no terminator is written.                                       *)
OnlyPlaced(b, s) == Placed(b, s)

Appended(b, s) == Terminate(Placed(b, s), len + Len(s))

(* An append of nothing to a buffer without a block ends at its terminator.*)
AppendStr(s) ==
  /\ len + Len(s) <= MaxLen /\ Called("add_last", Arg(0, s))
  /\ \/ NoRoom(len + Len(s))
     \/ \E room \in CapFor(len + Len(s), 1) :
          \/ BlockOf(room) = NoBlock /\ Crash
          \/ /\ BlockOf(room) # NoBlock
             /\ cap' = room /\ mem' = Appended(BlockOf(room), s) /\ len' = len + Len(s)
             /\ Succeed(len .. len + Len(s))

strbuf_append_ch == \E ch \in Elems : AppendStr(<<ch>>)

(* strbuf_append_str counts the characters first.                          *)
strbuf_append_nstr == \E s \in Strings : AppendStr(s)

(* size, capacity and data change nothing.                                 *)
Next == \/ strbuf_ensure_capacity \/ strbuf_compact \/ free_strbuf
        \/ cpy_free_strbuf \/ strbuf_copy \/ strbuf_clear
        \/ strbuf_append_ch \/ strbuf_append_nstr

Spec == Init /\ [][Next]_blockvars

-------------------------------------------------------------------------------
(* Properties.                                                             *)

(* The block has cap bytes, or one more after strbuf_compact, and below    *)
(* len are characters that were appended.  No call leaves the block but a  *)
(* copy, and an append that fills it; and none follows a null pointer but  *)
(* a copy that gets no memory, and calls that terminate an empty string    *)
(* without a block.                                                        *)
Written ==
  /\ len \in 0 .. cap
  /\ \E n \in {cap, cap + 1} : mem \in [0 .. n - 1 -> Elems \cup {NUL, Junk}]
  /\ \A j \in 0 .. len - 1 : mem[j] \in Elems
Full == len = cap /\ Cardinality(DOMAIN mem) = cap
LeavesBlock ==
  /\ fault = "outside" => op = "copy" \/ (op = "add_last" /\ Full)
  /\ fault = "null" =>
       op = "copy" \/ (IsNull /\ (op = "clear" \/ (op = "add_last" /\ arg.els = <<>>)))
BlockSafe == Written /\ LeavesBlock

(* What strbuf_data and cpy_free_strbuf hand out ends with a terminator.   *)
(* Once it does, only an append that fills the block to its last byte      *)
(* takes that away, or ensure_capacity on a buffer that had no block; and  *)
(* an append that leaves room gives it back.                               *)
Terminated == IsNull \/ Slot(len) = NUL
KeepsTerminator ==
  /\ Terminated /\ ~Terminated' =>
       (op' = "add_last" /\ Full') \/ (op' = "ensure_capacity" /\ IsNull)
  /\ op' = "add_last" /\ ret'.ok /\ ~Full' => Terminated'

(* Where the contents part from the headers' sequence: a copy is read on   *)
(* into the byte behind its characters, and so is a block handed over when *)
(* its string was not terminated.  The contents themselves are copied, or  *)
(* taken away, as promised.                                                *)
Unended ==
  \/ /\ op' = "copy" /\ ret' = Reply(TRUE, Len(Contents), AsRead(Junk))
     /\ UNCHANGED Contents
  \/ /\ op' = "cpy_free" /\ ~Terminated
     /\ ret' = Reply(TRUE, Len(Contents), Append(Contents, Slot(len))) /\ Contents' = <<>>
===============================================================================
