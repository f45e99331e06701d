---------------------------------- MODULE Kept ----------------------------------
(***************************************************************************)
(* What is left of a sequence when some of its elements go.                *)
(***************************************************************************)
EXTENDS Integers, Sequences

Without(s, drop) ==
  LET left[n \in 0 .. Len(s)] ==
        IF n = 0 THEN <<>>
        ELSE IF s[n] \in drop THEN left[n - 1] ELSE Append(left[n - 1], s[n])
  IN  left[Len(s)]
===============================================================================
