----------------------------- MODULE MCRingBuffer -----------------------------
(***************************************************************************)
(* RingBuffer with blocks of one element, which can hold none, and of      *)
(* three and four, which wrap.                                             *)
(***************************************************************************)
EXTENDS RingBuffer

SomeCounts == {0, 1, 3, 4}
===============================================================================
