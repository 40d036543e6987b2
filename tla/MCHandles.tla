----------------------------- MODULE MCHandles -----------------------------
(* Small instances of Handles and OffsetMakeMut for TLC. *)
EXTENDS OffsetMakeMut

\* A is a type of word alignment or less, B one of twice that.
WordAndDouble == [T \in Types |-> IF T = "A" THEN 8 ELSE 16]
=============================================================================
