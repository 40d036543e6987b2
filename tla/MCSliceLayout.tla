---------------------------- MODULE MCSliceLayout ----------------------------
(* Small instances of SliceLayout for TLC. *)
EXTENDS SliceLayout

\* A usize of two bytes, and types that are empty, smaller than it, of odd
\* length, and aligned to less, as much and more than it.
TwoBytes   == [size |-> 2, align |-> 2]
SmallTypes ==
  {l \in [size : 0 .. 8, align : {1, 2, 4}] : l.size % l.align = 0}
=============================================================================
