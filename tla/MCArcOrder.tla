----------------------------- MODULE MCArcOrder -----------------------------
(* Small instances of ArcOrder for TLC. *)
EXTENDS ArcOrder, TLC

\* No definition chooses a thread or a reference.
Symmetry == Permutations(Threads) \cup Permutations(Refs)
=============================================================================
