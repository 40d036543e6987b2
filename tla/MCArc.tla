------------------------------- MODULE MCArc -------------------------------
(* Small instances of Arc for TLC. *)
EXTENDS Arc, TLC

\* Threads, references and allocations are interchangeable: no definition
\* chooses one of them, and the runs that use this check no liveness.
Symmetry == Permutations(Threads) \cup Permutations(Refs) \cup Permutations(Objs)
=============================================================================
