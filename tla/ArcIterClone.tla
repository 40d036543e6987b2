---------------------------- MODULE ArcIterClone ----------------------------
(* Arc with one more operation of the crate: `ArcCloneIter` derives Clone.  *)
EXTENDS Arc

\* <ArcCloneIter as Clone>::clone copies orig and arcs_left: the new iterator
\* owes as many references as the old one, and the counter is not touched.
IterClone(t, i, j, N) ==
  /\ Idle(t)
  /\ orig[i] # None /\ ~InUse(i)
  /\ orig[j] = None
  /\ N \subseteq Fresh /\ Cardinality(N) = left[i]
  /\ at'   = [r \in Refs |-> IF r \in N THEN at[orig[i]] ELSE at[r]]
  /\ form' = [r \in Refs |-> IF r \in N THEN j ELSE form[r]]
  /\ orig' = [orig EXCEPT ![j] = orig[i]]
  /\ left' = [left EXCEPT ![j] = left[i]]
  /\ UNCHANGED <<heap, call, aborted>>

NextWithIterClone ==
  \/ Next
  \/ \E t \in Threads, i, j \in Iters, N \in SUBSET Refs : IterClone(t, i, j, N)

SpecWithIterClone == Init /\ [][NextWithIterClone]_vars
=============================================================================
