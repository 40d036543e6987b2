--------------------------- MODULE OffsetMakeMut ---------------------------
(* Handles with a T::clone that may panic inside OffsetArc::make_mut.       *)
EXTENDS Handles

\* The Arc that make_mut has made of a bitwise copy of the OffsetArc is a
\* local variable, and unwinding drops it; the OffsetArc itself stays as it
\* was, with a reference that is no longer counted.
CopyPanics(t) ==
  LET p == InnerOf(call[t].ref) IN
  /\ call[t].op = "copy"
  /\ count' = [count EXCEPT ![p] = @ - 1]
  /\ Lose(t, p, None)
  /\ UNCHANGED <<mem, type, handles>>

NextWithPanic == Next \/ \E t \in Threads : CopyPanics(t)

SpecWithPanic == Init /\ [][NextWithPanic]_vars

\* OffsetArc::make_mut "is functionally the same thing as `Arc::make_mut`"
\* (offset_arc.rs:130).  When T::clone panics in Arc::make_mut the Arc keeps
\* its reference (Arc's CopyPanics), so an OffsetArc should keep its own: what
\* a handle points to is live, and no more handles than are counted.
PanicKeepsReference ==
  \A h \in Refs : kind[h] # "absent" =>
    mem[home[h]] = "live" /\ count[home[h]] >= Cardinality(Held(home[h]))
=============================================================================
