----------------------------- MODULE Ownership -----------------------------
(***************************************************************************)
(* What shared ownership promises, without a counter: an allocation has a  *)
(* set of owners; when the set becomes empty the contents are handed, once *)
(* and soon, to the backdrop strategy; the contents change, or are moved   *)
(* out, only in the hands of a sole owner.  README.md of the crate: "An    *)
(* Arc<T> that adds a Backdrop Strategy S to be run when the arc's last    *)
(* reference goes out of scope".                                           *)
(***************************************************************************)
CONSTANTS
  Owners,  \* who may own an allocation
  Objs,    \* allocations
  Vals,    \* contents of an allocation
  None     \* no contents

VARIABLES
  owners,   \* allocation -> the set of its owners
  phase,    \* allocation -> "free", "live", or "boxed" (a strategy has it)
  val,      \* allocation -> contents
  aborted   \* the process has ended itself

vars == <<owners, phase, val, aborted>>

Unowned == Owners \ UNION {owners[o] : o \in Objs}
Sole(o) == \E w \in Owners : owners[o] = {w}

Init ==
  /\ owners = [o \in Objs |-> {}]
  /\ phase  = [o \in Objs |-> "free"]
  /\ val    = [o \in Objs |-> None]
  /\ aborted = FALSE

Create(o, w, v) ==
  /\ phase[o] = "free" /\ w \in Unowned
  /\ owners' = [owners EXCEPT ![o] = {w}]
  /\ phase'  = [phase EXCEPT ![o] = "live"]
  /\ val'    = [val EXCEPT ![o] = v]

\* An owner takes in others: one by clone, many by clone_many.
Share(o, W) ==
  /\ owners[o] # {}
  /\ W # {} /\ W \subseteq Unowned
  /\ owners' = [owners EXCEPT ![o] = @ \cup W]
  /\ UNCHANGED <<phase, val>>

\* Owners go: one that is dropped, or those a dropped iterator still owed.
Release(o, W) ==
  /\ W # {} /\ W \subseteq owners[o]
  /\ owners' = [owners EXCEPT ![o] = @ \ W]
  /\ UNCHANGED <<phase, val>>

\* make_mut of a shared allocation: the owner moves to a copy of its own.
Split(o, p, w) ==
  /\ w \in owners[o] /\ phase[p] = "free"
  /\ owners' = [owners EXCEPT ![o] = @ \ {w}, ![p] = {w}]
  /\ phase'  = [phase EXCEPT ![p] = "live"]
  /\ val'    = [val EXCEPT ![p] = val[o]]

Write(o, v) ==
  /\ Sole(o)
  /\ val' = [val EXCEPT ![o] = v]
  /\ UNCHANGED <<owners, phase>>

\* The last owner takes the contents out, and there is nothing to dispose of.
Unwrap(o) ==
  /\ Sole(o)
  /\ owners' = [owners EXCEPT ![o] = {}]
  /\ phase'  = [phase EXCEPT ![o] = "free"]
  /\ val'    = [val EXCEPT ![o] = None]

Dispose(o) ==
  /\ ~aborted
  /\ phase[o] = "live" /\ owners[o] = {}
  /\ phase' = [phase EXCEPT ![o] = "boxed"]
  /\ UNCHANGED <<owners, val, aborted>>

\* The strategy is done with it.
Reclaim(o) ==
  /\ phase[o] = "boxed"
  /\ phase' = [phase EXCEPT ![o] = "free"]
  /\ val'   = [val EXCEPT ![o] = None]
  /\ UNCHANGED owners

Abort == aborted' = TRUE /\ UNCHANGED <<owners, phase, val>>

Next ==
  \/ /\ ~aborted
     /\ \/ /\ UNCHANGED aborted
           /\ \E o \in Objs :
                \/ \E w \in Owners, v \in Vals : Create(o, w, v)
                \/ \E W \in SUBSET Owners : Share(o, W) \/ Release(o, W)
                \/ \E p \in Objs, w \in Owners : Split(o, p, w)
                \/ \E v \in Vals : Write(o, v)
                \/ Unwrap(o) \/ Reclaim(o)
        \/ Abort
  \/ \E o \in Objs : Dispose(o)

SafeSpec == Init /\ [][Next]_vars

\* Nobody has to wait for a disposal that is due.
Spec == SafeSpec /\ \A o \in Objs : WF_vars(Dispose(o))
=============================================================================
