---------------------------- MODULE ArcOwnership ----------------------------
(* The counting protocol of Arc implements the ownership of Ownership.      *)
EXTENDS Arc

\* The owners of an allocation are the units of its count.
Abs == INSTANCE Ownership WITH
         Owners <- Refs, owners <- [o \in Objs |-> At(o)], phase <- mem

\* Arc behaves as shared ownership does, as far as allocations, their owners
\* and their contents go: no step of a counter, of a bulk clone or of
\* make_mut does what an owner could not, and every allocation whose owners
\* are all gone is handed to its strategy.
OwnershipHolds == Abs!Spec
=============================================================================
