------------------------------ MODULE ThinArc ------------------------------
(***************************************************************************)
(* src/src/thin_arc.rs: an Arc<HeaderSlice<HeaderWithLength<H>, [T]>> in   *)
(* one word.  Its length is not in the pointer but in the contents, where  *)
(* it is a public field: every use of a ThinArc believes what is written   *)
(* there.  The file is kept with the crate, but lib.rs does not compile it *)
(* for now.                                                                *)
(*                                                                         *)
(* Calls are atomic but for with_arc, which makes its fat pointer before   *)
(* the callback and leaves the rest to it.                                 *)
(***************************************************************************)
EXTENDS Integers, FiniteSets

CONSTANTS
  Threads,   \* threads of the program
  Objs,      \* ArcInner allocations; addresses are reused once freed
  None,      \* not in with_arc
  MaxLen,    \* longest slice
  MaxRefs    \* bound on the references to one allocation

Lengths == 0 .. MaxLen

VARIABLES
  mem,      \* allocation -> "free", "live", or "boxed" (owned by a strategy)
  size,     \* allocation -> how many elements it was made for
  length,   \* allocation -> header.length
  count,    \* allocation -> ArcInner::count
  fat,      \* allocation -> how many Arcs there are, by the length in them
  thin,     \* allocation -> how many ThinArcs there are
  raw,      \* allocation -> how many pointers from ThinArc::into_raw
  leaked,   \* allocation -> references that a failed assertion left behind
  box,      \* allocation -> the length in the Box that a strategy owns
  transient \* thread -> what its with_arc lends to the callback

vars == <<mem, size, length, count, fat, thin, raw, leaked, box, transient>>
alloc == <<mem, size, length, box>>

\* A fat pointer to o that says it has n elements.
Fat(o, n) == [obj |-> o, len |-> n]
Fats == [obj : Objs, len : Lengths]

ASSUME ThinAssumption ==
  /\ IsFiniteSet(Threads)
  /\ MaxLen \in Nat /\ MaxRefs \in Nat
  /\ None \notin Fats

Idle(t) == transient[t] = None
Borrowed(o) == {t \in Threads : transient[t] # None /\ transient[t].obj = o}

\* There is a ThinArc that no callback of with_arc has borrowed.
CanOwn(o) == thin[o] > Cardinality(Borrowed(o))

-----------------------------------------------------------------------------
\* Faulty variants of the definitions that follow, one plausible slip each.

MayBeThin_Unchecked(o, n) == n \in Lengths
IsUnique_AtMostTwo(c)     == c <= 2
AfterThinning_Dropped(c)  == c - 1

\* The assertion in into_thin.
MayBeThin(o, n) == length[o] = n

\* thin_to_thick
ThinToThick(o) == Fat(o, length[o])

\* The counter when into_thin has put its Arc into a ManuallyDrop.
AfterThinning(c) == c

IsUnique(c) == c = 1
IsLast(old) == old = 1

-----------------------------------------------------------------------------
(* Construction *)

Allocate(o, l, n) ==
  /\ mem[o] = "free"
  /\ mem'    = [mem EXCEPT ![o] = "live"]
  /\ size'   = [size EXCEPT ![o] = n]
  /\ length' = [length EXCEPT ![o] = l]
  /\ count'  = [count EXCEPT ![o] = 1]
  /\ UNCHANGED <<raw, box, transient>>

\* Arc::from_header_and_iter with a header of the program's making, which may
\* say anything.
NewFat(t, o, l, n) ==
  /\ Idle(t)
  /\ Allocate(o, l, n)
  /\ fat' = [fat EXCEPT ![o][n] = 1]
  /\ UNCHANGED <<thin, leaked>>

\* ThinArc::from_header_and_iter asks the iterator for its length, and so does
\* Arc::from_header_and_iter; the iterator yields what it said last, or there
\* is no Arc.  from_header_and_slice is the case l = n.
NewThin(t, o, l, n) ==
  /\ Idle(t)
  /\ Allocate(o, l, n)
  /\ UNCHANGED fat
  /\ IF l = n
     THEN thin' = [thin EXCEPT ![o] = 1] /\ UNCHANGED leaked
     ELSE leaked' = [leaked EXCEPT ![o] = 1] /\ UNCHANGED thin

-----------------------------------------------------------------------------
(* Conversions *)

\* The Arc is in a ManuallyDrop by the time the assertion fails.
IntoThin(t, o, n) ==
  /\ Idle(t)
  /\ fat[o][n] > 0
  /\ fat'   = [fat EXCEPT ![o][n] = @ - 1]
  /\ count' = [count EXCEPT ![o] = AfterThinning(@)]
  /\ IF MayBeThin(o, n)
     THEN thin' = [thin EXCEPT ![o] = @ + 1] /\ UNCHANGED leaked
     ELSE leaked' = [leaked EXCEPT ![o] = @ + 1] /\ UNCHANGED thin
  /\ UNCHANGED <<alloc, raw, transient>>

FromThin(t, o) ==
  /\ Idle(t)
  /\ CanOwn(o)
  /\ thin' = [thin EXCEPT ![o] = @ - 1]
  /\ fat'  = [fat EXCEPT ![o][ThinToThick(o).len] = @ + 1]
  /\ UNCHANGED <<alloc, count, raw, leaked, transient>>

IntoRaw(t, o) ==
  /\ Idle(t)
  /\ CanOwn(o)
  /\ thin' = [thin EXCEPT ![o] = @ - 1]
  /\ raw'  = [raw EXCEPT ![o] = @ + 1]
  /\ UNCHANGED <<alloc, count, fat, leaked, transient>>

FromRaw(t, o) ==
  /\ Idle(t)
  /\ raw[o] > 0
  /\ raw'  = [raw EXCEPT ![o] = @ - 1]
  /\ thin' = [thin EXCEPT ![o] = @ + 1]
  /\ UNCHANGED <<alloc, count, fat, leaked, transient>>

-----------------------------------------------------------------------------
(* Clones *)

\* with_arc borrows a ThinArc, and synthesizes an Arc that is never dropped.
WithArc(t, o) ==
  /\ Idle(t)
  /\ thin[o] > 0
  /\ transient' = [transient EXCEPT ![t] = ThinToThick(o)]
  /\ UNCHANGED <<alloc, count, fat, thin, raw, leaked>>

WithArcEnd(t) ==
  /\ ~Idle(t)
  /\ transient' = [transient EXCEPT ![t] = None]
  /\ UNCHANGED <<alloc, count, fat, thin, raw, leaked>>

\* Clone::clone of a fat Arc, in a variable or lent to the callback.
CloneFat(t, a) ==
  /\ IF Idle(t) THEN fat[a.obj][a.len] > 0 ELSE transient[t] = a
  /\ count[a.obj] < MaxRefs
  /\ count' = [count EXCEPT ![a.obj] = @ + 1]
  /\ fat'   = [fat EXCEPT ![a.obj][a.len] = @ + 1]
  /\ UNCHANGED <<alloc, thin, raw, leaked, transient>>

\* ThinArc::clone: with_arc, and into_thin of a clone.
CloneThin(t) ==
  LET a == transient[t] IN
  /\ ~Idle(t)
  /\ count[a.obj] < MaxRefs
  /\ count' = [count EXCEPT ![a.obj] = AfterThinning(@ + 1)]
  /\ IF MayBeThin(a.obj, a.len)
     THEN thin' = [thin EXCEPT ![a.obj] = @ + 1] /\ UNCHANGED leaked
     ELSE leaked' = [leaked EXCEPT ![a.obj] = @ + 1] /\ UNCHANGED thin
  /\ transient' = [transient EXCEPT ![t] = None]
  /\ UNCHANGED <<alloc, fat, raw>>

-----------------------------------------------------------------------------
(* Changes of the contents, and drops *)

\* get_mut, or a UniqueArc: header.length is a field like any other.
SetLength(t, o, n, l) ==
  /\ Idle(t)
  /\ fat[o][n] > 0
  /\ IsUnique(count[o])
  /\ length' = [length EXCEPT ![o] = l]
  /\ UNCHANGED <<mem, size, box, count, fat, thin, raw, leaked, transient>>

\* Drop::drop of an Arc that is the fat pointer a.
Release(a) ==
  /\ count' = [count EXCEPT ![a.obj] = @ - 1]
  /\ IF IsLast(count[a.obj])
     THEN /\ mem' = [mem EXCEPT ![a.obj] = "boxed"]
          /\ box' = [box EXCEPT ![a.obj] = a.len]
     ELSE UNCHANGED <<mem, box>>
  /\ UNCHANGED <<size, length, raw, leaked, transient>>

DropFat(t, a) ==
  /\ Idle(t)
  /\ fat[a.obj][a.len] > 0
  /\ fat' = [fat EXCEPT ![a.obj][a.len] = @ - 1]
  /\ Release(a)
  /\ UNCHANGED thin

\* ThinArc::drop goes by from_thin.
DropThin(t, o) ==
  /\ Idle(t)
  /\ CanOwn(o)
  /\ thin' = [thin EXCEPT ![o] = @ - 1]
  /\ Release(ThinToThick(o))
  /\ UNCHANGED fat

\* The strategy drops its box.
StrategyDrops(o) ==
  /\ mem[o] = "boxed"
  /\ mem'   = [mem EXCEPT ![o] = "free"]
  /\ UNCHANGED <<size, length, count, fat, thin, raw, leaked, box, transient>>

-----------------------------------------------------------------------------
(* Specification *)

Init ==
  /\ mem    = [o \in Objs |-> "free"]
  /\ size   = [o \in Objs |-> 0]
  /\ length = [o \in Objs |-> 0]
  /\ count  = [o \in Objs |-> 0]
  /\ fat    = [o \in Objs |-> [n \in Lengths |-> 0]]
  /\ thin   = [o \in Objs |-> 0]
  /\ raw    = [o \in Objs |-> 0]
  /\ leaked = [o \in Objs |-> 0]
  /\ box    = [o \in Objs |-> 0]
  /\ transient = [t \in Threads |-> None]

Next ==
  \/ \E t \in Threads :
       \/ \E o \in Objs, l, n \in Lengths :
            NewFat(t, o, l, n) \/ NewThin(t, o, l, n) \/ SetLength(t, o, n, l)
       \/ \E o \in Objs, n \in Lengths : IntoThin(t, o, n)
       \/ \E o \in Objs :
            \/ FromThin(t, o) \/ IntoRaw(t, o) \/ FromRaw(t, o)
            \/ WithArc(t, o) \/ DropThin(t, o)
       \/ \E a \in Fats : CloneFat(t, a) \/ DropFat(t, a)
       \/ WithArcEnd(t) \/ CloneThin(t)
  \/ \E o \in Objs : StrategyDrops(o)

Spec == Init /\ [][Next]_vars

-----------------------------------------------------------------------------
(* Properties *)

\* "Length needs to be correct for ThinArc to work" (thin_arc.rs:174): every
\* ThinArc and raw pointer finds in header.length what the allocation was made
\* for, although header.length is a public field; so does every Arc made of
\* one, the transient one in a callback included, and the Box that is freed.
\* A failed assertion leaks only where the lengths differ.
LengthsAgree ==
  \A o \in Objs :
    /\ thin[o] + raw[o] > 0 => length[o] = size[o]
    /\ \A n \in Lengths : fat[o][n] > 0 => n = size[o]
    /\ \A t \in Borrowed(o) : transient[t].len = size[o]
    /\ mem[o] = "boxed" => box[o] = size[o]
    /\ leaked[o] > 0 => length[o] # size[o]

\* with_arc "never touches the refcount" (thin_arc.rs:57), and into_thin and
\* from_thin consume one reference and make one: the counter is the number of
\* references of all kinds, and an allocation without any is disposed of.
\* (Those Arcs count whose length is right; LengthsAgree has no others.)
ReferencesCounted ==
  \A o \in Objs :
    /\ mem[o] = "live" => count[o] > 0
    /\ count[o] = thin[o] + raw[o] + leaked[o] + fat[o][size[o]]
=============================================================================
