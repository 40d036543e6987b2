------------------------------ MODULE Handles ------------------------------
(***************************************************************************)
(* The handles that stand for an Arc without being one: OffsetArc          *)
(* (offset_arc.rs), ArcBorrow (arc_borrow.rs), ArcUnion (arc_union.rs) and *)
(* the raw pointers of into_raw/from_raw, which arc-swap's RefCnt uses     *)
(* (arc_swap_support.rs).  None of them has a counter of its own: each     *)
(* finds the ArcInner again from an address, and from a type the address   *)
(* does not tell, or tells in its lowest bit.                              *)
(*                                                                         *)
(* Addresses are numbers here, and an allocation is the address of its     *)
(* ArcInner.  `home` is not in the code: it is the allocation that counts  *)
(* the handle, and the question is whether the code still finds it.        *)
(*                                                                         *)
(* A counter access is one step.  The ways of clone and drop through the   *)
(* counter are in Arc.                                                     *)
(***************************************************************************)
EXTENDS Integers, FiniteSets

CONSTANTS
  Threads,     \* threads of the program
  Refs,        \* handles; bounds how many exist at a time
  Objs,        \* addresses an ArcInner may be allocated at
  DataOffset,  \* type -> offset_of!(ArcInner<T>, data)
  None

\* The type parameters of ArcUnion<A, B, S>, and of the other handles.
Types == {"A", "B"}
Kinds == {"Arc", "OffsetArc", "ArcUnion", "raw"}

(***************************************************************************)
(* ArcInner is repr(C) and starts with a usize: its alignment, and the     *)
(* offset of its data, are even.                                           *)
(***************************************************************************)
ASSUME AddressAssumption ==
  /\ \A o \in Objs : o \in Nat /\ o % 2 = 0
  /\ DataOffset \in [Types -> Nat]
  /\ \A T \in Types : DataOffset[T] % 2 = 0
  /\ None \notin Refs /\ None \notin Objs /\ None \notin Types
  /\ IsFiniteSet(Refs)

VARIABLES
  mem,     \* allocation -> "free", "live", or "boxed" (a strategy has it)
  type,    \* allocation -> the T it was allocated for
  count,   \* allocation -> ArcInner::count
  kind,    \* handle -> what it is, or "absent"
  param,   \* handle -> its T, which an ArcUnion does not have
  ptr,     \* handle -> the address it holds
  home,    \* handle -> the allocation that counts it
  call     \* thread -> the call it is in

vars == <<mem, type, count, kind, param, ptr, home, call>>
heap == <<mem, type, count>>
handles == <<kind, param, ptr, home>>

\* `ref` is the handle a method was called on, `obj` what drop_slow will box.
Idle == [op |-> "idle", ref |-> None, obj |-> None]
In(op, h) == [op |-> op, ref |-> h, obj |-> None]

Held(o) == {h \in Refs : home[h] = o}
Fresh   == {h \in Refs : kind[h] = "absent"}

-----------------------------------------------------------------------------
\* Faulty variants of the definitions that follow, one plausible slip each.

FromRaw_FirstOffset(p, T) == p - DataOffset["A"]
Untagged_Kept(u)          == u
CloneArc_Uncounted(n)     == n
IsUnique_AtMostTwo(c)     == c <= 2
IsLast_AtMostTwo(old)     == old <= 2
TransientDropped(n)       == n - 1

CloneArc(n)      == n + 1   \* ArcBorrow::clone_arc: arc.clone(), forgotten
Transient(n)     == n       \* with_arc: the transient is never dropped
IsUnique(c)      == c = 1
IsLast(old)      == old = 1

-----------------------------------------------------------------------------
(* Addresses *)

AsPtr(p, T)   == p + DataOffset[T]
FromRaw(p, T) == p - DataOffset[T]

\* `as usize | 0x1`, `& !0x1`, `& 0x1 == 0`
Tagged(p)   == IF p % 2 = 0 THEN p + 1 ELSE p
Untagged(u) == u - (u % 2)
IsFirst(u)  == u % 2 = 0

\* What ArcUnion::borrow makes of the union's pointer.
Variant(u)  == IF IsFirst(u) THEN "A" ELSE "B"
UnionPtr(p, T) == IF T = "A" THEN AsPtr(p, T) ELSE Tagged(AsPtr(p, T))

\* The T a handle is used as, the address of that T, and the ArcInner that
\* its clone and drop reach for.
TypeOf(h)  == IF kind[h] = "ArcUnion" THEN Variant(ptr[h]) ELSE param[h]
DataOf(h)  == CASE kind[h] = "Arc"      -> AsPtr(ptr[h], param[h])
                [] kind[h] = "ArcUnion" -> IF IsFirst(ptr[h]) THEN ptr[h]
                                           ELSE Untagged(ptr[h])
                [] OTHER                -> ptr[h]
InnerOf(h) == IF kind[h] = "Arc" THEN ptr[h] ELSE FromRaw(DataOf(h), TypeOf(h))

\* The address that a handle of kind k holds for the ArcInner at p.
AddressAs(k, p, T) == CASE k = "Arc"      -> p
                        [] k = "ArcUnion" -> UnionPtr(p, T)
                        [] OTHER          -> AsPtr(p, T)

-----------------------------------------------------------------------------
(* What the borrow checker allows, and what `unsafe` callers promise *)

Free(t) == call[t] = Idle

\* `&h`: nobody has `&mut h`.
CanShare(h) ==
  /\ kind[h] \in Kinds \ {"raw"}
  /\ \A t \in Threads : call[t].ref = h => call[t].op = "with_arc"
\* `&mut h`, or h by value.
CanOwn(h) ==
  /\ kind[h] # "absent"
  /\ \A t \in Threads : call[t].ref # h

\* A handle comes to be that is counted by the allocation at o.
Become(h, k, T, o) ==
  /\ kind'  = [kind EXCEPT ![h] = k]
  /\ param' = [param EXCEPT ![h] = IF k = "ArcUnion" THEN None ELSE T]
  /\ ptr'   = [ptr EXCEPT ![h] = AddressAs(k, o, T)]

-----------------------------------------------------------------------------
(* Operations *)

New(t, h, o, T) ==
  /\ Free(t)
  /\ h \in Fresh /\ mem[o] = "free"
  /\ mem'   = [mem EXCEPT ![o] = "live"]
  /\ type'  = [type EXCEPT ![o] = T]
  /\ count' = [count EXCEPT ![o] = 1]
  /\ Become(h, "Arc", T, o)
  /\ home'  = [home EXCEPT ![h] = o]
  /\ UNCHANGED call

\* A clone n of kind k: the handle is taken for an Arc, the Arc cloned, and
\* the clone made into a handle again.
CloneAs(h, n, k) ==
  LET p == InnerOf(h) IN
  /\ n \in Fresh
  /\ count' = [count EXCEPT ![p] = CloneArc(@)]
  /\ Become(n, k, TypeOf(h), p)
  /\ home'  = [home EXCEPT ![n] = home[h]]
  /\ UNCHANGED <<mem, type>>

\* Clone for Arc, OffsetArc and ArcUnion.
Clone(t, h, n) ==
  /\ Free(t)
  /\ CanShare(h)
  /\ CloneAs(h, n, kind[h])
  /\ UNCHANGED call

\* borrow_arc of an Arc or OffsetArc, ArcUnion::borrow, then
\* ArcBorrow::clone_arc; OffsetArc::clone_arc.
BorrowClone(t, h, n) ==
  /\ Free(t)
  /\ CanShare(h)
  /\ CloneAs(h, n, "Arc")
  /\ UNCHANGED call

\* with_arc, with_raw_offset_arc: an Arc or OffsetArc is made up for the time
\* of a callback, which may clone it.
WithArc(t, h) ==
  /\ Free(t)
  /\ CanShare(h)
  /\ call' = [call EXCEPT ![t] = In("with_arc", h)]
  /\ UNCHANGED <<heap, handles>>

CallbackClone(t, n) ==
  /\ call[t].op = "with_arc"
  /\ \E k \in {"Arc", "OffsetArc"} : CloneAs(call[t].ref, n, k)
  /\ UNCHANGED call

\* The callback returns or panics; the ManuallyDrop goes out of scope.
CallbackEnd(t) ==
  LET p == InnerOf(call[t].ref) IN
  /\ call[t].op = "with_arc"
  /\ count' = [count EXCEPT ![p] = Transient(@)]
  /\ call'  = [call EXCEPT ![t] = Idle]
  /\ UNCHANGED <<mem, type, handles>>

\* into_raw_offset, from_raw_offset, into_raw and RefCnt::into_ptr, from_raw
\* and RefCnt::from_ptr, ArcUnion::from_first and from_second: the reference
\* goes from one handle to the other.
Conversions == {<<"Arc", "OffsetArc">>, <<"OffsetArc", "Arc">>,
                <<"Arc", "raw">>, <<"raw", "Arc">>, <<"Arc", "ArcUnion">>}
Convert(t, h, k) ==
  /\ Free(t)
  /\ CanOwn(h)
  /\ <<kind[h], k>> \in Conversions
  /\ Become(h, k, TypeOf(h), InnerOf(h))
  /\ UNCHANGED <<heap, home, call>>

\* A reference of the allocation at p goes, and with the last one it is for
\* thread t to give the allocation to its strategy.
Lose(t, p, resume) ==
  IF IsLast(count[p])
  THEN call' = [call EXCEPT ![t] = [op |-> "drop_slow", ref |-> resume, obj |-> p]]
  ELSE call' = [call EXCEPT ![t] = IF resume = None THEN Idle ELSE In("mut", resume)]

\* Drop for Arc, OffsetArc (from_raw_offset) and ArcUnion (from_raw of what
\* it borrows).
Drop(t, h) ==
  LET p == InnerOf(h) IN
  /\ Free(t)
  /\ CanOwn(h) /\ kind[h] # "raw"
  /\ count' = [count EXCEPT ![p] = @ - 1]
  /\ kind'  = [kind EXCEPT ![h] = "absent"]
  /\ param' = [param EXCEPT ![h] = None]
  /\ ptr'   = [ptr EXCEPT ![h] = 0]
  /\ home'  = [home EXCEPT ![h] = None]
  /\ Lose(t, p, None)
  /\ UNCHANGED <<mem, type>>

\* drop_slow; a make_mut that replaced the last reference goes on after it.
DropSlow(t) ==
  LET c == call[t] IN
  /\ c.op = "drop_slow"
  /\ mem'  = [mem EXCEPT ![c.obj] = "boxed"]
  /\ call' = [call EXCEPT ![t] = IF c.ref = None THEN Idle ELSE In("mut", c.ref)]
  /\ UNCHANGED <<type, count, handles>>

StrategyDrops(o) ==
  /\ mem[o] = "boxed"
  /\ mem'   = [mem EXCEPT ![o] = "free"]
  /\ type'  = [type EXCEPT ![o] = None]
  /\ UNCHANGED <<count, handles, call>>

\* OffsetArc::make_mut, up to Arc::make_mut's look at the counter of the Arc
\* it has made of a bitwise copy of itself.
MakeMut(t, h) ==
  /\ Free(t)
  /\ CanOwn(h) /\ kind[h] = "OffsetArc"
  /\ call' = [call EXCEPT ![t] =
                In(IF IsUnique(count[InnerOf(h)]) THEN "mut" ELSE "copy", h)]
  /\ UNCHANGED <<heap, handles>>

\* T::clone has returned: a new allocation takes the place of the old one in
\* the Arc, which is then written back as an OffsetArc.
Replace(t, o) ==
  LET h == call[t].ref p == InnerOf(h) IN
  /\ call[t].op = "copy"
  /\ mem[o] = "free"
  /\ mem'   = [mem EXCEPT ![o] = "live"]
  /\ type'  = [type EXCEPT ![o] = TypeOf(h)]
  /\ count' = [count EXCEPT ![o] = 1, ![p] = @ - 1]
  /\ Become(h, "OffsetArc", TypeOf(h), o)
  /\ home'  = [home EXCEPT ![h] = o]
  /\ Lose(t, p, h)

\* The `&mut T` ends.
MutEnd(t) ==
  /\ call[t].op = "mut"
  /\ call' = [call EXCEPT ![t] = Idle]
  /\ UNCHANGED <<heap, handles>>

-----------------------------------------------------------------------------
(* Specification *)

Init ==
  /\ mem   = [o \in Objs |-> "free"]
  /\ type  = [o \in Objs |-> None]
  /\ count = [o \in Objs |-> 0]
  /\ kind  = [h \in Refs |-> "absent"]
  /\ param = [h \in Refs |-> None]
  /\ ptr   = [h \in Refs |-> 0]
  /\ home  = [h \in Refs |-> None]
  /\ call  = [t \in Threads |-> Idle]

Next ==
  \/ \E t \in Threads :
       \/ \E h \in Refs :
            \/ \E o \in Objs, T \in Types : New(t, h, o, T)
            \/ \E n \in Refs : Clone(t, h, n) \/ BorrowClone(t, h, n)
            \/ WithArc(t, h) \/ CallbackClone(t, h)
            \/ \E k \in Kinds : Convert(t, h, k)
            \/ Drop(t, h) \/ MakeMut(t, h)
       \/ \E o \in Objs : Replace(t, o)
       \/ CallbackEnd(t) \/ DropSlow(t) \/ MutEnd(t)
  \/ \E o \in Objs : StrategyDrops(o)

SafeSpec == Init /\ [][Next]_vars

\* The crate's own code, once entered, runs on.
Spec == SafeSpec /\ \A t \in Threads : WF_vars(DropSlow(t))

-----------------------------------------------------------------------------
(* Properties *)

Calls == [op : {"idle", "with_arc", "copy", "mut", "drop_slow"},
          ref : Refs \cup {None}, obj : Objs \cup {None}]

TypeOK ==
  /\ mem \in [Objs -> {"free", "live", "boxed"}]
  /\ type \in [Objs -> Types \cup {None}]
  /\ count \in [Objs -> Nat]
  /\ kind \in [Refs -> Kinds \cup {"absent"}]
  /\ param \in [Refs -> Types \cup {None}]
  /\ ptr \in [Refs -> Nat]
  /\ home \in [Refs -> Objs \cup {None}]
  /\ call \in [Threads -> Calls]

\* However often it has been converted and cloned, a handle leads back to the
\* allocation that counts it, as the type it was allocated for: from_raw takes
\* off what into_raw has added, and an ArcUnion knows its variant.
PointsHome ==
  \A h \in Refs : kind[h] # "absent" =>
    /\ InnerOf(h) = home[h]
    /\ mem[home[h]] = "live"
    /\ TypeOf(h) = type[home[h]]

\* "The refcount is not modified" (arc.rs:140, offset_arc.rs:113,
\* arc_borrow.rs:70): the counter is the number of handles of all kinds,
\* whatever was converted, borrowed or made up for a callback.
HandlesCounted ==
  \A o \in Objs : mem[o] = "live" => count[o] = Cardinality(Held(o))

\* OffsetArc::make_mut hands out a `&mut T` only when no other handle, of
\* whatever kind, reaches the T.
MutIsSole ==
  \A t \in Threads : call[t].op = "mut" => Held(home[call[t].ref]) = {call[t].ref}

\* The handles of all kinds share ownership as plain owners do, contents
\* aside: conversions are not visible at all.
Abs == INSTANCE Ownership WITH
         Owners <- Refs, owners <- [o \in Objs |-> Held(o)], phase <- mem,
         Vals <- {"contents"}, aborted <- FALSE,
         val <- [o \in Objs |-> IF mem[o] = "free" THEN None ELSE "contents"]
HandlesOwn == Abs!Spec
=============================================================================
