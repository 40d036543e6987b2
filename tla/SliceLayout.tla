---------------------------- MODULE SliceLayout ----------------------------
(***************************************************************************)
(* The layouts of allocations made by hand (arc.rs, lib.rs): the memory of *)
(* an Arc<HeaderSlice<H, [T]>> or Arc<[T]> is sized by chaining            *)
(* Layout::extend, array and pad_to_align, and afterwards used, cast,      *)
(* turned into a raw pointer and freed as a type whose layout the compiler *)
(* has computed.  Both computations are here, and one block is followed    *)
(* from its allocation to its end.                                         *)
(*                                                                         *)
(* Offsets are from the beginning of the block, whose address is a         *)
(* multiple of its alignment.                                              *)
(***************************************************************************)
EXTENDS Integers, FiniteSetsExt

CONSTANTS
  Sized,     \* layouts that H and T may have
  Word,      \* the layout of the counter, an AtomicUsize
  MaxLen,    \* longest slice
  IsizeMax   \* isize::MAX

Layouts == [size : Nat, align : Nat]
Unit    == [size |-> 0, align |-> 1]   \* of ()

\* What Rust guarantees of every sized type.  Alignments are powers of two: of
\* two of them one divides the other, and each divides isize::MAX + 1.
ASSUME LayoutAssumption ==
  /\ Sized \subseteq Layouts /\ Unit \in Sized /\ Word \in Sized
  /\ \A l \in Sized : l.align # 0 /\ l.size % l.align = 0
                      /\ (IsizeMax + 1) % l.align = 0
  /\ \A k, l \in Sized : k.align <= l.align => l.align % k.align = 0
  /\ MaxLen \in Nat /\ IsizeMax \in Nat

VARIABLES
  header,   \* the layout of H
  elem,     \* the layout of T
  n,        \* the length of the slice
  block,    \* the layout the memory was allocated with
  slice,    \* where the elements were written
  view,     \* the type it is used as: "none", "HeaderSlice", "slice", or
            \*   "value" of a single T, which is laid out as a [T; 1]
  ptr,      \* the pointer: 0 in an Arc, and the data's offset if raw
  state     \* "start", "Arc", "raw", "freed", "panicked"

vars == <<header, elem, n, block, slice, view, ptr, state>>
input == <<header, elem, n>>

-----------------------------------------------------------------------------
(* core::alloc::Layout *)

RoundUp(k, align) == ((k + align - 1) \div align) * align
Wider(a, b) == IF a.align < b.align THEN b.align ELSE a.align

\* Layout::from_size_align accepts it; otherwise the callers unwrap an Err.
Fits(l) == l.size <= IsizeMax + 1 - l.align

ArrayOf(T, len) == [size |-> T.size * len, align |-> T.align]
Extend(a, b) == [size  |-> RoundUp(a.size, b.align) + b.size,
                 align |-> Wider(a, b)]
PadToAlign(l) == [l EXCEPT !.size = RoundUp(@, l.align)]

-----------------------------------------------------------------------------
(* repr(C), for a struct of a field a and then a field b *)

Least(S) == CHOOSE x \in S : \A y \in S : x <= y
FieldOffset(a, b) ==
  Least({o \in a.size .. a.size + b.align : o % b.align = 0})
ReprC(a, b) ==
  LET align == Max({a.align, b.align})
      end   == FieldOffset(a, b) + b.size
  IN  [size |-> Least({s \in end .. end + align : s % align = 0}), align |-> align]

\* The T of an ArcInner<T>, how far its slice is from its beginning, and what
\* Layout::for_value says of the ArcInner<T>.
Data(v)    == IF v = "HeaderSlice" THEN ReprC(header, ArrayOf(elem, n)) ELSE ArrayOf(elem, n)
SliceIn(v) == IF v = "HeaderSlice" THEN FieldOffset(header, ArrayOf(elem, n)) ELSE 0
DataOffset(v) == FieldOffset(Word, Data(v))
ForValue(v) == ReprC(Word, Data(v))
TooLarge(v) == ForValue(v).size > IsizeMax

-----------------------------------------------------------------------------
\* Faulty variants of the definitions that follow, one plausible slip each.

ArcInnerLayout_Unpadded(data) == Extend(Word, data)
Unwraps_InnerOnly(data)       == ~Fits(data)
RawOffset_AfterWord(T)        == Word.size

\* Layout::new::<ArcInner<()>>().extend(value_layout).unwrap().0.pad_to_align()
ArcInnerLayout(data) == PadToAlign(Extend(Word, data))

\* allocate_for_layout panics.
Unwraps(data) == ~Fits(Extend(Word, data))

\* offset_of!(ArcInner<T>, data)
RawOffset(T) == FieldOffset(Word, T)

-----------------------------------------------------------------------------
(* Operations *)

Allocate(data, v) ==
  IF Unwraps(data)
  THEN /\ state' = "panicked"
       /\ UNCHANGED <<input, block, slice, view, ptr>>
  ELSE /\ state' = "Arc"
       /\ block' = ArcInnerLayout(data)
       /\ slice' = DataOffset(v) + SliceIn(v)
       /\ view'  = v
       /\ ptr'   = 0
       /\ UNCHANGED input

\* allocate_for_header_and_slice
AllocateForHeaderAndSlice ==
  LET array == ArrayOf(elem, n)
      data  == Extend(header, array)
  IN
  /\ state = "start"
  /\ IF Fits(array) /\ Fits(data)
     THEN Allocate(PadToAlign(data), "HeaderSlice")
     ELSE /\ state' = "panicked"
          /\ UNCHANGED <<input, block, slice, view, ptr>>

\* From<Box<T>> for a sized T: there is a box, so its layout is one.
AllocateForBox ==
  /\ state = "start" /\ header = Unit /\ n = 1
  /\ Fits(ArrayOf(elem, n))
  /\ Allocate(ArrayOf(elem, n), "value")

\* Arc<HeaderSlice<(), [T]>> to Arc<[T]> and back: a cast of the pointer.
Cast(v) ==
  /\ state = "Arc" /\ header = Unit
  /\ view \notin {v, "value"}
  /\ view' = v
  /\ UNCHANGED <<input, block, slice, ptr, state>>

\* The address of the data, as the compiler knows it.
IntoRaw ==
  /\ state = "Arc"
  /\ ptr'   = ptr + DataOffset(view)
  /\ state' = "raw"
  /\ UNCHANGED <<input, block, slice, view>>

\* Both subtract the offset of a T; for a HeaderSlice of a slice there is none.
FromRawAs(v) ==
  /\ state = "raw" /\ view = v
  /\ ptr'   = ptr - RawOffset(elem)
  /\ state' = "Arc"
  /\ UNCHANGED <<input, block, slice, view>>

FromRaw      == FromRawAs("value")
FromRawSlice == FromRawAs("slice")

\* The strategy drops the Box<ArcInner<T>> of drop_slow.
Free ==
  /\ state = "Arc"
  /\ state' = "freed"
  /\ UNCHANGED <<input, block, slice, view, ptr>>

Init ==
  /\ header \in Sized /\ elem \in Sized /\ n \in 0 .. MaxLen
  /\ block = Unit /\ slice = 0 /\ view = "none" /\ ptr = 0
  /\ state = "start"

Next ==
  \/ AllocateForHeaderAndSlice \/ AllocateForBox
  \/ \E v \in {"HeaderSlice", "slice"} : Cast(v)
  \/ IntoRaw \/ FromRaw \/ FromRawSlice
  \/ Free

Spec == Init /\ [][Next]_vars

-----------------------------------------------------------------------------
(* Properties *)

Allocated == state \in {"Arc", "raw", "freed"}

\* `debug_assert_eq!(Layout::for_value(&*inner), layout)` (arc.rs:361), for
\* any two types and any length; and it stays true through the casts, so that
\* the Box is freed with the layout it was allocated with.
FreedAsAllocated == Allocated => block = ForValue(view)

\* Allocation panics if the type would be larger than isize::MAX, and only
\* then: no layout is refused that the compiler would accept, and none wraps.
PanicsIffTooLarge ==
  /\ state = "panicked" => TooLarge("HeaderSlice")
  /\ Allocated => ~TooLarge(view)

\* "`HeaderSlice<(), T>` and `T` has the same layout" (header.rs:197), and
\* "the offset of `T` in `ArcInner<T>` is the same as as offset of `[T]` in
\* `ArcInner<[T]>`" (arc.rs:206): however it was cast and converted, an Arc
\* points to the block and finds the elements where they were written, each
\* aligned and inside.
ElementsFound ==
  /\ state = "Arc" => ptr = 0
  /\ Allocated =>
       /\ DataOffset(view) + SliceIn(view) = slice
       /\ slice % elem.align = 0 /\ elem.align <= block.align
       /\ slice + n * elem.size <= block.size
       /\ Word.size <= slice
=============================================================================
