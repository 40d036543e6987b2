----------------------------- MODULE SliceInit -----------------------------
(***************************************************************************)
(* The making of an Arc<HeaderSlice<H, [T]>> (header.rs), of a             *)
(* UniqueArc<[T]> by FromIterator (unique_arc.rs, through                  *)
(* iterator_as_exact_size_iterator.rs), of an Arc<T> from a Box, and of    *)
(* uninitialized contents.  The elements are moved one by one, or all at   *)
(* once and bitwise, into memory that nobody owns yet, while the source is *)
(* the program's code: an iterator may panic, may say less or more than it *)
(* yields, and may go on after its end.                                    *)
(*                                                                         *)
(* One construction, by one thread, from its call to the end of the        *)
(* unwinding that stopped it, or to the drop of the last Arc of what it    *)
(* made; some of these may have been told by assume_init that the memory   *)
(* is initialized while others have not.                                   *)
(***************************************************************************)
EXTENDS Integers, Sequences, FiniteSets, SequencesExt

CONSTANTS
  Elems,    \* elements the program may put in
  None,     \* no element: uninitialized memory
  MaxLen,   \* longest slice, and the largest length an iterator may report
  MaxArcs   \* bound on the Arcs that share the slice at a time

ASSUME SliceAssumption ==
  None \notin Elems /\ IsFiniteSet(Elems) /\ MaxLen \in Nat /\ MaxArcs \in Nat \ {0}

VARIABLES
  pc,       \* the next step of the construction
  how,      \* what it is made from
  honest,   \* the iterator yields what it reported, ends for good, never panics
  zst,      \* T has no size
  taken,    \* the elements there were at the start
  src,      \* elements the iterator, or the program, still owns
  vec,      \* elements the Vec or Box owns
  len,      \* num_items, or the length of the slice
  slots,    \* the elements of the slice, as far as written
  given,    \* what was put in, in order
  header,   \* "arg", "inner", "dropped"
  inits,    \* how many Arc<[T]> there are, a UniqueArc among them
  uninits,  \* how many Arc<[MaybeUninit<T>]>, a UniqueArc among them
  drops     \* element -> how often it was dropped

vars == <<pc, how, honest, zst, taken, src, vec, len, slots, given, header,
          inits, uninits, drops>>
fixed == <<how, honest, zst, taken>>
arcs  == <<inits, uninits>>

Index    == 1 .. MaxLen
Written  == {k \in Index : slots[k] # None}
Sources  == {"from_iter", "header_and_iter", "vec", "box", "slice", "uninit"}

-----------------------------------------------------------------------------
\* Faulty variants of the definitions that follow, one plausible slip each.

MoreToWrite_OneMore(i) == i <= len
MoreToWrite_OneLess(i) == i + 1 < len
AfterSetLen_Same(s)    == s
LenOf_OneMore(n)       == n + 1
LenOf_OneLess(n)       == IF n = 0 THEN 0 ELSE n - 1
MustBeUnique_Never(c)  == c \in Nat

\* The loop `for _ in 0..num_items`, with i elements written.
MoreToWrite(i) == i < len
\* What the Vec owns after set_len(0), the Box after its cast to ManuallyDrop.
AfterSetLen(s) == <<>>
\* `items.next().is_none()`
Ended(e) == e = None
\* The length the allocation is made for, of n elements.
LenOf(n) == n
\* must_be_unique
MustBeUnique(c) == c = 1

-----------------------------------------------------------------------------
(* Drops *)

Dropping(S) == [e \in Elems |-> IF e \in S THEN drops[e] + 1 ELSE drops[e]]

\* A panic drops what the frames own: the iterator with what is left in it,
\* the Vec, and the header if it is still an argument.  The new allocation is
\* a raw pointer, which is leaked.
Unwind ==
  /\ pc'     = "unwound"
  /\ drops'  = Dropping(src \cup ToSet(vec))
  /\ src'    = {}
  /\ vec'    = <<>>
  /\ header' = IF header = "arg" THEN "dropped" ELSE header
  /\ UNCHANGED <<fixed, arcs, len, slots, given>>

\* What `items.next()` may return; or it panics.
Yields(e) == \/ e \in src
             \/ e = None /\ (honest => src = {})
Panics == ~honest

-----------------------------------------------------------------------------
(* from_iter and IteratorAsExactSizeIterator *)

Goto(label) ==
  /\ pc' = label
  /\ UNCHANGED <<fixed, arcs, src, vec, len, slots, given, header, drops>>

\* size_hint: the iterator goes the exact way or the other.
Hint ==
  /\ pc = "hint"
  /\ Goto("exact") \/ Goto("collect")

\* IteratorAsExactSizeIterator::new asks again, and the debug build panics
\* when the bounds differ this time.
Exact ==
  /\ pc = "exact"
  /\ Goto("len") \/ (~honest /\ Unwind)

\* iter.collect::<Vec<_>>()
Collect ==
  /\ pc = "collect"
  /\ \/ \E e \in src :
          /\ vec' = Append(vec, e)
          /\ src' = src \ {e}
          /\ UNCHANGED <<pc, fixed, arcs, len, slots, given, header, drops>>
     \/ /\ Yields(None)
        /\ pc'    = "vec"
        /\ drops' = Dropping(src)
        /\ src'   = {}
        /\ UNCHANGED <<fixed, arcs, vec, len, slots, given, header>>
     \/ Panics /\ Unwind

-----------------------------------------------------------------------------
(* from_header_and_iter *)

\* The assertion on the size of T, then items.len(), which for a from_iter
\* asks size_hint a third time.
Length ==
  /\ pc = "len"
  /\ \/ zst /\ Unwind
     \/ /\ ~zst
        /\ \E n \in 0 .. MaxLen :
             /\ honest => n = Cardinality(src)
             /\ len' = LenOf(n)
        /\ pc' = "alloc"
        /\ UNCHANGED <<fixed, arcs, src, vec, slots, given, header, drops>>
     \/ ~zst /\ Panics /\ Unwind

\* allocate_for_header_and_slice panics when the layout overflows.
Alloc ==
  /\ pc = "alloc"
  /\ \/ Unwind
     \/ /\ pc'     = "write"
        /\ header' = "inner"
        /\ UNCHANGED <<fixed, arcs, src, vec, len, slots, given, drops>>

\* One round of the loop: the element is written, or next() disappoints.
WriteNext ==
  LET i == Cardinality(Written) IN
  /\ pc = "write" /\ MoreToWrite(i)
  /\ \/ \E e \in src :
          /\ i < MaxLen
          /\ slots' = [slots EXCEPT ![i + 1] = e]
          /\ given' = Append(given, e)
          /\ src'   = src \ {e}
          /\ UNCHANGED <<pc, fixed, arcs, vec, len, header, drops>>
     \/ Yields(None) /\ Unwind   \* "over-reported length"
     \/ Panics /\ Unwind

\* The two assertions that nothing is left; the first is skipped if len = 0.
NothingLeft(label, next) ==
  /\ pc = label
  /\ \/ \E e \in src \cup {None} :
          /\ Yields(e)
          /\ IF Ended(e)
             THEN /\ pc'  = next
                  /\ src' = src \ {e}
                  /\ drops' = Dropping({e} \ {None})
                  /\ UNCHANGED <<fixed, arcs, vec, len, slots, given, header>>
             ELSE Unwind         \* "under-reported length"
     \/ Panics /\ Unwind

LoopEnd ==
  /\ pc = "write" /\ ~MoreToWrite(Cardinality(Written))
  /\ Goto(IF len = 0 THEN "second_check" ELSE "first_check")
FirstCheck  == NothingLeft("first_check", "second_check")
SecondCheck == NothingLeft("second_check", "return_iter")

\* The Arc is made, and items goes out of scope.
ReturnIter ==
  /\ pc = "return_iter"
  /\ pc'    = "shared"
  /\ inits' = 1
  /\ drops' = Dropping(src)
  /\ src'   = {}
  /\ UNCHANGED <<fixed, uninits, vec, len, slots, given, header>>

-----------------------------------------------------------------------------
(* from_header_and_vec, From<Box<T>>, from_header_and_slice and _str *)

AllocVec ==
  /\ pc = "vec"
  /\ \/ Unwind
     \/ /\ pc'     = "copy"
        /\ len'    = LenOf(Len(vec))
        /\ header' = "inner"
        /\ UNCHANGED <<fixed, arcs, src, vec, slots, given, drops>>

\* copy_nonoverlapping: for a moment the elements are in both places.
CopyVec ==
  /\ pc = "copy"
  /\ slots' = [k \in Index |-> IF k <= Len(vec) THEN vec[k] ELSE slots[k]]
  /\ given' = vec
  /\ pc'    = "set_len"
  /\ UNCHANGED <<fixed, arcs, src, vec, len, header, drops>>

SetLen ==
  /\ pc = "set_len"
  /\ vec' = AfterSetLen(vec)
  /\ pc'  = "return_vec"
  /\ UNCHANGED <<fixed, arcs, src, len, slots, given, header, drops>>

\* The Vec or Box is deallocated, with whatever it still owns.
ReturnVec ==
  /\ pc = "return_vec"
  /\ pc'    = "shared"
  /\ inits' = 1
  /\ drops' = Dropping(ToSet(vec))
  /\ vec'   = <<>>
  /\ UNCHANGED <<fixed, uninits, src, len, slots, given, header>>

\* T: Copy: the slice keeps its elements, and nobody drops any.
CopySlice(s) ==
  /\ pc = "slice"
  /\ \/ /\ ~zst
        /\ len'    = LenOf(Len(s))
        /\ slots'  = [k \in Index |-> IF k <= Len(s) THEN s[k] ELSE None]
        /\ given'  = s
        /\ header' = "inner"
        /\ pc'     = "shared"
        /\ inits'  = 1
        /\ UNCHANGED <<fixed, uninits, src, vec, drops>>
     \/ Unwind   \* no size, or the layout overflows

-----------------------------------------------------------------------------
(* Uninitialized contents *)

\* new_uninit and new_uninit_slice, of UniqueArc and, through shareable, of Arc.
NewUninit ==
  /\ pc = "new_uninit"
  /\ \/ /\ len' \in 0 .. MaxLen
        /\ pc'      = "shared"
        /\ uninits' = 1
        /\ header'  = "inner"
        /\ UNCHANGED <<fixed, src, vec, slots, given, inits, drops>>
     \/ Unwind   \* the layout overflows

\* Arc::write and as_mut_slice panic, and change nothing, when there is
\* another Arc, whatever it takes the memory for; UniqueArc::write need not
\* ask.  What was written there before is forgotten.
Write(k, e) ==
  /\ pc = "shared" /\ uninits > 0
  /\ MustBeUnique(uninits + inits)
  /\ k <= len
  /\ slots' = [slots EXCEPT ![k] = e]
  /\ src'   = src \ {e}
  /\ UNCHANGED <<pc, fixed, arcs, vec, len, given, header, drops>>

\* assume_init: the caller has to have written everything.  The Arc need not
\* be the only one.
AssumeInit ==
  /\ pc = "shared" /\ uninits > 0
  /\ Written = 1 .. len
  /\ given'   = [k \in 1 .. len |-> slots[k]]
  /\ inits'   = inits + 1
  /\ uninits' = uninits - 1
  /\ UNCHANGED <<pc, fixed, src, vec, len, slots, header, drops>>

-----------------------------------------------------------------------------
(* The life of the Arc, and the specification *)

Clone ==
  /\ pc = "shared" /\ inits + uninits < MaxArcs
  /\ \/ inits > 0 /\ inits' = inits + 1 /\ UNCHANGED uninits
     \/ uninits > 0 /\ uninits' = uninits + 1 /\ UNCHANGED inits
  /\ UNCHANGED <<pc, fixed, src, vec, len, slots, given, header, drops>>

\* The strategy of the last Arc drops the header and len elements.
DropArc ==
  /\ pc = "shared" /\ inits > 0
  /\ inits' = inits - 1
  /\ IF inits + uninits > 1
     THEN UNCHANGED <<pc, header, drops>>
     ELSE /\ pc'     = "dropped"
          /\ header' = "dropped"
          /\ drops'  = IF how = "slice" THEN drops
                       ELSE Dropping({slots[k] : k \in 1 .. len} \ {None})
  /\ UNCHANGED <<fixed, uninits, src, vec, len, slots, given>>

\* The same, but a MaybeUninit drops nothing.
DropUninit ==
  /\ pc = "shared" /\ uninits > 0
  /\ uninits' = uninits - 1
  /\ pc' = IF inits + uninits > 1 THEN pc ELSE "leaked"
  /\ UNCHANGED <<fixed, inits, src, vec, len, slots, given, header, drops>>

Entry == [from_iter |-> "hint", header_and_iter |-> "len", vec |-> "vec",
          box |-> "vec", slice |-> "slice", uninit |-> "new_uninit"]
Listings(S) == {s \in [1 .. Cardinality(S) -> S] : ToSet(s) = S}

Init ==
  /\ how \in Sources /\ pc = Entry[how]
  /\ honest \in BOOLEAN /\ zst \in BOOLEAN
  /\ taken \in {S \in SUBSET Elems : Cardinality(S) <= MaxLen}
  /\ how = "box" => Cardinality(taken) = 1
  /\ IF how \in {"vec", "box"} THEN src = {} /\ vec \in Listings(taken)
                               ELSE src = taken /\ vec = <<>>
  /\ len = 0
  /\ slots = [k \in Index |-> None]
  /\ given = <<>>
  /\ header = "arg"
  /\ inits = 0 /\ uninits = 0
  /\ drops = [e \in Elems |-> 0]

Next ==
  \/ Hint \/ Exact \/ Collect
  \/ Length \/ Alloc \/ WriteNext \/ LoopEnd
  \/ FirstCheck \/ SecondCheck \/ ReturnIter
  \/ AllocVec \/ CopyVec \/ SetLen \/ ReturnVec
  \/ \E s \in Listings(src) : CopySlice(s)
  \/ NewUninit \/ AssumeInit
  \/ \E k \in Index, e \in src : Write(k, e)
  \/ Clone \/ DropArc \/ DropUninit

Spec == Init /\ [][Next]_vars

-----------------------------------------------------------------------------
(* Properties *)

TypeOK ==
  /\ how \in Sources
  /\ pc \in {"hint", "exact", "collect", "len", "alloc", "write", "first_check",
            "second_check", "return_iter", "vec", "copy", "set_len", "return_vec",
            "slice", "new_uninit", "shared", "dropped", "unwound", "leaked"}
  /\ honest \in BOOLEAN /\ zst \in BOOLEAN
  /\ src \subseteq Elems /\ taken \subseteq Elems
  /\ vec \in Seq(Elems) /\ given \in Seq(Elems)
  /\ len \in 0 .. MaxLen
  /\ slots \in [Index -> Elems \cup {None}]
  /\ header \in {"arg", "inner", "dropped"}
  /\ inits \in 0 .. MaxArcs /\ uninits \in 0 .. MaxArcs
  /\ drops \in [Elems -> Nat]

\* How many places are going to drop e as things stand.  The new allocation
\* is not one of them before there is an Arc to it.
Owners(e) ==
  Cardinality({k \in 1 .. Len(vec) : vec[k] = e})
  + (IF e \in src THEN 1 ELSE 0)
  + (IF inits > 0 /\ how # "slice"
     THEN Cardinality({k \in 1 .. len : slots[k] = e}) ELSE 0)

\* Nothing is ever dropped twice, at whatever point the iterator panics:
\* "Note that any panics here (i.e. from the iterator) are safe, since we'll
\* just leak the uninitialized memory" (header.rs:46), and the bitwise moves
\* out of a Vec or Box leave one owner.
OneOwner ==
  \A e \in Elems :
    how # "slice" \/ pc \notin {"shared", "dropped"} => Owners(e) + drops[e] <= 1

\* An Arc that somebody gets has all its elements, those it was given and in
\* that order: "the inner structure is fully initialized" (header.rs:71),
\* whatever length was reported.  It keeps them as long as there is such an
\* Arc, also when others still take the same memory for uninitialized.
InitializedWhenShared ==
  inits > 0 =>
    /\ len = Len(given)
    /\ \A k \in 1 .. len : slots[k] = given[k]
    /\ header = "inner"

\* In the end every element has been dropped, unless a panic left it in the
\* leaked allocation, or it was written to a MaybeUninit and then written over
\* or left to an Arc that was never told.
NothingLost ==
  /\ pc = "dropped" /\ how \notin {"slice", "uninit"} =>
       \A e \in taken : drops[e] = 1
  /\ pc = "dropped" /\ how = "uninit" =>
       \A k \in 1 .. len : drops[slots[k]] = 1
  /\ pc = "unwound" =>
       \A e \in taken : drops[e] = 1 \/ \E k \in Written : slots[k] = e

\* An iterator that keeps its promises is never blamed: neither assertion
\* fires and every next() that is needed succeeds.  The promises include that
\* it goes on returning None, as a FusedIterator does and an ExactSizeIterator
\* need not: it is asked again after its end (header.rs:65).  What is left is
\* a T without size and a slice too large for a Layout.
HonestNeverBlamed ==
  [][pc' = "unwound" /\ honest =>
       pc \in {"alloc", "vec", "slice", "new_uninit"} \/ zst]_vars
=============================================================================
