# backdrop_arc in TLA+

`backdrop_arc` is an atomically reference-counted pointer, `Arc<T, S>`, whose
last owner hands the contents to a *backdrop strategy* `S` (drop them here, on
another thread, later, never). This directory models the crate, checks the
models with TLC on small instances and proves the main results with TLAPS for
all instances.

Source paths below are relative to the repository (`src/arc.rs` and so on,
found under `src/src/` in the checkout this project sits beside).

## The system

| Component | State | Operations | What makes it correct |
|---|---|---|---|
| `Arc` (`arc.rs`) | `ArcInner::count`, `ArcInner::data`, one pointer per handle | `new`, `clone`, `get_mut`, `get_unique`, `make_mut`, `make_unique`, `try_unique`, `try_unwrap`, `unwrap_or_clone`, `Deref`, `Drop`, `with_strategy`, raw conversions | the count is the number of references; memory lives exactly as long as there are any; `&mut T` is exclusive; contents go to the strategy once |
| `ArcCloneIter` (`arc.rs`) | `orig`, `arcs_left` | `clone_many`, `next`, `Drop`, derived `Clone` | references reserved = handed out + given back; giving back never reaches zero |
| conversions from and to `triomphe` (`arc.rs`, `unique_arc.rs`) | none | `From` in both directions | the reference is kept; whichever kind is the last disposes of the memory |
| `UniqueArc` (`unique_arc.rs`) | an `Arc` | `new`, `new_uninit`, `shareable`, `into_inner`, `DerefMut`, `TryFrom` | it is the only reference for as long as it exists |
| memory orderings (`arc.rs`) | what each thread has seen | Relaxed increments, Release decrement, Acquire loads | every use of the contents happens before their disposal, or before the next `&mut T` |
| `OffsetArc`, `ArcBorrow`, `ArcUnion`, arc-swap's `RefCnt`, `into_raw`/`from_raw` | a pointer behind the counter, without a count of its own, or tagged in its low bit | conversions, `with_arc`, `clone_arc`, `make_mut`, `borrow` | every conversion keeps the reference it stands for, and only that one; the variant of a union is stable |
| `HeaderSlice` construction (`header.rs`, `unique_arc.rs`), `IteratorAsExactSizeIterator` | a partly initialized allocation | `from_header_and_{iter,slice,vec,str}`, `FromIterator`, `From` impls | every element is owned once whatever the iterator does; a failure leaks and never drops twice |
| layout computation (`arc.rs`, `lib.rs`) | none | `allocate_for_header_and_slice`, `offset_of!` | the hand-made layout is the layout of the type |
| backdrop strategies (crate `backdrop`, re-exported by `lib.rs`) | boxes they were given | `execute` | external; every box is destroyed once, in place or by a worker, and so are the Arcs in it |
| `ThinArc` (`thin_arc.rs`; its `mod` line in `lib.rs` is commented out) | one pointer; the length is in the contents | `from_header_and_{iter,slice}`, `with_arc`, `into_thin`, `from_thin`, `into_raw`, `from_raw`, `Clone`, `Drop` | the length in the contents is the length of the slice; conversions keep their reference |
| forwarding traits (`Debug`, `Hash`, `Ord`, `Borrow`, serde, yoke, unsize) | none | | not modelled |

All handles of one allocation meet in `ArcInner::count`. An `ArcCloneIter`
borrows the `Arc` it clones, `UniqueArc` *is* an `Arc` whose owner promises that
it is alone, and `OffsetArc`, `ArcUnion` and the arc-swap support convert to and
from `Arc` and let it do the counting. The last `Drop` boxes the allocation and
gives it to the strategy. When the strategy drops the box, the Arcs in the
contents are dropped, which starts over with other allocations and perhaps other
strategies: the crate calls itself through code it does not know.

What is hard here is in `PROJECT.json` under "hazards", at the lines where it
bites: interleavings of counter accesses (`clone_many` and the drop of its
iterator are load/compare-exchange loops), values that are stale when used
(`make_mut` acts on an `is_unique` that may no longer hold), the limit of the
counter, calls that stop half-way because `T::clone` or an iterator panics,
destruction that cascades through nested Arcs on several threads, contents that
change through a mere `&` because they have interior mutability, and the memory
orderings. `thin_arc.rs`, which no build compiles at this commit, is modelled, but
the list names no hazard of it.

## Modules

| Module | What it is |
|---|---|
| `Arc` | the counting protocol: `Arc`, `UniqueArc`, `ArcCloneIter`, one step per access to the counter |
| `MCArc` | symmetry for TLC |
| `Ownership` | the abstract specification: owners instead of a counter |
| `ArcOwnership` | `Arc` implements `Ownership` |
| `ArcIterClone` | `Arc` with the derived `Clone` of `ArcCloneIter` |
| `ArcOrder`, `MCArcOrder` | the memory orderings: one counter as a sequence of writes, what each thread has seen |
| `Handles`, `MCHandles` | `OffsetArc`, `ArcBorrow`, `ArcUnion`, raw pointers and `RefCnt`: addresses, tags, and one count for all kinds; implements `Ownership` |
| `OffsetMakeMut` | `Handles` with a panic in `OffsetArc::make_mut` |
| `Disposal` | Arcs in the contents of Arcs, with interior mutability or without; strategies that destroy in place or on a worker; changes of strategy |
| `ThinArc` | thin pointers, and the length they find in the contents |
| `SliceInit` | how slices and uninitialized contents come to be, with failing iterators |
| `SliceLayout`, `MCSliceLayout` | layouts computed by hand against the rules of `repr(C)` |
| `ArcProofs` | proofs about `Arc`: types and borrows, then the counter and what follows from it |
| `ArcOwnershipProofs` | every step of `Arc` is a step of `Ownership` or a stutter |
| `ArcOrderProofs` | the orderings suffice, for any number of threads, references and stale writes |
| `HandlesProofs` | addresses and tags; one count for all kinds; the steps of `Handles` as steps of `Ownership` |
| `DisposalProofs` | nested Arcs: nothing dangles, nothing is destroyed twice, cycles need interior mutability |
| `SliceInitProofs` | constructions of slices of any length |
| `SliceLayoutProofs` | rounding up, `repr(C)`, and the layouts computed by hand |
| `ThinArcProofs` | lengths and counts of thin pointers |

### Arc

*State.* `count` and `val` are the two fields of `ArcInner`; `mem` says whether
the allocation is free, live, or boxed and in the hands of a strategy. The code
has no set of references, only their number. The model has both: a member of
`Refs` is one unit of a count, `at` is its pointer and `form` is what stands for
it, an `Arc` or `UniqueArc` value, a value that was `mem::forget`-ed, a clone
that a thread has counted and not yet returned, or a clone that an
`ArcCloneIter` has reserved. `CountExact` says that number and set agree.
`orig` and `left` are the fields of `ArcCloneIter`. `call` holds, for each
thread, the call it is in and the counter value it has read; `aborted` is set by
`abort()` and stops everything.

*Actions.* An operation that accesses the counter once is one action (`DropSub`,
`GetMut`, `TryUnique`, ...). One that goes on after its access is split there:

| Code | Actions |
|---|---|
| `Clone::clone` | `CloneAdd`, then `CloneAbort` or `CloneReturn` |
| `clone_many`, `ArcCloneIter::new` | `ManyLoad`, `ManyRetry` as often as the exchange fails, then `ManyCommit` or `ManyAbort` |
| `ArcCloneIter::next` | `IterNext` |
| `ArcCloneIter::drop` | `IterDropEmpty`, or `IterDropLoad`, `LeftoverRetry`, `LeftoverCommit` |
| `Drop::drop`, `drop_slow`, the strategy | `DropSub`, `DropSlow`, `StrategyDrops` |
| `make_mut`, `make_unique` | `MakeMut`, then `Mutate`; or `MakeMut`, `Replace` (or `CopyPanics`, `CopyAborts`), `DropSlow` if the reference dropped turned out to be the last, `Mutate` |
| `get_mut`, `get_unique`, `must_be_unique` | `GetMut`, `Mutate` |
| `DerefMut for UniqueArc` | `DerefMut`, `Mutate` |
| `Deref` | `ReadBegin`, `ReadEnd` |
| `try_unique`, `TryFrom`, `shareable` | `TryUnique`, `Shareable` |
| `UniqueArc::into_inner`; `try_unwrap` | `IntoInner`; `TryUnique` and `IntoInner` |
| `unwrap_or_clone` | as `try_unwrap`, else `ReadBegin`, `ReadEnd`, `DropSub` |
| `mem::forget` (external) | `Forget`, `ForgetIter` |

*What safe code may do* is part of the model, because the code relies on it:
`CanShare` is `&r`, `CanOwn` is `&mut r` or a move of `r`. A live `ArcCloneIter`
borrows its `orig`. Within these rules any thread may use any value at any time,
which covers every way of sending values between threads. These definitions
stand for rules of the language and not for lines of the crate; "map" has them as
external. `val` is what can be changed with a `&mut T` only: what a `T` does to
itself behind a `&T` is no business of `Arc`'s, except for the Arcs in it, which
are the subject of `Disposal`.

*Properties.*

- `CountExact`: the counter is the number of references, at every moment.
- `NoDangling`: what a reference points to is live (`arc.rs:276`).
- `SoleDisposer`, `NoLeak`: an allocation that lost its last reference has
  exactly one thread on its way through `drop_slow`.
- `ExclusiveMut`, `ValueStable`: while a `&mut T` is out, nobody else can reach
  the `T`; what an owner sees changes by its own writes only.
- `UniqueIsSole`: what `into_inner` and `DerefMut` rely on without looking.
- `IterBacked`, `LeftoverKeepsOne`: an iterator owes what was counted for it, and
  giving back the rest never underflows or reaches zero (`arc.rs:563`).
- `NoWrap`: the counter passes `MAX_REFCOUNT + 1` only by as many as are about to
  abort, hence never wraps.

*Faulty variants.* `Arc` has a section of definitions such as
`IsLast_OffByOne` or `IterNext_Unchecked`: one plausible slip each. Nothing uses
them; substituted for the definition they are named after, each makes TLC report
the property it is listed with under "mutants" in `PROJECT.json`, which shows
that the property can fail.

### Ownership

What a user of the crate is promised, with no counter: an allocation has a set
of owners; they share, go, or split off with a copy; a sole owner may write or
take the contents out; when no owner is left the allocation is disposed of,
once, and (weak fairness of `Dispose`) certainly. `ArcOwnership!OwnershipHolds`
maps the owners to `At(o)` and the phase to `mem`, and says that every behaviour
of `Arc` is one of `Ownership`.

### ArcOrder

*State.* `Arc` is sequentially consistent; `ArcOrder` is not. `counts` is the
modification order of one `ArcInner::count`. A read-modify-write reads the
newest write; a load returns any write that the thread has not seen overwritten
(`pos`). `seen[t]` is the set of accesses that happen before what `t` does next,
and `views[i]` the set that an Acquire load of the `i`-th write brings along: a
Release write contributes what its thread has seen, and every read-modify-write
passes on the view of the write it replaces (release sequences). Accesses are
kept as sets `<<thread, kind>>`, kind `"use"` (reads of the contents and
accesses to the counter) or `"write"`: a new access is removed from every set
but its thread's own, so membership means "all such accesses so far".

*Actions.* One per operation. `FetchAdd`, `FetchUpdate`, `FetchSub`, `LastLoad`
and `CountLoad` are the orderings the code asks for, each a definition of its
own. `Send`, `Lend` and `GiveBack` are the program's: moving a value or a `&Arc`
to another thread synchronises, dropping a value and forgetting about it does
not. Loads that fail and retried exchanges are left to `Arc`; a relaxed load
brings nothing along. `Remember` forgets the writes that nobody can load any
more: a thread without a reference gets one only from a thread that has one, and
the hand-over brings it to the sender's position. So the behaviours are of any
length, and only the number of writes between the slowest holder and the newest
is bounded.

*Properties.* `DataRaceFree`: writes of the contents happen before every later
read and every access happens before the next `&mut T`. `DisposalOrdered`: the
claim of the comment at `arc.rs:812`. `UniqueIsCurrent`: a load that says 1
is never stale, because all other references were given up before in the
modification order, and the caller's own `&mut Arc` keeps new ones from coming.

### Handles

*State.* Addresses are numbers. An allocation is the address of its `ArcInner`,
`ptr` the address a handle holds: the `ArcInner` for an `Arc`, the data for an
`OffsetArc` or raw pointer, the data with the tag for an `ArcUnion`. `home` and
`type` are not in the code: they say which allocation counts the handle and what
it was allocated for. `InnerOf(h)` is the computation the code makes.

| Code | Actions |
|---|---|
| `into_raw_offset`, `from_raw_offset`, `into_raw`, `from_raw`, `RefCnt::into_ptr`, `from_ptr`, `ArcUnion::from_first`, `from_second` | `Convert` |
| `Clone` of `Arc`, `OffsetArc`, `ArcUnion` | `Clone` |
| `ArcBorrow::clone_arc`, `OffsetArc::clone_arc`, after `borrow_arc` or `ArcUnion::borrow` | `BorrowClone` |
| `with_arc`, `with_raw_offset_arc` | `WithArc`, `CallbackClone`, `CallbackEnd` |
| `Drop` of each kind, `drop_slow`, the strategy | `Drop`, `DropSlow`, `StrategyDrops` |
| `OffsetArc::make_mut` | `MakeMut`, then `MutEnd`; or `Replace`, `DropSlow` if the old reference was the last, `MutEnd` |

`PointsHome`: every handle leads back to its allocation and type.
`HandlesCounted`: one counter for all kinds, and transient Arcs leave it alone.
`MutIsSole`: a `&mut T` is given out by the only handle. `HandlesOwn`: the
refinement of `Ownership`, in which conversions cannot be seen.

### Disposal

`Arc` follows one allocation from `new` to its strategy. Here allocations hold
Arcs of one another, and destroying one is a series of drops.

*State.* `held` says how many Arcs of each allocation and strategy type the
program's variables hold, and how many the contents of each allocation;
`count` and `mem` are as in `Arc`. `Cells` are the allocations whose contents have
interior mutability (a `Mutex<Vec<Arc<..>>>`, say). `stack[x]` is where a thread or worker is in
nested drop glue, `trash` the boxes on their way to the workers, `copying[t]` the
Arc that a `make_mut` of `t` has borrowed while `T::clone` runs.

| Code | Actions |
|---|---|
| `new`; `Clone`, `ArcBorrow::clone_arc::<S>` | `New`; `Clone` |
| `get_mut`, or `Deref` if the contents are a cell, and a write to the contents | `PutIn`, `TakeOut` |
| `make_mut` of a shared Arc | `MakeMut`, then `Replace` or `CopyPanics` |
| `try_unwrap`, `into_inner` | `Unwrap` |
| `with_strategy`, the conversions from and to triomphe | `WithStrategy`, `FromTriomphe`, `IntoTriomphe` |
| `Drop` | `Drop` |
| `S::execute` and drop glue (external) | `Receive`, `DropContents`, `Deallocate` |

*Abstractions.* `Arc` shows that the steps of different calls do not interfere,
so each call is one step here, except where it waits for foreign code: `T::clone`
and drop glue. Changing a cell takes one step because what has interior mutability
and can be shared between threads locks itself. Contents have no `Drop` of their
own, and the copy that `make_mut` makes of a cell is a cell. `Deref` reaches one
level; deeper contents are reached after a clone. `new` makes empty contents and
`PutIn` fills them. What is left alone (`mem::forget`, strategies that leak) is in
`Arc`.

*Properties.* `ArcsPointToLive`: no Arc dangles, also not in contents that wait
for a worker or are half destroyed. `CyclesNeedCells`: the crate has no weak
pointers (`lib.rs:30`), so a cycle of Arcs is never freed, and safe code does tie
cycles: two allocations with a mutex in each suffice. But every cycle goes through
such a cell. Other contents change by `get_mut`, `make_mut` and `into_inner` only,
where no other Arc could lead back to them, also when they are part of a graph of
cells with cycles in it. Without interior mutability there are none at all.
`DisposedOnce`: whatever has lost its last Arc is with one runner, or in the
trash, and no two runners meet in one allocation. `EventuallyFreed`: what
cannot be reached from the program any more, and is neither in a cycle nor owned by
one, is freed, through any mixture of strategies and threads; this includes what
leads to a cycle without being part of it. A `make_mut` that copies a cell needs a
second one and is beyond the bounds of the run; the theorems cover any number.

### ThinArc

*State.* `size[o]` is what the allocation was made for, which the code does not
keep; `length[o]` is `header.length`, a public field (`header.rs:175`); `fat[o]`
counts the `Arc`s of `o` by the length in their pointers, `thin[o]` the `ThinArc`s,
`raw[o]` the pointers of `into_raw`. `transient[t]` is the Arc that a `with_arc`
of `t` lends to its callback, and `leaked[o]` what a failed assertion leaves in a
`ManuallyDrop`.

| Code | Actions |
|---|---|
| `Arc::from_header_and_iter` with any `HeaderWithLength` | `NewFat` |
| `ThinArc::from_header_and_iter`, `_slice` | `NewThin` |
| `into_thin`, `from_thin`, `into_raw`, `from_raw` | `IntoThin`, `FromThin`, `IntoRaw`, `FromRaw` |
| `with_arc`; a clone in the callback | `WithArc`, `WithArcEnd`; `CloneFat` |
| `Clone` of `Arc` and `ThinArc` | `CloneFat`; `WithArc` and `CloneThin` |
| a write to `header.length` through `get_mut` or a `UniqueArc` | `SetLength` |
| `Drop` of both, the strategy | `DropFat`, `DropThin`, `StrategyDrops` |

*Properties.* `LengthsAgree`: wherever a thin pointer is turned into a fat one,
the length found is the length of the slice, and the box that goes to the strategy
has the length it was allocated with. The field is public, and what protects it
is that `into_thin` compares, that only a sole `Arc` can be written to, and that
there is no `&mut` through a `ThinArc`. `ReferencesCounted`: all kinds of
references together, the leaked included, are what the counter says; it adds up
the Arcs of the right length, and `LengthsAgree` says that there are no others.
Both are about code as it is written, which nothing compiles (see Findings).

### SliceInit

One construction, from the call to the drop of what came out or the end of the
unwinding. `src`, `vec` and the slots of the new allocation hold the elements;
`drops` counts how often each was dropped. An `honest` iterator yields what it
reported, ends for good and does not panic. (That it is fused is more than
`ExactSizeIterator` promises; the code calls `next()` once more after the end,
`header.rs:65`.) A dishonest one may give any answer to every `next()` and
`size_hint()`. `Unwind` drops what the frames own, and the
half-written allocation is leaked, as the comment at `header.rs:46` says.

What comes out may be shared: `inits` counts the Arcs of `[T]` and `uninits`
those of `[MaybeUninit<T>]`, which exist side by side when a clone of an
uninitialized slice has gone through `assume_init`. `Write` needs the only one
(`must_be_unique`), and may write over what was written before.

A layout that overflows makes every allocation panic, that of an uninitialized
slice (`NewUninit`) too.

`OneOwner`: no element is ever to be dropped twice, at whatever step a panic
comes. Between the bitwise copy out of a `Vec` and `set_len(0)`, where two places
have the same elements, there is nothing that could panic, and no such step.
`InitializedWhenShared`: an `Arc` comes out complete and in order, or not at all,
and stays so while others take the same memory for uninitialized.
`NothingLost`: no leak but by panic, or by an Arc that was never told that its
memory is initialized. `HonestNeverBlamed`: the assertions
about reported lengths never fire for an honest iterator, one that is fused.

### SliceLayout

The chain of `Layout::array`, `extend` and `pad_to_align` in
`allocate_for_header_and_slice` and `allocate_for_layout`, next to a declarative
definition of the `repr(C)` rules (the least offsets and size that are aligned).
One block goes through allocation, casts between `HeaderSlice<(), [T]>` and
`[T]`, `into_raw`, `from_raw_slice` and disposal; or it is allocated for a
`Box<T>`, which the `From` impl takes of a sized `T` only (`header.rs:243`), is
turned raw by `into_raw` and back by `from_raw`, and never cast. `FreedAsAllocated`,
`PanicsIffTooLarge` and `ElementsFound` compare the two at every step. The panics
are those of the allocation; the assertion on zero-sized elements is in `SliceInit`.

## Runs

| Run | Instance | Shows |
|---|---|---|
| `arc_safety` | 2 threads, 4 references, 2 allocations, 2 values, 1 iterator, `MAX_REFCOUNT` 3, `usize::MAX` 7, `clone_many` up to 2 | all safety properties and `ValueStable`. Four references are enough for a second and third owner while a clone is in flight or reserved; two allocations and values are what `make_mut` needs |
| `arc_limit` | 2 threads, 6 references, 1 allocation, `MAX_REFCOUNT` 2, `usize::MAX` 5, `clone_many` up to 3 | the counter at its limit: 6 references are one more than a `usize` of the instance can count, and `NoWrap` says that they never all exist |
| `arc_ownership` | 2 threads, 3 references, 2 allocations, 1 value, 1 iterator | refinement of `Ownership`, with liveness; no symmetry |
| `arc_iter_clone` | 1 thread, 2 iterators | the violation described under Findings |
| `arc_order` | 3 threads, 2 references, a window of 3 writes of the counter | race freedom and order of disposal: one thread writes, a second has dropped its clone, a third disposes |
| `arc_order_many` | 2 threads, 3 references, a window of 4 writes | the same where `clone_many` reserves two, and `UniqueIsCurrent` with stale loads |
| `handles` | 2 threads, 3 handles, allocations at 32 and 64, data offsets 8 and 16 | the safety properties and the refinement of `Ownership` with liveness; no symmetry. Two types with different offsets make a wrong offset visible; three handles allow two kinds on one allocation besides a `make_mut` that goes to the other |
| `offset_make_mut` | 1 thread, 2 handles, 1 allocation | the second violation under Findings |
| `disposal` | 2 threads, 1 worker, 3 allocations, one of them a cell, 4 Arcs at a time | nested and cascading destruction, with liveness; no symmetry. Three allocations make chains, diamonds and cycles of one, two and three allocations; the cell ties cycles, the two others can copy each other on write, inside a cycle too, and must never tie one between them; four Arcs let a chain of three be shared while it falls; a worker and a thread destroy parts of one graph at once |
| `thin_arc` | 2 threads, 1 allocation, slices up to 2, 4 references | lengths 0, 1 and 2 that differ from each other and from the truth; one thread in `with_arc` while the other clones, converts or drops |
| `slice_init` | 3 elements, slices up to 3, empty ones included, up to 3 Arcs of one slice | the safety properties and `HonestNeverBlamed`; lengths reported may exceed the elements there are and fall short of them |
| `slice_layout` | sizes 0 to 8, alignments 1, 2, 4, a `usize` of 2 bytes, `isize::MAX` 31, lengths 0 to 5 | all pairs of header and element types; alignment below, at and above that of the counter; sizes at and beyond the limit |

Threads, references and allocations are interchangeable in `Arc`, threads and
references in `ArcOrder`: their runs without liveness use symmetry over them.
`CHECK_DEADLOCK` is off because the modelled part of a program ends: with
`abort()`, with the disposal of the one allocation of `ArcOrder`, with the end of
a construction, with a leak of the one allocation of `ThinArc`, with leaked cycles
that fill the bounds of `disposal`; and `Refs` bounds what is left to do when
everything was forgotten or kept as raw pointers.

The bounds: `Refs` caps how many references exist at a time (an operation that
needs a fresh one is not available when there is none), `MaxMany` caps the
argument of `clone_many`, `MAX_REFCOUNT` and `UsizeMax` stand for `isize::MAX`
and `usize::MAX`. `MaxWrites` stops the creation of references in `ArcOrder` while
so many writes can still be loaded by some thread, not their use, and not for
good. `MaxLen` bounds slices and reported lengths. `MaxArcs` and `MaxRefs` cap how
many Arcs exist at a time; a `make_mut` of `Disposal` may exceed it by the one it
is about to drop. `CounterAssumption` asks for more room between
`MAX_REFCOUNT` and `UsizeMax` than there are threads, which is the assumption the comment at `arc.rs:490` makes
("there aren't ~2 billion threads").

Fairness (`Arc` and `Handles`, for the refinements): only for `Steps(t)` and
`DropSlow(t)`, the crate's own code inside a call, because a
thread inside it is waiting for nobody. Nothing is assumed of the program: it may
keep a value for ever, never come back from `T::clone`, and a strategy may keep
its box. `ManyRetry` may go on for ever if other threads keep changing the
counter: the loops are lock-free and not wait-free, and no property claims more.

Fairness of `Disposal`: `Destroy(x)` for every thread and worker, because drop
glue waits for nobody and a thread in it does nothing else, and `Receive(w)`,
because a trash thread loops on its channel, which is a queue, until the program
ends. A program that never drops its Arcs is still allowed: `EventuallyFreed` is
about what it can no longer reach.

## Proofs

Every invariant and every action property that a passing run checks is also a
theorem, for every value of the constants that satisfies the named assumptions of
the module; so is the safety part of both refinements. The theorems are listed in
`PROJECT.json` under "theorems". Each proof module has an inductive invariant, one
lemma per action with a step per conjunct the action can disturb, and a lemma
`Invariant` or the like that the theorems follow from. The invariants were checked
by TLC before they were proved.

The assumptions are about names that must differ (`None` is no reference), about
finiteness (a program has finitely many threads and references at a time), about
bounds of the models being numbers, and about what Rust and the code guarantee:
`CounterAssumption` of `Arc` (above), even addresses and data offsets in
`Handles` (the counter is aligned to more than one byte, which the tag of
`ArcUnion` relies on), and in `SliceLayout` that alignments are powers of two, of
which it uses that of two alignments one divides the other and that each divides
`isize::MAX + 1`, and that the size of a type is a multiple of its alignment.

### Arc

The inductive invariant of `ArcProofs` has two layers. `Sound` is about types and
borrows only: `TypeOK`; `Placed`, what exists points somewhere and an iterator's
`orig` is an `Arc`; `Operands`, each call has the operands it needs; `Exclusive`,
a call that holds `&mut r` is alone with `r`. It is inductive by itself. `TypeOK`
alone is not: that `count[at[r]]` is a number needs `at[r]` to be an allocation,
which needs the operand to exist.

`Counted` is the conjunction of the properties and two auxiliary facts, inductive
relative to `Sound`:

- `CountExact` needs `NoWrap` (an increment must not wrap), which needs, in
  `CloneAddExact`, that a thread about to increment is not one of those about to
  abort, and that there is room for one increment per thread;
- `NoDangling` and `SoleDisposer` need `CountExact`: that `fetch_sub` returned 1
  means the reference dropped was the only one;
- `SoleMut` (a call with a `&mut T` works on the only reference) and
  `UniqueIsSole` need `CountExact` for the same reason when they start, and
  `Exclusive` to stay: a new reference needs an old one to be cloned from, and
  the only one is taken;
- `LeftoverKeepsOne` needs `IterBacked` and `CountExact`: the units owed and the
  one of `orig` are distinct units of the same count (lemma `OrigCounts`).

`ExclusiveMut` follows from `SoleMut` and `Exclusive`; `ValueStable` is an action
property proved from the invariant.

### The refinements of Ownership

`ArcOwnershipProofs` and the end of `HandlesProofs` are step simulations:
`ArcImplementsOwnership` and `HandlesImplementOwnership` say
`SafeSpec => Abs!SafeSpec`, the specifications without fairness. Initial states map
to initial states. Steps that move no owner are shown to stutter (loads, failed
exchanges, conversions, entering a callback); the others are matched one by one.
What `Ownership` asks of a step is not in the guards of the code, which sees a
counter and not a set: that an owner who writes or takes the contents is the only
one comes from `CountExact`, that a disposal finds no owner from `SoleDisposer`,
that a new owner owned nothing from the types. `Ownership` says "sole owner" with
sets, not cardinalities, for the same reason.

### ArcOrder

The invariant is about what the holders of references know: the threads that own
one or have it on loan.

- `StoresSeen`: every write of the contents happens before what any holder does
  next. Readers need no more.
- `Covered`: every access ever made has been seen by some holder, or it is in the
  view of the newest write of the counter, where the Release decrement of its last
  holder put it and where the release sequence keeps it.
- `OnesKnown`: where the counter once was 1, every reference that came later has a
  holder who has seen a later write, because it descends from the one reference
  there was. So the caller of `is_unique`, whose `&mut Arc` excludes other
  borrows, cannot load an old 1: `UniqueIsCurrent`.
- `CountOK`: the newest write is the number of references. A current 1 leaves one
  holder, and what `Covered` gives to "some holder or the view" the caller has
  after its Acquire load. This is what `&mut T` needs, and what starts
  `UniqueSeen`, the same for a `UniqueArc` as long as it exists.
- `LastOK`: the thread whose decrement led to zero can load only its own write
  afterwards, which brings along what `Covered` says of it.

### Handles

Arithmetic first: an even address plus an even offset is even, so the tag is the
lowest bit and comes off again (`AddressFacts`), and `InnerOf` undoes `AddressAs`
for each kind of handle (`RoundTrip`). The invariant then says of a handle that
its address is what `AddressAs` makes of its home (`Addressed`), and of
calls what they rely on (`Operands`, `Disposers`, `SoleMut`).

### Disposal

The counter of an allocation is a sum over all holders, and sums need induction
over sets. `DisposalProofs` makes the Arcs of an allocation into a finite set of
units, told apart by where they are (`Units`); `Counted` says that the counter is
its cardinality, and each step adds, removes or moves a unit. From it,
`ArcsPointToLive` and `DisposedOnce` follow as in `Arc`, for cells as for other
contents. `OnlyCellsTieCycles` uses that a write into contents that are no cell
needs the only Arc of them, which is in a variable of the program: no contents own
them, so they are the member of a set that none of its members owns. A write into a
cell changes nothing that a set without cells owns.

### SliceInit

The invariant says where an element is: no place holds it twice (`Once`), no two
places share it (`Apart`) except between the bitwise copy out of a `Vec` and
`set_len(0)`, what is left fits (`Room`), each program counter has the state it
needs (`Stages`), and what an honest iterator has still to yield (`Promise`).
`HonestNeverBlamed` is an action property proved from `Promise`.

### SliceLayout

Rounding up finds the least multiple (`RoundUpIsLeast`), so `extend` and
`pad_to_align` compute what the declarative rules of `repr(C)` say
(`ExtendIsReprC`). Different multiples of one number are at least that number
apart (`MultiplesApart`), so a size rounds up past `isize::MAX` exactly if the
unrounded size is past the limit of `Layout::from_size_align` (`ExtendFits`), and
that none of the intermediate layouts is refused unless the whole is too large is
`PartsFit`. A struct whose first field is `()` is like its other field
(`UnitFirst`), which is what makes the casts sound. That an element in a
`HeaderSlice` is aligned needs that the alignment of the block is a multiple of
the element's, not only at least as large.

### ThinArc

`LengthsAgree` and `ReferencesCounted` need each other. A write to `header.length`
is harmless because it needs a count of 1 and a fat Arc, and the count being exact
there is no `ThinArc` then; that the count stays exact needs that a
`ThinArc` becomes an Arc of the right length. `Loan` adds that an allocation lent
by `with_arc` keeps a `ThinArc`.

### Only model-checked

The liveness parts of `OwnershipHolds` and `HandlesOwn`, and `EventuallyFreed`:
liveness under fairness is out of TLAPS's reach. The two runs that expect a
violation are counterexamples and have nothing to prove. The proofs are about the
same definitions as the runs; the caps on references and writes (`MaxRefs`,
`MaxArcs`, `MaxWrites`, `MaxMany`, `MaxLen`) are in both, but in the proofs they
may be any number.

## Findings

`ArcCloneIter` derives `Clone` (`arc.rs:520`). The copy has the same `arcs_left`
and nothing is added to the counter, so two iterators owe references that were
counted once. `arc_iter_clone` shows the drop of the second iterator starting
from a count that does not exceed what it is about to subtract, against the
comment at `arc.rs:563`. All other runs and all proofs are about `Arc` without
this operation.

`OffsetArc::make_mut` works on a bitwise copy of `self` (`offset_arc.rs:138`).
When `T::clone` panics in the `Arc::make_mut` it calls, unwinding drops the copy,
and the `OffsetArc` is left with a reference that is no longer counted.
`offset_make_mut` shows a handle that points to an allocation whose count does
not include it, against the comment that this is functionally the same as
`Arc::make_mut` (`offset_arc.rs:130`), which keeps its reference in that case
(`CopyPanics` of `Arc`). The other run of `Handles` is about a `T::clone` that returns.

Two smaller divergences have no run, because no behaviour shows them. The doc of
`HeaderWithLength` (`header.rs:166`) offers it for use with `ThinArc`, which is not
compiled. And `thin_arc.rs` does not fit the crate as it stands: the alias
`HeaderSliceWithLength` it uses is commented out (`header.rs:294`) and its `Arc`
has no strategy parameter. `ThinArc` models the operations as they are written,
with the strategy that the `Arc` in them would have.

## Plan

Done, in this order: `Arc` with its refinement and proofs, `ArcOrder`, `Handles`,
`SliceInit`, `SliceLayout`, `Disposal`, `ThinArc`; then the proofs about each of
them and the step simulations of `Ownership`. To come:

1. Drops of elements that panic, in a strategy or during unwinding.
2. More theorems about the two-state behaviour of `Handles` and `Disposal`, such as
   what a step may never do to an allocation that another thread has borrowed.
3. Shorter proofs where lemmas of one module could serve another.

## Not modelled

The trait implementations that forward to `T` (`Debug`, `Hash`, `Ord`, `Borrow`,
serde, yoke) change no state of the crate. `unsize` replaces a pointer by one that
differs in its metadata, which only the compiler knows. The strategies live
in the `backdrop` crate: `Disposal` has the two ways of destroying a box that
differ for this crate, here and elsewhere; a strategy that leaks its box is an
allocation that stays "boxed" in `Arc`, and the async ones differ from a worker in
their scheduler only. Elements whose drop panics, writes through `as_mut_ptr`
(`unsafe` code of the program) and the CI files are left out. Memory exhaustion is
modelled only where it happens in the middle of an operation (`CopyAborts`).
