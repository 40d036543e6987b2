------------------------------ MODULE ArcOrder ------------------------------
(***************************************************************************)
(* The memory orderings of src/src/arc.rs: one allocation, whose counter   *)
(* is accessed with Relaxed, Release and Acquire operations, and whose     *)
(* contents are accessed without any synchronisation of their own.  Arc    *)
(* says what the counter counts; this module says what a thread may rely   *)
(* on when it has read it.                                                 *)
(*                                                                         *)
(* The memory model is release/acquire.  The writes of the counter form    *)
(* one sequence, its modification order.  A read-modify-write extends the  *)
(* last of them; a load may return any that the thread has not yet seen    *)
(* overwritten.  Each write carries the accesses that happen before every  *)
(* Acquire load of it: a Release write carries those its thread has seen,  *)
(* and a read-modify-write, whatever its ordering, passes on those of the  *)
(* write it replaces (it continues the release sequence).                  *)
(*                                                                         *)
(* "<<t, k>> \in S" reads: all accesses of kind k that thread t has made   *)
(* so far are in S.  A new access takes <<t, k>> out of every other set.   *)
(***************************************************************************)
EXTENDS Integers, FiniteSetsExt, Sequences

CONSTANTS
  Threads,    \* threads of the program
  Refs,       \* units of the count; bounds how many exist at a time
  None,       \* no thread, no reference
  MaxWrites   \* no new reference while so many writes can be loaded

\* A use is a read of the contents or any access to the counter.
Kinds    == {"use", "write"}
Accesses == Threads \X Kinds

Values == {"Arc", "UniqueArc"}
Forms  == {"absent", "owed"} \cup Values

ASSUME OrderAssumption ==
  /\ None \notin Threads \cup Refs
  /\ IsFiniteSet(Refs)
  /\ MaxWrites \in Nat

VARIABLES
  counts,  \* the values written to ArcInner::count, in modification order
  views,   \* for each write, the accesses an Acquire load of it has seen
  pos,     \* thread -> the oldest write it may still load
  seen,    \* thread -> the accesses that happen before what it does next
  form,    \* reference unit -> the value that stands for it
  owner,   \* reference unit -> the thread that holds it
  loan,    \* thread -> the Arc of another thread that it has borrowed
  iter,    \* thread -> ArcCloneIter::orig of the iterator it holds
  last     \* thread -> "no", or how far it is with the last drop:
           \*   "decremented", "drop_slow", "done"

vars == <<counts, views, pos, seen, form, owner, loan, iter, last>>
counter == <<counts, views>>
handles == <<form, owner, loan, iter>>

Writes == 1 .. Len(counts)
Newest == Len(counts)

\* Threads that can get at the counter.
Holders == {t \in Threads : \/ last[t] = "decremented" \/ loan[t] # None
                            \/ \E r \in Refs : owner[r] = t}

-----------------------------------------------------------------------------
\* Faulty variants of the definitions that follow, one plausible slip each.

FetchSub_Relaxed   == "Relaxed"
IsUnique_Relaxed   == "Relaxed"
LastLoad_Relaxed   == "Relaxed"
IsUnique_AtMostTwo(c) == c <= 2
Owed_Twice(n)      == 2 * n

\* The orderings the code asks for.
FetchAdd    == "Relaxed"   \* Clone::clone
FetchUpdate == "Relaxed"   \* ArcCloneIter::new and its drop
FetchSub    == "Release"   \* Drop::drop
LastLoad    == "Acquire"   \* Drop::drop, before drop_slow
CountLoad   == "Acquire"   \* Arc::count, is_unique

IsUnique(c) == c = 1
IsLast(old) == old = 1
Leftover(n) == n

-----------------------------------------------------------------------------
(* Memory *)

\* An access by t: seen by t itself, and not yet by anybody else.
SeenAfter(t, k) ==
  [u \in Threads |-> IF u = t THEN seen[u] \cup {<<t, k>>}
                              ELSE seen[u] \ {<<t, k>>}]
ViewsAfter(t, k) == [i \in Writes |-> views[i] \ {<<t, k>>}]

Access(t, k) ==
  /\ seen'  = SeenAfter(t, k)
  /\ views' = ViewsAfter(t, k)

\* The counter after a step, without the writes that nobody can load any more:
\* a thread that holds no reference gets one only from a thread that does, and
\* with it the sender's position.
Remember(c, v, p) ==
  LET first == Min({p[t] : t \in Holders} \cup {Len(c)}) IN
  /\ counts' = SubSeq(c, first, Len(c))
  /\ views'  = SubSeq(v, first, Len(v))
  /\ pos'    = [t \in Threads |-> Max({1, p[t] - first + 1})]

\* A read-modify-write that leaves n in the counter.
Modify(t, n, ordering) ==
  LET released == IF ordering = "Release" THEN SeenAfter(t, "use")[t] ELSE {}
      passedOn == views[Newest] \ {<<t, "use">>}
  IN
  /\ seen' = SeenAfter(t, "use")
  /\ Remember(Append(counts, n),
              Append(ViewsAfter(t, "use"), passedOn \cup released),
              [pos EXCEPT ![t] = Newest + 1])

\* A load that returns the i-th write.
Load(t, i, ordering) ==
  LET acquired == IF ordering = "Acquire" THEN views[i] ELSE {} IN
  /\ i \in pos[t] .. Newest
  /\ seen' = [SeenAfter(t, "use") EXCEPT ![t] = @ \cup acquired]
  /\ Remember(counts, ViewsAfter(t, "use"), [pos EXCEPT ![t] = i])

\* What t has seen, u has seen as well: the program hands something from t to
\* u by a channel, a lock or a join, which synchronises.
Synchronise(t, u) ==
  /\ seen' = [seen EXCEPT ![u] = @ \cup seen[t]]
  /\ Remember(counts, views, [pos EXCEPT ![u] = Max({@, pos[t]})])

-----------------------------------------------------------------------------
(* What the borrow checker allows *)

Idle(t)  == last[t] = "no"
Existing == {r \in Refs : form[r] # "absent"}
Owed(t)  == {r \in Refs : form[r] = "owed" /\ owner[r] = t}

CanShare(t, r) ==
  /\ Idle(t)
  /\ form[r] \in Values
  /\ owner[r] = t \/ loan[t] = r
CanOwn(t, r) ==
  /\ Idle(t)
  /\ form[r] \in Values /\ owner[r] = t
  /\ \A u \in Threads : loan[u] # r /\ iter[u] # r

\* New references come only while the counter has few writes.
MayAdd(N) == N # {} /\ N \subseteq Refs \ Existing /\ Newest < MaxWrites

\* Send: the value moves to another thread.
Send(t, u, r) ==
  /\ u # t
  /\ CanOwn(t, r)
  /\ owner' = [owner EXCEPT ![r] = u]
  /\ Synchronise(t, u)
  /\ UNCHANGED <<form, loan, iter, last>>

\* Sync: another thread gets a `&Arc`.
Lend(t, u, r) ==
  /\ u # t
  /\ Idle(t) /\ form[r] \in Values /\ owner[r] = t
  /\ Idle(u) /\ loan[u] = None
  /\ loan' = [loan EXCEPT ![u] = r]
  /\ Synchronise(t, u)
  /\ UNCHANGED <<form, owner, iter, last>>

\* The borrow ends, and the owner knows that it has.
GiveBack(u) ==
  /\ Idle(u) /\ loan[u] # None /\ iter[u] # loan[u]
  /\ loan' = [loan EXCEPT ![u] = None]
  /\ Synchronise(u, owner[loan[u]])
  /\ UNCHANGED <<form, owner, iter, last>>

-----------------------------------------------------------------------------
(* Operations *)

Clone(t, r, n) ==
  /\ CanShare(t, r) /\ form[r] = "Arc"
  /\ MayAdd({n})
  /\ Modify(t, counts[Newest] + 1, FetchAdd)
  /\ form'  = [form EXCEPT ![n] = "Arc"]
  /\ owner' = [owner EXCEPT ![n] = t]
  /\ UNCHANGED <<loan, iter, last>>

\* clone_many, up to the compare-exchange that succeeds.
CloneMany(t, r, N) ==
  /\ CanShare(t, r) /\ form[r] = "Arc"
  /\ iter[t] = None
  /\ MayAdd(N)
  /\ Modify(t, counts[Newest] + Cardinality(N), FetchUpdate)
  /\ form'  = [n \in Refs |-> IF n \in N THEN "owed" ELSE form[n]]
  /\ owner' = [n \in Refs |-> IF n \in N THEN t ELSE owner[n]]
  /\ iter'  = [iter EXCEPT ![t] = r]
  /\ UNCHANGED <<loan, last>>

IterNext(t, n) ==
  /\ Idle(t)
  /\ n \in Owed(t)
  /\ form' = [form EXCEPT ![n] = "Arc"]
  /\ UNCHANGED <<counter, pos, seen, owner, loan, iter, last>>

IterDrop(t) ==
  LET N == Owed(t) IN
  /\ Idle(t)
  /\ iter[t] # None
  /\ iter' = [iter EXCEPT ![t] = None]
  /\ IF N = {}
     THEN UNCHANGED <<counter, pos, seen, form, owner>>
     ELSE /\ Modify(t, counts[Newest] - Leftover(Cardinality(N)), FetchUpdate)
          /\ form'  = [n \in Refs |-> IF n \in N THEN "absent" ELSE form[n]]
          /\ owner' = [n \in Refs |-> IF n \in N THEN None ELSE owner[n]]
  /\ UNCHANGED <<loan, last>>

\* Deref
Read(t, r) ==
  /\ CanShare(t, r)
  /\ Access(t, "use")
  /\ UNCHANGED <<counts, pos, handles, last>>

\* Arc::count and is_unique on a `&Arc`: the answer is only looked at.
Count(t, r, i) ==
  /\ CanShare(t, r) /\ form[r] = "Arc"
  /\ Load(t, i, CountLoad)
  /\ UNCHANGED <<handles, last>>

\* get_mut, get_unique, make_mut, make_unique, try_unique: the load of the
\* counter that lets the caller have the contents to itself.  A make_mut that
\* is told of other owners is a Read (its T::clone) and a Drop.
TakeUnique(t, r, i) ==
  /\ CanOwn(t, r) /\ form[r] = "Arc"
  /\ Load(t, i, CountLoad)
  /\ IsUnique(counts[i])
  /\ form' = [form EXCEPT ![r] = "UniqueArc"]
  /\ UNCHANGED <<owner, loan, iter, last>>

\* A write through the `&mut T`, or UniqueArc::deref_mut.
Write(t, r) ==
  /\ CanOwn(t, r) /\ form[r] = "UniqueArc"
  /\ Access(t, "write")
  /\ UNCHANGED <<counts, pos, handles, last>>

\* The end of the `&mut T`, or shareable.
Shareable(t, r) ==
  /\ CanOwn(t, r) /\ form[r] = "UniqueArc"
  /\ form' = [form EXCEPT ![r] = "Arc"]
  /\ UNCHANGED <<counter, pos, seen, owner, loan, iter, last>>

\* fetch_sub; the thread that brings the counter to zero goes on.
Drop(t, r) ==
  /\ CanOwn(t, r)
  /\ Modify(t, counts[Newest] - 1, FetchSub)
  /\ form'  = [form EXCEPT ![r] = "absent"]
  /\ owner' = [owner EXCEPT ![r] = None]
  /\ last'  = [last EXCEPT ![t] = IF IsLast(counts[Newest])
                                THEN "decremented" ELSE "no"]
  /\ UNCHANGED <<loan, iter>>

\* The load whose result nobody looks at.
DropLoad(t, i) ==
  /\ last[t] = "decremented"
  /\ Load(t, i, LastLoad)
  /\ last' = [last EXCEPT ![t] = "drop_slow"]
  /\ UNCHANGED handles

\* The strategy gets the box, which is read, written and freed.
DropSlow(t) ==
  /\ last[t] = "drop_slow"
  /\ last' = [last EXCEPT ![t] = "done"]
  /\ UNCHANGED <<counter, pos, seen, handles>>

-----------------------------------------------------------------------------
(* Specification *)

\* Arc::new in thread t: the contents and the counter are written before
\* anybody else can know of them.
Init ==
  \E t \in Threads, r \in Refs :
    /\ counts = <<1>>
    /\ views  = <<Accesses \ {<<t, "write">>}>>
    /\ pos    = [u \in Threads |-> 1]
    /\ seen   = [u \in Threads |-> IF u = t THEN Accesses
                                   ELSE Accesses \ {<<t, "write">>}]
    /\ form   = [s \in Refs |-> IF s = r THEN "Arc" ELSE "absent"]
    /\ owner  = [s \in Refs |-> IF s = r THEN t ELSE None]
    /\ loan   = [u \in Threads |-> None]
    /\ iter   = [u \in Threads |-> None]
    /\ last   = [u \in Threads |-> "no"]

Next ==
  \E t \in Threads :
    \/ \E r \in Refs :
         \/ \E u \in Threads : Send(t, u, r) \/ Lend(t, u, r)
         \/ \E n \in Refs : Clone(t, r, n)
         \/ \E N \in SUBSET Refs : CloneMany(t, r, N)
         \/ \E i \in Writes : Count(t, r, i) \/ TakeUnique(t, r, i)
         \/ IterNext(t, r) \/ Read(t, r) \/ Write(t, r) \/ Shareable(t, r)
         \/ Drop(t, r)
    \/ GiveBack(t) \/ IterDrop(t)
    \/ \E i \in Writes : DropLoad(t, i)
    \/ DropSlow(t)

Spec == Init /\ [][Next]_vars

-----------------------------------------------------------------------------
(* Properties *)

TypeOK ==
  /\ counts \in Seq(Nat) /\ counts # <<>>
  /\ views \in Seq(SUBSET Accesses) /\ Len(views) = Len(counts)
  /\ pos \in [Threads -> Nat \ {0}]
  /\ seen \in [Threads -> SUBSET Accesses]
  /\ form \in [Refs -> Forms]
  /\ owner \in [Refs -> Threads \cup {None}]
  /\ loan \in [Threads -> Refs \cup {None}]
  /\ iter \in [Threads -> Refs \cup {None}]
  /\ last \in [Threads -> {"no", "decremented", "drop_slow", "done"}]

\* Threads that can get at the contents through some `&Arc` or `&UniqueArc`.
Readers == {t \in Threads : \E r \in Refs : CanShare(t, r)}
CanMutate(t, r) == CanOwn(t, r) /\ form[r] = "UniqueArc"
Stores  == Threads \X {"write"}

\* No data race on the contents: all writes happen before whatever a holder
\* reads next, and all accesses happen before whatever the holder of a &mut T
\* or UniqueArc writes next, or into_inner frees.  The second is what
\* is_unique needs its Acquire load for (arc.rs:748).
DataRaceFree ==
  /\ \A t \in Readers : Stores \subseteq seen[t]
  /\ \A r \in Refs, t \in Threads : CanMutate(t, r) => seen[t] = Accesses

\* "use of the data happens before decreasing the reference count, which
\* happens before this load, which happens before the deletion of the data"
\* (arc.rs:817): every access, those to the counter included, happens before
\* the box goes to its strategy.
DisposalOrdered ==
  \A t \in Threads : last[t] = "drop_slow" => seen[t] = Accesses

\* is_unique may load a write of the counter that is long overwritten, and
\* yet when it says 1 there is one reference now.
UniqueIsCurrent ==
  \A r \in Refs : form[r] = "UniqueArc" =>
    Existing = {r} /\ counts[Newest] = 1
=============================================================================
