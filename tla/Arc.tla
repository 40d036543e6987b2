-------------------------------- MODULE Arc --------------------------------
(***************************************************************************)
(* The reference-counting protocol of src/src/arc.rs and unique_arc.rs:    *)
(* threads that create, clone, bulk-clone, mutate, unwrap and drop `Arc`   *)
(* values, with every access to the shared counter a step of its own.      *)
(*                                                                         *)
(* A member of Refs is one unit of a reference count: an `Arc` or          *)
(* `UniqueArc` value held in some variable of the program, a clone that    *)
(* `clone` has counted and not yet returned, or a clone that an            *)
(* `ArcCloneIter` has counted and still owes.  The code has no such set,   *)
(* it has only the number in ArcInner::count; that the number is the size  *)
(* of the set is what most properties below are about.                     *)
(*                                                                         *)
(* Counter accesses are sequentially consistent here.  What the memory     *)
(* orderings Relaxed, Acquire and Release add is the subject of ArcOrder.  *)
(***************************************************************************)
EXTENDS Integers, FiniteSets

CONSTANTS
  Threads,       \* threads of the program
  Refs,          \* units of reference; bounds how many exist at a time
  Iters,         \* ArcCloneIter values
  Objs,          \* ArcInner allocations; addresses are reused once freed
  Vals,          \* contents of the T inside an ArcInner
  None,          \* no reference, iterator, allocation or contents
  MAX_REFCOUNT,  \* isize::MAX
  UsizeMax,      \* usize::MAX
  MaxMany        \* bound on the argument of clone_many

Values == {"Arc", "UniqueArc"}
Forms  == {"absent", "forgotten"} \cup Values

ASSUME NamesAssumption ==
  /\ None \notin Refs \cup Iters \cup Objs \cup Vals
  /\ (Forms \cup Threads) \cap Iters = {}
  /\ Forms \cap Threads = {}

ASSUME FinitenessAssumption ==
  IsFiniteSet(Threads) /\ IsFiniteSet(Refs)

(***************************************************************************)
(* The comment in Clone::clone: "we racily saturate to isize::MAX on the   *)
(* assumption that there aren't ~2 billion threads incrementing the        *)
(* reference count at once" (arc.rs:490).                                  *)
(***************************************************************************)
ASSUME CounterAssumption ==
  /\ MAX_REFCOUNT \in Nat \ {0}
  /\ UsizeMax \in Nat
  /\ MaxMany \in Nat
  /\ MAX_REFCOUNT + 1 + Cardinality(Threads) <= UsizeMax

VARIABLES
  mem,      \* allocation -> "free", "live", or "boxed" (owned by a strategy)
  count,    \* allocation -> ArcInner::count
  val,      \* allocation -> ArcInner::data
  at,       \* reference unit -> the allocation it points to
  form,     \* reference unit -> what stands for it, see Forms; a thread for
            \*   a clone being built, an iterator for a clone it owes
  orig,     \* iterator -> ArcCloneIter::orig
  left,     \* iterator -> ArcCloneIter::arcs_left
  call,     \* thread -> the call it is executing
  aborted   \* the process has called abort()

vars == <<mem, count, val, at, form, orig, left, call, aborted>>
heap == <<mem, count, val>>
refs == <<at, form>>
iters == <<orig, left>>

Usizes == 0 .. UsizeMax

\* Arithmetic of an AtomicUsize on operands that are at most one wrap away.
Wrap(n) == IF n < 0 THEN n + UsizeMax + 1
           ELSE IF n > UsizeMax THEN n - (UsizeMax + 1) ELSE n

-----------------------------------------------------------------------------
(***************************************************************************)
(* Calls in progress.  `arc` is the value the method was called on, `iter` *)
(* the iterator being dropped, `obj` the allocation drop_slow is about to  *)
(* free, `seen` the last value read from the counter, `many` the argument  *)
(* of clone_many.                                                          *)
(***************************************************************************)
ExclusiveOps == {"copy", "drop_slow_mut", "mut"}
Ops == {"idle", "clone", "clone_many", "leftover", "read", "drop_slow"}
         \cup ExclusiveOps

Frame(op, r, i, o, s, n) ==
  [op |-> op, arc |-> r, iter |-> i, obj |-> o, seen |-> s, many |-> n]

NoCall               == Frame("idle", None, None, None, 0, 0)
ArcCall(op, r, s, n) == Frame(op, r, None, None, s, n)
LeftoverCall(i, s)   == Frame("leftover", None, i, None, s, 0)
DropSlowCall(op, r, o) == Frame(op, r, None, o, 0, 0)

Begin(t, c) == call' = [call EXCEPT ![t] = c]
Return(t)   == Begin(t, NoCall)

Idle(t)   == ~aborted /\ call[t].op = "idle"
In(t, op) == ~aborted /\ call[t].op = op

At(o)       == {r \in Refs : at[r] = o}        \* units of o's count
Owed(i)     == {r \in Refs : form[r] = i}      \* clones i still owes
Fresh       == {r \in Refs : form[r] = "absent"}
InUse(i)    == \E t \in Threads : call[t].iter = i

(***************************************************************************)
(* What the borrow checker lets safe code do with the value r: `&r` while  *)
(* nobody has `&mut r`, and `&mut r` or a move of r while nobody else has  *)
(* any borrow of it.  A live ArcCloneIter borrows the Arc it clones.       *)
(***************************************************************************)
CanShare(r) ==
  /\ form[r] \in Values
  /\ \A t \in Threads : call[t].arc = r => call[t].op \notin ExclusiveOps
CanOwn(r) ==
  /\ form[r] \in Values
  /\ \A t \in Threads : call[t].arc # r
  /\ \A i \in Iters : orig[i] # r

Abort == aborted' = TRUE /\ UNCHANGED <<heap, refs, iters, call>>

-----------------------------------------------------------------------------
\* Faulty variants of the definitions that follow, one plausible slip each;
\* the checks substitute them to show that the properties can fail.

IsLast_OffByOne(old)      == old = 2
IsLast_AtMostTwo(old)     == old <= 2
IsUnique_AtMostTwo(c)     == c <= 2
IsUnique_Always(c)        == c \in Nat
Saturated_Never(old)      == old > UsizeMax
TooMany_Never(c, n)       == c + n < c
Raised_OneShort(c, n)     == c + n - 1
Lowered_ByOne(c, l)       == c - 1

IterNext_Unchecked(t, i, r) ==
  /\ Idle(t)
  /\ orig[i] # None /\ ~InUse(i)
  /\ form[r] = i \/ (Owed(i) = {} /\ r \in Fresh)
  /\ left' = [left EXCEPT ![i] = @ - 1]
  /\ at'   = [at EXCEPT ![r] = at[orig[i]]]
  /\ form' = [form EXCEPT ![r] = "Arc"]
  /\ UNCHANGED <<heap, orig, call, aborted>>

-----------------------------------------------------------------------------

\* Drop::drop: whether the value returned by fetch_sub makes this the last.
IsLast(old) == old = 1

\* is_unique: `Self::count(self) == 1`.
IsUnique(c) == c = 1

\* Clone::clone: whether the value returned by fetch_add is one too many.
Saturated(old) == old > MAX_REFCOUNT

\* The two checks of the closure in ArcCloneIter::new, and its result.
TooMany(c, n) == c + n > UsizeMax \/ c + n > MAX_REFCOUNT
Raised(c, n)  == c + n

\* The closure in ArcCloneIter::drop: what it checks, and its result.
Underflows(c, l) == c < l
Lowered(c, l)    == c - l

-----------------------------------------------------------------------------
(* Construction *)

\* Arc::new and UniqueArc::new.
New(t, r, o, f, v) ==
  /\ Idle(t)
  /\ r \in Fresh /\ mem[o] = "free"
  /\ mem'   = [mem EXCEPT ![o] = "live"]
  /\ count' = [count EXCEPT ![o] = 1]
  /\ val'   = [val EXCEPT ![o] = v]
  /\ at'    = [at EXCEPT ![r] = o]
  /\ form'  = [form EXCEPT ![r] = f]
  /\ UNCHANGED <<iters, call, aborted>>

-----------------------------------------------------------------------------
(* Clone::clone: fetch_add, then the check of the value it returned *)

CloneAdd(t, r, n) ==
  /\ Idle(t)
  /\ CanShare(r) /\ form[r] = "Arc"
  /\ n \in Fresh
  /\ count' = [count EXCEPT ![at[r]] = Wrap(@ + 1)]
  /\ at'    = [at EXCEPT ![n] = at[r]]
  /\ form'  = [form EXCEPT ![n] = t]
  /\ Begin(t, ArcCall("clone", r, count[at[r]], 0))
  /\ UNCHANGED <<mem, val, iters, aborted>>

CloneAbort(t) ==
  /\ In(t, "clone")
  /\ Saturated(call[t].seen)
  /\ Abort

CloneReturn(t, n) ==
  /\ In(t, "clone")
  /\ ~Saturated(call[t].seen)
  /\ form[n] = t
  /\ form' = [form EXCEPT ![n] = "Arc"]
  /\ Return(t)
  /\ UNCHANGED <<heap, at, iters, aborted>>

-----------------------------------------------------------------------------
(* clone_many: fetch_update is a load, then rounds of closure and            *)
(* compare_exchange_weak; a failed exchange delivers the current value.      *)
(* A spurious failure re-reads what was seen and is a stuttering step.       *)

ManyLoad(t, r, n) ==
  /\ Idle(t)
  /\ CanShare(r) /\ form[r] = "Arc"
  /\ Begin(t, ArcCall("clone_many", r, count[at[r]], n))
  /\ UNCHANGED <<heap, refs, iters, aborted>>

ManyAbort(t) ==
  /\ In(t, "clone_many")
  /\ TooMany(call[t].seen, call[t].many)
  /\ Abort

ManyRetry(t) ==
  LET c == call[t] o == at[c.arc] IN
  /\ In(t, "clone_many")
  /\ ~TooMany(c.seen, c.many)
  /\ count[o] # c.seen
  /\ Begin(t, ArcCall("clone_many", c.arc, count[o], c.many))
  /\ UNCHANGED <<heap, refs, iters, aborted>>

\* The exchange succeeds and `new` returns the iterator i, which owes N.
ManyCommit(t, i, N) ==
  LET c == call[t] o == at[c.arc] IN
  /\ In(t, "clone_many")
  /\ ~TooMany(c.seen, c.many)
  /\ count[o] = c.seen
  /\ orig[i] = None
  /\ N \subseteq Fresh /\ Cardinality(N) = c.many
  /\ count' = [count EXCEPT ![o] = Raised(c.seen, c.many)]
  /\ at'    = [r \in Refs |-> IF r \in N THEN o ELSE at[r]]
  /\ form'  = [r \in Refs |-> IF r \in N THEN i ELSE form[r]]
  /\ orig'  = [orig EXCEPT ![i] = c.arc]
  /\ left'  = [left EXCEPT ![i] = c.many]
  /\ Return(t)
  /\ UNCHANGED <<mem, val, aborted>>

\* Iterator::next; with arcs_left = 0 it returns None and changes nothing.
IterNext(t, i, r) ==
  /\ Idle(t)
  /\ orig[i] # None /\ ~InUse(i)
  /\ left[i] > 0
  /\ form[r] = i
  /\ left' = [left EXCEPT ![i] = @ - 1]
  /\ form' = [form EXCEPT ![r] = "Arc"]
  /\ UNCHANGED <<heap, at, orig, call, aborted>>

\* Drop for ArcCloneIter with nothing left to give back.
IterDropEmpty(t, i) ==
  /\ Idle(t)
  /\ orig[i] # None /\ ~InUse(i)
  /\ left[i] = 0
  /\ orig' = [orig EXCEPT ![i] = None]
  /\ UNCHANGED <<heap, refs, left, call, aborted>>

IterDropLoad(t, i) ==
  /\ Idle(t)
  /\ orig[i] # None /\ ~InUse(i)
  /\ left[i] # 0
  /\ Begin(t, LeftoverCall(i, count[at[orig[i]]]))
  /\ UNCHANGED <<heap, refs, iters, aborted>>

\* One round of the closure and compare_exchange_weak in ArcCloneIter::drop.
\* That checked_sub never fails is LeftoverKeepsOne.
LeftoverRetry(t) ==
  LET i == call[t].iter o == at[orig[i]] IN
  /\ In(t, "leftover")
  /\ ~Underflows(call[t].seen, left[i])
  /\ count[o] # call[t].seen
  /\ Begin(t, LeftoverCall(i, count[o]))
  /\ UNCHANGED <<heap, refs, iters, aborted>>

LeftoverCommit(t) ==
  LET c == call[t] i == c.iter o == at[orig[i]] IN
  /\ In(t, "leftover")
  /\ Underflows(c.seen, left[i]) \/ count[o] = c.seen
  /\ IF Underflows(c.seen, left[i])
     THEN Abort
     ELSE /\ count' = [count EXCEPT ![o] = Lowered(c.seen, left[i])]
          /\ at'    = [r \in Refs |-> IF form[r] = i THEN None ELSE at[r]]
          /\ form'  = [r \in Refs |-> IF form[r] = i THEN "absent" ELSE form[r]]
          /\ orig'  = [orig EXCEPT ![i] = None]
          /\ left'  = [left EXCEPT ![i] = 0]
          /\ Return(t)
          /\ UNCHANGED <<mem, val, aborted>>

-----------------------------------------------------------------------------
(* Drop::drop, and mem::forget, which the overflow guards are there for *)

DropSub(t, r) ==
  LET o == at[r] IN
  /\ Idle(t)
  /\ CanOwn(r)
  /\ count' = [count EXCEPT ![o] = Wrap(@ - 1)]
  /\ at'    = [at EXCEPT ![r] = None]
  /\ form'  = [form EXCEPT ![r] = "absent"]
  /\ IF IsLast(count[o])
     THEN Begin(t, DropSlowCall("drop_slow", None, o))
     ELSE UNCHANGED call
  /\ UNCHANGED <<mem, val, iters, aborted>>

\* drop_slow: the allocation becomes a Box that the strategy is given.
DropSlow(t) ==
  LET c == call[t] IN
  /\ ~aborted
  /\ c.op \in {"drop_slow", "drop_slow_mut"}
  /\ mem' = [mem EXCEPT ![c.obj] = "boxed"]
  /\ IF c.op = "drop_slow"
     THEN Return(t)
     ELSE Begin(t, ArcCall("mut", c.arc, 0, 0))
  /\ UNCHANGED <<count, val, refs, iters, aborted>>

\* The strategy lets go of its box: BackdropStrategy::execute, now or later.
StrategyDrops(o) ==
  /\ ~aborted
  /\ mem[o] = "boxed"
  /\ mem'   = [mem EXCEPT ![o] = "free"]
  /\ count' = [count EXCEPT ![o] = 0]
  /\ val'   = [val EXCEPT ![o] = None]
  /\ UNCHANGED <<refs, iters, call, aborted>>

Forget(t, r) ==
  /\ Idle(t)
  /\ CanOwn(r)
  /\ form' = [form EXCEPT ![r] = "forgotten"]
  /\ UNCHANGED <<heap, at, iters, call, aborted>>

ForgetIter(t, i) ==
  /\ Idle(t)
  /\ orig[i] # None /\ ~InUse(i)
  /\ form' = [r \in Refs |-> IF form[r] = i THEN "forgotten" ELSE form[r]]
  /\ orig' = [orig EXCEPT ![i] = None]
  /\ left' = [left EXCEPT ![i] = 0]
  /\ UNCHANGED <<heap, at, call, aborted>>

-----------------------------------------------------------------------------
(* Access to the contents *)

\* Deref::deref on a value of either type, for as long as the &T is used.
ReadBegin(t, r) ==
  /\ Idle(t)
  /\ CanShare(r)
  /\ Begin(t, ArcCall("read", r, 0, 0))
  /\ UNCHANGED <<heap, refs, iters, aborted>>

ReadEnd(t) ==
  /\ In(t, "read")
  /\ Return(t)
  /\ UNCHANGED <<heap, refs, iters, aborted>>

\* get_mut, get_unique, must_be_unique: `&mut T` if the count is seen to be
\* 1, else None, Err or a panic, with nothing changed.
GetMut(t, r) ==
  /\ Idle(t)
  /\ CanOwn(r) /\ form[r] = "Arc"
  /\ IsUnique(count[at[r]])
  /\ Begin(t, ArcCall("mut", r, 0, 0))
  /\ UNCHANGED <<heap, refs, iters, aborted>>

\* DerefMut for UniqueArc: no look at the counter.
DerefMut(t, r) ==
  /\ Idle(t)
  /\ CanOwn(r) /\ form[r] = "UniqueArc"
  /\ Begin(t, ArcCall("mut", r, 0, 0))
  /\ UNCHANGED <<heap, refs, iters, aborted>>

\* The program writes through the &mut T it was given, and lets go of it.
Mutate(t, v) ==
  /\ In(t, "mut")
  /\ val' = [val EXCEPT ![at[call[t].arc]] = v]
  /\ Return(t)
  /\ UNCHANGED <<mem, count, refs, iters, aborted>>

\* make_mut, make_unique: straight to the contents, or T::clone first.
MakeMut(t, r) ==
  /\ Idle(t)
  /\ CanOwn(r) /\ form[r] = "Arc"
  /\ Begin(t, ArcCall(IF IsUnique(count[at[r]]) THEN "mut" ELSE "copy", r, 0, 0))
  /\ UNCHANGED <<heap, refs, iters, aborted>>

\* T::clone panics: the assignment to *this is never reached.
CopyPanics(t) ==
  /\ In(t, "copy")
  /\ Return(t)
  /\ UNCHANGED <<heap, refs, iters, aborted>>

\* Box::new has no memory: handle_alloc_error ends the process.
CopyAborts(t) ==
  /\ In(t, "copy")
  /\ \A o \in Objs : mem[o] # "free"
  /\ Abort

\* *this = Arc::new(T::clone(&this)): the Arc that was in *this is dropped,
\* and other owners may have gone since is_unique said there were some.
Replace(t, o) ==
  LET c == call[t] old == at[c.arc] IN
  /\ In(t, "copy")
  /\ mem[o] = "free"
  /\ mem'   = [mem EXCEPT ![o] = "live"]
  /\ val'   = [val EXCEPT ![o] = val[old]]
  /\ count' = [count EXCEPT ![o] = 1, ![old] = Wrap(@ - 1)]
  /\ at'    = [at EXCEPT ![c.arc] = o]
  /\ IF IsLast(count[old])
     THEN Begin(t, DropSlowCall("drop_slow_mut", c.arc, old))
     ELSE Begin(t, ArcCall("mut", c.arc, 0, 0))
  /\ UNCHANGED <<form, iters, aborted>>

-----------------------------------------------------------------------------
(* UniqueArc *)

\* try_unique, TryFrom<Arc>; on Err the same Arc is handed back.
TryUnique(t, r) ==
  /\ Idle(t)
  /\ CanOwn(r) /\ form[r] = "Arc"
  /\ IsUnique(count[at[r]])
  /\ form' = [form EXCEPT ![r] = "UniqueArc"]
  /\ UNCHANGED <<heap, at, iters, call, aborted>>

Shareable(t, r) ==
  /\ Idle(t)
  /\ CanOwn(r) /\ form[r] = "UniqueArc"
  /\ form' = [form EXCEPT ![r] = "Arc"]
  /\ UNCHANGED <<heap, at, iters, call, aborted>>

\* into_inner: the T is moved out and the Box freed, without the strategy.
\* try_unwrap is TryUnique and this.
IntoInner(t, r) ==
  /\ Idle(t)
  /\ CanOwn(r) /\ form[r] = "UniqueArc"
  /\ mem'   = [mem EXCEPT ![at[r]] = "free"]
  /\ count' = [count EXCEPT ![at[r]] = 0]
  /\ val'   = [val EXCEPT ![at[r]] = None]
  /\ at'    = [at EXCEPT ![r] = None]
  /\ form'  = [form EXCEPT ![r] = "absent"]
  /\ UNCHANGED <<iters, call, aborted>>

-----------------------------------------------------------------------------
(* Specification *)

Init ==
  /\ mem   = [o \in Objs |-> "free"]
  /\ count = [o \in Objs |-> 0]
  /\ val   = [o \in Objs |-> None]
  /\ at    = [r \in Refs |-> None]
  /\ form  = [r \in Refs |-> "absent"]
  /\ orig  = [i \in Iters |-> None]
  /\ left  = [i \in Iters |-> 0]
  /\ call  = [t \in Threads |-> NoCall]
  /\ aborted = FALSE

\* Calls a program may make on values it holds.
Calls(t) ==
  \/ \E r \in Refs, o \in Objs, f \in Values, v \in Vals : New(t, r, o, f, v)
  \/ \E r, n \in Refs : CloneAdd(t, r, n)
  \/ \E r \in Refs, n \in 0 .. MaxMany : ManyLoad(t, r, n)
  \/ \E i \in Iters, r \in Refs : IterNext(t, i, r)
  \/ \E i \in Iters : IterDropEmpty(t, i) \/ IterDropLoad(t, i) \/ ForgetIter(t, i)
  \/ \E r \in Refs :
       \/ DropSub(t, r) \/ Forget(t, r)
       \/ ReadBegin(t, r) \/ GetMut(t, r) \/ DerefMut(t, r) \/ MakeMut(t, r)
       \/ TryUnique(t, r) \/ Shareable(t, r) \/ IntoInner(t, r)

\* Steps of a call that run the crate's own code.
Steps(t) ==
  \/ CloneAbort(t)
  \/ \E n \in Refs : CloneReturn(t, n)
  \/ ManyAbort(t) \/ ManyRetry(t)
  \/ \E i \in Iters, N \in SUBSET Refs : ManyCommit(t, i, N)
  \/ LeftoverRetry(t) \/ LeftoverCommit(t)
  \/ DropSlow(t)

\* Steps that wait for the program: its use of a &T or &mut T, its T::clone.
UserSteps(t) ==
  \/ ReadEnd(t)
  \/ \E v \in Vals : Mutate(t, v)
  \/ CopyPanics(t) \/ CopyAborts(t)
  \/ \E o \in Objs : Replace(t, o)

Next ==
  \/ \E t \in Threads : Calls(t) \/ Steps(t) \/ UserSteps(t)
  \/ \E o \in Objs : StrategyDrops(o)

\* A thread that is inside the crate's code is scheduled until it leaves it.
\* Nothing is assumed of the program's code, or of the strategy.
Fairness == \A t \in Threads : WF_vars(Steps(t))

SafeSpec == Init /\ [][Next]_vars
Spec == SafeSpec /\ Fairness

-----------------------------------------------------------------------------
(* Properties *)

TypeOK ==
  /\ mem \in [Objs -> {"free", "live", "boxed"}]
  /\ count \in [Objs -> Usizes]
  /\ val \in [Objs -> Vals \cup {None}]
  /\ at \in [Refs -> Objs \cup {None}]
  /\ form \in [Refs -> Forms \cup Threads \cup Iters]
  /\ orig \in [Iters -> Refs \cup {None}]
  /\ left \in [Iters -> Usizes]
  /\ call \in [Threads -> [op : Ops, arc : Refs \cup {None},
                           iter : Iters \cup {None}, obj : Objs \cup {None},
                           seen : Usizes, many : 0 .. MaxMany]]
  /\ aborted \in BOOLEAN

\* The number in the counter is the number of references that exist: Arc and
\* UniqueArc values, forgotten ones, clones between fetch_add and return, and
\* clones an ArcCloneIter has reserved.  Relates every fetch_add, fetch_sub
\* and exchange on ArcInner::count to the values they account for.
CountExact ==
  \A o \in Objs : mem[o] = "live" => count[o] = Cardinality(At(o))

\* inner(): "while this arc is alive we're guaranteed that the inner pointer
\* is valid" (arc.rs:276).  No reference points to memory that has been given
\* to a strategy, moved out of or freed, whatever the order of the drops.
NoDangling ==
  \A r \in Refs : at[r] # None => mem[at[r]] = "live"

\* A thread on its way to drop_slow is the only one for that allocation, the
\* memory is still there, and no reference is left that could reach it.
SoleDisposer ==
  \A t \in Threads : call[t].obj # None =>
    /\ mem[call[t].obj] = "live"
    /\ At(call[t].obj) = {}
    /\ \A u \in Threads \ {t} : call[u].obj # call[t].obj

\* An allocation that nothing refers to is about to be disposed of by some
\* thread: two threads dropping at once never both leave it to the other.
NoLeak ==
  \A o \in Objs : mem[o] = "live" /\ At(o) = {} =>
    \E t \in Threads : call[t].obj = o

\* While a &mut T from get_mut, make_mut or a UniqueArc is out, the Arc it
\* came from is the only reference, and no thread reads or copies the T.
ExclusiveMut ==
  \A t \in Threads : call[t].op = "mut" =>
    /\ At(at[call[t].arc]) = {call[t].arc}
    /\ \A u \in Threads \ {t} : call[u].op \in {"read", "copy", "mut"} =>
         at[call[u].arc] # at[call[t].arc]

\* A UniqueArc is the only reference for as long as it exists: into_inner and
\* DerefMut rely on it without looking at the counter.
UniqueIsSole ==
  \A r \in Refs : form[r] = "UniqueArc" => At(at[r]) = {r}

\* An ArcCloneIter owes exactly arcs_left references, counted and of orig's
\* allocation: "we only make a new arc when there still are refcounts left to
\* give out" (arc.rs:582).
IterBacked ==
  \A i \in Iters :
    /\ orig[i] # None => \A r \in Owed(i) : at[r] = at[orig[i]]
    /\ left[i] = Cardinality(Owed(i))

\* Giving back the leftover neither underflows nor reaches zero, although the
\* value it starts from is stale: "since we have the reference `orig`, the
\* refcount will always be > 0" (arc.rs:563).
LeftoverKeepsOne ==
  \A t \in Threads : call[t].op = "leftover" => call[t].seen > left[call[t].iter]

\* Threads past fetch_add whose check is going to abort the process.
Doomed(o) == {t \in Threads : /\ call[t].op = "clone"
                              /\ Saturated(call[t].seen)
                              /\ at[call[t].arc] = o}

\* The racy saturation of Clone::clone keeps the counter from wrapping round:
\* it passes MAX_REFCOUNT + 1 only by as many as are about to abort.
NoWrap ==
  \A o \in Objs : count[o] <= MAX_REFCOUNT + 1 + Cardinality(Doomed(o))

\* What an owner sees of the contents changes only by its own writes: a clone
\* shares, make_mut copies before it writes, and nobody else can.
ValueStable ==
  [][\A r \in Refs :
       /\ form[r] \in Values /\ form'[r] \in Values
       /\ \A t \in Threads : call[t].arc = r => call[t].op # "mut"
       => val'[at'[r]] = val[at[r]]]_vars
=============================================================================
