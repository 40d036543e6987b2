----------------------------- MODULE ArcProofs -----------------------------
(***************************************************************************)
(* Proofs about Arc, for every set of threads, references, iterators and   *)
(* allocations and every MAX_REFCOUNT and usize::MAX that the assumptions  *)
(* of Arc admit.                                                           *)
(*                                                                         *)
(* The first invariant, Sound, is about types and borrows only: a call     *)
(* works on a value that exists, and a call with exclusive access has it   *)
(* to itself.  The second, Counted, is about the counter, and needs Sound. *)
(***************************************************************************)
EXTENDS Arc, FiniteSetTheorems, TLAPS

-----------------------------------------------------------------------------
(* Values, iterators and borrows *)

\* What exists points somewhere, and an iterator's orig is an Arc.
Placed ==
  /\ \A r \in Refs : at[r] = None <=> form[r] = "absent"
  /\ \A i \in Iters : orig[i] # None => form[orig[i]] = "Arc"

\* Each call has the operands it needs, and they are alive.
Operands ==
  \A t \in Threads :
    LET c == call[t] IN
    /\ c.arc # None => form[c.arc] \in Values
    /\ c.op \in {"clone", "clone_many", "copy"} =>
         c.arc # None /\ form[c.arc] = "Arc"
    /\ c.op \in {"read", "mut", "drop_slow_mut"} => c.arc # None
    /\ c.iter # None => orig[c.iter] # None
    /\ c.op = "leftover" <=> c.iter # None
    /\ c.op \in {"drop_slow", "drop_slow_mut"} <=> c.obj # None

\* `&mut` excludes every other borrow.
Exclusive ==
  /\ \A t, u \in Threads :
       t # u /\ call[t].op \in ExclusiveOps => call[u].arc # call[t].arc
  /\ \A t \in Threads, i \in Iters :
       call[t].op \in ExclusiveOps => orig[i] # call[t].arc
  /\ \A t, u \in Threads :
       t # u /\ call[t].iter # None => call[u].iter # call[t].iter

Sound == TypeOK /\ Placed /\ Operands /\ Exclusive

\* A result of the arithmetic of AtomicUsize is a usize again.
LEMMA WrapType ==
  ASSUME NEW n \in Int, -1 <= n, n <= UsizeMax + 1
  PROVE  Wrap(n) \in Usizes
BY CounterAssumption DEF Wrap, Usizes

\* There is room in a usize above MAX_REFCOUNT for one more per thread.
LEMMA Room ==
  /\ Cardinality(Threads) \in Nat
  /\ MAX_REFCOUNT \in Nat /\ UsizeMax \in Nat
  /\ 1 <= MAX_REFCOUNT /\ MAX_REFCOUNT < UsizeMax
BY FinitenessAssumption, CounterAssumption, FS_CardinalityType

LEMMA SoundInit == Init => Sound
<1> SUFFICES ASSUME Init
             PROVE  Sound
  OBVIOUS
<1>1. \A t \in Threads : call[t] = NoCall
  BY DEF Init
<1>2. TypeOK
  <2>1. 0 \in Usizes /\ 0 \in 0 .. MaxMany
    BY CounterAssumption DEF Usizes
  <2>2. QED
    BY <2>1 DEF Init, TypeOK, NoCall, Frame, Forms, Ops
<1>3. Placed /\ Operands /\ Exclusive
  BY <1>1, NamesAssumption
     DEF Init, Placed, Operands, Exclusive, NoCall, Frame, ExclusiveOps
<1>4. QED
  BY <1>2, <1>3 DEF Sound

\* Operations on values the program holds keep Sound.
LEMMA SoundCalls ==
  ASSUME Sound, NEW t \in Threads, Calls(t)
  PROVE  Sound'
<1> USE NamesAssumption, CounterAssumption
    DEF Sound, TypeOK, Placed, Operands, Exclusive, Idle, CanShare, CanOwn, Begin,
        Return, NoCall, ArcCall, LeftoverCall, DropSlowCall, Frame, heap, refs,
        iters, Forms, Values, Ops, ExclusiveOps, Usizes
<1>1. ASSUME NEW r \in Refs, NEW o \in Objs, NEW f \in Values, NEW v \in Vals,
             New(t, r, o, f, v)
      PROVE  Sound'
  <2>1. TypeOK'
    BY <1>1, Room DEF New
  <2>2. Placed' /\ Operands' /\ Exclusive'
    BY <1>1 DEF New, Fresh
  <2>3. QED
    BY <2>1, <2>2
<1>2. ASSUME NEW r \in Refs, NEW n \in Refs, CloneAdd(t, r, n)
      PROVE  Sound'
  <2>1. Wrap(count[at[r]] + 1) \in Usizes
    BY <1>2, WrapType DEF CloneAdd
  <2>2. QED
    BY <1>2, <2>1 DEF CloneAdd, Fresh
<1>3. ASSUME NEW r \in Refs, NEW n \in 0 .. MaxMany, ManyLoad(t, r, n)
      PROVE  Sound'
  BY <1>3 DEF ManyLoad
<1>4. ASSUME NEW i \in Iters, NEW r \in Refs, IterNext(t, i, r)
      PROVE  Sound'
  BY <1>4 DEF IterNext, InUse
<1>5. ASSUME NEW i \in Iters, IterDropEmpty(t, i)
      PROVE  Sound'
  BY <1>5 DEF IterDropEmpty, InUse
<1>6. ASSUME NEW i \in Iters, IterDropLoad(t, i)
      PROVE  Sound'
  BY <1>6 DEF IterDropLoad, InUse
<1>7. ASSUME NEW i \in Iters, ForgetIter(t, i)
      PROVE  Sound'
  BY <1>7 DEF ForgetIter, InUse
<1>8. ASSUME NEW r \in Refs, DropSub(t, r)
      PROVE  Sound'
  <2>1. Wrap(count[at[r]] - 1) \in Usizes
    BY <1>8, WrapType DEF DropSub
  <2>2. QED
    BY SMTT(60), <1>8, <2>1 DEF DropSub
<1>9. ASSUME NEW r \in Refs,
             \/ Forget(t, r) \/ TryUnique(t, r) \/ Shareable(t, r) \/ IntoInner(t, r)
      PROVE  Sound'
  <2>1. CASE Forget(t, r)
    BY <2>1 DEF Forget
  <2>2. CASE TryUnique(t, r)
    BY <2>2 DEF TryUnique
  <2>3. CASE Shareable(t, r)
    BY <2>3 DEF Shareable
  <2>4. CASE IntoInner(t, r)
    BY <2>4 DEF IntoInner
  <2>5. QED
    BY <1>9, <2>1, <2>2, <2>3, <2>4
<1>10. ASSUME NEW r \in Refs,
              \/ ReadBegin(t, r) \/ GetMut(t, r) \/ DerefMut(t, r) \/ MakeMut(t, r)
       PROVE  Sound'
  <2>1. CASE ReadBegin(t, r)
    BY <2>1 DEF ReadBegin
  <2>2. CASE GetMut(t, r)
    BY <2>2 DEF GetMut
  <2>3. CASE DerefMut(t, r)
    BY <2>3 DEF DerefMut
  <2>4. CASE MakeMut(t, r)
    BY <2>4 DEF MakeMut
  <2>5. QED
    BY <1>10, <2>1, <2>2, <2>3, <2>4
<1> HIDE DEF Sound
<1>11. QED
  BY <1>1, <1>2, <1>3, <1>4, <1>5, <1>6, <1>7, <1>8, <1>9, <1>10 DEF Calls

\* A call that ends leaves the others their exclusive access.
LEMMA ReturnExclusive ==
  ASSUME Sound, NEW t \in Threads, Return(t),
         \A i \in Iters : orig'[i] \in {orig[i], None}
  PROVE  Exclusive'
<1>1. \A u \in Threads : call'[u] = IF u = t THEN NoCall ELSE call[u]
  BY DEF Sound, TypeOK, Return, Begin
<1>2. \A u \in Threads : call[u].op \in ExclusiveOps => call[u].arc # None
  BY DEF Sound, Operands, ExclusiveOps
<1>3. call'[t].op \notin ExclusiveOps /\ call'[t].arc = None /\ call'[t].iter = None
  BY <1>1 DEF NoCall, Frame, ExclusiveOps
<1>4. QED
  BY <1>1, <1>2, <1>3 DEF Sound, Exclusive

\* What a successful fetch_update in the drop of an ArcCloneIter does.
LEMMA LeftoverCommitEffect ==
  ASSUME NEW t \in Threads, LeftoverCommit(t),
         ~Underflows(call[t].seen, left[call[t].iter])
  PROVE  /\ count' = [count EXCEPT ![at[orig[call[t].iter]]] =
                        Lowered(call[t].seen, left[call[t].iter])]
         /\ orig' = [orig EXCEPT ![call[t].iter] = None]
         /\ left' = [left EXCEPT ![call[t].iter] = 0]
         /\ Return(t)
BY DEF LeftoverCommit

\* So do the steps of the crate's own code.
LEMMA SoundSteps ==
  ASSUME Sound, NEW t \in Threads, Steps(t)
  PROVE  Sound'
<1> USE NamesAssumption, CounterAssumption
    DEF Sound, TypeOK, Placed, Operands, Exclusive, In, Begin, Return, NoCall,
        ArcCall, LeftoverCall, DropSlowCall, Frame, heap, refs, iters, Forms,
        Values, Ops, ExclusiveOps, Usizes, Abort
<1>1. CASE Abort
  BY <1>1
<1>2. ASSUME NEW n \in Refs, CloneReturn(t, n)
      PROVE  Sound'
  BY <1>2 DEF CloneReturn
<1>3. CASE ManyRetry(t)
  BY <1>3 DEF ManyRetry
<1>4. ASSUME NEW i \in Iters, NEW N \in SUBSET Refs, ManyCommit(t, i, N)
      PROVE  Sound'
  <2>1. Raised(call[t].seen, call[t].many) \in Usizes
    BY <1>4 DEF ManyCommit, Raised, TooMany
  <2>2. call[t].many \in Usizes
    BY <1>4 DEF ManyCommit, TooMany
  <2>3. TypeOK'
    BY <1>4, <2>1, <2>2 DEF ManyCommit
  <2>4. Placed' /\ Operands' /\ Exclusive'
    BY <1>4 DEF ManyCommit, Fresh
  <2>5. QED
    BY <2>3, <2>4
<1>5. CASE LeftoverRetry(t)
  <2>1. call[t].iter \in Iters /\ at[orig[call[t].iter]] \in Objs
    BY <1>5 DEF LeftoverRetry
  <2>2. count[at[orig[call[t].iter]]] \in 0 .. UsizeMax
    BY <2>1
  <2>3. TypeOK'
    BY <1>5, <2>1, <2>2 DEF LeftoverRetry
  <2>4. Placed' /\ Operands'
    <3>1. \A u \in Threads \ {t} : call'[u] = call[u]
      BY <1>5 DEF LeftoverRetry
    <3>2. /\ call'[t].arc = None /\ call'[t].obj = None
          /\ call'[t].iter = call[t].iter /\ call'[t].op = "leftover"
      BY <1>5, <2>1 DEF LeftoverRetry
    <3>3. UNCHANGED <<at, form, orig>>
      BY <1>5 DEF LeftoverRetry
    <3>4. Placed'
      BY <3>3
    <3>5. Operands'
      BY <2>1, <3>1, <3>2, <3>3
    <3>6. QED
      BY <3>4, <3>5
  <2>5. Exclusive'
    BY <1>5, <2>1 DEF LeftoverRetry
  <2>6. QED
    BY <2>3, <2>4, <2>5
<1>6. CASE LeftoverCommit(t)
  <2>1. CASE Underflows(call[t].seen, left[call[t].iter])
    BY <1>6, <2>1 DEF LeftoverCommit
  <2>2. CASE ~Underflows(call[t].seen, left[call[t].iter])
    <3>1. Lowered(call[t].seen, left[call[t].iter]) \in Usizes
      BY <1>6, <2>2 DEF LeftoverCommit, Underflows, Lowered
    <3>2. TypeOK'
      <4>1. count' \in [Objs -> Usizes]
        BY <1>6, <2>2, <3>1, LeftoverCommitEffect
      <4>2. at' \in [Refs -> Objs \cup {None}]
            /\ form' \in [Refs -> Forms \cup Threads \cup Iters]
        BY <1>6, <2>2 DEF LeftoverCommit
      <4>3. left' \in [Iters -> Usizes]
        BY <1>6, <2>2, LeftoverCommitEffect
      <4>4. QED
        BY SMTT(60), <1>6, <2>2, <4>1, <4>2, <4>3 DEF LeftoverCommit
    <3>3. Placed'
      BY <1>6, <2>2 DEF LeftoverCommit
    <3>4. Operands'
      BY SMTT(60), <1>6, <2>2 DEF LeftoverCommit
    <3>5. Exclusive'
      <4>1. Return(t) /\ \A i \in Iters : orig'[i] \in {orig[i], None}
        BY <1>6, <2>2, LeftoverCommitEffect
      <4> HIDE DEF Sound, Return, Exclusive
      <4>2. QED
        BY <4>1, ReturnExclusive
    <3>6. QED
      BY <3>2, <3>3, <3>4, <3>5
  <2>3. QED
    BY <2>1, <2>2
<1>7. CASE DropSlow(t)
  <2>1. CASE call[t].op = "drop_slow"
    <3>1. TypeOK'
      <4>1. mem' \in [Objs -> {"free", "live", "boxed"}]
        BY <1>7, <2>1 DEF DropSlow
      <4>2. NoCall \in [op : Ops, arc : Refs \cup {None}, iter : Iters \cup {None},
                        obj : Objs \cup {None}, seen : Usizes, many : 0 .. MaxMany]
        OBVIOUS
      <4>3. call' = [call EXCEPT ![t] = NoCall]
        BY <1>7, <2>1 DEF DropSlow
      <4>4. QED
        BY <1>7, <4>1, <4>2, <4>3 DEF DropSlow
    <3>2. Placed'
      BY <1>7, <2>1 DEF DropSlow
    <3>3. Operands'
      BY <1>7, <2>1 DEF DropSlow
    <3>4. Exclusive'
      BY <1>7, <2>1, ReturnExclusive DEF DropSlow
    <3>5. QED
      BY <3>1, <3>2, <3>3, <3>4
  <2>2. CASE call[t].op = "drop_slow_mut"
    <3>1. TypeOK' /\ Placed'
      BY SMTT(60), <1>7, <2>2 DEF DropSlow
    <3>2. Operands'
      BY <1>7, <2>2 DEF DropSlow
    <3>3. Exclusive'
      BY SMTT(60), <1>7, <2>2 DEF DropSlow
    <3>4. QED
      BY <3>1, <3>2, <3>3
  <2>3. QED
    BY <1>7, <2>1, <2>2 DEF DropSlow
<1>8. QED
  BY <1>1, <1>2, <1>3, <1>4, <1>5, <1>6, <1>7 DEF Steps, CloneAbort, ManyAbort

\* So do the steps of the program between two pieces of the crate's code.
LEMMA SoundUserSteps ==
  ASSUME Sound, NEW t \in Threads, UserSteps(t)
  PROVE  Sound'
<1> USE NamesAssumption, CounterAssumption
    DEF Sound, TypeOK, Placed, Operands, Exclusive, In, Begin, Return, NoCall,
        ArcCall, LeftoverCall, DropSlowCall, Frame, heap, refs, iters, Forms,
        Values, Ops, ExclusiveOps, Usizes, Abort
<1>1. CASE Abort
  BY <1>1
<1>2. ASSUME NEW v \in Vals, Mutate(t, v)
      PROVE  Sound'
  BY <1>2 DEF Mutate
<1>3. ASSUME NEW o \in Objs, Replace(t, o)
      PROVE  Sound'
  <2>1. Wrap(count[at[call[t].arc]] - 1) \in Usizes
    BY <1>3, WrapType DEF Replace
  <2>2. TypeOK'
    <3>1. /\ mem' \in [Objs -> {"free", "live", "boxed"}]
          /\ val' \in [Objs -> Vals \cup {None}]
          /\ at' \in [Refs -> Objs \cup {None}]
      BY <1>3 DEF Replace
    <3>2. count' \in [Objs -> Usizes]
      BY <1>3, <2>1, Room DEF Replace
    <3>3. call' \in [Threads -> [op : Ops, arc : Refs \cup {None},
                                iter : Iters \cup {None}, obj : Objs \cup {None},
                                seen : Usizes, many : 0 .. MaxMany]]
      BY SMTT(60), <1>3 DEF Replace
    <3>4. QED
      BY <1>3, <3>1, <3>2, <3>3 DEF Replace
  <2>3. Placed'
    BY <1>3 DEF Replace
  <2>4. Operands'
    BY <1>3 DEF Replace
  <2>5. Exclusive'
    <3>1. /\ call[t].op = "copy" /\ call[t].arc \in Refs
          /\ call'[t].arc = call[t].arc /\ call'[t].iter = None
      BY <1>3 DEF Replace
    <3>2. \A u \in Threads \ {t} : call'[u] = call[u]
      BY <1>3 DEF Replace
    <3>3. ASSUME NEW u \in Threads, NEW w \in Threads, u # w
          PROVE  /\ call'[u].op \in ExclusiveOps => call'[w].arc # call'[u].arc
                 /\ call'[u].iter # None => call'[w].iter # call'[u].iter
      <4>1. CASE u = t
        BY <3>1, <3>2, <3>3, <4>1
      <4>2. CASE w = t
        BY <3>1, <3>2, <3>3, <4>2
      <4>3. CASE u # t /\ w # t
        BY <3>2, <3>3, <4>3
      <4>4. QED
        BY <4>1, <4>2, <4>3
    <3>4. ASSUME NEW u \in Threads, NEW i \in Iters, call'[u].op \in ExclusiveOps
          PROVE  orig'[i] # call'[u].arc
      BY <1>3, <3>1, <3>2, <3>4 DEF Replace
    <3>5. QED
      BY <3>3, <3>4
  <2>6. QED
    BY <2>2, <2>3, <2>4, <2>5
<1>4. CASE ReadEnd(t)
  BY <1>4 DEF ReadEnd
<1>5. CASE CopyPanics(t)
  BY <1>5 DEF CopyPanics
<1>6. QED
  BY <1>1, <1>2, <1>3, <1>4, <1>5 DEF UserSteps, CopyAborts

LEMMA SoundStrategyDrops ==
  ASSUME Sound, NEW o \in Objs, StrategyDrops(o)
  PROVE  Sound'
BY NamesAssumption, CounterAssumption
   DEF Sound, TypeOK, Placed, Operands, Exclusive, StrategyDrops, refs, iters, Usizes

LEMMA SoundNext == Sound /\ [Next]_vars => Sound'
<1> SUFFICES ASSUME Sound, [Next]_vars
             PROVE  Sound'
  OBVIOUS
<1>1. CASE Next
  BY <1>1, SoundCalls, SoundSteps, SoundUserSteps, SoundStrategyDrops DEF Next
<1>2. CASE UNCHANGED vars
  BY <1>2 DEF vars, Sound, TypeOK, Placed, Operands, Exclusive
<1>3. QED
  BY <1>1, <1>2

\* Every variable keeps its type; in particular no step takes a counter or
\* an iterator's arcs_left out of usize, and no call works on an operand that
\* is gone.
THEOREM TypeCorrect == SafeSpec => []TypeOK
<1>1. SafeSpec => []Sound
  BY SoundInit, SoundNext, PTL DEF SafeSpec
<1>2. Sound => TypeOK
  BY DEF Sound
<1>3. QED
  BY <1>1, <1>2, PTL

-----------------------------------------------------------------------------
(* What the counter counts: nothing dangles, nothing leaks, `&mut` is      *)
(* exclusive.  None of the properties is inductive by itself; Counted,     *)
(* their conjunction, is, relative to Sound.                               *)

\* A call that has taken, or is on its way to take, a &mut T works on the
\* only reference.
SoleMut ==
  \A t \in Threads : call[t].op \in {"mut", "drop_slow_mut"} =>
    At(at[call[t].arc]) = {call[t].arc}

\* An iterator that is gone owes nothing.
DeadIters == \A i \in Iters : orig[i] = None => left[i] = 0

Counted ==
  /\ CountExact /\ NoDangling /\ SoleDisposer /\ NoLeak
  /\ SoleMut /\ UniqueIsSole
  /\ IterBacked /\ DeadIters /\ LeftoverKeepsOne
  /\ NoWrap

-----------------------------------------------------------------------------
(* Cardinalities of sets of references and of threads *)

LEMMA SetsOfRefs ==
  \A S \in SUBSET Refs : IsFiniteSet(S) /\ Cardinality(S) \in Nat
BY FinitenessAssumption, FS_Subset, FS_CardinalityType

LEMMA OneMore ==
  ASSUME NEW S \in SUBSET Refs, NEW r \in Refs \ S
  PROVE  Cardinality(S \cup {r}) = Cardinality(S) + 1
BY SetsOfRefs, FS_AddElement

LEMMA OneLess ==
  ASSUME NEW S \in SUBSET Refs, NEW r \in S
  PROVE  /\ Cardinality(S \ {r}) = Cardinality(S) - 1
         /\ Cardinality(S) >= 1
<1>1. Cardinality(S \ {r}) = Cardinality(S) - 1
  BY SetsOfRefs, FS_RemoveElement
<1>2. Cardinality(S) # 0 /\ Cardinality(S) \in Nat
  BY SetsOfRefs, FS_EmptySet
<1>3. QED
  BY <1>1, <1>2

LEMMA ManyMore ==
  ASSUME NEW S \in SUBSET Refs, NEW N \in SUBSET Refs, S \cap N = {}
  PROVE  Cardinality(S \cup N) = Cardinality(S) + Cardinality(N)
<1>1. Cardinality(S \cup N) = Cardinality(S) + Cardinality(N) - Cardinality({})
  BY SetsOfRefs, FS_Union
<1>2. QED
  BY <1>1, SetsOfRefs, FS_EmptySet

LEMMA ManyLess ==
  ASSUME NEW S \in SUBSET Refs, NEW N \in SUBSET S
  PROVE  Cardinality(S \ N) = Cardinality(S) - Cardinality(N)
<1>1. (S \ N) \cup N = S /\ (S \ N) \cap N = {}
  OBVIOUS
<1>2. Cardinality(S) = Cardinality(S \ N) + Cardinality(N)
  BY <1>1, ManyMore
<1>3. QED
  BY <1>2, SetsOfRefs

LEMMA SetsOfThreads ==
  \A S \in SUBSET Threads :
    /\ Cardinality(S) \in Nat
    /\ \A T \in SUBSET S : Cardinality(T) \in Nat /\ Cardinality(T) <= Cardinality(S)
<1> SUFFICES ASSUME NEW S \in SUBSET Threads, NEW T \in SUBSET S
             PROVE  /\ Cardinality(S) \in Nat /\ Cardinality(T) \in Nat
                    /\ Cardinality(T) <= Cardinality(S)
  OBVIOUS
<1>1. IsFiniteSet(S)
  BY FinitenessAssumption, FS_Subset
<1>2. QED
  BY <1>1, FS_Subset, FS_CardinalityType

LEMMA OneThreadMore ==
  ASSUME NEW S \in SUBSET Threads, NEW t \in Threads \ S
  PROVE  Cardinality(S) + 1 = Cardinality(S \cup {t})
<1>1. IsFiniteSet(S)
  BY FinitenessAssumption, FS_Subset
<1>2. QED
  BY <1>1, FS_AddElement

-----------------------------------------------------------------------------
(* What Sound and Counted say of one reference *)

\* A value that exists points to live memory, whose count includes it.
LEMMA Alive ==
  ASSUME Sound, Counted, NEW r \in Refs, form[r] # "absent"
  PROVE  /\ at[r] \in Objs /\ at[r] # None
         /\ mem[at[r]] = "live"
         /\ r \in At(at[r]) /\ At(at[r]) \in SUBSET Refs
         /\ count[at[r]] = Cardinality(At(at[r]))
         /\ count[at[r]] \in Nat /\ count[at[r]] >= 1
<1>1. at[r] \in Objs /\ at[r] # None
  BY NamesAssumption DEF Sound, TypeOK, Placed
<1>2. mem[at[r]] = "live"
  BY <1>1 DEF Counted, NoDangling
<1>3. r \in At(at[r]) /\ At(at[r]) \in SUBSET Refs
  BY DEF At
<1>4. count[at[r]] = Cardinality(At(at[r]))
  BY <1>1, <1>2 DEF Counted, CountExact
<1>5. QED
  BY <1>1, <1>2, <1>3, <1>4, OneLess, SetsOfRefs

\* One that sees a count of 1 is alone.
LEMMA Alone ==
  ASSUME Sound, Counted, NEW r \in Refs, form[r] # "absent", count[at[r]] = 1
  PROVE  At(at[r]) = {r}
<1>1. /\ r \in At(at[r]) /\ At(at[r]) \in SUBSET Refs
      /\ Cardinality(At(at[r])) = 1
  BY Alive
<1>2. \E s : At(at[r]) = {s}
  BY <1>1, SetsOfRefs, FS_Singleton
<1>3. QED
  BY <1>1, <1>2

\* What nothing points to has no units, so memory that is not live has none.
LEMMA NoUnits ==
  ASSUME Sound, Counted, NEW o \in Objs, mem[o] # "live"
  PROVE  At(o) = {}
BY NamesAssumption DEF Sound, TypeOK, Counted, NoDangling, At

-----------------------------------------------------------------------------
(* The bound on the counter *)

\* A thread that is going to abort stays so until it does.
LEMMA DoomedKept ==
  ASSUME Sound, Sound', NEW t \in Threads, NEW c, Begin(t, c),
         call[t].op # "clone" \/ ~Saturated(call[t].seen),
         \A u \in Threads \ {t} :
           call[u].op = "clone" => at'[call[u].arc] = at[call[u].arc]
  PROVE  \A o \in Objs : Doomed(o) \in SUBSET Doomed(o)'
<1>1. \A u \in Threads \ {t} : call'[u] = call[u]
  BY DEF Begin, Sound, TypeOK
<1>2. QED
  BY <1>1 DEF Doomed

LEMMA NoWrapKept ==
  ASSUME Sound, Sound', NoWrap, NEW o \in Objs, count'[o] <= count[o],
         Doomed(o) \in SUBSET Doomed(o)'
  PROVE  count'[o] <= MAX_REFCOUNT + 1 + Cardinality(Doomed(o)')
<1>1. /\ Cardinality(Doomed(o)) \in Nat /\ Cardinality(Doomed(o)') \in Nat
      /\ Cardinality(Doomed(o)) <= Cardinality(Doomed(o)')
  BY SetsOfThreads DEF Doomed
<1>2. count[o] <= MAX_REFCOUNT + 1 + Cardinality(Doomed(o))
  BY DEF NoWrap
<1>3. count[o] \in Nat /\ count'[o] \in Nat
  BY DEF Sound, TypeOK, Usizes
<1>4. QED
  BY <1>1, <1>2, <1>3, Room

-----------------------------------------------------------------------------
(* Steps of a call that only look at the counter *)

LEMMA CountedCallOnly ==
  ASSUME Sound, Sound', Counted, NEW t \in Threads, NEW c, Begin(t, c),
         UNCHANGED <<heap, refs, iters>>,
         call[t].obj = None, c.obj = None,
         call[t].op # "clone" \/ ~Saturated(call[t].seen),
         c.op = "mut" => At(at[c.arc]) = {c.arc},
         c.op = "leftover" => c.seen > left[c.iter]
  PROVE  Counted'
<1>1. \A u \in Threads : call'[u] = IF u = t THEN c ELSE call[u]
  BY DEF Begin, Sound, TypeOK
<1>2. CountExact' /\ NoDangling' /\ UniqueIsSole' /\ IterBacked' /\ DeadIters'
  BY DEF Counted, CountExact, NoDangling, UniqueIsSole, IterBacked, DeadIters, At,
         Owed, heap, refs, iters
<1>3. SoleDisposer' /\ NoLeak'
  BY <1>1 DEF Counted, SoleDisposer, NoLeak, At, heap, refs
<1>4. SoleMut'
  <2>1. c.op # "drop_slow_mut"
    BY <1>1 DEF Sound, Operands
  <2>2. QED
    BY <1>1, <2>1 DEF Counted, SoleMut, At, refs
<1>5. LeftoverKeepsOne'
  BY <1>1 DEF Counted, LeftoverKeepsOne, iters
<1>6. NoWrap'
  <2>1. \A o \in Objs : Doomed(o) \in SUBSET Doomed(o)'
    BY DoomedKept DEF refs
  <2>2. \A o \in Objs : count'[o] <= count[o]
    BY DEF Sound, TypeOK, Usizes, heap
  <2>3. QED
    BY <2>1, <2>2, NoWrapKept DEF Counted, NoWrap
<1>7. QED
  BY <1>2, <1>3, <1>4, <1>5, <1>6 DEF Counted

LEMMA CountedCloneMany ==
  ASSUME Sound, Sound', Counted, NEW t \in Threads,
         \/ \E r \in Refs, n \in 0 .. MaxMany : ManyLoad(t, r, n)
         \/ ManyRetry(t)
  PROVE  Counted'
<1> USE DEF ArcCall, Frame, Idle, In
<1>1. ASSUME NEW r \in Refs, NEW n \in 0 .. MaxMany, ManyLoad(t, r, n)
      PROVE  Counted'
  <2>1. call[t].obj = None
    BY <1>1 DEF ManyLoad, Sound, Operands
  <2>2. QED
    BY <1>1, <2>1, CountedCallOnly DEF ManyLoad
<1>2. ASSUME ManyRetry(t)
      PROVE  Counted'
  <2>1. call[t].obj = None
    BY <1>2 DEF ManyRetry, Sound, Operands
  <2>2. QED
    BY <1>2, <2>1, CountedCallOnly DEF ManyRetry
<1>3. QED
  BY <1>1, <1>2

\* The count exceeds what an iterator owes: the units owed, and orig's own.
LEMMA OrigCounts ==
  ASSUME Sound, Counted, NEW i \in Iters, orig[i] # None
  PROVE  /\ at[orig[i]] \in Objs /\ orig[i] \in Refs
         /\ mem[at[orig[i]]] = "live"
         /\ count[at[orig[i]]] = Cardinality(At(at[orig[i]]))
         /\ Owed(i) \in SUBSET At(at[orig[i]])
         /\ orig[i] \in At(at[orig[i]]) \ Owed(i)
         /\ count[at[orig[i]]] > left[i]
<1>1. orig[i] \in Refs /\ form[orig[i]] = "Arc"
  BY DEF Sound, TypeOK, Placed
<1>2. /\ at[orig[i]] \in Objs /\ orig[i] \in At(at[orig[i]])
      /\ mem[at[orig[i]]] = "live"
      /\ At(at[orig[i]]) \in SUBSET Refs
      /\ count[at[orig[i]]] = Cardinality(At(at[orig[i]]))
  BY <1>1, Alive
<1>3. orig[i] \notin Owed(i)
  BY <1>1, NamesAssumption DEF Owed, Forms, Values
<1>4. Owed(i) \in SUBSET At(at[orig[i]])
  BY DEF Counted, IterBacked, Owed, At
<1>5. /\ Cardinality(At(at[orig[i]]) \ Owed(i))
           = Cardinality(At(at[orig[i]])) - Cardinality(Owed(i))
      /\ Cardinality(At(at[orig[i]]) \ Owed(i)) >= 1
  BY <1>2, <1>3, <1>4, ManyLess, OneLess
<1>6. left[i] = Cardinality(Owed(i))
  BY DEF Counted, IterBacked
<1>7. Cardinality(Owed(i)) \in Nat
  BY SetsOfRefs DEF Owed
<1>8. QED
  BY <1>1, <1>2, <1>3, <1>4, <1>5, <1>6, <1>7, SetsOfRefs

LEMMA CountedLeftoverLoad ==
  ASSUME Sound, Sound', Counted, NEW t \in Threads,
         (\E i \in Iters : IterDropLoad(t, i)) \/ LeftoverRetry(t)
  PROVE  Counted'
<1> USE DEF LeftoverCall, Frame, Idle, In
<1>1. ASSUME NEW i \in Iters, IterDropLoad(t, i)
      PROVE  Counted'
  <2>1. call[t].obj = None
    BY <1>1 DEF IterDropLoad, Sound, Operands
  <2>2. count[at[orig[i]]] > left[i]
    BY <1>1, OrigCounts DEF IterDropLoad
  <2>3. QED
    BY <1>1, <2>1, <2>2, CountedCallOnly DEF IterDropLoad
<1>2. ASSUME LeftoverRetry(t)
      PROVE  Counted'
  <2>1. call[t].obj = None /\ call[t].iter \in Iters /\ orig[call[t].iter] # None
    BY <1>2 DEF LeftoverRetry, Sound, TypeOK, Operands
  <2>2. count[at[orig[call[t].iter]]] > left[call[t].iter]
    BY <2>1, OrigCounts
  <2>3. QED
    BY <1>2, <2>1, <2>2, CountedCallOnly DEF LeftoverRetry
<1>3. QED
  BY <1>1, <1>2

LEMMA CountedAccess ==
  ASSUME Sound, Sound', Counted, NEW t \in Threads,
         \/ \E r \in Refs : \/ ReadBegin(t, r) \/ GetMut(t, r)
                            \/ DerefMut(t, r) \/ MakeMut(t, r)
         \/ ReadEnd(t) \/ CopyPanics(t)
  PROVE  Counted'
<1> USE DEF ArcCall, NoCall, Frame, Idle, In, Return
<1>1. ASSUME NEW r \in Refs, CanOwn(r), form[r] = "Arc", IsUnique(count[at[r]])
      PROVE  At(at[r]) = {r}
  BY <1>1, Alone DEF IsUnique
<1>2. ASSUME NEW r \in Refs, ReadBegin(t, r)
      PROVE  Counted'
  <2>1. call[t].obj = None
    BY <1>2 DEF ReadBegin, Sound, Operands
  <2>2. QED
    BY <1>2, <2>1, CountedCallOnly DEF ReadBegin
<1>3. ASSUME NEW r \in Refs, GetMut(t, r)
      PROVE  Counted'
  <2>1. call[t].obj = None
    BY <1>3 DEF GetMut, Sound, Operands
  <2>2. QED
    BY <1>1, <1>3, <2>1, CountedCallOnly DEF GetMut
<1>4. ASSUME NEW r \in Refs, DerefMut(t, r)
      PROVE  Counted'
  <2>1. call[t].obj = None
    BY <1>4 DEF DerefMut, Sound, Operands
  <2>2. At(at[r]) = {r}
    BY <1>4 DEF DerefMut, Counted, UniqueIsSole
  <2>3. QED
    BY <1>4, <2>1, <2>2, CountedCallOnly DEF DerefMut
<1>5. ASSUME NEW r \in Refs, MakeMut(t, r)
      PROVE  Counted'
  <2>1. call[t].obj = None
    BY <1>5 DEF MakeMut, Sound, Operands
  <2>2. CASE IsUnique(count[at[r]])
    BY <1>1, <1>5, <2>1, <2>2, CountedCallOnly DEF MakeMut
  <2>3. CASE ~IsUnique(count[at[r]])
    BY <1>5, <2>1, <2>3, CountedCallOnly DEF MakeMut
  <2>4. QED
    BY <2>2, <2>3
<1>6. ASSUME ReadEnd(t) \/ CopyPanics(t)
      PROVE  Counted'
  <2>1. call[t].obj = None
    BY <1>6 DEF ReadEnd, CopyPanics, Sound, Operands
  <2>2. QED
    BY <1>6, <2>1, CountedCallOnly DEF ReadEnd, CopyPanics
<1>7. QED
  BY <1>2, <1>3, <1>4, <1>5, <1>6

-----------------------------------------------------------------------------
(* Steps that change what stands for a unit, but no count *)

LEMMA CountedSameUnits ==
  ASSUME Counted, UNCHANGED <<mem, count, at, call>>,
         UniqueIsSole', IterBacked', DeadIters', LeftoverKeepsOne'
  PROVE  Counted'
BY DEF Counted, CountExact, NoDangling, SoleDisposer, NoLeak, SoleMut, NoWrap,
       Doomed, At

LEMMA CountedCloneReturn ==
  ASSUME Sound, Sound', Counted, NEW t \in Threads, NEW n \in Refs,
         CloneReturn(t, n)
  PROVE  Counted'
<1>1. /\ UNCHANGED <<heap, at, iters>> /\ Return(t)
      /\ form' = [form EXCEPT ![n] = "Arc"] /\ form[n] = t
      /\ call[t].op = "clone" /\ ~Saturated(call[t].seen)
  BY DEF CloneReturn, In
<1>2. /\ \A u \in Threads : call'[u] = IF u = t THEN NoCall ELSE call[u]
      /\ call[t].obj = None /\ call[t].iter = None
      /\ NoCall.op = "idle" /\ NoCall.obj = None /\ NoCall.iter = None
  BY <1>1 DEF Return, Begin, Sound, TypeOK, Operands, NoCall, Frame
<1>3. CountExact' /\ NoDangling' /\ DeadIters'
  BY <1>1 DEF Counted, CountExact, NoDangling, DeadIters, At, heap, iters
<1>4. SoleDisposer' /\ NoLeak' /\ SoleMut' /\ LeftoverKeepsOne'
  BY <1>1, <1>2 DEF Counted, SoleDisposer, NoLeak, SoleMut, LeftoverKeepsOne, At,
                    heap, iters
<1>5. UniqueIsSole'
  BY <1>1 DEF Counted, UniqueIsSole, At, Sound, TypeOK
<1>6. IterBacked'
  <2>1. \A i \in Iters : Owed(i)' = Owed(i)
    BY <1>1, NamesAssumption DEF Owed, Sound, TypeOK, Forms, Values
  <2>2. QED
    BY <1>1, <2>1 DEF Counted, IterBacked, iters
<1>7. NoWrap'
  <2>1. \A o \in Objs : Doomed(o) \in SUBSET Doomed(o)'
    BY <1>1, DoomedKept DEF Return
  <2>2. \A o \in Objs : count'[o] <= count[o]
    BY <1>1 DEF Sound, TypeOK, Usizes, heap
  <2>3. QED
    BY <2>1, <2>2, NoWrapKept DEF Counted, NoWrap
<1>8. QED
  BY <1>3, <1>4, <1>5, <1>6, <1>7 DEF Counted

LEMMA CountedIterNext ==
  ASSUME Sound, Sound', Counted, NEW t \in Threads, NEW i \in Iters,
         NEW r \in Refs, IterNext(t, i, r)
  PROVE  Counted'
<1>1. /\ UNCHANGED <<heap, at, orig, call>> /\ ~InUse(i) /\ orig[i] # None
      /\ left[i] > 0 /\ left' = [left EXCEPT ![i] = @ - 1]
      /\ form[r] = i /\ form' = [form EXCEPT ![r] = "Arc"]
  BY DEF IterNext
<1>2. UniqueIsSole'
  BY <1>1 DEF Counted, UniqueIsSole, At, Sound, TypeOK
<1>3. IterBacked'
  <2>1. Owed(i)' = Owed(i) \ {r} /\ r \in Owed(i)
    BY <1>1, NamesAssumption DEF Owed, Sound, TypeOK, Forms, Values
  <2>2. Cardinality(Owed(i)') = Cardinality(Owed(i)) - 1
    <3>1. Owed(i) \in SUBSET Refs
      BY DEF Owed
    <3>2. QED
      BY <2>1, <3>1, OneLess
  <2>3. \A j \in Iters \ {i} : Owed(j)' = Owed(j) /\ left'[j] = left[j]
    BY <1>1, NamesAssumption DEF Owed, Sound, TypeOK, Forms, Values
  <2>4. left'[i] = left[i] - 1
    BY <1>1 DEF Sound, TypeOK
  <2>5. QED
    BY SMTT(60), <1>1, <2>1, <2>2, <2>3, <2>4 DEF Counted, IterBacked
<1>4. DeadIters'
  BY <1>1 DEF Counted, DeadIters, Sound, TypeOK
<1>5. LeftoverKeepsOne'
  <2>1. \A u \in Threads : call[u].op = "leftover" => call[u].iter \in Iters \ {i}
    BY <1>1 DEF InUse, Sound, TypeOK, Operands
  <2>2. QED
    BY <1>1, <2>1 DEF Counted, LeftoverKeepsOne, Sound, TypeOK
<1>6. QED
  BY <1>1, <1>2, <1>3, <1>4, <1>5, CountedSameUnits DEF heap

LEMMA CountedForgetIter ==
  ASSUME Sound, Sound', Counted, NEW t \in Threads, NEW i \in Iters,
         ForgetIter(t, i) \/ IterDropEmpty(t, i)
  PROVE  Counted'
<1>1. /\ UNCHANGED <<heap, at, call>> /\ ~InUse(i)
      /\ orig' = [orig EXCEPT ![i] = None]
      /\ left' = [left EXCEPT ![i] = 0]
      /\ \A r \in Refs : form'[r] = IF form[r] = i THEN "forgotten" ELSE form[r]
  <2>1. CASE ForgetIter(t, i)
    BY <2>1 DEF ForgetIter
  <2>2. CASE IterDropEmpty(t, i)
    <3>1. left[i] = 0 /\ UNCHANGED <<heap, refs, left, call>> /\ ~InUse(i)
          /\ orig' = [orig EXCEPT ![i] = None]
      BY <2>2 DEF IterDropEmpty
    <3>2. Owed(i) = {}
      <4>1. Cardinality(Owed(i)) = 0
        BY <3>1 DEF Counted, IterBacked
      <4>2. Owed(i) \in SUBSET Refs
        BY DEF Owed
      <4>3. QED
        BY <4>1, <4>2, SetsOfRefs, FS_EmptySet
    <3>3. \A r \in Refs : form[r] # i
      BY <3>2 DEF Owed
    <3>4. QED
      BY <3>1, <3>3 DEF refs, Sound, TypeOK
  <2>3. QED
    BY <2>1, <2>2
<1>2. UniqueIsSole'
  BY <1>1 DEF Counted, UniqueIsSole, At
<1>3. IterBacked'
  <2>1. Owed(i)' = {}
    BY <1>1, NamesAssumption DEF Owed, Forms
  <2>2. \A j \in Iters \ {i} :
          Owed(j)' = Owed(j) /\ left'[j] = left[j] /\ orig'[j] = orig[j]
    BY <1>1, NamesAssumption DEF Owed, Sound, TypeOK, Forms
  <2>3. orig'[i] = None /\ left'[i] = 0
    BY <1>1 DEF Sound, TypeOK
  <2>4. \A j \in Iters \ {i} : orig[j] # None => at'[orig[j]] = at[orig[j]]
    BY <1>1
  <2>5. QED
    BY <1>1, <2>1, <2>2, <2>3, <2>4, FS_EmptySet DEF Counted, IterBacked
<1>4. DeadIters'
  BY <1>1 DEF Counted, DeadIters, Sound, TypeOK
<1>5. LeftoverKeepsOne'
  <2>1. \A u \in Threads : call[u].op = "leftover" => call[u].iter \in Iters \ {i}
    BY <1>1 DEF InUse, Sound, TypeOK, Operands
  <2>2. QED
    BY <1>1, <2>1 DEF Counted, LeftoverKeepsOne, Sound, TypeOK
<1>6. QED
  BY <1>1, <1>2, <1>3, <1>4, <1>5, CountedSameUnits DEF heap

LEMMA CountedConvert ==
  ASSUME Sound, Sound', Counted, NEW t \in Threads, NEW r \in Refs,
         Forget(t, r) \/ TryUnique(t, r) \/ Shareable(t, r)
  PROVE  Counted'
<1>1. /\ UNCHANGED <<heap, at, iters, call>> /\ CanOwn(r)
      /\ form[r] \in Values
      /\ \A s \in Refs \ {r} : form'[s] = form[s]
      /\ form'[r] \in Forms
      /\ form'[r] = "UniqueArc" => IsUnique(count[at[r]])
  BY DEF Forget, TryUnique, Shareable, CanOwn, Sound, TypeOK, Forms, Values
<1>2. UniqueIsSole'
  <2>1. form'[r] = "UniqueArc" => At(at[r]) = {r}
    BY <1>1, Alone DEF IsUnique, Values
  <2>2. QED
    BY <1>1, <2>1 DEF Counted, UniqueIsSole, At
<1>3. IterBacked'
  <2>1. \A i \in Iters : Owed(i)' = Owed(i)
    BY <1>1, NamesAssumption DEF Owed, Forms, Values
  <2>2. QED
    BY <1>1, <2>1 DEF Counted, IterBacked, iters
<1>4. DeadIters' /\ LeftoverKeepsOne'
  BY <1>1 DEF Counted, DeadIters, LeftoverKeepsOne, iters
<1>5. QED
  BY <1>1, <1>2, <1>3, <1>4, CountedSameUnits DEF heap

-----------------------------------------------------------------------------
(* Steps that add units *)

LEMMA CountedNew ==
  ASSUME Sound, Sound', Counted, NEW t \in Threads, NEW r \in Refs,
         NEW o \in Objs, NEW f \in Values, NEW v \in Vals, New(t, r, o, f, v)
  PROVE  Counted'
<1>1. /\ form[r] = "absent" /\ at[r] = None /\ mem[o] = "free"
      /\ \A p \in Objs : /\ mem'[p] = IF p = o THEN "live" ELSE mem[p]
                         /\ count'[p] = IF p = o THEN 1 ELSE count[p]
      /\ \A s \in Refs : /\ at'[s] = IF s = r THEN o ELSE at[s]
                         /\ form'[s] = IF s = r THEN f ELSE form[s]
      /\ UNCHANGED <<iters, call>>
  BY DEF New, Fresh, Sound, TypeOK, Placed
<1>2. At(o) = {}
  BY <1>1, NoUnits
<1>3. /\ At(o)' = {r}
      /\ \A p \in Objs \ {o} : At(p)' = At(p)
  BY <1>1, <1>2, NamesAssumption DEF At
<1>4. CountExact'
  <2>1. count'[o] = 1 /\ Cardinality(At(o)') = 1
    BY <1>1, <1>3, FS_Singleton
  <2>2. \A p \in Objs \ {o} :
          mem'[p] = mem[p] /\ count'[p] = count[p] /\ At(p)' = At(p)
    BY <1>1, <1>3
  <2>3. QED
    BY <2>1, <2>2 DEF Counted, CountExact
<1>5. NoDangling'
  BY <1>1 DEF Counted, NoDangling, Sound, TypeOK
<1>6. SoleDisposer' /\ NoLeak'
  <2>1. \A u \in Threads : call[u].obj # None => call[u].obj \in Objs \ {o}
    BY <1>1 DEF Counted, SoleDisposer, Sound, TypeOK
  <2>2. SoleDisposer'
    BY <1>1, <1>3, <2>1 DEF Counted, SoleDisposer
  <2>3. NoLeak'
    BY <1>1, <1>3 DEF Counted, NoLeak
  <2>4. QED
    BY <2>2, <2>3
<1>7. \A s \in Refs : form[s] # "absent" => at[s] \in Objs \ {o} /\ s # r
  BY <1>1, Alive
<1>8. SoleMut'
  <2>1. \A u \in Threads : call[u].op \in {"mut", "drop_slow_mut"} =>
          call[u].arc \in Refs /\ form[call[u].arc] # "absent"
    BY DEF Sound, TypeOK, Operands, Values
  <2>2. QED
    BY <1>1, <1>3, <1>7, <2>1 DEF Counted, SoleMut
<1>9. UniqueIsSole'
  BY <1>1, <1>3, <1>7 DEF Counted, UniqueIsSole
<1>10. IterBacked'
  <2>1. \A i \in Iters : Owed(i)' = Owed(i)
    BY <1>1, NamesAssumption DEF Owed, Forms, Values
  <2>2. \A i \in Iters : orig[i] # None => at'[orig[i]] = at[orig[i]]
    BY <1>1, OrigCounts DEF Sound, Placed
  <2>3. \A i \in Iters : r \notin Owed(i)
    BY <1>1, NamesAssumption DEF Owed, Forms
  <2>4. QED
    BY <1>1, <2>1, <2>2, <2>3 DEF Counted, IterBacked, iters, Owed
<1>11. DeadIters' /\ LeftoverKeepsOne'
  BY <1>1 DEF Counted, DeadIters, LeftoverKeepsOne, iters
<1>12. NoWrap'
  <2>1. \A p \in Objs : Doomed(p) \in SUBSET Doomed(p)'
    <3>1. \A u \in Threads : call[u].op = "clone" => call[u].arc \in Refs \ {r}
      BY <1>1 DEF Sound, TypeOK, Operands
    <3>2. QED
      BY <1>1, <3>1 DEF Doomed
  <2>2. \A p \in Objs : Cardinality(Doomed(p)') \in Nat
    BY SetsOfThreads DEF Doomed
  <2>3. count'[o] <= MAX_REFCOUNT + 1 + Cardinality(Doomed(o)')
    BY <1>1, <2>2, Room
  <2>4. \A p \in Objs \ {o} : count'[p] <= count[p]
    BY <1>1 DEF Sound, TypeOK, Usizes
  <2>5. QED
    BY <2>1, <2>3, <2>4, NoWrapKept DEF Counted, NoWrap
<1>13. QED
  BY <1>4, <1>5, <1>6, <1>8, <1>9, <1>10, <1>11, <1>12 DEF Counted

\* The fetch_add of clone does not wrap: the thread that makes it is not yet
\* one of those that are going to abort.
LEMMA CloneAddExact ==
  ASSUME Sound, Counted, NEW t \in Threads, NEW o \in Objs, call[t].op = "idle"
  PROVE  /\ Cardinality(Doomed(o)) \in Nat
         /\ Cardinality(Doomed(o)) + 1 <= Cardinality(Threads)
         /\ count[o] \in Nat
         /\ count[o] <= MAX_REFCOUNT + 1 + Cardinality(Doomed(o))
         /\ Wrap(count[o] + 1) = count[o] + 1
<1>1. Doomed(o) \in SUBSET Threads /\ t \in Threads \ Doomed(o)
  BY DEF Doomed
<1>2. /\ Cardinality(Doomed(o)) + 1 = Cardinality(Doomed(o) \cup {t})
      /\ Cardinality(Doomed(o)) \in Nat
      /\ Cardinality(Doomed(o) \cup {t}) <= Cardinality(Threads)
  BY <1>1, OneThreadMore, SetsOfThreads
<1>3. /\ count[o] \in Nat
      /\ count[o] <= MAX_REFCOUNT + 1 + Cardinality(Doomed(o))
  BY DEF Counted, NoWrap, Sound, TypeOK, Usizes
<1>4. count[o] + 1 <= UsizeMax
  BY <1>2, <1>3, Room, CounterAssumption
<1>5. Wrap(count[o] + 1) = count[o] + 1
  BY <1>3, <1>4, Room DEF Wrap
<1>6. QED
  BY <1>2, <1>3, <1>5

LEMMA CountedCloneAdd ==
  ASSUME Sound, Sound', Counted, NEW t \in Threads, NEW r \in Refs,
         NEW n \in Refs, CloneAdd(t, r, n)
  PROVE  Counted'
<1>0. PICK o \in Objs : o = at[r]
  BY Alive DEF CloneAdd, CanShare, Values
<1> DEFINE c == ArcCall("clone", r, count[o], 0)
<1>1. /\ CanShare(r) /\ form[r] = "Arc" /\ form[n] = "absent" /\ at[n] = None
      /\ call[t].op = "idle" /\ call[t].obj = None
      /\ mem[o] = "live" /\ r \in At(o)
  BY <1>0, Alive DEF CloneAdd, Idle, Fresh, Sound, Placed, Operands, TypeOK
<1>2. /\ \A p \in Objs : count'[p] = IF p = o THEN count[o] + 1 ELSE count[p]
      /\ \A s \in Refs : /\ at'[s] = IF s = n THEN o ELSE at[s]
                         /\ form'[s] = IF s = n THEN t ELSE form[s]
      /\ \A u \in Threads : call'[u] = IF u = t THEN c ELSE call[u]
      /\ UNCHANGED <<mem, iters>> /\ Begin(t, c)
  BY <1>0, <1>1, CloneAddExact DEF CloneAdd, Begin, Sound, TypeOK
<1>3. c.op = "clone" /\ c.arc = r /\ c.obj = None /\ c.iter = None
      /\ c.seen = count[o]
  BY DEF ArcCall, Frame
<1>4. /\ At(o)' = At(o) \cup {n} /\ n \in Refs \ At(o) /\ At(o) \in SUBSET Refs
      /\ \A p \in Objs \ {o} : At(p)' = At(p)
  BY <1>1, <1>2, NamesAssumption DEF At
<1>5. CountExact'
  BY <1>2, <1>4, OneMore DEF Counted, CountExact
<1>6. NoDangling'
  BY <1>1, <1>2 DEF Counted, NoDangling
<1>7. SoleDisposer' /\ NoLeak'
  <2>1. \A u \in Threads : call[u].obj # None => call[u].obj \in Objs \ {o}
    BY <1>1 DEF Counted, SoleDisposer, Sound, TypeOK
  <2>2. SoleDisposer'
    BY <1>1, <1>2, <1>3, <1>4, <2>1 DEF Counted, SoleDisposer
  <2>3. NoLeak'
    <3>1. At(o)' # {}
      BY <1>4
    <3>2. \A p \in Objs : p # None
      BY NamesAssumption
    <3>3. QED
      BY <1>1, <1>2, <1>4, <3>1, <3>2 DEF Counted, NoLeak
  <2>4. QED
    BY <2>2, <2>3
<1>8. SoleMut'
  <2>1. ASSUME NEW u \in Threads, call[u].op \in {"mut", "drop_slow_mut"}
        PROVE  /\ call[u].arc \in Refs \ {n} /\ at[call[u].arc] \in Objs \ {o}
    <3>1. call[u].arc \in Refs /\ form[call[u].arc] # "absent"
      BY <2>1 DEF Sound, TypeOK, Operands, Values
    <3>2. call[u].arc # r
      BY <1>1, <2>1 DEF CanShare, ExclusiveOps
    <3>3. QED
      BY <1>1, <2>1, <3>1, <3>2, Alive DEF Counted, SoleMut
  <2>2. QED
    BY <1>2, <1>3, <1>4, <2>1 DEF Counted, SoleMut
<1>9. UniqueIsSole'
  <2>1. ASSUME NEW s \in Refs, form[s] = "UniqueArc"
        PROVE  s # n /\ at[s] \in Objs \ {o}
    BY <1>1, <2>1, Alive DEF Counted, UniqueIsSole
  <2>2. t # "UniqueArc"
    BY NamesAssumption DEF Forms, Values
  <2>3. QED
    BY <1>2, <1>4, <2>1, <2>2 DEF Counted, UniqueIsSole
<1>10. IterBacked'
  <2>1. \A i \in Iters : Owed(i)' = Owed(i) /\ n \notin Owed(i)
    BY <1>1, <1>2, NamesAssumption DEF Owed, Forms
  <2>2. \A i \in Iters : orig[i] # None => at'[orig[i]] = at[orig[i]]
    BY <1>1, <1>2, OrigCounts DEF Sound, Placed
  <2>3. QED
    BY <1>2, <2>1, <2>2 DEF Counted, IterBacked, iters, Owed
<1>11. DeadIters' /\ LeftoverKeepsOne'
  BY <1>2, <1>3 DEF Counted, DeadIters, LeftoverKeepsOne, iters
<1>12. NoWrap'
  <2>1. \A p \in Objs : Doomed(p) \in SUBSET Doomed(p)'
    <3>1. \A u \in Threads : call[u].op = "clone" => call[u].arc \in Refs \ {n}
      BY <1>1 DEF Sound, TypeOK, Operands
    <3>2. QED
      BY <1>1, <1>2, <3>1, DoomedKept
  <2>2. \A p \in Objs \ {o} : count'[p] <= count[p]
    BY <1>2 DEF Sound, TypeOK, Usizes
  <2>3. count'[o] <= MAX_REFCOUNT + 1 + Cardinality(Doomed(o)')
    <3>1. CASE Saturated(count[o])
      <4>1. Doomed(o) \cup {t} \in SUBSET Doomed(o)'
        BY <1>0, <1>1, <1>2, <1>3, <2>1, <3>1 DEF Doomed
      <4>2. Doomed(o)' \in SUBSET Threads /\ Doomed(o) \in SUBSET Threads
            /\ t \notin Doomed(o)
        BY <1>1 DEF Doomed
      <4>3. /\ Cardinality(Doomed(o) \cup {t}) = Cardinality(Doomed(o)) + 1
            /\ Cardinality(Doomed(o) \cup {t}) <= Cardinality(Doomed(o)')
            /\ Cardinality(Doomed(o)') \in Nat
        BY <4>1, <4>2, OneThreadMore, SetsOfThreads
      <4>4. count'[o] = count[o] + 1
        BY <1>1, <1>2
      <4>5. QED
        BY <1>1, <4>3, <4>4, CloneAddExact, Room
    <3>2. CASE ~Saturated(count[o])
      <4>1. Cardinality(Doomed(o)') \in Nat
        BY SetsOfThreads DEF Doomed
      <4>2. QED
        BY <1>1, <1>2, <3>2, <4>1, CloneAddExact, Room DEF Saturated
    <3>3. QED
      BY <3>1, <3>2
  <2>4. ASSUME NEW p \in Objs \ {o}
        PROVE  count'[p] <= MAX_REFCOUNT + 1 + Cardinality(Doomed(p)')
    BY <2>1, <2>2, NoWrapKept DEF Counted
  <2>5. QED
    BY <2>3, <2>4 DEF NoWrap
<1>13. QED
  BY <1>5, <1>6, <1>7, <1>8, <1>9, <1>10, <1>11, <1>12 DEF Counted

LEMMA CountedManyCommit ==
  ASSUME Sound, Sound', Counted, NEW t \in Threads, NEW i \in Iters,
         NEW N \in SUBSET Refs, ManyCommit(t, i, N)
  PROVE  Counted'
<1>0. PICK r \in Refs, o \in Objs :
        r = call[t].arc /\ o = at[r] /\ form[r] = "Arc" /\ mem[o] = "live" /\ r \in At(o)
  <2>1. call[t].arc \in Refs /\ form[call[t].arc] = "Arc"
    BY DEF ManyCommit, In, Sound, TypeOK, Operands
  <2>2. QED
    BY <2>1, Alive
<1> DEFINE n == call[t].many
<1>1. /\ call[t].op = "clone_many" /\ call[t].obj = None /\ orig[i] = None
      /\ count[o] = call[t].seen /\ ~TooMany(count[o], n)
      /\ Cardinality(N) = n /\ n \in Nat
      /\ \A s \in N : form[s] = "absent" /\ at[s] = None
  BY <1>0 DEF ManyCommit, In, Fresh, Sound, TypeOK, Operands, Placed
<1>2. /\ \A p \in Objs : count'[p] = IF p = o THEN count[o] + n ELSE count[p]
      /\ \A s \in Refs : /\ at'[s] = IF s \in N THEN o ELSE at[s]
                         /\ form'[s] = IF s \in N THEN i ELSE form[s]
      /\ \A j \in Iters : /\ orig'[j] = IF j = i THEN r ELSE orig[j]
                          /\ left'[j] = IF j = i THEN n ELSE left[j]
      /\ \A u \in Threads : call'[u] = IF u = t THEN NoCall ELSE call[u]
      /\ UNCHANGED mem /\ Begin(t, NoCall)
  BY <1>0, <1>1 DEF ManyCommit, Return, Begin, Sound, TypeOK, Raised
<1>3. /\ NoCall.op = "idle" /\ NoCall.obj = None /\ NoCall.iter = None
      /\ NoCall.arc = None
  BY DEF NoCall, Frame
<1>4. /\ At(o)' = At(o) \cup N /\ At(o) \cap N = {} /\ At(o) \in SUBSET Refs
      /\ \A p \in Objs \ {o} : At(p)' = At(p)
  BY <1>1, <1>2, NamesAssumption DEF At
<1>5. CountExact'
  <2>1. mem[o] = "live" => count'[o] = Cardinality(At(o)')
    BY <1>1, <1>2, <1>4, ManyMore DEF Counted, CountExact
  <2>2. QED
    BY <1>2, <1>4, <2>1 DEF Counted, CountExact
<1>6. NoDangling'
  BY <1>0, <1>2 DEF Counted, NoDangling
<1>7. SoleDisposer' /\ NoLeak'
  <2>1. \A u \in Threads : call[u].obj # None => call[u].obj \in Objs \ {o}
    BY <1>0 DEF Counted, SoleDisposer, Sound, TypeOK
  <2>2. SoleDisposer'
    BY <1>1, <1>2, <1>3, <1>4, <2>1 DEF Counted, SoleDisposer
  <2>3. At(o)' # {}
    BY <1>0, <1>4
  <2>4. \A p \in Objs : p # None
    BY NamesAssumption
  <2>5. NoLeak'
    BY <1>1, <1>2, <1>4, <2>3, <2>4 DEF Counted, NoLeak
  <2>6. QED
    BY <2>2, <2>5
<1>8. SoleMut'
  <2>1. ASSUME NEW u \in Threads, call[u].op \in {"mut", "drop_slow_mut"}
        PROVE  /\ call[u].arc \in Refs \ N /\ at[call[u].arc] \in Objs \ {o}
    <3>1. call[u].arc \in Refs /\ form[call[u].arc] # "absent"
      BY <2>1 DEF Sound, TypeOK, Operands, Values
    <3>2. call[u].arc # r
      BY <1>0, <1>1, <2>1 DEF Sound, Exclusive, ExclusiveOps
    <3>3. QED
      BY <1>0, <1>1, <2>1, <3>1, <3>2, Alive DEF Counted, SoleMut
  <2>2. QED
    BY <1>2, <1>3, <1>4, <2>1 DEF Counted, SoleMut
<1>9. UniqueIsSole'
  <2>1. ASSUME NEW s \in Refs, form[s] = "UniqueArc"
        PROVE  s \notin N /\ at[s] \in Objs \ {o}
    BY <1>0, <1>1, <2>1, Alive DEF Counted, UniqueIsSole
  <2>2. i # "UniqueArc"
    BY NamesAssumption DEF Forms, Values
  <2>3. QED
    BY <1>2, <1>4, <2>1, <2>2 DEF Counted, UniqueIsSole
<1>10. IterBacked'
  <2>1. Owed(i) = {}
    <3>1. Cardinality(Owed(i)) = 0 /\ Owed(i) \in SUBSET Refs
      BY <1>1 DEF Counted, IterBacked, DeadIters, Owed
    <3>2. QED
      BY <3>1, SetsOfRefs, FS_EmptySet
  <2>2. Owed(i)' = N
    BY <1>2, <2>1 DEF Owed
  <2>3. \A j \in Iters \ {i} : Owed(j)' = Owed(j) /\ \A s \in Owed(j) : s \notin N
    BY <1>1, <1>2, NamesAssumption DEF Owed, Forms
  <2>4. \A j \in Iters : orig[j] # None => orig[j] \in Refs \ N
    BY <1>1, OrigCounts DEF Sound, Placed
  <2>5. r \notin N
    BY <1>0, <1>1
  <2>6. \A s \in Owed(i)' : at'[s] = at'[orig'[i]]
    BY <1>0, <1>2, <2>2, <2>5
  <2>7. ASSUME NEW j \in Iters \ {i}
        PROVE  /\ orig'[j] # None => \A s \in Owed(j)' : at'[s] = at'[orig'[j]]
               /\ left'[j] = Cardinality(Owed(j)')
    BY <1>2, <2>3, <2>4 DEF Counted, IterBacked, Owed
  <2>8. left'[i] = Cardinality(Owed(i)')
    BY <1>1, <1>2, <2>2
  <2>9. QED
    BY <2>6, <2>7, <2>8 DEF IterBacked
<1>11. DeadIters'
  BY <1>0, <1>2, NamesAssumption DEF Counted, DeadIters
<1>12. LeftoverKeepsOne'
  <2>1. \A u \in Threads : call[u].op = "leftover" => call[u].iter \in Iters \ {i}
    BY <1>1 DEF Sound, TypeOK, Operands
  <2>2. QED
    BY <1>2, <1>3, <2>1 DEF Counted, LeftoverKeepsOne
<1>13. NoWrap'
  <2>1. \A p \in Objs : Doomed(p) \in SUBSET Doomed(p)'
    <3>1. \A u \in Threads : call[u].op = "clone" => call[u].arc \in Refs \ N
      BY <1>1 DEF Sound, TypeOK, Operands
    <3>2. QED
      BY <1>1, <1>2, <3>1, DoomedKept
  <2>2. \A p \in Objs \ {o} : count'[p] <= count[p]
    BY <1>2 DEF Sound, TypeOK, Usizes
  <2>3. count'[o] <= MAX_REFCOUNT + 1 + Cardinality(Doomed(o)')
    <3>1. Cardinality(Doomed(o)') \in Nat
      BY SetsOfThreads DEF Doomed
    <3>2. count'[o] <= MAX_REFCOUNT /\ count'[o] \in Nat
      BY <1>1, <1>2, Room DEF TooMany, Sound, TypeOK, Usizes
    <3>3. QED
      BY <3>1, <3>2, Room
  <2>4. ASSUME NEW p \in Objs \ {o}
        PROVE  count'[p] <= MAX_REFCOUNT + 1 + Cardinality(Doomed(p)')
    BY <2>1, <2>2, NoWrapKept DEF Counted
  <2>5. QED
    BY <2>3, <2>4 DEF NoWrap
<1>14. QED
  BY <1>5, <1>6, <1>7, <1>8, <1>9, <1>10, <1>11, <1>12, <1>13 DEF Counted

-----------------------------------------------------------------------------
(* Steps that take units away *)

LEMMA CountedDropSub ==
  ASSUME Sound, Sound', Counted, NEW t \in Threads, NEW r \in Refs, DropSub(t, r)
  PROVE  Counted'
<1>0. PICK o \in Objs : o = at[r] /\ mem[o] = "live" /\ r \in At(o)
  BY Alive DEF DropSub, CanOwn, Values
<1> DEFINE c == DropSlowCall("drop_slow", None, o)
<1>1. /\ CanOwn(r) /\ form[r] \in Values
      /\ call[t].op = "idle" /\ call[t].obj = None
      /\ At(o) \in SUBSET Refs
  BY DEF DropSub, Idle, CanOwn, Sound, Operands, At
<1>2. count[o] = Cardinality(At(o)) /\ count[o] \in Nat /\ count[o] >= 1
  BY <1>0, <1>1, Alive DEF Values
<1>3. Wrap(count[o] - 1) = count[o] - 1
  BY <1>2, Room DEF Wrap, Sound, TypeOK, Usizes
<1>4. /\ \A p \in Objs : count'[p] = IF p = o THEN count[o] - 1 ELSE count[p]
      /\ \A s \in Refs : /\ at'[s] = IF s = r THEN None ELSE at[s]
                         /\ form'[s] = IF s = r THEN "absent" ELSE form[s]
      /\ \A u \in Threads :
           call'[u] = IF u = t /\ count[o] = 1 THEN c ELSE call[u]
      /\ UNCHANGED <<mem, iters>>
  BY <1>0, <1>3 DEF DropSub, IsLast, Begin, Sound, TypeOK
<1>5. c.op = "drop_slow" /\ c.obj = o /\ c.iter = None /\ c.arc = None
  BY DEF DropSlowCall, Frame
<1>6. /\ At(o)' = At(o) \ {r}
      /\ \A p \in Objs \ {o} : At(p)' = At(p)
  BY <1>0, <1>4, NamesAssumption DEF At
<1>7. CountExact'
  <2>1. count'[o] = Cardinality(At(o)')
    BY <1>0, <1>1, <1>2, <1>4, <1>6, OneLess
  <2>2. QED
    BY <1>4, <1>6, <2>1 DEF Counted, CountExact
<1>8. NoDangling'
  BY <1>4 DEF Counted, NoDangling
<1>9. count[o] = 1 <=> At(o)' = {}
  <2>1. Cardinality(At(o) \ {r}) = count[o] - 1 /\ At(o) \ {r} \in SUBSET Refs
    BY <1>0, <1>1, <1>2, OneLess
  <2>2. Cardinality(At(o) \ {r}) = 0 <=> At(o) \ {r} = {}
    BY <2>1, SetsOfRefs, FS_EmptySet
  <2>3. QED
    BY <1>2, <1>6, <2>1, <2>2
<1>10. \A u \in Threads : call[u].obj # None => call[u].obj \in Objs \ {o}
  BY <1>0 DEF Counted, SoleDisposer, Sound, TypeOK
<1>11. SoleDisposer'
  <2>1. ASSUME NEW u \in Threads, call'[u].obj # None, u # t \/ count[o] # 1
        PROVE  /\ call'[u].obj \in Objs \ {o} /\ call[u].obj = call'[u].obj
               /\ mem'[call'[u].obj] = "live" /\ At(call[u].obj)' = {}
    BY <1>4, <1>6, <1>10, <2>1 DEF Counted, SoleDisposer
  <2>2. ASSUME NEW u \in Threads, call'[u].obj # None
        PROVE  mem'[call'[u].obj] = "live" /\ At(call[u].obj)' = {}
    <3>1. CASE u = t /\ count[o] = 1
      BY <1>0, <1>4, <1>5, <1>9, <3>1
    <3>2. CASE u # t \/ count[o] # 1
      BY <2>1, <2>2, <3>2 DEF At
    <3>3. QED
      BY <3>1, <3>2
  <2>3. ASSUME NEW u \in Threads, NEW w \in Threads \ {u}, call'[u].obj # None
        PROVE  call'[w].obj # call'[u].obj
    <3>1. call[t].obj = None
      BY <1>1
    <3>2. CASE count[o] = 1 /\ u = t
      BY <1>4, <1>5, <1>10, <2>3, <3>2, NamesAssumption
    <3>3. CASE count[o] = 1 /\ w = t
      BY <1>4, <1>5, <1>10, <2>3, <3>3
    <3>4. CASE count[o] # 1 \/ (u # t /\ w # t)
      BY <1>4, <2>3, <3>4 DEF Counted, SoleDisposer
    <3>5. QED
      BY <3>2, <3>3, <3>4
  <2>4. QED
    BY <2>2, <2>3 DEF SoleDisposer
<1>12. NoLeak'
  <2>1. ASSUME NEW p \in Objs, mem'[p] = "live", At(p)' = {}
        PROVE  \E u \in Threads : call'[u].obj = p
    <3>1. CASE p = o
      BY <1>4, <1>5, <1>9, <2>1, <3>1
    <3>2. CASE p # o
      <4>1. PICK u \in Threads : call[u].obj = p
        BY <1>4, <1>6, <2>1, <3>2 DEF Counted, NoLeak
      <4>2. u # t
        BY <1>1, <4>1, NamesAssumption
      <4>3. QED
        BY <1>4, <4>1, <4>2
    <3>3. QED
      BY <3>1, <3>2
  <2>2. QED
    BY <2>1 DEF NoLeak
<1>13. SoleMut'
  <2>1. ASSUME NEW u \in Threads, call[u].op \in {"mut", "drop_slow_mut"}
        PROVE  call[u].arc \in Refs \ {r} /\ at[call[u].arc] \in Objs \ {o}
    <3>1. call[u].arc \in Refs /\ form[call[u].arc] # "absent"
      BY <2>1 DEF Sound, TypeOK, Operands, Values
    <3>2. call[u].arc # r
      BY <1>1 DEF CanOwn
    <3>3. QED
      BY <1>0, <2>1, <3>1, <3>2, Alive DEF Counted, SoleMut
  <2>2. QED
    BY <1>4, <1>5, <1>6, <2>1 DEF Counted, SoleMut
<1>14. UniqueIsSole'
  <2>1. ASSUME NEW s \in Refs \ {r}, form[s] = "UniqueArc"
        PROVE  at[s] \in Objs \ {o}
    BY <1>0, <2>1, Alive DEF Counted, UniqueIsSole
  <2>2. QED
    BY <1>4, <1>6, <2>1 DEF Counted, UniqueIsSole
<1>15. IterBacked'
  <2>1. \A i \in Iters : Owed(i)' = Owed(i) /\ r \notin Owed(i)
    BY <1>1, <1>4, NamesAssumption DEF Owed, Forms, Values
  <2>2. \A i \in Iters : orig[i] # None => orig[i] \in Refs \ {r}
    BY <1>1, OrigCounts DEF CanOwn
  <2>3. QED
    BY <1>4, <2>1, <2>2 DEF Counted, IterBacked, iters, Owed
<1>16. DeadIters' /\ LeftoverKeepsOne'
  BY <1>4, <1>5 DEF Counted, DeadIters, LeftoverKeepsOne, iters
<1>17. NoWrap'
  <2>1. \A p \in Objs : Doomed(p) \in SUBSET Doomed(p)'
    <3>1. \A u \in Threads : call[u].op = "clone" => call[u].arc \in Refs \ {r} /\ u # t
      BY <1>1 DEF CanOwn, Sound, TypeOK, Operands
    <3>2. QED
      BY <1>4, <3>1 DEF Doomed
  <2>2. \A p \in Objs : count'[p] <= count[p]
    BY <1>4 DEF Sound, TypeOK, Usizes
  <2>3. QED
    BY <2>1, <2>2, NoWrapKept DEF Counted, NoWrap
<1>18. QED
  BY <1>7, <1>8, <1>11, <1>12, <1>13, <1>14, <1>15, <1>16, <1>17 DEF Counted

\* The count ends up at what it was, less what the iterator still owed.
LEMMA CountedLeftoverCommit ==
  ASSUME Sound, Sound', Counted, NEW t \in Threads, LeftoverCommit(t)
  PROVE  Counted'
<1>0. PICK i \in Iters, r \in Refs, o \in Objs :
        i = call[t].iter /\ r = orig[i] /\ o = at[r] /\ mem[o] = "live"
  <2>1. call[t].iter \in Iters /\ orig[call[t].iter] # None
    BY DEF LeftoverCommit, In, Sound, TypeOK, Operands
  <2>2. QED
    BY <2>1, OrigCounts
<1> DEFINE S == Owed(i)
<1>1. /\ call[t].op = "leftover" /\ call[t].obj = None /\ call[t].arc \in Refs \cup {None}
      /\ left[i] = Cardinality(S) /\ left[i] \in Nat
      /\ S \in SUBSET At(o) /\ r \in At(o) \ S /\ At(o) \in SUBSET Refs
      /\ count[o] = Cardinality(At(o)) /\ count[o] > left[i]
  <2>1. call[t].op = "leftover" /\ call[t].obj = None /\ call[t].arc \in Refs \cup {None}
    BY DEF LeftoverCommit, In, Sound, TypeOK, Operands
  <2>2. left[i] = Cardinality(S) /\ left[i] \in Nat
    BY DEF Counted, IterBacked, Sound, TypeOK, Usizes
  <2>3. orig[i] # None
    BY <1>0, <2>1 DEF Sound, Operands
  <2>4. At(o) \in SUBSET Refs
    BY DEF At
  <2>5. QED
    BY <1>0, <2>1, <2>2, <2>3, <2>4, OrigCounts
<1>2. ~Underflows(call[t].seen, left[i]) /\ count[o] = call[t].seen
  BY <1>0, <1>1
     DEF LeftoverCommit, Counted, LeftoverKeepsOne, Underflows, Sound, TypeOK, Usizes
<1>3. /\ \A p \in Objs : count'[p] = IF p = o THEN count[o] - left[i] ELSE count[p]
      /\ \A s \in Refs : /\ at'[s] = IF s \in S THEN None ELSE at[s]
                         /\ form'[s] = IF s \in S THEN "absent" ELSE form[s]
      /\ \A j \in Iters : /\ orig'[j] = IF j = i THEN None ELSE orig[j]
                          /\ left'[j] = IF j = i THEN 0 ELSE left[j]
      /\ \A u \in Threads : call'[u] = IF u = t THEN NoCall ELSE call[u]
      /\ UNCHANGED mem /\ Begin(t, NoCall)
  BY <1>0, <1>2 DEF LeftoverCommit, Return, Begin, Sound, TypeOK, Lowered, Owed
<1>4. /\ NoCall.op = "idle" /\ NoCall.obj = None /\ NoCall.iter = None
      /\ NoCall.arc = None
  BY DEF NoCall, Frame
<1>5. /\ At(o)' = At(o) \ S
      /\ \A p \in Objs \ {o} : At(p)' = At(p)
  <2>1. None \notin Objs
    BY NamesAssumption
  <2>2. \A s \in Refs : at'[s] = IF s \in S THEN None ELSE at[s]
    BY <1>3
  <2>3. At(o)' = At(o) \ S
    BY <2>1, <2>2 DEF At
  <2>4. \A s \in S : at[s] = o
    BY <1>1 DEF At
  <2>5. ASSUME NEW p \in Objs \ {o}
        PROVE  At(p)' = At(p)
    BY <2>1, <2>2, <2>4 DEF At
  <2>6. QED
    BY <2>3, <2>5
<1>6. \A s \in S : form[s] = i /\ form[s] \notin Forms
  BY NamesAssumption DEF Owed
<1>7. CountExact'
  <2>1. count'[o] = Cardinality(At(o)')
    BY <1>1, <1>3, <1>5, ManyLess
  <2>2. QED
    BY SMTT(60), <1>3, <1>5, <2>1 DEF Counted, CountExact
<1>8. NoDangling'
  BY <1>3 DEF Counted, NoDangling
<1>9. SoleDisposer' /\ NoLeak'
  <2>1. \A u \in Threads : call[u].obj # None => call[u].obj \in Objs \ {o}
    BY <1>0, <1>1 DEF Counted, SoleDisposer, Sound, TypeOK
  <2>2. SoleDisposer'
    BY SMTT(60), <1>1, <1>3, <1>4, <1>5, <2>1 DEF Counted, SoleDisposer
  <2>3. At(o)' # {}
    BY <1>1, <1>5
  <2>4. \A p \in Objs : p # None
    BY NamesAssumption
  <2>5. NoLeak'
    BY <1>1, <1>3, <1>5, <2>3, <2>4 DEF Counted, NoLeak
  <2>6. QED
    BY <2>2, <2>5
<1>10. SoleMut'
  <2>1. ASSUME NEW u \in Threads, call[u].op \in {"mut", "drop_slow_mut"}
        PROVE  call[u].arc \in Refs \ S /\ at[call[u].arc] \in Objs \ {o}
    <3>1. /\ call[u].arc \in Refs /\ form[call[u].arc] # "absent"
          /\ form[call[u].arc] \in Forms
      BY <2>1 DEF Sound, TypeOK, Operands, Values, Forms
    <3>2. call[u].arc # r
      BY <1>0, <2>1 DEF Sound, Exclusive, ExclusiveOps
    <3>3. QED
      BY <1>1, <1>6, <2>1, <3>1, <3>2, Alive DEF Counted, SoleMut
  <2>2. QED
    BY <1>3, <1>4, <1>5, <2>1 DEF Counted, SoleMut
<1>11. UniqueIsSole'
  <2>1. ASSUME NEW s \in Refs, form[s] = "UniqueArc"
        PROVE  s \notin S /\ at[s] \in Objs \ {o}
    <3>1. form[r] = "Arc"
      BY <1>0, NamesAssumption DEF Sound, Placed
    <3>2. QED
      BY <1>1, <1>6, <2>1, <3>1, Alive DEF Counted, UniqueIsSole, Forms, Values
  <2>2. QED
    BY <1>3, <1>5, <2>1 DEF Counted, UniqueIsSole
<1>12. IterBacked'
  <2>1. Owed(i)' = {} /\ left'[i] = 0 /\ orig'[i] = None
    BY <1>3, NamesAssumption DEF Owed, Forms
  <2>2. \A j \in Iters \ {i} : Owed(j)' = Owed(j) /\ \A s \in Owed(j) : s \notin S
    BY <1>3, NamesAssumption DEF Owed, Forms
  <2>3. \A j \in Iters : orig[j] # None => orig[j] \in Refs \ S
    BY <1>6, OrigCounts DEF Sound, Placed, Forms, Values
  <2>4. ASSUME NEW j \in Iters \ {i}
        PROVE  /\ orig'[j] # None => \A s \in Owed(j)' : at'[s] = at'[orig'[j]]
               /\ left'[j] = Cardinality(Owed(j)')
    BY <1>3, <2>2, <2>3 DEF Counted, IterBacked, Owed
  <2>5. QED
    BY <2>1, <2>4, FS_EmptySet DEF IterBacked
<1>13. DeadIters'
  BY <1>3 DEF Counted, DeadIters
<1>14. LeftoverKeepsOne'
  <2>1. \A u \in Threads \ {t} : call[u].iter # i
    BY <1>0, NamesAssumption DEF Sound, Exclusive
  <2>2. \A u \in Threads : call[u].op = "leftover" => call[u].iter \in Iters
    BY DEF Sound, TypeOK, Operands
  <2>3. QED
    BY <1>3, <1>4, <2>1, <2>2 DEF Counted, LeftoverKeepsOne
<1>15. NoWrap'
  <2>1. \A p \in Objs : Doomed(p) \in SUBSET Doomed(p)'
    <3>1. \A u \in Threads : call[u].op = "clone" => call[u].arc \in Refs \ S
      BY <1>6 DEF Sound, TypeOK, Operands, Forms, Values
    <3>2. QED
      BY <1>1, <1>3, <3>1, DoomedKept
  <2>2. \A p \in Objs : count'[p] <= count[p]
    BY <1>1, <1>3 DEF Sound, TypeOK, Usizes
  <2>3. QED
    BY <2>1, <2>2, NoWrapKept DEF Counted, NoWrap
<1>16. QED
  BY <1>7, <1>8, <1>9, <1>10, <1>11, <1>12, <1>13, <1>14, <1>15 DEF Counted

LEMMA CountedIntoInner ==
  ASSUME Sound, Sound', Counted, NEW t \in Threads, NEW r \in Refs, IntoInner(t, r)
  PROVE  Counted'
<1>0. PICK o \in Objs : o = at[r] /\ mem[o] = "live" /\ At(o) = {r}
  BY Alive DEF IntoInner, CanOwn, Values, Counted, UniqueIsSole
<1>1. /\ CanOwn(r) /\ form[r] = "UniqueArc"
      /\ \A p \in Objs : /\ mem'[p] = IF p = o THEN "free" ELSE mem[p]
                         /\ count'[p] = IF p = o THEN 0 ELSE count[p]
      /\ \A s \in Refs : /\ at'[s] = IF s = r THEN None ELSE at[s]
                         /\ form'[s] = IF s = r THEN "absent" ELSE form[s]
      /\ UNCHANGED <<iters, call>>
  BY <1>0 DEF IntoInner, Sound, TypeOK
<1>2. /\ At(o)' = {}
      /\ \A p \in Objs \ {o} : At(p)' = At(p)
  BY <1>0, <1>1, NamesAssumption DEF At
<1>3. \A s \in Refs \ {r} : form[s] # "absent" => at[s] \in Objs \ {o}
  BY <1>0, Alive
<1>4. \A s \in Refs : at[s] # None => at[s] \in Objs
  BY DEF Sound, TypeOK
<1>5. CountExact'
  BY <1>1, <1>2 DEF Counted, CountExact
<1>6. NoDangling'
  BY <1>0, <1>1, <1>4 DEF Counted, NoDangling, At
<1>7. SoleDisposer' /\ NoLeak'
  <2>1. \A u \in Threads : call[u].obj # None => call[u].obj \in Objs \ {o}
    BY <1>0 DEF Counted, SoleDisposer, Sound, TypeOK
  <2>2. SoleDisposer'
    BY <1>1, <1>2, <2>1 DEF Counted, SoleDisposer
  <2>3. NoLeak'
    BY <1>1, <1>2 DEF Counted, NoLeak
  <2>4. QED
    BY <2>2, <2>3
<1>8. SoleMut'
  <2>1. ASSUME NEW u \in Threads, call[u].op \in {"mut", "drop_slow_mut"}
        PROVE  call[u].arc \in Refs \ {r} /\ form[call[u].arc] # "absent"
    BY <1>1, <2>1 DEF CanOwn, Sound, TypeOK, Operands, Values
  <2>2. QED
    BY <1>1, <1>2, <1>3, <2>1 DEF Counted, SoleMut
<1>9. UniqueIsSole'
  BY <1>1, <1>2, <1>3 DEF Counted, UniqueIsSole
<1>10. IterBacked'
  <2>1. \A i \in Iters : Owed(i)' = Owed(i) /\ r \notin Owed(i)
    BY <1>1, NamesAssumption DEF Owed, Forms, Values
  <2>2. \A i \in Iters : orig[i] # None => orig[i] \in Refs \ {r}
    BY <1>1, OrigCounts DEF CanOwn
  <2>3. QED
    BY <1>1, <2>1, <2>2 DEF Counted, IterBacked, iters, Owed
<1>11. DeadIters' /\ LeftoverKeepsOne'
  BY <1>1 DEF Counted, DeadIters, LeftoverKeepsOne, iters
<1>12. NoWrap'
  <2>1. \A p \in Objs : Doomed(p) \in SUBSET Doomed(p)'
    <3>1. \A u \in Threads : call[u].op = "clone" => call[u].arc \in Refs \ {r}
      BY <1>1 DEF CanOwn, Sound, TypeOK, Operands
    <3>2. QED
      BY <1>1, <3>1 DEF Doomed
  <2>2. \A p \in Objs : count'[p] <= count[p]
    BY <1>1 DEF Sound, TypeOK, Usizes
  <2>3. QED
    BY <2>1, <2>2, NoWrapKept DEF Counted, NoWrap
<1>13. QED
  BY <1>5, <1>6, <1>7, <1>8, <1>9, <1>10, <1>11, <1>12 DEF Counted

\* make_mut drops one reference to the shared allocation, possibly the last
\* by now, and makes the first one to the copy.
LEMMA CountedReplace ==
  ASSUME Sound, Sound', Counted, NEW t \in Threads, NEW o \in Objs, Replace(t, o)
  PROVE  Counted'
<1>0. PICK r \in Refs, q \in Objs :
        /\ r = call[t].arc /\ q = at[r] /\ mem[q] = "live" /\ form[r] = "Arc"
        /\ r \in At(q) /\ count[q] = Cardinality(At(q)) /\ count[q] \in Nat
        /\ count[q] >= 1
  <2>1. call[t].arc \in Refs /\ form[call[t].arc] = "Arc"
    BY DEF Replace, In, Sound, TypeOK, Operands
  <2>2. QED
    BY <2>1, Alive
<1> DEFINE c == IF count[q] = 1 THEN DropSlowCall("drop_slow_mut", r, q)
                                ELSE ArcCall("mut", r, 0, 0)
<1>1. /\ call[t].op = "copy" /\ call[t].obj = None
      /\ mem[o] = "free" /\ o # q /\ At(q) \in SUBSET Refs
      /\ Wrap(count[q] - 1) = count[q] - 1
  <2>1. call[t].op = "copy" /\ call[t].obj = None
    BY DEF Replace, In, Sound, Operands
  <2>2. mem[o] = "free" /\ o # q /\ At(q) \in SUBSET Refs
    BY <1>0 DEF Replace, At
  <2>3. count[q] - 1 \in 0 .. UsizeMax
    BY <1>0, Room DEF Sound, TypeOK, Usizes
  <2>4. Wrap(count[q] - 1) = count[q] - 1
    BY <2>3, Room DEF Wrap
  <2>5. QED
    BY <2>1, <2>2, <2>4
<1>2. /\ \A p \in Objs : mem'[p] = IF p = o THEN "live" ELSE mem[p]
      /\ \A p \in Objs : count'[p] = IF p = o THEN 1
                                     ELSE IF p = q THEN count[q] - 1 ELSE count[p]
      /\ \A s \in Refs : at'[s] = IF s = r THEN o ELSE at[s]
      /\ \A u \in Threads : call'[u] = IF u = t THEN c ELSE call[u]
      /\ UNCHANGED <<form, iters>>
  BY <1>0, <1>1 DEF Replace, IsLast, Begin, Sound, TypeOK
<1>3. /\ c.arc = r /\ c.iter = None
      /\ count[q] = 1 => c.op = "drop_slow_mut" /\ c.obj = q
      /\ count[q] # 1 => c.op = "mut" /\ c.obj = None
  BY DEF DropSlowCall, ArcCall, Frame
<1>4. At(o) = {}
  BY <1>1, NoUnits
<1>5. /\ At(o)' = {r} /\ At(q)' = At(q) \ {r}
      /\ \A p \in Objs \ {o, q} : At(p)' = At(p)
  BY <1>0, <1>1, <1>2, <1>4 DEF At
<1>6. CountExact'
  <2>1. count'[o] = 1 /\ Cardinality(At(o)') = 1
    BY <1>2, <1>5, FS_Singleton
  <2>2. count'[q] = Cardinality(At(q)')
    BY <1>0, <1>1, <1>2, <1>5, OneLess
  <2>3. \A p \in Objs \ {o, q} : mem'[p] = "live" => count'[p] = Cardinality(At(p)')
    BY <1>2, <1>5 DEF Counted, CountExact
  <2>4. QED
    BY <2>1, <2>2, <2>3 DEF CountExact
<1>7. NoDangling'
  BY <1>2 DEF Counted, NoDangling, Sound, TypeOK
<1>8. count[q] = 1 <=> At(q)' = {}
  <2>1. Cardinality(At(q) \ {r}) = count[q] - 1 /\ At(q) \ {r} \in SUBSET Refs
    BY <1>0, <1>1, OneLess
  <2>2. Cardinality(At(q) \ {r}) = 0 <=> At(q) \ {r} = {}
    BY <2>1, SetsOfRefs, FS_EmptySet
  <2>3. QED
    BY <1>0, <1>5, <2>1, <2>2
<1>9. \A u \in Threads : call[u].obj # None => call[u].obj \in Objs \ {o, q}
  BY <1>0, <1>1 DEF Counted, SoleDisposer, Sound, TypeOK
<1>10. SoleDisposer'
  <2>1. ASSUME NEW u \in Threads, NEW p \in Objs, call'[u].obj = p
        PROVE  mem'[p] = "live" /\ At(p)' = {}
    <3>1. CASE u = t
      BY <1>0, <1>1, <1>2, <1>3, <1>8, <2>1, <3>1, NamesAssumption
    <3>2. CASE u # t
      <4>1. call[u].obj = p /\ p \in Objs \ {o, q}
        BY <1>2, <1>9, <2>1, <3>2, NamesAssumption
      <4>2. mem[p] = "live" /\ At(p) = {}
        BY <4>1, NamesAssumption DEF Counted, SoleDisposer
      <4>3. QED
        BY <1>2, <1>5, <4>1, <4>2
    <3>3. QED
      BY <3>1, <3>2
  <2>2. ASSUME NEW u \in Threads, NEW w \in Threads \ {u}, call'[u].obj # None
        PROVE  call'[w].obj # call'[u].obj
    <3>1. CASE u = t
      BY <1>2, <1>3, <1>9, <2>2, <3>1
    <3>2. CASE w = t
      BY <1>2, <1>3, <1>9, <2>2, <3>2
    <3>3. CASE u # t /\ w # t
      BY <1>2, <2>2, <3>3 DEF Counted, SoleDisposer
    <3>4. QED
      BY <3>1, <3>2, <3>3
  <2>3. \A u \in Threads : call'[u].obj # None => call'[u].obj \in Objs
    BY DEF Sound, TypeOK
  <2>4. QED
    BY <2>1, <2>2, <2>3 DEF SoleDisposer
<1>11. NoLeak'
  <2>1. ASSUME NEW p \in Objs, mem'[p] = "live", At(p)' = {}
        PROVE  \E u \in Threads : call'[u].obj = p
    <3>1. p # o
      BY <1>5, <2>1
    <3>2. CASE p = q
      BY <1>2, <1>3, <1>8, <2>1, <3>2
    <3>3. CASE p # q
      <4>1. PICK u \in Threads : call[u].obj = p
        BY <1>2, <1>5, <2>1, <3>1, <3>3 DEF Counted, NoLeak
      <4>2. u # t
        BY <1>1, <4>1, NamesAssumption
      <4>3. QED
        BY <1>2, <4>1, <4>2
    <3>4. QED
      BY <3>2, <3>3
  <2>2. QED
    BY <2>1 DEF NoLeak
<1>12. \A s \in Refs \ {r} : form[s] # "absent" => at[s] \in Objs \ {o}
  BY <1>1, Alive
<1>13. SoleMut'
  <2>1. ASSUME NEW u \in Threads \ {t}, call[u].op \in {"mut", "drop_slow_mut"}
        PROVE  call[u].arc \in Refs \ {r} /\ at[call[u].arc] \in Objs \ {o, q}
    <3>1. call[u].arc \in Refs /\ form[call[u].arc] # "absent"
      BY <2>1 DEF Sound, TypeOK, Operands, Values
    <3>2. call[u].arc # r
      BY <1>0, <1>1, <2>1 DEF Sound, Exclusive, ExclusiveOps
    <3>3. at[call[u].arc] # q
      BY <1>0, <2>1, <3>2 DEF Counted, SoleMut
    <3>4. QED
      BY <1>12, <3>1, <3>2, <3>3
  <2>2. QED
    BY <1>2, <1>3, <1>5, <2>1 DEF Counted, SoleMut
<1>14. UniqueIsSole'
  <2>1. ASSUME NEW s \in Refs, form[s] = "UniqueArc"
        PROVE  s # r /\ at[s] \in Objs \ {o, q}
    BY <1>0, <1>12, <2>1 DEF Counted, UniqueIsSole
  <2>2. QED
    BY <1>2, <1>5, <2>1 DEF Counted, UniqueIsSole
<1>15. IterBacked'
  <2>1. \A i \in Iters : Owed(i)' = Owed(i) /\ r \notin Owed(i)
    BY <1>0, <1>2, NamesAssumption DEF Owed, Forms, Values
  <2>2. \A i \in Iters : orig[i] # None => orig[i] \in Refs \ {r}
    BY <1>0, <1>1, OrigCounts DEF Sound, Exclusive, ExclusiveOps
  <2>3. QED
    BY <1>2, <2>1, <2>2 DEF Counted, IterBacked, iters, Owed
<1>16. DeadIters' /\ LeftoverKeepsOne'
  BY <1>2, <1>3 DEF Counted, DeadIters, LeftoverKeepsOne, iters
<1>17. NoWrap'
  <2>1. \A p \in Objs : Doomed(p) \in SUBSET Doomed(p)'
    <3>1. \A u \in Threads :
            call[u].op = "clone" => call[u].arc \in Refs \ {r} /\ u # t
      BY <1>0, <1>1 DEF Sound, TypeOK, Operands, Exclusive, ExclusiveOps
    <3>2. QED
      BY <1>2, <3>1 DEF Doomed
  <2>2. \A p \in Objs \ {o} : count'[p] <= count[p]
    BY <1>2 DEF Sound, TypeOK, Usizes
  <2>3. count'[o] <= MAX_REFCOUNT + 1 + Cardinality(Doomed(o)')
    <3>1. Cardinality(Doomed(o)') \in Nat
      BY SetsOfThreads DEF Doomed
    <3>2. QED
      BY <1>2, <3>1, Room
  <2>4. ASSUME NEW p \in Objs \ {o}
        PROVE  count'[p] <= MAX_REFCOUNT + 1 + Cardinality(Doomed(p)')
    BY <2>1, <2>2, NoWrapKept DEF Counted
  <2>5. QED
    BY <2>3, <2>4 DEF NoWrap
<1>18. QED
  BY <1>6, <1>7, <1>10, <1>11, <1>13, <1>14, <1>15, <1>16, <1>17 DEF Counted

-----------------------------------------------------------------------------
(* Disposal *)

LEMMA CountedDropSlow ==
  ASSUME Sound, Sound', Counted, NEW t \in Threads, DropSlow(t)
  PROVE  Counted'
<1>0. PICK o \in Objs : o = call[t].obj /\ mem[o] = "live" /\ At(o) = {}
  BY DEF DropSlow, Sound, TypeOK, Operands, Counted, SoleDisposer
<1> DEFINE c == IF call[t].op = "drop_slow" THEN NoCall
                                            ELSE ArcCall("mut", call[t].arc, 0, 0)
<1>1. /\ call[t].op \in {"drop_slow", "drop_slow_mut"}
      /\ \A p \in Objs : mem'[p] = IF p = o THEN "boxed" ELSE mem[p]
      /\ \A u \in Threads : call'[u] = IF u = t THEN c ELSE call[u]
      /\ UNCHANGED <<count, val, refs, iters>> /\ Begin(t, c)
  BY <1>0 DEF DropSlow, Return, Begin, Sound, TypeOK
<1>2. /\ c.obj = None /\ c.iter = None /\ c.op \in {"idle", "mut"}
      /\ c.op = "mut" => call[t].op = "drop_slow_mut" /\ c.arc = call[t].arc
  BY <1>1 DEF NoCall, ArcCall, Frame
<1>3. CountExact' /\ UniqueIsSole' /\ IterBacked' /\ DeadIters'
  BY <1>1 DEF Counted, CountExact, UniqueIsSole, IterBacked, DeadIters, At, Owed,
              refs, iters
<1>4. NoDangling'
  BY <1>0, <1>1 DEF Counted, NoDangling, At, refs, Sound, TypeOK
<1>5. SoleDisposer'
  <2>1. ASSUME NEW u \in Threads \ {t}, call[u].obj # None
        PROVE  call[u].obj \in Objs \ {o}
    BY <1>0, <2>1, NamesAssumption DEF Counted, SoleDisposer, Sound, TypeOK
  <2>2. QED
    BY <1>1, <1>2, <2>1 DEF Counted, SoleDisposer, At, refs
<1>6. NoLeak'
  BY <1>0, <1>1 DEF Counted, NoLeak, At, refs
<1>7. SoleMut'
  BY <1>1, <1>2 DEF Counted, SoleMut, At, refs
<1>8. LeftoverKeepsOne'
  BY <1>1, <1>2 DEF Counted, LeftoverKeepsOne, iters
<1>9. NoWrap'
  <2>1. \A p \in Objs : Doomed(p) \in SUBSET Doomed(p)'
    BY <1>1, DoomedKept DEF refs
  <2>2. \A p \in Objs : count'[p] <= count[p]
    BY <1>1 DEF Sound, TypeOK, Usizes
  <2>3. QED
    BY <2>1, <2>2, NoWrapKept DEF Counted, NoWrap
<1>10. QED
  BY <1>3, <1>4, <1>5, <1>6, <1>7, <1>8, <1>9 DEF Counted

LEMMA CountedStrategyDrops ==
  ASSUME Sound, Sound', Counted, NEW o \in Objs, StrategyDrops(o)
  PROVE  Counted'
<1>1. /\ mem[o] = "boxed"
      /\ \A p \in Objs : mem'[p] = IF p = o THEN "free" ELSE mem[p]
      /\ \A p \in Objs : count'[p] = IF p = o THEN 0 ELSE count[p]
      /\ UNCHANGED <<refs, iters, call>>
  BY DEF StrategyDrops, Sound, TypeOK
<1>2. CountExact' /\ UniqueIsSole' /\ IterBacked' /\ DeadIters'
  BY <1>1 DEF Counted, CountExact, UniqueIsSole, IterBacked, DeadIters, At, Owed,
              refs, iters
<1>3. NoDangling' /\ SoleDisposer' /\ NoLeak' /\ SoleMut' /\ LeftoverKeepsOne'
  BY <1>1 DEF Counted, NoDangling, SoleDisposer, NoLeak, SoleMut, LeftoverKeepsOne,
              At, refs, iters, Sound, TypeOK
<1>4. NoWrap'
  <2>1. \A p \in Objs : Doomed(p) \in SUBSET Doomed(p)'
    BY <1>1 DEF Doomed, refs
  <2>2. \A p \in Objs : count'[p] <= count[p]
    BY <1>1 DEF Sound, TypeOK, Usizes
  <2>3. QED
    BY <2>1, <2>2, NoWrapKept DEF Counted, NoWrap
<1>5. QED
  BY <1>2, <1>3, <1>4 DEF Counted

\* The program writes to the contents; no count is involved.
LEMMA CountedMutate ==
  ASSUME Sound, Sound', Counted, NEW t \in Threads, NEW v \in Vals, Mutate(t, v)
  PROVE  Counted'
<1>1. /\ call[t].op = "mut" /\ UNCHANGED <<mem, count, refs, iters>>
      /\ \A u \in Threads : call'[u] = IF u = t THEN NoCall ELSE call[u]
      /\ Begin(t, NoCall)
  BY DEF Mutate, In, Return, Begin, Sound, TypeOK
<1>2. /\ call[t].obj = None /\ NoCall.op = "idle" /\ NoCall.obj = None
  BY <1>1 DEF Sound, Operands, NoCall, Frame
<1>3. CountExact' /\ NoDangling' /\ UniqueIsSole' /\ IterBacked' /\ DeadIters'
  BY <1>1 DEF Counted, CountExact, NoDangling, UniqueIsSole, IterBacked, DeadIters,
              At, Owed, refs, iters
<1>4. SoleDisposer' /\ NoLeak' /\ SoleMut' /\ LeftoverKeepsOne'
  BY <1>1, <1>2 DEF Counted, SoleDisposer, NoLeak, SoleMut, LeftoverKeepsOne, At,
                    refs, iters
<1>5. NoWrap'
  <2>1. \A p \in Objs : Doomed(p) \in SUBSET Doomed(p)'
    BY <1>1, DoomedKept DEF refs
  <2>2. \A p \in Objs : count'[p] <= count[p]
    BY <1>1 DEF Sound, TypeOK, Usizes
  <2>3. QED
    BY <2>1, <2>2, NoWrapKept DEF Counted, NoWrap
<1>6. QED
  BY <1>3, <1>4, <1>5 DEF Counted

-----------------------------------------------------------------------------
(* The invariant *)

LEMMA CountedInit == Init => Counted
<1> SUFFICES ASSUME Init
             PROVE  Counted
  OBVIOUS
<1>1. /\ \A o \in Objs : mem[o] = "free" /\ count[o] = 0
      /\ \A r \in Refs : at[r] = None /\ form[r] = "absent"
      /\ \A i \in Iters : orig[i] = None /\ left[i] = 0
      /\ \A t \in Threads : call[t].op = "idle" /\ call[t].obj = None
  BY DEF Init, NoCall, Frame
<1>2. CountExact /\ NoDangling /\ SoleDisposer /\ NoLeak /\ SoleMut
        /\ UniqueIsSole /\ DeadIters /\ LeftoverKeepsOne
  BY <1>1 DEF CountExact, NoDangling, SoleDisposer, NoLeak, SoleMut, UniqueIsSole,
              DeadIters, LeftoverKeepsOne
<1>3. IterBacked
  <2>1. \A i \in Iters : Owed(i) = {}
    BY <1>1, NamesAssumption DEF Owed, Forms
  <2>2. QED
    BY <1>1, <2>1, FS_EmptySet DEF IterBacked
<1>4. NoWrap
  <2>1. \A o \in Objs : Cardinality(Doomed(o)) \in Nat
    BY SetsOfThreads DEF Doomed
  <2>2. QED
    BY <1>1, <2>1, Room DEF NoWrap
<1>5. QED
  BY <1>2, <1>3, <1>4 DEF Counted

LEMMA CountedNext == Sound /\ Sound' /\ Counted /\ [Next]_vars => Counted'
<1> SUFFICES ASSUME Sound, Sound', Counted, [Next]_vars
             PROVE  Counted'
  OBVIOUS
<1>1. ASSUME UNCHANGED <<mem, count, at, form, orig, left, call>>
      PROVE  Counted'
  BY <1>1 DEF Counted, CountExact, NoDangling, SoleDisposer, NoLeak, SoleMut,
              UniqueIsSole, IterBacked, DeadIters, LeftoverKeepsOne, NoWrap,
              Doomed, At, Owed
<1>2. ASSUME NEW t \in Threads, Calls(t)
      PROVE  Counted'
  BY <1>2, CountedNew, CountedCloneAdd, CountedCloneMany, CountedIterNext,
     CountedForgetIter, CountedLeftoverLoad, CountedDropSub, CountedConvert,
     CountedAccess, CountedIntoInner
     DEF Calls
<1>3. ASSUME NEW t \in Threads, Steps(t)
      PROVE  Counted'
  <2>1. CASE CloneAbort(t) \/ ManyAbort(t)
    BY <1>1, <2>1 DEF CloneAbort, ManyAbort, Abort, heap, refs, iters
  <2>2. QED
    BY <1>3, <2>1, CountedCloneReturn, CountedCloneMany, CountedManyCommit,
       CountedLeftoverLoad, CountedLeftoverCommit, CountedDropSlow
       DEF Steps
<1>4. ASSUME NEW t \in Threads, UserSteps(t)
      PROVE  Counted'
  <2>1. CASE CopyAborts(t)
    BY <1>1, <2>1 DEF CopyAborts, Abort, heap, refs, iters
  <2>2. QED
    BY <1>4, <2>1, CountedAccess, CountedMutate, CountedReplace DEF UserSteps
<1>5. CASE UNCHANGED vars
  BY <1>1, <1>5 DEF vars
<1>6. QED
  BY <1>2, <1>3, <1>4, <1>5, CountedStrategyDrops DEF Next

LEMMA Invariant == SafeSpec => [](Sound /\ Counted)
BY SoundInit, CountedInit, SoundNext, CountedNext, PTL DEF SafeSpec

-----------------------------------------------------------------------------
(* What it establishes *)

\* ArcInner::count is the number of references at every moment, in-flight
\* clones and reserved clones included, with any number of threads.
THEOREM CountIsExact == SafeSpec => []CountExact
BY Invariant, PTL DEF Counted

\* No Arc, UniqueArc, forgotten value or owed clone points to memory that was
\* handed to a strategy, moved out of or freed.
THEOREM NothingDangles == SafeSpec => []NoDangling
BY Invariant, PTL DEF Counted

\* drop_slow is entered for memory that is still there, by one thread, and
\* with no reference left.
THEOREM DisposedOnce == SafeSpec => []SoleDisposer
BY Invariant, PTL DEF Counted

\* Memory that lost its last reference always has a thread in drop_slow.
THEOREM NothingLeaks == SafeSpec => []NoLeak
BY Invariant, PTL DEF Counted

\* into_inner and DerefMut for UniqueArc may do without the counter.
THEOREM UniqueArcIsSole == SafeSpec => []UniqueIsSole
BY Invariant, PTL DEF Counted

\* arcs_left is the number of counted references the iterator has to give.
THEOREM IteratorsAreBacked == SafeSpec => []IterBacked
BY Invariant, PTL DEF Counted

\* Dropping an iterator early never underflows and never reaches zero.
THEOREM LeftoverNeverLast == SafeSpec => []LeftoverKeepsOne
BY Invariant, PTL DEF Counted

\* The counter never wraps round, if there are fewer threads than there is
\* room between isize::MAX and usize::MAX.
THEOREM CounterNeverWraps == SafeSpec => []NoWrap
BY Invariant, PTL DEF Counted

\* The &mut T of get_mut, make_mut and UniqueArc is the only way to the T.
THEOREM MutIsExclusive == SafeSpec => []ExclusiveMut
<1>1. Sound /\ Counted => ExclusiveMut
  <2> SUFFICES ASSUME Sound, Counted, NEW t \in Threads, call[t].op = "mut"
               PROVE  /\ At(at[call[t].arc]) = {call[t].arc}
                      /\ \A u \in Threads \ {t} :
                           call[u].op \in {"read", "copy", "mut"} =>
                             at[call[u].arc] # at[call[t].arc]
    BY DEF ExclusiveMut
  <2>1. At(at[call[t].arc]) = {call[t].arc}
    BY DEF Counted, SoleMut
  <2>2. ASSUME NEW u \in Threads \ {t}, call[u].op \in {"read", "copy", "mut"},
               at[call[u].arc] = at[call[t].arc]
        PROVE  FALSE
    <3>1. call[u].arc \in Refs
      BY <2>2 DEF Sound, TypeOK, Operands
    <3>2. call[u].arc = call[t].arc
      BY <2>1, <2>2, <3>1 DEF At
    <3>3. QED
      BY <3>2 DEF Sound, Exclusive, ExclusiveOps
  <2>3. QED
    BY <2>1, <2>2
<1>2. QED
  BY <1>1, Invariant, PTL

\* An owner's contents change by its own writes only.
THEOREM ContentsAreStable == SafeSpec => ValueStable
<1> DEFINE Untouched(r) == /\ form[r] \in Values /\ form'[r] \in Values
                           /\ \A t \in Threads : call[t].arc = r => call[t].op # "mut"
           Stable == \A r \in Refs : Untouched(r) => val'[at'[r]] = val[at[r]]
<1>1. Sound /\ Counted /\ [Next]_vars => Stable
  <2> SUFFICES ASSUME Sound, Counted, [Next]_vars, NEW r \in Refs, Untouched(r)
               PROVE  val'[at'[r]] = val[at[r]]
    OBVIOUS
  <2>0. PICK o \in Objs : o = at[r] /\ mem[o] = "live" /\ r \in At(o)
    BY Alive DEF Values
  <2>1. ASSUME NEW s \in Refs, NEW p \in Objs, NEW f \in Values, NEW v \in Vals,
               NEW t \in Threads, New(t, s, p, f, v)
        PROVE  val'[at'[r]] = val[at[r]]
    BY <2>0, <2>1 DEF New, Fresh, Values, Sound, TypeOK
  <2>2. ASSUME NEW t \in Threads, NEW v \in Vals, Mutate(t, v)
        PROVE  val'[at'[r]] = val[at[r]]
    <3>1. call[t].arc # r /\ At(at[call[t].arc]) = {call[t].arc}
      BY <2>2 DEF Mutate, In, Counted, SoleMut
    <3>2. at[call[t].arc] # o
      BY <2>0, <3>1
    <3>3. QED
      BY <2>0, <2>2, <3>2 DEF Mutate, refs, Sound, TypeOK
  <2>3. ASSUME NEW t \in Threads, NEW p \in Objs, Replace(t, p)
        PROVE  val'[at'[r]] = val[at[r]]
    BY <2>0, <2>3 DEF Replace, Sound, TypeOK
  <2>4. ASSUME NEW t \in Threads, NEW s \in Refs, IntoInner(t, s)
        PROVE  val'[at'[r]] = val[at[r]]
    <3>1. s # r
      BY <2>4, NamesAssumption DEF IntoInner, Forms, Values, Sound, TypeOK
    <3>2. at[s] # o
      BY <2>0, <2>4, <3>1 DEF IntoInner, Counted, UniqueIsSole
    <3>3. QED
      BY <2>0, <2>4, <3>1, <3>2 DEF IntoInner, Sound, TypeOK
  <2>5. ASSUME NEW p \in Objs, StrategyDrops(p)
        PROVE  val'[at'[r]] = val[at[r]]
    BY <2>0, <2>5 DEF StrategyDrops, refs, Sound, TypeOK
  <2>6. ASSUME UNCHANGED val, at'[r] = at[r]
        PROVE  val'[at'[r]] = val[at[r]]
    BY <2>6
  <2>7. ASSUME NEW t \in Threads, Calls(t)
        PROVE  val'[at'[r]] = val[at[r]]
    <3>1. CASE \E s, n \in Refs : CloneAdd(t, s, n)
      BY <2>6, <3>1 DEF CloneAdd, Fresh, Values, Sound, TypeOK
    <3>2. CASE \E s \in Refs : DropSub(t, s)
      BY <2>6, <3>2 DEF DropSub, Values, Sound, TypeOK
    <3>3. QED
      BY <2>1, <2>4, <2>6, <2>7, <3>1, <3>2
         DEF Calls, ManyLoad, IterNext, IterDropEmpty, IterDropLoad, ForgetIter,
             Forget, ReadBegin, GetMut, DerefMut, MakeMut, TryUnique, Shareable,
             heap, refs
  <2>8. ASSUME NEW t \in Threads, Steps(t)
        PROVE  val'[at'[r]] = val[at[r]]
    <3>1. CASE \E i \in Iters, N \in SUBSET Refs : ManyCommit(t, i, N)
      BY <2>6, <3>1 DEF ManyCommit, Fresh, Values
    <3>2. CASE LeftoverCommit(t)
      <4>1. form[r] \notin Iters
        BY NamesAssumption DEF Forms, Values
      <4>2. CASE Underflows(call[t].seen, left[call[t].iter])
        BY <2>6, <3>2, <4>2 DEF LeftoverCommit, Abort, heap, refs
      <4>3. CASE ~Underflows(call[t].seen, left[call[t].iter])
        <5>1. call[t].iter \in Iters
          BY <3>2 DEF LeftoverCommit, In, Sound, TypeOK, Operands
        <5>2. QED
          BY <2>6, <3>2, <4>1, <4>3, <5>1 DEF LeftoverCommit
      <4>4. QED
        BY <4>2, <4>3
    <3>3. QED
      BY <2>6, <2>8, <3>1, <3>2
         DEF Steps, CloneAbort, CloneReturn, ManyAbort, ManyRetry, LeftoverRetry,
             DropSlow, Abort, heap, refs
  <2>9. ASSUME NEW t \in Threads, UserSteps(t)
        PROVE  val'[at'[r]] = val[at[r]]
    BY <2>2, <2>3, <2>6, <2>9
       DEF UserSteps, ReadEnd, CopyPanics, CopyAborts, Abort, heap, refs
  <2>10. CASE UNCHANGED vars
    BY <2>6, <2>10 DEF vars
  <2>11. QED
    BY <2>5, <2>7, <2>8, <2>9, <2>10 DEF Next
<1>2. QED
  BY <1>1, Invariant, PTL DEF ValueStable, SafeSpec
=============================================================================
