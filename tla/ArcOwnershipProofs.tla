------------------------- MODULE ArcOwnershipProofs -------------------------
(***************************************************************************)
(* Every step of Arc is a step of Ownership, or changes nothing there: the *)
(* safety part of OwnershipHolds, for every value of the constants.  What  *)
(* Ownership asks of a step (a sole owner for a write, no owner for a      *)
(* disposal, newcomers that own nothing yet) is not in the guards of the   *)
(* code, which only looks at the counter; Counted supplies it.             *)
(***************************************************************************)
EXTENDS ArcOwnership, ArcProofs

\* The owners of the abstract specification.
AbsOwners == [o \in Objs |-> At(o)]

\* A reference unit that does not exist owns nothing.
LEMMA FreshOwnsNothing ==
  ASSUME Sound
  PROVE  Fresh \in SUBSET Abs!Unowned
<1> SUFFICES ASSUME NEW r \in Fresh
             PROVE  r \in Abs!Unowned
  OBVIOUS
<1>1. r \in Refs /\ at[r] = None
  BY DEF Fresh, Sound, Placed
<1>2. \A o \in Objs : r \notin At(o)
  BY <1>1, NamesAssumption DEF At
<1>3. QED
  BY <1>1, <1>2 DEF Abs!Unowned

\* Steps that leave allocations, contents and owners alone.
LEMMA Stutters ==
  ASSUME UNCHANGED <<mem, val, at, aborted>>
  PROVE  UNCHANGED Abs!vars
BY DEF At, Abs!vars

LEMMA AbsInit == Init => Abs!Init
BY NamesAssumption DEF Init, Abs!Init, At

LEMMA AbsNew ==
  ASSUME Sound, Sound', Counted, NEW t \in Threads, NEW r \in Refs, NEW o \in Objs,
         NEW f \in Values, NEW v \in Vals, New(t, r, o, f, v)
  PROVE  Abs!Create(o, r, v)
<1>1. r \in Abs!Unowned /\ at[r] = None
  BY FreshOwnsNothing DEF New, Fresh, Sound, Placed
<1>2. At(o) = {}
  BY NoUnits DEF New
<1>3. \A s \in Refs : at'[s] = IF s = r THEN o ELSE at[s]
  BY DEF New, Sound, TypeOK
<1>4. \A p \in Objs : At(p)' = IF p = o THEN {r} ELSE At(p)
  BY <1>1, <1>2, <1>3, NamesAssumption DEF At
<1>5. AbsOwners' = [AbsOwners EXCEPT ![o] = {r}]
  BY <1>4 DEF AbsOwners
<1>6. QED
  BY <1>1, <1>5 DEF AbsOwners, New, Abs!Create

\* clone and clone_many take in newcomers beside the owner they are called on.
LEMMA AbsJoin ==
  ASSUME Sound, Sound', Counted, NEW r \in Refs, form[r] # "absent",
         NEW N \in SUBSET Fresh, N # {}, UNCHANGED <<mem, val>>,
         at' = [s \in Refs |-> IF s \in N THEN at[r] ELSE at[s]]
  PROVE  at[r] \in Objs /\ Abs!Share(at[r], N)
<1>1. at[r] \in Objs /\ r \in At(at[r])
  BY Alive
<1>2. N \in SUBSET Abs!Unowned
  BY FreshOwnsNothing
<1>3. \A s \in N : s \in Refs /\ at[s] = None
  BY DEF Fresh, Sound, Placed
<1>4. \A p \in Objs : At(p)' = IF p = at[r] THEN At(p) \cup N ELSE At(p)
  BY <1>1, <1>3, NamesAssumption DEF At
<1>5. AbsOwners' = [AbsOwners EXCEPT ![at[r]] = @ \cup N]
  BY <1>1, <1>4 DEF AbsOwners
<1>6. QED
  BY <1>1, <1>2, <1>5 DEF AbsOwners, Abs!Share

\* A drop, or that of an iterator, takes away owners of one allocation.
LEMMA AbsLeave ==
  ASSUME Sound, Sound', NEW o \in Objs, NEW W \in SUBSET At(o), W # {},
         UNCHANGED <<mem, val>>,
         at' = [s \in Refs |-> IF s \in W THEN None ELSE at[s]]
  PROVE  Abs!Release(o, W)
<1>1. \A p \in Objs : At(p)' = IF p = o THEN At(p) \ W ELSE At(p)
  BY NamesAssumption DEF At
<1>2. AbsOwners' = [AbsOwners EXCEPT ![o] = @ \ W]
  BY <1>1 DEF AbsOwners
<1>3. QED
  BY <1>2 DEF AbsOwners, Abs!Release

LEMMA AbsCloneAdd ==
  ASSUME Sound, Sound', Counted, NEW t \in Threads, NEW r \in Refs, NEW n \in Refs,
         CloneAdd(t, r, n)
  PROVE  at[r] \in Objs /\ Abs!Share(at[r], {n})
<1>1. form[r] # "absent" /\ {n} \in SUBSET Fresh /\ UNCHANGED <<mem, val>>
  BY DEF CloneAdd
<1>2. at' = [s \in Refs |-> IF s \in {n} THEN at[r] ELSE at[s]]
  BY DEF CloneAdd, Sound, TypeOK
<1>3. QED
  BY <1>1, <1>2, AbsJoin

\* clone_many with 0 counts nothing and shares nothing.
LEMMA AbsManyCommit ==
  ASSUME Sound, Sound', Counted, NEW t \in Threads, NEW i \in Iters,
         NEW N \in SUBSET Refs, ManyCommit(t, i, N)
  PROVE  \/ UNCHANGED Abs!vars
         \/ at[call[t].arc] \in Objs /\ Abs!Share(at[call[t].arc], N)
<1>1. call[t].arc \in Refs /\ form[call[t].arc] # "absent"
  BY DEF ManyCommit, In, Sound, TypeOK, Operands
<1>2. /\ N \in SUBSET Fresh /\ UNCHANGED <<mem, val, aborted>>
      /\ at' = [s \in Refs |-> IF s \in N THEN at[call[t].arc] ELSE at[s]]
  BY DEF ManyCommit
<1>3. CASE N = {}
  <2>1. at' = at
    BY <1>2, <1>3 DEF Sound, TypeOK
  <2>2. QED
    BY <1>2, <2>1, Stutters
<1>4. CASE N # {}
  BY <1>1, <1>2, <1>4, AbsJoin
<1>5. QED
  BY <1>3, <1>4

LEMMA AbsDropSub ==
  ASSUME Sound, Sound', Counted, NEW t \in Threads, NEW r \in Refs, DropSub(t, r)
  PROVE  at[r] \in Objs /\ Abs!Release(at[r], {r})
<1>1. at[r] \in Objs /\ {r} \in SUBSET At(at[r]) /\ {r} # {}
  BY Alive DEF DropSub, CanOwn, Values
<1>2. at' = [s \in Refs |-> IF s \in {r} THEN None ELSE at[s]]
  BY DEF DropSub, Sound, TypeOK
<1>3. UNCHANGED <<mem, val>>
  BY DEF DropSub
<1>4. QED
  BY <1>1, <1>2, <1>3, AbsLeave

\* The process is aborted if checked_sub fails (it never does); otherwise the
\* references still owed leave their allocation together.
LEMMA AbsLeftoverCommit ==
  ASSUME Sound, Sound', Counted, NEW t \in Threads, LeftoverCommit(t)
  PROVE  \/ UNCHANGED Abs!vars
         \/ /\ UNCHANGED aborted
            /\ \E o \in Objs, W \in SUBSET Refs : Abs!Release(o, W)
<1> DEFINE i == call[t].iter
           W == Owed(i)
<1>1. i \in Iters /\ orig[i] # None
  BY DEF LeftoverCommit, In, Sound, TypeOK, Operands
<1>2. ~Underflows(call[t].seen, left[i])
  <2>1. call[t].seen > left[i]
    BY DEF LeftoverCommit, In, Counted, LeftoverKeepsOne
  <2>2. QED
    BY <1>1, <2>1 DEF Underflows, Sound, TypeOK, Usizes
<1>3. at[orig[i]] \in Objs /\ W \in SUBSET At(at[orig[i]]) /\ W \in SUBSET Refs
  BY <1>1, OrigCounts DEF Owed
<1>4. /\ UNCHANGED <<mem, val, aborted>>
      /\ at' = [r \in Refs |-> IF form[r] = i THEN None ELSE at[r]]
  BY <1>2 DEF LeftoverCommit
<1>5. at' = [r \in Refs |-> IF r \in W THEN None ELSE at[r]]
  BY <1>4 DEF Owed
<1>6. CASE W = {}
  <2>1. at' = at
    BY <1>5, <1>6 DEF Sound, TypeOK
  <2>2. QED
    BY <1>4, <2>1, Stutters
<1>7. CASE W # {}
  <2>1. Abs!Release(at[orig[i]], W)
    BY <1>3, <1>4, <1>5, <1>7, AbsLeave
  <2>2. QED
    BY <1>3, <1>4, <2>1
<1>8. QED
  BY <1>6, <1>7

LEMMA AbsReplace ==
  ASSUME Sound, Sound', Counted, NEW t \in Threads, NEW o \in Objs, Replace(t, o)
  PROVE  /\ at[call[t].arc] \in Objs /\ call[t].arc \in Refs
         /\ Abs!Split(at[call[t].arc], o, call[t].arc)
<1> DEFINE r == call[t].arc
           old == at[r]
<1>1. r \in Refs /\ form[r] # "absent"
  BY DEF Replace, In, Sound, TypeOK, Operands
<1>2. old \in Objs /\ r \in At(old) /\ mem[old] = "live"
  BY <1>1, Alive
<1>3. mem[o] = "free" /\ old # o /\ At(o) = {}
  BY <1>2, NoUnits DEF Replace
<1>4. \A s \in Refs : at'[s] = IF s = r THEN o ELSE at[s]
  BY <1>1 DEF Replace, Sound, TypeOK
<1>5. \A p \in Objs : At(p)' = IF p = o THEN {r}
                               ELSE IF p = old THEN At(p) \ {r} ELSE At(p)
  BY <1>1, <1>2, <1>3, <1>4 DEF At
<1>6. AbsOwners' = [AbsOwners EXCEPT ![old] = @ \ {r}, ![o] = {r}]
  BY <1>2, <1>3, <1>5 DEF AbsOwners
<1>7. QED
  BY <1>1, <1>2, <1>3, <1>6 DEF AbsOwners, Replace, Abs!Split

\* The write through a &mut T: Counted knows that the Arc is alone.
LEMMA AbsMutate ==
  ASSUME Sound, Counted, NEW t \in Threads, NEW v \in Vals, Mutate(t, v)
  PROVE  at[call[t].arc] \in Objs /\ Abs!Write(at[call[t].arc], v)
<1>1. call[t].arc \in Refs /\ form[call[t].arc] # "absent"
  BY DEF Mutate, In, Sound, TypeOK, Operands, Values
<1>2. at[call[t].arc] \in Objs
  BY <1>1, Alive
<1>3. At(at[call[t].arc]) = {call[t].arc}
  BY DEF Mutate, In, Counted, SoleMut
<1>4. UNCHANGED AbsOwners
  BY DEF Mutate, refs, AbsOwners, At
<1>5. QED
  BY <1>1, <1>2, <1>3, <1>4 DEF AbsOwners, Mutate, Abs!Write, Abs!Sole

LEMMA AbsIntoInner ==
  ASSUME Sound, Sound', Counted, NEW t \in Threads, NEW r \in Refs, IntoInner(t, r)
  PROVE  at[r] \in Objs /\ Abs!Unwrap(at[r])
<1>1. at[r] \in Objs /\ at[r] # None
  BY Alive DEF IntoInner, CanOwn, Values
<1>2. At(at[r]) = {r}
  BY DEF IntoInner, Counted, UniqueIsSole
<1>3. \A s \in Refs : at'[s] = IF s = r THEN None ELSE at[s]
  BY DEF IntoInner, Sound, TypeOK
<1>4. \A p \in Objs : At(p)' = IF p = at[r] THEN {} ELSE At(p)
  BY <1>1, <1>2, <1>3, NamesAssumption DEF At
<1>5. AbsOwners' = [AbsOwners EXCEPT ![at[r]] = {}]
  BY <1>1, <1>4 DEF AbsOwners
<1>6. QED
  BY <1>1, <1>2, <1>5 DEF AbsOwners, IntoInner, Abs!Unwrap, Abs!Sole

\* drop_slow hands over memory that nothing refers to any more.
LEMMA AbsDropSlow ==
  ASSUME Sound, Counted, NEW t \in Threads, DropSlow(t)
  PROVE  call[t].obj \in Objs /\ Abs!Dispose(call[t].obj)
<1>1. call[t].obj # None /\ call[t].obj \in Objs
  BY DEF DropSlow, Sound, TypeOK, Operands
<1>2. mem[call[t].obj] = "live" /\ At(call[t].obj) = {}
  BY <1>1 DEF Counted, SoleDisposer
<1>3. UNCHANGED AbsOwners
  BY DEF DropSlow, refs, AbsOwners, At
<1>4. QED
  BY <1>1, <1>2, <1>3 DEF AbsOwners, DropSlow, Abs!Dispose

LEMMA AbsStrategyDrops ==
  ASSUME NEW o \in Objs, StrategyDrops(o)
  PROVE  Abs!Reclaim(o)
BY DEF StrategyDrops, refs, At, Abs!Reclaim

-----------------------------------------------------------------------------
(* The step simulation *)

LEMMA AbsNext == Sound /\ Sound' /\ Counted /\ [Next]_vars => [Abs!Next]_(Abs!vars)
<1> SUFFICES ASSUME Sound, Sound', Counted, [Next]_vars
             PROVE  Abs!Next \/ UNCHANGED Abs!vars
  OBVIOUS
<1>1. ASSUME NEW t \in Threads, Calls(t)
      PROVE  Abs!Next \/ UNCHANGED Abs!vars
  <2>1. CASE \E r \in Refs, o \in Objs, f \in Values, v \in Vals : New(t, r, o, f, v)
    <3>1. PICK r \in Refs, o \in Objs, f \in Values, v \in Vals : New(t, r, o, f, v)
      BY <2>1
    <3>2. Abs!Create(o, r, v)
      BY <3>1, AbsNew
    <3>3. ~aborted /\ UNCHANGED aborted
      BY <3>1 DEF New, Idle
    <3>4. QED
      BY <3>2, <3>3 DEF Abs!Next
  <2>2. CASE \E r, n \in Refs : CloneAdd(t, r, n)
    <3>1. PICK r \in Refs, n \in Refs : CloneAdd(t, r, n)
      BY <2>2
    <3>2. at[r] \in Objs /\ Abs!Share(at[r], {n}) /\ {n} \in SUBSET Refs
      BY <3>1, AbsCloneAdd
    <3>3. ~aborted /\ UNCHANGED aborted
      BY <3>1 DEF CloneAdd, Idle
    <3>4. QED
      BY <3>2, <3>3 DEF Abs!Next
  <2>3. CASE \E r \in Refs : DropSub(t, r)
    <3>1. PICK r \in Refs : DropSub(t, r)
      BY <2>3
    <3>2. at[r] \in Objs /\ Abs!Release(at[r], {r}) /\ {r} \in SUBSET Refs
      BY <3>1, AbsDropSub
    <3>3. ~aborted /\ UNCHANGED aborted
      BY <3>1 DEF DropSub, Idle
    <3>4. QED
      BY <3>2, <3>3 DEF Abs!Next
  <2>4. CASE \E r \in Refs : IntoInner(t, r)
    BY <2>4, AbsIntoInner DEF IntoInner, Idle, Abs!Next
  <2>5. CASE UNCHANGED <<mem, val, at, aborted>>
    BY <2>5, Stutters
  <2>6. QED
    BY <1>1, <2>1, <2>2, <2>3, <2>4, <2>5
       DEF Calls, ManyLoad, IterNext, IterDropEmpty, IterDropLoad, ForgetIter, Forget,
           ReadBegin, GetMut, DerefMut, MakeMut, TryUnique, Shareable, heap, refs
<1>2. ASSUME ~aborted, Abort
      PROVE  Abs!Next
  BY <1>2 DEF Abort, heap, refs, At, Abs!Abort, Abs!Next
<1>3. ASSUME NEW t \in Threads, Steps(t)
      PROVE  Abs!Next \/ UNCHANGED Abs!vars
  <2>1. CASE CloneAbort(t) \/ ManyAbort(t)
    BY <1>2, <2>1 DEF CloneAbort, ManyAbort, In
  <2>2. CASE \E i \in Iters, N \in SUBSET Refs : ManyCommit(t, i, N)
    <3>1. PICK i \in Iters, N \in SUBSET Refs : ManyCommit(t, i, N)
      BY <2>2
    <3>2. ~aborted /\ UNCHANGED aborted
      BY <3>1 DEF ManyCommit, In
    <3>3. QED
      BY <3>1, <3>2, AbsManyCommit DEF Abs!Next
  <2>3. CASE LeftoverCommit(t)
    <3>1. ~aborted
      BY <2>3 DEF LeftoverCommit, In
    <3>2. QED
      BY <2>3, <3>1, AbsLeftoverCommit DEF Abs!Next
  <2>4. CASE DropSlow(t)
    BY <2>4, AbsDropSlow DEF Abs!Next
  <2>5. CASE UNCHANGED <<mem, val, at, aborted>>
    BY <2>5, Stutters
  <2>6. QED
    BY <1>3, <2>1, <2>2, <2>3, <2>4, <2>5
       DEF Steps, CloneReturn, ManyRetry, LeftoverRetry, heap, refs
<1>4. ASSUME NEW t \in Threads, UserSteps(t)
      PROVE  Abs!Next \/ UNCHANGED Abs!vars
  <2>1. CASE \E v \in Vals : Mutate(t, v)
    BY <2>1, AbsMutate DEF Mutate, In, Abs!Next
  <2>2. CASE \E o \in Objs : Replace(t, o)
    <3>1. PICK o \in Objs : Replace(t, o)
      BY <2>2
    <3>2. ~aborted /\ UNCHANGED aborted
      BY <3>1 DEF Replace, In
    <3>3. QED
      BY <3>1, <3>2, AbsReplace DEF Abs!Next
  <2>3. CASE CopyAborts(t)
    BY <1>2, <2>3 DEF CopyAborts, In
  <2>4. CASE UNCHANGED <<mem, val, at, aborted>>
    BY <2>4, Stutters
  <2>5. QED
    BY <1>4, <2>1, <2>2, <2>3, <2>4 DEF UserSteps, ReadEnd, CopyPanics, heap, refs
<1>5. ASSUME NEW o \in Objs, StrategyDrops(o)
      PROVE  Abs!Next
  BY <1>5, AbsStrategyDrops DEF StrategyDrops, Abs!Next
<1>6. CASE UNCHANGED vars
  BY <1>6, Stutters DEF vars
<1>7. QED
  BY <1>1, <1>3, <1>4, <1>5, <1>6 DEF Next

\* The counting protocol implements shared ownership, step by step: whatever
\* threads do, the contents are written by a sole owner only, an allocation is
\* disposed of only when it has no owner left, and a newcomer to one
\* allocation has left every other.
THEOREM ArcImplementsOwnership == SafeSpec => Abs!SafeSpec
<1>1. Init => Abs!Init
  BY AbsInit
<1>2. Sound /\ Sound' /\ Counted /\ [Next]_vars => [Abs!Next]_(Abs!vars)
  BY AbsNext
<1>3. QED
  BY <1>1, <1>2, Invariant, PTL DEF SafeSpec, Abs!SafeSpec
=============================================================================
