------------------------------ MODULE Disposal ------------------------------
(***************************************************************************)
(* Arcs inside the contents of Arcs, and the backdrop strategies that      *)
(* destroy those contents, on the spot or on another thread.  Arc shows    *)
(* what becomes of one allocation; here the destruction of one drops the   *)
(* Arcs in it, which may destroy others, each by the strategy of the       *)
(* reference that happens to be the last.  There are no weak pointers      *)
(* (lib.rs:30), so that a cycle of Arcs stays.  Contents that are shared   *)
(* cannot change, unless they have interior mutability: a Mutex<Vec<Arc>>, *)
(* say, called a cell here.  Cells do tie cycles.                          *)
(*                                                                         *)
(* Operations are atomic but for make_mut, whose T::clone takes time, and  *)
(* for destruction, which goes one Arc at a time; Arc shows that the steps *)
(* within them do not interfere.  Contents have no Drop of their own.      *)
(***************************************************************************)
EXTENDS Integers, Sequences, FiniteSetsExt

CONSTANTS
  Threads,   \* threads of the program
  Workers,   \* threads of the strategies
  Objs,      \* ArcInner allocations; addresses are reused once freed
  Cells,     \* those whose contents have interior mutability
  None,      \* no make_mut in progress
  MaxArcs    \* bound on the number of Arcs that exist at a time

\* A strategy destroys the box it is given in place, as TrivialStrategy does,
\* or leaves that to a worker, as TrashThreadStrategy.  A triomphe::Arc, which
\* has the same layout and counts in the same way, is an Arc of the first kind.
Strategies == {"now", "later"}

\* An Arc is as good as another of the same allocation and strategy type.
Arcs    == Objs \X Strategies
Program == "program"
Holders == {Program} \cup Objs
Runners == Threads \cup Workers

ASSUME DisposalAssumption ==
  /\ Program \notin Objs /\ None \notin Arcs
  /\ Threads \cap Workers = {}
  /\ IsFiniteSet(Objs) /\ Cells \subseteq Objs
  /\ MaxArcs \in Nat

VARIABLES
  mem,      \* allocation -> "free", "live", "boxed" (waits for a worker), or
            \*   "dying" (its contents are being destroyed)
  count,    \* allocation -> ArcInner::count
  held,     \* the program's variables, and the contents of each allocation
            \*   -> how many Arcs of each sort they hold
  copying,  \* thread -> the Arc that its make_mut has borrowed
  stack,    \* runner -> the allocations whose drop glue it is in, innermost first
  trash     \* boxes on their way to the workers, in order

vars == <<mem, count, held, copying, stack, trash>>

Idle(t) == stack[t] = <<>> /\ copying[t] = None
Has(h, a) == held[h][a] > 0

\* How many Arcs there are.
Existing == MapThenSumSet(LAMBDA o : count[o], Objs)

-----------------------------------------------------------------------------
\* Faulty variants of the definitions that follow, one plausible slip each.

IsLast_OffByOne(old)  == old = 2
IsLast_AtMostTwo(old) == old <= 2
IsUnique_AtMostTwo(c) == c <= 2

\* Drop::drop and is_unique.
IsLast(old) == old = 1
IsUnique(c) == c = 1

-----------------------------------------------------------------------------
(* Drop::drop *)

\* Runner x drops an Arc a; H is what is held without it, C the counters
\* before.  If it is the last, drop_slow gives the box to a's strategy.
Release(x, a, H, C) ==
  LET o == a[1] IN
  /\ held'  = H
  /\ count' = [C EXCEPT ![o] = @ - 1]
  /\ CASE ~IsLast(C[o]) ->
            UNCHANGED <<stack, trash>>
       [] IsLast(C[o]) /\ a[2] = "now" ->
            stack' = [stack EXCEPT ![x] = <<o>> \o @] /\ UNCHANGED trash
       [] IsLast(C[o]) /\ a[2] = "later" ->
            trash' = Append(trash, o) /\ UNCHANGED stack

\* What becomes of the memory that the Release of an Arc a may dispose of.
MemAfter(a, C) ==
  IF ~IsLast(C[a[1]]) THEN mem[a[1]]
  ELSE IF a[2] = "now" THEN "dying" ELSE "boxed"

Without(h, a) == [held EXCEPT ![h][a] = @ - 1]
Moved(h, g, a) == [held EXCEPT ![h][a] = @ - 1, ![g][a] = @ + 1]

Drop(t, a) ==
  /\ Idle(t)
  /\ Has(Program, a)
  /\ Release(t, a, Without(Program, a), count)
  /\ mem' = [mem EXCEPT ![a[1]] = MemAfter(a, count)]
  /\ UNCHANGED copying

-----------------------------------------------------------------------------
(* Destruction: Backdrop::drop calls S::execute, which drops the Box *)

\* The worker receives the next box.
Receive(w) ==
  /\ stack[w] = <<>> /\ trash # <<>>
  /\ stack' = [stack EXCEPT ![w] = <<Head(trash)>>]
  /\ trash' = Tail(trash)
  /\ mem'   = [mem EXCEPT ![Head(trash)] = "dying"]
  /\ UNCHANGED <<count, held, copying>>

\* The drop glue of the contents drops one of the Arcs in them.
DropContents(x, a) ==
  LET o == Head(stack[x]) IN
  /\ stack[x] # <<>>
  /\ Has(o, a)
  /\ Release(x, a, Without(o, a), count)
  /\ mem' = [mem EXCEPT ![a[1]] = MemAfter(a, count)]
  /\ UNCHANGED copying

\* None is left, and the memory is deallocated.
Deallocate(x) ==
  LET o == Head(stack[x]) IN
  /\ stack[x] # <<>>
  /\ \A a \in Arcs : ~Has(o, a)
  /\ mem'   = [mem EXCEPT ![o] = "free"]
  /\ stack' = [stack EXCEPT ![x] = Tail(@)]
  /\ UNCHANGED <<count, held, copying, trash>>

-----------------------------------------------------------------------------
(* The program *)

\* Arc::new.  Arcs that are moved in are the subject of PutIn.
New(t, o, s) ==
  /\ Idle(t)
  /\ mem[o] = "free" /\ Existing < MaxArcs
  /\ mem'   = [mem EXCEPT ![o] = "live"]
  /\ count' = [count EXCEPT ![o] = 1]
  /\ held'  = [held EXCEPT ![Program][<<o, s>>] = @ + 1]
  /\ UNCHANGED <<copying, stack, trash>>

\* What the program has a `&` to: its own Arcs, and by Deref those in their
\* contents.
Visible == {Program} \cup {o \in Objs : \E s \in Strategies : Has(Program, <<o, s>>)}

\* Clone::clone, of an Arc of its own or of one seen through a Deref.  The
\* clone that an ArcBorrow makes may have another strategy than the original.
Clone(t, h, a, s) ==
  /\ Idle(t)
  /\ Has(h, a)
  /\ h \in Visible
  /\ Existing < MaxArcs
  /\ count' = [count EXCEPT ![a[1]] = @ + 1]
  /\ held'  = [held EXCEPT ![Program][<<a[1], s>>] = @ + 1]
  /\ UNCHANGED <<mem, copying, stack, trash>>

\* get_mut on the Arc r gives a &mut T, Deref a &T, which suffices for a cell.
GetMut(t, r) ==
  /\ Idle(t)
  /\ Has(Program, r)
  /\ IsUnique(count[r[1]])
Deref(t, r) == Idle(t) /\ Has(Program, r)
CanChange(t, r) == GetMut(t, r) \/ (Deref(t, r) /\ r[1] \in Cells)

\* The program moves an Arc into the contents, or one out of them.
PutIn(t, r, a) ==
  /\ CanChange(t, r)
  /\ held[Program][a] > (IF a = r THEN 1 ELSE 0)
  /\ held' = Moved(Program, r[1], a)
  /\ UNCHANGED <<mem, count, copying, stack, trash>>

TakeOut(t, r, a) ==
  /\ CanChange(t, r)
  /\ Has(r[1], a)
  /\ held' = Moved(r[1], Program, a)
  /\ UNCHANGED <<mem, count, copying, stack, trash>>

\* make_mut when there are other owners; else it does no more than get_mut.
MakeMut(t, r) ==
  /\ Idle(t)
  /\ Has(Program, r)
  /\ ~IsUnique(count[r[1]])
  /\ copying' = [copying EXCEPT ![t] = r]
  /\ held'    = Without(Program, r)
  /\ UNCHANGED <<mem, count, stack, trash>>

\* *this = Arc::new(T::clone(&this)): the copy of the contents has a clone of
\* every Arc in them, and then the Arc that was in *this is dropped.
Replace(t, p) ==
  LET r == copying[t]
      copy == held[r[1]]
      cloned == [o \in Objs |-> IF o = p THEN 1 ELSE
                   count[o] + copy[<<o, "now">>] + copy[<<o, "later">>]]
  IN
  /\ r # None
  /\ mem[p] = "free" /\ (p \in Cells <=> r[1] \in Cells)
  /\ MapThenSumSet(LAMBDA o : cloned[o], Objs) <= MaxArcs + 1
  /\ copying' = [copying EXCEPT ![t] = None]
  /\ Release(t, r, [held EXCEPT ![p] = copy, ![Program][<<p, r[2]>>] = @ + 1],
             cloned)
  /\ mem' = [mem EXCEPT ![p] = "live", ![r[1]] = MemAfter(r, cloned)]

CopyPanics(t) ==
  /\ copying[t] # None
  /\ copying' = [copying EXCEPT ![t] = None]
  /\ held' = [held EXCEPT ![Program][copying[t]] = @ + 1]
  /\ UNCHANGED <<mem, count, stack, trash>>

\* try_unwrap, into_inner: the contents move out, and no strategy is asked.
Unwrap(t, r) ==
  LET o == r[1] IN
  /\ GetMut(t, r)
  /\ mem'   = [mem EXCEPT ![o] = "free"]
  /\ count' = [count EXCEPT ![o] = 0]
  /\ held'  = [held EXCEPT ![o] = [a \in Arcs |-> 0],
                           ![Program] = [a \in Arcs |-> @[a] + held[o][a]
                                                        - (IF a = r THEN 1 ELSE 0)]]
  /\ UNCHANGED <<copying, stack, trash>>

\* The same pointer under another type: the counter is left alone.
Transmute(t, a, s) ==
  /\ Idle(t)
  /\ Has(Program, a) /\ s # a[2]
  /\ held' = [held EXCEPT ![Program][a] = @ - 1, ![Program][<<a[1], s>>] = @ + 1]
  /\ UNCHANGED <<mem, count, copying, stack, trash>>

WithStrategy(t, a, s) == Transmute(t, a, s)

\* From<triomphe::Arc>, From<Arc> for triomphe::Arc, and the same of UniqueArc.
FromTriomphe(t, a, s) == a[2] = "now" /\ Transmute(t, a, s)
IntoTriomphe(t, a)    == Transmute(t, a, "now")

-----------------------------------------------------------------------------
(* Specification *)

Init ==
  /\ mem     = [o \in Objs |-> "free"]
  /\ count   = [o \in Objs |-> 0]
  /\ held    = [h \in Holders |-> [a \in Arcs |-> 0]]
  /\ copying = [t \in Threads |-> None]
  /\ stack   = [x \in Runners |-> <<>>]
  /\ trash   = <<>>

Call(t) ==
  \/ \E o \in Objs, s \in Strategies : New(t, o, s)
  \/ \E a \in Arcs :
       \/ \E h \in Holders, s \in Strategies : Clone(t, h, a, s)
       \/ \E r \in Arcs : PutIn(t, r, a) \/ TakeOut(t, r, a)
       \/ \E s \in Strategies : WithStrategy(t, a, s) \/ FromTriomphe(t, a, s)
       \/ IntoTriomphe(t, a)
       \/ MakeMut(t, a) \/ Unwrap(t, a) \/ Drop(t, a)
  \/ \E p \in Objs : Replace(t, p)
  \/ CopyPanics(t)

Destroy(x) == (\E a \in Arcs : DropContents(x, a)) \/ Deallocate(x)

Next ==
  \/ \E t \in Threads : Call(t)
  \/ \E x \in Runners : Destroy(x)
  \/ \E w \in Workers : Receive(w)

SafeSpec == Init /\ [][Next]_vars

\* Drop glue runs to its end, and a strategy's workers go on receiving.
Spec ==
  /\ SafeSpec
  /\ \A x \in Runners : WF_vars(Destroy(x))
  /\ \A w \in Workers : WF_vars(Receive(w))

-----------------------------------------------------------------------------
(* Properties *)

TypeOK ==
  /\ mem \in [Objs -> {"free", "live", "boxed", "dying"}]
  /\ count \in [Objs -> Nat]
  /\ held \in [Holders -> [Arcs -> Nat]]
  /\ copying \in [Threads -> Arcs \cup {None}]
  /\ stack \in [Runners -> Seq(Objs)]
  /\ trash \in Seq(Objs)

\* No Arc dangles, wherever it is: in a variable of the program, borrowed by a
\* make_mut, or in contents that are alive, wait for a worker, or are half
\* destroyed on some thread; and a free allocation holds none.
ArcsPointToLive ==
  /\ \A h \in Holders, a \in Arcs : Has(h, a) => mem[a[1]] = "live"
  /\ \A t \in Threads : copying[t] # None => mem[copying[t][1]] = "live"
  /\ \A o \in Objs : mem[o] = "free" => \A a \in Arcs : ~Has(o, a)

Owns(o, p) == \E s \in Strategies : Has(o, <<p, s>>)

\* Every cycle of Arcs goes through a cell: get_mut, make_mut and into_inner let
\* other contents change only where no Arc could already lead back to them,
\* whatever cells and cycles there are around.
\* In a cycle without cells every member would be owned by a member.
CyclesNeedCells ==
  \A S \in (SUBSET (Objs \ Cells)) \ {{}} :
    \E o \in S : \A p \in S : ~Owns(p, o)

\* Allocations on their way out are disposed of once: what waits in the trash
\* is no runner's yet, two runners never meet in one allocation, none comes to
\* the same one twice, and none is forgotten.
DisposedOnce ==
  /\ \A x, y \in Runners : \A i \in DOMAIN stack[x], j \in DOMAIN stack[y] :
       stack[x][i] = stack[y][j] => x = y /\ i = j
  /\ \A i, j \in DOMAIN trash : trash[i] = trash[j] => i = j
  /\ \A o \in Objs :
       /\ mem[o] = "boxed" <=> \E i \in DOMAIN trash : trash[i] = o
       /\ mem[o] = "dying" <=>
            \E x \in Runners : \E i \in DOMAIN stack[x] : stack[x][i] = o

Anchors == {a[1] : a \in {b \in Arcs : Has(Program, b)}}
           \cup {copying[t][1] : t \in {u \in Threads : copying[u] # None}}
\* o is in every set that holds the anchors and all that its members own.
Reachable(o) ==
  \A S \in SUBSET Objs :
    (\A p \in Objs : p \in Anchors \/ (\E q \in S : Owns(q, p)) => p \in S) => o \in S
\* A cycle owns o, directly or through others, or it is in one.
KeptByCycle(o) ==
  \E S \in SUBSET Objs : o \in S /\ \A p \in S : \E q \in S : Owns(q, p)

\* "When the last clone of a particular Arc goes out of scope" (lib.rs:19) its
\* contents are destroyed, sooner or later, and so is all that only they led
\* to: whatever mix of strategies and threads the chain goes through.  Nothing
\* leaks but what a cycle keeps.
EventuallyFreed ==
  \A o \in Objs :
    mem[o] # "free" /\ ~Reachable(o) /\ ~KeptByCycle(o) ~> mem[o] = "free"
=============================================================================
