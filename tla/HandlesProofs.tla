---------------------------- MODULE HandlesProofs ----------------------------
(***************************************************************************)
(* Proofs about Handles, for every set of even addresses, every two types  *)
(* with even data offsets, and every number of threads and handles.        *)
(*                                                                         *)
(* The arithmetic of the addresses comes first: AddressAs is undone by     *)
(* InnerOf.  The inductive invariant says of a handle that its address is  *)
(* what AddressAs makes of its allocation (Addressed), of the counters     *)
(* that they count handles (HandlesCounted), and of the calls in progress  *)
(* what they rely on.                                                      *)
(***************************************************************************)
EXTENDS Handles, FiniteSetTheorems, TLAPS

\* A handle holds the address that its kind has for the allocation counting it.
Addressed ==
  \A h \in Refs :
    /\ home[h] = None <=> kind[h] = "absent"
    /\ kind[h] # "absent" =>
         /\ mem[home[h]] = "live" /\ type[home[h]] \in Types
         /\ ptr[h] = AddressAs(kind[h], home[h], type[home[h]])
         /\ param[h] = IF kind[h] = "ArcUnion" THEN None ELSE type[home[h]]

\* Calls that hold `&mut` to the handle they were called on.
Exclusive(c) == c.op \in {"copy", "mut", "drop_slow"}

\* Each call has the operands it needs, and `&mut` excludes other borrows.
Operands ==
  \A t \in Threads :
    LET c == call[t] IN
    /\ c.op \in {"with_arc", "copy", "mut"} => c.ref # None
    /\ c.ref # None => kind[c.ref] \notin {"absent", "raw"}
    /\ c.ref # None /\ Exclusive(c) => kind[c.ref] = "OffsetArc"
    /\ c.op = "drop_slow" <=> c.obj # None
    /\ \A u \in Threads \ {t} :
         c.ref # None /\ Exclusive(c) => call[u].ref # c.ref

\* A thread about to dispose of an allocation is the only one that is, and
\* no handle is left.
Disposers ==
  \A t \in Threads : call[t].obj # None =>
    /\ mem[call[t].obj] = "live" /\ Held(call[t].obj) = {}
    /\ \A u \in Threads \ {t} : call[u].obj # call[t].obj

\* A call that has, or will have after the disposal of what it replaced, a
\* `&mut T` works on the only handle.
SoleMut ==
  \A t \in Threads :
    call[t].op \in {"mut", "drop_slow"} /\ call[t].ref # None =>
      Held(home[call[t].ref]) = {call[t].ref}

Inv == TypeOK /\ Addressed /\ Operands /\ Disposers /\ SoleMut /\ HandlesCounted

-----------------------------------------------------------------------------
(* Addresses *)

LEMMA EvenSum ==
  ASSUME NEW m \in Nat, NEW n \in Nat, m % 2 = 0, n % 2 = 0
  PROVE  m + n \in Nat /\ (m + n) % 2 = 0 /\ (m + n + 1) % 2 = 1
OBVIOUS

\* The lowest bit of an address is free, so a tag in it can be taken off.
LEMMA AddressFacts ==
  ASSUME NEW o \in Objs, NEW T \in Types
  PROVE  /\ AsPtr(o, T) \in Nat /\ IsFirst(AsPtr(o, T))
         /\ FromRaw(AsPtr(o, T), T) = o
         /\ Tagged(AsPtr(o, T)) \in Nat /\ ~IsFirst(Tagged(AsPtr(o, T)))
         /\ Untagged(Tagged(AsPtr(o, T))) = AsPtr(o, T)
<1>1. o \in Nat /\ DataOffset[T] \in Nat /\ o % 2 = 0 /\ DataOffset[T] % 2 = 0
  BY AddressAssumption
<1>2. /\ AsPtr(o, T) \in Nat /\ AsPtr(o, T) % 2 = 0
      /\ (AsPtr(o, T) + 1) % 2 = 1
  BY <1>1, EvenSum DEF AsPtr
<1>3. FromRaw(AsPtr(o, T), T) = o
  BY <1>1 DEF AsPtr, FromRaw
<1>4. Tagged(AsPtr(o, T)) = AsPtr(o, T) + 1
  BY <1>2 DEF Tagged
<1>5. QED
  BY <1>2, <1>3, <1>4 DEF IsFirst, Untagged

\* From the address that stands for an allocation in a handle of any kind,
\* the code finds the allocation and its type again.
LEMMA RoundTrip ==
  ASSUME NEW h \in Refs, kind[h] \in Kinds, NEW o \in Objs, NEW T \in Types,
         ptr[h] = AddressAs(kind[h], o, T),
         param[h] = IF kind[h] = "ArcUnion" THEN None ELSE T
  PROVE  InnerOf(h) = o /\ TypeOf(h) = T
<1>1. CASE kind[h] = "Arc"
  BY <1>1 DEF AddressAs, InnerOf, TypeOf
<1>2. CASE kind[h] = "ArcUnion" /\ T = "A"
  <2>1. ptr[h] = AsPtr(o, T)
    BY <1>2 DEF AddressAs, UnionPtr
  <2>2. TypeOf(h) = T /\ DataOf(h) = AsPtr(o, T)
    BY <1>2, <2>1, AddressFacts DEF TypeOf, Variant, DataOf
  <2>3. QED
    BY <1>2, <2>2, AddressFacts DEF InnerOf
<1>3. CASE kind[h] = "ArcUnion" /\ T = "B"
  <2>1. ptr[h] = Tagged(AsPtr(o, T))
    BY <1>3 DEF AddressAs, UnionPtr
  <2>2. TypeOf(h) = T /\ DataOf(h) = AsPtr(o, T)
    BY <1>3, <2>1, AddressFacts DEF TypeOf, Variant, DataOf
  <2>3. QED
    BY <1>3, <2>2, AddressFacts DEF InnerOf
<1>4. CASE kind[h] \in {"OffsetArc", "raw"}
  BY <1>4, AddressFacts DEF AddressAs, InnerOf, TypeOf, DataOf
<1>5. QED
  BY <1>1, <1>2, <1>3, <1>4 DEF Kinds, Types

LEMMA AddressType ==
  ASSUME NEW k \in Kinds, NEW o \in Objs, NEW T \in Types
  PROVE  AddressAs(k, o, T) \in Nat
<1>1. o \in Nat /\ AsPtr(o, T) \in Nat /\ Tagged(AsPtr(o, T)) \in Nat
  BY AddressAssumption, AddressFacts
<1>2. QED
  BY <1>1 DEF AddressAs, UnionPtr, Kinds

-----------------------------------------------------------------------------
(* Handles and their allocations *)

LEMMA HeldSets ==
  ASSUME NEW S \in SUBSET Refs
  PROVE  /\ IsFiniteSet(S) /\ Cardinality(S) \in Nat
         /\ \A h \in Refs \ S : Cardinality(S \cup {h}) = Cardinality(S) + 1
         /\ \A h \in S : /\ Cardinality(S \ {h}) = Cardinality(S) - 1
                         /\ Cardinality(S) >= 1
                         /\ Cardinality(S) = 1 => S = {h}
<1>1. IsFiniteSet(S) /\ Cardinality(S) \in Nat
  BY AddressAssumption, FS_Subset, FS_CardinalityType
<1>2. \A h \in Refs \ S : Cardinality(S \cup {h}) = Cardinality(S) + 1
  BY <1>1, FS_AddElement
<1>3. ASSUME NEW h \in S
      PROVE  /\ Cardinality(S \ {h}) = Cardinality(S) - 1
             /\ Cardinality(S) >= 1
             /\ Cardinality(S) = 1 => S = {h}
  <2>1. Cardinality(S \ {h}) = Cardinality(S) - 1
    BY <1>1, FS_RemoveElement
  <2>2. Cardinality(S) # 0
    BY <1>1, <1>3, FS_EmptySet
  <2>3. ASSUME Cardinality(S) = 1
        PROVE  S = {h}
    <3>1. \E x : S = {x}
      BY <1>1, <2>3, FS_Singleton
    <3>2. QED
      BY <1>3, <3>1
  <2>4. QED
    BY <1>1, <2>1, <2>2, <2>3
<1>4. QED
  BY <1>1, <1>2, <1>3

\* A handle that exists finds its allocation, which is live and counts it.
LEMMA Living ==
  ASSUME Inv, NEW h \in Refs, kind[h] # "absent"
  PROVE  /\ home[h] \in Objs /\ home[h] # None
         /\ kind[h] \in Kinds
         /\ mem[home[h]] = "live" /\ type[home[h]] \in Types
         /\ InnerOf(h) = home[h] /\ TypeOf(h) = type[home[h]]
         /\ h \in Held(home[h])
         /\ count[home[h]] = Cardinality(Held(home[h]))
         /\ count[home[h]] \in Nat /\ count[home[h]] >= 1
         /\ IsLast(count[home[h]]) <=> Held(home[h]) = {h}
<1>1. home[h] \in Objs /\ home[h] # None /\ kind[h] \in Kinds
  BY DEF Inv, TypeOK, Addressed
<1>2. mem[home[h]] = "live" /\ type[home[h]] \in Types
  BY DEF Inv, Addressed
<1>3. InnerOf(h) = home[h] /\ TypeOf(h) = type[home[h]]
  BY <1>1, <1>2, RoundTrip DEF Inv, Addressed
<1>4. h \in Held(home[h]) /\ Held(home[h]) \in SUBSET Refs
  BY DEF Held
<1>5. count[home[h]] = Cardinality(Held(home[h]))
  BY <1>1, <1>2 DEF Inv, HandlesCounted
<1>6. /\ Cardinality(Held(home[h])) \in Nat /\ Cardinality(Held(home[h])) >= 1
      /\ Cardinality(Held(home[h])) = 1 => Held(home[h]) = {h}
  BY <1>4, HeldSets
<1>7. Cardinality({h}) = 1
  BY FS_Singleton
<1>8. QED
  BY <1>1, <1>2, <1>3, <1>4, <1>5, <1>6, <1>7 DEF IsLast

LEMMA NoneHeld ==
  ASSUME Inv, NEW o \in Objs, mem[o] # "live"
  PROVE  Held(o) = {}
BY AddressAssumption DEF Inv, TypeOK, Addressed, Held

LEMMA InvInit == Init => Inv
<1> SUFFICES ASSUME Init
             PROVE  Inv
  OBVIOUS
<1>1. TypeOK
  BY DEF Init, TypeOK, Calls, Idle
<1>2. Addressed /\ Operands /\ Disposers /\ SoleMut
  BY DEF Init, Addressed, Operands, Disposers, SoleMut, Exclusive, Idle
<1>3. HandlesCounted
  BY DEF Init, HandlesCounted
<1>4. QED
  BY <1>1, <1>2, <1>3 DEF Inv

-----------------------------------------------------------------------------
(* Steps of a call that leave counters and handles alone *)

LEMMA InvCall ==
  ASSUME Inv, UNCHANGED <<heap, handles>>, NEW t \in Threads, NEW c \in Calls,
         call' = [call EXCEPT ![t] = c], call[t].obj = None,
         c.obj = None, c.op # "drop_slow",
         c.op \in {"with_arc", "copy", "mut"} => c.ref # None,
         c.ref # None => /\ kind[c.ref] \notin {"absent", "raw"}
                         /\ \A u \in Threads \ {t} :
                              call[u].ref = c.ref => ~Exclusive(call[u]),
         c.ref # None /\ Exclusive(c) =>
           /\ kind[c.ref] = "OffsetArc"
           /\ \A u \in Threads \ {t} : call[u].ref # c.ref,
         c.op = "mut" => Held(home[c.ref]) = {c.ref}
  PROVE  Inv'
<1>1. \A u \in Threads : call'[u] = IF u = t THEN c ELSE call[u]
  BY DEF Inv, TypeOK
<1>2. TypeOK'
  BY DEF Inv, TypeOK, heap, handles
<1>3. Addressed' /\ HandlesCounted'
  BY DEF Inv, Addressed, HandlesCounted, Held, heap, handles
<1>4. Operands'
  <2>1. UNCHANGED kind
    BY DEF handles
  <2>2. ASSUME NEW u \in Threads, NEW w \in Threads \ {u},
               call'[u].ref # None, Exclusive(call'[u])
        PROVE  call'[w].ref # call'[u].ref
    BY <1>1, <2>2 DEF Inv, Operands
  <2>3. \A u \in Threads : Exclusive(call[u])' = Exclusive(call'[u])
    BY DEF Exclusive
  <2>4. QED
    BY <1>1, <2>1, <2>2, <2>3 DEF Inv, Operands
<1>5. Disposers'
  BY <1>1 DEF Inv, Disposers, Held, heap, handles
<1>6. SoleMut'
  BY <1>1 DEF Inv, SoleMut, Held, handles
<1>7. QED
  BY <1>2, <1>3, <1>4, <1>5, <1>6 DEF Inv

LEMMA InvWithArc ==
  ASSUME Inv, NEW t \in Threads, NEW h \in Refs, WithArc(t, h)
  PROVE  Inv'
<1> DEFINE c == In("with_arc", h)
<1>1. c \in Calls /\ c.obj = None /\ c.op = "with_arc" /\ c.ref = h /\ ~Exclusive(c)
  BY DEF In, Calls, Exclusive
<1>2. call[t].obj = None
  BY DEF WithArc, Free, Idle
<1>3. \A u \in Threads : call[u].ref = h => ~Exclusive(call[u])
  BY DEF WithArc, CanShare, Exclusive
<1>4. h # None /\ kind[h] \notin {"absent", "raw"}
  BY AddressAssumption DEF WithArc, CanShare, Kinds
<1> HIDE DEF c
<1>5. UNCHANGED <<heap, handles>> /\ call' = [call EXCEPT ![t] = c]
  BY DEF WithArc, c
<1>6. QED
  BY <1>1, <1>2, <1>3, <1>4, <1>5, InvCall

\* The end of a callback: the transient is not dropped.
LEMMA InvCallbackEnd ==
  ASSUME Inv, NEW t \in Threads, CallbackEnd(t)
  PROVE  Inv'
<1>1. /\ Idle \in Calls /\ Idle.obj = None /\ Idle.op = "idle" /\ Idle.ref = None
      /\ ~Exclusive(Idle)
  BY DEF Idle, Calls, Exclusive
<1>2. call[t].obj = None
  BY DEF CallbackEnd, Inv, Operands
<1>3. UNCHANGED <<heap, handles>>
  BY DEF CallbackEnd, Transient, heap, Inv, TypeOK
<1>4. call' = [call EXCEPT ![t] = Idle]
  BY DEF CallbackEnd
<1>5. QED
  BY <1>1, <1>2, <1>3, <1>4, InvCall

LEMMA InvMutEnd ==
  ASSUME Inv, NEW t \in Threads, MutEnd(t)
  PROVE  Inv'
<1>1. /\ Idle \in Calls /\ Idle.obj = None /\ Idle.op = "idle" /\ Idle.ref = None
      /\ ~Exclusive(Idle)
  BY DEF Idle, Calls, Exclusive
<1>2. call[t].obj = None
  BY DEF MutEnd, Inv, Operands
<1>3. QED
  BY <1>1, <1>2, InvCall DEF MutEnd

\* A count of 1 makes the handle of make_mut the only one.
LEMMA InvMakeMut ==
  ASSUME Inv, NEW t \in Threads, NEW h \in Refs, MakeMut(t, h)
  PROVE  Inv'
<1>1. PICK op \in {"mut", "copy"} :
        /\ call' = [call EXCEPT ![t] = In(op, h)]
        /\ op = "mut" => IsUnique(count[InnerOf(h)])
  BY DEF MakeMut
<1> DEFINE c == In(op, h)
<1>2. c \in Calls /\ c.obj = None /\ c.op = op /\ c.ref = h
  BY DEF In, Calls
<1>3. call[t].obj = None
  BY DEF MakeMut, Free, Idle
<1>4. \A u \in Threads : call[u].ref # h
  BY DEF MakeMut, CanOwn
<1>5. h # None /\ kind[h] = "OffsetArc"
  BY AddressAssumption DEF MakeMut
<1>6. op = "mut" => Held(home[h]) = {h}
  BY <1>1, <1>5, Living DEF IsUnique, IsLast
<1>7. UNCHANGED <<heap, handles>> /\ call' = [call EXCEPT ![t] = c]
  BY <1>1 DEF MakeMut
<1> HIDE DEF c
<1>8. QED
  BY <1>2, <1>3, <1>4, <1>5, <1>6, <1>7, InvCall

-----------------------------------------------------------------------------
(* Handles that come, change and go *)

LEMMA InvNew ==
  ASSUME Inv, NEW t \in Threads, NEW h \in Refs, NEW o \in Objs, NEW T \in Types,
         New(t, h, o, T)
  PROVE  Inv'
<1>1. /\ kind[h] = "absent" /\ home[h] = None
      /\ mem[o] = "free" /\ Held(o) = {} /\ o # None
  BY NoneHeld, AddressAssumption DEF New, Fresh, Inv, Addressed
<1>2. \A u \in Threads : call[u].ref # h /\ call[u].obj # o
  BY <1>1, AddressAssumption DEF Inv, Operands, Disposers
<1>3. /\ mem' = [mem EXCEPT ![o] = "live"] /\ type' = [type EXCEPT ![o] = T]
      /\ count' = [count EXCEPT ![o] = 1] /\ kind' = [kind EXCEPT ![h] = "Arc"]
      /\ param' = [param EXCEPT ![h] = T] /\ ptr' = [ptr EXCEPT ![h] = o]
      /\ home' = [home EXCEPT ![h] = o] /\ call' = call
  BY DEF New, Become, AddressAs
<1>4. \A p \in Objs : Held(p)' = IF p = o THEN {h} ELSE Held(p)
  <2>1. \A g \in Refs : home'[g] = IF g = h THEN o ELSE home[g]
    BY <1>3 DEF Inv, TypeOK
  <2>2. QED
    BY <1>1, <2>1, AddressAssumption DEF Held
<1>5. TypeOK'
  BY <1>3, AddressAssumption DEF Inv, TypeOK, Kinds
<1>6. Addressed'
  <2>1. ASSUME NEW g \in Refs, g # h
        PROVE  /\ UNCHANGED <<kind[g], param[g], ptr[g], home[g]>>
               /\ kind[g] # "absent" => home[g] # o /\ home[g] \in Objs
    BY <1>1, <1>3, <2>1, Living DEF Inv, TypeOK
  <2>2. AddressAs("Arc", o, T) = o
    BY DEF AddressAs
  <2>3. \A p \in Objs \ {o} : mem'[p] = mem[p] /\ type'[p] = type[p]
    BY <1>3 DEF Inv, TypeOK
  <2>4. /\ kind'[h] = "Arc" /\ param'[h] = T /\ ptr'[h] = o /\ home'[h] = o
        /\ mem'[o] = "live" /\ type'[o] = T
    BY <1>3 DEF Inv, TypeOK
  <2>5. QED
    BY <1>1, <2>1, <2>2, <2>3, <2>4 DEF Inv, Addressed
<1>7. Operands'
  BY <1>2, <1>3, AddressAssumption DEF Inv, TypeOK, Operands, Exclusive, Calls
<1>8. Disposers' /\ SoleMut'
  <2>1. Disposers'
    BY <1>2, <1>3, <1>4 DEF Inv, TypeOK, Disposers, Calls
  <2>2. ASSUME NEW u \in Threads, call[u].op \in {"mut", "drop_slow"},
               call[u].ref # None
        PROVE  Held(home[call[u].ref])' = {call[u].ref}
    <3>1. call[u].ref \in Refs \ {h} /\ kind[call[u].ref] # "absent"
      BY <1>2, <2>2 DEF Inv, TypeOK, Calls, Operands
    <3>2. /\ home'[call[u].ref] = home[call[u].ref] /\ home[call[u].ref] \in Objs
          /\ home[call[u].ref] # o
      BY <1>1, <1>3, <3>1, Living DEF Inv, TypeOK
    <3>3. QED
      BY <1>3, <1>4, <2>2, <3>2 DEF Inv, SoleMut, Held
  <2>3. QED
    BY <1>3, <2>1, <2>2 DEF SoleMut
<1>9. HandlesCounted'
  <2>1. Cardinality({h}) = 1
    BY FS_Singleton
  <2>2. QED
    BY <1>3, <1>4, <2>1 DEF Inv, TypeOK, HandlesCounted
<1>10. QED
  BY <1>5, <1>6, <1>7, <1>8, <1>9 DEF Inv

\* Whatever handle is cloned and as whatever kind, the clone belongs to the
\* same allocation, whose counter goes up by one.
LEMMA InvCloneAs ==
  ASSUME Inv, NEW h \in Refs, NEW n \in Refs, NEW k \in Kinds, CloneAs(h, n, k),
         kind[h] # "absent", UNCHANGED call,
         \A u \in Threads : call[u].ref = h => ~Exclusive(call[u])
  PROVE  Inv'
<1> DEFINE o == home[h]
           T == type[o]
<1>1. /\ o \in Objs /\ o # None /\ T \in Types /\ mem[o] = "live" /\ h \in Held(o)
      /\ InnerOf(h) = o /\ TypeOf(h) = T
      /\ count[o] = Cardinality(Held(o)) /\ count[o] \in Nat
  BY Living
<1>2. kind[n] = "absent" /\ home[n] = None /\ n # h
  BY DEF CloneAs, Fresh, Inv, Addressed
<1>3. \A u \in Threads : call[u].ref # n
  BY <1>2, AddressAssumption DEF Inv, Operands
<1>4. /\ count' = [count EXCEPT ![o] = @ + 1] /\ kind' = [kind EXCEPT ![n] = k]
      /\ param' = [param EXCEPT ![n] = IF k = "ArcUnion" THEN None ELSE T]
      /\ ptr' = [ptr EXCEPT ![n] = AddressAs(k, o, T)]
      /\ home' = [home EXCEPT ![n] = o]
      /\ UNCHANGED <<mem, type, call>>
  BY <1>1 DEF CloneAs, Become, CloneArc
<1> HIDE DEF o, T
<1>5. \A g \in Refs : home'[g] = IF g = n THEN o ELSE home[g]
  BY <1>4 DEF Inv, TypeOK
<1>6. \A p \in Objs : Held(p)' = IF p = o THEN Held(p) \cup {n} ELSE Held(p)
  BY <1>1, <1>2, <1>5, AddressAssumption DEF Held
<1>7. TypeOK'
  <2>1. AddressAs(k, o, T) \in Nat
    BY <1>1, AddressType
  <2>2. QED
    BY <1>1, <1>4, <2>1 DEF Inv, TypeOK
<1>8. Addressed'
  <2>1. \A g \in Refs : g # n => UNCHANGED <<kind[g], param[g], ptr[g], home[g]>>
    BY <1>4 DEF Inv, TypeOK
  <2>2. /\ kind'[n] = k /\ param'[n] = (IF k = "ArcUnion" THEN None ELSE T)
        /\ ptr'[n] = AddressAs(k, o, T) /\ home'[n] = o
    BY <1>4 DEF Inv, TypeOK
  <2>3. k # "absent"
    BY DEF Kinds
  <2>4. QED
    BY <1>1, <1>4, <2>1, <2>2, <2>3 DEF Inv, Addressed, T
<1>9. Operands'
  BY <1>3, <1>4, AddressAssumption DEF Inv, TypeOK, Operands, Exclusive, Calls
<1>10. Disposers'
  <2>1. ASSUME NEW u \in Threads, call[u].obj # None
        PROVE  /\ mem'[call[u].obj] = "live" /\ Held(call[u].obj)' = {}
               /\ \A w \in Threads \ {u} : call[w].obj # call[u].obj
    <3>1. call[u].obj \in Objs \ {o}
      BY <1>1, <2>1 DEF Inv, TypeOK, Calls, Disposers
    <3>2. Held(call[u].obj)' = Held(call[u].obj)
      BY <1>4, <1>6, <3>1 DEF Held
    <3>3. QED
      BY <1>4, <2>1, <3>2 DEF Inv, Disposers
  <2>2. QED
    BY <1>4, <2>1 DEF Disposers
<1>11. SoleMut'
  <2>1. ASSUME NEW u \in Threads, call[u].op \in {"mut", "drop_slow"},
               call[u].ref # None
        PROVE  Held(home[call[u].ref])' = {call[u].ref}
    <3>1. call[u].ref \in Refs \ {h, n} /\ kind[call[u].ref] # "absent"
      BY <1>3, <2>1 DEF Inv, TypeOK, Calls, Operands, Exclusive
    <3>2. /\ home'[call[u].ref] = home[call[u].ref]
          /\ home[call[u].ref] \in Objs
          /\ Held(home[call[u].ref]) = {call[u].ref}
      BY <1>5, <2>1, <3>1, Living DEF Inv, SoleMut
    <3>3. home[call[u].ref] # o
      BY <1>1, <3>1, <3>2
    <3>4. QED
      BY <1>4, <1>6, <3>2, <3>3 DEF Held
  <2>2. QED
    BY <1>4, <2>1 DEF SoleMut
<1>12. HandlesCounted'
  <2>1. n \in Refs \ Held(o) /\ Held(o) \in SUBSET Refs
    BY <1>1, <1>2 DEF Held
  <2>2. Cardinality(Held(o) \cup {n}) = Cardinality(Held(o)) + 1
    BY <2>1, HeldSets
  <2>3. QED
    BY <1>1, <1>4, <1>6, <2>2 DEF Inv, TypeOK, HandlesCounted
<1>13. QED
  BY <1>7, <1>8, <1>9, <1>10, <1>11, <1>12 DEF Inv

LEMMA InvClone ==
  ASSUME Inv, NEW t \in Threads, NEW h \in Refs, NEW n \in Refs,
         Clone(t, h, n) \/ BorrowClone(t, h, n)
  PROVE  Inv'
<1>1. /\ kind[h] \in Kinds /\ kind[h] # "absent" /\ "Arc" \in Kinds
      /\ \A u \in Threads : call[u].ref = h => ~Exclusive(call[u])
  BY DEF Clone, BorrowClone, CanShare, Kinds, Exclusive
<1>2. QED
  BY <1>1, InvCloneAs DEF Clone, BorrowClone

LEMMA InvCallbackClone ==
  ASSUME Inv, NEW t \in Threads, NEW n \in Refs, CallbackClone(t, n)
  PROVE  Inv'
<1>1. call[t].ref \in Refs /\ kind[call[t].ref] # "absent"
  BY DEF CallbackClone, Inv, TypeOK, Calls, Operands
<1>2. ASSUME NEW u \in Threads, call[u].ref = call[t].ref
      PROVE  ~Exclusive(call[u])
  BY <1>1, <1>2, AddressAssumption DEF CallbackClone, Exclusive, Inv, Operands
<1>3. {"Arc", "OffsetArc"} \in SUBSET Kinds
  BY DEF Kinds
<1>4. QED
  BY <1>1, <1>2, <1>3, InvCloneAs DEF CallbackClone

\* A conversion computes the new address from the old one; the allocation
\* that counts the handle stays the same.
LEMMA InvConvert ==
  ASSUME Inv, NEW t \in Threads, NEW h \in Refs, NEW k \in Kinds, Convert(t, h, k)
  PROVE  Inv'
<1> DEFINE o == home[h]
           T == type[o]
<1>1. /\ o \in Objs /\ o # None /\ T \in Types /\ mem[o] = "live"
      /\ InnerOf(h) = o /\ TypeOf(h) = T
  BY Living DEF Convert, CanOwn
<1>2. \A u \in Threads : call[u].ref # h
  BY DEF Convert, CanOwn
<1>3. /\ kind' = [kind EXCEPT ![h] = k]
      /\ param' = [param EXCEPT ![h] = IF k = "ArcUnion" THEN None ELSE T]
      /\ ptr' = [ptr EXCEPT ![h] = AddressAs(k, o, T)]
      /\ UNCHANGED <<mem, type, count, home, call>>
  BY <1>1 DEF Convert, Become, heap
<1>4. k # "absent" /\ kind[h] # "absent"
  BY DEF Kinds, Convert, CanOwn
<1> HIDE DEF o, T
<1>5. TypeOK'
  <2>1. AddressAs(k, o, T) \in Nat
    BY <1>1, AddressType
  <2>2. QED
    BY <1>1, <1>3, <2>1 DEF Inv, TypeOK
<1>6. Addressed'
  <2>1. \A g \in Refs : g # h => UNCHANGED <<kind[g], param[g], ptr[g]>>
    BY <1>3 DEF Inv, TypeOK
  <2>2. /\ kind'[h] = k /\ param'[h] = (IF k = "ArcUnion" THEN None ELSE T)
        /\ ptr'[h] = AddressAs(k, o, T)
    BY <1>3 DEF Inv, TypeOK
  <2>3. QED
    BY <1>1, <1>3, <1>4, <2>1, <2>2 DEF Inv, Addressed, o, T
<1>7. Operands'
  BY <1>2, <1>3, AddressAssumption DEF Inv, TypeOK, Operands, Exclusive, Calls
<1>8. Disposers' /\ SoleMut' /\ HandlesCounted'
  BY <1>3 DEF Inv, Disposers, SoleMut, HandlesCounted, Held
<1>9. QED
  BY <1>5, <1>6, <1>7, <1>8 DEF Inv

LEMMA InvDrop ==
  ASSUME Inv, NEW t \in Threads, NEW h \in Refs, Drop(t, h)
  PROVE  Inv'
<1>0. PICK o \in Objs : o = home[h]
  BY Living DEF Drop, CanOwn
<1>1. /\ o # None /\ mem[o] = "live" /\ h \in Held(o)
      /\ InnerOf(h) = o
      /\ count[o] = Cardinality(Held(o)) /\ count[o] \in Nat /\ count[o] >= 1
      /\ IsLast(count[o]) <=> Held(o) = {h}
  BY <1>0, Living DEF Drop, CanOwn
<1>2. \A u \in Threads : call[u].ref # h
  BY DEF Drop, CanOwn
<1>3. \A u \in Threads : call[u].obj # o
  BY <1>1 DEF Inv, Disposers
<1>4. call[t].op = "idle" /\ call[t].obj = None
  BY DEF Drop, Free, Idle
<1>5. PICK c \in Calls :
        /\ call' = [call EXCEPT ![t] = c]
        /\ c.ref = None /\ c.op \in {"idle", "drop_slow"}
        /\ c.op = "drop_slow" <=> c.obj # None
        /\ c.obj = IF IsLast(count[o]) THEN o ELSE None
  <2>1. CASE IsLast(count[o])
    <3> DEFINE d == [op |-> "drop_slow", ref |-> None, obj |-> o]
    <3>1. d \in Calls /\ call' = [call EXCEPT ![t] = d]
      BY <1>1, <2>1 DEF Drop, Lose, Calls
    <3>2. QED
      BY <1>1, <2>1, <3>1
  <2>2. CASE ~IsLast(count[o])
    <3>1. Idle \in Calls /\ call' = [call EXCEPT ![t] = Idle]
      BY <1>1, <2>2 DEF Drop, Lose, Calls, Idle
    <3>2. QED
      BY <2>2, <3>1 DEF Idle
  <2>3. QED
    BY <2>1, <2>2
<1>6. \A u \in Threads : call'[u] = IF u = t THEN c ELSE call[u]
  BY <1>5 DEF Inv, TypeOK
<1>7. /\ count' = [count EXCEPT ![o] = @ - 1] /\ kind' = [kind EXCEPT ![h] = "absent"]
      /\ param' = [param EXCEPT ![h] = None] /\ ptr' = [ptr EXCEPT ![h] = 0]
      /\ home' = [home EXCEPT ![h] = None]
      /\ UNCHANGED <<mem, type>>
  BY <1>1 DEF Drop
<1>8. \A g \in Refs : home'[g] = IF g = h THEN None ELSE home[g]
  BY <1>7 DEF Inv, TypeOK
<1>9. \A p \in Objs : Held(p)' = IF p = o THEN Held(p) \ {h} ELSE Held(p)
  BY <1>0, <1>1, <1>8, AddressAssumption DEF Held
<1>10. TypeOK'
  BY <1>1, <1>5, <1>7 DEF Inv, TypeOK
<1>11. Addressed'
  <2>1. \A g \in Refs : g # h => UNCHANGED <<kind[g], param[g], ptr[g], home[g]>>
    BY <1>7 DEF Inv, TypeOK
  <2>2. kind'[h] = "absent" /\ home'[h] = None
    BY <1>7 DEF Inv, TypeOK
  <2>3. QED
    BY <1>7, <2>1, <2>2 DEF Inv, Addressed
<1>12. Operands'
  <2>1. \A g \in Refs \ {h} : kind'[g] = kind[g]
    BY <1>7 DEF Inv, TypeOK
  <2>2. \A u \in Threads \ {t} : call'[u] = call[u] /\ call[u].ref # h
    BY <1>2, <1>6
  <2>3. call'[t] = c
    BY <1>6
  <2>4. \A u \in Threads : call[u].ref # None => call[u].ref \in Refs
    BY DEF Inv, TypeOK, Calls
  <2>5. QED
    BY <1>5, <2>1, <2>2, <2>3, <2>4 DEF Inv, Operands, Exclusive
<1>13. Disposers'
  <2>1. ASSUME NEW u \in Threads, NEW p \in Objs, call'[u].obj = p
        PROVE  /\ mem'[p] = "live" /\ Held(p)' = {}
               /\ \A w \in Threads \ {u} : call'[w].obj # p
    <3>0. p # None
      BY AddressAssumption
    <3>1. CASE u = t
      <4>1. p = o /\ Held(o) = {h}
        BY <1>1, <1>5, <1>6, <2>1, <3>0, <3>1
      <4>2. QED
        BY <1>1, <1>3, <1>6, <1>7, <1>9, <3>1, <4>1
    <3>2. CASE u # t
      <4>1. /\ call[u].obj = p /\ p # o /\ mem[p] = "live" /\ Held(p) = {}
            /\ \A w \in Threads \ {u} : call[w].obj # p
        BY <1>3, <1>6, <2>1, <3>0, <3>2 DEF Inv, Disposers
      <4>2. QED
        BY <1>5, <1>6, <1>7, <1>9, <3>0, <4>1
    <3>3. QED
      BY <3>1, <3>2
  <2>2. QED
    BY <1>10, <2>1 DEF Disposers, TypeOK, Calls, Held
<1>14. SoleMut'
  <2>1. ASSUME NEW u \in Threads \ {t}, call[u].op \in {"mut", "drop_slow"},
               call[u].ref # None
        PROVE  Held(home[call[u].ref])' = {call[u].ref}
    <3>1. call[u].ref \in Refs \ {h} /\ kind[call[u].ref] # "absent"
      BY <1>2, <2>1 DEF Inv, TypeOK, Calls, Operands
    <3>2. /\ home'[call[u].ref] = home[call[u].ref]
          /\ home[call[u].ref] \in Objs
          /\ Held(home[call[u].ref]) = {call[u].ref}
      BY <1>8, <2>1, <3>1, Living DEF Inv, SoleMut
    <3>3. home[call[u].ref] # o
      BY <1>1, <3>1, <3>2
    <3>4. QED
      BY <1>6, <1>9, <3>2, <3>3 DEF Held
  <2>2. QED
    BY <1>5, <1>6, <2>1 DEF SoleMut
<1>15. HandlesCounted'
  <2>1. Cardinality(Held(o) \ {h}) = Cardinality(Held(o)) - 1
    BY <1>1, HeldSets DEF Held
  <2>2. QED
    BY <1>1, <1>7, <1>9, <2>1 DEF Inv, TypeOK, HandlesCounted
<1>16. QED
  BY <1>10, <1>11, <1>12, <1>13, <1>14, <1>15 DEF Inv

LEMMA InvDropSlow ==
  ASSUME Inv, NEW t \in Threads, DropSlow(t)
  PROVE  Inv'
<1> DEFINE o == call[t].obj
           r == call[t].ref
<1>1. o \in Objs /\ mem[o] = "live" /\ Held(o) = {}
  BY DEF DropSlow, Inv, TypeOK, Calls, Operands, Disposers
<1>2. \A u \in Threads \ {t} : call[u].obj # o
  BY <1>1, AddressAssumption DEF Inv, Disposers
<1>3. PICK c \in Calls :
        /\ call' = [call EXCEPT ![t] = c]
        /\ c.obj = None /\ c.ref = r
        /\ c.op = IF r = None THEN "idle" ELSE "mut"
  <2>1. r \in Refs \cup {None}
    BY DEF Inv, TypeOK, Calls
  <2>2. CASE r = None
    <3>1. Idle \in Calls /\ call' = [call EXCEPT ![t] = Idle]
      BY <2>2 DEF DropSlow, Calls, Idle
    <3>2. QED
      BY <2>2, <3>1 DEF Idle
  <2>3. CASE r # None
    <3>1. In("mut", r) \in Calls /\ call' = [call EXCEPT ![t] = In("mut", r)]
      BY <2>1, <2>3 DEF DropSlow, Calls, In
    <3>2. QED
      BY <2>3, <3>1 DEF In
  <2>4. QED
    BY <2>2, <2>3
<1>4. \A u \in Threads : call'[u] = IF u = t THEN c ELSE call[u]
  BY <1>3 DEF Inv, TypeOK
<1>5. call[t].op = "drop_slow" /\ Exclusive(call[t])
  BY DEF DropSlow, Exclusive
<1>6. mem' = [mem EXCEPT ![o] = "boxed"]
      /\ UNCHANGED <<type, count, kind, param, ptr, home>>
  BY DEF DropSlow, handles
<1> HIDE DEF o, r
<1>7. TypeOK'
  BY <1>3, <1>6 DEF Inv, TypeOK
<1>8. Addressed'
  <2>1. \A g \in Refs : kind[g] # "absent" => home[g] # o
    BY <1>1 DEF Held
  <2>2. QED
    BY <1>6, <2>1 DEF Inv, TypeOK, Addressed
<1>9. Operands'
  BY <1>3, <1>4, <1>5, <1>6 DEF Inv, Operands, Exclusive, r
<1>10. Disposers'
  BY <1>1, <1>2, <1>3, <1>4, <1>6 DEF Inv, TypeOK, Calls, Disposers, Held
<1>11. SoleMut'
  BY <1>3, <1>4, <1>5, <1>6 DEF Inv, SoleMut, Held, r
<1>12. HandlesCounted'
  BY <1>1, <1>6 DEF Inv, TypeOK, HandlesCounted, Held
<1>13. QED
  BY <1>7, <1>8, <1>9, <1>10, <1>11, <1>12 DEF Inv

LEMMA InvStrategyDrops ==
  ASSUME Inv, NEW o \in Objs, StrategyDrops(o)
  PROVE  Inv'
<1>1. /\ mem[o] = "boxed" /\ mem' = [mem EXCEPT ![o] = "free"]
      /\ type' = [type EXCEPT ![o] = None]
      /\ UNCHANGED <<count, kind, param, ptr, home, call>>
  BY DEF StrategyDrops, handles
<1>2. Held(o) = {}
  BY <1>1, NoneHeld
<1>3. TypeOK'
  BY <1>1 DEF Inv, TypeOK
<1>4. Addressed'
  <2>1. \A g \in Refs : kind[g] # "absent" => home[g] # o
    BY <1>2 DEF Held
  <2>2. QED
    BY <1>1, <2>1 DEF Inv, TypeOK, Addressed
<1>5. Operands' /\ SoleMut'
  BY <1>1 DEF Inv, Operands, Exclusive, SoleMut, Held
<1>6. Disposers' /\ HandlesCounted'
  BY <1>1 DEF Inv, TypeOK, Disposers, HandlesCounted, Held
<1>7. QED
  BY <1>3, <1>4, <1>5, <1>6 DEF Inv

\* The OffsetArc moves to an allocation of its own; if it was the last owner
\* of the old one after all, the old one is disposed of.
LEMMA InvReplace ==
  ASSUME Inv, NEW t \in Threads, NEW o \in Objs, Replace(t, o)
  PROVE  Inv'
<1>1. PICK h \in Refs : h = call[t].ref /\ kind[h] = "OffsetArc" /\ h # None
  BY AddressAssumption DEF Replace, Inv, TypeOK, Calls, Operands, Exclusive
<1>2. PICK p \in Objs : p = home[h]
  BY <1>1, Living
<1>3. /\ p # None /\ mem[p] = "live" /\ h \in Held(p)
      /\ type[p] \in Types /\ InnerOf(h) = p /\ TypeOf(h) = type[p]
      /\ count[p] = Cardinality(Held(p)) /\ count[p] \in Nat /\ count[p] >= 1
      /\ IsLast(count[p]) <=> Held(p) = {h}
  BY <1>1, <1>2, Living
<1>4. mem[o] = "free" /\ o # p /\ Held(o) = {}
  BY <1>3, NoneHeld DEF Replace
<1>5. \A u \in Threads \ {t} : call[u].ref # h
  BY <1>1 DEF Replace, Inv, Operands, Exclusive
<1>6. \A u \in Threads : call[u].obj \notin {o, p}
  BY <1>3, <1>4, AddressAssumption DEF Inv, Disposers
<1>7. PICK c \in Calls :
        /\ call' = [call EXCEPT ![t] = c]
        /\ c.ref = h /\ c.op \in {"mut", "drop_slow"}
        /\ c.op = "drop_slow" <=> c.obj # None
        /\ c.obj = IF IsLast(count[p]) THEN p ELSE None
  <2>1. CASE IsLast(count[p])
    <3> DEFINE d == [op |-> "drop_slow", ref |-> h, obj |-> p]
    <3>1. d \in Calls /\ call' = [call EXCEPT ![t] = d]
      BY <1>1, <1>3, <2>1 DEF Replace, Lose, Calls
    <3>2. QED
      BY <1>3, <2>1, <3>1
  <2>2. CASE ~IsLast(count[p])
    <3>1. In("mut", h) \in Calls /\ call' = [call EXCEPT ![t] = In("mut", h)]
      BY <1>1, <1>3, <2>2 DEF Replace, Lose, Calls, In
    <3>2. QED
      BY <2>2, <3>1 DEF In
  <2>3. QED
    BY <2>1, <2>2
<1>8. \A u \in Threads : call'[u] = IF u = t THEN c ELSE call[u]
  BY <1>7 DEF Inv, TypeOK
<1>9. /\ mem' = [mem EXCEPT ![o] = "live"] /\ type' = [type EXCEPT ![o] = type[p]]
      /\ count' = [count EXCEPT ![o] = 1, ![p] = @ - 1]
      /\ kind' = [kind EXCEPT ![h] = "OffsetArc"]
      /\ param' = [param EXCEPT ![h] = type[p]]
      /\ ptr' = [ptr EXCEPT ![h] = AddressAs("OffsetArc", o, type[p])]
      /\ home' = [home EXCEPT ![h] = o]
  BY <1>1, <1>3 DEF Replace, Become
<1>10. \A g \in Refs : home'[g] = IF g = h THEN o ELSE home[g]
  BY <1>9 DEF Inv, TypeOK
<1>11. \A q \in Objs : Held(q)' = IF q = o THEN {h}
                                  ELSE IF q = p THEN Held(q) \ {h} ELSE Held(q)
  BY <1>1, <1>2, <1>4, <1>10 DEF Held
<1>12. TypeOK'
  <2>1. AddressAs("OffsetArc", o, type[p]) \in Nat
    BY <1>3, AddressType DEF Kinds
  <2>2. count' \in [Objs -> Nat]
    BY <1>3, <1>4, <1>9 DEF Inv, TypeOK
  <2>3. call' \in [Threads -> Calls]
    BY <1>7 DEF Inv, TypeOK
  <2>4. kind' \in [Refs -> Kinds \cup {"absent"}] /\ home' \in [Refs -> Objs \cup {None}]
    BY <1>9 DEF Inv, TypeOK, Kinds
  <2>5. QED
    BY <1>3, <1>9, <2>1, <2>2, <2>3, <2>4 DEF Inv, TypeOK
<1>13. Addressed'
  <2>1. ASSUME NEW g \in Refs, g # h
        PROVE  /\ UNCHANGED <<kind[g], param[g], ptr[g], home[g]>>
               /\ kind[g] # "absent" => home[g] # o /\ home[g] \in Objs
    BY <1>4, <1>9, <2>1, Living DEF Inv, TypeOK
  <2>2. \A q \in Objs \ {o} : mem'[q] = mem[q] /\ type'[q] = type[q]
    BY <1>9 DEF Inv, TypeOK
  <2>3. /\ kind'[h] = "OffsetArc" /\ param'[h] = type[p] /\ home'[h] = o
        /\ ptr'[h] = AddressAs("OffsetArc", o, type[p])
        /\ mem'[o] = "live" /\ type'[o] = type[p]
    BY <1>9 DEF Inv, TypeOK
  <2>4. o # None
    BY AddressAssumption
  <2>5. QED
    BY <1>3, <2>1, <2>2, <2>3, <2>4 DEF Inv, Addressed
<1>14. Operands'
  <2>1. \A g \in Refs : kind'[g] = kind[g]
    BY <1>1, <1>9 DEF Inv, TypeOK
  <2>2. \A u \in Threads : call[u].ref # None => call[u].ref \in Refs
    BY DEF Inv, TypeOK, Calls
  <2>3. QED
    BY <1>1, <1>5, <1>7, <1>8, <2>1, <2>2 DEF Inv, Operands, Exclusive
<1>15. Disposers'
  <2>1. ASSUME NEW u \in Threads, NEW q \in Objs, call'[u].obj = q
        PROVE  /\ mem'[q] = "live" /\ Held(q)' = {}
               /\ \A w \in Threads \ {u} : call'[w].obj # q
    <3>0. q # None
      BY AddressAssumption
    <3>1. CASE u = t
      <4>1. q = p /\ Held(p) = {h}
        BY <1>3, <1>7, <1>8, <2>1, <3>0, <3>1
      <4>2. mem'[p] = "live"
        BY <1>3, <1>4, <1>9 DEF Inv, TypeOK
      <4>3. QED
        BY <1>4, <1>6, <1>8, <1>11, <3>1, <4>1, <4>2
    <3>2. CASE u # t
      <4>1. /\ call[u].obj = q /\ q # p /\ q # o /\ mem[q] = "live" /\ Held(q) = {}
            /\ \A w \in Threads \ {u} : call[w].obj # q
        BY <1>6, <1>8, <2>1, <3>0, <3>2 DEF Inv, Disposers
      <4>2. mem'[q] = "live"
        BY <1>9, <4>1 DEF Inv, TypeOK
      <4>3. QED
        BY <1>7, <1>8, <1>11, <3>0, <4>1, <4>2
    <3>3. QED
      BY <3>1, <3>2
  <2>2. QED
    BY <1>12, <2>1 DEF Disposers, TypeOK, Calls, Held
<1>16. SoleMut'
  <2>1. ASSUME NEW u \in Threads \ {t}, NEW g \in Refs, call[u].ref = g,
               call[u].op \in {"mut", "drop_slow"}
        PROVE  Held(home[g])' = {g}
    <3>1. g # h /\ g # None /\ kind[g] # "absent"
      BY <1>5, <2>1, AddressAssumption DEF Inv, Operands
    <3>2. PICK q \in Objs : q = home[g] /\ Held(q) = {g} /\ home'[g] = q
      BY <1>10, <2>1, <3>1, Living DEF Inv, SoleMut
    <3>3. q # p /\ q # o
      BY <1>3, <1>4, <3>1, <3>2
    <3>4. QED
      BY <1>11, <3>2, <3>3
  <2>2. Held(home[h])' = {h}
    BY <1>10, <1>11
  <2>3. ASSUME NEW u \in Threads, call'[u].op \in {"mut", "drop_slow"},
               call'[u].ref # None
        PROVE  Held(home[call[u].ref])' = {call'[u].ref}
    <3>1. call'[u].ref \in Refs
      BY <1>12, <2>3 DEF TypeOK, Calls
    <3>2. QED
      BY <1>7, <1>8, <2>1, <2>2, <2>3, <3>1 DEF Held
  <2>4. QED
    BY <2>3 DEF SoleMut
<1>17. HandlesCounted'
  <2>1. Cardinality({h}) = 1 /\ Cardinality(Held(p) \ {h}) = Cardinality(Held(p)) - 1
    BY <1>3, HeldSets, FS_Singleton DEF Held
  <2>2. count'[o] = 1 /\ count'[p] = count[p] - 1
        /\ \A q \in Objs \ {o, p} : count'[q] = count[q] /\ mem'[q] = mem[q]
    BY <1>4, <1>9 DEF Inv, TypeOK
  <2>3. QED
    BY <1>3, <1>11, <2>1, <2>2 DEF Inv, HandlesCounted
<1>18. QED
  BY <1>12, <1>13, <1>14, <1>15, <1>16, <1>17 DEF Inv

LEMMA InvNext == Inv /\ [Next]_vars => Inv'
<1> SUFFICES ASSUME Inv, [Next]_vars
             PROVE  Inv'
  OBVIOUS
<1>1. CASE Next
  BY <1>1, InvNew, InvClone, InvWithArc, InvCallbackClone, InvConvert, InvDrop,
     InvMakeMut, InvReplace, InvCallbackEnd, InvDropSlow, InvMutEnd, InvStrategyDrops
     DEF Next
<1>2. CASE UNCHANGED vars
  BY <1>2 DEF vars, Inv, TypeOK, Addressed, Operands, Exclusive, Disposers, SoleMut,
              HandlesCounted, Held
<1>3. QED
  BY <1>1, <1>2

LEMMA Invariant == SafeSpec => []Inv
BY InvInit, InvNext, PTL DEF SafeSpec

-----------------------------------------------------------------------------
(* What it establishes *)

\* Every variable of the handles keeps its type; no counter goes below zero.
THEOREM HandlesTyped == SafeSpec => []TypeOK
<1>1. Inv => TypeOK
  BY DEF Inv
<1>2. QED
  BY <1>1, Invariant, PTL

\* However often a reference changes between Arc, OffsetArc, ArcUnion and raw
\* pointer, whatever the data offsets of the types are, the handle leads back
\* to the allocation that counts it, as the type it was allocated for.
THEOREM HandlesPointHome == SafeSpec => []PointsHome
<1>1. Inv => PointsHome
  BY Living DEF PointsHome
<1>2. QED
  BY <1>1, Invariant, PTL

\* The counter is the number of handles of all kinds: no conversion, borrow,
\* callback or clone through another kind adds or loses one.
THEOREM HandlesAreCounted == SafeSpec => []HandlesCounted
<1>1. Inv => HandlesCounted
  BY DEF Inv
<1>2. QED
  BY <1>1, Invariant, PTL

\* The &mut T of OffsetArc::make_mut is the only way to the T.
THEOREM OffsetMutIsSole == SafeSpec => []MutIsSole
<1>1. Inv => MutIsSole
  BY DEF Inv, SoleMut, MutIsSole, Operands
<1>2. QED
  BY <1>1, Invariant, PTL

-----------------------------------------------------------------------------
(* Handles own as plain owners do *)

\* The owners and the contents of the abstract specification.
AbsOwners == [o \in Objs |-> Held(o)]
AbsVal == [o \in Objs |-> IF mem[o] = "free" THEN None ELSE "contents"]

LEMMA AbsInit == Init => Abs!Init
BY AddressAssumption DEF Init, Held, Abs!Init

LEMMA FreshOwnsNothing ==
  ASSUME Inv
  PROVE  Fresh \in SUBSET Abs!Unowned
BY AddressAssumption DEF Inv, Addressed, Fresh, Held, Abs!Unowned

LEMMA Stutters ==
  ASSUME UNCHANGED <<mem, home>>
  PROVE  UNCHANGED Abs!vars
BY DEF Held, Abs!vars

LEMMA AbsNew ==
  ASSUME Inv, NEW t \in Threads, NEW h \in Refs, NEW o \in Objs, NEW T \in Types,
         New(t, h, o, T)
  PROVE  Abs!Create(o, h, "contents")
<1>1. h \in Abs!Unowned /\ home[h] = None
  BY FreshOwnsNothing DEF New, Fresh, Inv, Addressed
<1>2. /\ mem[o] = "free" /\ mem' = [mem EXCEPT ![o] = "live"]
      /\ Held(o) = {}
  BY NoneHeld DEF New
<1>3. \A g \in Refs : home'[g] = IF g = h THEN o ELSE home[g]
  BY DEF New, Inv, TypeOK
<1>4. \A p \in Objs : Held(p)' = IF p = o THEN {h} ELSE Held(p)
  BY <1>1, <1>2, <1>3, AddressAssumption DEF Held
<1>5. AbsOwners' = [AbsOwners EXCEPT ![o] = {h}]
  BY <1>4 DEF AbsOwners
<1>6. AbsVal' = [AbsVal EXCEPT ![o] = "contents"]
  BY <1>2 DEF AbsVal, Inv, TypeOK
<1>7. QED
  BY <1>1, <1>2, <1>5, <1>6 DEF AbsOwners, AbsVal, Abs!Create

LEMMA AbsCloneAs ==
  ASSUME Inv, NEW h \in Refs, NEW n \in Refs, NEW k \in Kinds, CloneAs(h, n, k),
         kind[h] # "absent"
  PROVE  \E o \in Objs : Abs!Share(o, {n})
<1>1. PICK o \in Objs : o = home[h] /\ h \in Held(o)
  BY Living
<1>2. {n} \in SUBSET Abs!Unowned /\ home[n] = None
  BY FreshOwnsNothing DEF CloneAs, Fresh, Inv, Addressed
<1>3. \A g \in Refs : home'[g] = IF g = n THEN o ELSE home[g]
  BY <1>1 DEF CloneAs, Inv, TypeOK
<1>4. \A p \in Objs : Held(p)' = IF p = o THEN Held(p) \cup {n} ELSE Held(p)
  BY <1>2, <1>3, AddressAssumption DEF Held
<1>5. AbsOwners' = [AbsOwners EXCEPT ![o] = @ \cup {n}]
  BY <1>4 DEF AbsOwners
<1>6. UNCHANGED <<mem, AbsVal>>
  BY DEF CloneAs, AbsVal
<1>7. QED
  BY <1>1, <1>2, <1>5, <1>6 DEF AbsOwners, AbsVal, Abs!Share

LEMMA AbsDrop ==
  ASSUME Inv, NEW t \in Threads, NEW h \in Refs, Drop(t, h)
  PROVE  \E o \in Objs : Abs!Release(o, {h})
<1>1. PICK o \in Objs : o = home[h] /\ h \in Held(o)
  BY Living DEF Drop, CanOwn
<1>2. \A g \in Refs : home'[g] = IF g = h THEN None ELSE home[g]
  BY DEF Drop, Inv, TypeOK
<1>3. \A p \in Objs : Held(p)' = IF p = o THEN Held(p) \ {h} ELSE Held(p)
  BY <1>1, <1>2, AddressAssumption DEF Held
<1>4. AbsOwners' = [AbsOwners EXCEPT ![o] = @ \ {h}]
  BY <1>3 DEF AbsOwners
<1>5. UNCHANGED <<mem, AbsVal>>
  BY DEF Drop, AbsVal
<1>6. QED
  BY <1>1, <1>4, <1>5 DEF AbsOwners, AbsVal, Abs!Release

LEMMA AbsReplace ==
  ASSUME Inv, NEW t \in Threads, NEW o \in Objs, Replace(t, o)
  PROVE  \E p \in Objs, h \in Refs : Abs!Split(p, o, h)
<1>1. PICK h \in Refs : h = call[t].ref /\ kind[h] # "absent"
  BY AddressAssumption DEF Replace, Inv, TypeOK, Calls, Operands
<1>2. PICK p \in Objs : p = home[h] /\ h \in Held(p) /\ mem[p] = "live"
  BY <1>1, Living
<1>3. /\ mem[o] = "free" /\ mem' = [mem EXCEPT ![o] = "live"]
      /\ Held(o) = {} /\ o # p
  BY <1>2, NoneHeld DEF Replace
<1>4. \A g \in Refs : home'[g] = IF g = h THEN o ELSE home[g]
  BY <1>1 DEF Replace, Inv, TypeOK
<1>5. \A q \in Objs : Held(q)' = IF q = o THEN {h}
                                 ELSE IF q = p THEN Held(q) \ {h} ELSE Held(q)
  BY <1>1, <1>2, <1>3, <1>4 DEF Held
<1>6. AbsOwners' = [AbsOwners EXCEPT ![p] = @ \ {h}, ![o] = {h}]
  BY <1>3, <1>5 DEF AbsOwners
<1>7. AbsVal' = [AbsVal EXCEPT ![o] = AbsVal[p]]
  BY <1>2, <1>3 DEF AbsVal, Inv, TypeOK
<1>8. QED
  BY <1>1, <1>2, <1>3, <1>6, <1>7 DEF AbsOwners, AbsVal, Abs!Split

LEMMA AbsDropSlow ==
  ASSUME Inv, NEW t \in Threads, DropSlow(t)
  PROVE  \E o \in Objs : Abs!Dispose(o)
<1>1. PICK o \in Objs : o = call[t].obj /\ mem[o] = "live" /\ Held(o) = {}
  BY DEF DropSlow, Inv, TypeOK, Calls, Operands, Disposers
<1>2. UNCHANGED AbsOwners /\ mem' = [mem EXCEPT ![o] = "boxed"]
  BY <1>1 DEF DropSlow, handles, AbsOwners, Held
<1>3. UNCHANGED AbsVal
  BY <1>1, <1>2 DEF AbsVal, Inv, TypeOK
<1>4. QED
  BY <1>1, <1>2, <1>3 DEF AbsOwners, AbsVal, Abs!Dispose

LEMMA AbsStrategyDrops ==
  ASSUME Inv, NEW o \in Objs, StrategyDrops(o)
  PROVE  Abs!Reclaim(o)
<1>1. UNCHANGED AbsOwners /\ mem[o] = "boxed" /\ mem' = [mem EXCEPT ![o] = "free"]
  BY DEF StrategyDrops, handles, AbsOwners, Held
<1>2. AbsVal' = [AbsVal EXCEPT ![o] = None]
  BY <1>1 DEF AbsVal, Inv, TypeOK
<1>3. QED
  BY <1>1, <1>2 DEF AbsOwners, AbsVal, Abs!Reclaim

LEMMA AbsNext == Inv /\ [Next]_vars => [Abs!Next]_(Abs!vars)
<1> SUFFICES ASSUME Inv, [Next]_vars
             PROVE  Abs!Next \/ UNCHANGED Abs!vars
  OBVIOUS
<1>1. ASSUME NEW t \in Threads, NEW h \in Refs, NEW o \in Objs, NEW T \in Types,
             New(t, h, o, T)
      PROVE  Abs!Next
  BY <1>1, AbsNew DEF Abs!Next
<1>2. ASSUME NEW n \in Refs, NEW h \in Refs, NEW k \in Kinds, CloneAs(h, n, k),
             kind[h] # "absent"
      PROVE  Abs!Next
  <2>1. {n} \in SUBSET Refs
    OBVIOUS
  <2>2. QED
    BY <1>2, <2>1, AbsCloneAs DEF Abs!Next
<1>3. ASSUME NEW t \in Threads, NEW h \in Refs, NEW n \in Refs,
             \/ Clone(t, h, n) \/ BorrowClone(t, h, n)
      PROVE  Abs!Next
  BY <1>2, <1>3 DEF Clone, BorrowClone, CanShare, Kinds
<1>4. ASSUME NEW t \in Threads, NEW n \in Refs, CallbackClone(t, n)
      PROVE  Abs!Next
  <2>1. call[t].ref \in Refs /\ kind[call[t].ref] # "absent"
    BY <1>4 DEF CallbackClone, Inv, TypeOK, Calls, Operands
  <2>2. QED
    BY <1>2, <1>4, <2>1 DEF CallbackClone, Kinds
<1>5. ASSUME NEW t \in Threads, NEW h \in Refs, Drop(t, h)
      PROVE  Abs!Next
  <2>1. {h} \in SUBSET Refs
    OBVIOUS
  <2>2. QED
    BY <1>5, <2>1, AbsDrop DEF Abs!Next
<1>6. ASSUME NEW t \in Threads, NEW o \in Objs, Replace(t, o)
      PROVE  Abs!Next
  BY <1>6, AbsReplace DEF Abs!Next
<1>7. ASSUME NEW t \in Threads, DropSlow(t)
      PROVE  Abs!Next
  BY <1>7, AbsDropSlow DEF Abs!Next
<1>8. ASSUME NEW o \in Objs, StrategyDrops(o)
      PROVE  Abs!Next
  BY <1>8, AbsStrategyDrops DEF Abs!Next
<1>9. CASE UNCHANGED <<mem, home>>
  BY <1>9, Stutters
<1>10. QED
  BY <1>1, <1>3, <1>4, <1>5, <1>6, <1>7, <1>8, <1>9
     DEF Next, vars, WithArc, CallbackEnd, Convert, MakeMut, MutEnd, heap, handles

\* Handles of every kind together implement shared ownership step by step: to
\* Ownership a conversion, a borrow or a callback is no step at all.
THEOREM HandlesImplementOwnership == SafeSpec => Abs!SafeSpec
BY AbsInit, AbsNext, Invariant, PTL DEF SafeSpec, Abs!SafeSpec
=============================================================================
