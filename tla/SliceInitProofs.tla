-------------------------- MODULE SliceInitProofs --------------------------
(***************************************************************************)
(* Proofs about SliceInit: whatever the iterator does, no element is ever  *)
(* dropped twice, an Arc that somebody gets has all its elements, and what *)
(* is neither dropped nor owned is in memory that a panic has leaked; for  *)
(* any number of elements and of Arcs.                                     *)
(*                                                                         *)
(* The argument is about places: an element is at most in one of the       *)
(* source, the Vec and the new slice, except between the bitwise copy out  *)
(* of a Vec and its set_len(0), where nothing can panic.                   *)
(***************************************************************************)
EXTENDS SliceInit, FiniteSetTheorems, TLAPS

InVec(e)   == \E k \in 1 .. Len(vec) : vec[k] = e
InSlots(e) == \E k \in Index : slots[k] = e

\* No place holds an element twice.
Once ==
  /\ \A j, k \in 1 .. Len(vec) : vec[j] = vec[k] => j = k
  /\ \A j, k \in Index : slots[j] = slots[k] /\ slots[j] # None => j = k

\* The places do not share elements, and hold none that was dropped.
Apart ==
  /\ \A e \in src : ~InVec(e) /\ drops[e] = 0 /\ (how # "slice" => ~InSlots(e))
  /\ \A k \in 1 .. Len(vec) : drops[vec[k]] = 0
  /\ pc # "dropped" => \A k \in Written : drops[slots[k]] = 0
  /\ \A e \in Elems : drops[e] <= 1

\* There is room for what may still come.
Room ==
  /\ Len(vec) + Cardinality(src) <= MaxLen
  /\ inits + uninits <= MaxArcs

\* The slice has what it was given, so far, or all of it.
Begun  == /\ header = "inner" /\ Written = 1 .. Len(given)
          /\ \A k \in 1 .. Len(given) : slots[k] = given[k]
Filled == Begun /\ len = Len(given)

Loop   == {"write"}
Checks == {"first_check", "second_check", "return_iter"}
Early  == {"hint", "exact", "collect", "len", "alloc", "vec", "slice", "new_uninit"}

\* What is where at each step.
Stages ==
  /\ pc \in {"hint", "exact", "collect"} => how = "from_iter"
  /\ pc \in {"len", "alloc"} \cup Loop \cup Checks => how \in {"from_iter", "header_and_iter"}
  /\ pc \in {"vec", "copy", "set_len", "return_vec"} =>
       how \in {"from_iter", "vec", "box"} /\ src = {}
  /\ pc = "slice" => how = "slice"
  /\ pc = "new_uninit" => how = "uninit"
  /\ vec # <<>> => pc \in {"collect", "vec", "copy", "set_len"}
  /\ pc \in Early => Written = {} /\ given = <<>>
  /\ pc = "copy" => Written = {} /\ header = "inner" /\ len = Len(vec)
  /\ pc = "set_len" => given = vec /\ Filled
  /\ pc \in {"return_vec"} \cup Checks => Filled
  /\ pc \in Loop => Begun /\ Len(given) <= len
  /\ inits > 0 => pc = "shared" /\ Filled
  /\ uninits > 0 => pc = "shared" /\ how = "uninit" /\ header = "inner"
  /\ pc = "shared" => inits + uninits > 0
  /\ pc = "shared" /\ how \notin {"slice", "uninit"} => src = {}

\* Nothing has gone missing, where the program may not throw it away itself.
Kept ==
  pc \notin {"shared", "dropped", "leaked"} \/ how \notin {"slice", "uninit"} =>
    \A e \in taken : e \in src \/ InVec(e) \/ InSlots(e) \/ drops[e] = 1

\* An honest iterator has as many elements as are still asked for.
Promise ==
  honest =>
    /\ pc \in {"alloc"} \cup Loop => len = Len(given) + Cardinality(src)
    /\ pc \in Checks => src = {}

Inv == TypeOK /\ Once /\ Apart /\ Room /\ Stages /\ Kept /\ Promise /\ NothingLost
-----------------------------------------------------------------------------
(* What the invariant says of the properties *)

AllPcs == {"hint", "exact", "collect", "len", "alloc", "write", "first_check",
           "second_check", "return_iter", "vec", "copy", "set_len", "return_vec",
           "slice", "new_uninit", "shared", "dropped", "unwound", "leaked"}

LEMMA IndexFacts ==
  /\ MaxLen \in Nat /\ Index = 1 .. MaxLen /\ None \notin Elems /\ MaxArcs \in Nat /\ MaxArcs # 0
  /\ \A n \in 0 .. MaxLen : n \in Nat /\ 1 .. n \subseteq Index
BY SliceAssumption DEF Index

\* Positions of one element: none or one.
LEMMA AtMostOne ==
  ASSUME NEW n \in Nat, NEW P \in SUBSET (1 .. n), \A j, k \in P : j = k
  PROVE  Cardinality(P) = IF P = {} THEN 0 ELSE 1
<1>1. CASE P = {}
  BY <1>1, FS_EmptySet
<1>2. CASE P # {}
  <2>1. PICK k \in P : P = {k}
    BY <1>2
  <2>2. QED
    BY <1>2, <2>1, FS_Singleton
<1>3. QED
  BY <1>1, <1>2

LEMMA InvOneOwner == Inv => OneOwner
<1> SUFFICES ASSUME Inv, NEW e \in Elems,
                    how # "slice" \/ pc \notin {"shared", "dropped"}
             PROVE  Owners(e) + drops[e] <= 1
  BY DEF OneOwner
<1> DEFINE P == {k \in 1 .. Len(vec) : vec[k] = e}
           Q == {k \in 1 .. len : slots[k] = e}
<1>1. /\ vec \in Seq(Elems) /\ Len(vec) \in Nat /\ len \in Nat /\ 1 .. len \subseteq Index
      /\ drops[e] \in Nat /\ drops[e] <= 1 /\ inits \in Nat
  BY IndexFacts DEF Inv, TypeOK, Apart
<1>2. Cardinality(P) = IF P = {} THEN 0 ELSE 1
  <2>1. \A j, k \in P : j = k
    BY DEF Inv, Once
  <2>2. P \in SUBSET (1 .. Len(vec))
    OBVIOUS
  <2>3. QED
    BY <1>1, <2>1, <2>2, AtMostOne
<1>3. Cardinality(Q) = IF Q = {} THEN 0 ELSE 1
  <2>1. \A j, k \in Q : j = k
    BY <1>1, IndexFacts DEF Inv, Once
  <2>2. Q \in SUBSET (1 .. len)
    OBVIOUS
  <2>3. QED
    BY <1>1, <2>1, <2>2, AtMostOne
<1>4. P # {} => InVec(e) /\ drops[e] = 0
  BY DEF InVec, Inv, Apart
<1>5. inits > 0 => pc = "shared" /\ P = {}
  <2>1. inits > 0 => pc = "shared" /\ vec = <<>>
    BY DEF Inv, Stages
  <2>2. vec = <<>> => P = {}
    OBVIOUS
  <2>3. QED
    BY <2>1, <2>2
<1>6. inits > 0 /\ Q # {} => InSlots(e) /\ drops[e] = 0
  <2>1. SUFFICES ASSUME inits > 0, Q # {} PROVE InSlots(e) /\ drops[e] = 0
    OBVIOUS
  <2>2. PICK k \in Index : slots[k] = e
    BY <1>1, <2>1
  <2>3. k \in Written
    BY <2>2, IndexFacts DEF Written
  <2>4. pc # "dropped"
    BY <1>5, <2>1
  <2>5. QED
    BY <2>2, <2>3, <2>4 DEF InSlots, Inv, Apart
<1>7. e \in src => ~InVec(e) /\ drops[e] = 0 /\ (how # "slice" => ~InSlots(e))
  BY DEF Inv, Apart
<1> DEFINE b == IF e \in src THEN 1 ELSE 0
           c == IF inits > 0 /\ how # "slice" THEN Cardinality(Q) ELSE 0
<1>8. Owners(e) = Cardinality(P) + b + c
  BY DEF Owners
<1> HIDE DEF P, Q
<1>9. CASE P # {}
  <2>1. Cardinality(P) = 1 /\ b = 0 /\ c = 0 /\ drops[e] = 0
    BY <1>2, <1>4, <1>5, <1>7, <1>9
  <2>2. QED
    BY <1>8, <2>1
<1>10. CASE P = {} /\ e \in src
  <2>1. Cardinality(P) = 0 /\ b = 1 /\ c = 0 /\ drops[e] = 0
    BY <1>2, <1>3, <1>6, <1>7, <1>10
  <2>2. QED
    BY <1>8, <2>1
<1>11. CASE P = {} /\ e \notin src
  <2>1. Cardinality(P) = 0 /\ b = 0
    BY <1>2, <1>11
  <2>2. (c = 0 \/ c = 1) /\ (c = 1 => drops[e] = 0)
    BY <1>3, <1>6
  <2>3. QED
    BY <1>1, <1>8, <2>1, <2>2
<1>12. QED
  BY <1>9, <1>10, <1>11

LEMMA InvInitialized == Inv => InitializedWhenShared
BY DEF Inv, Stages, Filled, Begun, InitializedWhenShared
-----------------------------------------------------------------------------
(* Drops and moves *)

LEMMA VecSet ==
  ASSUME TypeOK
  PROVE  ToSet(vec) \subseteq Elems /\ \A e : e \in ToSet(vec) <=> InVec(e)
<1>1. vec \in Seq(Elems)
  BY DEF TypeOK
<1>2. DOMAIN vec = 1 .. Len(vec) /\ \A k \in 1 .. Len(vec) : vec[k] \in Elems
  BY <1>1
<1>3. ToSet(vec) = {vec[k] : k \in 1 .. Len(vec)}
  BY <1>2 DEF ToSet
<1>4. QED
  BY <1>2, <1>3 DEF InVec

LEMMA DropsOnce ==
  ASSUME TypeOK, Apart, NEW S, S \subseteq Elems, \A e \in S : drops[e] = 0,
         drops' = Dropping(S)
  PROVE  /\ drops' \in [Elems -> Nat]
         /\ \A e \in Elems : drops'[e] <= 1 /\ (drops[e] = 1 => drops'[e] = 1)
         /\ \A e \in S : drops'[e] = 1
         /\ \A e \in Elems \ S : drops'[e] = drops[e]
BY DEF TypeOK, Apart, Dropping

LEMMA AppendFacts ==
  ASSUME NEW s \in Seq(Elems), NEW e \in Elems
  PROVE  /\ Append(s, e) \in Seq(Elems) /\ Len(Append(s, e)) = Len(s) + 1
         /\ Append(s, e)[Len(s) + 1] = e
         /\ \A k \in 1 .. Len(s) : Append(s, e)[k] = s[k]
OBVIOUS

\* Subsets of Elems can be counted, and one less is one less.
LEMMA Counting ==
  ASSUME NEW S, S \subseteq Elems
  PROVE  /\ IsFiniteSet(S) /\ Cardinality(S) \in Nat /\ (Cardinality(S) = 0 <=> S = {})
         /\ \A e \in S : Cardinality(S \ {e}) = Cardinality(S) - 1
<1>1. IsFiniteSet(S)
  BY SliceAssumption, FS_Subset
<1>2. QED
  BY <1>1, FS_CardinalityType, FS_EmptySet, FS_RemoveElement

\* Where the construction may panic, nothing is in two places and nobody has
\* an Arc.
LEMMA UnwindKeeps ==
  ASSUME Inv, Unwind, pc \in Early \cup Loop \cup Checks
  PROVE  Inv'
<1>1. /\ TypeOK /\ Once /\ Apart /\ Room /\ Stages /\ Kept /\ Promise
      /\ pc' = "unwound" /\ drops' = Dropping(src \cup ToSet(vec))
      /\ src' = {} /\ vec' = <<>> /\ header' \in {header, "dropped"}
      /\ how' = how /\ honest' = honest /\ zst' = zst /\ taken' = taken
      /\ inits' = inits /\ uninits' = uninits
      /\ len' = len /\ slots' = slots /\ given' = given
  BY DEF Inv, Unwind, fixed, arcs
<1>2. pc \notin {"shared", "dropped", "leaked", "copy", "set_len", "return_vec"}
  BY DEF Early, Loop, Checks
<1>3. inits = 0 /\ uninits = 0
  BY <1>1, <1>2 DEF TypeOK, Stages
<1>4. \A e \in src \cup ToSet(vec) : e \in Elems /\ drops[e] = 0
  BY <1>1, VecSet DEF TypeOK, Apart, InVec
<1>5. /\ drops' \in [Elems -> Nat]
      /\ \A e \in Elems : drops'[e] <= 1 /\ (drops[e] = 1 => drops'[e] = 1)
      /\ \A e \in src \cup ToSet(vec) : drops'[e] = 1
      /\ \A e \in Elems \ (src \cup ToSet(vec)) : drops'[e] = drops[e]
  BY <1>1, <1>4, DropsOnce
<1>6. \A k \in Written : slots[k] \in Elems \ (src \cup ToSet(vec))
  <2>1. SUFFICES ASSUME NEW k \in Written PROVE slots[k] \in Elems \ (src \cup ToSet(vec))
    OBVIOUS
  <2>2. slots[k] \in Elems /\ k \in Index
    BY <1>1 DEF TypeOK, Written
  <2>3. pc \in Loop \cup Checks
    BY <1>1 DEF Stages
  <2>4. vec = <<>> /\ how # "slice"
    BY <1>1, <2>3 DEF Stages, Loop, Checks
  <2>5. ToSet(vec) = {}
    BY <2>4 DEF ToSet
  <2>6. slots[k] \notin src
    BY <1>1, <2>2, <2>4 DEF Apart, InSlots
  <2>7. QED
    BY <2>2, <2>5, <2>6
<1>7. TypeOK'
  <2>1. vec' \in Seq(Elems) /\ src' \subseteq Elems
    BY <1>1
  <2>2. header' \in {"arg", "inner", "dropped"}
    BY <1>1 DEF TypeOK
  <2>3. QED
    BY <1>1, <1>5, <2>1, <2>2 DEF TypeOK
<1>8. Once'
  BY <1>1 DEF Once
<1>9. Apart'
  <2>1. \A k \in Written : drops'[slots[k]] = 0
    BY <1>1, <1>2, <1>5, <1>6 DEF Apart
  <2>2. Written' = Written
    BY <1>1 DEF Written
  <2>3. \A k \in 1 .. Len(vec') : drops'[vec'[k]] = 0
    BY <1>1
  <2>4. \A k \in Written' : drops'[slots'[k]] = 0
    BY <1>1, <2>1, <2>2
  <2>5. \A e \in src' : FALSE
    BY <1>1
  <2>6. QED
    BY <1>5, <2>3, <2>4, <2>5 DEF Apart
<1>10. Room'
  BY <1>1, FS_EmptySet, IndexFacts DEF Room
<1>11. Stages'
  BY <1>1, <1>3 DEF Stages, Early, Loop, Checks
<1>12. \A e \in taken : InSlots(e) \/ drops'[e] = 1
  <2>1. \A e \in taken : e \in src \/ InVec(e) \/ InSlots(e) \/ drops[e] = 1
    BY <1>1, <1>2 DEF Kept
  <2>2. taken \subseteq Elems
    BY <1>1 DEF TypeOK
  <2>3. QED
    BY <1>1, <1>5, <2>1, <2>2, VecSet
<1>13. Kept'
  BY <1>1, <1>12 DEF Kept, InSlots
<1>14. Promise'
  BY <1>1 DEF Promise, Loop, Checks
<1>15. NothingLost'
  <2>1. \A e \in taken : drops'[e] = 1 \/ \E k \in Written : slots[k] = e
    BY <1>1, <1>12, IndexFacts DEF InSlots, Written, TypeOK
  <2>2. QED
    BY <1>1, <2>1 DEF NothingLost, Written
<1>16. QED
  BY <1>7, <1>8, <1>9, <1>10, <1>11, <1>13, <1>14, <1>15 DEF Inv

\* Only the program counter moves.
LEMMA GotoKeeps ==
  ASSUME Inv, NEW label, Goto(label), Stages', Promise',
         pc \in Early \cup Loop \cup Checks, label \in Early \cup Loop \cup Checks
  PROVE  Inv'
<1>1. /\ TypeOK /\ Once /\ Apart /\ Room /\ Kept
      /\ pc' = label /\ drops' = drops
      /\ src' = src /\ vec' = vec /\ header' = header
      /\ how' = how /\ honest' = honest /\ zst' = zst /\ taken' = taken
      /\ inits' = inits /\ uninits' = uninits
      /\ len' = len /\ slots' = slots /\ given' = given
  BY DEF Inv, Goto, fixed, arcs
<1>2. /\ pc \notin {"shared", "dropped", "leaked", "unwound"}
      /\ pc' \notin {"shared", "dropped", "leaked", "unwound"}
      /\ pc' \in AllPcs
  BY <1>1 DEF Early, Loop, Checks, AllPcs
<1>3. TypeOK'
  BY <1>1, <1>2 DEF TypeOK, AllPcs
<1>4. Once' /\ Apart' /\ Room'
  BY <1>1, <1>2 DEF Once, Apart, Room, Written, InVec, InSlots
<1>5. Kept'
  BY <1>1, <1>2 DEF Kept, InVec, InSlots
<1>6. NothingLost'
  BY <1>2 DEF NothingLost
<1>7. QED
  BY <1>3, <1>4, <1>5, <1>6 DEF Inv

-----------------------------------------------------------------------------
(* from_iter *)

LEMMA HintKeeps ==
  ASSUME Inv, Hint
  PROVE  Inv'
<1>1. PICK label \in {"exact", "collect"} : Goto(label)
  BY DEF Hint
<1>2. /\ pc = "hint" /\ pc' = label /\ Stages /\ Promise
      /\ src' = src /\ vec' = vec /\ header' = header
      /\ how' = how /\ honest' = honest
      /\ inits' = inits /\ uninits' = uninits
      /\ len' = len /\ slots' = slots /\ given' = given
  BY <1>1 DEF Hint, Goto, Inv, fixed, arcs
<1>3. Stages'
  BY <1>2 DEF Stages, Early, Loop, Checks, Written
<1>4. Promise'
  BY <1>2 DEF Promise, Loop, Checks
<1>5. QED
  BY <1>1, <1>2, <1>3, <1>4, GotoKeeps DEF Early

LEMMA ExactKeeps ==
  ASSUME Inv, Exact
  PROVE  Inv'
<1>1. pc = "exact" /\ (Goto("len") \/ Unwind)
  BY DEF Exact
<1>2. CASE Unwind
  BY <1>1, <1>2, UnwindKeeps DEF Early
<1>3. CASE Goto("len")
  <2>1. /\ pc' = "len" /\ Stages /\ Promise
        /\ src' = src /\ vec' = vec /\ header' = header
        /\ how' = how /\ honest' = honest
        /\ inits' = inits /\ uninits' = uninits
        /\ len' = len /\ slots' = slots /\ given' = given
    BY <1>3 DEF Goto, Inv, fixed, arcs
  <2>2. Stages'
    BY <1>1, <2>1 DEF Stages, Early, Loop, Checks, Written
  <2>3. Promise'
    BY <2>1 DEF Promise, Loop, Checks
  <2>4. QED
    BY <1>1, <1>3, <2>2, <2>3, GotoKeeps DEF Early
<1>4. QED
  BY <1>1, <1>2, <1>3

LEMMA CollectKeeps ==
  ASSUME Inv, Collect
  PROVE  Inv'
<1>1. pc = "collect" /\ TypeOK /\ Once /\ Apart /\ Room /\ Stages /\ Kept /\ Promise
  BY DEF Inv, Collect
<1>2. CASE Unwind
  BY <1>1, <1>2, UnwindKeeps DEF Early
<1>3. ASSUME NEW e \in src, vec' = Append(vec, e), src' = src \ {e},
             UNCHANGED <<pc, fixed, arcs, len, slots, given, header, drops>>
      PROVE  Inv'
  <2>1. /\ e \in Elems /\ vec \in Seq(Elems) /\ Len(vec) \in Nat
        /\ pc' = pc /\ drops' = drops /\ header' = header
        /\ how' = how /\ honest' = honest /\ zst' = zst /\ taken' = taken
        /\ inits' = inits /\ uninits' = uninits
        /\ len' = len /\ slots' = slots /\ given' = given /\ Written' = Written
    BY <1>1, <1>3 DEF TypeOK, fixed, arcs, Written
  <2>2. /\ vec' \in Seq(Elems) /\ Len(vec') = Len(vec) + 1
        /\ vec'[Len(vec) + 1] = e /\ \A k \in 1 .. Len(vec) : vec'[k] = vec[k]
    BY <1>3, <2>1, AppendFacts
  <2>3. \A k \in 1 .. Len(vec') : k = Len(vec) + 1 \/ k \in 1 .. Len(vec)
    BY <2>1, <2>2
  <2>4. /\ \A k \in 1 .. Len(vec) : k \in 1 .. Len(vec') /\ k # Len(vec) + 1
        /\ Len(vec) + 1 \in 1 .. Len(vec')
    BY <2>1, <2>2
  <2>5. \A x : InVec(x)' <=> InVec(x) \/ x = e
    BY <2>2, <2>3, <2>4 DEF InVec
  <2>6. ~InVec(e) /\ drops[e] = 0
    BY <1>1, <1>3 DEF Apart
  <2>7. TypeOK'
    BY <1>1, <1>3, <2>1, <2>2 DEF TypeOK
  <2>8. Once'
    <3>1. \A k \in 1 .. Len(vec) : vec[k] # e
      BY <2>6 DEF InVec
    <3>2. \A j, k \in 1 .. Len(vec') : vec'[j] = vec'[k] => j = k
      BY <1>1, <2>2, <2>3, <3>1 DEF Once
    <3>3. QED
      BY <1>1, <2>1, <3>2 DEF Once
  <2>9. Apart'
    <3>1. \A x \in src' : ~InVec(x)' /\ drops'[x] = 0 /\ (how' # "slice" => ~InSlots(x)')
      BY <1>1, <1>3, <2>1, <2>5 DEF Apart, InSlots
    <3>2. \A k \in 1 .. Len(vec') : drops'[vec'[k]] = 0
      BY <1>1, <2>1, <2>2, <2>3, <2>6 DEF Apart
    <3>3. QED
      BY <1>1, <2>1, <3>1, <3>2 DEF Apart
  <2>10. Room'
    <3>1. Cardinality(src') = Cardinality(src) - 1 /\ Cardinality(src) \in Nat
      BY <1>1, <1>3, Counting DEF TypeOK
    <3>2. QED
      BY <1>1, <2>1, <2>2, <3>1 DEF Room
  <2>11. Stages'
    BY <1>1, <2>1 DEF Stages, Early, Loop, Checks
  <2>12. Kept'
    BY <1>1, <1>3, <2>1, <2>5 DEF Kept, InSlots
  <2>13. Promise' /\ NothingLost'
    BY <1>1, <2>1 DEF Promise, Loop, Checks, NothingLost
  <2>14. QED
    BY <2>7, <2>8, <2>9, <2>10, <2>11, <2>12, <2>13 DEF Inv
<1>4. ASSUME pc' = "vec", drops' = Dropping(src), src' = {},
             UNCHANGED <<fixed, arcs, vec, len, slots, given, header>>
      PROVE  Inv'
  <2>1. /\ vec' = vec /\ header' = header
        /\ how' = how /\ honest' = honest /\ zst' = zst /\ taken' = taken
        /\ inits' = inits /\ uninits' = uninits
        /\ len' = len /\ slots' = slots /\ given' = given
    BY <1>4 DEF fixed, arcs
  <2>2. Written = {} /\ Written' = {} /\ how = "from_iter"
    BY <1>1, <2>1 DEF Stages, Early, Written
  <2>3. /\ drops' \in [Elems -> Nat]
        /\ \A e \in Elems : drops'[e] <= 1 /\ (drops[e] = 1 => drops'[e] = 1)
        /\ \A e \in src : drops'[e] = 1
        /\ \A e \in Elems \ src : drops'[e] = drops[e]
    BY <1>1, <1>4, DropsOnce DEF TypeOK, Apart
  <2>4. TypeOK'
    BY <1>1, <1>4, <2>1, <2>3 DEF TypeOK
  <2>5. Once'
    BY <1>1, <2>1 DEF Once
  <2>6. Apart'
    <3>1. \A k \in 1 .. Len(vec) : vec[k] \in Elems \ src /\ drops[vec[k]] = 0
      BY <1>1 DEF Apart, InVec, TypeOK
    <3>2. QED
      BY <1>4, <2>1, <2>2, <2>3, <3>1 DEF Apart
  <2>7. Room'
    <3>1. Cardinality(src) \in Nat /\ Cardinality(src') = 0 /\ Len(vec) \in Nat
      BY <1>1, <1>4, Counting, FS_EmptySet DEF TypeOK
    <3>2. QED
      BY <1>1, <2>1, <3>1, IndexFacts DEF Room
  <2>8. Stages'
    BY <1>1, <1>4, <2>1, <2>2 DEF Stages, Early, Loop, Checks
  <2>9. Kept'
    <3>1. \A e \in taken : e \in Elems
      BY <1>1 DEF TypeOK
    <3>2. QED
      BY <1>1, <1>4, <2>1, <2>3, <3>1 DEF Kept, InSlots, InVec
  <2>10. Promise' /\ NothingLost'
    BY <1>4 DEF Promise, Loop, Checks, NothingLost
  <2>11. QED
    BY <2>4, <2>5, <2>6, <2>7, <2>8, <2>9, <2>10 DEF Inv
<1>5. QED
  BY <1>2, <1>3, <1>4 DEF Collect
-----------------------------------------------------------------------------
(* from_header_and_iter *)

\* What is written so far, counted.
LEMMA WrittenCount ==
  ASSUME TypeOK, Begun
  PROVE  /\ Cardinality(Written) = Len(given) /\ Len(given) \in Nat
         /\ Written \subseteq Index
<1>1. Len(given) \in Nat /\ Written = 1 .. Len(given)
  BY DEF TypeOK, Begun
<1>2. Cardinality(1 .. Len(given)) = Len(given)
  <2>1. PICK m \in Nat : m = Len(given)
    BY <1>1
  <2>2. Cardinality(1 .. m) = m - 1 + 1
    BY FS_Interval
  <2>3. QED
    BY <2>1, <2>2
<1>3. QED
  BY <1>1, <1>2 DEF Written

LEMMA LengthKeeps ==
  ASSUME Inv, Length
  PROVE  Inv'
<1>1. pc = "len" /\ TypeOK /\ Once /\ Apart /\ Room /\ Stages /\ Kept /\ Promise
  BY DEF Inv, Length
<1>2. CASE Unwind
  BY <1>1, <1>2, UnwindKeeps DEF Early
<1>3. ASSUME NEW n \in 0 .. MaxLen, honest => n = Cardinality(src), len' = LenOf(n),
             pc' = "alloc",
             UNCHANGED <<fixed, arcs, src, vec, slots, given, header, drops>>
      PROVE  Inv'
  <2>1. /\ len' = n /\ vec' = vec /\ src' = src /\ header' = header /\ drops' = drops
        /\ how' = how /\ honest' = honest /\ zst' = zst /\ taken' = taken
        /\ inits' = inits /\ uninits' = uninits
        /\ slots' = slots /\ given' = given /\ Written' = Written
    BY <1>3 DEF fixed, arcs, LenOf, Written
  <2>2. TypeOK'
    BY <1>1, <1>3, <2>1 DEF TypeOK
  <2>3. Once' /\ Apart' /\ Room'
    BY <1>1, <1>3, <2>1 DEF Once, Apart, Room, InVec, InSlots
  <2>4. Stages'
    BY <1>1, <1>3, <2>1 DEF Stages, Early, Loop, Checks
  <2>5. Kept'
    BY <1>1, <1>3, <2>1 DEF Kept, InVec, InSlots
  <2>6. Promise'
    <3>1. given = <<>>
      BY <1>1 DEF Stages, Early
    <3>2. Len(given) = 0 /\ Cardinality(src) \in Nat
      BY <1>1, <3>1, Counting DEF TypeOK
    <3>3. QED
      BY <1>3, <2>1, <3>2 DEF Promise, Loop, Checks
  <2>7. NothingLost'
    BY <1>3 DEF NothingLost
  <2>8. QED
    BY <2>2, <2>3, <2>4, <2>5, <2>6, <2>7 DEF Inv
<1>4. QED
  BY <1>2, <1>3 DEF Length

LEMMA AllocKeeps ==
  ASSUME Inv, Alloc
  PROVE  Inv'
<1>1. pc = "alloc" /\ TypeOK /\ Once /\ Apart /\ Room /\ Stages /\ Kept /\ Promise
  BY DEF Inv, Alloc
<1>2. CASE Unwind
  BY <1>1, <1>2, UnwindKeeps DEF Early
<1>3. CASE ~Unwind
  <2>1. /\ len' = len /\ vec' = vec /\ src' = src /\ header' = "inner" /\ drops' = drops
        /\ how' = how /\ honest' = honest /\ zst' = zst /\ taken' = taken
        /\ inits' = inits /\ uninits' = uninits /\ pc' = "write"
        /\ slots' = slots /\ given' = given
    BY <1>3 DEF Alloc, fixed, arcs
  <2>2. Written' = Written
    BY <2>1 DEF Written
  <2>3. TypeOK'
    BY <1>1, <2>1 DEF TypeOK
  <2>4. Once' /\ Apart' /\ Room'
    BY <1>1, <2>1, <2>2 DEF Once, Apart, Room, InVec, InSlots
  <2>5. Written = {} /\ given = <<>> /\ how \in {"from_iter", "header_and_iter"}
    BY <1>1 DEF Stages, Early, Loop, Checks
  <2>6. Begun' /\ Len(given') <= len'
    BY <1>1, <2>1, <2>2, <2>5 DEF Begun, TypeOK
  <2>7. inits = 0 /\ uninits = 0 /\ vec = <<>>
    BY <1>1 DEF TypeOK, Stages
  <2>8. Stages'
    BY <2>1, <2>5, <2>6, <2>7 DEF Stages, Early, Loop, Checks
  <2>9. Kept'
    BY <1>1, <2>1 DEF Kept, InVec, InSlots
  <2>10. Promise' /\ NothingLost'
    BY <1>1, <2>1 DEF Promise, Loop, Checks, NothingLost
  <2>11. QED
    BY <2>3, <2>4, <2>8, <2>9, <2>10 DEF Inv
<1>4. QED
  BY <1>2, <1>3

LEMMA WriteNextKeeps ==
  ASSUME Inv, WriteNext
  PROVE  Inv'
<1>1. /\ pc = "write" /\ TypeOK /\ Once /\ Apart /\ Room /\ Stages /\ Kept /\ Promise
      /\ Begun /\ how \in {"from_iter", "header_and_iter"} /\ Len(given) <= len
      /\ vec = <<>> /\ inits = 0 /\ uninits = 0
  BY DEF Inv, WriteNext, Stages, Loop, Checks, TypeOK
<1>2. CASE Unwind
  BY <1>1, <1>2, UnwindKeeps DEF Loop
<1>3. PICK i \in Nat : i = Cardinality(Written) /\ i = Len(given) /\ i < len
  <2>1. Cardinality(Written) = Len(given) /\ Len(given) \in Nat
    BY <1>1, WrittenCount
  <2>2. Cardinality(Written) < len
    BY DEF WriteNext, MoreToWrite
  <2>3. QED
    BY <2>1, <2>2
<1>4. ASSUME NEW e \in src, i < MaxLen, slots' = [slots EXCEPT ![i + 1] = e],
             given' = Append(given, e), src' = src \ {e},
             UNCHANGED <<pc, fixed, arcs, vec, len, header, drops>>
      PROVE  Inv'
  <2>1. /\ e \in Elems /\ given \in Seq(Elems)
        /\ pc' = pc /\ drops' = drops /\ header' = header /\ vec' = vec /\ len' = len
        /\ how' = how /\ honest' = honest /\ zst' = zst /\ taken' = taken
        /\ inits' = inits /\ uninits' = uninits
    BY <1>1, <1>4 DEF TypeOK, fixed, arcs
  <2>2. /\ given' \in Seq(Elems) /\ Len(given') = i + 1
        /\ given'[i + 1] = e /\ \A k \in 1 .. i : given'[k] = given[k]
    BY <1>3, <1>4, <2>1, AppendFacts
  <2>3. i + 1 \in Index /\ e # None
    BY <1>4, <2>1, IndexFacts
  <2>4. /\ slots'[i + 1] = e /\ \A k \in Index \ {i + 1} : slots'[k] = slots[k]
        /\ slots' \in [Index -> Elems \cup {None}]
    BY <1>1, <1>4, <2>1, <2>3 DEF TypeOK
  <2>5. Written' = Written \cup {i + 1} /\ Written = 1 .. i
    BY <1>1, <1>3, <2>3, <2>4 DEF Written, Begun
  <2>6. ~InSlots(e) /\ ~InVec(e) /\ drops[e] = 0
    BY <1>1, <1>4 DEF Apart
  <2>7. slots[i + 1] = None
    <3>1. i + 1 \notin Written
      BY <2>5
    <3>2. QED
      BY <2>3, <3>1 DEF Written
  <2>8. \A x \in Elems : InSlots(x)' <=> InSlots(x) \/ x = e
    <3>1. ASSUME NEW x \in Elems, InSlots(x)' PROVE InSlots(x) \/ x = e
      BY <2>4, <3>1 DEF InSlots
    <3>2. ASSUME NEW x \in Elems, InSlots(x) PROVE InSlots(x)'
      <4>1. PICK k \in Index : slots[k] = x
        BY <3>2 DEF InSlots
      <4>2. k # i + 1
        BY <2>7, <4>1, IndexFacts
      <4>3. slots'[k] = x
        BY <2>4, <4>1, <4>2
      <4>4. QED
        BY <4>3 DEF InSlots
    <3>3. InSlots(e)'
      BY <2>3, <2>4 DEF InSlots
    <3>4. QED
      BY <3>1, <3>2, <3>3
  <2>9. TypeOK'
    BY <1>1, <1>4, <2>1, <2>2, <2>4 DEF TypeOK
  <2>10. Once'
    <3>1. \A k \in Index : slots[k] # e
      BY <2>6 DEF InSlots
    <3>2. \A j, k \in Index : slots'[j] = slots'[k] /\ slots'[j] # None => j = k
      BY <1>1, <2>4, <3>1 DEF Once
    <3>3. QED
      BY <1>1, <2>1, <3>2 DEF Once
  <2>11. Apart'
    <3>1. \A x \in src' : ~InVec(x)' /\ drops'[x] = 0 /\ (how' # "slice" => ~InSlots(x)')
      BY <1>1, <1>4, <2>1, <2>8 DEF Apart, InVec, TypeOK
    <3>2. \A k \in Written' : drops'[slots'[k]] = 0
      <4>1. \A k \in Written : k # i + 1 /\ k \in Index
        BY <2>5 DEF Written
      <4>2. QED
        BY <1>1, <2>1, <2>4, <2>5, <2>6, <4>1 DEF Apart
    <3>3. QED
      BY <1>1, <2>1, <3>1, <3>2 DEF Apart
  <2>12. Room' /\ Cardinality(src') = Cardinality(src) - 1 /\ Cardinality(src) \in Nat
    <3>1. Cardinality(src') = Cardinality(src) - 1 /\ Cardinality(src) \in Nat
      BY <1>1, <1>4, Counting DEF TypeOK
    <3>2. Len(vec) = 0
      BY <1>1
    <3>3. QED
      BY <1>1, <2>1, <3>1, <3>2, IndexFacts DEF Room
  <2>13. Begun'
    <3>1. Written' = 1 .. i + 1
      BY <2>5
    <3>2. \A k \in 1 .. i + 1 : slots'[k] = given'[k]
      <4>1. \A k \in 1 .. i : k \in Index \ {i + 1}
        BY <1>4, IndexFacts
      <4>2. \A k \in 1 .. i : slots'[k] = given'[k]
        BY <1>1, <1>3, <2>2, <2>4, <4>1 DEF Begun
      <4>3. \A k \in 1 .. i + 1 : k = i + 1 \/ k \in 1 .. i
        OBVIOUS
      <4>4. QED
        BY <2>2, <2>4, <4>2, <4>3
    <3>3. QED
      BY <1>1, <2>1, <2>2, <3>1, <3>2 DEF Begun
  <2>14. Stages'
    <3>1. Len(given') <= len'
      BY <1>1, <1>3, <2>1, <2>2 DEF TypeOK
    <3>2. QED
      BY <1>1, <2>1, <2>13, <3>1 DEF Stages, Early, Loop, Checks
  <2>15. Kept'
    <3>1. \A x \in taken : x \in Elems
      BY <1>1 DEF TypeOK
    <3>2. QED
      BY <1>1, <1>4, <2>1, <2>8, <3>1 DEF Kept, InVec
  <2>16. Promise' /\ NothingLost'
    BY <1>1, <1>3, <2>1, <2>2, <2>12 DEF Promise, Loop, Checks, NothingLost
  <2>17. QED
    BY <2>9, <2>10, <2>11, <2>12, <2>14, <2>15, <2>16 DEF Inv
<1>5. QED
  BY <1>2, <1>3, <1>4 DEF WriteNext

LEMMA LoopEndKeeps ==
  ASSUME Inv, LoopEnd
  PROVE  Inv'
<1>1. /\ pc = "write" /\ TypeOK /\ Stages /\ Promise /\ Begun /\ Len(given) <= len
      /\ how \in {"from_iter", "header_and_iter"}
      /\ vec = <<>> /\ inits = 0 /\ uninits = 0
  BY DEF Inv, LoopEnd, Stages, Loop, Checks, TypeOK
<1>2. PICK label \in {"second_check", "first_check"} : Goto(label)
  BY DEF LoopEnd
<1>3. /\ pc' = label /\ src' = src /\ vec' = vec /\ header' = header
      /\ how' = how /\ honest' = honest
      /\ inits' = inits /\ uninits' = uninits
      /\ len' = len /\ slots' = slots /\ given' = given
  BY <1>2 DEF Goto, fixed, arcs
<1>4. len = Len(given) /\ Len(given) \in Nat
  <2>1. Cardinality(Written) = Len(given) /\ Len(given) \in Nat /\ len \in Nat
    BY <1>1, WrittenCount, IndexFacts DEF TypeOK
  <2>2. ~(Cardinality(Written) < len)
    BY DEF LoopEnd, MoreToWrite
  <2>3. QED
    BY <1>1, <2>1, <2>2
<1>5. Filled'
  BY <1>1, <1>3, <1>4 DEF Filled, Begun, Written
<1>6. Stages'
  BY <1>1, <1>3, <1>5 DEF Stages, Early, Loop, Checks
<1>7. Promise'
  <2>1. honest => src = {}
    <3>1. honest => len = Len(given) + Cardinality(src)
      BY <1>1 DEF Promise, Loop
    <3>2. Cardinality(src) \in Nat /\ (Cardinality(src) = 0 <=> src = {})
      BY <1>1, Counting DEF TypeOK
    <3>3. honest => Cardinality(src) = 0
      BY <1>4, <3>1, <3>2
    <3>4. QED
      BY <3>2, <3>3
  <2>2. QED
    BY <1>3, <2>1 DEF Promise, Loop, Checks
<1>8. QED
  BY <1>1, <1>2, <1>6, <1>7, GotoKeeps DEF Loop, Checks

LEMMA NothingLeftKeeps ==
  ASSUME Inv, NEW label \in Checks, NEW next \in Checks, NothingLeft(label, next)
  PROVE  Inv'
<1>1. /\ pc = label /\ TypeOK /\ Apart /\ Stages /\ Promise /\ Filled
      /\ how \in {"from_iter", "header_and_iter"}
      /\ vec = <<>> /\ inits = 0 /\ uninits = 0
  BY DEF Inv, NothingLeft, Stages, Loop, Checks, TypeOK
<1>2. CASE Unwind
  BY <1>1, <1>2, UnwindKeeps
<1>3. ASSUME NEW e, e = None, pc' = next, src' = src \ {e},
             drops' = Dropping({e} \ {None}),
             UNCHANGED <<fixed, arcs, vec, len, slots, given, header>>
      PROVE  Inv'
  <2>1. /\ pc' = next /\ vec' = vec /\ header' = header
        /\ how' = how /\ honest' = honest /\ zst' = zst /\ taken' = taken
        /\ inits' = inits /\ uninits' = uninits
        /\ len' = len /\ slots' = slots /\ given' = given
    BY <1>3 DEF fixed, arcs
  <2>2. src' = src
    BY <1>1, <1>3, IndexFacts DEF TypeOK
  <2>3. drops' = drops
    BY <1>1, <1>3 DEF TypeOK, Dropping
  <2>4. Goto(next)
    BY <2>1, <2>2, <2>3 DEF Goto, fixed, arcs
  <2>5. Filled'
    BY <1>1, <2>1 DEF Filled, Begun, Written
  <2>6. Stages'
    BY <1>1, <2>1, <2>5 DEF Stages, Early, Loop, Checks
  <2>7. Promise'
    BY <1>1, <2>1, <2>2 DEF Promise, Loop, Checks
  <2>8. QED
    BY <1>1, <2>4, <2>6, <2>7, GotoKeeps
<1>4. QED
  BY <1>2, <1>3 DEF NothingLeft, Ended

LEMMA ChecksKeep ==
  ASSUME Inv, FirstCheck \/ SecondCheck
  PROVE  Inv'
BY NothingLeftKeeps DEF FirstCheck, SecondCheck, Checks
LEMMA ReturnIterKeeps ==
  ASSUME Inv, ReturnIter
  PROVE  Inv'
<1>1. /\ pc = "return_iter" /\ TypeOK /\ Once /\ Apart /\ Room /\ Stages /\ Kept /\ Filled
      /\ how \in {"from_iter", "header_and_iter"}
      /\ vec = <<>> /\ inits = 0 /\ uninits = 0
      /\ pc' = "shared" /\ inits' = 1 /\ drops' = Dropping(src) /\ src' = {}
      /\ vec' = vec /\ header' = header /\ uninits' = uninits
      /\ how' = how /\ honest' = honest /\ zst' = zst /\ taken' = taken
      /\ len' = len /\ slots' = slots /\ given' = given
  BY DEF Inv, ReturnIter, Stages, Checks, TypeOK, fixed
<1>2. Written' = Written
  BY <1>1 DEF Written
<1>3. /\ drops' \in [Elems -> Nat]
      /\ \A e \in Elems : drops'[e] <= 1 /\ (drops[e] = 1 => drops'[e] = 1)
      /\ \A e \in src : drops'[e] = 1
      /\ \A e \in Elems \ src : drops'[e] = drops[e]
  BY <1>1, DropsOnce DEF TypeOK, Apart
<1>4. TypeOK'
  BY <1>1, <1>3, IndexFacts DEF TypeOK
<1>5. Once'
  BY <1>1 DEF Once
<1>6. Apart'
  <2>1. \A k \in Written : slots[k] \in Elems \ src
    BY <1>1 DEF Apart, Written, InSlots, TypeOK
  <2>2. \A k \in Written' : drops'[slots'[k]] = 0
    BY <1>1, <1>2, <1>3, <2>1 DEF Apart
  <2>3. \A k \in 1 .. Len(vec') : drops'[vec'[k]] = 0
    BY <1>1
  <2>4. QED
    BY <1>1, <1>3, <2>2, <2>3 DEF Apart
<1>7. Room'
  BY <1>1, FS_EmptySet, IndexFacts DEF Room
<1>8. Filled'
  BY <1>1, <1>2 DEF Filled, Begun
<1>9. Stages'
  BY <1>1, <1>8 DEF Stages, Early, Loop, Checks
<1>10. Kept'
  <2>1. \A e \in taken : e \in Elems
    BY <1>1 DEF TypeOK
  <2>2. QED
    BY <1>1, <1>3, <2>1 DEF Kept, InVec, InSlots
<1>11. Promise' /\ NothingLost'
  BY <1>1 DEF Promise, Loop, Checks, NothingLost
<1>12. QED
  BY <1>4, <1>5, <1>6, <1>7, <1>9, <1>10, <1>11 DEF Inv

-----------------------------------------------------------------------------
(* From a Vec, a Box or a slice *)

LEMMA AllocVecKeeps ==
  ASSUME Inv, AllocVec
  PROVE  Inv'
<1>1. /\ pc = "vec" /\ TypeOK /\ Once /\ Apart /\ Room /\ Stages /\ Kept
      /\ how \in {"from_iter", "vec", "box"} /\ src = {}
      /\ Written = {} /\ inits = 0 /\ uninits = 0
  BY DEF Inv, AllocVec, Stages, Early, TypeOK
<1>2. CASE Unwind
  BY <1>1, <1>2, UnwindKeeps DEF Early
<1>3. CASE ~Unwind
  <2>1. /\ pc' = "copy" /\ len' = Len(vec) /\ header' = "inner"
        /\ vec' = vec /\ src' = src /\ drops' = drops
        /\ how' = how /\ honest' = honest /\ zst' = zst /\ taken' = taken
        /\ inits' = inits /\ uninits' = uninits
        /\ slots' = slots /\ given' = given
    BY <1>3 DEF AllocVec, fixed, arcs, LenOf
  <2>2. Written' = Written
    BY <2>1 DEF Written
  <2>3. Len(vec) \in 0 .. MaxLen
    <3>1. Cardinality(src) = 0 /\ Len(vec) \in Nat
      BY <1>1, FS_EmptySet DEF TypeOK
    <3>2. QED
      BY <1>1, <3>1, IndexFacts DEF Room
  <2>4. TypeOK'
    BY <1>1, <2>1, <2>3 DEF TypeOK
  <2>5. Once' /\ Apart' /\ Room'
    BY <1>1, <2>1, <2>2 DEF Once, Apart, Room, InVec, InSlots
  <2>6. Stages'
    BY <1>1, <2>1, <2>2 DEF Stages, Early, Loop, Checks
  <2>7. Kept'
    BY <1>1, <2>1 DEF Kept, InVec, InSlots
  <2>8. Promise' /\ NothingLost'
    BY <2>1 DEF Promise, Loop, Checks, NothingLost
  <2>9. QED
    BY <2>4, <2>5, <2>6, <2>7, <2>8 DEF Inv
<1>4. QED
  BY <1>2, <1>3

LEMMA CopyVecKeeps ==
  ASSUME Inv, CopyVec
  PROVE  Inv'
<1>1. /\ pc = "copy" /\ TypeOK /\ Once /\ Apart /\ Room /\ Stages /\ Kept
      /\ how \in {"from_iter", "vec", "box"} /\ src = {}
      /\ Written = {} /\ inits = 0 /\ uninits = 0 /\ header = "inner" /\ len = Len(vec)
      /\ slots' = [k \in Index |-> IF k <= Len(vec) THEN vec[k] ELSE slots[k]]
      /\ given' = vec /\ pc' = "set_len"
      /\ vec' = vec /\ src' = src /\ drops' = drops /\ header' = header /\ len' = len
      /\ how' = how /\ honest' = honest /\ zst' = zst /\ taken' = taken
      /\ inits' = inits /\ uninits' = uninits
  BY DEF Inv, CopyVec, Stages, TypeOK, fixed, arcs
<1>2. /\ vec \in Seq(Elems) /\ Len(vec) \in Nat /\ 1 .. Len(vec) \subseteq Index
      /\ \A k \in 1 .. Len(vec) : vec[k] \in Elems /\ vec[k] # None
  BY <1>1, IndexFacts DEF TypeOK
<1>3. /\ \A k \in 1 .. Len(vec) : slots'[k] = vec[k]
      /\ \A k \in Index \ (1 .. Len(vec)) : slots'[k] = None
  <2>1. \A k \in Index : slots[k] = None
    BY <1>1 DEF Written
  <2>2. QED
    BY <1>1, <1>2, <2>1, IndexFacts
<1>4. Written' = 1 .. Len(vec)
  BY <1>2, <1>3 DEF Written
<1>5. TypeOK'
  <2>1. slots' \in [Index -> Elems \cup {None}]
    BY <1>1, <1>2, <1>3 DEF TypeOK
  <2>2. QED
    BY <1>1, <1>2, <2>1 DEF TypeOK
<1>6. Once'
  <2>1. \A j, k \in Index : slots'[j] = slots'[k] /\ slots'[j] # None => j = k
    BY <1>1, <1>3 DEF Once
  <2>2. QED
    BY <1>1, <2>1 DEF Once
<1>7. Apart'
  <2>1. \A k \in Written' : drops'[slots'[k]] = 0
    BY <1>1, <1>3, <1>4 DEF Apart
  <2>2. QED
    BY <1>1, <2>1 DEF Apart
<1>8. Room'
  BY <1>1 DEF Room
<1>9. Filled'
  BY <1>1, <1>3, <1>4 DEF Filled, Begun
<1>10. Stages'
  BY <1>1, <1>9 DEF Stages, Early, Loop, Checks
<1>11. Kept'
  <2>1. \A e : InSlots(e) => e \notin taken
    BY <1>1, IndexFacts DEF InSlots, Written, TypeOK
  <2>2. QED
    BY <1>1, <2>1 DEF Kept, InVec
<1>12. Promise' /\ NothingLost'
  BY <1>1 DEF Promise, Loop, Checks, NothingLost
<1>13. QED
  BY <1>5, <1>6, <1>7, <1>8, <1>10, <1>11, <1>12 DEF Inv

LEMMA SetLenKeeps ==
  ASSUME Inv, SetLen
  PROVE  Inv'
<1>1. /\ pc = "set_len" /\ TypeOK /\ Once /\ Apart /\ Room /\ Stages /\ Kept
      /\ how \in {"from_iter", "vec", "box"} /\ src = {}
      /\ given = vec /\ Filled /\ inits = 0 /\ uninits = 0
      /\ vec' = <<>> /\ pc' = "return_vec"
      /\ src' = src /\ drops' = drops /\ header' = header /\ len' = len
      /\ how' = how /\ honest' = honest /\ zst' = zst /\ taken' = taken
      /\ inits' = inits /\ uninits' = uninits /\ slots' = slots /\ given' = given
  BY DEF Inv, SetLen, Stages, TypeOK, fixed, arcs, AfterSetLen
<1>2. Written' = Written
  BY <1>1 DEF Written
<1>3. TypeOK'
  BY <1>1 DEF TypeOK
<1>4. Once'
  BY <1>1 DEF Once
<1>5. Apart'
  <2>1. \A k \in 1 .. Len(vec') : drops'[vec'[k]] = 0
    BY <1>1
  <2>2. QED
    BY <1>1, <1>2, <2>1 DEF Apart
<1>6. Room'
  BY <1>1, FS_EmptySet, IndexFacts DEF Room
<1>7. Filled'
  BY <1>1, <1>2 DEF Filled, Begun
<1>8. Stages'
  BY <1>1, <1>7 DEF Stages, Early, Loop, Checks
<1>9. Kept'
  <2>1. \A e : InVec(e) => InSlots(e)
    BY <1>1, IndexFacts DEF InVec, InSlots, Filled, Begun, TypeOK
  <2>2. QED
    BY <1>1, <2>1 DEF Kept, InSlots
<1>10. Promise' /\ NothingLost'
  BY <1>1 DEF Promise, Loop, Checks, NothingLost
<1>11. QED
  BY <1>3, <1>4, <1>5, <1>6, <1>8, <1>9, <1>10 DEF Inv

LEMMA ReturnVecKeeps ==
  ASSUME Inv, ReturnVec
  PROVE  Inv'
<1>1. /\ pc = "return_vec" /\ TypeOK /\ Once /\ Apart /\ Room /\ Stages /\ Kept /\ Filled
      /\ how \in {"from_iter", "vec", "box"} /\ src = {}
      /\ vec = <<>> /\ inits = 0 /\ uninits = 0
      /\ pc' = "shared" /\ inits' = 1 /\ drops' = Dropping(ToSet(vec)) /\ vec' = <<>>
      /\ src' = src /\ header' = header /\ uninits' = uninits
      /\ how' = how /\ honest' = honest /\ zst' = zst /\ taken' = taken
      /\ len' = len /\ slots' = slots /\ given' = given
  BY DEF Inv, ReturnVec, Stages, TypeOK, fixed
<1>2. Written' = Written
  BY <1>1 DEF Written
<1>3. drops' = drops
  <2>1. ToSet(vec) = {}
    BY <1>1 DEF ToSet
  <2>2. QED
    BY <1>1, <2>1 DEF Dropping, TypeOK
<1>4. TypeOK'
  BY <1>1, <1>3, IndexFacts DEF TypeOK
<1>5. Once' /\ Apart' /\ Room'
  BY <1>1, <1>2, <1>3, IndexFacts DEF Once, Apart, Room, InVec, InSlots
<1>6. Filled'
  BY <1>1, <1>2 DEF Filled, Begun
<1>7. Stages'
  BY <1>1, <1>6 DEF Stages, Early, Loop, Checks
<1>8. Kept'
  BY <1>1, <1>3 DEF Kept, InVec, InSlots
<1>9. Promise' /\ NothingLost'
  BY <1>1 DEF Promise, Loop, Checks, NothingLost
<1>10. QED
  BY <1>4, <1>5, <1>7, <1>8, <1>9 DEF Inv

\* A listing of S is a sequence of it that names nothing twice.
LEMMA ListingFacts ==
  ASSUME NEW S, S \subseteq Elems, NEW s \in Listings(S)
  PROVE  /\ s \in Seq(Elems) /\ Len(s) = Cardinality(S) /\ Len(s) \in Nat
         /\ \A e : e \in S <=> \E k \in 1 .. Len(s) : s[k] = e
         /\ \A j, k \in 1 .. Len(s) : s[j] = s[k] => j = k
<1>1. PICK n \in Nat : n = Cardinality(S)
  BY Counting
<1>2. s \in [1 .. n -> S] /\ ToSet(s) = S
  BY <1>1 DEF Listings
<1>3. s \in Seq(Elems) /\ Len(s) = n
  BY <1>2
<1>4. \A e : e \in S <=> \E k \in 1 .. n : s[k] = e
  <2>1. DOMAIN s = 1 .. n
    BY <1>2
  <2>2. ToSet(s) = {s[k] : k \in 1 .. n}
    BY <2>1 DEF ToSet
  <2>3. QED
    BY <1>2, <2>2
<1>5. \A j, k \in 1 .. n : s[j] = s[k] => j = k
  <2>1. s \in Surjection(1 .. n, S)
    BY <1>2, <1>4 DEF Surjection
  <2>2. IsFiniteSet(1 .. n) /\ Cardinality(1 .. n) = n
    BY FS_Interval
  <2>3. s \in Injection(1 .. n, S)
    BY <1>1, <2>1, <2>2, FS_SurjSameCardinalityImpliesInj
  <2>4. QED
    BY <2>3 DEF Injection, IsInjective
<1>6. QED
  BY <1>1, <1>3, <1>4, <1>5

LEMMA CopySliceKeeps ==
  ASSUME Inv, NEW s \in Listings(src), CopySlice(s)
  PROVE  Inv'
<1>1. /\ pc = "slice" /\ TypeOK /\ Once /\ Apart /\ Room /\ Stages /\ Kept
      /\ how = "slice" /\ vec = <<>> /\ inits = 0 /\ uninits = 0
  BY DEF Inv, CopySlice, Stages, TypeOK
<1>2. CASE Unwind
  BY <1>1, <1>2, UnwindKeeps DEF Early
<1>3. CASE ~Unwind
  <2>1. /\ len' = Len(s) /\ given' = s /\ header' = "inner" /\ pc' = "shared"
        /\ slots' = [k \in Index |-> IF k <= Len(s) THEN s[k] ELSE None]
        /\ inits' = 1 /\ uninits' = uninits
        /\ vec' = vec /\ src' = src /\ drops' = drops
        /\ how' = how /\ honest' = honest /\ zst' = zst /\ taken' = taken
    BY <1>3 DEF CopySlice, fixed, LenOf
  <2>2. /\ s \in Seq(Elems) /\ Len(s) = Cardinality(src) /\ Len(s) \in Nat
        /\ \A e : e \in src <=> \E k \in 1 .. Len(s) : s[k] = e
        /\ \A j, k \in 1 .. Len(s) : s[j] = s[k] => j = k
    <3>1. src \subseteq Elems
      BY <1>1 DEF TypeOK
    <3>2. QED
      BY <3>1, ListingFacts
  <2>3. Len(s) \in 0 .. MaxLen /\ 1 .. Len(s) \subseteq Index
    <3>1. Len(vec) = 0
      BY <1>1
    <3>2. QED
      BY <1>1, <2>2, <3>1, IndexFacts DEF Room
  <2>4. /\ \A k \in 1 .. Len(s) : slots'[k] = s[k] /\ s[k] \in Elems /\ s[k] \in src
        /\ \A k \in Index \ (1 .. Len(s)) : slots'[k] = None
    BY <2>1, <2>2, <2>3, IndexFacts
  <2>5. Written' = 1 .. Len(s)
    BY <2>3, <2>4, IndexFacts DEF Written
  <2>6. TypeOK'
    <3>1. slots' \in [Index -> Elems \cup {None}]
      BY <2>1, <2>4
    <3>2. QED
      BY <1>1, <2>1, <2>2, <2>3, <3>1, IndexFacts DEF TypeOK
  <2>7. Once'
    <3>1. \A j, k \in Index : slots'[j] = slots'[k] /\ slots'[j] # None => j = k
      BY <2>2, <2>4
    <3>2. QED
      BY <1>1, <2>1, <3>1 DEF Once
  <2>8. Apart'
    <3>1. \A k \in Written' : drops'[slots'[k]] = 0
      BY <1>1, <2>1, <2>4, <2>5 DEF Apart
    <3>2. QED
      BY <1>1, <2>1, <3>1 DEF Apart, InVec
  <2>9. Room'
    BY <1>1, <2>1, IndexFacts DEF Room
  <2>10. Filled'
    BY <2>1, <2>4, <2>5 DEF Filled, Begun
  <2>11. Stages'
    BY <1>1, <2>1, <2>10 DEF Stages, Early, Loop, Checks
  <2>12. Kept' /\ Promise' /\ NothingLost'
    BY <1>1, <2>1 DEF Kept, Promise, Loop, Checks, NothingLost
  <2>13. QED
    BY <2>6, <2>7, <2>8, <2>9, <2>11, <2>12 DEF Inv
<1>4. QED
  BY <1>2, <1>3
-----------------------------------------------------------------------------
(* Uninitialized contents *)

LEMMA NewUninitKeeps ==
  ASSUME Inv, NewUninit
  PROVE  Inv'
<1>. CASE Unwind
  BY UnwindKeeps DEF NewUninit, Early
<1>. SUFFICES ASSUME ~Unwind
              PROVE  Inv'
  OBVIOUS
<1>1. /\ pc = "new_uninit" /\ TypeOK /\ Once /\ Apart /\ Room /\ Stages /\ Kept
      /\ how = "uninit" /\ vec = <<>> /\ inits = 0 /\ uninits = 0 /\ Written = {}
      /\ len' \in 0 .. MaxLen /\ pc' = "shared" /\ uninits' = 1 /\ header' = "inner"
      /\ vec' = vec /\ src' = src /\ drops' = drops /\ inits' = inits
      /\ how' = how /\ honest' = honest /\ zst' = zst /\ taken' = taken
      /\ slots' = slots /\ given' = given
  BY DEF Inv, NewUninit, Stages, Early, TypeOK, fixed
<1>2. Written' = Written
  BY <1>1 DEF Written
<1>3. TypeOK'
  BY <1>1, IndexFacts DEF TypeOK
<1>4. Once' /\ Apart' /\ Room'
  BY <1>1, <1>2, IndexFacts DEF Once, Apart, Room, InVec, InSlots
<1>5. Stages'
  BY <1>1 DEF Stages, Early, Loop, Checks
<1>6. Kept' /\ Promise' /\ NothingLost'
  BY <1>1 DEF Kept, Promise, Loop, Checks, NothingLost
<1>7. QED
  BY <1>3, <1>4, <1>5, <1>6 DEF Inv

\* The only Arc takes the memory for uninitialized: nobody else looks at it.
LEMMA WriteKeeps ==
  ASSUME Inv, NEW k \in Index, NEW e \in src, Write(k, e)
  PROVE  Inv'
<1>1. /\ pc = "shared" /\ TypeOK /\ Once /\ Apart /\ Room /\ Stages /\ Kept
      /\ how = "uninit" /\ header = "inner" /\ vec = <<>> /\ inits = 0 /\ uninits = 1
      /\ slots' = [slots EXCEPT ![k] = e] /\ src' = src \ {e}
      /\ pc' = pc /\ vec' = vec /\ drops' = drops /\ header' = header /\ len' = len
      /\ how' = how /\ honest' = honest /\ zst' = zst /\ taken' = taken
      /\ inits' = inits /\ uninits' = uninits /\ given' = given
  BY DEF Inv, Write, Stages, TypeOK, fixed, arcs, MustBeUnique
<1>2. /\ e \in Elems /\ e # None /\ slots'[k] = e
      /\ \A j \in Index \ {k} : slots'[j] = slots[j]
      /\ slots' \in [Index -> Elems \cup {None}]
  BY <1>1, IndexFacts DEF TypeOK
<1>3. ~InSlots(e) /\ ~InVec(e) /\ drops[e] = 0
  BY <1>1 DEF Apart
<1>4. \A x \in Elems : InSlots(x)' => InSlots(x) \/ x = e
  BY <1>2 DEF InSlots
<1>5. \A j \in Written' : j = k \/ (j \in Written /\ j # k)
  BY <1>2 DEF Written
<1>6. TypeOK'
  BY <1>1, <1>2 DEF TypeOK
<1>7. Once'
  <2>1. \A j \in Index : slots[j] # e
    BY <1>3 DEF InSlots
  <2>2. \A i, j \in Index : slots'[i] = slots'[j] /\ slots'[i] # None => i = j
    BY <1>1, <1>2, <2>1 DEF Once
  <2>3. QED
    BY <1>1, <2>2 DEF Once
<1>8. Apart'
  <2>1. \A x \in src' : ~InVec(x)' /\ drops'[x] = 0 /\ (how' # "slice" => ~InSlots(x)')
    BY <1>1, <1>4 DEF Apart, InVec, TypeOK
  <2>2. \A j \in Written' : drops'[slots'[j]] = 0
    <3>1. \A j \in Written : j \in Index
      BY DEF Written
    <3>2. QED
      BY <1>1, <1>2, <1>3, <1>5, <3>1 DEF Apart
  <2>3. QED
    BY <1>1, <2>1, <2>2 DEF Apart
<1>9. Room'
  <2>1. Cardinality(src') = Cardinality(src) - 1 /\ Cardinality(src) \in Nat
    BY <1>1, Counting DEF TypeOK
  <2>2. Len(vec) = 0
    BY <1>1
  <2>3. QED
    BY <1>1, <2>1, <2>2, IndexFacts DEF Room
<1>10. Stages'
  BY <1>1 DEF Stages, Early, Loop, Checks
<1>11. Kept' /\ Promise' /\ NothingLost'
  BY <1>1 DEF Kept, Promise, Loop, Checks, NothingLost
<1>12. QED
  BY <1>6, <1>7, <1>8, <1>9, <1>10, <1>11 DEF Inv

LEMMA AssumeInitKeeps ==
  ASSUME Inv, AssumeInit
  PROVE  Inv'
<1>1. /\ pc = "shared" /\ TypeOK /\ Once /\ Apart /\ Room /\ Stages /\ Kept
      /\ how = "uninit" /\ header = "inner" /\ vec = <<>> /\ uninits > 0
      /\ Written = 1 .. len /\ given' = [k \in 1 .. len |-> slots[k]]
      /\ inits' = inits + 1 /\ uninits' = uninits - 1
      /\ pc' = pc /\ vec' = vec /\ src' = src /\ drops' = drops /\ header' = header
      /\ len' = len /\ slots' = slots
      /\ how' = how /\ honest' = honest /\ zst' = zst /\ taken' = taken
  BY DEF Inv, AssumeInit, Stages, TypeOK, fixed
<1>2. Written' = Written /\ len \in Nat
  BY <1>1, IndexFacts DEF Written, TypeOK
<1>3. \A k \in 1 .. len : slots[k] \in Elems
  BY <1>1 DEF Written, TypeOK
<1>4. given' \in Seq(Elems) /\ Len(given') = len /\ \A k \in 1 .. len : given'[k] = slots[k]
  BY <1>1, <1>2, <1>3
<1>5. inits \in Nat /\ uninits \in Nat /\ inits + uninits <= MaxArcs
  BY <1>1 DEF TypeOK, Room
<1>6. inits' \in 0 .. MaxArcs /\ uninits' \in 0 .. MaxArcs /\ inits' + uninits' <= MaxArcs
  BY <1>1, <1>5, IndexFacts
<1>7. TypeOK'
  BY <1>1, <1>4, <1>6 DEF TypeOK
<1>8. Once' /\ Apart' /\ Room'
  BY <1>1, <1>2, <1>6 DEF Once, Apart, Room, InVec, InSlots
<1>9. Filled'
  BY <1>1, <1>2, <1>4 DEF Filled, Begun
<1>10. Stages'
  <2>1. inits' + uninits' > 0
    BY <1>1, <1>5
  <2>2. QED
    BY <1>1, <1>9, <2>1 DEF Stages, Early, Loop, Checks
<1>11. Kept' /\ Promise' /\ NothingLost'
  BY <1>1 DEF Kept, Promise, Loop, Checks, NothingLost
<1>12. QED
  BY <1>7, <1>8, <1>10, <1>11 DEF Inv

-----------------------------------------------------------------------------
(* The life of the Arc *)

LEMMA CloneKeeps ==
  ASSUME Inv, Clone
  PROVE  Inv'
<1>1. /\ pc = "shared" /\ TypeOK /\ Once /\ Apart /\ Room /\ Stages /\ Kept
      /\ inits + uninits < MaxArcs
      /\ \/ inits > 0 /\ inits' = inits + 1 /\ uninits' = uninits
         \/ uninits > 0 /\ uninits' = uninits + 1 /\ inits' = inits
      /\ pc' = pc /\ vec' = vec /\ src' = src /\ drops' = drops /\ header' = header
      /\ len' = len /\ slots' = slots /\ given' = given
      /\ how' = how /\ honest' = honest /\ zst' = zst /\ taken' = taken
  BY DEF Inv, Clone, fixed
<1>2. Written' = Written
  BY <1>1 DEF Written
<1>3. inits \in Nat /\ uninits \in Nat
  BY <1>1 DEF TypeOK
<1>4. /\ inits' \in 0 .. MaxArcs /\ uninits' \in 0 .. MaxArcs /\ inits' + uninits' <= MaxArcs
      /\ inits' + uninits' > 0 /\ (inits' > 0 => inits > 0) /\ (uninits' > 0 => uninits > 0)
  BY <1>1, <1>3, IndexFacts
<1>5. TypeOK'
  BY <1>1, <1>4 DEF TypeOK
<1>6. Once' /\ Apart' /\ Room'
  BY <1>1, <1>2, <1>4 DEF Once, Apart, Room, InVec, InSlots
<1>7. Filled => Filled'
  BY <1>1, <1>2 DEF Filled, Begun
<1>8. Stages'
  BY <1>1, <1>4, <1>7 DEF Stages, Early, Loop, Checks
<1>9. Kept' /\ Promise' /\ NothingLost'
  BY <1>1 DEF Kept, Promise, Loop, Checks, NothingLost, InVec, InSlots
<1>10. QED
  BY <1>5, <1>6, <1>8, <1>9 DEF Inv

\* The last Arc finds everything that it was given, undropped.
LEMMA DropArcKeeps ==
  ASSUME Inv, DropArc
  PROVE  Inv'
<1>1. /\ pc = "shared" /\ TypeOK /\ Once /\ Apart /\ Room /\ Stages /\ Kept
      /\ inits > 0 /\ Filled /\ vec = <<>>
      /\ inits' = inits - 1 /\ uninits' = uninits
      /\ vec' = vec /\ src' = src /\ len' = len /\ slots' = slots /\ given' = given
      /\ how' = how /\ honest' = honest /\ zst' = zst /\ taken' = taken
  BY DEF Inv, DropArc, fixed, Stages
<1>2. Written' = Written
  BY <1>1 DEF Written
<1>3. inits \in Nat /\ uninits \in Nat /\ inits + uninits <= MaxArcs
  BY <1>1 DEF TypeOK, Room
<1>4. /\ inits' \in 0 .. MaxArcs /\ uninits' \in 0 .. MaxArcs /\ inits' + uninits' <= MaxArcs
  BY <1>1, <1>3, IndexFacts DEF TypeOK
<1>5. Once' /\ Room'
  BY <1>1, <1>4 DEF Once, Room
<1>6. CASE inits + uninits > 1
  <2>1. pc' = pc /\ header' = header /\ drops' = drops
    BY <1>6 DEF DropArc
  <2>2. TypeOK'
    BY <1>1, <1>4, <2>1 DEF TypeOK
  <2>3. Apart'
    BY <1>1, <1>2, <2>1 DEF Apart, InVec, InSlots
  <2>4. Filled'
    BY <1>1, <1>2, <2>1 DEF Filled, Begun
  <2>5. Stages'
    <3>1. inits' + uninits' > 0
      BY <1>1, <1>3, <1>6
    <3>2. QED
      BY <1>1, <2>1, <2>4, <3>1 DEF Stages, Early, Loop, Checks
  <2>6. Kept' /\ Promise' /\ NothingLost'
    BY <1>1, <2>1 DEF Kept, Promise, Loop, Checks, NothingLost, InVec, InSlots
  <2>7. QED
    BY <1>5, <2>2, <2>3, <2>5, <2>6 DEF Inv
<1>7. CASE ~(inits + uninits > 1)
  <2> DEFINE S == {slots[k] : k \in 1 .. len} \ {None}
  <2>1. /\ pc' = "dropped" /\ header' = "dropped"
        /\ drops' = IF how = "slice" THEN drops ELSE Dropping(S)
    BY <1>7 DEF DropArc
  <2>2. inits' = 0 /\ uninits' = 0
    BY <1>1, <1>3, <1>7
  <2>3. /\ len \in Nat /\ 1 .. len \subseteq Index /\ Written = 1 .. len
        /\ \A k \in 1 .. len : slots[k] \in Elems /\ slots[k] # None
    BY <1>1, IndexFacts DEF Filled, Begun, TypeOK
  <2>4. S \subseteq Elems /\ (\A e \in S : drops[e] = 0) /\ \A e : e \in S <=> InSlots(e) /\ e # None
    <3>1. \A e : e \in S <=> (\E k \in 1 .. len : slots[k] = e) /\ e # None
      OBVIOUS
    <3>2. S \subseteq Elems
      BY <2>3, <3>1
    <3>3. \A e \in S : drops[e] = 0
      BY <1>1, <2>3, <3>1 DEF Apart
    <3>4. \A e : e # None => ((\E k \in 1 .. len : slots[k] = e) <=> InSlots(e))
      BY <2>3 DEF InSlots, Written
    <3>5. QED
      BY <3>1, <3>2, <3>3, <3>4
  <2> HIDE DEF S
  <2>5. /\ drops' \in [Elems -> Nat]
        /\ \A e \in Elems : drops'[e] <= 1 /\ (drops[e] = 1 => drops'[e] = 1)
        /\ how # "slice" => \A e \in S : drops'[e] = 1
        /\ \A e \in Elems \ S : drops'[e] = drops[e]
        /\ how = "slice" => drops' = drops
    <3>1. CASE how = "slice"
      BY <1>1, <2>1, <3>1 DEF TypeOK, Apart
    <3>2. CASE how # "slice"
      <4>1. drops' = Dropping(S)
        BY <2>1, <3>2
      <4>2. QED
        BY <1>1, <2>4, <3>2, <4>1, DropsOnce
    <3>3. QED
      BY <3>1, <3>2
  <2>6. TypeOK'
    BY <1>1, <1>4, <2>1, <2>5 DEF TypeOK
  <2>7. Apart'
    <3>1. \A e \in src : ~InVec(e)' /\ drops'[e] = 0 /\ (how # "slice" => ~InSlots(e)')
      <4>1. SUFFICES ASSUME NEW e \in src
                     PROVE  ~InVec(e)' /\ drops'[e] = 0 /\ (how # "slice" => ~InSlots(e)')
        OBVIOUS
      <4>2. e \in Elems /\ ~InVec(e) /\ drops[e] = 0 /\ (how # "slice" => ~InSlots(e))
        BY <1>1 DEF Apart, TypeOK
      <4>3. drops'[e] = 0
        BY <2>4, <2>5, <4>2
      <4>4. QED
        BY <1>1, <4>2, <4>3 DEF InVec, InSlots
    <3>2. \A k \in 1 .. Len(vec') : drops'[vec'[k]] = 0
      BY <1>1
    <3>3. QED
      BY <1>1, <2>1, <2>5, <3>1, <3>2 DEF Apart
  <2>8. Stages'
    BY <1>1, <2>1, <2>2 DEF Stages, Early, Loop, Checks
  <2>9. how \notin {"slice", "uninit"} => \A e \in taken : drops'[e] = 1
    <3>1. SUFFICES ASSUME how \notin {"slice", "uninit"}, NEW e \in taken
                   PROVE  drops'[e] = 1
      OBVIOUS
    <3>2. src = {} /\ ~InVec(e) /\ e \in Elems /\ e # None
      BY <1>1, <3>1, IndexFacts DEF Stages, InVec, TypeOK
    <3>3. InSlots(e) \/ drops[e] = 1
      BY <1>1, <3>1, <3>2 DEF Kept
    <3>4. QED
      BY <2>4, <2>5, <3>1, <3>2, <3>3
  <2>10. how = "uninit" => \A k \in 1 .. len : drops'[slots[k]] = 1
    <3>1. \A k \in 1 .. len : slots[k] \in S
      BY <2>3, <2>4 DEF InSlots
    <3>2. QED
      BY <2>5, <3>1
  <2>11. Kept'
    BY <1>1, <2>1, <2>9 DEF Kept
  <2>12. Promise'
    BY <2>1 DEF Promise, Loop, Checks
  <2>13. NothingLost'
    BY <1>1, <2>1, <2>9, <2>10 DEF NothingLost
  <2>14. QED
    BY <1>5, <2>6, <2>7, <2>8, <2>11, <2>12, <2>13 DEF Inv
<1>8. QED
  BY <1>6, <1>7

LEMMA DropUninitKeeps ==
  ASSUME Inv, DropUninit
  PROVE  Inv'
<1>1. /\ pc = "shared" /\ TypeOK /\ Once /\ Apart /\ Room /\ Stages /\ Kept
      /\ uninits > 0 /\ how = "uninit" /\ vec = <<>> /\ header = "inner"
      /\ uninits' = uninits - 1 /\ inits' = inits
      /\ pc' = IF inits + uninits > 1 THEN "shared" ELSE "leaked"
      /\ vec' = vec /\ src' = src /\ drops' = drops /\ header' = header
      /\ len' = len /\ slots' = slots /\ given' = given
      /\ how' = how /\ honest' = honest /\ zst' = zst /\ taken' = taken
  BY DEF Inv, DropUninit, fixed, Stages
<1>2. Written' = Written
  BY <1>1 DEF Written
<1>3. inits \in Nat /\ uninits \in Nat /\ inits + uninits <= MaxArcs
  BY <1>1 DEF TypeOK, Room
<1>4. /\ inits' \in 0 .. MaxArcs /\ uninits' \in 0 .. MaxArcs /\ inits' + uninits' <= MaxArcs
      /\ inits + uninits > 1 => inits' + uninits' > 0
      /\ ~(inits + uninits > 1) => inits' = 0 /\ uninits' = 0
  BY <1>1, <1>3, IndexFacts DEF TypeOK
<1>5. pc' \in {"shared", "leaked"}
  BY <1>1
<1>6. TypeOK'
  BY <1>1, <1>4, <1>5 DEF TypeOK
<1>7. Once' /\ Apart' /\ Room'
  BY <1>1, <1>2, <1>4, <1>5 DEF Once, Apart, Room, InVec, InSlots
<1>8. Filled => Filled'
  BY <1>1, <1>2 DEF Filled, Begun
<1>9. Stages'
  <2>1. CASE inits + uninits > 1
    BY <1>1, <1>4, <1>8, <2>1 DEF Stages, Early, Loop, Checks
  <2>2. CASE ~(inits + uninits > 1)
    BY <1>1, <1>4, <2>2 DEF Stages, Early, Loop, Checks
  <2>3. QED
    BY <2>1, <2>2
<1>10. Kept' /\ Promise' /\ NothingLost'
  BY <1>1, <1>5 DEF Kept, Promise, Loop, Checks, NothingLost
<1>11. QED
  BY <1>6, <1>7, <1>9, <1>10 DEF Inv
-----------------------------------------------------------------------------
(* The invariant *)

LEMMA EntryFacts ==
  ASSUME NEW h \in Sources
  PROVE  /\ Entry[h] \in {"hint", "len", "vec", "slice", "new_uninit"}
         /\ Entry[h] = "hint" => h = "from_iter"
         /\ Entry[h] = "len" => h = "header_and_iter"
         /\ Entry[h] = "vec" <=> h \in {"vec", "box"}
         /\ Entry[h] = "slice" => h = "slice"
         /\ Entry[h] = "new_uninit" => h = "uninit"
<1>1. /\ Entry["from_iter"] = "hint" /\ Entry["header_and_iter"] = "len"
      /\ Entry["vec"] = "vec" /\ Entry["box"] = "vec"
      /\ Entry["slice"] = "slice" /\ Entry["uninit"] = "new_uninit"
  BY DEF Entry
<1>2. h \in {"from_iter", "header_and_iter", "vec", "box", "slice", "uninit"}
  BY DEF Sources
<1>3. QED
  BY <1>1, <1>2

LEMMA InitInv == Init => Inv
<1> SUFFICES ASSUME Init PROVE Inv
  OBVIOUS
<1>1. /\ how \in Sources /\ pc = Entry[how] /\ honest \in BOOLEAN /\ zst \in BOOLEAN
      /\ taken \subseteq Elems /\ Cardinality(taken) <= MaxLen
      /\ IF how \in {"vec", "box"} THEN src = {} /\ vec \in Listings(taken)
                                   ELSE src = taken /\ vec = <<>>
      /\ len = 0 /\ slots = [k \in Index |-> None] /\ given = <<>> /\ header = "arg"
      /\ inits = 0 /\ uninits = 0 /\ drops = [e \in Elems |-> 0]
  BY DEF Init
<1>2. /\ pc \in {"hint", "len", "vec", "slice", "new_uninit"}
      /\ pc = "hint" => how = "from_iter"
      /\ pc = "len" => how = "header_and_iter"
      /\ pc = "vec" <=> how \in {"vec", "box"}
      /\ pc = "slice" => how = "slice"
      /\ pc = "new_uninit" => how = "uninit"
  BY <1>1, EntryFacts
<1>3. /\ vec \in Seq(Elems) /\ src \subseteq taken
      /\ Len(vec) + Cardinality(src) <= MaxLen
      /\ \A j, k \in 1 .. Len(vec) : vec[j] = vec[k] => j = k
      /\ src = {} \/ vec = <<>>
      /\ \A e \in taken : e \in src \/ InVec(e)
      /\ vec # <<>> => pc = "vec"
      /\ pc = "vec" => src = {}
  <2>1. CASE how \in {"vec", "box"}
    <3>1. src = {} /\ vec \in Listings(taken)
      BY <1>1, <2>1
    <3>2. /\ vec \in Seq(Elems) /\ Len(vec) = Cardinality(taken) /\ Len(vec) \in Nat
          /\ \A e : e \in taken <=> \E k \in 1 .. Len(vec) : vec[k] = e
          /\ \A j, k \in 1 .. Len(vec) : vec[j] = vec[k] => j = k
      BY <1>1, <3>1, ListingFacts
    <3>3. Cardinality(src) = 0
      BY <3>1, FS_EmptySet
    <3>4. Len(vec) + Cardinality(src) <= MaxLen
      BY <1>1, <3>2, <3>3, IndexFacts
    <3>5. QED
      BY <1>2, <2>1, <3>1, <3>2, <3>4 DEF InVec
  <2>2. CASE how \notin {"vec", "box"}
    <3>1. src = taken /\ vec = <<>>
      BY <1>1, <2>2
    <3>2. Len(vec) = 0 /\ Cardinality(src) \in Nat
      BY <1>1, <3>1, Counting
    <3>3. Len(vec) + Cardinality(src) <= MaxLen
      BY <1>1, <3>1, <3>2, IndexFacts
    <3>4. QED
      BY <1>2, <2>2, <3>1, <3>3
  <2>3. QED
    BY <2>1, <2>2
<1>4. Written = {}
  BY <1>1 DEF Written
<1>5. TypeOK
  BY <1>1, <1>2, <1>3, IndexFacts DEF TypeOK
<1>6. Once
  BY <1>1, <1>3 DEF Once
<1>7. Apart
  <2>1. \A e \in Elems : ~InSlots(e)
    BY <1>1, IndexFacts DEF InSlots
  <2>2. \A e \in src : ~InVec(e)
    BY <1>3 DEF InVec
  <2>3. \A k \in 1 .. Len(vec) : vec[k] \in Elems
    BY <1>3
  <2>4. QED
    BY <1>1, <1>3, <1>4, <2>1, <2>2, <2>3 DEF Apart
<1>8. Room
  BY <1>1, <1>3, IndexFacts DEF Room
<1>9. Stages
  BY <1>1, <1>2, <1>3, <1>4 DEF Stages, Early, Loop, Checks
<1>10. Kept
  BY <1>3 DEF Kept
<1>11. Promise /\ NothingLost
  BY <1>2 DEF Promise, Loop, Checks, NothingLost
<1>12. QED
  BY <1>5, <1>6, <1>7, <1>8, <1>9, <1>10, <1>11 DEF Inv

LEMMA NextInv == Inv /\ [Next]_vars => Inv'
<1> SUFFICES ASSUME Inv, [Next]_vars PROVE Inv'
  OBVIOUS
<1>1. ASSUME Hint \/ Exact \/ Collect PROVE Inv'
  BY <1>1, HintKeeps, ExactKeeps, CollectKeeps
<1>2. ASSUME Length \/ Alloc \/ WriteNext \/ LoopEnd PROVE Inv'
  BY <1>2, LengthKeeps, AllocKeeps, WriteNextKeeps, LoopEndKeeps
<1>3. ASSUME FirstCheck \/ SecondCheck \/ ReturnIter PROVE Inv'
  BY <1>3, ChecksKeep, ReturnIterKeeps
<1>4. ASSUME AllocVec \/ CopyVec \/ SetLen \/ ReturnVec PROVE Inv'
  BY <1>4, AllocVecKeeps, CopyVecKeeps, SetLenKeeps, ReturnVecKeeps
<1>5. ASSUME NEW s \in Listings(src), CopySlice(s) PROVE Inv'
  BY <1>5, CopySliceKeeps
<1>6. ASSUME NewUninit \/ AssumeInit PROVE Inv'
  BY <1>6, NewUninitKeeps, AssumeInitKeeps
<1>7. ASSUME NEW k \in Index, NEW e \in src, Write(k, e) PROVE Inv'
  BY <1>7, WriteKeeps
<1>8. ASSUME Clone \/ DropArc \/ DropUninit PROVE Inv'
  BY <1>8, CloneKeeps, DropArcKeeps, DropUninitKeeps
<1>9. CASE UNCHANGED vars
  <2>1. /\ TypeOK' /\ Once' /\ Apart' /\ Room'
    BY <1>9 DEF vars, Inv, TypeOK, Once, Apart, Room, Written, InVec, InSlots
  <2>2. Stages'
    BY <1>9 DEF vars, Inv, Stages, Filled, Begun, Written
  <2>3. Kept' /\ Promise' /\ NothingLost'
    BY <1>9 DEF vars, Inv, Kept, Promise, NothingLost, Written, InVec, InSlots
  <2>4. QED
    BY <2>1, <2>2, <2>3 DEF Inv
<1>10. QED
  BY <1>1, <1>2, <1>3, <1>4, <1>5, <1>6, <1>7, <1>8, <1>9 DEF Next

LEMMA Invariant == Spec => []Inv
BY InitInv, NextInv, PTL DEF Spec

\* The state of a construction is what the comments of the variables say; in
\* particular no length is out of the bounds of the slice.
THEOREM SliceTyped == Spec => []TypeOK
<1>1. Inv => TypeOK
  BY DEF Inv
<1>2. QED
  BY <1>1, Invariant, PTL

\* No element is dropped twice or by two owners, wherever the iterator panics
\* and whatever length it has reported (header.rs, unique_arc.rs).
THEOREM NothingTwice == Spec => []OneOwner
BY InvOneOwner, Invariant, PTL

\* An Arc that the program gets is initialized in full, and with what was put
\* in, in that order.
THEOREM SharedIsInitialized == Spec => []InitializedWhenShared
BY InvInitialized, Invariant, PTL

\* What was taken is dropped in the end, or is in memory that was leaked.
THEOREM NothingGoesMissing == Spec => []NothingLost
<1>1. Inv => NothingLost
  BY DEF Inv
<1>2. QED
  BY <1>1, Invariant, PTL

\* An honest iterator of a T with a size makes only an allocation fail.
LEMMA UnwindsOnlyWhere ==
  ASSUME Inv, Next, pc' = "unwound", honest
  PROVE  pc \in {"alloc", "vec", "slice", "new_uninit"} \/ zst
<1>1. TypeOK /\ Stages /\ Promise
  BY DEF Inv
<1>2. honest = TRUE /\ ~Panics
  BY <1>1 DEF TypeOK, Panics
<1>3. CASE Hint \/ Exact
  BY <1>2, <1>3 DEF Hint, Exact, Goto
<1>4. CASE Collect
  <2>1. pc = "collect"
    BY <1>4 DEF Collect
  <2>2. QED
    BY <1>2, <1>4, <2>1 DEF Collect, Panics
<1>5. CASE Length \/ Alloc
  BY <1>2, <1>5 DEF Length, Alloc
<1>6. CASE WriteNext
  <2>1. pc = "write"
    BY <1>6 DEF WriteNext
  <2>2. Yields(None)
    BY <1>2, <1>6, <2>1 DEF WriteNext
  <2>3. src = {}
    BY <1>1, <1>2, <2>2, IndexFacts DEF Yields, TypeOK
  <2>4. Begun /\ len = Len(given) + Cardinality(src)
    BY <1>1, <1>2, <2>1 DEF Promise, Stages, Loop
  <2>5. Cardinality(Written) = Len(given) /\ Len(given) \in Nat
    BY <1>1, <2>4, WrittenCount
  <2>6. Cardinality(src) = 0
    BY <2>3, FS_EmptySet
  <2>7. Cardinality(Written) < len
    BY <1>6 DEF WriteNext, MoreToWrite
  <2>8. QED
    BY <2>4, <2>5, <2>6, <2>7
<1>7. CASE FirstCheck \/ SecondCheck
  <2>1. PICK label \in Checks, next \in Checks : NothingLeft(label, next)
    BY <1>7 DEF FirstCheck, SecondCheck, Checks
  <2>2. pc = label /\ src = {}
    BY <1>1, <1>2, <2>1 DEF NothingLeft, Promise, Checks
  <2>3. \E e \in src \cup {None} : e = None /\ pc' = next
    BY <1>2, <2>1, <2>2 DEF NothingLeft, Ended
  <2>4. QED
    BY <2>1, <2>3 DEF Checks
<1>8. CASE LoopEnd
  <2>1. pc' \in {"second_check", "first_check"}
    BY <1>8 DEF LoopEnd, Goto
  <2>2. QED
    BY <2>1
<1>9. CASE ReturnIter \/ CopyVec \/ SetLen \/ ReturnVec \/ NewUninit \/ AssumeInit
  BY <1>9 DEF ReturnIter, CopyVec, SetLen, ReturnVec, NewUninit, AssumeInit
<1>10. CASE AllocVec
  BY <1>10 DEF AllocVec
<1>11. CASE \E s \in Listings(src) : CopySlice(s)
  BY <1>11 DEF CopySlice
<1>12. CASE \E k \in Index, e \in src : Write(k, e)
  BY <1>12 DEF Write
<1>13. CASE Clone \/ DropArc \/ DropUninit
  BY <1>13 DEF Clone, DropArc, DropUninit
<1>14. QED
  BY <1>3, <1>4, <1>5, <1>6, <1>7, <1>8, <1>9, <1>10, <1>11, <1>12, <1>13 DEF Next

\* No assertion about the reported length fires for an iterator that reported
\* it rightly and goes on returning None (header.rs, from_header_and_iter).
THEOREM HonestPasses == Spec => HonestNeverBlamed
<1>1. Inv /\ [Next]_vars =>
        [pc' = "unwound" /\ honest =>
           pc \in {"alloc", "vec", "slice", "new_uninit"} \/ zst]_vars
  BY UnwindsOnlyWhere
<1>2. QED
  BY <1>1, Invariant, PTL DEF Spec, HonestNeverBlamed
=============================================================================
