--------------------------- MODULE ArcOrderProofs ---------------------------
(***************************************************************************)
(* Proofs about ArcOrder: the orderings of arc.rs are enough, for any      *)
(* number of threads, of references, and of stale writes that may still be *)
(* loaded.                                                                 *)
(*                                                                         *)
(* The argument is about who holds a reference: an access or a write of    *)
(* the counter that matters is always known to some holder of it, or       *)
(* passed on by the newest write of the counter.                           *)
(***************************************************************************)
EXTENDS ArcOrder, FiniteSetTheorems, WellFoundedInduction, TLAPS

\* The threads that have a reference in hand, as its owner or by a borrow.
HoldersOf(r) == {h \in Threads : owner[r] = h \/ loan[h] = r}

\* No thread has seen a write that there is not.
Placed == \A t \in Threads : pos[t] <= Newest

\* A thread has seen what it did itself.
OwnSeen == \A t \in Threads, k \in Kinds : <<t, k>> \in seen[t]

\* Borrows and iterators keep their Arc, clones owed have an iterator, and
\* the last drop comes when nothing else can.
RefsOK ==
  /\ \A r \in Refs : form[r] = "absent" <=> owner[r] = None
  /\ \A u \in Threads : loan[u] # None => form[loan[u]] \in Values
  /\ \A u \in Threads : iter[u] # None =>
       form[iter[u]] = "Arc" /\ (owner[iter[u]] = u \/ loan[u] = iter[u])
  /\ \A r \in Refs : form[r] = "owed" => iter[owner[r]] # None
  /\ \A u \in Threads : last[u] # "no" => Existing = {}
  /\ \A u, w \in Threads : last[u] # "no" /\ last[w] # "no" => u = w

CountOK == counts[Newest] = Cardinality(Existing)

\* Where the counter once was 1, every reference that came after has a holder
\* who knows that it is not 1 any more: the next write was made through the
\* one reference there was.
OnesKnown ==
  \A r \in Existing, i \in Writes :
    i < Newest /\ counts[i] = 1 => \E h \in HoldersOf(r) : pos[h] > i

\* All writes of the contents happen before what any holder does next.
StoresSeen == \A r \in Existing : \A h \in HoldersOf(r) : Stores \subseteq seen[h]

Over == \E t \in Threads : last[t] \in {"drop_slow", "done"}

\* Every access has been seen by a holder, or comes with the newest write.
Covered ==
  ~Over => \A a \in Accesses :
    a \in views[Newest] \/ \E r \in Existing : \E h \in HoldersOf(r) : a \in seen[h]

\* Between them, the holders of a UniqueArc have seen every access.
UniqueSeen ==
  \A r \in Refs : form[r] = "UniqueArc" =>
    \A a \in Accesses : \E h \in HoldersOf(r) : a \in seen[h]

\* The last drop will load the write that it made itself.
LastOK ==
  /\ \A t \in Threads : last[t] = "decremented" => pos[t] = Newest
  /\ DisposalOrdered

Inv ==
  /\ TypeOK /\ Placed /\ OwnSeen /\ RefsOK /\ CountOK /\ OnesKnown
  /\ UniqueIsCurrent /\ StoresSeen /\ Covered /\ UniqueSeen /\ LastOK

-----------------------------------------------------------------------------
(* Operators *)

\* A nonempty set of numbers has a least one: that of the oldest write which
\* anybody may still load.
LEMMA MinIsLeast ==
  ASSUME NEW S \in SUBSET Nat, NEW k \in S
  PROVE  Min(S) \in S /\ \A y \in S : Min(S) <= y
<1>1. S \subseteq Nat /\ S # {}
  OBVIOUS
<1>2. PICK n \in S : \A m \in S : <<m, n>> \notin OpToRel(<, Nat)
  BY <1>1, NatLessThanWellFounded, WFMin
<1>3. \A m \in S : ~(m < n)
  BY <1>1, <1>2 DEF OpToRel
<1>4. \E x \in S : \A y \in S : x <= y
  BY <1>1, <1>3
<1>5. QED
  BY <1>4 DEF Min

LEMMA MaxOfTwo ==
  ASSUME NEW x \in Int, NEW y \in Int
  PROVE  Max({x, y}) = IF x >= y THEN x ELSE y
<1>1. \E z \in {x, y} : \A w \in {x, y} : z >= w
  OBVIOUS
<1>2. QED
  BY <1>1 DEF Max

LEMMA Suffix ==
  ASSUME NEW T, NEW s \in Seq(T), NEW a \in 1 .. Len(s)
  PROVE  /\ SubSeq(s, a, Len(s)) \in Seq(T)
         /\ Len(SubSeq(s, a, Len(s))) = Len(s) - a + 1
         /\ \A i \in 1 .. Len(s) - a + 1 : SubSeq(s, a, Len(s))[i] = s[i + a - 1]
OBVIOUS

\* The numbers of writes and positions when the oldest d are dropped.
LEMMA Window ==
  ASSUME NEW N \in Nat, NEW d \in Nat, NEW i \in 1 .. N - d
  PROVE  i + d \in 1 .. N
OBVIOUS

LEMMA WindowEnd ==
  ASSUME NEW N \in Nat, NEW d \in Nat, d < N
  PROVE  N - d \in 1 .. N - d /\ N - d + d = N
OBVIOUS

LEMMA Sliding ==
  ASSUME NEW x \in Nat, NEW y \in Nat, NEW z \in Nat, NEW d \in Nat,
         x + d >= y, y >= z
  PROVE  x + d >= z
OBVIOUS

LEMMA SlidPosition ==
  ASSUME NEW y \in Nat, NEW m \in Nat, NEW f \in Nat, y <= m, f <= m, f >= 1,
         ~(1 >= y - f + 1)
  PROVE  /\ y - f + 1 \in Nat \ {0} /\ y - f + 1 <= m - (f - 1)
         /\ y - f + 1 + (f - 1) >= y
OBVIOUS

\* Remember drops the oldest d writes and moves positions along, keeping
\* those that point to what is dropped at the oldest that is left.
LEMMA Remembered ==
  ASSUME NEW c \in Seq(Nat), c # <<>>,
         NEW v \in Seq(SUBSET Accesses), Len(v) = Len(c),
         NEW p \in [Threads -> Nat \ {0}], \A u \in Threads : p[u] <= Len(c),
         Remember(c, v, p)
  PROVE  \E d \in Nat :
           /\ d < Len(c)
           /\ counts' \in Seq(Nat) /\ counts' # <<>> /\ Len(counts') = Len(c) - d
           /\ views' \in Seq(SUBSET Accesses) /\ Len(views') = Len(c) - d
           /\ \A i \in 1 .. Len(c) - d : counts'[i] = c[i + d]
           /\ views'[Len(c) - d] = v[Len(c)]
           /\ pos' \in [Threads -> Nat \ {0}]
           /\ \A u \in Threads : pos'[u] <= Len(c) - d /\ pos'[u] + d >= p[u]
<1> DEFINE S == {p[t] : t \in Holders} \cup {Len(c)}
           first == Min(S)
<1>1. S \in SUBSET Nat /\ Len(c) \in S /\ Len(c) \in Nat /\ Len(c) >= 1
  BY DEF Holders
<1>2. first \in S /\ first <= Len(c)
  BY <1>1, MinIsLeast
<1>3. first \in 1 .. Len(c)
  <2>1. \A x \in S : x >= 1
    BY <1>1 DEF Holders
  <2>2. QED
    BY <1>1, <1>2, <2>1
<1>4. /\ counts' = SubSeq(c, first, Len(c)) /\ views' = SubSeq(v, first, Len(v))
      /\ pos' = [t \in Threads |-> Max({1, p[t] - first + 1})]
  BY DEF Remember
<1> HIDE DEF first
<1>5. PICK d \in Nat : d = first - 1
  BY <1>3
<1>6. /\ counts' \in Seq(Nat) /\ Len(counts') = Len(c) - d
      /\ \A i \in 1 .. Len(c) - d : counts'[i] = c[i + d]
  <2>1. /\ counts' \in Seq(Nat) /\ Len(counts') = Len(c) - first + 1
        /\ \A i \in 1 .. Len(c) - first + 1 : counts'[i] = c[i + first - 1]
    <3>1. counts' = SubSeq(c, first, Len(c))
      BY <1>4
    <3>2. QED
      BY <1>3, <3>1, Suffix
  <2>2. Len(c) - first + 1 = Len(c) - d /\ \A i \in Nat : i + first - 1 = i + d
    BY <1>1, <1>3, <1>5
  <2>3. QED
    BY <1>1, <1>5, <2>1, <2>2
<1>7. /\ views' \in Seq(SUBSET Accesses) /\ Len(views') = Len(c) - d
      /\ views'[Len(c) - d] = v[Len(c)]
  <2>1. first \in 1 .. Len(v)
    BY <1>3
  <2>2. /\ views' \in Seq(SUBSET Accesses) /\ Len(views') = Len(v) - first + 1
        /\ \A i \in 1 .. Len(v) - first + 1 : views'[i] = v[i + first - 1]
    BY <1>4, <2>1, Suffix
  <2>3. /\ Len(v) - first + 1 = Len(c) - d /\ Len(c) - d \in 1 .. Len(v) - first + 1
        /\ (Len(c) - d) + first - 1 = Len(c)
    BY <1>1, <1>3, <1>5
  <2>4. QED
    BY <2>2, <2>3
<1>8. ASSUME NEW u \in Threads
      PROVE  /\ pos'[u] \in Nat \ {0}
             /\ pos'[u] <= Len(c) - d /\ pos'[u] + d >= p[u]
  <2>1. p[u] \in Nat /\ p[u] - first + 1 \in Int /\ p[u] <= Len(c)
    BY <1>3
  <2>2. PICK x \in Int : x = p[u] - first + 1
    BY <2>1
  <2>3. pos'[u] = Max({1, x})
    BY <1>4, <2>2
  <2>4. pos'[u] = IF 1 >= x THEN 1 ELSE x
    BY <2>3, MaxOfTwo
  <2>5. PICK y \in Nat, m \in Nat, f \in Nat :
          y = p[u] /\ m = Len(c) /\ f = first /\ y <= m /\ f <= m /\ f >= 1
    BY <1>1, <1>3, <2>1
  <2>6. x = y - f + 1 /\ d = f - 1
    BY <1>5, <2>2, <2>5
  <2>7. CASE 1 >= x
    <3>1. pos'[u] = 1
      BY <2>4, <2>7
    <3>2. 1 \in Nat \ {0} /\ 1 <= m - d /\ 1 + d >= y
      BY <2>5, <2>6, <2>7
    <3>3. QED
      BY <2>5, <3>1, <3>2
  <2>8. CASE ~(1 >= x)
    <3>1. pos'[u] = x
      BY <2>4, <2>8
    <3>2. x \in Nat \ {0} /\ x <= m - d /\ x + d >= y
      BY <2>5, <2>6, <2>8, SlidPosition
    <3>3. QED
      BY <2>5, <3>1, <3>2
  <2>9. QED
    BY <2>7, <2>8
<1>9. pos' \in [Threads -> Nat \ {0}]
  BY <1>4, <1>8
<1>10. d < Len(c) /\ counts' # <<>>
  <2>1. d < Len(c)
    BY <1>1, <1>3, <1>5
  <2>2. Len(counts') # 0
    BY <1>1, <1>6, <2>1
  <2>3. QED
    BY <2>1, <2>2
<1>11. QED
  BY <1>6, <1>7, <1>8, <1>9, <1>10

-----------------------------------------------------------------------------
(* Steps of the memory *)

MemoryOK ==
  /\ counts \in Seq(Nat) /\ counts # <<>>
  /\ views \in Seq(SUBSET Accesses) /\ Len(views) = Len(counts)
  /\ pos \in [Threads -> Nat \ {0}]
  /\ seen \in [Threads -> SUBSET Accesses]
  /\ Placed /\ OwnSeen

\* Nobody forgets an access but those in X, and they pass from write to write.
SeenKept(X) ==
  /\ \A u \in Threads : \A a \in seen[u] : a \in X \/ a \in seen'[u]
  /\ \A a \in views[Newest] : a \in X \/ a \in views'[Newest']

\* The counter is left as it is, but for d old writes, and nobody goes back.
Slid(d) ==
  /\ Newest' = Newest - d
  /\ \A i \in Writes' : i + d \in Writes /\ counts'[i] = counts[i + d]
  /\ \A u \in Threads : pos'[u] + d >= pos[u]

LEMMA MemoryFacts ==
  ASSUME MemoryOK
  PROVE  /\ Newest \in Nat /\ Newest >= 1 /\ Newest \in Writes /\ Writes \subseteq Nat
         /\ \A i \in Writes : counts[i] \in Nat /\ views[i] \subseteq Accesses
         /\ \A u \in Threads : pos[u] \in 1 .. Newest /\ seen[u] \subseteq Accesses
         /\ Accesses \subseteq Threads \X Kinds /\ "use" \in Kinds /\ "write" \in Kinds
<1>1. Newest \in Nat /\ Newest >= 1
  BY DEF MemoryOK, Newest
<1>2. Newest \in Writes /\ Writes \subseteq Nat
  BY <1>1 DEF Writes, Newest
<1>3. \A i \in Writes : counts[i] \in Nat /\ views[i] \subseteq Accesses
  BY <1>1 DEF Writes, MemoryOK
<1>4. \A u \in Threads : pos[u] \in 1 .. Newest /\ seen[u] \subseteq Accesses
  BY <1>1 DEF MemoryOK, Placed
<1>5. QED
  BY <1>1, <1>2, <1>3, <1>4 DEF Accesses, Kinds

\* What an access leaves of what was seen, and of what writes carry.
LEMMA AfterAccess ==
  ASSUME MemoryOK, NEW t \in Threads, NEW k \in Kinds
  PROVE  /\ SeenAfter(t, k) \in [Threads -> SUBSET Accesses]
         /\ SeenAfter(t, k)[t] = seen[t] \cup {<<t, k>>}
         /\ \A u \in Threads \ {t} : SeenAfter(t, k)[u] = seen[u] \ {<<t, k>>}
         /\ \A u \in Threads, l \in Kinds : <<u, l>> \in SeenAfter(t, k)[u]
         /\ ViewsAfter(t, k) \in Seq(SUBSET Accesses)
         /\ Len(ViewsAfter(t, k)) = Len(counts)
         /\ \A i \in Writes : ViewsAfter(t, k)[i] = views[i] \ {<<t, k>>}
<1>1. <<t, k>> \in Accesses /\ \A u \in Threads : seen[u] \subseteq Accesses
  BY DEF Accesses, MemoryOK
<1>2. /\ SeenAfter(t, k)[t] = seen[t] \cup {<<t, k>>}
      /\ \A u \in Threads \ {t} : SeenAfter(t, k)[u] = seen[u] \ {<<t, k>>}
  BY DEF SeenAfter
<1>3. SeenAfter(t, k) \in [Threads -> SUBSET Accesses]
  BY <1>1 DEF SeenAfter
<1>4. \A u \in Threads, l \in Kinds : <<u, l>> \in SeenAfter(t, k)[u]
  BY <1>2 DEF MemoryOK, OwnSeen
<1>5. /\ ViewsAfter(t, k) \in Seq(SUBSET Accesses)
      /\ Len(ViewsAfter(t, k)) = Len(counts)
      /\ \A i \in Writes : ViewsAfter(t, k)[i] = views[i] \ {<<t, k>>}
  <2>1. Writes = 1 .. Len(counts) /\ Len(counts) \in Nat
    BY DEF Writes, MemoryOK
  <2>2. \A i \in Writes : views[i] \ {<<t, k>>} \in SUBSET Accesses
    BY MemoryFacts
  <2>3. ViewsAfter(t, k) \in [1 .. Len(counts) -> SUBSET Accesses]
    BY <2>1, <2>2 DEF ViewsAfter
  <2>4. QED
    BY <2>1, <2>3 DEF ViewsAfter
<1>6. QED
  BY <1>2, <1>3, <1>4, <1>5

LEMMA AccessFacts ==
  ASSUME MemoryOK, NEW t \in Threads, NEW k \in Kinds,
         Access(t, k), counts' = counts, pos' = pos
  PROVE  /\ MemoryOK' /\ Slid(0) /\ SeenKept({<<t, k>>})
         /\ \A a \in seen[t] : a \in seen'[t]
         /\ counts'[Newest'] = counts[Newest]
<1>1. seen' = SeenAfter(t, k) /\ views' = ViewsAfter(t, k)
  BY DEF Access
<1>2. Newest' = Newest /\ Writes' = Writes
  BY DEF Writes, Newest
<1>3. MemoryOK'
  BY <1>1, <1>2, AfterAccess DEF MemoryOK, Placed, OwnSeen
<1>4. Slid(0)
  BY <1>2, MemoryFacts DEF Slid
<1>5. SeenKept({<<t, k>>})
  <2>1. ASSUME NEW u \in Threads, NEW a \in seen[u]
        PROVE  a \in {<<t, k>>} \/ a \in seen'[u]
    BY <1>1, AfterAccess
  <2>2. ASSUME NEW a \in views[Newest]
        PROVE  a \in {<<t, k>>} \/ a \in views'[Newest']
    BY <1>1, <1>2, AfterAccess, MemoryFacts
  <2>3. QED
    BY <2>1, <2>2 DEF SeenKept
<1>6. QED
  BY <1>1, <1>2, <1>3, <1>4, <1>5, AfterAccess

LEMMA LoadFacts ==
  ASSUME MemoryOK, NEW t \in Threads, NEW i \in Writes, NEW ordering,
         Load(t, i, ordering)
  PROVE  /\ MemoryOK' /\ SeenKept({<<t, "use">>}) /\ \E d \in Nat : Slid(d)
         /\ counts'[Newest'] = counts[Newest]
         /\ i >= pos[t]
         /\ \A a \in seen[t] : a \in seen'[t]
         /\ ordering = "Acquire" => \A a \in views[i] : a \in seen'[t]
<1> DEFINE acquired == IF ordering = "Acquire" THEN views[i] ELSE {}
           p == [pos EXCEPT ![t] = i]
           k == "use"
<1>1. /\ i \in pos[t] .. Newest
      /\ seen' = [SeenAfter(t, k) EXCEPT ![t] = @ \cup acquired]
      /\ Remember(counts, ViewsAfter(t, k), p)
  BY DEF Load
<1>2. k \in Kinds /\ acquired \subseteq Accesses
  BY MemoryFacts
<1>3. /\ SeenAfter(t, k) \in [Threads -> SUBSET Accesses]
      /\ SeenAfter(t, k)[t] = seen[t] \cup {<<t, k>>}
      /\ \A u \in Threads \ {t} : SeenAfter(t, k)[u] = seen[u] \ {<<t, k>>}
      /\ \A u \in Threads, l \in Kinds : <<u, l>> \in SeenAfter(t, k)[u]
      /\ ViewsAfter(t, k) \in Seq(SUBSET Accesses)
      /\ Len(ViewsAfter(t, k)) = Len(counts)
      /\ \A j \in Writes : ViewsAfter(t, k)[j] = views[j] \ {<<t, k>>}
  BY <1>2, AfterAccess
<1> HIDE DEF acquired, k
<1>4. /\ seen'[t] = seen[t] \cup {<<t, k>>} \cup acquired
      /\ \A u \in Threads \ {t} : seen'[u] = seen[u] \ {<<t, k>>}
      /\ seen' \in [Threads -> SUBSET Accesses]
  BY <1>1, <1>2, <1>3
<1>5. /\ p \in [Threads -> Nat \ {0}]
      /\ \A u \in Threads : p[u] <= Len(counts) /\ p[u] >= pos[u]
      /\ i >= pos[t] /\ i \in Nat /\ Newest \in Nat /\ Newest >= 1
  <2>1. i \in Nat \ {0} /\ i <= Newest /\ i >= pos[t]
    BY <1>1, MemoryFacts
  <2>2. \A u \in Threads : pos[u] \in 1 .. Newest
    BY MemoryFacts
  <2>3. pos \in [Threads -> Nat \ {0}]
    BY DEF MemoryOK
  <2>4. QED
    BY <2>1, <2>2, <2>3, MemoryFacts DEF Newest
<1> HIDE DEF p
<1>6. PICK d \in Nat :
        /\ d < Len(counts)
        /\ counts' \in Seq(Nat) /\ counts' # <<>> /\ Len(counts') = Len(counts) - d
        /\ views' \in Seq(SUBSET Accesses) /\ Len(views') = Len(counts) - d
        /\ \A j \in 1 .. Len(counts) - d : counts'[j] = counts[j + d]
        /\ views'[Len(counts) - d] = ViewsAfter(t, k)[Len(counts)]
        /\ pos' \in [Threads -> Nat \ {0}]
        /\ \A u \in Threads : pos'[u] <= Len(counts) - d /\ pos'[u] + d >= p[u]
  <2>1. counts \in Seq(Nat) /\ counts # <<>>
    BY DEF MemoryOK
  <2>2. QED
    BY ZenonT(40), <1>1, <1>3, <1>5, <2>1, Remembered
<1>7. MemoryOK'
  <2>1. Placed'
    BY <1>6 DEF Placed, Newest
  <2>2. OwnSeen'
    BY <1>1, <1>3, <1>4 DEF OwnSeen
  <2>3. QED
    BY <1>4, <1>6, <2>1, <2>2 DEF MemoryOK
<1>8. Slid(d) /\ Newest' \in 1 .. Len(counts) - d
  <2>1. Writes' = 1 .. Len(counts) - d /\ Writes = 1 .. Len(counts)
    BY <1>6 DEF Writes
  <2>2. \A u \in Threads : pos'[u] + d >= pos[u]
    <3>1. ASSUME NEW u \in Threads
          PROVE  pos'[u] + d >= pos[u]
      <4>1. pos'[u] + d >= p[u] /\ pos'[u] \in Nat
        BY <1>6, <3>1
      <4>2. p[u] >= pos[u] /\ p[u] \in Nat
        BY <1>5, <3>1
      <4>3. pos[u] \in 1 .. Newest
        BY <3>1, MemoryFacts
      <4>4. PICK x \in Nat, y \in Nat, z \in Nat :
              /\ x = pos'[u] /\ y = p[u] /\ z = pos[u]
              /\ x + d >= y /\ y >= z
        BY <1>5, <4>1, <4>2, <4>3
      <4>5. x + d >= z
        BY <4>4, Sliding
      <4>6. QED
        BY <4>4, <4>5
    <3>2. QED
      BY <3>1
  <2>3. Newest' = Newest - d /\ Newest' \in 1 .. Len(counts) - d
    BY <1>5, <1>6 DEF Newest
  <2>4. \A j \in Writes' : j + d \in Writes /\ counts'[j] = counts[j + d]
    <3>1. ASSUME NEW j \in Writes'
          PROVE  j + d \in Writes /\ counts'[j] = counts[j + d]
      <4>1. j \in 1 .. Len(counts) - d /\ Len(counts) \in Nat
        BY <1>5, <2>1, <3>1 DEF Newest
      <4>2. j + d \in 1 .. Len(counts)
        BY <4>1, Window
      <4>3. QED
        BY <1>6, <2>1, <4>1, <4>2
    <3>2. QED
      BY <3>1
  <2>5. QED
    BY <2>2, <2>3, <2>4 DEF Slid
<1>9. counts'[Newest'] = counts[Newest]
  <2>1. PICK m \in Nat : m = Len(counts)
    BY <1>5 DEF Newest
  <2>2. m - d \in 1 .. m - d /\ m - d + d = m
    BY <1>6, <2>1, WindowEnd
  <2>3. Newest' = m - d /\ Newest = m
    BY <1>6, <2>1 DEF Newest
  <2>4. counts'[m - d] = counts[m - d + d]
    BY <1>6, <2>1, <2>2
  <2>5. QED
    BY <2>2, <2>3, <2>4
<1>10. SeenKept({<<t, "use">>})
  <2>1. ASSUME NEW u \in Threads, NEW a \in seen[u]
        PROVE  a \in {<<t, k>>} \/ a \in seen'[u]
    BY <1>4
  <2>2. ASSUME NEW a \in views[Newest]
        PROVE  a \in {<<t, k>>} \/ a \in views'[Newest']
    <3>1. Newest \in Writes /\ Newest = Len(counts) /\ Newest' = Len(counts) - d
      BY <1>6, MemoryFacts DEF Newest
    <3>2. views'[Newest'] = ViewsAfter(t, k)[Newest]
      BY <1>6, <3>1
    <3>3. ViewsAfter(t, k)[Newest] = views[Newest] \ {<<t, k>>}
      BY <1>3, <3>1
    <3>4. QED
      BY <2>2, <3>2, <3>3
  <2>3. QED
    BY <2>1, <2>2 DEF SeenKept, k
<1>11. QED
  BY <1>4, <1>5, <1>7, <1>8, <1>9, <1>10 DEF acquired

\* The counter gets one more write; d old ones are dropped.
Extended(d) ==
  /\ Newest' = Newest + 1 - d
  /\ \A i \in Writes' : i < Newest' => i + d \in Writes /\ counts'[i] = counts[i + d]
  /\ \A u \in Threads : pos'[u] + d >= pos[u]

LEMMA ModifyFacts ==
  ASSUME MemoryOK, NEW t \in Threads, NEW n \in Nat, NEW ordering,
         Modify(t, n, ordering)
  PROVE  /\ MemoryOK' /\ SeenKept({<<t, "use">>}) /\ \E d \in Nat : Extended(d)
         /\ counts'[Newest'] = n /\ pos'[t] = Newest'
         /\ \A a \in seen[t] : a \in seen'[t]
         /\ ordering = "Release" =>
              <<t, "use">> \in views'[Newest'] /\ \A a \in seen[t] : a \in views'[Newest']
<1> DEFINE k == "use"
           released == IF ordering = "Release" THEN SeenAfter(t, k)[t] ELSE {}
           passedOn == views[Newest] \ {<<t, k>>}
           p == [pos EXCEPT ![t] = Newest + 1]
           c == Append(counts, n)
           v == Append(ViewsAfter(t, k), passedOn \cup released)
           N == Len(counts)
<1>1. seen' = SeenAfter(t, k) /\ Remember(c, v, p)
  BY DEF Modify
<1>2. k \in Kinds
  BY MemoryFacts
<1>3. /\ SeenAfter(t, k) \in [Threads -> SUBSET Accesses]
      /\ SeenAfter(t, k)[t] = seen[t] \cup {<<t, k>>}
      /\ \A u \in Threads \ {t} : SeenAfter(t, k)[u] = seen[u] \ {<<t, k>>}
      /\ \A u \in Threads, l \in Kinds : <<u, l>> \in SeenAfter(t, k)[u]
      /\ ViewsAfter(t, k) \in Seq(SUBSET Accesses)
      /\ Len(ViewsAfter(t, k)) = Len(counts)
  BY <1>2, AfterAccess
<1> HIDE DEF k
<1>4. /\ N \in Nat /\ N >= 1 /\ Newest = N
      /\ counts \in Seq(Nat) /\ pos \in [Threads -> Nat \ {0}]
      /\ \A u \in Threads : pos[u] <= N /\ pos[u] \in Nat
  BY MemoryFacts DEF Newest, MemoryOK, Placed
<1>5. released \cup passedOn \in SUBSET Accesses
  BY <1>3, <1>4, MemoryFacts
<1>6. /\ c \in Seq(Nat) /\ c # <<>> /\ Len(c) = N + 1
      /\ c[N + 1] = n /\ \A i \in 1 .. N : c[i] = counts[i]
  BY <1>4
<1>7. /\ v \in Seq(SUBSET Accesses) /\ Len(v) = N + 1
      /\ v[N + 1] = passedOn \cup released
  BY <1>3, <1>4, <1>5
<1>8. /\ p \in [Threads -> Nat \ {0}] /\ p[t] = N + 1
      /\ \A u \in Threads : p[u] <= N + 1 /\ p[u] >= pos[u] /\ p[u] \in Nat
  BY <1>4
<1> HIDE DEF p, c, v, passedOn, released, N
<1>8a. PICK d \in Nat :
         /\ d < Len(c)
         /\ counts' \in Seq(Nat) /\ counts' # <<>> /\ Len(counts') = Len(c) - d
         /\ views' \in Seq(SUBSET Accesses) /\ Len(views') = Len(c) - d
         /\ \A i \in 1 .. Len(c) - d : counts'[i] = c[i + d]
         /\ views'[Len(c) - d] = v[Len(c)]
         /\ pos' \in [Threads -> Nat \ {0}]
         /\ \A u \in Threads : pos'[u] <= Len(c) - d /\ pos'[u] + d >= p[u]
  <2>1. Len(v) = Len(c) /\ \A u \in Threads : p[u] <= Len(c)
    BY <1>6, <1>7, <1>8
  <2>2. Remember(c, v, p)
    BY <1>1
  <2>3. c \in Seq(Nat) /\ c # <<>> /\ v \in Seq(SUBSET Accesses)
    BY <1>6, <1>7
  <2>4. p \in [Threads -> Nat \ {0}]
    BY <1>8
  <2>5. QED
    BY ONLY ZenonT(40), <2>1, <2>2, <2>3, <2>4, Remembered
<1>9. /\ d < N + 1
      /\ counts' \in Seq(Nat) /\ counts' # <<>> /\ Len(counts') = N + 1 - d
      /\ views' \in Seq(SUBSET Accesses) /\ Len(views') = N + 1 - d
      /\ \A i \in 1 .. N + 1 - d : counts'[i] = c[i + d]
      /\ views'[N + 1 - d] = v[N + 1]
      /\ pos' \in [Threads -> Nat \ {0}]
      /\ \A u \in Threads : pos'[u] <= N + 1 - d /\ pos'[u] + d >= p[u]
  <2>1. PICK m \in Nat : m = N + 1 /\ m = Len(c)
    BY <1>4, <1>6
  <2>2. /\ d < m
        /\ counts' \in Seq(Nat) /\ counts' # <<>> /\ Len(counts') = m - d
        /\ views' \in Seq(SUBSET Accesses) /\ Len(views') = m - d
        /\ \A i \in 1 .. m - d : counts'[i] = c[i + d]
        /\ views'[m - d] = v[m]
        /\ pos' \in [Threads -> Nat \ {0}]
        /\ \A u \in Threads : pos'[u] <= m - d /\ pos'[u] + d >= p[u]
    <3>1. Len(c) = m
      BY <2>1
    <3>2. QED
      BY ONLY <1>8a, <3>1
  <2>3. N + 1 = m /\ N + 1 - d = m - d
    <3>1. N \in Nat /\ d \in Nat /\ m \in Nat /\ m = N + 1
      BY <1>4, <2>1
    <3>2. QED
      BY ONLY <3>1
  <2>4. /\ d < N + 1
        /\ counts' \in Seq(Nat) /\ counts' # <<>> /\ Len(counts') = N + 1 - d
        /\ views' \in Seq(SUBSET Accesses) /\ Len(views') = N + 1 - d
        /\ views'[N + 1 - d] = v[N + 1] /\ pos' \in [Threads -> Nat \ {0}]
    BY <2>2, <2>3
  <2>5. \A i \in 1 .. N + 1 - d : counts'[i] = c[i + d]
    BY <2>2, <2>3
  <2>6. \A u \in Threads : pos'[u] <= N + 1 - d /\ pos'[u] + d >= p[u]
    BY <2>2, <2>3
  <2>7. QED
    BY <2>4, <2>5, <2>6
<1>10. Newest' = N + 1 - d /\ Newest' \in 1 .. N + 1 - d /\ Newest' + d = N + 1
  BY <1>4, <1>9 DEF Newest
<1>11. MemoryOK'
  <2>1. Placed'
    BY <1>9 DEF Placed, Newest
  <2>2. OwnSeen'
    BY <1>1, <1>3 DEF OwnSeen
  <2>3. QED
    BY <1>1, <1>3, <1>9, <2>1, <2>2 DEF MemoryOK
<1>12. Extended(d)
  <2>1. Writes' = 1 .. N + 1 - d /\ Writes = 1 .. N
    BY <1>9 DEF Writes, N
  <2>2. ASSUME NEW i \in Writes', i < Newest'
        PROVE  i + d \in Writes /\ counts'[i] = counts[i + d]
    <3>1. i + d \in 1 .. N
      BY <1>4, <1>10, <2>1, <2>2
    <3>2. QED
      BY <1>6, <1>9, <2>1, <3>1
  <2>3. ASSUME NEW u \in Threads
        PROVE  pos'[u] + d >= pos[u]
    <3>1. /\ pos'[u] + d >= p[u] /\ p[u] >= pos[u]
          /\ p[u] \in Nat /\ pos[u] \in Nat /\ pos'[u] \in Nat
      BY <1>4, <1>8, <1>9
    <3>2. QED
      BY <3>1
  <2>4. QED
    BY <1>4, <1>10, <2>2, <2>3 DEF Extended
<1>13. counts'[Newest'] = n /\ pos'[t] = Newest'
  <2>1. counts'[Newest'] = n
    BY <1>6, <1>9, <1>10
  <2>2. pos'[t] <= N + 1 - d /\ pos'[t] + d >= N + 1 /\ pos'[t] \in Nat
    BY <1>8, <1>9
  <2>3. QED
    BY <1>4, <1>10, <2>1, <2>2
<1>14. views'[Newest'] = passedOn \cup released
  BY <1>7, <1>9, <1>10
<1>15. SeenKept({<<t, k>>})
  <2>1. ASSUME NEW u \in Threads, NEW a \in seen[u]
        PROVE  a \in {<<t, k>>} \/ a \in seen'[u]
    BY <1>1, <1>3
  <2>2. ASSUME NEW a \in views[Newest]
        PROVE  a \in {<<t, k>>} \/ a \in views'[Newest']
    BY <1>14 DEF passedOn
  <2>3. QED
    BY <2>1, <2>2 DEF SeenKept
<1>16. ordering = "Release" =>
         <<t, k>> \in views'[Newest'] /\ \A a \in seen[t] : a \in views'[Newest']
  BY <1>3, <1>14 DEF released
<1>17. \A a \in seen[t] : a \in seen'[t]
  BY <1>1, <1>3
<1>18. QED
  BY <1>11, <1>12, <1>13, <1>15, <1>16, <1>17 DEF k

LEMMA SynchroniseFacts ==
  ASSUME MemoryOK, NEW t \in Threads, NEW u \in Threads, Synchronise(t, u)
  PROVE  /\ MemoryOK' /\ SeenKept({})
         /\ \E d \in Nat : Slid(d) /\ pos'[u] + d >= pos[t]
         /\ counts'[Newest'] = counts[Newest]
         /\ \A a \in seen[t] : a \in seen'[u]
<1> DEFINE p == [pos EXCEPT ![u] = Max({@, pos[t]})]
           N == Len(counts)
<1>1. seen' = [seen EXCEPT ![u] = @ \cup seen[t]] /\ Remember(counts, views, p)
  BY DEF Synchronise
<1>2. /\ N \in Nat /\ N >= 1 /\ Newest = N /\ counts # <<>>
      /\ counts \in Seq(Nat) /\ pos \in [Threads -> Nat \ {0}]
      /\ views \in Seq(SUBSET Accesses) /\ Len(views) = N
      /\ \A w \in Threads : pos[w] <= N /\ pos[w] \in Nat
  BY MemoryFacts DEF Newest, MemoryOK, Placed
<1>3. /\ seen'[u] = seen[u] \cup seen[t] /\ \A w \in Threads \ {u} : seen'[w] = seen[w]
      /\ seen' \in [Threads -> SUBSET Accesses]
  BY <1>1 DEF MemoryOK
<1>4. Max({pos[u], pos[t]}) = IF pos[u] >= pos[t] THEN pos[u] ELSE pos[t]
  <2>1. pos[u] \in Int /\ pos[t] \in Int
    BY <1>2
  <2>2. QED
    BY <2>1, MaxOfTwo
<1>5. /\ p \in [Threads -> Nat \ {0}] /\ p[u] >= pos[t]
      /\ \A w \in Threads : p[w] <= N /\ p[w] >= pos[w] /\ p[w] \in Nat
  <2>1. PICK m \in Nat : m = Max({pos[u], pos[t]})
    BY <1>2, <1>4
  <2>2. m >= pos[t] /\ m >= pos[u] /\ m <= N /\ m # 0
    BY <1>2, <1>4, <2>1
  <2>3. p = [pos EXCEPT ![u] = m]
    BY <2>1
  <2>4. p[u] = m /\ \A w \in Threads \ {u} : p[w] = pos[w]
    BY <1>2, <2>3
  <2>5. p \in [Threads -> Nat \ {0}]
    BY <1>2, <2>1, <2>2, <2>3
  <2>6. ASSUME NEW w \in Threads
        PROVE  p[w] <= N /\ p[w] >= pos[w] /\ p[w] \in Nat
    <3>1. CASE w = u
      BY <2>1, <2>2, <2>4, <3>1
    <3>2. CASE w # u
      BY <1>2, <2>4, <3>2
    <3>3. QED
      BY <3>1, <3>2
  <2>7. QED
    BY <2>2, <2>4, <2>5, <2>6
<1> HIDE DEF p
<1>6. PICK d \in Nat :
        /\ d < N
        /\ counts' \in Seq(Nat) /\ counts' # <<>> /\ Len(counts') = N - d
        /\ views' \in Seq(SUBSET Accesses) /\ Len(views') = N - d
        /\ \A i \in 1 .. N - d : counts'[i] = counts[i + d]
        /\ views'[N - d] = views[N]
        /\ pos' \in [Threads -> Nat \ {0}]
        /\ \A w \in Threads : pos'[w] <= N - d /\ pos'[w] + d >= p[w]
  BY ZenonT(40), <1>1, <1>2, <1>5, Remembered
<1>7. MemoryOK'
  <2>1. Placed'
    BY <1>6 DEF Placed, Newest
  <2>2. OwnSeen'
    <3>1. \A w \in Threads : seen[w] \subseteq seen'[w]
      BY <1>3
    <3>2. QED
      BY <3>1 DEF OwnSeen, MemoryOK
  <2>3. QED
    BY <1>3, <1>6, <2>1, <2>2 DEF MemoryOK
<1> HIDE DEF N
<1>8. Newest' = N - d /\ Newest' \in 1 .. N - d /\ Newest' + d = N
  <2>1. Newest' = N - d
    BY <1>6 DEF Newest
  <2>2. N - d \in 1 .. N - d /\ N - d + d = N
    BY <1>2, <1>6, WindowEnd
  <2>3. QED
    BY <2>1, <2>2
<1>9. Slid(d) /\ pos'[u] + d >= pos[t]
  <2>1. Writes' = 1 .. N - d /\ Writes = 1 .. N
    BY <1>6 DEF Writes, N
  <2>2. ASSUME NEW w \in Threads
        PROVE  pos'[w] + d >= pos[w]
    <3>1. /\ pos'[w] + d >= p[w] /\ p[w] >= pos[w]
          /\ p[w] \in Nat /\ pos[w] \in Nat /\ pos'[w] \in Nat
      BY <1>2, <1>5, <1>6
    <3>2. QED
      BY <3>1
  <2>3. pos'[u] + d >= pos[t]
    <3>1. /\ pos'[u] + d >= p[u] /\ p[u] >= pos[t]
          /\ p[u] \in Nat /\ pos[t] \in Nat /\ pos'[u] \in Nat
      BY <1>2, <1>5, <1>6
    <3>2. QED
      BY <3>1
  <2>4. \A i \in Writes' : i + d \in Writes /\ counts'[i] = counts[i + d]
    <3>1. ASSUME NEW i \in Writes'
          PROVE  i + d \in Writes /\ counts'[i] = counts[i + d]
      <4>1. i \in 1 .. N - d
        BY <2>1, <3>1
      <4>2. i + d \in 1 .. N
        BY <1>2, <4>1, Window
      <4>3. QED
        BY <1>6, <2>1, <4>1, <4>2
    <3>2. QED
      BY <3>1
  <2>5. Newest' = Newest - d
    BY <1>2, <1>8
  <2>6. QED
    BY <2>2, <2>3, <2>4, <2>5 DEF Slid
<1>10. counts'[Newest'] = counts[Newest] /\ views'[Newest'] = views[Newest]
  BY <1>2, <1>6, <1>8
<1>11. SeenKept({})
  BY <1>3, <1>10 DEF SeenKept
<1>12. QED
  BY <1>3, <1>7, <1>9, <1>10, <1>11
-----------------------------------------------------------------------------
(* Steps that keep every reference in being *)

HandlesOK ==
  /\ form \in [Refs -> Forms]
  /\ owner \in [Refs -> Threads \cup {None}]
  /\ loan \in [Threads -> Refs \cup {None}]
  /\ iter \in [Threads -> Refs \cup {None}]
  /\ last \in [Threads -> {"no", "decremented", "drop_slow", "done"}]

LEMMA InvParts == Inv => MemoryOK /\ HandlesOK
BY DEF Inv, TypeOK, MemoryOK, HandlesOK

\* While there is a reference, nobody is at the last drop.
LEMMA NoLastYet ==
  ASSUME Inv, NEW r \in Existing
  PROVE  (\A u \in Threads : last[u] = "no") /\ ~Over
<1>1. Existing # {}
  OBVIOUS
<1>2. \A u \in Threads : last[u] = "no"
  BY <1>1 DEF Inv, RefsOK
<1>3. QED
  BY <1>2 DEF Over

LEMMA Shared ==
  ASSUME Inv, NEW t \in Threads, NEW r \in Refs, CanShare(t, r)
  PROVE  t \in HoldersOf(r) /\ r \in Existing
BY DEF CanShare, HoldersOf, Existing, Values

LEMMA Owned ==
  ASSUME Inv, NEW t \in Threads, NEW r \in Refs, CanOwn(t, r)
  PROVE  /\ HoldersOf(r) = {t} /\ r \in Existing /\ owner[r] = t /\ last[t] = "no"
         /\ \A u \in Threads : loan[u] # r /\ iter[u] # r
BY DEF CanOwn, HoldersOf, Existing, Values, Idle

\* An Arc and a UniqueArc are never there together.
LEMMA ArcOrUnique ==
  ASSUME Inv, NEW r \in Refs, form[r] = "Arc"
  PROVE  \A s \in Refs : form[s] # "UniqueArc"
<1>1. r \in Existing
  BY DEF Existing
<1>2. QED
  BY <1>1 DEF Inv, UniqueIsCurrent

\* Some holder knows what each holder knew, and each holder knows what some
\* holder did, but for the accesses in X and the d writes that are dropped.
Handed(r, X, d) ==
  /\ \A h \in HoldersOf(r) : \E g \in HoldersOf(r)' :
       pos'[g] + d >= pos[h] /\ \A a \in seen[h] : a \in X \/ a \in seen'[g]
  /\ \A g \in HoldersOf(r)' : \E h \in HoldersOf(r) :
       \A a \in seen[h] : a \in X \/ a \in seen'[g]

LEMMA HandedToSame ==
  ASSUME NEW r \in Refs, HoldersOf(r)' = HoldersOf(r), NEW X, SeenKept(X),
         NEW d \in Nat, Slid(d)
  PROVE  Handed(r, X, d)
<1>1. \A h \in HoldersOf(r) : h \in Threads
  BY DEF HoldersOf
<1>2. \A h \in HoldersOf(r) :
        pos'[h] + d >= pos[h] /\ \A a \in seen[h] : a \in X \/ a \in seen'[h]
  BY <1>1 DEF SeenKept, Slid
<1>3. QED
  BY <1>2 DEF Handed

\* A write that is old stays known as it was.
LEMMA OnesStay ==
  ASSUME Inv, MemoryOK', NEW d \in Nat, Slid(d), Existing' = Existing,
         NEW X, \A r \in Existing : Handed(r, X, d)
  PROVE  OnesKnown'
<1>1. SUFFICES ASSUME NEW r \in Existing', NEW i \in Writes', i < Newest', counts'[i] = 1
               PROVE  \E g \in HoldersOf(r)' : pos'[g] > i
  BY DEF OnesKnown
<1>2. /\ i \in Nat /\ Newest \in Nat /\ Newest' \in Nat
      /\ \A u \in Threads : pos[u] \in Nat /\ pos'[u] \in Nat
  <2>1. MemoryOK
    BY InvParts
  <2>2. Newest \in Nat /\ pos \in [Threads -> Nat \ {0}]
    BY <2>1 DEF MemoryOK, Newest
  <2>3. Newest' \in Nat /\ pos' \in [Threads -> Nat \ {0}]
    BY DEF MemoryOK, Newest
  <2>4. i \in Nat
    BY <2>3 DEF Writes, Newest
  <2>5. QED
    BY <2>2, <2>3, <2>4
<1>3. i + d \in Writes /\ i + d < Newest /\ counts[i + d] = 1 /\ r \in Existing
  <2>1. i + d \in Writes /\ counts[i + d] = 1 /\ Newest' = Newest - d
    BY <1>1 DEF Slid
  <2>2. i + d < Newest
    BY <1>1, <1>2, <2>1
  <2>3. QED
    BY <1>1, <2>1, <2>2
<1>4. PICK h \in HoldersOf(r) : pos[h] > i + d
  <2>1. OnesKnown
    BY DEF Inv
  <2>2. QED
    BY <1>3, <2>1 DEF OnesKnown
<1>5. PICK g \in HoldersOf(r)' : pos'[g] + d >= pos[h]
  BY <1>3 DEF Handed
<1>6. h \in Threads /\ g \in Threads
  BY DEF HoldersOf
<1>7. pos'[g] > i
  <2>1. pos[h] \in Nat /\ pos'[g] \in Nat
    BY <1>2, <1>6
  <2>2. QED
    BY <1>2, <1>4, <1>5, <2>1
<1>8. QED
  BY <1>7

LEMMA MovesKeep ==
  ASSUME Inv, MemoryOK', last' = last, Existing' = Existing, NEW r0 \in Existing,
         counts'[Newest'] = counts[Newest], NEW d \in Nat, Slid(d),
         NEW X, SeenKept(X), \A r \in Existing : Handed(r, X, d),
         \A a \in X : \E r \in Existing : \E g \in HoldersOf(r)' : a \in seen'[g],
         \A a \in X \cap Stores : \A r \in Existing : \A g \in HoldersOf(r)' : a \in seen'[g]
  PROVE  CountOK' /\ OnesKnown' /\ StoresSeen' /\ Covered' /\ LastOK'
<1>1. CountOK'
  BY DEF Inv, CountOK
<1>2. OnesKnown'
  BY OnesStay
<1>3. StoresSeen'
  <2>1. SUFFICES ASSUME NEW r \in Existing, NEW g \in HoldersOf(r)', NEW a \in Stores
                 PROVE  a \in seen'[g]
    BY DEF StoresSeen, Stores
  <2>2. PICK h \in HoldersOf(r) : \A b \in seen[h] : b \in X \/ b \in seen'[g]
    BY DEF Handed
  <2>3. a \in seen[h]
    BY <2>2 DEF Inv, StoresSeen
  <2>4. QED
    BY <2>2, <2>3
<1>4. Covered'
  <2>1. SUFFICES ASSUME NEW a \in Accesses
                 PROVE  \/ a \in views'[Newest']
                        \/ \E r \in Existing : \E g \in HoldersOf(r)' : a \in seen'[g]
    BY DEF Covered, Accesses
  <2>2. \/ a \in views[Newest]
        \/ \E r \in Existing : \E h \in HoldersOf(r) : a \in seen[h]
    <3>1. ~Over
      BY NoLastYet
    <3>2. QED
      BY <3>1 DEF Inv, Covered
  <2>3. CASE a \in X
    BY <2>3
  <2>4. CASE a \notin X /\ a \in views[Newest]
    BY <2>4 DEF SeenKept
  <2>5. CASE a \notin X /\ \E r \in Existing : \E h \in HoldersOf(r) : a \in seen[h]
    <3>1. PICK r \in Existing : \E h \in HoldersOf(r) : a \in seen[h]
      BY <2>5
    <3>2. PICK h \in HoldersOf(r) : a \in seen[h]
      BY <3>1
    <3>3. PICK g \in HoldersOf(r)' : \A b \in seen[h] : b \in X \/ b \in seen'[g]
      BY DEF Handed
    <3>4. QED
      BY <2>5, <3>2, <3>3
  <2>6. QED
    BY <2>2, <2>3, <2>4, <2>5
<1>5. LastOK'
  <2>1. \A u \in Threads : last'[u] = "no"
    BY NoLastYet
  <2>2. QED
    BY <2>1 DEF LastOK, DisposalOrdered
<1>6. QED
  BY <1>1, <1>2, <1>3, <1>4, <1>5

\* A UniqueArc stays what it was.
LEMMA UniqueKeep ==
  ASSUME Inv, Existing' = Existing, counts'[Newest'] = counts[Newest],
         \A r \in Refs : form'[r] = "UniqueArc" => form[r] = "UniqueArc",
         NEW d \in Nat, NEW X, \A r \in Existing : Handed(r, X, d),
         \A a \in X : \E r \in Existing : \E g \in HoldersOf(r)' : a \in seen'[g]
  PROVE  UniqueIsCurrent' /\ UniqueSeen'
<1>1. UniqueIsCurrent'
  BY DEF Inv, UniqueIsCurrent
<1>2. UniqueSeen'
  <2>1. SUFFICES ASSUME NEW r \in Refs, form'[r] = "UniqueArc", NEW a \in Accesses
                 PROVE  \E g \in HoldersOf(r)' : a \in seen'[g]
    BY DEF UniqueSeen, Accesses
  <2>2. form[r] = "UniqueArc" /\ Existing = {r}
    BY <2>1 DEF Inv, UniqueIsCurrent
  <2>3. CASE a \in X
    BY <2>2, <2>3
  <2>4. CASE a \notin X
    <3>1. PICK h \in HoldersOf(r) : a \in seen[h]
      BY <2>2 DEF Inv, UniqueSeen
    <3>2. PICK g \in HoldersOf(r)' : \A b \in seen[h] : b \in X \/ b \in seen'[g]
      BY <2>2 DEF Handed
    <3>3. QED
      BY <2>4, <3>1, <3>2
  <2>5. QED
    BY <2>3, <2>4
<1>3. QED
  BY <1>1, <1>2
LEMMA NothingMoves ==
  ASSUME Inv, counts' = counts, views' = views, pos' = pos, seen' = seen
  PROVE  MemoryOK' /\ SeenKept({}) /\ Slid(0) /\ counts'[Newest'] = counts[Newest]
<1>1. MemoryOK
  BY InvParts
<1>2. Newest' = Newest /\ Writes' = Writes /\ Newest \in Nat
  BY <1>1, MemoryFacts DEF Newest, Writes
<1>3. MemoryOK'
  BY <1>1, <1>2 DEF MemoryOK, Placed, OwnSeen
<1>4. Slid(0)
  BY <1>1, <1>2, MemoryFacts DEF Slid
<1>5. QED
  BY <1>2, <1>3, <1>4 DEF SeenKept

\* The parts of the invariant put together again.
LEMMA Together ==
  ASSUME MemoryOK', HandlesOK', RefsOK',
         CountOK' /\ OnesKnown' /\ StoresSeen' /\ Covered' /\ LastOK',
         UniqueIsCurrent' /\ UniqueSeen'
  PROVE  Inv'
BY DEF Inv, TypeOK, MemoryOK, HandlesOK

\* The receiver of a sent Arc knows what the sender knew.
LEMMA SendKeeps ==
  ASSUME Inv, NEW t \in Threads, NEW u \in Threads, NEW r \in Refs, Send(t, u, r)
  PROVE  Inv'
<1>1. /\ MemoryOK /\ HandlesOK /\ RefsOK
      /\ HoldersOf(r) = {t} /\ r \in Existing /\ owner[r] = t
      /\ \A w \in Threads : loan[w] # r /\ iter[w] # r
      /\ u # t /\ owner' = [owner EXCEPT ![r] = u] /\ Synchronise(t, u)
      /\ form' = form /\ loan' = loan /\ iter' = iter /\ last' = last
  BY InvParts, Owned DEF Send, Inv
<1>2. /\ MemoryOK' /\ SeenKept({}) /\ counts'[Newest'] = counts[Newest]
      /\ \A a \in seen[t] : a \in seen'[u]
  BY <1>1, SynchroniseFacts
<1>3. PICK d \in Nat : Slid(d) /\ pos'[u] + d >= pos[t]
  BY <1>1, SynchroniseFacts
<1>4. HandlesOK' /\ Existing' = Existing
  BY <1>1 DEF HandlesOK, Existing
<1>5. HoldersOf(r)' = {u} /\ \A s \in Refs \ {r} : HoldersOf(s)' = HoldersOf(s)
  BY <1>1 DEF HoldersOf, HandlesOK
<1>6. RefsOK'
  <2>1. \A s \in Refs : form'[s] = "absent" <=> owner'[s] = None
    BY <1>1, OrderAssumption DEF RefsOK, HandlesOK, Existing
  <2>2. form[r] \in Values
    BY DEF Send, CanOwn
  <2>3. \A s \in Refs : form'[s] = "owed" => iter'[owner'[s]] # None
    BY <1>1, <2>2 DEF RefsOK, HandlesOK, Values
  <2>4. \A w \in Threads : iter'[w] # None =>
          form'[iter'[w]] = "Arc" /\ (owner'[iter'[w]] = w \/ loan'[w] = iter'[w])
    BY <1>1 DEF RefsOK, HandlesOK
  <2>5. QED
    BY <1>1, <1>4, <2>1, <2>3, <2>4 DEF RefsOK
<1>7. \A s \in Existing : Handed(s, {}, d)
  <2>1. Handed(r, {}, d)
    BY <1>1, <1>2, <1>3, <1>5 DEF Handed
  <2>2. ASSUME NEW s \in Existing, s # r
        PROVE  Handed(s, {}, d)
    BY <1>2, <1>3, <1>5, <2>2, HandedToSame DEF Existing
  <2>3. QED
    BY <2>1, <2>2
<1>8. CountOK' /\ OnesKnown' /\ StoresSeen' /\ Covered' /\ LastOK'
  BY <1>1, <1>2, <1>3, <1>4, <1>7, MovesKeep
<1>9. UniqueIsCurrent' /\ UniqueSeen'
  <2>1. \A s \in Refs : form'[s] = "UniqueArc" => form[s] = "UniqueArc"
    BY <1>1
  <2>2. QED
    BY <1>1, <1>2, <1>4, <1>7, <2>1, UniqueKeep
<1>10. QED
  BY <1>2, <1>4, <1>6, <1>8, <1>9, Together

\* Who borrows an Arc knows what its owner knew.
LEMMA LendKeeps ==
  ASSUME Inv, NEW t \in Threads, NEW u \in Threads, NEW r \in Refs, Lend(t, u, r)
  PROVE  Inv'
<1>1. /\ MemoryOK /\ HandlesOK /\ RefsOK
      /\ form[r] \in Values /\ r \in Existing /\ owner[r] = t /\ loan[u] = None
      /\ u # t /\ loan' = [loan EXCEPT ![u] = r] /\ Synchronise(t, u)
      /\ form' = form /\ owner' = owner /\ iter' = iter /\ last' = last
  BY InvParts DEF Lend, Inv, Existing, Values
<1>2. /\ MemoryOK' /\ SeenKept({}) /\ counts'[Newest'] = counts[Newest]
      /\ \A a \in seen[t] : a \in seen'[u]
  BY <1>1, SynchroniseFacts
<1>3. PICK d \in Nat : Slid(d) /\ pos'[u] + d >= pos[t]
  BY <1>1, SynchroniseFacts
<1>4. HandlesOK' /\ Existing' = Existing
  BY <1>1 DEF HandlesOK, Existing
<1>5. /\ HoldersOf(r)' = HoldersOf(r) \cup {u} /\ t \in HoldersOf(r)
      /\ \A s \in Refs \ {r} : HoldersOf(s)' = HoldersOf(s)
  BY <1>1, OrderAssumption DEF HoldersOf, HandlesOK
<1>6. RefsOK'
  <2>1. \A w \in Threads : loan'[w] # None => form'[loan'[w]] \in Values
    BY <1>1 DEF RefsOK, HandlesOK
  <2>2. \A w \in Threads : iter'[w] # None =>
          form'[iter'[w]] = "Arc" /\ (owner'[iter'[w]] = w \/ loan'[w] = iter'[w])
    BY <1>1 DEF RefsOK, HandlesOK
  <2>3. QED
    BY <1>1, <1>4, <2>1, <2>2 DEF RefsOK
<1>7. \A s \in Existing : Handed(s, {}, d)
  <2>1. Handed(r, {}, d)
    <3>1. \A h \in HoldersOf(r) : h \in Threads /\ h \in HoldersOf(r)'
      BY <1>5 DEF HoldersOf
    <3>2. \A h \in HoldersOf(r) :
            pos'[h] + d >= pos[h] /\ \A a \in seen[h] : a \in seen'[h]
      BY <1>2, <1>3, <3>1 DEF SeenKept, Slid
    <3>3. \A g \in HoldersOf(r)' : g \in HoldersOf(r) \/ g = u
      BY <1>5
    <3>4. QED
      BY <1>2, <1>5, <3>1, <3>2, <3>3 DEF Handed
  <2>2. ASSUME NEW s \in Existing, s # r
        PROVE  Handed(s, {}, d)
    BY <1>2, <1>3, <1>5, <2>2, HandedToSame DEF Existing
  <2>3. QED
    BY <2>1, <2>2
<1>8. CountOK' /\ OnesKnown' /\ StoresSeen' /\ Covered' /\ LastOK'
  BY <1>1, <1>2, <1>3, <1>4, <1>7, MovesKeep
<1>9. UniqueIsCurrent' /\ UniqueSeen'
  <2>1. \A s \in Refs : form'[s] = "UniqueArc" => form[s] = "UniqueArc"
    BY <1>1
  <2>2. QED
    BY <1>1, <1>2, <1>4, <1>7, <2>1, UniqueKeep
<1>10. QED
  BY <1>2, <1>4, <1>6, <1>8, <1>9, Together

\* The owner of a borrowed Arc knows in the end what the borrower knew.
LEMMA GiveBackKeeps ==
  ASSUME Inv, NEW u \in Threads, GiveBack(u)
  PROVE  Inv'
<1>1. /\ MemoryOK /\ HandlesOK /\ RefsOK
      /\ loan[u] # None /\ iter[u] # loan[u] /\ Synchronise(u, owner[loan[u]])
      /\ loan' = [loan EXCEPT ![u] = None]
      /\ form' = form /\ owner' = owner /\ iter' = iter /\ last' = last
  BY InvParts DEF GiveBack, Inv
<1>2. PICK r \in Refs : r = loan[u]
  BY <1>1 DEF HandlesOK
<1>3. r \in Existing /\ owner[r] \in Threads
  BY <1>1, <1>2 DEF RefsOK, HandlesOK, Existing, Values
<1>4. PICK t \in Threads : t = owner[r]
  BY <1>3
<1>5. Synchronise(u, t)
  BY <1>1, <1>2, <1>4
<1>6. /\ MemoryOK' /\ SeenKept({}) /\ counts'[Newest'] = counts[Newest]
      /\ \A a \in seen[u] : a \in seen'[t]
  BY <1>1, <1>5, SynchroniseFacts
<1>7. PICK d \in Nat : Slid(d) /\ pos'[t] + d >= pos[u]
  BY <1>1, <1>5, SynchroniseFacts
<1>8. HandlesOK' /\ Existing' = Existing
  BY <1>1 DEF HandlesOK, Existing
<1>9. /\ t \in HoldersOf(r)' /\ HoldersOf(r) = HoldersOf(r)' \cup {u}
      /\ \A s \in Refs \ {r} : HoldersOf(s)' = HoldersOf(s)
  BY <1>1, <1>2, <1>4, OrderAssumption DEF HoldersOf, HandlesOK
<1>10. RefsOK'
  <2>1. \A w \in Threads : loan'[w] # None => form'[loan'[w]] \in Values
    BY <1>1 DEF RefsOK, HandlesOK
  <2>2. \A w \in Threads : iter'[w] # None =>
          form'[iter'[w]] = "Arc" /\ (owner'[iter'[w]] = w \/ loan'[w] = iter'[w])
    BY <1>1 DEF RefsOK, HandlesOK
  <2>3. QED
    BY <1>1, <1>8, <2>1, <2>2 DEF RefsOK
<1>11. \A s \in Existing : Handed(s, {}, d)
  <2>1. Handed(r, {}, d)
    <3>1. \A h \in HoldersOf(r)' : h \in Threads /\ h \in HoldersOf(r)
      BY <1>9 DEF HoldersOf
    <3>2. \A h \in HoldersOf(r)' :
            pos'[h] + d >= pos[h] /\ \A a \in seen[h] : a \in seen'[h]
      BY <1>6, <1>7, <3>1 DEF SeenKept, Slid
    <3>3. \A g \in HoldersOf(r) : g \in HoldersOf(r)' \/ g = u
      BY <1>9
    <3>4. QED
      BY <1>6, <1>7, <1>9, <3>1, <3>2, <3>3 DEF Handed
  <2>2. ASSUME NEW s \in Existing, s # r
        PROVE  Handed(s, {}, d)
    BY <1>6, <1>7, <1>9, <2>2, HandedToSame DEF Existing
  <2>3. QED
    BY <2>1, <2>2
<1>12. CountOK' /\ OnesKnown' /\ StoresSeen' /\ Covered' /\ LastOK'
  BY <1>1, <1>3, <1>6, <1>7, <1>8, <1>11, MovesKeep
<1>13. UniqueIsCurrent' /\ UniqueSeen'
  <2>1. \A s \in Refs : form'[s] = "UniqueArc" => form[s] = "UniqueArc"
    BY <1>1
  <2>2. QED
    BY <1>1, <1>6, <1>8, <1>11, <2>1, UniqueKeep
<1>14. QED
  BY <1>6, <1>8, <1>10, <1>12, <1>13, Together
\* References that all stay where they are.
LEMMA SameHandles ==
  ASSUME Inv, form' = form, owner' = owner, loan' = loan, iter' = iter, last' = last
  PROVE  /\ HandlesOK' /\ RefsOK' /\ Existing' = Existing
         /\ \A s \in Refs : HoldersOf(s)' = HoldersOf(s)
         /\ \A s \in Refs : form'[s] = "UniqueArc" => form[s] = "UniqueArc"
<1>1. HandlesOK /\ RefsOK
  BY InvParts DEF Inv
<1>2. Existing' = Existing
  BY DEF Existing
<1>3. HandlesOK'
  BY <1>1 DEF HandlesOK
<1>4. RefsOK'
  BY <1>1, <1>2 DEF RefsOK
<1>5. \A s \in Refs : HoldersOf(s)' = HoldersOf(s)
  BY DEF HoldersOf
<1>6. QED
  BY <1>2, <1>3, <1>4, <1>5

\* An access by a holder.  A write takes all the others by surprise, but there
\* are none.
LEMMA HolderActs ==
  ASSUME Inv, form' = form, owner' = owner, loan' = loan, iter' = iter, last' = last,
         NEW t \in Threads, NEW r \in Existing, t \in HoldersOf(r), NEW k \in Kinds,
         k = "write" => Existing = {r} /\ HoldersOf(r) = {t},
         MemoryOK', counts'[Newest'] = counts[Newest],
         SeenKept({<<t, k>>}), NEW d \in Nat, Slid(d)
  PROVE  Inv'
<1>1. /\ HandlesOK' /\ RefsOK' /\ Existing' = Existing
      /\ \A s \in Refs : HoldersOf(s)' = HoldersOf(s)
      /\ \A s \in Refs : form'[s] = "UniqueArc" => form[s] = "UniqueArc"
  BY SameHandles
<1>2. \A s \in Existing : s \in Refs /\ HoldersOf(s)' = HoldersOf(s)
  BY <1>1 DEF Existing
<1>3. \A s \in Existing : Handed(s, {<<t, k>>}, d)
  BY <1>2, HandedToSame
<1>4. <<t, k>> \in seen'[t]
  BY DEF MemoryOK, OwnSeen
<1>5. \A a \in {<<t, k>>} : \E s \in Existing : \E g \in HoldersOf(s)' : a \in seen'[g]
  BY <1>2, <1>4
<1>6. \A a \in {<<t, k>>} \cap Stores :
        \A s \in Existing : \A g \in HoldersOf(s)' : a \in seen'[g]
  <2>1. CASE k = "write"
    BY <1>2, <1>4, <2>1
  <2>2. CASE k # "write"
    <3>1. {<<t, k>>} \cap Stores = {}
      BY <2>2 DEF Stores
    <3>2. QED
      BY <3>1
  <2>3. QED
    BY <2>1, <2>2
<1>7. CountOK' /\ OnesKnown' /\ StoresSeen' /\ Covered' /\ LastOK'
  BY <1>1, <1>3, <1>5, <1>6, MovesKeep
<1>8. UniqueIsCurrent' /\ UniqueSeen'
  BY <1>1, <1>3, <1>5, UniqueKeep
<1>9. QED
  BY <1>1, <1>7, <1>8, Together

\* A reference changes what it is and no thread does anything.
LEMMA FormsChange ==
  ASSUME Inv, counts' = counts, views' = views, pos' = pos, seen' = seen,
         owner' = owner, loan' = loan, last' = last,
         HandlesOK', RefsOK', Existing' = Existing, NEW r \in Existing,
         \A s \in Refs : form'[s] = "UniqueArc" => form[s] = "UniqueArc"
  PROVE  Inv'
<1>1. MemoryOK' /\ SeenKept({}) /\ Slid(0) /\ counts'[Newest'] = counts[Newest]
  BY NothingMoves
<1>2. \A s \in Existing : s \in Refs /\ HoldersOf(s)' = HoldersOf(s)
  BY DEF Existing, HoldersOf
<1>3. \A s \in Existing : Handed(s, {}, 0)
  BY <1>1, <1>2, HandedToSame
<1>4. CountOK' /\ OnesKnown' /\ StoresSeen' /\ Covered' /\ LastOK'
  BY <1>1, <1>3, MovesKeep
<1>5. UniqueIsCurrent' /\ UniqueSeen'
  <2>1. PICK X : X = {}
    OBVIOUS
  <2>2. /\ \A s \in Existing : Handed(s, X, 0)
        /\ \A a \in X : \E s \in Existing : \E g \in HoldersOf(s)' : a \in seen'[g]
    BY <1>3, <2>1
  <2>3. QED
    BY <1>1, <2>2, UniqueKeep
<1>6. QED
  BY <1>1, <1>4, <1>5, Together

LEMMA ReadKeeps ==
  ASSUME Inv, NEW t \in Threads, NEW r \in Refs, Read(t, r)
  PROVE  Inv'
<1>1. /\ MemoryOK /\ Access(t, "use") /\ counts' = counts /\ pos' = pos
      /\ form' = form /\ owner' = owner /\ loan' = loan /\ iter' = iter /\ last' = last
      /\ t \in HoldersOf(r) /\ r \in Existing
  BY InvParts, Shared DEF Read, handles
<1>2. "use" \in Kinds /\ "use" # "write"
  BY DEF Kinds
<1>3. MemoryOK' /\ Slid(0) /\ SeenKept({<<t, "use">>}) /\ counts'[Newest'] = counts[Newest]
  BY <1>1, <1>2, AccessFacts
<1>4. QED
  BY <1>1, <1>2, <1>3, HolderActs

LEMMA WriteKeeps ==
  ASSUME Inv, NEW t \in Threads, NEW r \in Refs, Write(t, r)
  PROVE  Inv'
<1>1. /\ MemoryOK /\ Access(t, "write") /\ counts' = counts /\ pos' = pos
      /\ form' = form /\ owner' = owner /\ loan' = loan /\ iter' = iter /\ last' = last
      /\ HoldersOf(r) = {t} /\ r \in Existing /\ form[r] = "UniqueArc"
  BY InvParts, Owned DEF Write, handles
<1>2. "write" \in Kinds /\ t \in HoldersOf(r) /\ Existing = {r}
  BY <1>1 DEF Kinds, Inv, UniqueIsCurrent
<1>3. MemoryOK' /\ Slid(0) /\ SeenKept({<<t, "write">>}) /\ counts'[Newest'] = counts[Newest]
  BY <1>1, <1>2, AccessFacts
<1>4. QED
  BY <1>1, <1>2, <1>3, HolderActs

LEMMA CountKeeps ==
  ASSUME Inv, NEW t \in Threads, NEW r \in Refs, NEW i \in Writes, Count(t, r, i)
  PROVE  Inv'
<1>1. /\ MemoryOK /\ Load(t, i, CountLoad)
      /\ form' = form /\ owner' = owner /\ loan' = loan /\ iter' = iter /\ last' = last
      /\ t \in HoldersOf(r) /\ r \in Existing
  BY InvParts, Shared DEF Count, handles
<1>2. "use" \in Kinds /\ "use" # "write"
  BY DEF Kinds
<1>3. MemoryOK' /\ SeenKept({<<t, "use">>}) /\ counts'[Newest'] = counts[Newest]
  BY <1>1, LoadFacts
<1>4. PICK d \in Nat : Slid(d)
  BY <1>1, LoadFacts
<1>5. QED
  BY <1>1, <1>2, <1>3, <1>4, HolderActs

LEMMA ShareableKeeps ==
  ASSUME Inv, NEW t \in Threads, NEW r \in Refs, Shareable(t, r)
  PROVE  Inv'
<1>1. /\ HandlesOK /\ RefsOK /\ r \in Existing /\ form[r] = "UniqueArc"
      /\ form' = [form EXCEPT ![r] = "Arc"]
      /\ counts' = counts /\ views' = views /\ pos' = pos /\ seen' = seen
      /\ owner' = owner /\ loan' = loan /\ iter' = iter /\ last' = last
  BY InvParts, Owned DEF Shareable, counter, Inv
<1>2. form'[r] = "Arc" /\ \A s \in Refs \ {r} : form'[s] = form[s]
  BY <1>1 DEF HandlesOK
<1>3. HandlesOK' /\ Existing' = Existing
  BY <1>1, <1>2 DEF HandlesOK, Existing, Forms, Values
<1>4. RefsOK'
  BY <1>1, <1>2, <1>3 DEF RefsOK, HandlesOK, Existing, Values
<1>5. \A s \in Refs : form'[s] = "UniqueArc" => form[s] = "UniqueArc"
  BY <1>2
<1>6. QED
  BY <1>1, <1>3, <1>4, <1>5, FormsChange

LEMMA IterNextKeeps ==
  ASSUME Inv, NEW t \in Threads, NEW r \in Refs, IterNext(t, r)
  PROVE  Inv'
<1>1. /\ HandlesOK /\ RefsOK /\ r \in Existing /\ form[r] = "owed" /\ owner[r] = t
      /\ form' = [form EXCEPT ![r] = "Arc"]
      /\ counts' = counts /\ views' = views /\ pos' = pos /\ seen' = seen
      /\ owner' = owner /\ loan' = loan /\ iter' = iter /\ last' = last
  BY InvParts DEF IterNext, counter, Inv, Owed, Existing
<1>2. form'[r] = "Arc" /\ \A s \in Refs \ {r} : form'[s] = form[s]
  BY <1>1 DEF HandlesOK
<1>3. HandlesOK' /\ Existing' = Existing
  BY <1>1, <1>2 DEF HandlesOK, Existing, Forms, Values
<1>4. RefsOK'
  BY <1>1, <1>2, <1>3 DEF RefsOK, HandlesOK, Existing, Values
<1>5. \A s \in Refs : form'[s] = "UniqueArc" => form[s] = "UniqueArc"
  BY <1>2
<1>6. QED
  BY <1>1, <1>3, <1>4, <1>5, FormsChange

\* The write that TakeUnique loads is the newest: its thread has seen every
\* older 1 overwritten.
LEMMA OneIsNewest ==
  ASSUME Inv, NEW t \in Threads, NEW r \in Refs, CanOwn(t, r),
         NEW i \in Writes, i >= pos[t], counts[i] = 1
  PROVE  i = Newest /\ Existing = {r}
<1>1. HoldersOf(r) = {t} /\ r \in Existing /\ MemoryOK
  BY Owned, InvParts
<1>2. i = Newest
  <2>1. i \in Nat /\ Newest \in Nat /\ i <= Newest /\ pos[t] \in Nat
    BY <1>1, MemoryFacts DEF Writes, Newest
  <2>2. ~(i < Newest)
    <3>1. SUFFICES ASSUME i < Newest PROVE FALSE
      OBVIOUS
    <3>2. \E h \in HoldersOf(r) : pos[h] > i
      BY <1>1, <3>1 DEF Inv, OnesKnown
    <3>3. QED
      BY <1>1, <2>1, <3>2
  <2>3. QED
    BY <2>1, <2>2
<1>3. IsFiniteSet(Existing)
  BY OrderAssumption, FS_Subset DEF Existing
<1>4. Cardinality(Existing) = 1
  BY <1>2 DEF Inv, CountOK
<1>5. \E x : Existing = {x}
  BY <1>3, <1>4, FS_Singleton
<1>6. QED
  BY <1>1, <1>2, <1>5

\* What is_unique answers 1 for is the only reference, and with the Acquire
\* load its holder has seen every access.
LEMMA TakeUniqueKeeps ==
  ASSUME Inv, NEW t \in Threads, NEW r \in Refs, NEW i \in Writes, TakeUnique(t, r, i)
  PROVE  Inv'
<1>1. /\ MemoryOK /\ HandlesOK /\ RefsOK /\ Load(t, i, "Acquire")
      /\ counts[i] = 1 /\ form[r] = "Arc" /\ CanOwn(t, r)
      /\ HoldersOf(r) = {t} /\ r \in Existing /\ owner[r] = t
      /\ \A u \in Threads : loan[u] # r /\ iter[u] # r
      /\ form' = [form EXCEPT ![r] = "UniqueArc"]
      /\ owner' = owner /\ loan' = loan /\ iter' = iter /\ last' = last
  BY InvParts, Owned DEF TakeUnique, Inv, CountLoad, IsUnique
<1>2. /\ MemoryOK' /\ SeenKept({<<t, "use">>}) /\ counts'[Newest'] = counts[Newest]
      /\ i >= pos[t] /\ \A a \in seen[t] : a \in seen'[t]
      /\ \A a \in views[i] : a \in seen'[t]
  BY <1>1, LoadFacts
<1>3. PICK d \in Nat : Slid(d)
  BY <1>1, LoadFacts
<1>4. i = Newest /\ Existing = {r}
  BY <1>1, <1>2, OneIsNewest
<1>5. form'[r] = "UniqueArc" /\ \A s \in Refs \ {r} : form'[s] = form[s]
  BY <1>1 DEF HandlesOK
<1>6. HandlesOK' /\ Existing' = Existing /\ \A s \in Refs : HoldersOf(s)' = HoldersOf(s)
  BY <1>1, <1>5 DEF HandlesOK, Existing, Forms, Values, HoldersOf
<1>7. RefsOK'
  BY <1>1, <1>5, <1>6 DEF RefsOK, HandlesOK, Existing, Values
<1>8. \A s \in Existing : Handed(s, {<<t, "use">>}, d)
  BY <1>2, <1>3, <1>6, HandedToSame DEF Existing
<1>9. <<t, "use">> \in seen'[t] /\ {<<t, "use">>} \cap Stores = {}
  <2>1. <<t, "use">> \in seen'[t]
    BY <1>2 DEF MemoryOK, OwnSeen, Kinds
  <2>2. <<t, "use">> \notin Stores
    BY DEF Stores
  <2>3. QED
    BY <2>1, <2>2
<1>10. CountOK' /\ OnesKnown' /\ StoresSeen' /\ Covered' /\ LastOK'
  <2>1. \A a \in {<<t, "use">>} : \E s \in Existing : \E g \in HoldersOf(s)' : a \in seen'[g]
    BY <1>1, <1>6, <1>9
  <2>2. \A a \in {<<t, "use">>} \cap Stores :
          \A s \in Existing : \A g \in HoldersOf(s)' : a \in seen'[g]
    BY <1>9
  <2>3. QED
    BY <1>1, <1>2, <1>3, <1>6, <1>8, <2>1, <2>2, MovesKeep
<1>11. UniqueIsCurrent'
  <2>1. counts[Newest] = 1
    BY <1>1, <1>4
  <2>2. \A s \in Refs : form'[s] = "UniqueArc" => s = r
    BY <1>1, <1>5, ArcOrUnique
  <2>3. QED
    BY <1>2, <1>4, <1>6, <2>1, <2>2 DEF UniqueIsCurrent
<1>12. UniqueSeen'
  <2>1. \A a \in Accesses : a \in seen'[t]
    <3>1. SUFFICES ASSUME NEW a \in Accesses PROVE a \in seen'[t]
      OBVIOUS
    <3>2. a \in views[Newest] \/ \E s \in Existing : \E h \in HoldersOf(s) : a \in seen[h]
      BY <1>1, NoLastYet DEF Inv, Covered
    <3>3. a \in views[i] \/ a \in seen[t]
      BY <1>1, <1>4, <3>2
    <3>4. QED
      BY <1>2, <3>3
  <2>2. t \in HoldersOf(r)' /\ \A s \in Refs : form'[s] = "UniqueArc" => s = r
    BY <1>1, <1>5, <1>6, ArcOrUnique
  <2>3. QED
    BY <2>1, <2>2 DEF UniqueSeen, Accesses
<1>13. QED
  BY <1>2, <1>6, <1>7, <1>10, <1>11, <1>12, Together
-----------------------------------------------------------------------------
(* Steps that make references *)

LEMMA RefsAreFinite ==
  /\ IsFiniteSet(Existing) /\ Cardinality(Existing) \in Nat
  /\ \A N \in SUBSET Refs : IsFiniteSet(N) /\ Cardinality(N) \in Nat
<1>1. \A N \in SUBSET Refs : IsFiniteSet(N) /\ Cardinality(N) \in Nat
  BY OrderAssumption, FS_Subset, FS_CardinalityType
<1>2. Existing \in SUBSET Refs
  BY DEF Existing
<1>3. QED
  BY <1>1, <1>2

\* What was the newest write is now known to be old by whoever has a reference.
LEMMA OnesExtended ==
  ASSUME Inv, MemoryOK', NEW d \in Nat, Extended(d), NEW t \in Threads, pos'[t] = Newest',
         \A s \in Existing' : \/ t \in HoldersOf(s)'
                              \/ /\ s \in Existing /\ HoldersOf(s)' = HoldersOf(s)
                                 /\ counts[Newest] # 1
  PROVE  OnesKnown'
<1>1. SUFFICES ASSUME NEW r \in Existing', NEW i \in Writes', i < Newest', counts'[i] = 1
               PROVE  \E g \in HoldersOf(r)' : pos'[g] > i
  BY DEF OnesKnown
<1>2. /\ i \in Nat /\ Newest \in Nat /\ Newest' \in Nat
      /\ \A u \in Threads : pos[u] \in Nat /\ pos'[u] \in Nat
  <2>1. MemoryOK
    BY InvParts
  <2>2. Newest \in Nat /\ pos \in [Threads -> Nat \ {0}]
    BY <2>1 DEF MemoryOK, Newest
  <2>3. Newest' \in Nat /\ pos' \in [Threads -> Nat \ {0}]
    BY DEF MemoryOK, Newest
  <2>4. i \in Nat
    BY <2>3 DEF Writes, Newest
  <2>5. QED
    BY <2>2, <2>3, <2>4
<1>3. CASE t \in HoldersOf(r)'
  <2>1. pos'[t] > i
    BY <1>1, <1>2
  <2>2. QED
    BY <1>3, <2>1
<1>4. CASE r \in Existing /\ HoldersOf(r)' = HoldersOf(r) /\ counts[Newest] # 1
  <2>1. i + d \in Writes /\ counts[i + d] = 1
    BY <1>1 DEF Extended
  <2>2. i + d < Newest
    BY <1>2, <1>4, <2>1 DEF Writes, Newest
  <2>3. PICK h \in HoldersOf(r) : pos[h] > i + d
    BY <1>4, <2>1, <2>2 DEF Inv, OnesKnown
  <2>4. h \in Threads
    BY DEF HoldersOf
  <2>5. pos'[h] + d >= pos[h] /\ pos[h] \in Nat /\ pos'[h] \in Nat
    BY <1>2, <2>4 DEF Extended
  <2>6. pos'[h] > i
    BY <1>2, <2>3, <2>5
  <2>7. QED
    BY <1>4, <2>3, <2>6
<1>5. QED
  BY <1>3, <1>4

\* New references are made by somebody who has one, and belong to him.
LEMMA GrowKeeps ==
  ASSUME Inv, NEW t \in Threads, NEW r \in Existing, t \in HoldersOf(r), form[r] = "Arc",
         NEW N \in SUBSET (Refs \ Existing), N # {}, NEW ordering,
         Modify(t, counts[Newest] + Cardinality(N), ordering),
         Existing' = Existing \cup N,
         \A s \in Existing : HoldersOf(s)' = HoldersOf(s),
         \A s \in N : HoldersOf(s)' = {t},
         \A s \in Refs : form'[s] # "UniqueArc",
         last' = last, HandlesOK', RefsOK'
  PROVE  Inv'
<1>1. /\ MemoryOK /\ CountOK /\ Cardinality(N) \in Nat /\ IsFiniteSet(N)
      /\ Cardinality(Existing) \in Nat /\ IsFiniteSet(Existing)
  BY InvParts, RefsAreFinite DEF Inv
<1>2. PICK n \in Nat : n = counts[Newest] + Cardinality(N)
  BY <1>1 DEF CountOK
<1>3. Modify(t, n, ordering)
  BY <1>2
<1>4. /\ MemoryOK' /\ SeenKept({<<t, "use">>}) /\ counts'[Newest'] = n /\ pos'[t] = Newest'
  BY <1>1, <1>3, ModifyFacts
<1>5. PICK d \in Nat : Extended(d)
  BY <1>1, <1>3, ModifyFacts
<1>6. CountOK'
  <2>1. Cardinality(Existing \cup N) = Cardinality(Existing) + Cardinality(N) - Cardinality(Existing \cap N)
    BY <1>1, FS_Union
  <2>2. Cardinality(Existing \cap N) = 0
    <3>1. Existing \cap N = {}
      OBVIOUS
    <3>2. QED
      BY <3>1, FS_EmptySet
  <2>3. Cardinality(Existing \cup N) = Cardinality(Existing) + Cardinality(N)
    <3>1. PICK x \in Nat, y \in Nat : x = Cardinality(Existing) /\ y = Cardinality(N)
      BY <1>1
    <3>2. Cardinality(Existing \cup N) = x + y - 0
      BY <2>1, <2>2, <3>1
    <3>3. QED
      BY <3>1, <3>2
  <2>4. QED
    BY <1>1, <1>2, <1>4, <2>3 DEF CountOK
<1>7. OnesKnown'
  <2>1. counts[Newest] = 1 => Existing = {r}
    <3>1. SUFFICES ASSUME counts[Newest] = 1 PROVE Existing = {r}
      OBVIOUS
    <3>2. \E x : Existing = {x}
      BY <1>1, <3>1, FS_Singleton DEF CountOK
    <3>3. QED
      BY <3>2
  <2>2. \A s \in Existing' : \/ t \in HoldersOf(s)'
                             \/ /\ s \in Existing /\ HoldersOf(s)' = HoldersOf(s)
                                /\ counts[Newest] # 1
    BY <2>1
  <2>3. QED
    BY <1>4, <1>5, <2>2, OnesExtended
<1>8. \A s \in Existing : \A h \in HoldersOf(s) : \A a \in seen[h] :
        a = <<t, "use">> \/ a \in seen'[h]
  BY <1>4 DEF SeenKept, HoldersOf
<1>9. StoresSeen'
  <2>1. ASSUME NEW s \in Existing, NEW h \in HoldersOf(s), NEW a \in Stores
        PROVE  a \in seen'[h]
    <3>1. a \in seen[h]
      BY DEF Inv, StoresSeen
    <3>2. a # <<t, "use">>
      BY DEF Stores
    <3>3. QED
      BY <1>8, <3>1, <3>2
  <2>2. \A a \in Stores : a \in seen'[t]
    BY <2>1
  <2>3. \A s \in Existing' : \A h \in HoldersOf(s)' : \A a \in Stores : a \in seen'[h]
    BY <2>1, <2>2
  <2>4. QED
    BY <2>3 DEF StoresSeen, Stores
<1>10. Covered'
  <2>1. SUFFICES ASSUME NEW a \in Accesses
                 PROVE  \/ a \in views'[Newest']
                        \/ \E s \in Existing' : \E g \in HoldersOf(s)' : a \in seen'[g]
    BY DEF Covered, Accesses
  <2>2. \/ a \in views[Newest]
        \/ \E s \in Existing : \E h \in HoldersOf(s) : a \in seen[h]
    BY NoLastYet DEF Inv, Covered
  <2>3. CASE a = <<t, "use">>
    <3>1. a \in seen'[t]
      BY <1>4, <2>3 DEF MemoryOK, OwnSeen, Kinds
    <3>2. QED
      BY <3>1
  <2>4. CASE a # <<t, "use">> /\ a \in views[Newest]
    BY <1>4, <2>4 DEF SeenKept
  <2>5. CASE a # <<t, "use">> /\ \E s \in Existing : \E h \in HoldersOf(s) : a \in seen[h]
    BY <1>8, <2>5
  <2>6. QED
    BY <2>2, <2>3, <2>4, <2>5
<1>11. LastOK'
  <2>1. \A u \in Threads : last'[u] = "no"
    BY NoLastYet
  <2>2. QED
    BY <2>1 DEF LastOK, DisposalOrdered
<1>12. UniqueIsCurrent' /\ UniqueSeen'
  BY DEF UniqueIsCurrent, UniqueSeen
<1>13. QED
  BY <1>4, <1>6, <1>7, <1>9, <1>10, <1>11, <1>12, Together

LEMMA CloneKeeps ==
  ASSUME Inv, NEW t \in Threads, NEW r \in Refs, NEW n \in Refs, Clone(t, r, n)
  PROVE  Inv'
<1>1. /\ HandlesOK /\ RefsOK /\ form[r] = "Arc" /\ n \in Refs \ Existing
      /\ t \in HoldersOf(r) /\ r \in Existing
      /\ Modify(t, counts[Newest] + 1, FetchAdd)
      /\ form' = [form EXCEPT ![n] = "Arc"] /\ owner' = [owner EXCEPT ![n] = t]
      /\ loan' = loan /\ iter' = iter /\ last' = last
  BY InvParts, Shared DEF Clone, MayAdd, Inv
<1>2. /\ form'[n] = "Arc" /\ \A s \in Refs \ {n} : form'[s] = form[s]
      /\ owner'[n] = t /\ \A s \in Refs \ {n} : owner'[s] = owner[s]
      /\ form[n] = "absent" /\ owner[n] = None
  BY <1>1 DEF HandlesOK, RefsOK, Existing
<1>3. HandlesOK' /\ Existing' = Existing \cup {n}
  BY <1>1, <1>2 DEF HandlesOK, Existing, Forms, Values
<1>4. \A u \in Threads : loan[u] # n /\ iter[u] # n
  BY <1>1, <1>2, OrderAssumption DEF RefsOK, Values
<1>5. HoldersOf(n)' = {t} /\ \A s \in Existing : HoldersOf(s)' = HoldersOf(s)
  BY <1>1, <1>2, <1>4 DEF HoldersOf, Existing
<1>6. RefsOK'
  <2>1. \A s \in Refs : form'[s] = "absent" <=> owner'[s] = None
    BY <1>1, <1>2, OrderAssumption DEF RefsOK
  <2>2. \A u \in Threads : loan'[u] # None => form'[loan'[u]] \in Values
    BY <1>1, <1>2, <1>4 DEF RefsOK, HandlesOK
  <2>3. \A u \in Threads : iter'[u] # None =>
          form'[iter'[u]] = "Arc" /\ (owner'[iter'[u]] = u \/ loan'[u] = iter'[u])
    BY <1>1, <1>2, <1>4 DEF RefsOK, HandlesOK
  <2>4. \A s \in Refs : form'[s] = "owed" => iter'[owner'[s]] # None
    BY <1>1, <1>2 DEF RefsOK
  <2>5. \A u \in Threads : last'[u] = "no"
    BY <1>1, NoLastYet
  <2>6. QED
    BY <2>1, <2>2, <2>3, <2>4, <2>5 DEF RefsOK
<1>7. \A s \in Refs : form'[s] # "UniqueArc"
  BY <1>1, <1>2, ArcOrUnique
<1>8. Modify(t, counts[Newest] + Cardinality({n}), FetchAdd)
  BY <1>1, FS_Singleton
<1>9. {n} \in SUBSET (Refs \ Existing) /\ {n} # {} /\ \A s \in {n} : HoldersOf(s)' = {t}
  BY <1>1, <1>5
<1>10. QED
  BY <1>1, <1>3, <1>5, <1>6, <1>7, <1>8, <1>9, GrowKeeps

LEMMA CloneManyKeeps ==
  ASSUME Inv, NEW t \in Threads, NEW r \in Refs, NEW N \in SUBSET Refs, CloneMany(t, r, N)
  PROVE  Inv'
<1>1. /\ HandlesOK /\ RefsOK /\ form[r] = "Arc" /\ N \in SUBSET (Refs \ Existing) /\ N # {}
      /\ t \in HoldersOf(r) /\ r \in Existing /\ iter[t] = None
      /\ owner[r] = t \/ loan[t] = r
      /\ Modify(t, counts[Newest] + Cardinality(N), FetchUpdate)
      /\ form'  = [n \in Refs |-> IF n \in N THEN "owed" ELSE form[n]]
      /\ owner' = [n \in Refs |-> IF n \in N THEN t ELSE owner[n]]
      /\ iter'  = [iter EXCEPT ![t] = r]
      /\ loan' = loan /\ last' = last
  BY InvParts, Shared DEF CloneMany, MayAdd, Inv, CanShare
<1>2. /\ \A n \in N : form'[n] = "owed" /\ owner'[n] = t /\ form[n] = "absent" /\ owner[n] = None
      /\ \A s \in Refs \ N : form'[s] = form[s] /\ owner'[s] = owner[s]
      /\ iter'[t] = r /\ \A u \in Threads \ {t} : iter'[u] = iter[u]
  BY <1>1 DEF HandlesOK, RefsOK, Existing
<1>3. HandlesOK' /\ Existing' = Existing \cup N
  <2>1. HandlesOK'
    BY <1>1 DEF HandlesOK, Forms
  <2>2. Existing' = Existing \cup N
    BY <1>1, <1>2 DEF Existing
  <2>3. QED
    BY <2>1, <2>2
<1>4. \A u \in Threads : loan[u] \notin N /\ iter[u] \notin N
  BY <1>1, <1>2, OrderAssumption DEF RefsOK, Values
<1>5. \A s \in N : HoldersOf(s)' = {t}
  BY <1>1, <1>2, <1>4 DEF HoldersOf
<1>6. \A s \in Existing : HoldersOf(s)' = HoldersOf(s)
  BY <1>1, <1>2 DEF HoldersOf, Existing
<1>7. RefsOK'
  <2>1. \A s \in Refs : form'[s] = "absent" <=> owner'[s] = None
    BY <1>1, <1>2, OrderAssumption DEF RefsOK
  <2>2. \A u \in Threads : loan'[u] # None => form'[loan'[u]] \in Values
    BY <1>1, <1>2, <1>4 DEF RefsOK, HandlesOK
  <2>3. \A u \in Threads : iter'[u] # None =>
          form'[iter'[u]] = "Arc" /\ (owner'[iter'[u]] = u \/ loan'[u] = iter'[u])
    <3>1. r \notin N
      BY <1>1
    <3>2. ASSUME NEW u \in Threads, u # t, iter'[u] # None
          PROVE  form'[iter'[u]] = "Arc" /\ (owner'[iter'[u]] = u \/ loan'[u] = iter'[u])
      BY <1>1, <1>2, <1>4, <3>2 DEF RefsOK, HandlesOK
    <3>3. form'[iter'[t]] = "Arc" /\ (owner'[iter'[t]] = t \/ loan'[t] = iter'[t])
      BY <1>1, <1>2, <3>1
    <3>4. QED
      BY <3>2, <3>3
  <2>4. ASSUME NEW s \in Refs, form'[s] = "owed"
        PROVE  iter'[owner'[s]] # None
    <3>1. r # None
      BY OrderAssumption
    <3>2. CASE s \in N
      BY <1>2, <3>1, <3>2
    <3>3. CASE s \notin N
      <4>1. iter[owner[s]] # None /\ owner'[s] = owner[s] /\ owner[s] \in Threads
        BY <1>1, <1>2, <2>4, <3>3 DEF RefsOK, HandlesOK
      <4>2. QED
        BY <1>1, <1>2, <4>1
    <3>4. QED
      BY <3>2, <3>3
  <2>5. \A u \in Threads : last'[u] = "no"
    BY <1>1, NoLastYet
  <2>6. QED
    BY <2>1, <2>2, <2>3, <2>4, <2>5 DEF RefsOK
<1>8. \A s \in Refs : form'[s] # "UniqueArc"
  BY <1>1, <1>2, ArcOrUnique
<1>9. QED
  BY <1>1, <1>3, <1>5, <1>6, <1>7, <1>8, GrowKeeps
-----------------------------------------------------------------------------
(* Steps that end references *)

\* References are ended by the only thread that holds them, and what it knew
\* is known to another holder or comes with the write.
LEMMA ShrinkKeeps ==
  ASSUME Inv, NEW t \in Threads, NEW N \in SUBSET Existing, N # {}, NEW ordering,
         Modify(t, counts[Newest] - Cardinality(N), ordering),
         Existing' = Existing \ N,
         \A s \in Existing \ N : HoldersOf(s)' = HoldersOf(s) /\ form'[s] = form[s],
         \A s \in N : HoldersOf(s) = {t},
         \A a \in Accesses : a \in seen[t] \/ a = <<t, "use">> =>
           \/ a \in views'[Newest']
           \/ \E s \in Existing' : \E g \in HoldersOf(s)' : a \in seen'[g],
         \A u \in Threads : last'[u] = "no" \/ (u = t /\ last'[u] = "decremented"),
         HandlesOK', RefsOK'
  PROVE  Inv'
<1>1. /\ MemoryOK /\ CountOK /\ Cardinality(N) \in Nat /\ IsFiniteSet(N)
      /\ Cardinality(Existing) \in Nat /\ IsFiniteSet(Existing)
  <2>1. N \in SUBSET Refs
    BY DEF Existing
  <2>2. QED
    BY <2>1, InvParts, RefsAreFinite DEF Inv
<1>2. Cardinality(Existing \ N) \in Nat /\ Cardinality(Existing \ N) = counts[Newest] - Cardinality(N)
  <2>1. Cardinality(Existing \ N) = Cardinality(Existing) - Cardinality(Existing \cap N)
    BY <1>1, FS_Difference
  <2>2. Existing \cap N = N
    OBVIOUS
  <2>3. IsFiniteSet(Existing \ N)
    BY <1>1, FS_Difference
  <2>4. Cardinality(Existing \ N) \in Nat
    BY <2>3, FS_CardinalityType
  <2>5. QED
    BY <1>1, <2>1, <2>2, <2>4 DEF CountOK
<1>3. PICK n \in Nat : n = counts[Newest] - Cardinality(N) /\ n = Cardinality(Existing \ N)
  BY <1>2
<1>4. Modify(t, n, ordering)
  BY <1>3
<1>5. /\ MemoryOK' /\ SeenKept({<<t, "use">>}) /\ counts'[Newest'] = n /\ pos'[t] = Newest'
  BY <1>1, <1>4, ModifyFacts
<1>6. PICK d \in Nat : Extended(d)
  BY <1>1, <1>4, ModifyFacts
<1>7. CountOK'
  BY <1>3, <1>5 DEF CountOK
<1>8. OnesKnown'
  <2>1. counts[Newest] = 1 => Existing' = {}
    <3>1. SUFFICES ASSUME counts[Newest] = 1 PROVE Existing \ N = {}
      OBVIOUS
    <3>2. Cardinality(Existing) = 1
      BY <1>1, <3>1 DEF CountOK
    <3>3. \E x : Existing = {x}
      BY <1>1, <3>2, FS_Singleton
    <3>4. QED
      BY <3>3
  <2>2. \A s \in Existing' : \/ t \in HoldersOf(s)'
                             \/ /\ s \in Existing /\ HoldersOf(s)' = HoldersOf(s)
                                /\ counts[Newest] # 1
    BY <2>1
  <2>3. QED
    BY <1>5, <1>6, <2>2, OnesExtended
<1>9. \A s \in Existing : \A h \in HoldersOf(s) : \A a \in seen[h] :
        a = <<t, "use">> \/ a \in seen'[h]
  BY <1>5 DEF SeenKept, HoldersOf
<1>10. StoresSeen'
  <2>1. ASSUME NEW s \in Existing', NEW h \in HoldersOf(s)', NEW a \in Stores
        PROVE  a \in seen'[h]
    <3>1. s \in Existing /\ h \in HoldersOf(s)
      BY <2>1
    <3>2. a \in seen[h]
      BY <2>1, <3>1 DEF Inv, StoresSeen
    <3>3. a # <<t, "use">>
      BY DEF Stores
    <3>4. QED
      BY <1>9, <3>1, <3>2, <3>3
  <2>2. QED
    BY <2>1 DEF StoresSeen, Stores
<1>11. Covered'
  <2>1. SUFFICES ASSUME NEW a \in Accesses
                 PROVE  \/ a \in views'[Newest']
                        \/ \E s \in Existing' : \E g \in HoldersOf(s)' : a \in seen'[g]
    BY DEF Covered, Accesses
  <2>2. \/ a \in views[Newest]
        \/ \E s \in Existing : \E h \in HoldersOf(s) : a \in seen[h]
    <3>1. Existing # {}
      OBVIOUS
    <3>2. QED
      BY <3>1, NoLastYet DEF Inv, Covered
  <2>3. CASE a = <<t, "use">>
    BY <2>3
  <2>4. CASE a # <<t, "use">> /\ a \in views[Newest]
    BY <1>5, <2>4 DEF SeenKept
  <2>5. CASE a # <<t, "use">> /\ \E s \in Existing : \E h \in HoldersOf(s) : a \in seen[h]
    <3>1. PICK s \in Existing : \E h \in HoldersOf(s) : a \in seen[h]
      BY <2>5
    <3>2. PICK h \in HoldersOf(s) : a \in seen[h]
      BY <3>1
    <3>3. CASE s \in N
      BY <3>2, <3>3
    <3>4. CASE s \notin N
      BY <1>9, <2>5, <3>2, <3>4
    <3>5. QED
      BY <3>3, <3>4
  <2>6. QED
    BY <2>2, <2>3, <2>4, <2>5
<1>12. LastOK'
  <2>1. \A u \in Threads : last'[u] = "decremented" => pos'[u] = Newest'
    BY <1>5
  <2>2. \A u \in Threads : last'[u] # "drop_slow"
    OBVIOUS
  <2>3. QED
    BY <2>1, <2>2 DEF LastOK, DisposalOrdered
<1>13. UniqueIsCurrent' /\ UniqueSeen'
  <2>1. \A s \in Refs : form'[s] # "UniqueArc"
    <3>1. SUFFICES ASSUME NEW s \in Refs, form'[s] = "UniqueArc" PROVE FALSE
      OBVIOUS
    <3>2. s \in Existing'
      BY <3>1 DEF Existing
    <3>3. form[s] = "UniqueArc" /\ s \notin N
      BY <3>1, <3>2
    <3>4. Existing = {s}
      BY <3>3 DEF Inv, UniqueIsCurrent
    <3>5. QED
      BY <3>3, <3>4
  <2>2. QED
    BY <2>1 DEF UniqueIsCurrent, UniqueSeen
<1>14. QED
  BY <1>5, <1>7, <1>8, <1>10, <1>11, <1>12, <1>13, Together

\* The iterator gives back what it has not handed out, and its thread still
\* holds the Arc that it was made from.
LEMMA IterDropKeeps ==
  ASSUME Inv, NEW t \in Threads, IterDrop(t)
  PROVE  Inv'
<1>0. PICK N \in SUBSET Refs : N = Owed(t)
  BY DEF Owed
<1>1. /\ MemoryOK /\ HandlesOK /\ RefsOK /\ iter[t] # None
      /\ iter' = [iter EXCEPT ![t] = None] /\ loan' = loan /\ last' = last
  BY InvParts DEF IterDrop, Inv
<1>2. PICK r \in Existing : r = iter[t] /\ form[r] = "Arc" /\ (owner[r] = t \/ loan[t] = r)
  BY <1>1 DEF RefsOK, HandlesOK, Existing
<1>3. \A u \in Threads : last[u] = "no"
  BY <1>2, NoLastYet
<1>4. iter'[t] = None /\ \A u \in Threads \ {t} : iter'[u] = iter[u]
  BY <1>1 DEF HandlesOK
<1>5. CASE N = {}
  <2>1. /\ counts' = counts /\ views' = views /\ pos' = pos /\ seen' = seen
        /\ form' = form /\ owner' = owner
    BY <1>0, <1>5 DEF IterDrop, counter
  <2>2. HandlesOK' /\ Existing' = Existing
    BY <1>1, <2>1 DEF HandlesOK, Existing
  <2>3. RefsOK'
    <3>1. ASSUME NEW s \in Refs, form'[s] = "owed"
          PROVE  iter'[owner'[s]] # None
      <4>1. owner[s] # t /\ owner[s] \in Threads
        BY <1>0, <1>1, <1>5, <2>1, <3>1 DEF Owed, RefsOK, HandlesOK
      <4>2. QED
        BY <1>1, <1>4, <2>1, <3>1, <4>1 DEF RefsOK
    <3>2. \A u \in Threads : iter'[u] # None =>
            form'[iter'[u]] = "Arc" /\ (owner'[iter'[u]] = u \/ loan'[u] = iter'[u])
      BY <1>1, <1>4, <2>1 DEF RefsOK
    <3>3. QED
      BY <1>1, <1>3, <2>1, <3>1, <3>2 DEF RefsOK
  <2>4. \A s \in Refs : form'[s] = "UniqueArc" => form[s] = "UniqueArc"
    BY <2>1
  <2>5. QED
    BY <1>1, <1>2, <2>1, <2>2, <2>3, <2>4, FormsChange
<1>6. CASE N # {}
  <2>1. /\ Modify(t, counts[Newest] - Cardinality(N), FetchUpdate)
        /\ form'  = [n \in Refs |-> IF n \in N THEN "absent" ELSE form[n]]
        /\ owner' = [n \in Refs |-> IF n \in N THEN None ELSE owner[n]]
    BY <1>0, <1>6 DEF IterDrop, Leftover
  <2>2. N \in SUBSET Existing /\ \A n \in N : form[n] = "owed" /\ owner[n] = t
    BY <1>0 DEF Owed, Existing
  <2>3. r \in Existing \ N
    BY <1>2, <2>2
  <2>4. /\ \A n \in N : form'[n] = "absent" /\ owner'[n] = None
        /\ \A s \in Refs \ N : form'[s] = form[s] /\ owner'[s] = owner[s]
        /\ N \subseteq Refs
    BY <2>1, <2>2 DEF Existing
  <2>5. HandlesOK'
    BY <1>1, <2>1 DEF HandlesOK, Forms
  <2>6. Existing' = Existing \ N
    BY <2>4 DEF Existing
  <2>7. \A u \in Threads : loan[u] \notin N /\ iter[u] \notin N
    BY <1>1, <2>2, <2>4, OrderAssumption DEF RefsOK, Values
  <2>8. \A s \in N : HoldersOf(s) = {t}
    BY <2>2, <2>7 DEF HoldersOf
  <2>9. \A s \in Existing \ N : HoldersOf(s)' = HoldersOf(s) /\ form'[s] = form[s]
    BY <1>1, <2>4 DEF HoldersOf, Existing
  <2>10. RefsOK'
    <3>1. \A s \in Refs : form'[s] = "absent" <=> owner'[s] = None
      BY <1>1, <2>4 DEF RefsOK
    <3>2. \A u \in Threads : loan'[u] # None => form'[loan'[u]] \in Values
      BY <1>1, <2>4, <2>7 DEF RefsOK, HandlesOK
    <3>3. \A u \in Threads : iter'[u] # None =>
            form'[iter'[u]] = "Arc" /\ (owner'[iter'[u]] = u \/ loan'[u] = iter'[u])
      BY <1>1, <1>4, <2>4, <2>7 DEF RefsOK, HandlesOK
    <3>4. ASSUME NEW s \in Refs, form'[s] = "owed"
          PROVE  iter'[owner'[s]] # None
      <4>1. s \notin N /\ form[s] = "owed" /\ owner'[s] = owner[s]
        BY <2>4, <3>4
      <4>2. owner[s] # t
        BY <1>0, <4>1 DEF Owed
      <4>3. owner[s] \in Threads /\ iter[owner[s]] # None
        BY <1>1, <4>1 DEF RefsOK, HandlesOK
      <4>4. QED
        BY <1>4, <4>1, <4>2, <4>3
    <3>5. \A u \in Threads : last'[u] = "no"
      BY <1>1, <1>3
    <3>6. QED
      BY <3>1, <3>2, <3>3, <3>4, <3>5 DEF RefsOK
  <2>11. t \in HoldersOf(r)' /\ r \in Existing'
    <3>1. t \in HoldersOf(r)
      BY <1>2 DEF HoldersOf
    <3>2. QED
      BY <2>3, <2>6, <2>9, <3>1
  <2>12. \A a \in Accesses : a \in seen[t] \/ a = <<t, "use">> =>
           \/ a \in views'[Newest']
           \/ \E s \in Existing' : \E g \in HoldersOf(s)' : a \in seen'[g]
    <3>1. seen' = SeenAfter(t, "use") /\ "use" \in Kinds
      BY <2>1 DEF Modify, Kinds
    <3>2. \A a \in Accesses : a \in seen[t] \/ a = <<t, "use">> => a \in seen'[t]
      BY <1>1, <3>1, AfterAccess
    <3>3. QED
      BY <2>11, <3>2
  <2>13. \A u \in Threads : last'[u] = "no" \/ (u = t /\ last'[u] = "decremented")
    BY <1>1, <1>3
  <2>14. QED
    BY <1>6, <2>1, <2>2, <2>5, <2>6, <2>8, <2>9, <2>10, <2>12, <2>13, ShrinkKeeps
<1>7. QED
  BY <1>5, <1>6

\* With the Release decrement everything the thread knew comes with the write.
LEMMA DropKeeps ==
  ASSUME Inv, NEW t \in Threads, NEW r \in Refs, Drop(t, r)
  PROVE  Inv'
<1>1. /\ MemoryOK /\ HandlesOK /\ RefsOK
      /\ HoldersOf(r) = {t} /\ r \in Existing /\ owner[r] = t
      /\ \A u \in Threads : loan[u] # r /\ iter[u] # r
      /\ Modify(t, counts[Newest] - 1, "Release")
      /\ form'  = [form EXCEPT ![r] = "absent"]
      /\ owner' = [owner EXCEPT ![r] = None]
      /\ last'  = [last EXCEPT ![t] = IF counts[Newest] = 1 THEN "decremented" ELSE "no"]
      /\ loan' = loan /\ iter' = iter
  BY InvParts, Owned DEF Drop, Inv, FetchSub, IsLast
<1>2. /\ form'[r] = "absent" /\ owner'[r] = None
      /\ \A s \in Refs \ {r} : form'[s] = form[s] /\ owner'[s] = owner[s]
  BY <1>1 DEF HandlesOK
<1>3. Existing' = Existing \ {r}
  BY <1>2 DEF Existing
<1>4. \A u \in Threads : last[u] = "no"
  BY <1>1, NoLastYet
<1>5. \A u \in Threads : last'[u] = "no" \/ (u = t /\ last'[u] = "decremented")
  BY <1>1, <1>4 DEF HandlesOK
<1>6. HandlesOK'
  BY <1>1 DEF HandlesOK, Forms
<1>7. \A s \in Existing \ {r} : HoldersOf(s)' = HoldersOf(s) /\ form'[s] = form[s]
  BY <1>1, <1>2 DEF HoldersOf, Existing
<1>8. counts[Newest] = 1 => Existing' = {}
  <2>1. SUFFICES ASSUME counts[Newest] = 1 PROVE Existing \ {r} = {}
    BY <1>3
  <2>2. Cardinality(Existing) = 1
    BY <2>1 DEF Inv, CountOK
  <2>3. \E x : Existing = {x}
    BY <2>2, RefsAreFinite, FS_Singleton
  <2>4. QED
    BY <1>1, <2>3
<1>9. RefsOK'
  <2>1. \A s \in Refs : form'[s] = "absent" <=> owner'[s] = None
    BY <1>1, <1>2 DEF RefsOK
  <2>2. \A u \in Threads : loan'[u] # None => form'[loan'[u]] \in Values
    BY <1>1, <1>2 DEF RefsOK, HandlesOK
  <2>3. \A u \in Threads : iter'[u] # None =>
          form'[iter'[u]] = "Arc" /\ (owner'[iter'[u]] = u \/ loan'[u] = iter'[u])
    BY <1>1, <1>2 DEF RefsOK, HandlesOK
  <2>4. \A s \in Refs : form'[s] = "owed" => iter'[owner'[s]] # None
    BY <1>1, <1>2 DEF RefsOK
  <2>5. \A u \in Threads : last'[u] # "no" => Existing' = {}
    BY <1>1, <1>4, <1>8 DEF HandlesOK
  <2>6. QED
    BY <1>5, <2>1, <2>2, <2>3, <2>4, <2>5 DEF RefsOK
<1>10. counts[Newest] \in Nat
  BY <1>1, MemoryFacts
<1>11. \A a \in Accesses : a \in seen[t] \/ a = <<t, "use">> => a \in views'[Newest']
  <2>1. counts[Newest] - 1 \in Nat
    <3>1. Cardinality(Existing) # 0
      BY <1>1, RefsAreFinite, FS_EmptySet
    <3>2. QED
      BY <1>10, <3>1 DEF Inv, CountOK
  <2>2. PICK n \in Nat : n = counts[Newest] - 1
    BY <2>1
  <2>3. Modify(t, n, "Release")
    BY <1>1, <2>2
  <2>4. QED
    BY <1>1, <2>3, ModifyFacts
<1>12. Modify(t, counts[Newest] - Cardinality({r}), "Release")
  BY <1>1, FS_Singleton
<1>13. {r} \in SUBSET Existing /\ {r} # {} /\ \A s \in {r} : HoldersOf(s) = {t}
  BY <1>1
<1>14. QED
  BY <1>3, <1>5, <1>6, <1>7, <1>9, <1>11, <1>12, <1>13, ShrinkKeeps
\* The last drop loads the write that it made: nobody can make another.  With
\* the Acquire load it has seen every access.
LEMMA DropLoadKeeps ==
  ASSUME Inv, NEW t \in Threads, NEW i \in Writes, DropLoad(t, i)
  PROVE  Inv'
<1>1. /\ MemoryOK /\ HandlesOK /\ RefsOK /\ Load(t, i, "Acquire")
      /\ last[t] = "decremented" /\ last' = [last EXCEPT ![t] = "drop_slow"]
      /\ form' = form /\ owner' = owner /\ loan' = loan /\ iter' = iter
  BY InvParts DEF DropLoad, Inv, LastLoad, handles
<1>2. /\ MemoryOK' /\ counts'[Newest'] = counts[Newest]
      /\ i >= pos[t] /\ \A a \in views[i] : a \in seen'[t]
  BY <1>1, LoadFacts
<1>3. Existing = {} /\ \A u \in Threads \ {t} : last[u] = "no"
  BY <1>1 DEF RefsOK
<1>4. i = Newest
  <2>1. pos[t] = Newest
    BY <1>1 DEF Inv, LastOK
  <2>2. i \in Nat /\ Newest \in Nat /\ i <= Newest
    BY <1>1, MemoryFacts DEF Writes, Newest
  <2>3. QED
    BY <1>2, <2>1, <2>2
<1>5. last'[t] = "drop_slow" /\ \A u \in Threads \ {t} : last'[u] = "no"
  BY <1>1, <1>3 DEF HandlesOK
<1>6. seen'[t] = Accesses
  <2>1. ~Over
    BY <1>1, <1>3 DEF Over
  <2>2. \A a \in Accesses : a \in views[Newest]
    BY <1>3, <2>1 DEF Inv, Covered
  <2>3. seen'[t] \subseteq Accesses
    BY <1>2 DEF MemoryOK
  <2>4. QED
    BY <1>2, <1>4, <2>2, <2>3
<1>7. HandlesOK' /\ Existing' = Existing
  BY <1>1 DEF HandlesOK, Existing
<1>8. RefsOK'
  BY <1>1, <1>3, <1>5, <1>7 DEF RefsOK
<1>9. CountOK' /\ OnesKnown' /\ StoresSeen' /\ Covered' /\ LastOK'
  <2>1. CountOK'
    BY <1>2, <1>7 DEF Inv, CountOK
  <2>2. OnesKnown' /\ StoresSeen'
    BY <1>3, <1>7 DEF OnesKnown, StoresSeen
  <2>3. Covered'
    BY <1>5 DEF Covered, Over
  <2>4. LastOK'
    <3>1. \A u \in Threads : last'[u] # "decremented"
      BY <1>5
    <3>2. \A u \in Threads : last'[u] = "drop_slow" => u = t
      BY <1>5
    <3>3. \A u \in Threads : last'[u] = "drop_slow" => seen'[u] = Accesses
      BY <1>6, <3>2
    <3>4. QED
      BY <3>1, <3>3 DEF LastOK, DisposalOrdered, Accesses
  <2>5. QED
    BY <2>1, <2>2, <2>3, <2>4
<1>10. UniqueIsCurrent' /\ UniqueSeen'
  <2>1. \A r \in Refs : form'[r] # "UniqueArc"
    BY <1>1, <1>3 DEF Existing
  <2>2. QED
    BY <2>1 DEF UniqueIsCurrent, UniqueSeen
<1>11. QED
  BY <1>2, <1>7, <1>8, <1>9, <1>10, Together

LEMMA DropSlowKeeps ==
  ASSUME Inv, NEW t \in Threads, DropSlow(t)
  PROVE  Inv'
<1>1. /\ HandlesOK /\ RefsOK /\ last[t] = "drop_slow" /\ last' = [last EXCEPT ![t] = "done"]
      /\ counts' = counts /\ views' = views /\ pos' = pos /\ seen' = seen
      /\ form' = form /\ owner' = owner /\ loan' = loan /\ iter' = iter
  BY InvParts DEF DropSlow, Inv, handles, counter
<1>2. MemoryOK' /\ counts'[Newest'] = counts[Newest]
  BY <1>1, NothingMoves
<1>3. Existing = {} /\ \A u \in Threads \ {t} : last[u] = "no"
  BY <1>1 DEF RefsOK
<1>4. last'[t] = "done" /\ \A u \in Threads \ {t} : last'[u] = "no"
  BY <1>1, <1>3 DEF HandlesOK
<1>5. HandlesOK' /\ Existing' = Existing
  BY <1>1 DEF HandlesOK, Existing
<1>6. RefsOK'
  BY <1>1, <1>3, <1>4, <1>5 DEF RefsOK
<1>7. CountOK' /\ OnesKnown' /\ StoresSeen' /\ Covered' /\ LastOK'
  <2>1. CountOK'
    BY <1>2, <1>5 DEF Inv, CountOK
  <2>2. OnesKnown' /\ StoresSeen'
    BY <1>3, <1>5 DEF OnesKnown, StoresSeen
  <2>3. Covered'
    BY <1>4 DEF Covered, Over
  <2>4. LastOK'
    <3>1. \A u \in Threads : last'[u] # "decremented" /\ last'[u] # "drop_slow"
      BY <1>4
    <3>2. QED
      BY <3>1 DEF LastOK, DisposalOrdered
  <2>5. QED
    BY <2>1, <2>2, <2>3, <2>4
<1>8. UniqueIsCurrent' /\ UniqueSeen'
  <2>1. \A r \in Refs : form'[r] # "UniqueArc"
    BY <1>1, <1>3 DEF Existing
  <2>2. QED
    BY <2>1 DEF UniqueIsCurrent, UniqueSeen
<1>9. QED
  BY <1>2, <1>5, <1>6, <1>7, <1>8, Together

-----------------------------------------------------------------------------
(* The invariant *)

LEMMA InitInv == Init => Inv
<1> SUFFICES ASSUME Init PROVE Inv
  OBVIOUS
<1>1. PICK t \in Threads, r \in Refs :
        /\ counts = <<1>>
        /\ views  = <<Accesses \ {<<t, "write">>}>>
        /\ pos    = [u \in Threads |-> 1]
        /\ seen   = [u \in Threads |-> IF u = t THEN Accesses
                                       ELSE Accesses \ {<<t, "write">>}]
        /\ form   = [s \in Refs |-> IF s = r THEN "Arc" ELSE "absent"]
        /\ owner  = [s \in Refs |-> IF s = r THEN t ELSE None]
        /\ loan   = [u \in Threads |-> None]
        /\ iter   = [u \in Threads |-> None]
        /\ last   = [u \in Threads |-> "no"]
  BY DEF Init
<1>2. /\ Newest = 1 /\ Writes = {1} /\ Existing = {r} /\ HoldersOf(r) = {t}
      /\ counts[Newest] = 1
  BY <1>1, OrderAssumption DEF Newest, Writes, Existing, HoldersOf
<1>3. MemoryOK
  BY <1>1, <1>2 DEF MemoryOK, Placed, OwnSeen, Accesses, Kinds
<1>4. HandlesOK
  BY <1>1 DEF HandlesOK, Forms, Values
<1>5. RefsOK
  BY <1>1, OrderAssumption DEF RefsOK
<1>6. CountOK
  BY <1>2, FS_Singleton DEF CountOK
<1>7. OnesKnown
  BY <1>2 DEF OnesKnown
<1>8. UniqueIsCurrent /\ UniqueSeen
  BY <1>1 DEF UniqueIsCurrent, UniqueSeen
<1>9. seen[t] = Accesses
  BY <1>1
<1>10. StoresSeen
  BY <1>2, <1>9 DEF StoresSeen, Stores, Accesses, Kinds
<1>11. Covered
  BY <1>2, <1>9 DEF Covered
<1>12. LastOK
  BY <1>1 DEF LastOK, DisposalOrdered
<1>13. QED
  BY <1>3, <1>4, <1>5, <1>6, <1>7, <1>8, <1>10, <1>11, <1>12
  DEF Inv, TypeOK, MemoryOK, HandlesOK

LEMMA StutterKeeps ==
  ASSUME Inv, UNCHANGED vars
  PROVE  Inv'
<1>1. /\ counts' = counts /\ views' = views /\ pos' = pos /\ seen' = seen
      /\ form' = form /\ owner' = owner /\ loan' = loan /\ iter' = iter /\ last' = last
  BY DEF vars
<1>2. MemoryOK' /\ counts'[Newest'] = counts[Newest] /\ SeenKept({}) /\ Slid(0)
  BY <1>1, NothingMoves
<1>3. HandlesOK' /\ RefsOK' /\ Existing' = Existing
  BY <1>1, SameHandles
<1>4. CASE Existing # {}
  BY <1>1, <1>3, <1>4, SameHandles, FormsChange
<1>5. CASE Existing = {}
  <2>1. CountOK' /\ OnesKnown' /\ StoresSeen'
    BY <1>2, <1>3, <1>5 DEF Inv, CountOK, OnesKnown, StoresSeen
  <2>2. UniqueIsCurrent' /\ UniqueSeen'
    BY <1>1, <1>5 DEF Existing, UniqueIsCurrent, UniqueSeen
  <2>3. Newest' = Newest
    BY <1>1 DEF Newest
  <2>4. Covered'
    BY <1>1, <1>3, <1>5, <2>3 DEF Inv, Covered, Over, Accesses
  <2>5. LastOK'
    BY <1>1, <2>3 DEF Inv, LastOK, DisposalOrdered, Accesses
  <2>6. QED
    BY <1>2, <1>3, <2>1, <2>2, <2>4, <2>5, Together
<1>6. QED
  BY <1>4, <1>5

LEMMA NextInv == Inv /\ [Next]_vars => Inv'
<1> SUFFICES ASSUME Inv, [Next]_vars PROVE Inv'
  OBVIOUS
<1>1. ASSUME NEW t \in Threads, NEW r \in Refs, NEW u \in Threads, Send(t, u, r) \/ Lend(t, u, r)
      PROVE  Inv'
  BY <1>1, SendKeeps, LendKeeps
<1>2. ASSUME NEW t \in Threads, NEW r \in Refs, NEW n \in Refs, Clone(t, r, n)
      PROVE  Inv'
  BY <1>2, CloneKeeps
<1>3. ASSUME NEW t \in Threads, NEW r \in Refs, NEW N \in SUBSET Refs, CloneMany(t, r, N)
      PROVE  Inv'
  BY <1>3, CloneManyKeeps
<1>4. ASSUME NEW t \in Threads, NEW r \in Refs, NEW i \in Writes,
             Count(t, r, i) \/ TakeUnique(t, r, i)
      PROVE  Inv'
  BY <1>4, CountKeeps, TakeUniqueKeeps
<1>5. ASSUME NEW t \in Threads, NEW r \in Refs,
             IterNext(t, r) \/ Read(t, r) \/ Write(t, r) \/ Shareable(t, r)
      PROVE  Inv'
  BY <1>5, IterNextKeeps, ReadKeeps, WriteKeeps, ShareableKeeps
<1>6. ASSUME NEW t \in Threads, NEW r \in Refs, Drop(t, r)
      PROVE  Inv'
  BY <1>6, DropKeeps
<1>7. ASSUME NEW t \in Threads, GiveBack(t) \/ IterDrop(t)
      PROVE  Inv'
  BY <1>7, GiveBackKeeps, IterDropKeeps
<1>8. ASSUME NEW t \in Threads, NEW i \in Writes, DropLoad(t, i)
      PROVE  Inv'
  BY <1>8, DropLoadKeeps
<1>9. ASSUME NEW t \in Threads, DropSlow(t)
      PROVE  Inv'
  BY <1>9, DropSlowKeeps
<1>10. CASE UNCHANGED vars
  BY <1>10, StutterKeeps
<1>11. QED
  BY <1>1, <1>2, <1>3, <1>4, <1>5, <1>6, <1>7, <1>8, <1>9, <1>10 DEF Next

LEMMA Invariant == Spec => []Inv
BY InitInv, NextInv, PTL DEF Spec

\* The variables of the memory model hold what their comments say.
THEOREM OrderTyped == Spec => []TypeOK
<1>1. Inv => TypeOK
  BY DEF Inv
<1>2. QED
  BY <1>1, Invariant, PTL

\* A 1 that is_unique has loaded, from a write of the counter that may be long
\* overwritten, still tells that the caller's is the only reference, for any
\* number of threads and of writes that can be loaded (arc.rs, is_unique).
THEOREM AnswerIsCurrent == Spec => []UniqueIsCurrent
<1>1. Inv => UniqueIsCurrent
  BY DEF Inv
<1>2. QED
  BY <1>1, Invariant, PTL

\* With a Relaxed increment, a Release decrement and an Acquire load in
\* is_unique, no access of the contents races with another.
THEOREM NoDataRace == Spec => []DataRaceFree
<1>1. Inv => DataRaceFree
  <2>1. ASSUME Inv, NEW t \in Readers
        PROVE  Stores \subseteq seen[t]
    <3>1. PICK r \in Refs : CanShare(t, r) /\ t \in Threads
      BY <2>1 DEF Readers
    <3>2. t \in HoldersOf(r) /\ r \in Existing
      BY <2>1, <3>1, Shared
    <3>3. QED
      BY <2>1, <3>2 DEF Inv, StoresSeen
  <2>2. ASSUME Inv, NEW r \in Refs, NEW t \in Threads, CanMutate(t, r)
        PROVE  seen[t] = Accesses
    <3>1. HoldersOf(r) = {t} /\ form[r] = "UniqueArc"
      BY <2>2, Owned DEF CanMutate
    <3>2. \A a \in Accesses : a \in seen[t]
      BY <2>2, <3>1 DEF Inv, UniqueSeen
    <3>3. seen[t] \subseteq Accesses
      BY <2>2 DEF Inv, TypeOK
    <3>4. QED
      BY <3>2, <3>3
  <2>3. QED
    BY <2>1, <2>2 DEF DataRaceFree
<1>2. QED
  BY <1>1, Invariant, PTL

\* Every access of every thread happens before the box is disposed of: what
\* the comment on the Acquire load in Drop::drop claims.
THEOREM DisposalComesLast == Spec => []DisposalOrdered
<1>1. Inv => DisposalOrdered
  BY DEF Inv, LastOK
<1>2. QED
  BY <1>1, Invariant, PTL
=============================================================================
