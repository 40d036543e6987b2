--------------------------- MODULE DisposalProofs ---------------------------
(***************************************************************************)
(* Proofs about Disposal, for every set of threads, workers and            *)
(* allocations, and contents that nest in every way they can.              *)
(*                                                                         *)
(* The counter of an allocation is to be compared with a sum over all      *)
(* holders.  Instead of a sum, the Arcs of an allocation are made into a   *)
(* set of units, told apart by their place, and the sum is the size of     *)
(* that set: what moves, comes or goes in a step is then a set too.        *)
(***************************************************************************)
EXTENDS Disposal, FiniteSetTheorems, TLAPS

\* The Arcs of o, if H is what is held and K what make_mut has borrowed.
HeldUnits(H, o) ==
  {u \in Holders \X Strategies \X Nat : u[3] \in 1 .. H[u[1]][<<o, u[2]>>]}
Borrowers(K, o) == {t \in Threads : K[t] # None /\ K[t][1] = o}
Units(H, K, o) == HeldUnits(H, o) \cup {<<t, "borrowed", 0>> : t \in Borrowers(K, o)}

\* They are finitely many, and n.
Tally(H, K, o, n) ==
  IsFiniteSet(Units(H, K, o)) /\ Cardinality(Units(H, K, o)) = n

\* The counter counts the Arcs, wherever they are.
Counted == \A o \in Objs : Tally(held, copying, o, count[o])

\* An allocation is live as long as it is counted.
LiveIffCounted == \A o \in Objs : mem[o] = "live" <=> count[o] > 0

\* Memory that is free holds nothing.
FreeIsEmpty == \A o \in Objs : mem[o] = "free" => \A a \in Arcs : ~Has(o, a)

Inv == /\ TypeOK /\ Counted /\ LiveIffCounted /\ FreeIsEmpty
       /\ CyclesNeedCells /\ DisposedOnce

-----------------------------------------------------------------------------
(* Units and their numbers *)

HeldBy   == [Holders -> [Arcs -> Nat]]
Borrowed == [Threads -> Arcs \cup {None}]

\* The k units that holder h gets of an Arc on top of n.
Extra(h, s, n, k) == {<<h, s, i>> : i \in (n + 1) .. (n + k)}

LEMMA ExtraSize ==
  ASSUME NEW h, NEW s, NEW n \in Nat, NEW k \in Nat
  PROVE  IsFiniteSet(Extra(h, s, n, k)) /\ Cardinality(Extra(h, s, n, k)) = k
<1> DEFINE I == (n + 1) .. (n + k)
           f == [i \in I |-> <<h, s, i>>]
<1>1. IsFiniteSet(I) /\ Cardinality(I) = k
  <2>1. n + 1 \in Int /\ n + k \in Int
    OBVIOUS
  <2>2. /\ IsFiniteSet(I)
        /\ Cardinality(I) = IF n + 1 > n + k THEN 0 ELSE (n + k) - (n + 1) + 1
    BY <2>1, FS_Interval
  <2>3. QED
    BY <2>2
<1>2. f \in Bijection(I, Extra(h, s, n, k))
  <2>1. f \in [I -> Extra(h, s, n, k)]
    BY DEF Extra
  <2>2. \A i, j \in I : f[i] = f[j] => i = j
    OBVIOUS
  <2>3. \A u \in Extra(h, s, n, k) : \E i \in I : f[i] = u
    BY DEF Extra
  <2>4. QED
    BY <2>1, <2>2, <2>3 DEF Bijection, Injection, Surjection, IsInjective
<1>3. ExistsBijection(I, Extra(h, s, n, k))
  BY <1>2 DEF ExistsBijection
<1>4. QED
  BY <1>1, <1>3, FS_Bijection

\* What a unit is: an Arc in its place, or one that a make_mut has borrowed.
LEMMA UnitPlaces ==
  ASSUME NEW H \in HeldBy, NEW K \in Borrowed, NEW o \in Objs
  PROVE  /\ \A h \in Holders, s \in Strategies, i \in Nat :
              <<h, s, i>> \in Units(H, K, o) <=> i \in 1 .. H[h][<<o, s>>]
         /\ \A t \in Threads :
              <<t, "borrowed", 0>> \in Units(H, K, o) <=> t \in Borrowers(K, o)
         /\ \A u \in Units(H, K, o) :
              \/ \E h \in Holders, s \in Strategies, i \in Nat : u = <<h, s, i>>
              \/ \E t \in Threads : u = <<t, "borrowed", 0>>
<1>1. "borrowed" \notin Strategies
  BY DEF Strategies
<1>2. ASSUME NEW h \in Holders, NEW s \in Strategies, NEW i \in Nat
      PROVE  <<h, s, i>> \in Units(H, K, o) <=> i \in 1 .. H[h][<<o, s>>]
  <2>1. <<h, s, i>> \in HeldUnits(H, o) <=> i \in 1 .. H[h][<<o, s>>]
    BY DEF HeldUnits
  <2>2. <<h, s, i>> \notin {<<t, "borrowed", 0>> : t \in Borrowers(K, o)}
    BY <1>1
  <2>3. QED
    BY <2>1, <2>2 DEF Units
<1>3. ASSUME NEW t \in Threads
      PROVE  <<t, "borrowed", 0>> \in Units(H, K, o) <=> t \in Borrowers(K, o)
  <2>1. <<t, "borrowed", 0>> \notin HeldUnits(H, o)
    BY <1>1 DEF HeldUnits
  <2>2. <<t, "borrowed", 0>> \in {<<u, "borrowed", 0>> : u \in Borrowers(K, o)}
          <=> t \in Borrowers(K, o)
    OBVIOUS
  <2>3. QED
    BY <2>1, <2>2 DEF Units
<1>4. ASSUME NEW u \in Units(H, K, o)
      PROVE  \/ \E h \in Holders, s \in Strategies, i \in Nat : u = <<h, s, i>>
             \/ \E t \in Threads : u = <<t, "borrowed", 0>>
  BY DEF Units, HeldUnits, Borrowers
<1>5. QED
  BY <1>2, <1>3, <1>4

\* Only what concerns o counts for o.
LEMMA SameUnits ==
  ASSUME NEW H \in HeldBy, NEW K \in Borrowed, NEW o \in Objs,
         NEW G \in HeldBy, NEW L \in Borrowed,
         \A h \in Holders, s \in Strategies : G[h][<<o, s>>] = H[h][<<o, s>>],
         Borrowers(L, o) = Borrowers(K, o)
  PROVE  \A n : Tally(G, L, o, n) <=> Tally(H, K, o, n)
<1>1. ASSUME NEW h \in Holders, NEW s \in Strategies, NEW i \in Nat
      PROVE  <<h, s, i>> \in Units(G, L, o) <=> <<h, s, i>> \in Units(H, K, o)
  <2>1. /\ <<h, s, i>> \in Units(G, L, o) <=> i \in 1 .. G[h][<<o, s>>]
        /\ <<h, s, i>> \in Units(H, K, o) <=> i \in 1 .. H[h][<<o, s>>]
    BY UnitPlaces
  <2>2. QED
    BY <2>1
<1>2. \A t \in Threads :
        <<t, "borrowed", 0>> \in Units(G, L, o) <=> <<t, "borrowed", 0>> \in Units(H, K, o)
  BY UnitPlaces
<1>3. Units(G, L, o) \subseteq Units(H, K, o) /\ Units(H, K, o) \subseteq Units(G, L, o)
  BY <1>1, <1>2, UnitPlaces
<1>4. Units(G, L, o) = Units(H, K, o)
  BY <1>3
<1>5. QED
  BY <1>4 DEF Tally

\* A set of units that others are added to.
LEMMA MoreUnits ==
  ASSUME NEW A, NEW X, A \cap X = {}, IsFiniteSet(X),
         NEW k \in Nat, Cardinality(X) = k, NEW n \in Nat
  PROVE  /\ IsFiniteSet(A) <=> IsFiniteSet(A \cup X)
         /\ IsFiniteSet(A) => (Cardinality(A) = n <=> Cardinality(A \cup X) = n + k)
<1>2. ASSUME IsFiniteSet(A)
      PROVE  /\ IsFiniteSet(A \cup X) /\ Cardinality(A) \in Nat
             /\ Cardinality(A \cup X) = Cardinality(A) + k
  <2>1. Cardinality(A \cap X) = 0
    BY FS_EmptySet
  <2>2. /\ IsFiniteSet(A \cup X)
        /\ Cardinality(A \cup X)
             = Cardinality(A) + Cardinality(X) - Cardinality(A \cap X)
    BY <1>2, FS_Union
  <2>3. Cardinality(A) \in Nat
    BY <1>2, FS_CardinalityType
  <2>4. QED
    BY <2>1, <2>2, <2>3
<1>3. IsFiniteSet(A \cup X) => IsFiniteSet(A)
  BY FS_Subset
<1>4. QED
  BY <1>2, <1>3

\* Holder h has k more of one sort of Arc of o in G than in H.
LEMMA Grow ==
  ASSUME NEW H \in HeldBy, NEW G \in HeldBy, NEW K \in Borrowed, NEW o \in Objs,
         NEW h \in Holders, NEW s \in Strategies, NEW k \in Nat, NEW n \in Nat,
         G[h][<<o, s>>] = H[h][<<o, s>>] + k,
         \A g \in Holders, z \in Strategies :
           g # h \/ z # s => G[g][<<o, z>>] = H[g][<<o, z>>]
  PROVE  Tally(H, K, o, n) <=> Tally(G, K, o, n + k)
<1> DEFINE m == H[h][<<o, s>>]
           X == Extra(h, s, m, k)
<1>1. m \in Nat
  BY DEF HeldBy, Arcs
<1>2. IsFiniteSet(X) /\ Cardinality(X) = k
  BY <1>1, ExtraSize
<1>3. \A u : u \in Units(G, K, o) <=> u \in Units(H, K, o) \cup X
  <2>1. ASSUME NEW g \in Holders, NEW z \in Strategies, NEW i \in Nat
        PROVE  <<g, z, i>> \in Units(G, K, o) <=> <<g, z, i>> \in Units(H, K, o) \cup X
    <3>1. <<g, z, i>> \in X <=> g = h /\ z = s /\ i \in (m + 1) .. (m + k)
      BY DEF Extra
    <3>2. /\ <<g, z, i>> \in Units(G, K, o) <=> i \in 1 .. G[g][<<o, z>>]
          /\ <<g, z, i>> \in Units(H, K, o) <=> i \in 1 .. H[g][<<o, z>>]
      BY UnitPlaces
    <3>3. QED
      BY <1>1, <3>1, <3>2
  <2>2. ASSUME NEW t \in Threads
        PROVE  /\ <<t, "borrowed", 0>> \in Units(G, K, o)
                    <=> <<t, "borrowed", 0>> \in Units(H, K, o)
               /\ <<t, "borrowed", 0>> \notin X
    BY UnitPlaces DEF Extra, Strategies
  <2>3. \A u \in X : \E i \in Nat : u = <<h, s, i>>
    BY <1>1 DEF Extra
  <2>4. QED
    BY <2>1, <2>2, <2>3, UnitPlaces
<1>4. Units(G, K, o) = Units(H, K, o) \cup X
  BY <1>3
<1>5. Units(H, K, o) \cap X = {}
  <2>1. \A i \in Nat : <<h, s, i>> \in Units(H, K, o) <=> i \in 1 .. m
    BY UnitPlaces
  <2>2. QED
    BY <1>1, <2>1 DEF Extra
<1> HIDE DEF X
<1>6. PICK A : A = Units(H, K, o)
  OBVIOUS
<1>7. /\ IsFiniteSet(A) <=> IsFiniteSet(A \cup X)
      /\ IsFiniteSet(A) => (Cardinality(A) = n <=> Cardinality(A \cup X) = n + k)
  BY <1>2, <1>5, <1>6, MoreUnits
<1>8. QED
  BY <1>4, <1>6, <1>7 DEF Tally

\* Thread t borrows the Arc r in L and nothing in K.
LEMMA Lend ==
  ASSUME NEW H \in HeldBy, NEW K \in Borrowed, NEW L \in Borrowed, NEW o \in Objs,
         NEW t \in Threads, K[t] = None, L[t] \in Arcs, L[t][1] = o, NEW n \in Nat,
         \A u \in Threads \ {t} : L[u] = K[u]
  PROVE  Tally(H, K, o, n) <=> Tally(H, L, o, n + 1)
<1> DEFINE x == <<t, "borrowed", 0>>
<1>1. Borrowers(L, o) = Borrowers(K, o) \cup {t} /\ t \notin Borrowers(K, o)
  BY DisposalAssumption DEF Borrowers
<1>2. Units(H, L, o) = Units(H, K, o) \cup {x}
  BY <1>1 DEF Units
<1>3. Units(H, K, o) \cap {x} = {}
  BY <1>1, UnitPlaces
<1>4. IsFiniteSet({x}) /\ Cardinality({x}) = 1
  BY FS_Singleton
<1> HIDE DEF x
<1>5. QED
  BY <1>2, <1>3, <1>4, MoreUnits DEF Tally

\* An Arc that is held or borrowed is counted; two are counted twice.
LEMMA OneUnit ==
  ASSUME NEW H \in HeldBy, NEW K \in Borrowed, NEW o \in Objs, NEW n \in Nat,
         Tally(H, K, o, n), NEW u \in Units(H, K, o)
  PROVE  /\ n >= 1
         /\ \A w \in Units(H, K, o) : w # u => n >= 2
<1> DEFINE U == Units(H, K, o)
<1>1. IsFiniteSet(U) /\ Cardinality(U) = n
  BY DEF Tally
<1>2. IsFiniteSet(U \ {u}) /\ Cardinality(U \ {u}) = n - 1
  BY <1>1, FS_RemoveElement
<1>3. Cardinality(U \ {u}) \in Nat
  BY <1>2, FS_CardinalityType
<1>4. ASSUME NEW w \in U, w # u
      PROVE  n >= 2
  <2>1. Cardinality(U \ {u}) # 0
    BY <1>2, <1>4, FS_EmptySet
  <2>2. QED
    BY <1>2, <1>3, <2>1
<1>5. QED
  BY <1>2, <1>3, <1>4

-----------------------------------------------------------------------------
(* Allocations on their way out *)

\* Sequences, index by index.
LEMMA SeqFacts ==
  ASSUME NEW s \in Seq(Objs), NEW o \in Objs
  PROVE  /\ <<o>> \o s \in Seq(Objs) /\ Append(s, o) \in Seq(Objs)
         /\ DOMAIN s = 1 .. Len(s) /\ Len(s) \in Nat
         /\ DOMAIN (<<o>> \o s) = 1 .. Len(s) + 1
         /\ DOMAIN Append(s, o) = 1 .. Len(s) + 1
         /\ \A i \in 1 .. Len(s) + 1 :
              /\ (<<o>> \o s)[i] = IF i = 1 THEN o ELSE s[i - 1]
              /\ Append(s, o)[i] = IF i = Len(s) + 1 THEN o ELSE s[i]
         /\ s # <<>> => /\ Head(s) = s[1] /\ Head(s) \in Objs
                        /\ Tail(s) \in Seq(Objs)
                        /\ DOMAIN Tail(s) = 1 .. Len(s) - 1
                        /\ \A i \in 1 .. Len(s) - 1 : Tail(s)[i] = s[i + 1]
                        /\ Len(s) >= 1
<1>1. <<o>> \o s \in Seq(Objs) /\ Append(s, o) \in Seq(Objs)
  OBVIOUS
<1>2. DOMAIN s = 1 .. Len(s) /\ Len(s) \in Nat
  OBVIOUS
<1>3. /\ DOMAIN (<<o>> \o s) = 1 .. Len(s) + 1
      /\ \A i \in 1 .. Len(s) + 1 : (<<o>> \o s)[i] = IF i = 1 THEN o ELSE s[i - 1]
  OBVIOUS
<1>4. /\ DOMAIN Append(s, o) = 1 .. Len(s) + 1
      /\ \A i \in 1 .. Len(s) + 1 : Append(s, o)[i] = IF i = Len(s) + 1 THEN o ELSE s[i]
  OBVIOUS
<1>5. ASSUME s # <<>>
      PROVE  /\ Head(s) = s[1] /\ Head(s) \in Objs
             /\ Tail(s) \in Seq(Objs)
             /\ DOMAIN Tail(s) = 1 .. Len(s) - 1
             /\ \A i \in 1 .. Len(s) - 1 : Tail(s)[i] = s[i + 1]
             /\ Len(s) >= 1
  BY <1>5
<1>6. QED
  BY <1>1, <1>2, <1>3, <1>4, <1>5

\* What the allocations other than o do when only o changes hands.
OthersKept(o) ==
  \A p \in Objs \ {o} :
    {mem[p], mem'[p]} \cap {"boxed", "dying"} # {} => mem'[p] = mem[p]

LEMMA DisposedKept ==
  ASSUME TypeOK, DisposedOnce, UNCHANGED <<stack, trash>>, NEW o \in Objs,
         mem[o] \notin {"boxed", "dying"}, mem'[o] \notin {"boxed", "dying"},
         OthersKept(o)
  PROVE  DisposedOnce'
<1>1. ASSUME NEW p \in Objs
      PROVE  /\ mem'[p] = "boxed" <=> mem[p] = "boxed"
             /\ mem'[p] = "dying" <=> mem[p] = "dying"
  <2>1. CASE p = o
    BY <2>1
  <2>2. CASE p # o
    BY <2>2 DEF OthersKept
  <2>3. QED
    BY <2>1, <2>2
<1>2. stack' = stack /\ trash' = trash
  OBVIOUS
<1>3. QED
  BY <1>1, <1>2 DEF DisposedOnce

\* The strategy destroys it on the spot.
LEMMA DisposedNow ==
  ASSUME TypeOK, DisposedOnce, NEW x \in Runners, NEW o \in Objs,
         stack' = [stack EXCEPT ![x] = <<o>> \o @], UNCHANGED trash,
         mem[o] = "live", mem'[o] = "dying", OthersKept(o)
  PROVE  DisposedOnce'
<1> DEFINE n == Len(stack[x])
<1>1. stack \in [Runners -> Seq(Objs)] /\ stack[x] \in Seq(Objs) /\ n \in Nat
  BY DEF TypeOK
<1>2. /\ \A y \in Runners \ {x} : stack'[y] = stack[y]
      /\ stack'[x] = <<o>> \o stack[x]
  BY <1>1
<1>3. /\ DOMAIN stack[x] = 1 .. n /\ DOMAIN stack'[x] = 1 .. n + 1
      /\ stack'[x][1] = o
      /\ \A i \in 1 .. n : stack'[x][i + 1] = stack[x][i]
      /\ \A i \in 1 .. n + 1 : i # 1 => i - 1 \in 1 .. n /\ stack'[x][i] = stack[x][i - 1]
  BY <1>1, <1>2, SeqFacts
<1>4. \A y \in Runners : \A i \in DOMAIN stack[y] : stack[y][i] # o
  BY DEF DisposedOnce
<1>5. \A y, z \in Runners : \A i \in DOMAIN stack'[y], j \in DOMAIN stack'[z] :
        stack'[y][i] = stack'[z][j] => y = z /\ i = j
  <2> SUFFICES ASSUME NEW y \in Runners, NEW z \in Runners,
                      NEW i \in DOMAIN stack'[y], NEW j \in DOMAIN stack'[z],
                      stack'[y][i] = stack'[z][j]
               PROVE  y = z /\ i = j
    OBVIOUS
  <2>1. CASE y = x /\ z = x
    <3>1. i \in 1 .. n + 1 /\ j \in 1 .. n + 1
      BY <1>3, <2>1
    <3>2. CASE i = 1 \/ j = 1
      BY <1>3, <1>4, <2>1, <3>1, <3>2
    <3>3. CASE i # 1 /\ j # 1
      <4>1. i - 1 \in DOMAIN stack[x] /\ j - 1 \in DOMAIN stack[x]
            /\ stack[x][i - 1] = stack[x][j - 1]
        BY <1>3, <2>1, <3>1, <3>3
      <4>2. i - 1 = j - 1
        BY <4>1 DEF DisposedOnce
      <4>3. QED
        BY <2>1, <3>1, <4>2
    <3>4. QED
      BY <3>2, <3>3
  <2>2. CASE y = x /\ z # x
    BY <1>2, <1>3, <1>4, <2>2 DEF DisposedOnce
  <2>3. CASE y # x /\ z = x
    BY <1>2, <1>3, <1>4, <2>3 DEF DisposedOnce
  <2>4. CASE y # x /\ z # x
    BY <1>2, <2>4 DEF DisposedOnce
  <2>5. QED
    BY <2>1, <2>2, <2>3, <2>4
<1>6. ASSUME NEW p \in Objs
      PROVE  mem'[p] = "dying" <=>
               \E y \in Runners : \E i \in DOMAIN stack'[y] : stack'[y][i] = p
  <2>1. CASE p = o
    <3>1. 1 \in DOMAIN stack'[x]
      BY <1>1, <1>3
    <3>2. QED
      BY <1>3, <2>1, <3>1
  <2>2. CASE p # o
    <3>1. mem[p] = "dying" <=>
            \E y \in Runners : \E i \in DOMAIN stack[y] : stack[y][i] = p
      BY DEF DisposedOnce
    <3>2. mem'[p] = "dying" <=> mem[p] = "dying"
      BY <2>2 DEF OthersKept
    <3>3. ASSUME NEW y \in Runners, NEW i \in DOMAIN stack[y], stack[y][i] = p
          PROVE  \E j \in DOMAIN stack'[y] : stack'[y][j] = p
      <4>1. CASE y = x
        <5>1. i \in 1 .. n /\ i + 1 \in 1 .. n + 1
          BY <1>1, <1>3, <4>1
        <5>2. /\ i + 1 \in DOMAIN stack'[x]
              /\ stack'[x][i + 1] = stack[x][i]
          BY <1>3, <4>1, <5>1
        <5>3. QED
          BY <3>3, <4>1, <5>2
      <4>2. CASE y # x
        BY <1>2, <3>3, <4>2
      <4>3. QED
        BY <4>1, <4>2
    <3>4. ASSUME NEW y \in Runners, NEW i \in DOMAIN stack'[y], stack'[y][i] = p
          PROVE  \E j \in DOMAIN stack[y] : stack[y][j] = p
      <4>1. CASE y = x
        BY <1>3, <2>2, <3>4, <4>1
      <4>2. CASE y # x
        BY <1>2, <3>4, <4>2
      <4>3. QED
        BY <4>1, <4>2
    <3>5. QED
      BY <3>1, <3>2, <3>3, <3>4
  <2>3. QED
    BY <2>1, <2>2
<1>7. ASSUME NEW p \in Objs
      PROVE  mem'[p] = "boxed" <=> \E i \in DOMAIN trash' : trash'[i] = p
  <2>1. mem[p] = "boxed" <=> \E i \in DOMAIN trash : trash[i] = p
    BY DEF DisposedOnce
  <2>2. mem'[p] = "boxed" <=> mem[p] = "boxed"
    BY DEF OthersKept
  <2>3. trash' = trash
    OBVIOUS
  <2>4. QED
    BY <2>1, <2>2, <2>3
<1>8. \A i, j \in DOMAIN trash' : trash'[i] = trash'[j] => i = j
  BY DEF DisposedOnce
<1>9. QED
  BY <1>5, <1>6, <1>7, <1>8 DEF DisposedOnce

\* The strategy leaves it to a worker.
LEMMA DisposedLater ==
  ASSUME TypeOK, DisposedOnce, NEW o \in Objs,
         trash' = Append(trash, o), UNCHANGED stack,
         mem[o] = "live", mem'[o] = "boxed", OthersKept(o)
  PROVE  DisposedOnce'
<1> DEFINE n == Len(trash)
<1>1. trash \in Seq(Objs) /\ n \in Nat /\ stack' = stack
  BY DEF TypeOK
<1>2. /\ DOMAIN trash = 1 .. n /\ DOMAIN trash' = 1 .. n + 1
      /\ \A i \in 1 .. n + 1 : trash'[i] = IF i = n + 1 THEN o ELSE trash[i]
  BY <1>1, SeqFacts
<1>3. \A i \in DOMAIN trash : trash[i] # o
  BY DEF DisposedOnce
<1>4. ASSUME NEW i \in DOMAIN trash', NEW j \in DOMAIN trash', trash'[i] = trash'[j]
      PROVE  i = j
  <2>1. \A k, l \in DOMAIN trash : trash[k] = trash[l] => k = l
    BY DEF DisposedOnce
  <2>2. QED
    BY <1>1, <1>2, <1>3, <1>4, <2>1
<1>5. ASSUME NEW p \in Objs
      PROVE  mem'[p] = "boxed" <=> \E i \in DOMAIN trash' : trash'[i] = p
  <2>1. CASE p = o
    <3>1. n + 1 \in DOMAIN trash' /\ trash'[n + 1] = o
      BY <1>1, <1>2
    <3>2. QED
      BY <2>1, <3>1
  <2>2. CASE p # o
    <3>1. mem[p] = "boxed" <=> \E i \in DOMAIN trash : trash[i] = p
      BY DEF DisposedOnce
    <3>2. mem'[p] = "boxed" <=> mem[p] = "boxed"
      BY <2>2 DEF OthersKept
    <3>3. \A i \in DOMAIN trash : i \in DOMAIN trash' /\ trash'[i] = trash[i]
      BY <1>1, <1>2
    <3>4. \A i \in DOMAIN trash' : trash'[i] = p => i \in DOMAIN trash /\ trash[i] = p
      BY <1>1, <1>2, <2>2
    <3>5. QED
      BY <3>1, <3>2, <3>3, <3>4
  <2>3. QED
    BY <2>1, <2>2
<1>6. ASSUME NEW p \in Objs
      PROVE  mem'[p] = "dying" <=> mem[p] = "dying"
  <2>1. CASE p = o
    BY <2>1
  <2>2. CASE p # o
    BY <2>2 DEF OthersKept
  <2>3. QED
    BY <2>1, <2>2
<1>7. QED
  BY <1>1, <1>4, <1>5, <1>6 DEF DisposedOnce

\* A worker takes the first box out of the trash.
LEMMA DisposedReceive ==
  ASSUME TypeOK, DisposedOnce, NEW w \in Workers, Receive(w)
  PROVE  DisposedOnce'
<1> DEFINE o == Head(trash)
           n == Len(trash)
<1>1. /\ trash \in Seq(Objs) /\ trash # <<>> /\ w \in Runners
      /\ mem \in [Objs -> {"free", "live", "boxed", "dying"}]
      /\ stack \in [Runners -> Seq(Objs)]
  BY DEF TypeOK, Receive, Runners
<1>2. PICK q \in Objs : q = Head(trash)
  BY <1>1, SeqFacts
<1>3. /\ q = trash[1] /\ n \in Nat /\ n >= 1
      /\ DOMAIN trash = 1 .. n /\ DOMAIN trash' = 1 .. n - 1
      /\ \A i \in 1 .. n - 1 : trash'[i] = trash[i + 1]
  BY <1>1, <1>2, SeqFacts DEF Receive
<1>4. /\ stack[w] = <<>> /\ stack'[w] = <<q>>
      /\ \A y \in Runners \ {w} : stack'[y] = stack[y]
      /\ DOMAIN stack[w] = {} /\ DOMAIN stack'[w] = {1} /\ stack'[w][1] = q
  BY <1>1, <1>2 DEF Receive
<1>5. \A p \in Objs : mem'[p] = IF p = q THEN "dying" ELSE mem[p]
  BY <1>1, <1>2 DEF Receive
<1>6. mem[q] = "boxed"
  <2>1. 1 \in DOMAIN trash
    BY <1>3
  <2>2. QED
    BY <1>3, <2>1 DEF DisposedOnce
<1>7. \A y \in Runners : \A i \in DOMAIN stack[y] : stack[y][i] # q
  BY <1>6 DEF DisposedOnce
<1>8. \A y, z \in Runners : \A i \in DOMAIN stack'[y], j \in DOMAIN stack'[z] :
        stack'[y][i] = stack'[z][j] => y = z /\ i = j
  <2> SUFFICES ASSUME NEW y \in Runners, NEW z \in Runners,
                      NEW i \in DOMAIN stack'[y], NEW j \in DOMAIN stack'[z],
                      stack'[y][i] = stack'[z][j]
               PROVE  y = z /\ i = j
    OBVIOUS
  <2>1. CASE y = w /\ z = w
    BY <1>4, <2>1
  <2>2. CASE y = w /\ z # w
    BY <1>4, <1>7, <2>2
  <2>3. CASE y # w /\ z = w
    BY <1>4, <1>7, <2>3
  <2>4. CASE y # w /\ z # w
    BY <1>4, <2>4 DEF DisposedOnce
  <2>5. QED
    BY <2>1, <2>2, <2>3, <2>4
<1>9. ASSUME NEW i \in DOMAIN trash', NEW j \in DOMAIN trash', trash'[i] = trash'[j]
      PROVE  i = j
  <2>1. /\ i \in 1 .. n - 1 /\ j \in 1 .. n - 1
        /\ i + 1 \in DOMAIN trash /\ j + 1 \in DOMAIN trash
        /\ trash[i + 1] = trash[j + 1]
    BY <1>3, <1>9
  <2>2. i + 1 = j + 1
    BY <2>1 DEF DisposedOnce
  <2>3. QED
    BY <2>1, <2>2
<1>10. ASSUME NEW p \in Objs
       PROVE  mem'[p] = "boxed" <=> \E i \in DOMAIN trash' : trash'[i] = p
  <2>1. mem[p] = "boxed" <=> \E i \in DOMAIN trash : trash[i] = p
    BY DEF DisposedOnce
  <2>2. \A i, j \in DOMAIN trash : trash[i] = trash[j] => i = j
    BY DEF DisposedOnce
  <2>3. CASE p = q
    <3>1. ASSUME NEW i \in DOMAIN trash', trash'[i] = q
          PROVE  FALSE
      <4>1. i + 1 \in DOMAIN trash /\ 1 \in DOMAIN trash /\ trash[i + 1] = trash[1]
            /\ i + 1 # 1
        BY <1>3, <3>1
      <4>2. QED
        BY <2>2, <4>1
    <3>2. QED
      BY <1>5, <2>3, <3>1
  <2>4. CASE p # q
    <3>1. ASSUME NEW i \in DOMAIN trash, trash[i] = p
          PROVE  \E j \in DOMAIN trash' : trash'[j] = p
      <4>1. i - 1 \in DOMAIN trash' /\ trash'[i - 1] = p
        BY <1>3, <2>4, <3>1
      <4>2. QED
        BY <4>1
    <3>2. ASSUME NEW i \in DOMAIN trash', trash'[i] = p
          PROVE  \E j \in DOMAIN trash : trash[j] = p
      <4>1. i + 1 \in DOMAIN trash /\ trash[i + 1] = p
        BY <1>3, <3>2
      <4>2. QED
        BY <4>1
    <3>3. QED
      BY <1>5, <2>1, <2>4, <3>1, <3>2
  <2>5. QED
    BY <2>3, <2>4
<1>11. ASSUME NEW p \in Objs
       PROVE  mem'[p] = "dying" <=>
                \E y \in Runners : \E i \in DOMAIN stack'[y] : stack'[y][i] = p
  <2>1. mem[p] = "dying" <=>
          \E y \in Runners : \E i \in DOMAIN stack[y] : stack[y][i] = p
    BY DEF DisposedOnce
  <2>2. CASE p = q
    BY <1>1, <1>4, <1>5, <2>2
  <2>3. CASE p # q
    <3>1. mem'[p] = mem[p]
      BY <1>5, <2>3
    <3>2. ASSUME NEW y \in Runners
          PROVE  (\E i \in DOMAIN stack'[y] : stack'[y][i] = p)
                   <=> (\E i \in DOMAIN stack[y] : stack[y][i] = p)
      BY <1>4, <2>3
    <3>3. QED
      BY <2>1, <3>1, <3>2
  <2>4. QED
    BY <2>2, <2>3
<1>12. QED
  BY <1>8, <1>9, <1>10, <1>11 DEF DisposedOnce

\* The innermost allocation that a runner is in is deallocated.
LEMMA DisposedDeallocate ==
  ASSUME TypeOK, DisposedOnce, NEW x \in Runners, Deallocate(x)
  PROVE  DisposedOnce'
<1> DEFINE n == Len(stack[x])
<1>1. /\ stack \in [Runners -> Seq(Objs)] /\ stack[x] \in Seq(Objs)
      /\ stack[x] # <<>> /\ trash' = trash
      /\ mem \in [Objs -> {"free", "live", "boxed", "dying"}]
  BY DEF TypeOK, Deallocate
<1>2. PICK q \in Objs : q = Head(stack[x])
  BY <1>1, SeqFacts
<1>3. /\ stack'[x] = Tail(stack[x])
      /\ \A y \in Runners \ {x} : stack'[y] = stack[y]
  BY <1>1 DEF Deallocate
<1>4. /\ q = stack[x][1] /\ n \in Nat /\ n >= 1
      /\ DOMAIN stack[x] = 1 .. n /\ DOMAIN stack'[x] = 1 .. n - 1
      /\ \A i \in 1 .. n - 1 : stack'[x][i] = stack[x][i + 1]
  BY <1>1, <1>2, <1>3, SeqFacts
<1>5. \A p \in Objs : mem'[p] = IF p = q THEN "free" ELSE mem[p]
  BY <1>1, <1>2 DEF Deallocate
<1>6. \A y, z \in Runners : \A i \in DOMAIN stack[y], j \in DOMAIN stack[z] :
        stack[y][i] = stack[z][j] => y = z /\ i = j
  BY DEF DisposedOnce
<1>7. /\ \A i \in DOMAIN stack'[x] :
           i + 1 \in DOMAIN stack[x] /\ i + 1 # 1 /\ stack'[x][i] = stack[x][i + 1]
      /\ 1 \in DOMAIN stack[x] /\ mem[q] = "dying"
  <2>1. 1 \in DOMAIN stack[x]
    BY <1>4
  <2>2. mem[q] = "dying"
    BY <1>4, <2>1 DEF DisposedOnce
  <2>3. QED
    BY <1>4, <2>1, <2>2
<1>7a. \A y \in Runners \ {x} : \A i \in DOMAIN stack'[y] :
         i \in DOMAIN stack[y] /\ stack'[y][i] = stack[y][i]
  BY <1>3
<1>8. \A y, z \in Runners : \A i \in DOMAIN stack'[y], j \in DOMAIN stack'[z] :
        stack'[y][i] = stack'[z][j] => y = z /\ i = j
  <2> SUFFICES ASSUME NEW y \in Runners, NEW z \in Runners,
                      NEW i \in DOMAIN stack'[y], NEW j \in DOMAIN stack'[z],
                      stack'[y][i] = stack'[z][j]
               PROVE  y = z /\ i = j
    OBVIOUS
  <2>1. CASE y = x /\ z = x
    <3>1. i + 1 = j + 1 /\ i \in 1 .. n - 1 /\ j \in 1 .. n - 1
      <4>1. i \in 1 .. n - 1 /\ j \in 1 .. n - 1
        BY <1>4, <2>1
      <4>2. /\ i + 1 \in DOMAIN stack[x] /\ j + 1 \in DOMAIN stack[x]
            /\ stack[x][i + 1] = stack[x][j + 1]
        BY <1>7, <2>1
      <4>3. i + 1 = j + 1
        BY <1>6, <4>2
      <4>4. QED
        BY <4>1, <4>3
    <3>2. QED
      BY <2>1, <3>1
  <2>2. CASE y = x /\ z # x
    <3>1. /\ i + 1 \in DOMAIN stack[x] /\ j \in DOMAIN stack[z]
          /\ stack[x][i + 1] = stack[z][j]
      BY <1>7, <1>7a, <2>2
    <3>2. QED
      BY <1>6, <2>2, <3>1
  <2>3. CASE y # x /\ z = x
    <3>1. /\ i \in DOMAIN stack[y] /\ j + 1 \in DOMAIN stack[x]
          /\ stack[y][i] = stack[x][j + 1]
      BY <1>7, <1>7a, <2>3
    <3>2. QED
      BY <1>6, <2>3, <3>1
  <2>4. CASE y # x /\ z # x
    BY <1>3, <1>6, <2>4
  <2>5. QED
    BY <2>1, <2>2, <2>3, <2>4
<1>9. ASSUME NEW p \in Objs
      PROVE  mem'[p] = "dying" <=>
               \E y \in Runners : \E i \in DOMAIN stack'[y] : stack'[y][i] = p
  <2>1. mem[p] = "dying" <=>
          \E y \in Runners : \E i \in DOMAIN stack[y] : stack[y][i] = p
    BY DEF DisposedOnce
  <2>2. CASE p = q
    <3>1. ASSUME NEW y \in Runners, NEW i \in DOMAIN stack'[y], stack'[y][i] = q
          PROVE  FALSE
      <4>1. CASE y = x
        <5>1. i + 1 \in DOMAIN stack[x] /\ i + 1 # 1 /\ stack[x][i + 1] = stack[x][1]
          BY <1>4, <1>7, <3>1, <4>1
        <5>2. QED
          BY <1>6, <1>7, <5>1
      <4>2. CASE y # x
        <5>1. i \in DOMAIN stack[y] /\ stack[y][i] = stack[x][1]
          BY <1>4, <1>7a, <3>1, <4>2
        <5>2. QED
          BY <1>6, <1>7, <4>2, <5>1
      <4>3. QED
        BY <4>1, <4>2
    <3>2. QED
      BY <1>5, <2>2, <3>1
  <2>3. CASE p # q
    <3>1. mem'[p] = mem[p]
      BY <1>5, <2>3
    <3>2. ASSUME NEW y \in Runners, NEW i \in DOMAIN stack'[y], stack'[y][i] = p
          PROVE  \E j \in DOMAIN stack[y] : stack[y][j] = p
      <4>1. CASE y = x
        BY <1>7, <3>2, <4>1
      <4>2. CASE y # x
        BY <1>3, <3>2, <4>2
      <4>3. QED
        BY <4>1, <4>2
    <3>3. ASSUME NEW y \in Runners, NEW i \in DOMAIN stack[y], stack[y][i] = p
          PROVE  \E j \in DOMAIN stack'[y] : stack'[y][j] = p
      <4>1. CASE y = x
        <5>1. i - 1 \in DOMAIN stack'[x] /\ stack'[x][i - 1] = p
          <6>1. i \in 1 .. n /\ i # 1
            BY <1>4, <2>3, <3>3, <4>1
          <6>2. i - 1 \in 1 .. n - 1 /\ (i - 1) + 1 = i
            BY <1>4, <6>1
          <6>3. QED
            BY <1>4, <3>3, <4>1, <6>2
        <5>2. QED
          BY <4>1, <5>1
      <4>2. CASE y # x
        BY <1>3, <3>3, <4>2
      <4>3. QED
        BY <4>1, <4>2
    <3>4. QED
      BY <2>1, <3>1, <3>2, <3>3
  <2>4. QED
    BY <2>2, <2>3
<1>10. ASSUME NEW p \in Objs
       PROVE  mem'[p] = "boxed" <=> mem[p] = "boxed"
  BY <1>5, <1>7
<1>11. /\ \A i, j \in DOMAIN trash' : trash'[i] = trash'[j] => i = j
       /\ \A p \in Objs : mem'[p] = "boxed" <=> \E i \in DOMAIN trash' : trash'[i] = p
  BY <1>1, <1>10 DEF DisposedOnce
<1>12. QED
  BY <1>8, <1>9, <1>11 DEF DisposedOnce

-----------------------------------------------------------------------------
(* Moves of Arcs *)

\* Holder h has one more of the Arc a in G than in H.
LEMMA OneMore ==
  ASSUME NEW H \in HeldBy, NEW G \in HeldBy, NEW K \in Borrowed,
         NEW h \in Holders, NEW a \in Arcs,
         \A g \in Holders, b \in Arcs :
           G[g][b] = H[g][b] + (IF g = h /\ b = a THEN 1 ELSE 0)
  PROVE  \A p \in Objs, n \in Nat :
           Tally(H, K, p, n) <=> Tally(G, K, p, IF p = a[1] THEN n + 1 ELSE n)
<1> SUFFICES ASSUME NEW p \in Objs, NEW n \in Nat
             PROVE  Tally(H, K, p, n) <=> Tally(G, K, p, IF p = a[1] THEN n + 1 ELSE n)
  OBVIOUS
<1>1. /\ a[1] \in Objs /\ a[2] \in Strategies /\ a = <<a[1], a[2]>>
      /\ \A z \in Strategies : <<p, z>> \in Arcs
      /\ \A g \in Holders, b \in Arcs : G[g][b] \in Nat /\ H[g][b] \in Nat
  BY DEF Arcs, HeldBy
<1>2. CASE p = a[1]
  <2>1. G[h][<<p, a[2]>>] = H[h][<<p, a[2]>>] + 1
    BY <1>1, <1>2
  <2>2. \A g \in Holders, z \in Strategies :
          g # h \/ z # a[2] => G[g][<<p, z>>] = H[g][<<p, z>>]
    BY <1>1, <1>2
  <2>3. Tally(H, K, p, n) <=> Tally(G, K, p, n + 1)
    BY <1>1, <2>1, <2>2, Grow
  <2>4. QED
    BY <1>2, <2>3
<1>3. CASE p # a[1]
  <2>1. \A g \in Holders, z \in Strategies : G[g][<<p, z>>] = H[g][<<p, z>>]
    BY <1>1, <1>3
  <2>2. Tally(G, K, p, n) <=> Tally(H, K, p, n)
    BY <2>1, SameUnits
  <2>3. QED
    BY <1>3, <2>2
<1>4. QED
  BY <1>2, <1>3

\* Holder h has k more Arcs of o of the one sort, and l of the other.
LEMMA GrowRow ==
  ASSUME NEW H \in HeldBy, NEW G \in HeldBy, NEW K \in Borrowed, NEW o \in Objs,
         NEW h \in Holders, NEW k \in Nat, NEW l \in Nat, NEW n \in Nat,
         G[h][<<o, "now">>] = H[h][<<o, "now">>] + k,
         G[h][<<o, "later">>] = H[h][<<o, "later">>] + l,
         \A g \in Holders \ {h}, z \in Strategies : G[g][<<o, z>>] = H[g][<<o, z>>]
  PROVE  Tally(H, K, o, n) <=> Tally(G, K, o, n + k + l)
<1> DEFINE a == <<o, "now">>
           F == [g \in Holders |-> [b \in Arcs |->
                   IF g = h /\ b = a THEN H[g][b] + k ELSE H[g][b]]]
<1>1. /\ Strategies = {"now", "later"} /\ a \in Arcs
      /\ \A z \in Strategies : <<o, z>> \in Arcs
      /\ \A g \in Holders, b \in Arcs : H[g][b] \in Nat
  BY DEF Arcs, HeldBy, Strategies
<1>2. F \in HeldBy
  <2>1. \A g \in Holders, b \in Arcs :
          (IF g = h /\ b = a THEN H[g][b] + k ELSE H[g][b]) \in Nat
    BY <1>1
  <2>2. QED
    BY <2>1 DEF HeldBy
<1>3. \A g \in Holders, z \in Strategies :
        F[g][<<o, z>>] = H[g][<<o, z>>] + (IF g = h /\ z = "now" THEN k ELSE 0)
  BY <1>1
<1>3a. "now" \in Strategies /\ "later" \in Strategies
  BY <1>1
<1> HIDE DEF F
<1>4. Tally(H, K, o, n) <=> Tally(F, K, o, n + k)
  <2>1. F[h][<<o, "now">>] = H[h][<<o, "now">>] + k
    BY <1>1, <1>3
  <2>2. \A g \in Holders, z \in Strategies :
          g # h \/ z # "now" => F[g][<<o, z>>] = H[g][<<o, z>>]
    BY <1>1, <1>3
  <2>3. QED
    BY <1>2, <1>3a, <2>1, <2>2, Grow
<1>5. Tally(F, K, o, n + k) <=> Tally(G, K, o, n + k + l)
  <2>1. G[h][<<o, "later">>] = F[h][<<o, "later">>] + l
    BY <1>1, <1>3
  <2>2. \A g \in Holders, z \in Strategies :
          g # h \/ z # "later" => G[g][<<o, z>>] = F[g][<<o, z>>]
    BY <1>1, <1>3
  <2>3. n + k \in Nat
    OBVIOUS
  <2>4. \A i \in {n + k} : Tally(F, K, o, i) <=> Tally(G, K, o, i + l)
    BY <1>2, <1>3a, <2>1, <2>2, <2>3, Grow
  <2>5. QED
    BY <2>4
<1>6. QED
  BY <1>4, <1>5

\* What the state says of an Arc that is held, or borrowed.
LEMMA HeldIsCounted ==
  ASSUME TypeOK, Counted, LiveIffCounted
  PROVE  /\ \A h \in Holders, a \in Arcs : Has(h, a) =>
              count[a[1]] >= 1 /\ mem[a[1]] = "live"
         /\ \A t \in Threads : copying[t] # None =>
              count[copying[t][1]] >= 1 /\ mem[copying[t][1]] = "live"
         /\ \A h, g \in Holders, a, b \in Arcs :
              Has(h, a) /\ Has(g, b) /\ a[1] = b[1] /\ (h # g \/ a # b) =>
                count[a[1]] >= 2
         /\ \A h \in Holders, a \in Arcs : held[h][a] >= 2 => count[a[1]] >= 2
<1>1. /\ held \in HeldBy /\ copying \in Borrowed /\ count \in [Objs -> Nat]
      /\ \A h \in Holders, a \in Arcs : held[h][a] \in Nat
  BY DEF TypeOK, HeldBy, Borrowed
<1>2. ASSUME NEW h \in Holders, NEW a \in Arcs, NEW i \in Nat, i \in 1 .. held[h][a]
      PROVE  <<h, a[2], i>> \in Units(held, copying, a[1])
  <2>1. a[1] \in Objs /\ a[2] \in Strategies /\ a = <<a[1], a[2]>>
    BY DEF Arcs
  <2>2. QED
    BY <1>1, <1>2, <2>1, UnitPlaces
<1>3. ASSUME NEW h \in Holders, NEW a \in Arcs, Has(h, a)
      PROVE  <<h, a[2], 1>> \in Units(held, copying, a[1])
  <2>1. 1 \in 1 .. held[h][a]
    BY <1>1, <1>3 DEF Has
  <2>2. QED
    BY <1>2, <2>1
<1>4. \A a \in Arcs : /\ a[1] \in Objs /\ count[a[1]] \in Nat
                      /\ Tally(held, copying, a[1], count[a[1]])
                      /\ count[a[1]] > 0 => mem[a[1]] = "live"
  BY <1>1 DEF Arcs, Counted, LiveIffCounted
<1>5. ASSUME NEW h \in Holders, NEW a \in Arcs, Has(h, a)
      PROVE  count[a[1]] >= 1 /\ mem[a[1]] = "live"
  <2>1. PICK u \in Units(held, copying, a[1]) : TRUE
    BY <1>3, <1>5
  <2>2. count[a[1]] >= 1
    BY <1>1, <1>4, <2>1, OneUnit
  <2>3. QED
    BY <1>4, <2>2
<1>6. ASSUME NEW t \in Threads, copying[t] # None
      PROVE  count[copying[t][1]] >= 1 /\ mem[copying[t][1]] = "live"
  <2>1. PICK a \in Arcs : a = copying[t]
    BY <1>1, <1>6 DEF Borrowed
  <2>2. t \in Borrowers(copying, a[1])
    BY <1>6, <2>1 DEF Borrowers
  <2>3. <<t, "borrowed", 0>> \in Units(held, copying, a[1])
    BY <2>2 DEF Units
  <2>4. count[a[1]] >= 1
    BY <1>1, <1>4, <2>3, OneUnit
  <2>5. QED
    BY <1>4, <2>1, <2>4
<1>7. ASSUME NEW h \in Holders, NEW g \in Holders, NEW a \in Arcs, NEW b \in Arcs,
             Has(h, a), Has(g, b), a[1] = b[1], h # g \/ a # b
      PROVE  count[a[1]] >= 2
  <2>1. /\ <<h, a[2], 1>> \in Units(held, copying, a[1])
        /\ <<g, b[2], 1>> \in Units(held, copying, a[1])
    BY <1>3, <1>7
  <2>2. <<h, a[2], 1>> # <<g, b[2], 1>>
    BY <1>7 DEF Arcs
  <2>3. QED
    BY <1>1, <1>4, <2>1, <2>2, OneUnit
<1>8. ASSUME NEW h \in Holders, NEW a \in Arcs, held[h][a] >= 2
      PROVE  count[a[1]] >= 2
  <2>1. 1 \in 1 .. held[h][a] /\ 2 \in 1 .. held[h][a]
    BY <1>1, <1>8
  <2>2. /\ <<h, a[2], 1>> \in Units(held, copying, a[1])
        /\ <<h, a[2], 2>> \in Units(held, copying, a[1])
    BY <1>2, <2>1
  <2>3. <<h, a[2], 1>> # <<h, a[2], 2>>
    OBVIOUS
  <2>4. QED
    BY <1>1, <1>4, <2>2, <2>3, OneUnit
<1>9. QED
  BY <1>5, <1>6, <1>7, <1>8

\* An Arc of o is held without being seen.
LEMMA FewerHeld ==
  ASSUME TypeOK, Counted, LiveIffCounted,
         NEW h \in Holders, NEW a \in Arcs, Has(h, a)
  PROVE  /\ Without(h, a) \in HeldBy
         /\ \A g \in Holders, b \in Arcs :
              Without(h, a)[g][b] = held[g][b] - (IF g = h /\ b = a THEN 1 ELSE 0)
         /\ \A p \in Objs :
              /\ Tally(Without(h, a), copying, p,
                       IF p = a[1] THEN count[p] - 1 ELSE count[p])
              /\ p = a[1] => count[p] - 1 \in Nat
<1>1. /\ held \in HeldBy /\ copying \in Borrowed /\ count \in [Objs -> Nat]
      /\ \A g \in Holders, b \in Arcs : held[g][b] \in Nat
      /\ held[h][a] - 1 \in Nat
  BY DEF TypeOK, HeldBy, Borrowed, Has
<1> DEFINE G == Without(h, a)
<1>2. G \in HeldBy
  BY <1>1 DEF HeldBy, Without
<1>3. \A g \in Holders, b \in Arcs :
        G[g][b] = held[g][b] - (IF g = h /\ b = a THEN 1 ELSE 0)
  BY <1>1 DEF HeldBy, Without
<1> HIDE DEF G
<1>4. \A g \in Holders, b \in Arcs :
        held[g][b] = G[g][b] + (IF g = h /\ b = a THEN 1 ELSE 0)
  BY <1>1, <1>3
<1>5. \A p \in Objs, n \in Nat :
        Tally(G, copying, p, n) <=> Tally(held, copying, p, IF p = a[1] THEN n + 1 ELSE n)
  BY <1>1, <1>2, <1>4, OneMore
<1>6. ASSUME NEW p \in Objs
      PROVE  /\ Tally(G, copying, p, IF p = a[1] THEN count[p] - 1 ELSE count[p])
             /\ p = a[1] => count[p] - 1 \in Nat
  <2>1. Tally(held, copying, p, count[p]) /\ count[p] \in Nat
    BY <1>1 DEF Counted
  <2>2. CASE p = a[1]
    <3>1. count[p] >= 1
      BY <2>2, HeldIsCounted
    <3>2. count[p] - 1 \in Nat /\ (count[p] - 1) + 1 = count[p]
      BY <2>1, <3>1
    <3>3. Tally(G, copying, p, count[p] - 1) <=> Tally(held, copying, p, (count[p] - 1) + 1)
      BY <1>5, <2>2, <3>2
    <3>4. QED
      BY <2>1, <2>2, <3>2, <3>3
  <2>3. CASE p # a[1]
    BY <1>5, <2>1, <2>3
  <2>4. QED
    BY <2>2, <2>3
<1>7. QED
  BY <1>2, <1>3, <1>6 DEF G

-----------------------------------------------------------------------------
(* What the steps have in common *)

\* Runner x drops an Arc a.  But for the counter of a, what the step has made
\* of the state already agrees with C.
LEMMA Released ==
  ASSUME TypeOK, DisposedOnce,
         NEW x \in Runners, NEW a \in Arcs, NEW H \in HeldBy, NEW C \in [Objs -> Nat],
         Release(x, a, H, C), copying' \in Borrowed,
         mem' \in [Objs -> {"free", "live", "boxed", "dying"}],
         mem[a[1]] = "live", mem'[a[1]] = MemAfter(a, C), OthersKept(a[1]),
         C[a[1]] - 1 \in Nat, Tally(H, copying', a[1], C[a[1]] - 1),
         \A p \in Objs \ {a[1]} :
           Tally(H, copying', p, C[p]) /\ (mem'[p] = "live" <=> C[p] > 0)
  PROVE  TypeOK' /\ Counted' /\ LiveIffCounted' /\ DisposedOnce' /\ mem'[a[1]] # "free"
<1>1. /\ a[1] \in Objs /\ a[2] \in {"now", "later"} /\ held' = H
      /\ count' = [C EXCEPT ![a[1]] = @ - 1] /\ C[a[1]] \in Nat
  BY DEF Arcs, Strategies, Release
<1>2. count' \in [Objs -> Nat]
  BY <1>1
<1>3. Counted'
  BY <1>1 DEF Counted
<1>4. LiveIffCounted'
  <2>1. mem'[a[1]] = "live" <=> count'[a[1]] > 0
    BY <1>1 DEF MemAfter, IsLast
  <2>2. \A p \in Objs \ {a[1]} : count'[p] = C[p]
    BY <1>1
  <2>3. QED
    BY <2>1, <2>2 DEF LiveIffCounted
<1>5. DisposedOnce' /\ stack' \in [Runners -> Seq(Objs)] /\ trash' \in Seq(Objs)
  <2>1. stack \in [Runners -> Seq(Objs)] /\ trash \in Seq(Objs)
    BY DEF TypeOK
  <2>2. CASE ~IsLast(C[a[1]])
    <3>1. UNCHANGED <<stack, trash>>
      BY <2>2 DEF Release, IsLast
    <3>2. mem'[a[1]] = "live"
      BY <2>2 DEF MemAfter
    <3>3. QED
      BY <1>1, <2>1, <3>1, <3>2, DisposedKept
  <2>3. CASE IsLast(C[a[1]]) /\ a[2] = "now"
    <3>1. stack' = [stack EXCEPT ![x] = <<a[1]>> \o @] /\ UNCHANGED trash
      BY <2>3 DEF Release, IsLast
    <3>2. mem'[a[1]] = "dying"
      BY <2>3 DEF MemAfter
    <3>3. DisposedOnce'
      BY <1>1, <3>1, <3>2, DisposedNow
    <3>4. <<a[1]>> \o stack[x] \in Seq(Objs)
      BY <1>1, <2>1, SeqFacts
    <3>5. QED
      BY <2>1, <3>1, <3>3, <3>4
  <2>4. CASE IsLast(C[a[1]]) /\ a[2] = "later"
    <3>1. trash' = Append(trash, a[1]) /\ UNCHANGED stack
      BY <2>4 DEF Release, IsLast
    <3>2. mem'[a[1]] = "boxed"
      BY <2>4 DEF MemAfter
    <3>3. DisposedOnce'
      BY <1>1, <3>1, <3>2, DisposedLater
    <3>4. QED
      BY <1>1, <2>1, <3>1, <3>3, SeqFacts
  <2>5. QED
    BY <1>1, <2>2, <2>3, <2>4
<1>6. mem'[a[1]] # "free"
  BY DEF MemAfter
<1>7. QED
  BY <1>1, <1>2, <1>3, <1>4, <1>5, <1>6 DEF TypeOK, HeldBy, Borrowed

\* A step ties no cycle of plain contents if all that it adds are Arcs in the contents of u, and
\* no Arc anywhere leads to u.
LEMMA NoCycleTied ==
  ASSUME CyclesNeedCells, NEW u \in Objs,
         \A q \in Objs : ~Owns(q, u)',
         \A q \in Objs \ {u}, o \in Objs : Owns(q, o)' => Owns(q, o)
  PROVE  CyclesNeedCells'
<1> SUFFICES ASSUME NEW S \in (SUBSET (Objs \ Cells)) \ {{}}
             PROVE  \E o \in S : \A p \in S : ~Owns(p, o)'
  BY DEF CyclesNeedCells
<1>1. CASE u \in S
  BY <1>1
<1>2. CASE u \notin S
  <2>1. PICK o \in S : \A p \in S : ~Owns(p, o)
    BY DEF CyclesNeedCells
  <2>2. \A p \in S : ~Owns(p, o)'
    BY <1>2, <2>1
  <2>3. QED
    BY <2>2
<1>3. QED
  BY <1>1, <1>2

LEMMA NoCycleCut ==
  ASSUME CyclesNeedCells,
         \A q \in Objs \ Cells, o \in Objs : Owns(q, o)' => Owns(q, o)
  PROVE  CyclesNeedCells'
<1> SUFFICES ASSUME NEW S \in (SUBSET (Objs \ Cells)) \ {{}}
             PROVE  \E o \in S : \A p \in S : ~Owns(p, o)'
  BY DEF CyclesNeedCells
<1>1. PICK o \in S : \A p \in S : ~Owns(p, o)
  BY DEF CyclesNeedCells
<1>2. \A p \in S : ~Owns(p, o)'
  BY <1>1
<1>3. QED
  BY <1>2

\* Which Arcs an allocation's contents hold decides on both.
LEMMA FewerOwned ==
  ASSUME CyclesNeedCells, FreeIsEmpty, TypeOK, TypeOK',
         \A q \in Objs, b \in Arcs : held'[q][b] <= held[q][b],
         \A q \in Objs : mem'[q] = "free" =>
           mem[q] = "free" \/ (\A b \in Arcs : held'[q][b] = 0)
  PROVE  CyclesNeedCells' /\ FreeIsEmpty'
<1>1. \A q \in Objs, b \in Arcs : held'[q][b] \in Nat /\ held[q][b] \in Nat
  BY DEF TypeOK, Holders
<1>2. \A q \in Objs, b \in Arcs : Has(q, b)' => Has(q, b)
  BY <1>1 DEF Has
<1>3. \A q, o \in Objs : Owns(q, o)' => Owns(q, o)
  BY <1>2 DEF Owns, Arcs
<1>4. ASSUME NEW q \in Objs, mem'[q] = "free", NEW b \in Arcs
      PROVE  ~Has(q, b)'
  <2>1. CASE mem[q] = "free"
    BY <1>2, <2>1 DEF FreeIsEmpty
  <2>2. CASE held'[q][b] = 0
    BY <2>2 DEF Has
  <2>3. QED
    BY <1>4, <2>1, <2>2
<1>5. CyclesNeedCells'
  BY <1>3, NoCycleCut
<1>6. QED
  BY <1>4, <1>5 DEF FreeIsEmpty

\* Runner x drops an Arc that h holds.
LEMMA DropStep ==
  ASSUME Inv, NEW x \in Runners, NEW h \in Holders, NEW a \in Arcs, Has(h, a),
         Release(x, a, Without(h, a), count),
         mem' = [mem EXCEPT ![a[1]] = MemAfter(a, count)], UNCHANGED copying
  PROVE  Inv'
<1>1. /\ TypeOK /\ Counted /\ LiveIffCounted /\ FreeIsEmpty /\ CyclesNeedCells /\ DisposedOnce
      /\ a[1] \in Objs /\ count \in [Objs -> Nat] /\ copying' \in Borrowed
      /\ mem \in [Objs -> {"free", "live", "boxed", "dying"}]
      /\ \A g \in Holders, b \in Arcs : held[g][b] \in Nat
  BY DEF Inv, TypeOK, Arcs, Borrowed
<1> DEFINE G == Without(h, a)
<1>2. /\ G \in HeldBy
      /\ \A g \in Holders, b \in Arcs :
           G[g][b] = held[g][b] - (IF g = h /\ b = a THEN 1 ELSE 0)
      /\ \A p \in Objs : /\ Tally(G, copying, p, IF p = a[1] THEN count[p] - 1 ELSE count[p])
                         /\ p = a[1] => count[p] - 1 \in Nat
  BY <1>1, FewerHeld
<1>3. held' = G
  BY DEF Release
<1> HIDE DEF G
<1>4. mem[a[1]] = "live"
  BY <1>1, HeldIsCounted
<1>5. MemAfter(a, count) \in {"live", "boxed", "dying"}
  BY <1>4 DEF MemAfter
<1>6. /\ mem' \in [Objs -> {"free", "live", "boxed", "dying"}]
      /\ mem'[a[1]] = MemAfter(a, count)
      /\ \A p \in Objs \ {a[1]} : mem'[p] = mem[p]
  BY <1>1, <1>5
<1>7. OthersKept(a[1])
  BY <1>6 DEF OthersKept
<1>8. TypeOK' /\ Counted' /\ LiveIffCounted' /\ DisposedOnce' /\ mem'[a[1]] # "free"
  <2>1. \A p \in Objs \ {a[1]} :
          Tally(G, copying', p, count[p]) /\ (mem'[p] = "live" <=> count[p] > 0)
    BY <1>1, <1>2, <1>6 DEF LiveIffCounted
  <2>2. Tally(G, copying', a[1], count[a[1]] - 1) /\ count[a[1]] - 1 \in Nat
    BY <1>1, <1>2
  <2>3. Release(x, a, G, count)
    BY DEF G
  <2>4. QED
    BY <1>1, <1>2, <1>4, <1>6, <1>7, <2>1, <2>2, <2>3, Released
<1>9. CyclesNeedCells' /\ FreeIsEmpty'
  <2>1. \A q \in Objs, b \in Arcs : held'[q][b] <= held[q][b]
    BY <1>1, <1>2, <1>3 DEF Holders
  <2>2. \A q \in Objs : mem'[q] = "free" => mem[q] = "free"
    BY <1>6, <1>8
  <2>3. QED
    BY <1>1, <1>8, <2>1, <2>2, FewerOwned
<1>10. QED
  BY <1>8, <1>9 DEF Inv

\* Thread t borrows an Arc in L and nothing in K: for every allocation.
LEMMA LendAny ==
  ASSUME NEW H \in HeldBy, NEW K \in Borrowed, NEW L \in Borrowed,
         NEW t \in Threads, NEW r \in Arcs, K[t] = None, L[t] = r,
         \A u \in Threads \ {t} : L[u] = K[u]
  PROVE  \A p \in Objs, n \in Nat :
           Tally(H, K, p, n) <=> Tally(H, L, p, IF p = r[1] THEN n + 1 ELSE n)
<1> SUFFICES ASSUME NEW p \in Objs, NEW n \in Nat
             PROVE  Tally(H, K, p, n) <=> Tally(H, L, p, IF p = r[1] THEN n + 1 ELSE n)
  OBVIOUS
<1>1. CASE p = r[1]
  <2>1. L[t] \in Arcs /\ L[t][1] = p
    BY <1>1
  <2>2. Tally(H, K, p, n) <=> Tally(H, L, p, n + 1)
    BY <2>1, Lend
  <2>3. QED
    BY <1>1, <2>2
<1>2. CASE p # r[1]
  <2>1. Borrowers(L, p) = Borrowers(K, p)
    BY <1>2 DEF Borrowers
  <2>2. Tally(H, L, p, n) <=> Tally(H, K, p, n)
    BY <2>1, SameUnits
  <2>3. QED
    BY <1>2, <2>2
<1>3. QED
  BY <1>1, <1>2

\* The program gets one more of the Arc b.
LEMMA Gained ==
  ASSUME TypeOK, NEW b \in Arcs, NEW K \in Borrowed,
         held' = [held EXCEPT ![Program][b] = @ + 1]
  PROVE  /\ held' \in HeldBy
         /\ \A q \in Objs, c \in Arcs : held'[q][c] = held[q][c] /\ held[q][c] \in Nat
         /\ \A p \in Objs, n \in Nat :
              Tally(held, K, p, n) <=> Tally(held', K, p, IF p = b[1] THEN n + 1 ELSE n)
<1>1. held \in HeldBy /\ Program \in Holders /\ Objs \subseteq Holders
      /\ \A g \in Holders, c \in Arcs : held[g][c] \in Nat
  BY DEF TypeOK, HeldBy, Holders
<1>2. held' \in HeldBy
  BY <1>1 DEF HeldBy
<1>3. \A g \in Holders, c \in Arcs :
        held'[g][c] = held[g][c] + (IF g = Program /\ c = b THEN 1 ELSE 0)
  BY <1>1 DEF HeldBy
<1>4. \A q \in Objs, c \in Arcs : held'[q][c] = held[q][c] /\ held[q][c] \in Nat
  BY <1>1, <1>3, DisposalAssumption
<1>5. \A p \in Objs, n \in Nat :
        Tally(held, K, p, n) <=> Tally(held', K, p, IF p = b[1] THEN n + 1 ELSE n)
  <2>1. PICK h \in Holders : h = Program
    BY <1>1
  <2>2. \A g \in Holders, c \in Arcs :
          held'[g][c] = held[g][c] + (IF g = h /\ c = b THEN 1 ELSE 0)
    BY <1>3, <2>1
  <2>3. PICK H \in HeldBy : H = held
    BY <1>1
  <2>4. PICK G \in HeldBy : G = held'
    BY <1>2
  <2>5. \A g \in Holders, c \in Arcs :
          G[g][c] = H[g][c] + (IF g = h /\ c = b THEN 1 ELSE 0)
    BY <2>2, <2>3, <2>4
  <2>6. \A p \in Objs, n \in Nat :
          Tally(H, K, p, n) <=> Tally(G, K, p, IF p = b[1] THEN n + 1 ELSE n)
    BY <2>5, OneMore
  <2>7. QED
    BY <2>3, <2>4, <2>6
<1>6. QED
  BY <1>2, <1>4, <1>5

LEMMA NewStep ==
  ASSUME Inv, NEW t \in Threads, NEW o \in Objs, NEW s \in Strategies, New(t, o, s)
  PROVE  Inv'
<1> DEFINE b == <<o, s>>
<1>1. /\ TypeOK /\ Counted /\ LiveIffCounted /\ FreeIsEmpty /\ CyclesNeedCells /\ DisposedOnce
      /\ count \in [Objs -> Nat] /\ copying \in Borrowed /\ b \in Arcs
      /\ mem \in [Objs -> {"free", "live", "boxed", "dying"}]
  BY DEF Inv, TypeOK, Arcs, Borrowed
<1>2. /\ mem[o] = "free"
      /\ mem' = [mem EXCEPT ![o] = "live"] /\ count' = [count EXCEPT ![o] = 1]
      /\ held' = [held EXCEPT ![Program][b] = @ + 1]
      /\ copying' = copying /\ stack' = stack /\ trash' = trash
  BY DEF New
<1>3. /\ held' \in HeldBy
      /\ \A q \in Objs, c \in Arcs : held'[q][c] = held[q][c] /\ held[q][c] \in Nat
      /\ \A p \in Objs, n \in Nat :
           Tally(held, copying, p, n) <=> Tally(held', copying, p, IF p = o THEN n + 1 ELSE n)
  BY <1>1, <1>2, Gained
<1>4. \A p \in Objs : /\ mem'[p] = IF p = o THEN "live" ELSE mem[p]
                      /\ count'[p] = IF p = o THEN 1 ELSE count[p]
  BY <1>1, <1>2
<1>5. count[o] = 0
  BY <1>1, <1>2 DEF LiveIffCounted
<1>6. TypeOK'
  BY <1>1, <1>2, <1>3 DEF TypeOK, HeldBy
<1>7. Counted'
  <2> SUFFICES ASSUME NEW p \in Objs
               PROVE  Tally(held', copying', p, count'[p])
    BY DEF Counted
  <2>1. Tally(held, copying, p, count[p]) /\ count[p] \in Nat
    BY <1>1 DEF Counted
  <2>2. Tally(held', copying, p, IF p = o THEN count[p] + 1 ELSE count[p])
    BY <1>3, <2>1
  <2>3. count'[p] = IF p = o THEN count[p] + 1 ELSE count[p]
    BY <1>4, <1>5
  <2>4. QED
    BY <1>2, <2>2, <2>3
<1>8. LiveIffCounted'
  BY <1>1, <1>4 DEF LiveIffCounted
<1>9. CyclesNeedCells' /\ FreeIsEmpty'
  <2>1. \A q \in Objs, c \in Arcs : held'[q][c] <= held[q][c]
    BY <1>3
  <2>2. \A q \in Objs : mem'[q] = "free" => mem[q] = "free"
    BY <1>4
  <2>3. QED
    BY <1>1, <1>6, <2>1, <2>2, FewerOwned
<1>10. DisposedOnce'
  <2>1. OthersKept(o) /\ mem'[o] = "live"
    BY <1>4 DEF OthersKept
  <2>2. QED
    BY <1>1, <1>2, <2>1, DisposedKept
<1>11. QED
  BY <1>6, <1>7, <1>8, <1>9, <1>10 DEF Inv

LEMMA CloneStep ==
  ASSUME Inv, NEW t \in Threads, NEW h \in Holders, NEW a \in Arcs, NEW s \in Strategies,
         Clone(t, h, a, s)
  PROVE  Inv'
<1> DEFINE b == <<a[1], s>>
<1>1. /\ TypeOK /\ Counted /\ LiveIffCounted /\ FreeIsEmpty /\ CyclesNeedCells /\ DisposedOnce
      /\ count \in [Objs -> Nat] /\ copying \in Borrowed
      /\ a[1] \in Objs /\ b \in Arcs /\ b[1] = a[1]
      /\ mem \in [Objs -> {"free", "live", "boxed", "dying"}]
  BY DEF Inv, TypeOK, Arcs, Borrowed
<1>2. /\ Has(h, a) /\ count' = [count EXCEPT ![a[1]] = @ + 1]
      /\ held' = [held EXCEPT ![Program][b] = @ + 1]
      /\ mem' = mem /\ copying' = copying /\ stack' = stack /\ trash' = trash
  BY DEF Clone
<1> HIDE DEF b
<1>3. /\ held' \in HeldBy
      /\ \A q \in Objs, c \in Arcs : held'[q][c] = held[q][c] /\ held[q][c] \in Nat
      /\ \A p \in Objs, n \in Nat :
           Tally(held, copying, p, n) <=> Tally(held', copying, p, IF p = b[1] THEN n + 1 ELSE n)
  BY <1>1, <1>2, Gained
<1>4. mem[a[1]] = "live" /\ count[a[1]] >= 1
  BY <1>1, <1>2, HeldIsCounted
<1>5. \A p \in Objs : count'[p] = IF p = a[1] THEN count[p] + 1 ELSE count[p]
  BY <1>1, <1>2
<1>6. TypeOK'
  <2>1. count' \in [Objs -> Nat]
    BY <1>1, <1>2
  <2>2. QED
    BY <1>1, <1>2, <1>3, <2>1 DEF TypeOK, HeldBy
<1>7. Counted'
  <2> SUFFICES ASSUME NEW p \in Objs
               PROVE  Tally(held', copying', p, count'[p])
    BY DEF Counted
  <2>1. Tally(held, copying, p, count[p]) /\ count[p] \in Nat
    BY <1>1 DEF Counted
  <2>2. Tally(held', copying, p, IF p = a[1] THEN count[p] + 1 ELSE count[p])
    BY <1>1, <1>3, <2>1
  <2>3. QED
    BY <1>2, <1>5, <2>2
<1>8. LiveIffCounted'
  BY <1>1, <1>2, <1>4, <1>5 DEF LiveIffCounted
<1>9. CyclesNeedCells' /\ FreeIsEmpty'
  <2>1. \A q \in Objs, c \in Arcs : held'[q][c] <= held[q][c]
    BY <1>3
  <2>2. \A q \in Objs : mem'[q] = "free" => mem[q] = "free"
    BY <1>2
  <2>3. QED
    BY <1>1, <1>6, <2>1, <2>2, FewerOwned
<1>10. DisposedOnce'
  BY <1>1, <1>2 DEF DisposedOnce
<1>11. QED
  BY <1>6, <1>7, <1>8, <1>9, <1>10 DEF Inv

\* The Arc a that h holds becomes the Arc b that g holds.
Given(h, a, g, b) ==
  \A f \in Holders, c \in Arcs :
    held'[f][c] = Without(h, a)[f][c] + (IF f = g /\ c = b THEN 1 ELSE 0)

\* The strategy may be another one; the allocation is the same.
LEMMA MoveStep ==
  ASSUME Inv, NEW h \in Holders, NEW g \in Holders, NEW a \in Arcs, NEW b \in Arcs,
         Has(h, a), a[1] = b[1], held' \in HeldBy,
         Given(h, a, g, b),
         UNCHANGED <<mem, count, copying, stack, trash>>
  PROVE  TypeOK' /\ Counted' /\ LiveIffCounted' /\ DisposedOnce'
<1>1. /\ TypeOK /\ Counted /\ LiveIffCounted /\ DisposedOnce
      /\ count \in [Objs -> Nat] /\ copying \in Borrowed
  BY DEF Inv, TypeOK, Borrowed
<1> DEFINE G == Without(h, a)
<1>2. /\ G \in HeldBy
      /\ \A p \in Objs : /\ Tally(G, copying, p, IF p = a[1] THEN count[p] - 1 ELSE count[p])
                         /\ p = a[1] => count[p] - 1 \in Nat
  BY <1>1, FewerHeld
<1> HIDE DEF G
<1>3. \A f \in Holders, c \in Arcs :
        held'[f][c] = G[f][c] + (IF f = g /\ c = b THEN 1 ELSE 0)
  BY DEF G, Given
<1>4. \A p \in Objs, n \in Nat :
        Tally(G, copying, p, n) <=> Tally(held', copying, p, IF p = b[1] THEN n + 1 ELSE n)
  BY <1>1, <1>2, <1>3, OneMore
<1>5. Counted'
  <2> SUFFICES ASSUME NEW p \in Objs
               PROVE  Tally(held', copying', p, count'[p])
    BY DEF Counted
  <2>1. count[p] \in Nat /\ count' = count /\ copying' = copying
    BY <1>1
  <2>2. CASE p = a[1]
    <3>1. Tally(G, copying, p, count[p] - 1) /\ count[p] - 1 \in Nat
      BY <1>2, <2>2
    <3>2. Tally(held', copying, p, (count[p] - 1) + 1)
      BY <1>4, <2>2, <3>1
    <3>3. QED
      BY <2>1, <3>2
  <2>3. CASE p # a[1]
    BY <1>2, <1>4, <2>1, <2>3
  <2>4. QED
    BY <2>2, <2>3
<1>6. TypeOK'
  BY <1>1 DEF TypeOK, HeldBy
<1>7. LiveIffCounted' /\ DisposedOnce'
  BY <1>1 DEF LiveIffCounted, DisposedOnce
<1>8. QED
  BY <1>5, <1>6, <1>7

-----------------------------------------------------------------------------
(* The steps *)

\* Nothing changes in the contents of allocations but that Arcs leave them.
LEMMA TakeOutStep ==
  ASSUME Inv, NEW t \in Threads, NEW r \in Arcs, NEW a \in Arcs, TakeOut(t, r, a)
  PROVE  Inv'
<1> DEFINE h == r[1]
<1>1. /\ TypeOK /\ FreeIsEmpty /\ CyclesNeedCells /\ held \in HeldBy
      /\ h \in Objs /\ h \in Holders /\ Program \in Holders /\ h # Program
      /\ Has(h, a) /\ held' = Moved(h, Program, a)
      /\ UNCHANGED <<mem, count, copying, stack, trash>>
      /\ \A f \in Holders, c \in Arcs : held[f][c] \in Nat
  <2>1. TypeOK /\ FreeIsEmpty /\ CyclesNeedCells
    BY DEF Inv
  <2>2. held \in HeldBy /\ \A f \in Holders, c \in Arcs : held[f][c] \in Nat
    BY <2>1 DEF TypeOK, HeldBy
  <2>3. h \in Objs /\ h \in Holders /\ Program \in Holders /\ h # Program
    BY DisposalAssumption DEF Arcs, Holders
  <2>4. /\ Has(h, a) /\ held' = Moved(h, Program, a)
        /\ UNCHANGED <<mem, count, copying, stack, trash>>
    BY DEF TakeOut
  <2>5. QED
    BY <2>1, <2>2, <2>3, <2>4
<1>2. \A f \in Holders, c \in Arcs :
        /\ held'[f][c] = held[f][c] - (IF f = h /\ c = a THEN 1 ELSE 0)
                                    + (IF f = Program /\ c = a THEN 1 ELSE 0)
        /\ Without(h, a)[f][c] = held[f][c] - (IF f = h /\ c = a THEN 1 ELSE 0)
  BY <1>1 DEF HeldBy, Moved, Without
<1>3. held[h][a] - 1 \in Nat /\ held[Program][a] + 1 \in Nat
  BY <1>1 DEF Has
<1>4. held' \in HeldBy
  BY <1>1, <1>3 DEF HeldBy, Moved
<1>5. TypeOK' /\ Counted' /\ LiveIffCounted' /\ DisposedOnce'
  <2>1. \A f \in Holders, c \in Arcs :
          held'[f][c] = Without(h, a)[f][c] + (IF f = Program /\ c = a THEN 1 ELSE 0)
    BY <1>2
  <2>2. Given(h, a, Program, a)
    BY <2>1 DEF Given
  <2>3. QED
    BY <1>1, <1>4, <2>2, MoveStep
<1>6. CyclesNeedCells' /\ FreeIsEmpty'
  <2>1. \A q \in Objs, c \in Arcs : held'[q][c] <= held[q][c]
    BY <1>1, <1>2, DisposalAssumption DEF Holders
  <2>2. \A q \in Objs : mem'[q] = "free" => mem[q] = "free"
    BY <1>1
  <2>3. QED
    BY <1>1, <1>5, <2>1, <2>2, FewerOwned
<1>7. QED
  BY <1>5, <1>6 DEF Inv

LEMMA TransmuteStep ==
  ASSUME Inv, NEW t \in Threads, NEW a \in Arcs, NEW s \in Strategies, Transmute(t, a, s)
  PROVE  Inv'
<1> DEFINE b == <<a[1], s>>
<1>1. /\ TypeOK /\ FreeIsEmpty /\ CyclesNeedCells /\ held \in HeldBy
      /\ b \in Arcs /\ b # a /\ a[1] = b[1] /\ Program \in Holders /\ Program \notin Objs
      /\ Has(Program, a)
      /\ held' = [held EXCEPT ![Program][a] = @ - 1, ![Program][b] = @ + 1]
      /\ UNCHANGED <<mem, count, copying, stack, trash>>
      /\ \A f \in Holders, c \in Arcs : held[f][c] \in Nat
  <2>1. TypeOK /\ FreeIsEmpty /\ CyclesNeedCells
    BY DEF Inv
  <2>2. held \in HeldBy /\ \A f \in Holders, c \in Arcs : held[f][c] \in Nat
    BY <2>1 DEF TypeOK, HeldBy
  <2>3. Program \in Holders /\ Program \notin Objs
    BY DisposalAssumption DEF Holders
  <2>4. b \in Arcs /\ b # a /\ a[1] = b[1]
    BY DEF Arcs, Transmute
  <2>5. /\ Has(Program, a)
        /\ held' = [held EXCEPT ![Program][a] = @ - 1, ![Program][b] = @ + 1]
        /\ UNCHANGED <<mem, count, copying, stack, trash>>
    BY DEF Transmute
  <2>6. QED
    BY <2>1, <2>2, <2>3, <2>4, <2>5
<1> HIDE DEF b
<1>2. \A f \in Holders, c \in Arcs :
        /\ held'[f][c] = held[f][c] - (IF f = Program /\ c = a THEN 1 ELSE 0)
                                    + (IF f = Program /\ c = b THEN 1 ELSE 0)
        /\ Without(Program, a)[f][c] = held[f][c] - (IF f = Program /\ c = a THEN 1 ELSE 0)
  BY <1>1 DEF HeldBy, Without
<1>3. held[Program][a] - 1 \in Nat /\ held[Program][b] + 1 \in Nat
  BY <1>1 DEF Has
<1>4. held' \in HeldBy
  BY <1>1, <1>3 DEF HeldBy
<1>5. TypeOK' /\ Counted' /\ LiveIffCounted' /\ DisposedOnce'
  <2>1. \A f \in Holders, c \in Arcs :
          held'[f][c] = Without(Program, a)[f][c] + (IF f = Program /\ c = b THEN 1 ELSE 0)
    BY <1>2
  <2>2. Given(Program, a, Program, b)
    BY <2>1 DEF Given
  <2>3. QED
    BY <1>1, <1>4, <2>2, MoveStep
<1>6. CyclesNeedCells' /\ FreeIsEmpty'
  <2>1. \A q \in Objs, c \in Arcs : held'[q][c] <= held[q][c]
    <3>1. ASSUME NEW q \in Objs, NEW c \in Arcs
          PROVE  held'[q][c] <= held[q][c]
      <4>1. q \in Holders /\ q # Program
        BY <1>1 DEF Holders
      <4>2. held[q][c] \in Nat
        BY <1>1, <4>1
      <4>3. held'[q][c] = held[q][c] - 0 + 0
        BY <1>2, <4>1
      <4>4. QED
        BY <4>2, <4>3
    <3>2. QED
      BY <3>1
  <2>2. \A q \in Objs : mem'[q] = "free" => mem[q] = "free"
    BY <1>1
  <2>3. QED
    BY <1>1, <1>5, <2>1, <2>2, FewerOwned
<1>7. QED
  BY <1>5, <1>6 DEF Inv

\* Either the contents are a cell, or the Arc they are reached through is the
\* only one of its allocation, so that none of the others leads to it.
LEMMA PutInStep ==
  ASSUME Inv, NEW t \in Threads, NEW r \in Arcs, NEW a \in Arcs, PutIn(t, r, a)
  PROVE  Inv'
<1> DEFINE g == r[1]
<1>1. /\ TypeOK /\ FreeIsEmpty /\ CyclesNeedCells /\ held \in HeldBy
      /\ Counted /\ LiveIffCounted
      /\ g \in Objs /\ g \in Holders /\ Program \in Holders /\ Program \notin Objs
      /\ Has(Program, r) /\ (count[g] = 1 \/ g \in Cells)
      /\ held[Program][a] > (IF a = r THEN 1 ELSE 0)
      /\ held' = Moved(Program, g, a)
      /\ UNCHANGED <<mem, count, copying, stack, trash>>
      /\ \A f \in Holders, c \in Arcs : held[f][c] \in Nat
      /\ \A q \in Objs : q \in Holders
  <2>1. /\ TypeOK /\ FreeIsEmpty /\ CyclesNeedCells /\ Counted /\ LiveIffCounted
    BY DEF Inv
  <2>2. held \in HeldBy /\ \A f \in Holders, c \in Arcs : held[f][c] \in Nat
    BY <2>1 DEF TypeOK, HeldBy
  <2>3. /\ g \in Objs /\ g \in Holders /\ Program \in Holders
        /\ Program \notin Objs /\ \A q \in Objs : q \in Holders
    BY DisposalAssumption DEF Arcs, Holders
  <2>4. Has(Program, r) /\ (count[g] = 1 \/ g \in Cells)
    BY DEF PutIn, CanChange, Deref, GetMut, IsUnique
  <2>5. /\ held[Program][a] > (IF a = r THEN 1 ELSE 0)
        /\ held' = Moved(Program, g, a)
        /\ UNCHANGED <<mem, count, copying, stack, trash>>
    BY DEF PutIn
  <2>6. QED
    BY <2>1, <2>2, <2>3, <2>4, <2>5
<1>2. \A f \in Holders, c \in Arcs :
        /\ held'[f][c] = held[f][c] - (IF f = Program /\ c = a THEN 1 ELSE 0)
                                    + (IF f = g /\ c = a THEN 1 ELSE 0)
        /\ Without(Program, a)[f][c] = held[f][c] - (IF f = Program /\ c = a THEN 1 ELSE 0)
  BY <1>1 DEF HeldBy, Moved, Without
<1>3. Has(Program, a) /\ held[Program][a] - 1 \in Nat /\ held[g][a] + 1 \in Nat
  BY <1>1 DEF Has
<1>4. held' \in HeldBy
  BY <1>1, <1>3 DEF HeldBy, Moved
<1>5. TypeOK' /\ Counted' /\ LiveIffCounted' /\ DisposedOnce'
  <2>1. \A f \in Holders, c \in Arcs :
          held'[f][c] = Without(Program, a)[f][c] + (IF f = g /\ c = a THEN 1 ELSE 0)
    BY <1>2
  <2>2. Given(Program, a, g, a)
    BY <2>1 DEF Given
  <2>3. Has(Program, a) /\ g \in Holders /\ Program \in Holders
    BY <1>1, <1>3
  <2>4. UNCHANGED <<mem, count, copying, stack, trash>>
    BY <1>1
  <2>5. QED
    BY <1>4, <2>2, <2>3, <2>4, MoveStep
<1>6. count[g] = 1 => a[1] # g
  <2>1. CASE a = r
    <3>1. held[Program][a] >= 2
      BY <1>1, <2>1
    <3>2. QED
      BY <1>1, <2>1, <3>1, HeldIsCounted
  <2>2. CASE a # r
    BY <1>1, <1>3, <2>2, HeldIsCounted
  <2>3. QED
    BY <2>1, <2>2
<1>7. count[g] = 1 => \A q \in Objs, c \in Arcs : c[1] = g => ~Has(q, c)
  BY <1>1, HeldIsCounted
<1>8. \A q \in Objs, c \in Arcs :
        held'[q][c] = held[q][c] + (IF q = g /\ c = a THEN 1 ELSE 0)
  BY <1>1, <1>2
<1>9. CyclesNeedCells'
  <2>1. ASSUME count[g] = 1, NEW q \in Objs
        PROVE  ~Owns(q, g)'
    <3>1. ASSUME NEW s \in Strategies, Has(q, <<g, s>>)'
          PROVE  FALSE
      <4>1. <<g, s>> \in Arcs /\ <<g, s>> # a
        BY <1>1, <1>6, <2>1 DEF Arcs
      <4>2. held'[q][<<g, s>>] = held[q][<<g, s>>]
        BY <1>1, <1>8, <4>1
      <4>3. Has(q, <<g, s>>)
        BY <3>1, <4>2 DEF Has
      <4>4. QED
        BY <1>7, <2>1, <4>1, <4>3
    <3>2. QED
      BY <3>1 DEF Owns
  <2>2. ASSUME NEW q \in Objs \ {g}, NEW o \in Objs, Owns(q, o)'
        PROVE  Owns(q, o)
    <3>1. PICK s \in Strategies : Has(q, <<o, s>>)'
      BY <2>2 DEF Owns
    <3>2. <<o, s>> \in Arcs
      BY DEF Arcs
    <3>3. held'[q][<<o, s>>] = held[q][<<o, s>>]
      BY <1>1, <1>8, <3>2
    <3>4. QED
      BY <3>1, <3>3 DEF Owns, Has
  <2>3. CASE count[g] = 1
    BY <1>1, <2>1, <2>2, <2>3, NoCycleTied
  <2>4. CASE g \in Cells
    BY <1>1, <2>2, <2>4, NoCycleCut
  <2>5. QED
    BY <1>1, <2>3, <2>4
<1>10. FreeIsEmpty'
  <2>1. mem[g] = "live"
    BY <1>1, HeldIsCounted
  <2>2. ASSUME NEW q \in Objs, mem'[q] = "free", NEW c \in Arcs
        PROVE  ~Has(q, c)'
    <3>1. q # g /\ mem[q] = "free"
      BY <1>1, <2>1, <2>2
    <3>2. held'[q][c] = held[q][c]
      BY <1>1, <1>8, <3>1
    <3>3. QED
      BY <1>1, <3>1, <3>2 DEF FreeIsEmpty, Has
  <2>3. QED
    BY <2>2 DEF FreeIsEmpty
<1>11. QED
  BY <1>5, <1>9, <1>10 DEF Inv

LEMMA MakeMutStep ==
  ASSUME Inv, NEW t \in Threads, NEW r \in Arcs, MakeMut(t, r)
  PROVE  Inv'
<1>1. /\ TypeOK /\ Counted /\ LiveIffCounted /\ FreeIsEmpty /\ CyclesNeedCells /\ DisposedOnce
  BY DEF Inv
<1>2. /\ held \in HeldBy /\ copying \in Borrowed /\ count \in [Objs -> Nat]
      /\ r[1] \in Objs /\ Program \in Holders /\ Program \notin Objs
      /\ \A f \in Holders, c \in Arcs : held[f][c] \in Nat
  <2>1. r[1] \in Objs /\ Program \in Holders /\ Program \notin Objs
    BY DisposalAssumption DEF Arcs, Holders
  <2>2. held \in HeldBy /\ copying \in Borrowed /\ count \in [Objs -> Nat]
    BY <1>1 DEF TypeOK, HeldBy, Borrowed
  <2>3. QED
    BY <2>1, <2>2 DEF HeldBy
<1>3. /\ Has(Program, r) /\ copying[t] = None
      /\ copying' = [copying EXCEPT ![t] = r]
      /\ held' = Without(Program, r)
      /\ mem' = mem /\ count' = count /\ stack' = stack /\ trash' = trash
  BY DEF MakeMut, Idle
<1>4. /\ held' \in HeldBy
      /\ \A g \in Holders, b \in Arcs :
           held'[g][b] = held[g][b] - (IF g = Program /\ b = r THEN 1 ELSE 0)
      /\ \A p \in Objs : /\ Tally(held', copying, p, IF p = r[1] THEN count[p] - 1 ELSE count[p])
                         /\ p = r[1] => count[p] - 1 \in Nat
  BY <1>1, <1>2, <1>3, FewerHeld
<1>5. /\ copying' \in Borrowed /\ copying'[t] = r
      /\ \A u \in Threads \ {t} : copying'[u] = copying[u]
  BY <1>2, <1>3 DEF Borrowed
<1>6. \A p \in Objs, n \in Nat :
        Tally(held', copying, p, n) <=> Tally(held', copying', p, IF p = r[1] THEN n + 1 ELSE n)
  <2>1. PICK G \in HeldBy : G = held'
    BY <1>4
  <2>2. PICK K \in Borrowed : K = copying
    BY <1>2
  <2>3. PICK L \in Borrowed : L = copying'
    BY <1>5
  <2>4. K[t] = None /\ L[t] = r /\ \A u \in Threads \ {t} : L[u] = K[u]
    BY <1>3, <1>5, <2>2, <2>3
  <2>5. \A p \in Objs, n \in Nat :
          Tally(G, K, p, n) <=> Tally(G, L, p, IF p = r[1] THEN n + 1 ELSE n)
    BY <2>4, LendAny
  <2>6. QED
    BY <2>1, <2>2, <2>3, <2>5
<1>7. Counted'
  <2> SUFFICES ASSUME NEW p \in Objs
               PROVE  Tally(held', copying', p, count'[p])
    BY DEF Counted
  <2>1. count[p] \in Nat /\ count'[p] = count[p]
    BY <1>2, <1>3
  <2>2. CASE p = r[1]
    <3>1. count[p] - 1 \in Nat /\ Tally(held', copying, p, count[p] - 1)
      BY <1>4, <2>2
    <3>2. Tally(held', copying', p, (count[p] - 1) + 1)
      BY <1>6, <2>2, <3>1
    <3>3. QED
      BY <2>1, <3>2
  <2>3. CASE p # r[1]
    <3>1. Tally(held', copying, p, count[p])
      BY <1>4, <2>3
    <3>2. QED
      BY <1>6, <2>1, <2>3, <3>1
  <2>4. QED
    BY <2>2, <2>3
<1>8. TypeOK'
  BY <1>1, <1>3, <1>4, <1>5 DEF TypeOK, HeldBy, Borrowed
<1>9. LiveIffCounted' /\ DisposedOnce'
  BY <1>1, <1>3 DEF LiveIffCounted, DisposedOnce
<1>10. CyclesNeedCells' /\ FreeIsEmpty'
  <2>1. ASSUME NEW q \in Objs, NEW c \in Arcs
        PROVE  held'[q][c] <= held[q][c]
    <3>1. q \in Holders /\ q # Program
      BY <1>2 DEF Holders
    <3>2. held[q][c] \in Nat
      BY <1>2, <3>1
    <3>3. held'[q][c] = held[q][c] - 0
      BY <1>4, <3>1
    <3>4. QED
      BY <3>2, <3>3
  <2>2. \A q \in Objs : mem'[q] = "free" => mem[q] = "free"
    BY <1>3
  <2>3. QED
    BY <1>1, <1>8, <2>1, <2>2, FewerOwned
<1>11. QED
  BY <1>7, <1>8, <1>9, <1>10 DEF Inv

LEMMA CopyPanicsStep ==
  ASSUME Inv, NEW t \in Threads, CopyPanics(t)
  PROVE  Inv'
<1>1. /\ TypeOK /\ Counted /\ LiveIffCounted /\ FreeIsEmpty /\ CyclesNeedCells /\ DisposedOnce
  BY DEF Inv
<1>2. /\ held \in HeldBy /\ copying \in Borrowed /\ count \in [Objs -> Nat]
  BY <1>1 DEF TypeOK, HeldBy, Borrowed
<1>3. /\ copying[t] # None
      /\ copying' = [copying EXCEPT ![t] = None]
      /\ held' = [held EXCEPT ![Program][copying[t]] = @ + 1]
      /\ mem' = mem /\ count' = count /\ stack' = stack /\ trash' = trash
  BY DEF CopyPanics
<1>4. PICK r \in Arcs : r = copying[t]
  BY <1>2, <1>3 DEF Borrowed
<1>5. r[1] \in Objs /\ count[r[1]] >= 1
  BY <1>1, <1>3, <1>4, HeldIsCounted DEF Arcs
<1>6. /\ copying' \in Borrowed /\ copying'[t] = None
      /\ \A u \in Threads \ {t} : copying'[u] = copying[u]
  BY <1>2, <1>3 DEF Borrowed
<1>7. /\ held' \in HeldBy
      /\ \A q \in Objs, c \in Arcs : held'[q][c] = held[q][c] /\ held[q][c] \in Nat
      /\ \A p \in Objs, n \in Nat :
           Tally(held, copying', p, n) <=> Tally(held', copying', p, IF p = r[1] THEN n + 1 ELSE n)
  <2>1. held' = [held EXCEPT ![Program][r] = @ + 1]
    BY <1>3, <1>4
  <2>2. PICK L \in Borrowed : L = copying'
    BY <1>6
  <2>3. /\ held' \in HeldBy
        /\ \A q \in Objs, c \in Arcs : held'[q][c] = held[q][c] /\ held[q][c] \in Nat
        /\ \A p \in Objs, n \in Nat :
             Tally(held, L, p, n) <=> Tally(held', L, p, IF p = r[1] THEN n + 1 ELSE n)
    BY <1>1, <2>1, Gained
  <2>4. QED
    BY <2>2, <2>3
<1>8. \A p \in Objs, n \in Nat :
        Tally(held, copying', p, n) <=> Tally(held, copying, p, IF p = r[1] THEN n + 1 ELSE n)
  <2>1. PICK G \in HeldBy : G = held
    BY <1>2
  <2>2. PICK K \in Borrowed : K = copying'
    BY <1>6
  <2>3. PICK L \in Borrowed : L = copying
    BY <1>2
  <2>4. K[t] = None /\ L[t] = r /\ \A u \in Threads \ {t} : L[u] = K[u]
    BY <1>4, <1>6, <2>2, <2>3
  <2>5. \A p \in Objs, n \in Nat :
          Tally(G, K, p, n) <=> Tally(G, L, p, IF p = r[1] THEN n + 1 ELSE n)
    BY <2>4, LendAny
  <2>6. QED
    BY <2>1, <2>2, <2>3, <2>5
<1>9. Counted'
  <2> SUFFICES ASSUME NEW p \in Objs
               PROVE  Tally(held', copying', p, count'[p])
    BY DEF Counted
  <2>1. count[p] \in Nat /\ count'[p] = count[p] /\ Tally(held, copying, p, count[p])
    BY <1>1, <1>2, <1>3 DEF Counted
  <2>2. CASE p = r[1]
    <3>1. count[p] - 1 \in Nat /\ (count[p] - 1) + 1 = count[p]
      BY <1>5, <2>1, <2>2
    <3>2. Tally(held, copying', p, count[p] - 1)
            <=> Tally(held, copying, p, (count[p] - 1) + 1)
      BY <1>8, <2>2, <3>1
    <3>3. Tally(held', copying', p, (count[p] - 1) + 1)
      BY <1>7, <2>1, <2>2, <3>1, <3>2
    <3>4. QED
      BY <2>1, <3>1, <3>3
  <2>3. CASE p # r[1]
    BY <1>7, <1>8, <2>1, <2>3
  <2>4. QED
    BY <2>2, <2>3
<1>10. TypeOK'
  BY <1>1, <1>3, <1>6, <1>7 DEF TypeOK, HeldBy, Borrowed
<1>11. LiveIffCounted' /\ DisposedOnce'
  BY <1>1, <1>3 DEF LiveIffCounted, DisposedOnce
<1>12. CyclesNeedCells' /\ FreeIsEmpty'
  <2>1. \A q \in Objs, c \in Arcs : held'[q][c] <= held[q][c]
    BY <1>7
  <2>2. \A q \in Objs : mem'[q] = "free" => mem[q] = "free"
    BY <1>3
  <2>3. QED
    BY <1>1, <1>10, <2>1, <2>2, FewerOwned
<1>13. QED
  BY <1>9, <1>10, <1>11, <1>12 DEF Inv

LEMMA ReceiveStep ==
  ASSUME Inv, NEW w \in Workers, Receive(w)
  PROVE  Inv'
<1>1. /\ TypeOK /\ Counted /\ LiveIffCounted /\ FreeIsEmpty /\ CyclesNeedCells /\ DisposedOnce
  BY DEF Inv
<1>2. /\ trash \in Seq(Objs) /\ trash # <<>> /\ w \in Runners
      /\ stack \in [Runners -> Seq(Objs)]
      /\ mem \in [Objs -> {"free", "live", "boxed", "dying"}]
  BY <1>1 DEF TypeOK, Receive, Runners
<1>3. PICK o \in Objs : o = Head(trash)
  BY <1>2, SeqFacts
<1>4. /\ stack' = [stack EXCEPT ![w] = <<o>>] /\ trash' = Tail(trash)
      /\ mem' = [mem EXCEPT ![o] = "dying"]
      /\ count' = count /\ held' = held /\ copying' = copying
  BY <1>3 DEF Receive
<1>5. mem[o] = "boxed"
  <2>1. 1 \in DOMAIN trash /\ trash[1] = o
    BY <1>2, <1>3, SeqFacts
  <2>2. QED
    BY <1>1, <2>1 DEF DisposedOnce
<1>6. \A p \in Objs : mem'[p] = IF p = o THEN "dying" ELSE mem[p]
  BY <1>2, <1>4
<1>7. TypeOK'
  <2>1. trash' \in Seq(Objs) /\ <<o>> \in Seq(Objs)
    BY <1>2, <1>3, <1>4, SeqFacts
  <2>2. stack' \in [Runners -> Seq(Objs)]
    BY <1>2, <1>4, <2>1
  <2>3. mem' \in [Objs -> {"free", "live", "boxed", "dying"}]
    BY <1>2, <1>4
  <2>4. QED
    BY <1>1, <1>4, <2>1, <2>2, <2>3 DEF TypeOK
<1>8. Counted'
  BY <1>1, <1>4 DEF Counted
<1>9. LiveIffCounted'
  BY <1>1, <1>4, <1>5, <1>6 DEF LiveIffCounted
<1>10. CyclesNeedCells' /\ FreeIsEmpty'
  <2>1. \A q \in Objs, c \in Arcs : held'[q][c] <= held[q][c]
    BY <1>1, <1>4 DEF TypeOK, Holders
  <2>2. \A q \in Objs : mem'[q] = "free" => mem[q] = "free"
    BY <1>6
  <2>3. QED
    BY <1>1, <1>7, <2>1, <2>2, FewerOwned
<1>11. DisposedOnce'
  BY <1>1, DisposedReceive
<1>12. QED
  BY <1>7, <1>8, <1>9, <1>10, <1>11 DEF Inv

LEMMA DeallocateStep ==
  ASSUME Inv, NEW x \in Runners, Deallocate(x)
  PROVE  Inv'
<1>1. /\ TypeOK /\ Counted /\ LiveIffCounted /\ FreeIsEmpty /\ CyclesNeedCells /\ DisposedOnce
  BY DEF Inv
<1>2. /\ stack \in [Runners -> Seq(Objs)] /\ stack[x] \in Seq(Objs) /\ stack[x] # <<>>
      /\ mem \in [Objs -> {"free", "live", "boxed", "dying"}]
  BY <1>1 DEF TypeOK, Deallocate
<1>3. PICK o \in Objs : o = Head(stack[x])
  BY <1>2, SeqFacts
<1>4. /\ stack' = [stack EXCEPT ![x] = Tail(@)] /\ trash' = trash
      /\ mem' = [mem EXCEPT ![o] = "free"]
      /\ count' = count /\ held' = held /\ copying' = copying
      /\ \A a \in Arcs : ~Has(o, a)
  BY <1>3 DEF Deallocate
<1>5. mem[o] = "dying"
  <2>1. 1 \in DOMAIN stack[x] /\ stack[x][1] = o
    BY <1>2, <1>3, SeqFacts
  <2>2. QED
    BY <1>1, <2>1 DEF DisposedOnce
<1>6. \A p \in Objs : mem'[p] = IF p = o THEN "free" ELSE mem[p]
  BY <1>2, <1>4
<1>7. TypeOK'
  <2>1. Tail(stack[x]) \in Seq(Objs)
    BY <1>2, SeqFacts
  <2>2. stack' \in [Runners -> Seq(Objs)]
    BY <1>2, <1>4, <2>1
  <2>3. mem' \in [Objs -> {"free", "live", "boxed", "dying"}]
    BY <1>2, <1>4
  <2>4. QED
    BY <1>1, <1>4, <2>2, <2>3 DEF TypeOK
<1>8. Counted'
  BY <1>1, <1>4 DEF Counted
<1>9. LiveIffCounted'
  BY <1>1, <1>4, <1>5, <1>6 DEF LiveIffCounted
<1>10. CyclesNeedCells' /\ FreeIsEmpty'
  <2>1. ASSUME NEW q \in Objs, NEW c \in Arcs
        PROVE  /\ held'[q][c] <= held[q][c]
               /\ held'[q][c] = held[q][c] /\ held[q][c] \in Nat
    BY <1>1, <1>4 DEF TypeOK, Holders
  <2>2. ASSUME NEW q \in Objs, mem'[q] = "free"
        PROVE  mem[q] = "free" \/ (\A b \in Arcs : held'[q][b] = 0)
    BY <1>4, <1>6, <2>1, <2>2 DEF Has
  <2>3. QED
    BY <1>1, <1>7, <2>1, <2>2, FewerOwned
<1>11. DisposedOnce'
  BY <1>1, DisposedDeallocate
<1>12. QED
  BY <1>7, <1>8, <1>9, <1>10, <1>11 DEF Inv

\* The contents of the only Arc of o move to the program.
LEMMA UnwrapStep ==
  ASSUME Inv, NEW t \in Threads, NEW r \in Arcs, Unwrap(t, r)
  PROVE  Inv'
<1>1. TypeOK /\ Counted /\ LiveIffCounted /\ FreeIsEmpty /\ CyclesNeedCells /\ DisposedOnce
  BY DEF Inv
<1>2. /\ held \in HeldBy /\ copying \in Borrowed /\ count \in [Objs -> Nat]
      /\ mem \in [Objs -> {"free", "live", "boxed", "dying"}]
      /\ \A f \in Holders, c \in Arcs : held[f][c] \in Nat
  BY <1>1 DEF TypeOK, HeldBy, Borrowed
<1>3. PICK o \in Objs : o = r[1] /\ r = <<o, r[2]>> /\ r[2] \in Strategies
  BY DEF Arcs
<1>4. /\ Has(Program, r) /\ count[o] = 1
      /\ mem' = [mem EXCEPT ![o] = "free"] /\ count' = [count EXCEPT ![o] = 0]
      /\ held' = [held EXCEPT ![o] = [a \in Arcs |-> 0],
                              ![Program] = [a \in Arcs |-> @[a] + held[o][a]
                                                          - (IF a = r THEN 1 ELSE 0)]]
      /\ copying' = copying /\ stack' = stack /\ trash' = trash
  BY <1>3 DEF Unwrap, GetMut, IsUnique
<1>5. /\ o \in Holders /\ Program \in Holders /\ o # Program
      /\ \A q \in Objs : q \in Holders /\ q # Program
      /\ \A q \in Objs, z \in Strategies : <<q, z>> \in Arcs
  BY DisposalAssumption DEF Holders, Arcs
<1>6. /\ \A c \in Arcs : held'[o][c] = 0
      /\ \A c \in Arcs :
           held'[Program][c] = held[Program][c] + held[o][c] - (IF c = r THEN 1 ELSE 0)
      /\ \A g \in Holders \ {o, Program} : held'[g] = held[g]
  BY <1>2, <1>4, <1>5 DEF HeldBy
<1>7. held' \in HeldBy
  <2>1. held[Program][r] >= 1
    BY <1>2, <1>4, <1>5 DEF Has
  <2>2. \A c \in Arcs :
          held[Program][c] + held[o][c] - (IF c = r THEN 1 ELSE 0) \in Nat
    BY <1>2, <1>5, <2>1
  <2>3. QED
    BY <1>2, <1>4, <2>2 DEF HeldBy
<1>8. /\ mem[o] = "live"
      /\ \A q \in Objs, z \in Strategies : held[q][<<o, z>>] = 0
  <2>1. mem[o] = "live"
    BY <1>1, <1>3, <1>4, <1>5, HeldIsCounted
  <2>2. ASSUME NEW q \in Objs, NEW z \in Strategies
        PROVE  held[q][<<o, z>>] = 0
    <3>1. ~Has(q, <<o, z>>)
      <4> SUFFICES ASSUME Has(q, <<o, z>>)
                   PROVE  FALSE
        OBVIOUS
      <4>1. PICK b \in Arcs : b = <<o, z>>
        BY <1>5
      <4>2. Has(q, b) /\ b[1] = r[1]
        BY <1>3, <4>1
      <4>3. count[r[1]] >= 2
        BY <1>1, <1>4, <1>5, <4>2, HeldIsCounted
      <4>4. QED
        BY <1>3, <1>4, <4>3
    <3>2. held[q][<<o, z>>] \in Nat
      BY <1>2, <1>5
    <3>3. QED
      BY <3>1, <3>2 DEF Has
  <2>3. QED
    BY <2>1, <2>2
<1>9. PICK H \in HeldBy : H = held
  BY <1>2
<1>10. PICK G \in HeldBy : G = held'
  BY <1>7
<1>11. PICK K \in Borrowed : K = copying
  BY <1>2
<1>12. Tally(G, K, o, 0)
  <2>1. Tally(H, K, o, 1)
    BY <1>1, <1>4, <1>9, <1>11 DEF Counted
  <2>2. H[Program][<<o, r[2]>>] = G[Program][<<o, r[2]>>] + 1
    <3>1. held'[Program][r] = held[Program][r] + 0 - 1 /\ held[Program][r] \in Nat
      BY <1>2, <1>3, <1>5, <1>6, <1>8
    <3>2. QED
      BY <1>3, <1>9, <1>10, <3>1
  <2>3. ASSUME NEW g \in Holders, NEW z \in Strategies, g # Program \/ z # r[2]
        PROVE  H[g][<<o, z>>] = G[g][<<o, z>>]
    <3>1. CASE g = o
      BY <1>5, <1>6, <1>8, <1>9, <1>10, <3>1
    <3>2. CASE g = Program
      <4>1. <<o, z>> # r
        BY <1>3, <2>3, <3>2
      <4>2. held'[Program][<<o, z>>] = held[Program][<<o, z>>] + 0 - 0
        BY <1>5, <1>6, <1>8, <4>1
      <4>3. held[Program][<<o, z>>] \in Nat
        BY <1>2, <1>5
      <4>4. QED
        BY <1>9, <1>10, <3>2, <4>2, <4>3
    <3>3. CASE g \notin {o, Program}
      BY <1>6, <1>9, <1>10, <3>3
    <3>4. QED
      BY <3>1, <3>2, <3>3
  <2>4. PICK h \in Holders : h = Program
    BY <1>5
  <2>5. PICK s \in Strategies : s = r[2]
    BY <1>3
  <2>6. H[h][<<o, s>>] = G[h][<<o, s>>] + 1
    BY <2>2, <2>4, <2>5
  <2>7. \A g \in Holders, z \in Strategies :
          g # h \/ z # s => H[g][<<o, z>>] = G[g][<<o, z>>]
    BY <2>3, <2>4, <2>5
  <2>8. Tally(G, K, o, 0) <=> Tally(H, K, o, 0 + 1)
    BY <2>6, <2>7, Grow
  <2>9. QED
    BY <2>1, <2>8
<1>13. ASSUME NEW p \in Objs, p # o
       PROVE  Tally(G, K, p, count[p])
  <2> DEFINE k == H[o][<<p, "now">>]
             l == H[o][<<p, "later">>]
             F == [f \in Holders |-> [c \in Arcs |->
                     IF f = Program THEN H[f][c] + H[o][c] ELSE H[f][c]]]
  <2>1. /\ \A f \in Holders, c \in Arcs : H[f][c] \in Nat
        /\ <<p, "now">> \in Arcs /\ <<p, "later">> \in Arcs
        /\ k \in Nat /\ l \in Nat
    BY <1>2, <1>5, <1>9 DEF Strategies
  <2>2. F \in HeldBy
    BY <1>5, <2>1 DEF HeldBy
  <2>3. \A f \in Holders, c \in Arcs :
          F[f][c] = IF f = Program THEN H[f][c] + H[o][c] ELSE H[f][c]
    OBVIOUS
  <2> HIDE DEF F, k, l
  <2>4. PICK h \in Holders : h = Program
    BY <1>5
  <2>5. Tally(H, K, p, count[p]) /\ count[p] \in Nat
    BY <1>1, <1>2, <1>9, <1>11 DEF Counted
  <2>6. PICK n \in Nat : n = count[p]
    BY <2>5
  <2>7. Tally(H, K, p, n) <=> Tally(F, K, p, n + k + l)
    <3>1. /\ F[h][<<p, "now">>] = H[h][<<p, "now">>] + k
          /\ F[h][<<p, "later">>] = H[h][<<p, "later">>] + l
      BY <2>1, <2>3, <2>4 DEF k, l
    <3>2. \A g \in Holders \ {h}, z \in Strategies : F[g][<<p, z>>] = H[g][<<p, z>>]
      BY <1>5, <2>3, <2>4
    <3>3. QED
      BY <2>1, <2>2, <3>1, <3>2, GrowRow
  <2>8. Tally(G, K, p, n) <=> Tally(F, K, p, n + k + l)
    <3>1. F[o][<<p, "now">>] = G[o][<<p, "now">>] + k
      <4>1. G[o][<<p, "now">>] = 0 /\ F[o][<<p, "now">>] = k
        BY <1>5, <1>6, <1>10, <2>1, <2>3 DEF k
      <4>2. QED
        BY <2>1, <4>1
    <3>2. F[o][<<p, "later">>] = G[o][<<p, "later">>] + l
      <4>1. G[o][<<p, "later">>] = 0 /\ F[o][<<p, "later">>] = l
        BY <1>5, <1>6, <1>10, <2>1, <2>3 DEF l
      <4>2. QED
        BY <2>1, <4>1
    <3>3. ASSUME NEW g \in Holders \ {o}, NEW z \in Strategies
          PROVE  F[g][<<p, z>>] = G[g][<<p, z>>]
      <4>1. <<p, z>> \in Arcs /\ <<p, z>> # r
        BY <1>3, <1>5, <1>13
      <4>2. CASE g = Program
        <5>1. G[g][<<p, z>>] = H[g][<<p, z>>] + H[o][<<p, z>>] - 0
          BY <1>6, <1>9, <1>10, <4>1, <4>2
        <5>2. H[g][<<p, z>>] \in Nat /\ H[o][<<p, z>>] \in Nat
          BY <1>5, <2>1, <4>1
        <5>3. QED
          BY <2>3, <4>1, <4>2, <5>1, <5>2
      <4>3. CASE g # Program
        BY <1>6, <1>9, <1>10, <2>3, <4>1, <4>3
      <4>4. QED
        BY <4>2, <4>3
    <3>4. QED
      BY <1>5, <2>1, <2>2, <3>1, <3>2, <3>3, GrowRow
  <2>9. QED
    BY <2>5, <2>6, <2>7, <2>8
<1>14. \A p \in Objs : /\ mem'[p] = IF p = o THEN "free" ELSE mem[p]
                       /\ count'[p] = IF p = o THEN 0 ELSE count[p]
  BY <1>2, <1>4
<1>15. Counted'
  BY <1>4, <1>10, <1>11, <1>12, <1>13, <1>14 DEF Counted
<1>16. LiveIffCounted'
  BY <1>1, <1>14 DEF LiveIffCounted
<1>17. TypeOK'
  BY <1>1, <1>2, <1>4, <1>7 DEF TypeOK, HeldBy
<1>18. CyclesNeedCells' /\ FreeIsEmpty'
  <2>1. ASSUME NEW q \in Objs, NEW c \in Arcs
        PROVE  held'[q][c] <= held[q][c]
    <3>1. held[q][c] \in Nat
      BY <1>2, <1>5
    <3>2. QED
      BY <1>5, <1>6, <3>1
  <2>2. \A q \in Objs : mem'[q] = "free" =>
          mem[q] = "free" \/ (\A b \in Arcs : held'[q][b] = 0)
    BY <1>6, <1>14
  <2>3. QED
    BY <1>1, <1>17, <2>1, <2>2, FewerOwned
<1>19. DisposedOnce'
  <2>1. OthersKept(o) /\ mem'[o] = "free"
    BY <1>14 DEF OthersKept
  <2>2. QED
    BY <1>1, <1>4, <1>8, <2>1, DisposedKept
<1>20. QED
  BY <1>15, <1>16, <1>17, <1>18, <1>19 DEF Inv

\* The copy p of the contents of r holds an Arc for each of theirs.  Nothing
\* led to p, which was free.
LEMMA ReplaceStep ==
  ASSUME Inv, NEW t \in Threads, NEW p \in Objs, Replace(t, p)
  PROVE  Inv'
<1>1. TypeOK /\ Counted /\ LiveIffCounted /\ FreeIsEmpty /\ CyclesNeedCells /\ DisposedOnce
  BY DEF Inv
<1>2. /\ held \in HeldBy /\ copying \in Borrowed /\ count \in [Objs -> Nat]
      /\ mem \in [Objs -> {"free", "live", "boxed", "dying"}]
      /\ \A f \in Holders, c \in Arcs : held[f][c] \in Nat
  BY <1>1 DEF TypeOK, HeldBy, Borrowed
<1>3. /\ copying[t] # None /\ mem[p] = "free" /\ t \in Runners
      /\ copying' = [copying EXCEPT ![t] = None]
  BY DEF Replace, Runners
<1>4. PICK r \in Arcs : r = copying[t]
  BY <1>2, <1>3 DEF Borrowed
<1>5. PICK o \in Objs : o = r[1] /\ r = <<o, r[2]>> /\ r[2] \in Strategies
  BY DEF Arcs
<1> DEFINE C == [q \in Objs |-> IF q = p THEN 1 ELSE
                   count[q] + held[o][<<q, "now">>] + held[o][<<q, "later">>]]
           F == [held EXCEPT ![p] = held[o], ![Program][<<p, r[2]>>] = @ + 1]
<1>6. /\ Release(t, r, F, C)
      /\ mem' = [mem EXCEPT ![p] = "live", ![o] = MemAfter(r, C)]
  BY <1>4, <1>5 DEF Replace
<1>7. /\ o \in Holders /\ p \in Holders /\ Program \in Holders /\ p # Program
      /\ \A q \in Objs : q \in Holders /\ q # Program
      /\ \A q \in Objs, z \in Strategies : <<q, z>> \in Arcs
      /\ Strategies = {"now", "later"}
  BY DisposalAssumption DEF Holders, Arcs, Strategies
<1>8. mem[o] = "live" /\ count[o] >= 1 /\ o # p
  BY <1>1, <1>3, <1>4, <1>5, HeldIsCounted
<1>9. count[p] = 0
  BY <1>1, <1>2, <1>3 DEF LiveIffCounted
<1>10. \A q \in Holders, z \in Strategies : held[q][<<p, z>>] = 0
  <2>1. ASSUME NEW q \in Holders, NEW b \in Arcs, b[1] = p
        PROVE  held[q][b] = 0
    <3>1. ~Has(q, b)
      BY <1>1, <1>3, <2>1, HeldIsCounted
    <3>2. QED
      BY <1>2, <3>1 DEF Has
  <2>2. ASSUME NEW q \in Holders, NEW z \in Strategies
        PROVE  held[q][<<p, z>>] = 0
    <3>1. PICK b \in Arcs : b = <<p, z>>
      BY <1>7
    <3>2. QED
      BY <2>1, <3>1
  <2>3. QED
    BY <2>2
<1>11. \A c \in Arcs : held[p][c] = 0
  BY <1>1, <1>2, <1>3, <1>7 DEF FreeIsEmpty, Has
<1>12. C \in [Objs -> Nat]
  BY <1>2, <1>7
<1>13. /\ C[p] = 1
       /\ \A q \in Objs \ {p} :
            C[q] = count[q] + held[o][<<q, "now">>] + held[o][<<q, "later">>]
  OBVIOUS
<1>14. F \in HeldBy
  <2>1. held[o] \in [Arcs -> Nat]
    BY <1>2, <1>7 DEF HeldBy
  <2>2. PICK b \in Arcs : b = <<p, r[2]>>
    BY <1>5, <1>7
  <2>3. F = [held EXCEPT ![p] = held[o], ![Program][b] = @ + 1]
    BY <2>2
  <2>4. held[Program][b] + 1 \in Nat
    BY <1>2, <1>7
  <2>5. [held EXCEPT ![p] = held[o], ![Program][b] = @ + 1] \in HeldBy
    BY <1>2, <1>7, <2>1, <2>4 DEF HeldBy
  <2>6. QED
    BY <2>3, <2>5
<1>15. \A g \in Holders, c \in Arcs :
         F[g][c] = IF g = p THEN held[o][c]
                   ELSE IF g = Program /\ c = <<p, r[2]>> THEN held[g][c] + 1
                   ELSE held[g][c]
  BY <1>2, <1>5, <1>7 DEF HeldBy
<1>16. held' = F
  BY <1>6 DEF Release
<1> HIDE DEF C, F
<1>17. /\ copying' \in Borrowed /\ copying'[t] = None
       /\ \A u \in Threads \ {t} : copying'[u] = copying[u]
  BY <1>2, <1>3 DEF Borrowed
<1>18. PICK H \in HeldBy : H = held
  BY <1>2
<1>19. PICK K \in Borrowed : K = copying
  BY <1>2
<1>20. PICK L \in Borrowed : L = copying'
  BY <1>17
<1>21. Tally(F, K, p, C[p])
  <2>1. Tally(H, K, p, 0)
    BY <1>1, <1>9, <1>18, <1>19 DEF Counted
  <2>2. PICK h \in Holders : h = Program
    BY <1>7
  <2>3. PICK s \in Strategies : s = r[2]
    BY <1>5
  <2>4. F[h][<<p, s>>] = H[h][<<p, s>>] + 1
    BY <1>7, <1>15, <1>18, <2>2, <2>3
  <2>5. ASSUME NEW g \in Holders, NEW z \in Strategies, g # h \/ z # s
        PROVE  F[g][<<p, z>>] = H[g][<<p, z>>]
    <3>1. CASE g = p
      BY <1>7, <1>10, <1>15, <1>18, <3>1
    <3>2. CASE g # p
      BY <1>7, <1>15, <1>18, <2>2, <2>3, <2>5, <3>2
    <3>3. QED
      BY <3>1, <3>2
  <2>6. Tally(H, K, p, 0) <=> Tally(F, K, p, 0 + 1)
    BY <1>14, <2>4, <2>5, Grow
  <2>7. QED
    BY <1>13, <2>1, <2>6
<1>22. ASSUME NEW q \in Objs, q # p
       PROVE  Tally(F, K, q, C[q])
  <2>1. PICK k \in Nat : k = held[o][<<q, "now">>]
    BY <1>2, <1>7
  <2>2. PICK l \in Nat : l = held[o][<<q, "later">>]
    BY <1>2, <1>7
  <2>3. PICK n \in Nat : n = count[q] /\ Tally(H, K, q, n)
    BY <1>1, <1>2, <1>18, <1>19 DEF Counted
  <2>4. F[p][<<q, "now">>] = H[p][<<q, "now">>] + k
    <3>1. PICK b \in Arcs : b = <<q, "now">>
      BY <1>7
    <3>2. F[p][b] = k /\ H[p][b] = 0
      BY <1>7, <1>11, <1>15, <1>18, <2>1, <3>1
    <3>3. QED
      BY <3>1, <3>2
  <2>5. F[p][<<q, "later">>] = H[p][<<q, "later">>] + l
    <3>1. PICK b \in Arcs : b = <<q, "later">>
      BY <1>7
    <3>2. F[p][b] = l /\ H[p][b] = 0
      BY <1>7, <1>11, <1>15, <1>18, <2>2, <3>1
    <3>3. QED
      BY <3>1, <3>2
  <2>6. \A g \in Holders \ {p}, z \in Strategies : F[g][<<q, z>>] = H[g][<<q, z>>]
    BY <1>7, <1>15, <1>18, <1>22
  <2>7. Tally(H, K, q, n) <=> Tally(F, K, q, n + k + l)
    <3>1. p \in Holders /\ F \in HeldBy
      BY <1>7, <1>14
    <3>2. QED
      BY <2>4, <2>5, <2>6, <3>1, GrowRow
  <2>8. C[q] = n + k + l
    BY <1>13, <1>22, <2>1, <2>2, <2>3
  <2>9. QED
    BY <2>3, <2>7, <2>8
<1>23. \A q \in Objs, n \in Nat :
         Tally(F, L, q, n) <=> Tally(F, K, q, IF q = r[1] THEN n + 1 ELSE n)
  <2>1. L[t] = None /\ K[t] = r /\ \A u \in Threads \ {t} : K[u] = L[u]
    BY <1>4, <1>17, <1>19, <1>20
  <2>2. QED
    BY <1>14, <2>1, LendAny
<1>24. C[o] - 1 \in Nat /\ Tally(F, L, o, C[o] - 1)
  <2>1. PICK k \in Nat : k = held[o][<<o, "now">>]
    BY <1>2, <1>7
  <2>2. PICK l \in Nat : l = held[o][<<o, "later">>]
    BY <1>2, <1>7
  <2>3. C[o] = count[o] + k + l
    BY <1>8, <1>13, <2>1, <2>2
  <2>4. C[o] \in Nat /\ C[o] - 1 \in Nat /\ (C[o] - 1) + 1 = C[o]
    BY <1>2, <1>8, <2>3
  <2>5. Tally(F, L, o, C[o] - 1) <=> Tally(F, K, o, (C[o] - 1) + 1)
    BY <1>5, <1>23, <2>4
  <2>6. QED
    BY <1>8, <1>22, <2>4, <2>5
<1>25. \A q \in Objs \ {o} : Tally(F, L, q, C[q])
  BY <1>5, <1>12, <1>21, <1>22, <1>23
<1>26. MemAfter(r, C) \in {"live", "boxed", "dying"}
  BY <1>5, <1>8 DEF MemAfter
<1>27. /\ mem' \in [Objs -> {"free", "live", "boxed", "dying"}]
       /\ mem'[o] = MemAfter(r, C) /\ mem'[p] = "live"
       /\ \A q \in Objs \ {o, p} : mem'[q] = mem[q]
  BY <1>2, <1>6, <1>8, <1>26
<1>28. OthersKept(o)
  BY <1>3, <1>27 DEF OthersKept
<1>29. ASSUME NEW q \in Objs \ {o}
       PROVE  mem'[q] = "live" <=> C[q] > 0
  <2>1. CASE q = p
    BY <1>13, <1>27, <2>1
  <2>2. CASE q # p
    <3>1. PICK k \in Nat : k = held[o][<<q, "now">>]
      BY <1>2, <1>7
    <3>2. PICK l \in Nat : l = held[o][<<q, "later">>]
      BY <1>2, <1>7
    <3>3. C[q] = count[q] + k + l /\ count[q] \in Nat
      BY <1>2, <1>13, <2>2, <3>1, <3>2
    <3>4. k > 0 \/ l > 0 => count[q] >= 1
      <4>1. PICK a \in Arcs : a = <<q, "now">>
        BY <1>7
      <4>2. PICK b \in Arcs : b = <<q, "later">>
        BY <1>7
      <4>3. /\ k > 0 => Has(o, a)
            /\ l > 0 => Has(o, b)
        BY <3>1, <3>2, <4>1, <4>2 DEF Has
      <4>4. a[1] = q /\ b[1] = q
        BY <4>1, <4>2
      <4>5. QED
        BY <1>1, <1>7, <4>3, <4>4, HeldIsCounted
    <3>5. mem'[q] = mem[q]
      BY <1>27, <2>2
    <3>6. mem[q] = "live" <=> count[q] > 0
      BY <1>1 DEF LiveIffCounted
    <3>7. QED
      BY <3>3, <3>4, <3>5, <3>6
  <2>3. QED
    BY <2>1, <2>2
<1>30. TypeOK' /\ Counted' /\ LiveIffCounted' /\ DisposedOnce' /\ mem'[o] # "free"
  <2>1. Tally(F, copying', r[1], C[r[1]] - 1) /\ C[r[1]] - 1 \in Nat
    BY <1>5, <1>20, <1>24
  <2>2. \A q \in Objs \ {r[1]} :
          Tally(F, copying', q, C[q]) /\ (mem'[q] = "live" <=> C[q] > 0)
    BY <1>5, <1>20, <1>25, <1>29
  <2>3. mem[r[1]] = "live" /\ mem'[r[1]] = MemAfter(r, C) /\ OthersKept(r[1])
    BY <1>5, <1>8, <1>27, <1>28
  <2>4. mem' \in [Objs -> {"free", "live", "boxed", "dying"}]
    BY <1>27
  <2>5. QED
    BY <1>1, <1>3, <1>5, <1>6, <1>12, <1>14, <1>17, <2>1, <2>2, <2>3, <2>4, Released
<1>31. CyclesNeedCells'
  <2>1. ASSUME NEW q \in Objs
        PROVE  ~Owns(q, p)'
    <3>1. ASSUME NEW s \in Strategies
          PROVE  held'[q][<<p, s>>] = 0
      BY <1>7, <1>10, <1>15, <1>16
    <3>2. \A s \in Strategies : ~Has(q, <<p, s>>)'
      BY <3>1 DEF Has
    <3>3. QED
      BY <3>2 DEF Owns
  <2>2. ASSUME NEW q \in Objs \ {p}, NEW x \in Objs, Owns(q, x)'
        PROVE  Owns(q, x)
    <3>1. \A s \in Strategies : held'[q][<<x, s>>] = held[q][<<x, s>>]
      BY <1>7, <1>15, <1>16
    <3>2. QED
      BY <2>2, <3>1 DEF Owns, Has
  <2>3. QED
    BY <1>1, <2>1, <2>2, NoCycleTied
<1>32. FreeIsEmpty'
  <2>1. ASSUME NEW q \in Objs, mem'[q] = "free", NEW c \in Arcs
        PROVE  ~Has(q, c)'
    <3>1. q # p /\ q # o /\ mem[q] = "free"
      BY <1>27, <1>30, <2>1
    <3>2. held'[q][c] = held[q][c]
      BY <1>7, <1>15, <1>16, <3>1
    <3>3. QED
      BY <1>1, <3>1, <3>2 DEF FreeIsEmpty, Has
  <2>2. QED
    BY <2>1 DEF FreeIsEmpty
<1>33. QED
  BY <1>30, <1>31, <1>32 DEF Inv

-----------------------------------------------------------------------------
(* The theorems *)

LEMMA InitInv == Init => Inv
<1> SUFFICES ASSUME Init
             PROVE  Inv
  OBVIOUS
<1>1. TypeOK
  <2>1. <<>> \in Seq(Objs)
    OBVIOUS
  <2>2. QED
    BY <2>1 DEF Init, TypeOK
<1>2. /\ \A h \in Holders, a \in Arcs : held[h][a] = 0 /\ ~Has(h, a)
      /\ \A o \in Objs : mem[o] = "free" /\ count[o] = 0
      /\ \A t \in Threads : copying[t] = None
      /\ \A x \in Runners : stack[x] = <<>> /\ DOMAIN stack[x] = {}
      /\ trash = <<>> /\ DOMAIN trash = {}
  BY DEF Init, Has
<1>3. Counted
  <2> SUFFICES ASSUME NEW o \in Objs
               PROVE  Tally(held, copying, o, 0)
    BY <1>2 DEF Counted
  <2>1. HeldUnits(held, o) = {}
    <3>1. ASSUME NEW u \in HeldUnits(held, o)
          PROVE  FALSE
      <4>1. u[1] \in Holders /\ <<o, u[2]>> \in Arcs /\ u[3] \in 1 .. held[u[1]][<<o, u[2]>>]
        BY DEF HeldUnits, Arcs
      <4>2. held[u[1]][<<o, u[2]>>] = 0
        BY <1>2, <4>1
      <4>3. QED
        BY <4>1, <4>2
    <3>2. QED
      BY <3>1
  <2>2. Borrowers(copying, o) = {}
    BY <1>2 DEF Borrowers
  <2>3. Units(held, copying, o) = {}
    BY <2>1, <2>2 DEF Units
  <2>4. QED
    BY <2>3, FS_EmptySet DEF Tally
<1>4. LiveIffCounted
  BY <1>2 DEF LiveIffCounted
<1>5. FreeIsEmpty
  BY <1>2 DEF FreeIsEmpty, Holders
<1>6. CyclesNeedCells
  <2>1. ASSUME NEW q \in Objs, NEW o \in Objs
        PROVE  ~Owns(q, o)
    BY <1>2 DEF Owns, Holders, Arcs
  <2>2. ASSUME NEW S \in (SUBSET (Objs \ Cells)) \ {{}}
        PROVE  \E o \in S : \A p \in S : ~Owns(p, o)
    <3>1. S # {} /\ S \subseteq Objs
      OBVIOUS
    <3>2. PICK o : o \in S
      BY <3>1
    <3>3. QED
      BY <2>1, <3>1, <3>2
  <2>3. QED
    BY <2>2 DEF CyclesNeedCells
<1>7. DisposedOnce
  BY <1>2 DEF DisposedOnce
<1>8. QED
  BY <1>1, <1>3, <1>4, <1>5, <1>6, <1>7 DEF Inv

LEMMA NextInv == Inv /\ [Next]_vars => Inv'
<1> SUFFICES ASSUME Inv, [Next]_vars
             PROVE  Inv'
  OBVIOUS
<1>1. CASE UNCHANGED vars
  <2>1. /\ mem' = mem /\ count' = count /\ held' = held
        /\ copying' = copying /\ stack' = stack /\ trash' = trash
    BY <1>1 DEF vars
  <2>2. TypeOK' /\ Counted' /\ LiveIffCounted' /\ FreeIsEmpty'
    BY <2>1 DEF Inv, TypeOK, Counted, LiveIffCounted, FreeIsEmpty, Has
  <2>3. DisposedOnce'
    BY <2>1 DEF Inv, DisposedOnce
  <2>4. CyclesNeedCells'
    <3>1. \A q, o \in Objs : Owns(q, o)' => Owns(q, o)
      BY <2>1 DEF Owns, Has
    <3>2. QED
      BY <3>1, NoCycleCut DEF Inv
  <2>5. QED
    BY <2>2, <2>3, <2>4 DEF Inv
<1>2. ASSUME NEW t \in Threads, Call(t)
      PROVE  Inv'
  <2>1. ASSUME NEW o \in Objs, NEW s \in Strategies, New(t, o, s)
        PROVE  Inv'
    BY <2>1, NewStep
  <2>2. ASSUME NEW a \in Arcs, NEW h \in Holders, NEW s \in Strategies, Clone(t, h, a, s)
        PROVE  Inv'
    BY <2>2, CloneStep
  <2>3. ASSUME NEW a \in Arcs, NEW r \in Arcs, PutIn(t, r, a) \/ TakeOut(t, r, a)
        PROVE  Inv'
    BY <2>3, PutInStep, TakeOutStep
  <2>4. ASSUME NEW a \in Arcs, NEW s \in Strategies,
               WithStrategy(t, a, s) \/ FromTriomphe(t, a, s)
        PROVE  Inv'
    BY <2>4, TransmuteStep DEF WithStrategy, FromTriomphe
  <2>5. ASSUME NEW a \in Arcs, IntoTriomphe(t, a)
        PROVE  Inv'
    <3>1. "now" \in Strategies
      BY DEF Strategies
    <3>2. QED
      BY <2>5, <3>1, TransmuteStep DEF IntoTriomphe
  <2>6. ASSUME NEW a \in Arcs, MakeMut(t, a)
        PROVE  Inv'
    BY <2>6, MakeMutStep
  <2>7. ASSUME NEW a \in Arcs, Unwrap(t, a)
        PROVE  Inv'
    BY <2>7, UnwrapStep
  <2>8. ASSUME NEW a \in Arcs, Drop(t, a)
        PROVE  Inv'
    <3>1. t \in Runners /\ Program \in Holders
      BY DEF Runners, Holders
    <3>2. QED
      BY <2>8, <3>1, DropStep DEF Drop
  <2>9. ASSUME NEW p \in Objs, Replace(t, p)
        PROVE  Inv'
    BY <2>9, ReplaceStep
  <2>10. ASSUME CopyPanics(t)
         PROVE  Inv'
    BY <2>10, CopyPanicsStep
  <2>11. QED
    BY <1>2, <2>1, <2>2, <2>3, <2>4, <2>5, <2>6, <2>7, <2>8, <2>9, <2>10 DEF Call
<1>3. ASSUME NEW x \in Runners, Destroy(x)
      PROVE  Inv'
  <2>1. ASSUME NEW a \in Arcs, DropContents(x, a)
        PROVE  Inv'
    <3>1. Head(stack[x]) \in Holders
      <4>1. stack[x] \in Seq(Objs) /\ stack[x] # <<>>
        BY <2>1 DEF Inv, TypeOK, DropContents
      <4>2. QED
        BY <4>1, SeqFacts DEF Holders
    <3>2. PICK h \in Holders : h = Head(stack[x])
      BY <3>1
    <3>3. /\ Has(h, a) /\ Release(x, a, Without(h, a), count)
          /\ mem' = [mem EXCEPT ![a[1]] = MemAfter(a, count)] /\ UNCHANGED copying
      BY <2>1, <3>2 DEF DropContents
    <3>4. QED
      BY <3>3, DropStep
  <2>2. ASSUME Deallocate(x)
        PROVE  Inv'
    BY <2>2, DeallocateStep
  <2>3. QED
    BY <1>3, <2>1, <2>2 DEF Destroy
<1>4. ASSUME NEW w \in Workers, Receive(w)
      PROVE  Inv'
  BY <1>4, ReceiveStep
<1>5. QED
  BY <1>1, <1>2, <1>3, <1>4 DEF Next

LEMMA Invariant == SafeSpec => []Inv
<1>1. QED
  BY InitInv, NextInv, PTL DEF SafeSpec

\* Every variable keeps its type; no counter falls below zero.
THEOREM DisposalTyped == Spec => []TypeOK
<1>1. Inv => TypeOK
  BY DEF Inv
<1>2. QED
  BY <1>1, Invariant, PTL DEF Spec

\* No Arc dangles, in a variable, in a make_mut, or in contents alive or half
\* destroyed: what Drop::drop and drop_slow free has no other reference, and
\* what is destroyed later still keeps what it holds alive.
THEOREM NothingDangles == Spec => []ArcsPointToLive
<1>1. Inv => ArcsPointToLive
  <2> SUFFICES ASSUME Inv
               PROVE  ArcsPointToLive
    OBVIOUS
  <2>1. TypeOK /\ Counted /\ LiveIffCounted /\ FreeIsEmpty
    BY DEF Inv
  <2>2. QED
    BY <2>1, HeldIsCounted DEF ArcsPointToLive, FreeIsEmpty
<1>2. QED
  BY <1>1, Invariant, PTL DEF Spec

\* Arcs own each other in a circle only through contents that have interior
\* mutability, however deep they nest and whatever cells are among them: where
\* contents have none, get_mut, make_mut and into_inner ask is_unique before
\* they change.
THEOREM OnlyCellsTieCycles == Spec => []CyclesNeedCells
<1>1. Inv => CyclesNeedCells
  BY DEF Inv
<1>2. QED
  BY <1>1, Invariant, PTL DEF Spec

\* The last Arc of an allocation, whichever runner drops it and whichever
\* strategy it has, gives it to one drop glue or one place in the trash.
THEOREM DisposalIsOnce == Spec => []DisposedOnce
<1>1. Inv => DisposedOnce
  BY DEF Inv
<1>2. QED
  BY <1>1, Invariant, PTL DEF Spec
=============================================================================
