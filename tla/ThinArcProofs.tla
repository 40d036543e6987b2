---------------------------- MODULE ThinArcProofs ----------------------------
(***************************************************************************)
(* Proofs about ThinArc, for every maximal length, every number of threads *)
(* and allocations, and every bound on the references.                     *)
(*                                                                         *)
(* The two properties need each other.  header.length is a public field,   *)
(* and what protects it is the counter: SetLength wants the only           *)
(* reference, and wants it fat, so no ThinArc is there to be misled.  That *)
(* the counter is right needs in turn that a ThinArc becomes an Arc of the *)
(* length the allocation was made for.  Sound says both of one allocation; *)
(* Loan adds what Rust's borrows say: a ThinArc that a callback of         *)
(* with_arc looks at stays.                                                *)
(***************************************************************************)
EXTENDS ThinArc, FiniteSetTheorems, TLAPS

Typed ==
  /\ mem \in [Objs -> {"free", "live", "boxed"}]
  /\ size \in [Objs -> Lengths] /\ length \in [Objs -> Lengths]
  /\ box \in [Objs -> Lengths]
  /\ count \in [Objs -> Nat] /\ fat \in [Objs -> [Lengths -> Nat]]
  /\ thin \in [Objs -> Nat] /\ raw \in [Objs -> Nat] /\ leaked \in [Objs -> Nat]
  /\ transient \in [Threads -> Fats \cup {None}]

\* The references to an allocation are counted, and find its length.
Sound(o) ==
  /\ \A n \in Lengths : n # size[o] => fat[o][n] = 0
  /\ count[o] = thin[o] + raw[o] + leaked[o] + fat[o][size[o]]
  /\ mem[o] = "live" <=> count[o] > 0
  /\ thin[o] + raw[o] > 0 => length[o] = size[o]
  /\ leaked[o] > 0 => length[o] # size[o]
  /\ mem[o] = "boxed" => box[o] = size[o]

\* What with_arc lends is of an allocation that some ThinArc keeps.
Loan(t) ==
  ~Idle(t) => /\ thin[transient[t].obj] > 0
              /\ transient[t].len = size[transient[t].obj]

Inv ==
  /\ Typed
  /\ \A o \in Objs : Sound(o)
  /\ \A t \in Threads : Loan(t)

-----------------------------------------------------------------------------
\* An owned ThinArc is not the only one if a callback has borrowed one.
LEMMA BorrowedStay ==
  ASSUME NEW o \in Objs, thin[o] \in Nat, CanOwn(o)
  PROVE  thin[o] > 0 /\ (Borrowed(o) # {} => thin[o] > 1)
<1>1. IsFiniteSet(Borrowed(o))
  BY ThinAssumption, FS_Subset DEF Borrowed
<1>2. PICK n \in Nat : n = Cardinality(Borrowed(o))
  BY <1>1, FS_CardinalityType
<1>3. Borrowed(o) # {} => n # 0
  BY <1>1, <1>2, FS_EmptySet
<1>4. QED
  BY <1>2, <1>3 DEF CanOwn

LEMMA Types ==
  ASSUME Typed, NEW o \in Objs
  PROVE  /\ mem[o] \in {"free", "live", "boxed"}
         /\ size[o] \in Lengths /\ length[o] \in Lengths /\ box[o] \in Lengths
         /\ count[o] \in Nat /\ thin[o] \in Nat /\ raw[o] \in Nat
         /\ leaked[o] \in Nat
         /\ fat[o] \in [Lengths -> Nat]
         /\ \A n \in Lengths : fat[o][n] \in Nat
BY DEF Typed

\* The numbers of references, for the arithmetic.
LEMMA Numbers ==
  ASSUME Typed, NEW o \in Objs, Sound(o)
  PROVE  \E c, h, r, k, f \in Nat :
           /\ count[o] = c /\ thin[o] = h /\ raw[o] = r /\ leaked[o] = k
           /\ fat[o][size[o]] = f
           /\ c = h + r + k + f
<1>1. /\ count[o] \in Nat /\ thin[o] \in Nat /\ raw[o] \in Nat /\ leaked[o] \in Nat
      /\ fat[o][size[o]] \in Nat
  BY Types
<1>2. count[o] = thin[o] + raw[o] + leaked[o] + fat[o][size[o]]
  BY DEF Sound
<1>3. QED
  BY <1>1, <1>2

LEMMA NoReference ==
  ASSUME Typed, NEW o \in Objs, Sound(o), mem[o] # "live"
  PROVE  /\ count[o] = 0 /\ thin[o] = 0 /\ raw[o] = 0 /\ leaked[o] = 0
         /\ \A m \in Lengths : fat[o][m] = 0
<1>1. PICK c, h, r, k, f \in Nat :
        /\ count[o] = c /\ thin[o] = h /\ raw[o] = r /\ leaked[o] = k
        /\ fat[o][size[o]] = f
        /\ c = h + r + k + f
  BY Numbers
<1>2. c = 0
  BY <1>1 DEF Sound
<1>3. h = 0 /\ r = 0 /\ k = 0 /\ f = 0
  BY <1>1, <1>2
<1>4. \A m \in Lengths : fat[o][m] = 0
  BY <1>1, <1>3 DEF Sound
<1>5. QED
  BY <1>1, <1>2, <1>3, <1>4

LEMMA OneReference ==
  ASSUME Typed, NEW o \in Objs, Sound(o), count[o] = 1, fat[o][size[o]] > 0
  PROVE  thin[o] = 0 /\ raw[o] = 0 /\ leaked[o] = 0
<1>1. PICK c, h, r, k, f \in Nat :
        /\ count[o] = c /\ thin[o] = h /\ raw[o] = r /\ leaked[o] = k
        /\ fat[o][size[o]] = f
        /\ c = h + r + k + f
  BY Numbers
<1>2. h = 0 /\ r = 0 /\ k = 0
  BY <1>1
<1>3. QED
  BY <1>1, <1>2

\* What a callback holds has the right length, and keeps its allocation live.
LEMMA WhatIsLent ==
  ASSUME Inv, NEW t \in Threads, ~Idle(t)
  PROVE  /\ transient[t] \in Fats
         /\ transient[t].obj \in Objs /\ transient[t].len \in Lengths
         /\ thin[transient[t].obj] > 0
         /\ transient[t].len = size[transient[t].obj]
         /\ length[transient[t].obj] = size[transient[t].obj]
<1>1. transient[t] \in Fats
  BY DEF Inv, Typed, Idle
<1>2. transient[t].obj \in Objs /\ transient[t].len \in Lengths
  BY <1>1 DEF Fats
<1>3. /\ thin[transient[t].obj] > 0
      /\ transient[t].len = size[transient[t].obj]
  BY DEF Inv, Loan
<1>4. length[transient[t].obj] = size[transient[t].obj]
  BY <1>2, <1>3, Types DEF Inv, Sound
<1>5. QED
  BY <1>1, <1>2, <1>3, <1>4

\* An Arc in a variable has the right length.
LEMMA FatLength ==
  ASSUME Inv, NEW o \in Objs, NEW n \in Lengths, fat[o][n] > 0
  PROVE  n = size[o] /\ mem[o] = "live" /\ count[o] > 0
<1>1. n = size[o]
  BY DEF Inv, Sound
<1>2. QED
  BY <1>1, Types DEF Inv, Sound

-----------------------------------------------------------------------------
\* The steps.  Each touches the references of one allocation, or a loan.

LEMMA NewFatStep ==
  ASSUME Inv, NEW t \in Threads, NEW o \in Objs, NEW l \in Lengths,
         NEW n \in Lengths, NewFat(t, o, l, n)
  PROVE  Inv'
<1>. USE DEF NewFat, Allocate
<1>1. Sound(o) /\ mem[o] = "free" /\ Typed
  BY DEF Inv
<1>2. /\ thin[o] = 0 /\ raw[o] = 0 /\ leaked[o] = 0
      /\ \A m \in Lengths : fat[o][m] = 0
  BY <1>1, NoReference
<1>3. Typed'
  BY <1>1 DEF Typed
<1>4. Sound(o)'
  <2>1. \A m \in Lengths : fat'[o][m] = IF m = n THEN 1 ELSE 0
    BY <1>1, <1>2 DEF Typed
  <2>2. /\ size'[o] = n /\ count'[o] = 1 /\ mem'[o] = "live"
        /\ thin'[o] = 0 /\ raw'[o] = 0 /\ leaked'[o] = 0
    BY <1>1, <1>2 DEF Typed
  <2>3. QED
    BY <2>1, <2>2 DEF Sound
<1>5. ASSUME NEW p \in Objs \ {o}
      PROVE  Sound(p)'
  BY <1>1 DEF Inv, Sound, Typed
<1>6. ASSUME NEW u \in Threads
      PROVE  Loan(u)'
  BY <1>1, <1>2, WhatIsLent DEF Loan, Idle, Typed
<1>7. QED
  BY <1>3, <1>4, <1>5, <1>6 DEF Inv

LEMMA NewThinStep ==
  ASSUME Inv, NEW t \in Threads, NEW o \in Objs, NEW l \in Lengths,
         NEW n \in Lengths, NewThin(t, o, l, n)
  PROVE  Inv'
<1>. USE DEF NewThin, Allocate
<1>1. Sound(o) /\ mem[o] = "free" /\ Typed
  BY DEF Inv
<1>2. /\ thin[o] = 0 /\ raw[o] = 0 /\ leaked[o] = 0
      /\ \A m \in Lengths : fat[o][m] = 0
  BY <1>1, NoReference
<1>3. Typed'
  <2>1. thin' \in [Objs -> Nat] /\ leaked' \in [Objs -> Nat]
    <3>1. thin \in [Objs -> Nat] /\ leaked \in [Objs -> Nat]
      BY <1>1 DEF Typed
    <3>2. CASE l = n
      BY <3>1, <3>2
    <3>3. CASE l # n
      BY <3>1, <3>3
    <3>4. QED
      BY <3>2, <3>3
  <2>2. QED
    BY <1>1, <2>1 DEF Typed
<1>4. Sound(o)'
  <2>1. /\ size'[o] = n /\ length'[o] = l /\ count'[o] = 1
        /\ mem'[o] = "live" /\ raw'[o] = 0 /\ fat' = fat
        /\ IF l = n THEN thin'[o] = 1 /\ leaked'[o] = 0
           ELSE thin'[o] = 0 /\ leaked'[o] = 1
    BY <1>1, <1>2 DEF Typed
  <2>2. QED
    BY <2>1, <1>2 DEF Sound
<1>5. ASSUME NEW p \in Objs \ {o}
      PROVE  Sound(p)'
  BY <1>1 DEF Inv, Sound, Typed
<1>6. ASSUME NEW u \in Threads
      PROVE  Loan(u)'
  BY <1>1, <1>2, WhatIsLent DEF Loan, Idle, Typed
<1>7. QED
  BY <1>3, <1>4, <1>5, <1>6 DEF Inv

LEMMA IntoThinStep ==
  ASSUME Inv, NEW t \in Threads, NEW o \in Objs, NEW n \in Lengths,
         IntoThin(t, o, n)
  PROVE  Inv'
<1>. USE DEF IntoThin, AfterThinning, MayBeThin, alloc
<1>1. Sound(o) /\ Typed /\ n = size[o] /\ mem[o] = "live" /\ fat[o][n] > 0
  BY FatLength DEF Inv
<1>2. Typed'
  <2>1. thin' \in [Objs -> Nat] /\ leaked' \in [Objs -> Nat]
    BY <1>1 DEF Typed
  <2>2. fat' \in [Objs -> [Lengths -> Nat]]
    BY <1>1, Types DEF Typed
  <2>3. count' = count
    BY <1>1 DEF Typed
  <2>4. QED
    BY <1>1, <2>1, <2>2, <2>3 DEF Typed
<1>3. Sound(o)'
  <2>1. \A m \in Lengths : fat'[o][m] = IF m = n THEN fat[o][m] - 1 ELSE fat[o][m]
    BY <1>1 DEF Typed
  <2>2. /\ count'[o] = count[o]
        /\ IF length[o] = n
           THEN thin'[o] = thin[o] + 1 /\ leaked'[o] = leaked[o]
           ELSE thin'[o] = thin[o] /\ leaked'[o] = leaked[o] + 1
    BY <1>1 DEF Typed
  <2>3. PICK c, h, r, k, f \in Nat :
          /\ count[o] = c /\ thin[o] = h /\ raw[o] = r /\ leaked[o] = k
          /\ fat[o][size[o]] = f
          /\ c = h + r + k + f
    BY <1>1, Numbers
  <2>4. fat'[o][size[o]] = f - 1
    BY <1>1, <2>1, <2>3
  <2>5. CASE length[o] = n
    <3>1. c = (h + 1) + r + k + (f - 1)
      BY <2>3
    <3>2. QED
      BY <1>1, <2>1, <2>2, <2>3, <2>4, <2>5, <3>1 DEF Sound
  <2>6. CASE length[o] # n
    <3>1. c = h + r + (k + 1) + (f - 1)
      BY <2>3
    <3>2. QED
      BY <1>1, <2>1, <2>2, <2>3, <2>4, <2>6, <3>1 DEF Sound
  <2>7. QED
    BY <2>5, <2>6
<1>4. ASSUME NEW p \in Objs \ {o}
      PROVE  Sound(p)'
  BY <1>1 DEF Inv, Sound, Typed
<1>5. ASSUME NEW u \in Threads
      PROVE  Loan(u)'
  <2>1. ASSUME NEW p \in Objs, thin[p] > 0
        PROVE  thin'[p] > 0
    <3>1. thin[p] \in Nat /\ thin'[p] \in {thin[p], thin[p] + 1}
      BY <1>1 DEF Typed
    <3>2. QED
      BY <2>1, <3>1
  <2>2. QED
    BY <2>1, WhatIsLent DEF Loan, Idle
<1>6. QED
  BY <1>2, <1>3, <1>4, <1>5 DEF Inv

LEMMA FromThinStep ==
  ASSUME Inv, NEW t \in Threads, NEW o \in Objs, FromThin(t, o)
  PROVE  Inv'
<1>. USE DEF FromThin, ThinToThick, Fat, alloc
<1>1. Sound(o) /\ Typed /\ thin[o] > 0 /\ (Borrowed(o) # {} => thin[o] > 1)
  BY BorrowedStay, Types DEF Inv
<1>2. length[o] = size[o] /\ length[o] \in Lengths
  BY <1>1, Types DEF Sound
<1>3. Typed'
  BY <1>1, <1>2, Types DEF Typed
<1>4. Sound(o)'
  <2>1. \A m \in Lengths :
          fat'[o][m] = IF m = length[o] THEN fat[o][m] + 1 ELSE fat[o][m]
    BY <1>1, <1>2 DEF Typed
  <2>2. thin'[o] = thin[o] - 1
    BY <1>1 DEF Typed
  <2>3. QED
    BY <1>1, <1>2, <2>1, <2>2, Types DEF Sound
<1>5. ASSUME NEW p \in Objs \ {o}
      PROVE  Sound(p)'
  BY <1>1 DEF Inv, Sound, Typed
<1>6. ASSUME NEW u \in Threads
      PROVE  Loan(u)'
  BY <1>1, WhatIsLent, Types DEF Loan, Idle, Typed, Borrowed
<1>7. QED
  BY <1>3, <1>4, <1>5, <1>6 DEF Inv

LEMMA IntoRawStep ==
  ASSUME Inv, NEW t \in Threads, NEW o \in Objs, IntoRaw(t, o)
  PROVE  Inv'
<1>. USE DEF IntoRaw, alloc
<1>1. Sound(o) /\ Typed /\ thin[o] > 0 /\ (Borrowed(o) # {} => thin[o] > 1)
  BY BorrowedStay, Types DEF Inv
<1>2. Typed'
  BY <1>1, Types DEF Typed
<1>3. Sound(o)'
  <2>0. PICK c, h, r, k, f \in Nat :
          /\ count[o] = c /\ thin[o] = h /\ raw[o] = r /\ leaked[o] = k
          /\ fat[o][size[o]] = f
          /\ c = h + r + k + f
    BY <1>1, Numbers
  <2>1. thin'[o] = h - 1 /\ raw'[o] = r + 1 /\ h > 0
    BY <1>1, <2>0 DEF Typed
  <2>2. length[o] = size[o]
    BY <1>1, <2>0 DEF Sound
  <2>3. c = (h - 1) + (r + 1) + k + f
    BY <2>0
  <2>4. QED
    BY <1>1, <2>0, <2>1, <2>2, <2>3 DEF Sound
<1>4. ASSUME NEW p \in Objs \ {o}
      PROVE  Sound(p)'
  BY <1>1 DEF Inv, Sound, Typed
<1>5. ASSUME NEW u \in Threads
      PROVE  Loan(u)'
  BY <1>1, WhatIsLent, Types DEF Loan, Idle, Typed, Borrowed
<1>6. QED
  BY <1>2, <1>3, <1>4, <1>5 DEF Inv

LEMMA FromRawStep ==
  ASSUME Inv, NEW t \in Threads, NEW o \in Objs, FromRaw(t, o)
  PROVE  Inv'
<1>. USE DEF FromRaw, alloc
<1>1. Sound(o) /\ Typed /\ raw[o] > 0
  BY DEF Inv
<1>2. Typed'
  BY <1>1, Types DEF Typed
<1>3. Sound(o)'
  <2>0. PICK c, h, r, k, f \in Nat :
          /\ count[o] = c /\ thin[o] = h /\ raw[o] = r /\ leaked[o] = k
          /\ fat[o][size[o]] = f
          /\ c = h + r + k + f
    BY <1>1, Numbers
  <2>1. thin'[o] = h + 1 /\ raw'[o] = r - 1 /\ r > 0
    BY <1>1, <2>0 DEF Typed
  <2>2. length[o] = size[o]
    BY <1>1, <2>0 DEF Sound
  <2>3. c = (h + 1) + (r - 1) + k + f
    BY <2>0
  <2>4. QED
    BY <1>1, <2>0, <2>1, <2>2, <2>3 DEF Sound
<1>4. ASSUME NEW p \in Objs \ {o}
      PROVE  Sound(p)'
  BY <1>1 DEF Inv, Sound, Typed
<1>5. ASSUME NEW u \in Threads
      PROVE  Loan(u)'
  BY <1>1, WhatIsLent, Types DEF Loan, Idle, Typed
<1>6. QED
  BY <1>2, <1>3, <1>4, <1>5 DEF Inv

-----------------------------------------------------------------------------
LEMMA WithArcStep ==
  ASSUME Inv, NEW t \in Threads, NEW o \in Objs, WithArc(t, o)
  PROVE  Inv'
<1>. USE DEF WithArc, ThinToThick, Fat, alloc
<1>1. Sound(o) /\ Typed /\ thin[o] > 0
  BY DEF Inv
<1>2. length[o] = size[o] /\ length[o] \in Lengths
  BY <1>1, Types DEF Sound
<1>3. Typed'
  BY <1>1, <1>2 DEF Typed, Fats
<1>4. ASSUME NEW p \in Objs
      PROVE  Sound(p)'
  BY DEF Inv, Sound
<1>5. ASSUME NEW u \in Threads
      PROVE  Loan(u)'
  <2>1. CASE u = t
    BY <1>1, <1>2, <2>1 DEF Loan, Idle, Typed
  <2>2. CASE u # t
    BY <1>1, <2>2 DEF Inv, Loan, Idle, Typed
  <2>3. QED
    BY <2>1, <2>2
<1>6. QED
  BY <1>3, <1>4, <1>5 DEF Inv

LEMMA WithArcEndStep ==
  ASSUME Inv, NEW t \in Threads, WithArcEnd(t)
  PROVE  Inv'
<1>. USE DEF WithArcEnd, alloc
<1>1. Typed'
  BY DEF Inv, Typed
<1>2. ASSUME NEW p \in Objs
      PROVE  Sound(p)'
  BY DEF Inv, Sound
<1>3. ASSUME NEW u \in Threads
      PROVE  Loan(u)'
  BY DEF Inv, Loan, Idle, Typed
<1>4. QED
  BY <1>1, <1>2, <1>3 DEF Inv

LEMMA CloneFatStep ==
  ASSUME Inv, NEW t \in Threads, NEW a \in Fats, CloneFat(t, a)
  PROVE  Inv'
<1>. USE DEF CloneFat, alloc
<1>1. PICK o \in Objs, n \in Lengths : o = a.obj /\ n = a.len
  BY DEF Fats
<1>2. n = size[o] /\ count[o] > 0
  <2>1. CASE Idle(t)
    BY <1>1, <2>1, FatLength
  <2>2. CASE ~Idle(t)
    <3>1. thin[o] > 0 /\ n = size[o]
      BY <1>1, <2>2, WhatIsLent
    <3>2. QED
      BY <3>1, Types DEF Inv, Sound
  <2>3. QED
    BY <2>1, <2>2
<1>3. Sound(o) /\ Typed
  BY DEF Inv
<1>4. Typed'
  BY <1>1, <1>3, Types DEF Typed
<1>5. Sound(o)'
  <2>1. \A m \in Lengths : fat'[o][m] = IF m = n THEN fat[o][m] + 1 ELSE fat[o][m]
    BY <1>1, <1>3 DEF Typed
  <2>2. count'[o] = count[o] + 1
    BY <1>1, <1>3 DEF Typed
  <2>3. PICK c, h, r, k, f \in Nat :
          /\ count[o] = c /\ thin[o] = h /\ raw[o] = r /\ leaked[o] = k
          /\ fat[o][size[o]] = f
          /\ c = h + r + k + f
    BY <1>3, Numbers
  <2>4. fat'[o][size[o]] = f + 1 /\ count'[o] = c + 1 /\ c > 0
    BY <1>2, <2>1, <2>2, <2>3
  <2>5. mem[o] = "live"
    BY <1>2, <1>3 DEF Sound
  <2>6. c + 1 = h + r + k + (f + 1) /\ c + 1 > 0
    BY <2>3
  <2>7. QED
    BY <1>2, <1>3, <2>1, <2>3, <2>4, <2>5, <2>6 DEF Sound
<1>6. ASSUME NEW p \in Objs \ {o}
      PROVE  Sound(p)'
  BY <1>1, <1>3 DEF Inv, Sound, Typed
<1>7. ASSUME NEW u \in Threads
      PROVE  Loan(u)'
  BY DEF Inv, Loan, Idle
<1>8. QED
  BY <1>4, <1>5, <1>6, <1>7 DEF Inv

LEMMA CloneThinStep ==
  ASSUME Inv, NEW t \in Threads, CloneThin(t)
  PROVE  Inv'
<1>. USE DEF CloneThin, AfterThinning, MayBeThin, alloc
<1>1. PICK o \in Objs, n \in Lengths : o = transient[t].obj /\ n = transient[t].len
  BY WhatIsLent
<1>2. n = size[o] /\ length[o] = size[o] /\ thin[o] > 0
  BY <1>1, WhatIsLent
<1>3. Sound(o) /\ Typed
  BY DEF Inv
<1>4. /\ thin' = [thin EXCEPT ![o] = @ + 1] /\ leaked' = leaked
      /\ count' = [count EXCEPT ![o] = @ + 1]
  BY <1>1, <1>2
<1>5. Typed'
  BY <1>3, <1>4, Types DEF Typed
<1>6. Sound(o)'
  <2>0. PICK c, h, r, k, f \in Nat :
          /\ count[o] = c /\ thin[o] = h /\ raw[o] = r /\ leaked[o] = k
          /\ fat[o][size[o]] = f
          /\ c = h + r + k + f
    BY <1>3, Numbers
  <2>1. thin'[o] = h + 1 /\ count'[o] = c + 1 /\ h > 0
    BY <1>2, <1>3, <1>4, <2>0 DEF Typed
  <2>2. c > 0 /\ c + 1 = (h + 1) + r + k + f /\ c + 1 > 0
    BY <2>0, <2>1
  <2>3. mem[o] = "live" /\ k = 0
    BY <1>2, <1>3, <2>0, <2>2 DEF Sound
  <2>4. QED
    BY <1>2, <1>3, <1>4, <2>0, <2>1, <2>2, <2>3 DEF Sound
<1>7. ASSUME NEW p \in Objs \ {o}
      PROVE  Sound(p)'
  <2>1. thin'[p] = thin[p] /\ count'[p] = count[p]
    BY <1>3, <1>4 DEF Typed
  <2>2. UNCHANGED <<mem, size, length, box, fat, raw, leaked>>
    BY <1>4
  <2>3. QED
    BY <2>1, <2>2 DEF Inv, Sound
<1>8. ASSUME NEW u \in Threads
      PROVE  Loan(u)'
  BY <1>3, <1>4, WhatIsLent, Types DEF Loan, Idle, Typed
<1>9. QED
  BY <1>5, <1>6, <1>7, <1>8 DEF Inv

-----------------------------------------------------------------------------
\* The one step that could mislead a ThinArc: it finds none.
LEMMA SetLengthStep ==
  ASSUME Inv, NEW t \in Threads, NEW o \in Objs, NEW n \in Lengths,
         NEW l \in Lengths, SetLength(t, o, n, l)
  PROVE  Inv'
<1>. USE DEF SetLength, IsUnique
<1>1. Sound(o) /\ Typed /\ n = size[o] /\ fat[o][n] > 0 /\ count[o] = 1
  BY FatLength DEF Inv
<1>2. thin[o] = 0 /\ raw[o] = 0 /\ leaked[o] = 0
  BY <1>1, OneReference
<1>3. Typed'
  BY <1>1 DEF Typed
<1>4. Sound(o)'
  BY <1>1, <1>2 DEF Sound
<1>5. ASSUME NEW p \in Objs \ {o}
      PROVE  Sound(p)'
  BY <1>1 DEF Inv, Sound, Typed
<1>6. ASSUME NEW u \in Threads
      PROVE  Loan(u)'
  BY DEF Inv, Loan, Idle
<1>7. QED
  BY <1>3, <1>4, <1>5, <1>6 DEF Inv

LEMMA DropFatStep ==
  ASSUME Inv, NEW t \in Threads, NEW a \in Fats, DropFat(t, a)
  PROVE  Inv'
<1>. USE DEF DropFat, Release, IsLast
<1>1. PICK o \in Objs, n \in Lengths : o = a.obj /\ n = a.len
  BY DEF Fats
<1>2. /\ Sound(o) /\ Typed /\ n = size[o] /\ fat[o][n] > 0 /\ count[o] > 0
      /\ mem[o] = "live"
  BY <1>1, FatLength DEF Inv
<1>3. Typed'
  <2>1. mem' \in [Objs -> {"free", "live", "boxed"}] /\ box' \in [Objs -> Lengths]
    <3>1. CASE count[o] = 1
      <4>1. mem' = [mem EXCEPT ![o] = "boxed"] /\ box' = [box EXCEPT ![o] = n]
        BY <1>1, <3>1
      <4>2. QED
        BY <1>2, <4>1 DEF Typed
    <3>2. CASE count[o] # 1
      BY <1>1, <1>2, <3>2 DEF Typed
    <3>3. QED
      BY <3>1, <3>2
  <2>2. count' \in [Objs -> Nat]
    BY <1>1, <1>2 DEF Typed
  <2>3. fat' \in [Objs -> [Lengths -> Nat]]
    BY <1>1, <1>2, Types DEF Typed
  <2>4. QED
    BY <1>2, <2>1, <2>2, <2>3 DEF Typed
<1>4. Sound(o)'
  <2>1. \A m \in Lengths : fat'[o][m] = IF m = n THEN fat[o][m] - 1 ELSE fat[o][m]
    BY <1>1, <1>2 DEF Typed
  <2>2. /\ count'[o] = count[o] - 1
        /\ IF count[o] = 1 THEN mem'[o] = "boxed" /\ box'[o] = n
           ELSE mem'[o] = mem[o] /\ box'[o] = box[o]
    BY <1>1, <1>2 DEF Typed
  <2>3. QED
    BY <1>2, <2>1, <2>2, Types DEF Sound
<1>5. ASSUME NEW p \in Objs \ {o}
      PROVE  Sound(p)'
  <2>1. /\ mem'[p] = mem[p] /\ box'[p] = box[p] /\ count'[p] = count[p]
        /\ fat'[p] = fat[p]
    BY <1>1, <1>2, <1>5 DEF Typed
  <2>2. QED
    BY <2>1 DEF Inv, Sound
<1>6. ASSUME NEW u \in Threads
      PROVE  Loan(u)'
  BY DEF Inv, Loan, Idle
<1>7. QED
  BY <1>3, <1>4, <1>5, <1>6 DEF Inv

LEMMA DropThinStep ==
  ASSUME Inv, NEW t \in Threads, NEW o \in Objs, DropThin(t, o)
  PROVE  Inv'
<1>. USE DEF DropThin, Release, IsLast, ThinToThick, Fat
<1>1. Sound(o) /\ Typed /\ thin[o] > 0 /\ (Borrowed(o) # {} => thin[o] > 1)
  BY BorrowedStay, Types DEF Inv
<1>2. length[o] = size[o] /\ count[o] > 0 /\ mem[o] = "live"
  BY <1>1, Types DEF Sound
<1>3. Typed'
  <2>1. mem' \in [Objs -> {"free", "live", "boxed"}]
    BY <1>1, <1>2 DEF Typed
  <2>2. box' \in [Objs -> Lengths]
    BY <1>1, <1>2, Types DEF Typed
  <2>3. count' \in [Objs -> Nat] /\ thin' \in [Objs -> Nat]
    BY <1>1, <1>2 DEF Typed
  <2>4. QED
    BY <1>1, <2>1, <2>2, <2>3 DEF Typed
<1>4. Sound(o)'
  <2>1. /\ thin'[o] = thin[o] - 1 /\ count'[o] = count[o] - 1
        /\ IF count[o] = 1 THEN mem'[o] = "boxed" /\ box'[o] = length[o]
           ELSE mem'[o] = mem[o] /\ box'[o] = box[o]
    BY <1>1 DEF Typed
  <2>2. PICK c, h, r, k, f \in Nat :
          /\ count[o] = c /\ thin[o] = h /\ raw[o] = r /\ leaked[o] = k
          /\ fat[o][size[o]] = f
          /\ c = h + r + k + f
    BY <1>1, Numbers
  <2>3. c - 1 = (h - 1) + r + k + f /\ c \in Nat /\ c > 0
    BY <1>2, <2>2
  <2>4. QED
    BY <1>1, <1>2, <2>1, <2>2, <2>3 DEF Sound
<1>5. ASSUME NEW p \in Objs \ {o}
      PROVE  Sound(p)'
  <2>1. /\ mem'[p] = mem[p] /\ box'[p] = box[p] /\ count'[p] = count[p]
        /\ thin'[p] = thin[p]
    BY <1>1, <1>5 DEF Typed
  <2>2. QED
    BY <2>1 DEF Inv, Sound
<1>6. ASSUME NEW u \in Threads
      PROVE  Loan(u)'
  BY <1>1, WhatIsLent, Types DEF Loan, Idle, Typed, Borrowed
<1>7. QED
  BY <1>3, <1>4, <1>5, <1>6 DEF Inv

LEMMA StrategyDropsStep ==
  ASSUME Inv, NEW o \in Objs, StrategyDrops(o)
  PROVE  Inv'
<1>. USE DEF StrategyDrops
<1>1. Typed'
  BY DEF Inv, Typed
<1>2. ASSUME NEW p \in Objs
      PROVE  Sound(p)'
  BY DEF Inv, Sound, Typed
<1>3. ASSUME NEW u \in Threads
      PROVE  Loan(u)'
  BY DEF Inv, Loan, Idle
<1>4. QED
  BY <1>1, <1>2, <1>3 DEF Inv

-----------------------------------------------------------------------------
LEMMA Start ==
  ASSUME Init
  PROVE  Inv
<1>1. 0 \in Lengths
  BY ThinAssumption DEF Lengths
<1>2. QED
  BY <1>1 DEF Init, Inv, Typed, Sound, Loan, Idle

LEMMA Step ==
  ASSUME Inv, [Next]_vars
  PROVE  Inv'
<1>1. CASE Next
  <2>1. ASSUME NEW t \in Threads, NEW o \in Objs, NEW l \in Lengths,
               NEW n \in Lengths,
               NewFat(t, o, l, n) \/ NewThin(t, o, l, n) \/ SetLength(t, o, n, l)
        PROVE  Inv'
    BY <2>1, NewFatStep, NewThinStep, SetLengthStep
  <2>2. ASSUME NEW t \in Threads, NEW o \in Objs, NEW n \in Lengths,
               IntoThin(t, o, n)
        PROVE  Inv'
    BY <2>2, IntoThinStep
  <2>3. ASSUME NEW t \in Threads, NEW o \in Objs,
               \/ FromThin(t, o) \/ IntoRaw(t, o) \/ FromRaw(t, o)
               \/ WithArc(t, o) \/ DropThin(t, o)
        PROVE  Inv'
    BY <2>3, FromThinStep, IntoRawStep, FromRawStep, WithArcStep, DropThinStep
  <2>4. ASSUME NEW t \in Threads, NEW a \in Fats, CloneFat(t, a) \/ DropFat(t, a)
        PROVE  Inv'
    BY <2>4, CloneFatStep, DropFatStep
  <2>5. ASSUME NEW t \in Threads, WithArcEnd(t) \/ CloneThin(t)
        PROVE  Inv'
    BY <2>5, WithArcEndStep, CloneThinStep
  <2>6. ASSUME NEW o \in Objs, StrategyDrops(o)
        PROVE  Inv'
    BY <2>6, StrategyDropsStep
  <2>7. QED
    BY <1>1, <2>1, <2>2, <2>3, <2>4, <2>5, <2>6 DEF Next
<1>2. CASE UNCHANGED vars
  <2>1. Typed'
    BY <1>2 DEF Inv, Typed, vars
  <2>2. ASSUME NEW p \in Objs
        PROVE  Sound(p)'
    BY <1>2 DEF Inv, Sound, vars
  <2>3. ASSUME NEW u \in Threads
        PROVE  Loan(u)'
    BY <1>2 DEF Inv, Loan, Idle, vars
  <2>4. QED
    BY <2>1, <2>2, <2>3 DEF Inv
<1>3. QED
  BY <1>1, <1>2

LEMMA Invariant == Spec => []Inv
<1>1. Inv /\ [Next]_vars => Inv'
  BY Step
<1>2. Init => Inv
  BY Start
<1>3. QED
  BY <1>1, <1>2, PTL DEF Spec

LEMMA LengthsFollow ==
  ASSUME Inv
  PROVE  LengthsAgree
<1>1. ASSUME NEW o \in Objs
      PROVE  /\ thin[o] + raw[o] > 0 => length[o] = size[o]
             /\ \A n \in Lengths : fat[o][n] > 0 => n = size[o]
             /\ mem[o] = "boxed" => box[o] = size[o]
             /\ leaked[o] > 0 => length[o] # size[o]
  BY DEF Inv, Sound
<1>2. ASSUME NEW o \in Objs, NEW t \in Borrowed(o)
      PROVE  transient[t].len = size[o]
  BY WhatIsLent DEF Borrowed, Idle
<1>3. QED
  BY <1>1, <1>2 DEF LengthsAgree

\* Whatever the program writes into header.length, and when: every ThinArc,
\* raw pointer, Arc made of one and Box has the length that its allocation was
\* made for.
THEOREM ThinLengthsAgree == Spec => []LengthsAgree
BY Invariant, LengthsFollow, PTL

\* ThinArc::clone, into_thin, from_thin and with_arc keep the counter exact,
\* a failed assertion included.
THEOREM ThinIsCounted == Spec => []ReferencesCounted
<1>1. Inv => ReferencesCounted
  BY DEF Inv, Sound, ReferencesCounted
<1>2. QED
  BY <1>1, Invariant, PTL

=============================================================================
