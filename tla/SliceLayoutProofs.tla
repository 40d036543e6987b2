-------------------------- MODULE SliceLayoutProofs --------------------------
(***************************************************************************)
(* Proofs about SliceLayout, for every set of layouts that obeys Rust's    *)
(* rules, every isize::MAX, and slices of every length.                    *)
(*                                                                         *)
(* Two facts of arithmetic carry it: rounding up finds the least multiple, *)
(* and multiples of the same number are at least that number apart.  By    *)
(* the first, what Layout::extend and pad_to_align compute is what the     *)
(* compiler does for a repr(C) struct; by the second, a layout is refused  *)
(* exactly when it is larger than isize::MAX.                              *)
(***************************************************************************)
EXTENDS SliceLayout, TLAPS

-----------------------------------------------------------------------------
(* Multiples *)

LEMMA MultipleOf ==
  ASSUME NEW k \in Nat, NEW a \in Nat, a > 0, k % a = 0
  PROVE  \E q \in Nat : k = q * a
OBVIOUS

LEMMA ProductIsMultiple ==
  ASSUME NEW k \in Nat, NEW a \in Nat, a > 0, NEW m \in Nat, k % a = 0
  PROVE  k * m \in Nat /\ (k * m) % a = 0
<1>1. PICK q \in Nat : k = q * a
  BY MultipleOf
<1>2. k * m = (q * m) * a
  BY <1>1
<1>3. PICK p \in Nat : p = q * m
  OBVIOUS
<1>4. k * m = p * a
  BY <1>2, <1>3
<1>5. p * a \in Nat /\ (p * a) % a = 0
  OBVIOUS
<1>6. QED
  BY <1>4, <1>5

LEMMA SumIsMultiple ==
  ASSUME NEW k \in Nat, NEW a \in Nat, a > 0, NEW m \in Nat,
         k % a = 0, m % a = 0
  PROVE  k + m \in Nat /\ (k + m) % a = 0
<1>1. PICK q \in Nat : k = q * a
  BY MultipleOf
<1>2. PICK r \in Nat : m = r * a
  BY MultipleOf
<1>3. PICK p \in Nat : p = q + r
  OBVIOUS
<1>4. k + m = p * a
  BY <1>1, <1>2, <1>3
<1>5. p * a \in Nat /\ (p * a) % a = 0
  OBVIOUS
<1>6. QED
  BY <1>4, <1>5

LEMMA MultipleOfMultiple ==
  ASSUME NEW k \in Nat, NEW a \in Nat, a > 0, NEW b \in Nat, b > 0,
         k % b = 0, b % a = 0
  PROVE  k % a = 0
<1>1. PICK q \in Nat : k = q * b
  BY MultipleOf
<1>2. (b * q) % a = 0
  BY ProductIsMultiple
<1>3. QED
  BY <1>1, <1>2

LEMMA MultiplesApart ==
  ASSUME NEW k \in Nat, NEW a \in Nat, a > 0, NEW m \in Nat,
         k % a = 0, m % a = 0, k < m
  PROVE  k + a <= m
<1>1. PICK q \in Nat : k = q * a
  BY MultipleOf
<1>2. PICK r \in Nat : m = r * a
  BY MultipleOf
<1>3. q < r
  BY <1>1, <1>2
<1>4. PICK d \in Nat : r = q + 1 + d
  BY <1>3
<1>5. m = k + a + d * a /\ d * a \in Nat
  BY <1>1, <1>2, <1>4
<1>6. QED
  BY <1>5

\* Layout::padding_needed_for adds less than the alignment.
LEMMA RoundUpFacts ==
  ASSUME NEW k \in Nat, NEW a \in Nat, a > 0
  PROVE  /\ RoundUp(k, a) \in Nat /\ RoundUp(k, a) % a = 0
         /\ k <= RoundUp(k, a) /\ RoundUp(k, a) < k + a
<1>1. PICK q \in Nat : q = (k + a - 1) \div a
  OBVIOUS
<1>2. PICK r \in Nat : r = (k + a - 1) % a /\ r < a
  OBVIOUS
<1>3. k + a - 1 = q * a + r
  BY <1>1, <1>2
<1>4. RoundUp(k, a) = q * a
  BY <1>1 DEF RoundUp
<1>5. q * a \in Nat /\ (q * a) % a = 0
  OBVIOUS
<1>6. k <= q * a /\ q * a < k + a
  BY <1>2, <1>3, <1>5
<1>7. QED
  BY <1>4, <1>5, <1>6

\* So a multiple needs none.
LEMMA RoundUpMultiple ==
  ASSUME NEW k \in Nat, NEW a \in Nat, a > 0, k % a = 0
  PROVE  RoundUp(k, a) = k
<1>1. PICK r \in Nat : r = RoundUp(k, a) /\ r % a = 0 /\ k <= r /\ r < k + a
  BY RoundUpFacts
<1>2. ~(k < r)
  BY <1>1, MultiplesApart
<1>3. QED
  BY <1>1, <1>2

LEMMA RoundUpIsLeast ==
  ASSUME NEW k \in Nat, NEW a \in Nat, a > 0
  PROVE  Least({o \in k .. k + a : o % a = 0}) = RoundUp(k, a)
<1>1. PICK r \in Nat : r = RoundUp(k, a) /\ r % a = 0 /\ k <= r /\ r < k + a
  BY RoundUpFacts
<1>2. ASSUME NEW y \in k .. k + a, y % a = 0
      PROVE  r <= y
  <2>1. y \in Nat
    OBVIOUS
  <2>2. ~(y < r)
    BY <1>1, <1>2, <2>1, MultiplesApart
  <2>3. QED
    BY <1>1, <2>1, <2>2
<1>3. PICK S : S = {o \in k .. k + a : o % a = 0}
  OBVIOUS
<1>4. r \in S /\ \A y \in S : r <= y /\ y \in Nat
  BY <1>1, <1>2, <1>3
<1>5. \A x \in S : (\A y \in S : x <= y) => x = r
  BY <1>1, <1>4
<1>6. Least(S) = r
  BY <1>4, <1>5 DEF Least
<1>7. QED
  BY <1>1, <1>3, <1>6

-----------------------------------------------------------------------------
(* Layouts *)

\* The layout of a type, array or struct, whatever its size.
Valid(l) ==
  /\ l \in Layouts /\ l.align > 0
  /\ l.size % l.align = 0 /\ (IsizeMax + 1) % l.align = 0

LEMMA SizedIsValid == \A l \in Sized : Valid(l)
BY LayoutAssumption DEF Valid, Layouts

LEMMA ArrayIsValid ==
  ASSUME NEW T, Valid(T), NEW len \in Nat
  PROVE  Valid(ArrayOf(T, len)) /\ ArrayOf(T, len).align = T.align
<1>1. T.size \in Nat /\ T.align \in Nat
  BY DEF Valid, Layouts
<1>2. T.size * len \in Nat /\ (T.size * len) % T.align = 0
  BY <1>1, ProductIsMultiple DEF Valid
<1>3. QED
  BY <1>1, <1>2 DEF Valid, ArrayOf, Layouts

\* A layout is refused if it is larger than isize::MAX, and only then.
LEMMA FitsIffNotTooLarge ==
  ASSUME NEW l, Valid(l)
  PROVE  Fits(l) <=> l.size <= IsizeMax
<1>1. /\ l.size \in Nat /\ l.align \in Nat /\ IsizeMax \in Nat
      /\ IsizeMax + 1 \in Nat
  BY LayoutAssumption DEF Valid, Layouts
<1>2. l.size < IsizeMax + 1 => l.size + l.align <= IsizeMax + 1
  BY <1>1, MultiplesApart DEF Valid
<1>3. QED
  BY <1>1, <1>2 DEF Fits, Valid

LEMMA OffsetFacts ==
  ASSUME NEW a, NEW b, Valid(a), Valid(b)
  PROVE  /\ FieldOffset(a, b) = RoundUp(a.size, b.align)
         /\ FieldOffset(a, b) \in Nat
         /\ FieldOffset(a, b) % b.align = 0
         /\ a.size <= FieldOffset(a, b)
<1>1. a.size \in Nat /\ b.align \in Nat /\ b.align > 0
  BY DEF Valid, Layouts
<1>2. QED
  BY <1>1, RoundUpIsLeast, RoundUpFacts DEF FieldOffset

LEMMA WiderIsMax ==
  ASSUME NEW a, NEW b, Valid(a), Valid(b)
  PROVE  /\ Max({a.align, b.align}) = Wider(a, b)
         /\ Wider(a, b) \in {a.align, b.align}
         /\ a.align <= Wider(a, b) /\ b.align <= Wider(a, b)
         /\ Wider(a, b) \in Nat /\ Wider(a, b) > 0
         /\ (IsizeMax + 1) % Wider(a, b) = 0
<1>1. a.align \in Nat /\ b.align \in Nat /\ a.align > 0 /\ b.align > 0
  BY DEF Valid, Layouts
<1>2. /\ Wider(a, b) \in {a.align, b.align}
      /\ a.align <= Wider(a, b) /\ b.align <= Wider(a, b)
  BY <1>1 DEF Wider
<1>3. Max({a.align, b.align}) = Wider(a, b)
  BY <1>1, <1>2 DEF Max
<1>4. QED
  BY <1>1, <1>2, <1>3 DEF Valid

\* Layout::extend and pad_to_align lay out as repr(C) does.
LEMMA ExtendIsReprC ==
  ASSUME NEW a, NEW b, Valid(a), Valid(b)
  PROVE  /\ PadToAlign(Extend(a, b)) = ReprC(a, b)
         /\ Valid(ReprC(a, b))
         /\ ReprC(a, b).align = Wider(a, b)
         /\ FieldOffset(a, b) + b.size <= ReprC(a, b).size
<1>1. PICK o \in Nat, w \in Nat, e \in Nat :
        /\ o = RoundUp(a.size, b.align) /\ o = FieldOffset(a, b)
        /\ w = Wider(a, b) /\ w = Max({a.align, b.align})
        /\ w > 0 /\ (IsizeMax + 1) % w = 0
        /\ e = o + b.size
  <2>1. /\ FieldOffset(a, b) \in Nat /\ RoundUp(a.size, b.align) = FieldOffset(a, b)
        /\ Wider(a, b) = Max({a.align, b.align})
        /\ Wider(a, b) \in Nat /\ Wider(a, b) > 0
        /\ (IsizeMax + 1) % Wider(a, b) = 0
    BY OffsetFacts, WiderIsMax
  <2>2. b.size \in Nat
    BY DEF Valid, Layouts
  <2>3. FieldOffset(a, b) + b.size \in Nat
    BY <2>1, <2>2
  <2>4. QED
    BY <2>1, <2>3
<1>2. PICK r \in Nat :
        r = RoundUp(e, w) /\ r % w = 0 /\ e <= r
  BY <1>1, RoundUpFacts
<1>3. Extend(a, b) = [size |-> e, align |-> w]
  BY <1>1 DEF Extend
<1>4. PadToAlign(Extend(a, b)) = [size |-> r, align |-> w]
  BY <1>2, <1>3 DEF PadToAlign
<1>5. Least({x \in e .. e + w : x % w = 0}) = r
  BY <1>1, <1>2, RoundUpIsLeast
<1>6. ReprC(a, b) = [size |-> r, align |-> w]
  BY <1>1, <1>5 DEF ReprC
<1>7. QED
  BY <1>1, <1>2, <1>4, <1>6 DEF Valid, Layouts

\* What Layout::extend computes is refused exactly if the struct is too large,
\* padding included.
LEMMA ExtendFits ==
  ASSUME NEW a, NEW b, Valid(a), Valid(b)
  PROVE  Fits(Extend(a, b)) <=> ReprC(a, b).size <= IsizeMax
<1>1. PICK o \in Nat, w \in Nat, e \in Nat :
        /\ o = RoundUp(a.size, b.align) /\ o = FieldOffset(a, b)
        /\ w = Wider(a, b) /\ w > 0 /\ (IsizeMax + 1) % w = 0
        /\ e = o + b.size
  <2>1. /\ FieldOffset(a, b) \in Nat /\ RoundUp(a.size, b.align) = FieldOffset(a, b)
        /\ Wider(a, b) \in Nat /\ Wider(a, b) > 0
        /\ (IsizeMax + 1) % Wider(a, b) = 0
    BY OffsetFacts, WiderIsMax
  <2>2. b.size \in Nat
    BY DEF Valid, Layouts
  <2>3. FieldOffset(a, b) + b.size \in Nat
    BY <2>1, <2>2
  <2>4. QED
    BY <2>1, <2>3
<1>2. Extend(a, b) = [size |-> e, align |-> w]
  BY <1>1 DEF Extend
<1>3. PICK r \in Nat :
        r = RoundUp(e, w) /\ r % w = 0 /\ e <= r /\ r < e + w
  BY <1>1, RoundUpFacts
<1>4. ReprC(a, b).size = r
  BY <1>2, <1>3, ExtendIsReprC DEF PadToAlign
<1>5. IsizeMax \in Nat /\ IsizeMax + 1 \in Nat
  BY LayoutAssumption
<1>6. r < IsizeMax + 1 => r + w <= IsizeMax + 1
  BY <1>1, <1>3, <1>5, MultiplesApart
<1>7. Fits(Extend(a, b)) <=> e <= IsizeMax + 1 - w
  BY <1>2 DEF Fits
<1>8. e <= IsizeMax + 1 - w <=> r <= IsizeMax
  BY <1>1, <1>3, <1>5, <1>6
<1>9. QED
  BY <1>4, <1>7, <1>8

\* A struct that begins with () is like its other field.
LEMMA UnitFirst ==
  ASSUME NEW b, Valid(b), b = [size |-> b.size, align |-> b.align]
  PROVE  FieldOffset(Unit, b) = 0 /\ ReprC(Unit, b) = b
<1>1. Valid(Unit) /\ Unit.size = 0 /\ Unit.align = 1
  BY LayoutAssumption, SizedIsValid DEF Unit
<1>2. b.size \in Nat /\ b.align \in Nat /\ b.align > 0 /\ b.size % b.align = 0
  BY DEF Valid, Layouts
<1>3. RoundUp(0, b.align) = 0
  BY <1>2, RoundUpMultiple
<1>4. RoundUp(b.size, b.align) = b.size
  BY <1>2, RoundUpMultiple
<1>5. Wider(Unit, b) = b.align
  BY <1>1, <1>2 DEF Wider
<1>6. PadToAlign(Extend(Unit, b)) = [size |-> b.size, align |-> b.align]
  BY <1>1, <1>2, <1>3, <1>4, <1>5 DEF PadToAlign, Extend
<1>7. QED
  BY <1>1, <1>3, <1>6, OffsetFacts, ExtendIsReprC

-----------------------------------------------------------------------------
(* The block *)

Views == {"HeaderSlice", "slice", "value"}

Input == header \in Sized /\ elem \in Sized /\ n \in 0 .. MaxLen

\* An Arc<[T]> is only made of a HeaderSlice that begins with (), and the T of
\* a box has no header.
Headless == view \in {"slice", "value"} => header = Unit

\* The pointer is where the current view of the block expects it.
Placed ==
  /\ Allocated => view \in Views /\ slice = DataOffset(view) + SliceIn(view)
  /\ state = "Arc" => ptr = 0
  /\ state = "raw" => ptr = DataOffset(view)

Inv == Input /\ Headless /\ Placed /\ FreedAsAllocated /\ PanicsIffTooLarge

LEMMA InputFacts ==
  ASSUME Input
  PROVE  /\ Valid(header) /\ Valid(elem) /\ Valid(Word) /\ n \in Nat
         /\ Valid(ArrayOf(elem, n)) /\ ArrayOf(elem, n).align = elem.align
         /\ \A v \in Views : Valid(Data(v))
<1>1. Valid(header) /\ Valid(elem) /\ Valid(Word) /\ n \in Nat
  BY LayoutAssumption, SizedIsValid DEF Input
<1>2. Valid(ArrayOf(elem, n)) /\ ArrayOf(elem, n).align = elem.align
  BY <1>1, ArrayIsValid
<1>3. Valid(ReprC(header, ArrayOf(elem, n)))
  BY <1>1, <1>2, ExtendIsReprC
<1>4. QED
  BY <1>1, <1>2, <1>3 DEF Data

\* allocate_for_layout allocates what the compiler expects, or panics because
\* that is too large.
LEMMA AllocatesForValue ==
  ASSUME Input, NEW v \in Views
  PROVE  /\ ArcInnerLayout(Data(v)) = ForValue(v)
         /\ Unwraps(Data(v)) <=> TooLarge(v)
<1>1. Valid(Word) /\ Valid(Data(v))
  BY InputFacts DEF Views
<1>2. ForValue(v).size \in Nat /\ IsizeMax \in Nat
  BY <1>1, ExtendIsReprC, LayoutAssumption DEF ForValue, Valid, Layouts
<1>3. QED
  BY <1>1, <1>2, ExtendIsReprC, ExtendFits
     DEF ArcInnerLayout, ForValue, Unwraps, TooLarge

\* A cast between the views of a block changes no layout and no offset.
LEMMA ViewsAlike ==
  ASSUME Input, header = Unit
  PROVE  \A v \in Views : /\ Data(v) = Data("slice") /\ SliceIn(v) = 0
                          /\ ForValue(v) = ForValue("slice")
                          /\ DataOffset(v) = DataOffset("slice")
<1>1. Valid(ArrayOf(elem, n))
  BY InputFacts
<1>2. ArrayOf(elem, n) = [size |-> ArrayOf(elem, n).size,
                          align |-> ArrayOf(elem, n).align]
  BY DEF ArrayOf
<1>3. /\ FieldOffset(Unit, ArrayOf(elem, n)) = 0
      /\ ReprC(Unit, ArrayOf(elem, n)) = ArrayOf(elem, n)
  BY <1>1, <1>2, UnitFirst
<1>4. \A v \in Views : Data(v) = Data("slice")
  BY <1>3 DEF Data, Views
<1>5. QED
  BY <1>3, <1>4 DEF SliceIn, ForValue, DataOffset

\* Neither the array nor the HeaderSlice is refused unless the whole is.
LEMMA PartsFit ==
  ASSUME Input
  PROVE  LET array == ArrayOf(elem, n)
             data  == Extend(header, array)
         IN  /\ PadToAlign(data) = Data("HeaderSlice")
             /\ ~(Fits(array) /\ Fits(data)) => TooLarge("HeaderSlice")
<1>. DEFINE array == ArrayOf(elem, n)
            data  == Data("HeaderSlice")
<1>1. Valid(header) /\ Valid(array) /\ Valid(Word) /\ Valid(data)
  BY InputFacts DEF Views
<1>2. data = ReprC(header, array)
  BY DEF Data
<1>3. ForValue("HeaderSlice") = ReprC(Word, data)
  BY DEF ForValue
<1>. HIDE DEF array, data
<1>4. PICK a \in Nat, d \in Nat, o \in Nat, p \in Nat, i \in Nat :
        /\ a = array.size /\ d = data.size /\ i = ReprC(Word, data).size
        /\ o = FieldOffset(header, array) /\ p = FieldOffset(Word, data)
  BY <1>1, OffsetFacts, ExtendIsReprC DEF Valid, Layouts
<1>5. o + a <= d
  BY <1>1, <1>2, <1>4, ExtendIsReprC
<1>6. p + d <= i
  BY <1>1, <1>4, ExtendIsReprC
<1>7. Fits(array) <=> a <= IsizeMax
  BY <1>1, <1>4, FitsIffNotTooLarge
<1>8. Fits(Extend(header, array)) <=> d <= IsizeMax
  BY <1>1, <1>2, <1>4, ExtendFits
<1>9. ~(Fits(array) /\ Fits(Extend(header, array))) => i > IsizeMax
  BY <1>4, <1>5, <1>6, <1>7, <1>8, LayoutAssumption
<1>10. PadToAlign(Extend(header, array)) = data
  BY <1>1, <1>2, ExtendIsReprC
<1>11. QED
  BY <1>3, <1>4, <1>9, <1>10 DEF TooLarge, array, data

\* Layouts depend on the input alone.
LEMMA SameInput ==
  ASSUME UNCHANGED input, NEW v
  PROVE  /\ ForValue(v)' = ForValue(v) /\ TooLarge(v)' = TooLarge(v)
         /\ DataOffset(v)' = DataOffset(v) /\ SliceIn(v)' = SliceIn(v)
BY DEF input, ForValue, TooLarge, DataOffset, SliceIn, Data

-----------------------------------------------------------------------------
(* The steps *)

LEMMA AllocateStep ==
  ASSUME Inv, NEW v \in Views, v # "HeaderSlice" => header = Unit,
         Allocate(Data(v), v)
  PROVE  Inv'
<1>1. /\ header' = header /\ elem' = elem /\ n' = n
      /\ ForValue(v)' = ForValue(v) /\ TooLarge(v)' = TooLarge(v)
      /\ DataOffset(v)' = DataOffset(v) /\ SliceIn(v)' = SliceIn(v)
      /\ TooLarge("HeaderSlice")' = TooLarge("HeaderSlice")
  BY SameInput DEF Allocate, input
<1>2. /\ ArcInnerLayout(Data(v)) = ForValue(v)
      /\ Unwraps(Data(v)) <=> TooLarge(v)
  BY AllocatesForValue DEF Inv
<1>3. Input'
  BY <1>1 DEF Inv, Input
<1>4. CASE Unwraps(Data(v))
  <2>1. state' = "panicked" /\ view' = view
    BY <1>4 DEF Allocate
  <2>2. TooLarge("HeaderSlice")
    BY <1>2, <1>4, ViewsAlike DEF Inv, Views, TooLarge
  <2>3. QED
    BY <1>1, <1>3, <2>1, <2>2
       DEF Inv, Headless, Placed, FreedAsAllocated, PanicsIffTooLarge, Allocated
<1>5. CASE ~Unwraps(Data(v))
  <2>1. /\ state' = "Arc" /\ view' = v /\ ptr' = 0
        /\ block' = ForValue(v) /\ slice' = DataOffset(v) + SliceIn(v)
    BY <1>2, <1>5 DEF Allocate
  <2>2. /\ ForValue(view)' = ForValue(v) /\ TooLarge(view)' = TooLarge(v)
        /\ DataOffset(view)' = DataOffset(v) /\ SliceIn(view)' = SliceIn(v)
    BY <1>1, <2>1 DEF ForValue, TooLarge, DataOffset, SliceIn, Data
  <2>3. QED
    BY <1>1, <1>2, <1>3, <1>5, <2>1, <2>2
       DEF Inv, Headless, Placed, FreedAsAllocated, PanicsIffTooLarge, Allocated
<1>6. QED
  BY <1>4, <1>5

LEMMA AllocateForHeaderAndSliceStep ==
  ASSUME Inv, AllocateForHeaderAndSlice
  PROVE  Inv'
<1>1. /\ PadToAlign(Extend(header, ArrayOf(elem, n))) = Data("HeaderSlice")
      /\ ~(Fits(ArrayOf(elem, n)) /\ Fits(Extend(header, ArrayOf(elem, n))))
           => TooLarge("HeaderSlice")
  BY PartsFit DEF Inv
<1>2. CASE Fits(ArrayOf(elem, n)) /\ Fits(Extend(header, ArrayOf(elem, n)))
  <2>1. Allocate(Data("HeaderSlice"), "HeaderSlice")
    BY <1>1, <1>2 DEF AllocateForHeaderAndSlice
  <2>2. QED
    BY <2>1, AllocateStep DEF Views
<1>3. CASE ~(Fits(ArrayOf(elem, n)) /\ Fits(Extend(header, ArrayOf(elem, n))))
  <2>1. /\ state' = "panicked" /\ TooLarge("HeaderSlice")
        /\ UNCHANGED <<input, block, slice, view, ptr>>
    BY <1>1, <1>3 DEF AllocateForHeaderAndSlice
  <2>2. TooLarge("HeaderSlice")'
    BY <2>1, SameInput
  <2>3. QED
    BY <2>1, <2>2 DEF Inv, Input, input, Headless, Placed, FreedAsAllocated,
                      PanicsIffTooLarge, Allocated
<1>4. QED
  BY <1>2, <1>3

LEMMA AllocateForBoxStep ==
  ASSUME Inv, AllocateForBox
  PROVE  Inv'
<1>1. Data("value") = ArrayOf(elem, n) /\ header = Unit
  BY DEF Data, AllocateForBox
<1>2. Allocate(Data("value"), "value")
  BY <1>1 DEF AllocateForBox
<1>3. QED
  BY <1>1, <1>2, AllocateStep DEF Views

LEMMA CastStep ==
  ASSUME Inv, NEW v \in Views, Cast(v)
  PROVE  Inv'
<1>1. /\ state = "Arc" /\ header = Unit /\ view \in Views /\ Input
      /\ view' = v /\ state' = state
      /\ UNCHANGED <<input, block, slice, ptr>>
  BY DEF Cast, Inv, Placed, Allocated
<1>2. /\ ForValue(view) = ForValue(v) /\ TooLarge(view) = TooLarge(v)
      /\ DataOffset(view) = DataOffset(v) /\ SliceIn(view) = SliceIn(v)
  BY <1>1, ViewsAlike DEF Views, TooLarge
<1>3. /\ ForValue(view)' = ForValue(v) /\ TooLarge(view)' = TooLarge(v)
      /\ DataOffset(view)' = DataOffset(v) /\ SliceIn(view)' = SliceIn(v)
  BY <1>1 DEF input, ForValue, TooLarge, DataOffset, SliceIn, Data
<1>4. QED
  BY <1>1, <1>2, <1>3 DEF Inv, Input, input, Headless, Placed,
     FreedAsAllocated, PanicsIffTooLarge, Allocated

LEMMA SameView ==
  ASSUME UNCHANGED <<input, view>>
  PROVE  /\ ForValue(view)' = ForValue(view) /\ TooLarge(view)' = TooLarge(view)
         /\ DataOffset(view)' = DataOffset(view) /\ SliceIn(view)' = SliceIn(view)
BY DEF input, ForValue, TooLarge, DataOffset, SliceIn, Data

LEMMA IntoRawStep ==
  ASSUME Inv, IntoRaw
  PROVE  Inv'
<1>1. DataOffset(view) \in Nat
  BY InputFacts, OffsetFacts DEF IntoRaw, Inv, Placed, Allocated, DataOffset, Views
<1>2. /\ state = "Arc" /\ ptr = 0 /\ ptr' = DataOffset(view) /\ state' = "raw"
      /\ UNCHANGED <<input, block, slice, view>>
  BY <1>1 DEF IntoRaw, Inv, Placed
<1>3. QED
  BY <1>2, SameView DEF Inv, Input, input, Headless, Placed, FreedAsAllocated,
     PanicsIffTooLarge, Allocated

\* The offset from_raw_slice subtracts is that of an element, which is the one
\* that into_raw added, that of the slice: their alignments are the same.
LEMMA FromRawStep ==
  ASSUME Inv, NEW v \in {"slice", "value"}, FromRawAs(v)
  PROVE  Inv'
<1>1. Input /\ Valid(Word) /\ Valid(elem) /\ Valid(ArrayOf(elem, n))
      /\ ArrayOf(elem, n).align = elem.align
  BY InputFacts DEF Inv
<1>2. RawOffset(elem) = DataOffset(v) /\ RawOffset(elem) \in Nat
  BY <1>1, OffsetFacts DEF RawOffset, DataOffset, Data
<1>3. /\ state = "raw" /\ view = v /\ ptr = DataOffset(view)
      /\ ptr' = 0 /\ state' = "Arc"
      /\ UNCHANGED <<input, block, slice, view>>
  BY <1>2 DEF FromRawAs, Inv, Placed
<1>4. QED
  BY <1>3, SameView DEF Inv, Input, input, Headless, Placed, FreedAsAllocated,
     PanicsIffTooLarge, Allocated

LEMMA FreeStep ==
  ASSUME Inv, Free
  PROVE  Inv'
<1>1. /\ state = "Arc" /\ state' = "freed"
      /\ UNCHANGED <<input, block, slice, view, ptr>>
  BY DEF Free
<1>2. QED
  BY <1>1, SameView DEF Inv, Input, input, Headless, Placed, FreedAsAllocated,
     PanicsIffTooLarge, Allocated

LEMMA Start == Init => Inv
BY DEF Init, Inv, Input, Headless, Placed, FreedAsAllocated,
       PanicsIffTooLarge, Allocated

LEMMA Step ==
  ASSUME Inv, [Next]_vars
  PROVE  Inv'
<1>1. CASE Next
  BY <1>1, AllocateForHeaderAndSliceStep, AllocateForBoxStep, CastStep,
     IntoRawStep, FromRawStep, FreeStep DEF Next, Views, FromRaw, FromRawSlice
<1>2. CASE UNCHANGED vars
  <2>1. UNCHANGED <<input, view>> /\ UNCHANGED <<block, slice, ptr, state>>
    BY <1>2 DEF vars, input
  <2>2. TooLarge("HeaderSlice")' = TooLarge("HeaderSlice")
    BY <2>1, SameInput
  <2>3. QED
    BY <2>1, <2>2, SameView DEF Inv, Input, input, Headless, Placed,
       FreedAsAllocated, PanicsIffTooLarge, Allocated
<1>3. QED
  BY <1>1, <1>2

LEMMA Invariant == Spec => []Inv
<1>1. Inv /\ [Next]_vars => Inv'
  BY Step
<1>2. QED
  BY <1>1, Start, PTL DEF Spec

-----------------------------------------------------------------------------
(* The properties *)

\* Wherever the block is, what is at an offset of the current view is inside
\* it and aligned.
LEMMA ElementsFollow ==
  ASSUME Inv
  PROVE  ElementsFound
<1>. SUFFICES ASSUME Allocated
              PROVE  /\ slice % elem.align = 0 /\ elem.align <= block.align
                     /\ slice + n * elem.size <= block.size
                     /\ Word.size <= slice
  BY DEF Inv, Placed, ElementsFound
<1>. DEFINE array == ArrayOf(elem, n)
            data  == Data(view)
<1>1. /\ Input /\ Valid(Word) /\ Valid(elem) /\ Valid(header) /\ Valid(array)
      /\ array.align = elem.align /\ n \in Nat
      /\ view \in Views /\ Valid(data)
  BY InputFacts DEF Inv, Placed, Views
<1>2. slice = FieldOffset(Word, data) + SliceIn(view) /\ block = ReprC(Word, data)
  BY DEF Inv, Placed, FreedAsAllocated, DataOffset, ForValue
\* The slice in the data
<1>3. /\ SliceIn(view) \in Nat /\ SliceIn(view) % elem.align = 0
      /\ SliceIn(view) + array.size <= data.size
      /\ elem.align <= data.align /\ data.align % elem.align = 0
  <2>1. CASE view \in {"slice", "value"}
    <3>1. data = array /\ SliceIn(view) = 0
      BY <2>1 DEF Data, SliceIn
    <3>2. /\ elem.align \in Nat /\ elem.align > 0 /\ array.size \in Nat
      BY <1>1 DEF Valid, Layouts
    <3>3. elem.align % elem.align = 0 /\ 0 % elem.align = 0
      BY <3>2
    <3>4. QED
      BY <1>1, <3>1, <3>2, <3>3
  <2>2. CASE view = "HeaderSlice"
    <3>1. data = ReprC(header, array) /\ SliceIn(view) = FieldOffset(header, array)
      BY <2>2 DEF Data, SliceIn
    <3>2. data.align = Wider(header, array) /\ elem.align <= Wider(header, array)
      BY <1>1, <3>1, ExtendIsReprC, WiderIsMax
    <3>3. header.align \in Nat /\ elem.align \in Nat /\ elem.align > 0
      BY <1>1 DEF Valid, Layouts
    <3>4. Wider(header, array) \in {header.align, elem.align}
      BY <1>1, WiderIsMax
    <3>5. Wider(header, array) % elem.align = 0
      <4>1. elem \in Sized /\ header \in Sized
        BY <1>1 DEF Input
      <4>2. CASE Wider(header, array) = header.align
        BY <3>2, <4>1, <4>2, LayoutAssumption
      <4>3. CASE Wider(header, array) = elem.align
        BY <3>3, <4>3
      <4>4. QED
        BY <3>4, <4>2, <4>3
    <3>6. QED
      BY <1>1, <3>1, <3>2, <3>5, OffsetFacts, ExtendIsReprC
  <2>3. QED
    BY <1>1, <2>1, <2>2 DEF Views
\* The data in the block
<1>4. /\ FieldOffset(Word, data) \in Nat /\ Word.size <= FieldOffset(Word, data)
      /\ FieldOffset(Word, data) % data.align = 0
      /\ FieldOffset(Word, data) + data.size <= block.size
      /\ data.align <= block.align
  <2>1. /\ FieldOffset(Word, data) \in Nat /\ Word.size <= FieldOffset(Word, data)
        /\ FieldOffset(Word, data) % data.align = 0
    BY <1>1, OffsetFacts
  <2>2. /\ FieldOffset(Word, data) + data.size <= ReprC(Word, data).size
        /\ ReprC(Word, data).align = Wider(Word, data)
    BY <1>1, ExtendIsReprC
  <2>3. data.align <= Wider(Word, data)
    BY <1>1, WiderIsMax
  <2>4. QED
    BY <1>2, <2>1, <2>2, <2>3
<1>5. array.size = n * elem.size
  BY <1>1 DEF ArrayOf, Valid, Layouts
<1>. HIDE DEF array, data
<1>6. /\ elem.align \in Nat /\ elem.align > 0 /\ data.align \in Nat
      /\ data.align > 0 /\ data.size \in Nat /\ array.size \in Nat
      /\ Word.size \in Nat
  BY <1>1 DEF Valid, Layouts
<1>7. block.size \in Nat /\ block.align \in Nat
  BY <1>1, <1>2, ExtendIsReprC DEF Valid, Layouts
<1>8. PICK o \in Nat, i \in Nat :
        o = FieldOffset(Word, data) /\ i = SliceIn(view) /\ slice = o + i
  BY <1>2, <1>3, <1>4
<1>9. slice % elem.align = 0
  <2>1. o % elem.align = 0
    BY <1>3, <1>4, <1>6, <1>8, MultipleOfMultiple
  <2>2. QED
    BY <1>3, <1>6, <1>8, <2>1, SumIsMultiple
<1>10. slice + n * elem.size <= block.size /\ Word.size <= slice
  <2>1. slice + array.size <= block.size /\ Word.size <= slice
    BY <1>3, <1>4, <1>6, <1>7, <1>8
  <2>2. QED
    BY <1>5, <2>1
<1>11. elem.align <= block.align
  BY <1>3, <1>4, <1>6, <1>7
<1>12. QED
  BY <1>9, <1>10, <1>11

\* What allocate_for_layout computes is the layout of the value that is made
\* in it, and remains so: the Box is freed with the layout of its allocation.
THEOREM BlocksFreedAsAllocated == Spec => []FreedAsAllocated
<1>1. Inv => FreedAsAllocated
  BY DEF Inv
<1>2. QED
  BY <1>1, Invariant, PTL

\* Allocation panics exactly if the value would be larger than isize::MAX.
THEOREM PanicsExactly == Spec => []PanicsIffTooLarge
<1>1. Inv => PanicsIffTooLarge
  BY DEF Inv
<1>2. QED
  BY <1>1, Invariant, PTL

\* Through casts, into_raw, from_raw and from_raw_slice, an Arc finds the elements where
\* they were written: aligned, behind the counter and inside the block.
THEOREM ElementsAreFound == Spec => []ElementsFound
<1>1. Inv => ElementsFound
  BY ElementsFollow
<1>2. QED
  BY <1>1, Invariant, PTL

=============================================================================
