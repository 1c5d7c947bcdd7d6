---------------------------- MODULE GeometryProofs ----------------------------
(***************************************************************************)
(* For every array, window, pair of region writes and axis: what the       *)
(* algorithms compute from edges and indices is what the reference says of *)
(* cells and instants.                                                     *)
(***************************************************************************)
EXTENDS Geometry, FiniteSetTheorems, WellFoundedInduction, TLAPS

-----------------------------------------------------------------------------
(* Numbers.                                                                *)

\* What the quotient of a number is, and that nothing else is.
LEMMA Quotient ==
  ASSUME NEW a \in Int, NEW n \in Positive
  PROVE  /\ a \div n \in Int
         /\ n * (a \div n) <= a /\ a < n * (a \div n) + n
         /\ a % n = a - n * (a \div n)
BY DEF Positive

LEMMA QuotientIs ==
  ASSUME NEW a \in Int, NEW n \in Positive, NEW q \in Int, n * q <= a, a < n * q + n
  PROVE  a \div n = q
<1> DEFINE p == a \div n
<1>1. p \in Int /\ n * p <= a /\ a < n * p + n
  BY Quotient
<1>2. n \in Nat /\ n > 0
  BY DEF Positive
<1> HIDE DEF p
<1>3. ASSUME p > q PROVE FALSE
  <2>1. n * p >= n * (q + 1)
    BY <1>1, <1>2, <1>3
  <2>2. n * (q + 1) = n * q + n
    BY <1>2
  <2> QED
    BY <1>1, <1>2, <2>1, <2>2
<1>4. ASSUME p < q PROVE FALSE
  <2>1. n * q >= n * (p + 1)
    BY <1>1, <1>2, <1>4
  <2>2. n * (p + 1) = n * p + n
    BY <1>1, <1>2
  <2> QED
    BY <1>1, <1>2, <2>1, <2>2
<1>5. p = q
  BY <1>1, <1>3, <1>4
<1> QED
  BY <1>5 DEF p

\* Quotients are in the order of the numbers.
LEMMA QuotientGrows ==
  ASSUME NEW a \in Int, NEW b \in Int, a <= b, NEW n \in Positive
  PROVE  a \div n <= b \div n
<1> DEFINE p == a \div n
           q == b \div n
<1>1. p \in Int /\ n * p <= a /\ a < n * p + n
  BY Quotient
<1>2. q \in Int /\ n * q <= b /\ b < n * q + n
  BY Quotient
<1>3. n \in Nat /\ n > 0
  BY DEF Positive
<1> HIDE DEF p, q
<1>4. ASSUME p > q PROVE FALSE
  <2>1. n * p >= n * (q + 1)
    BY <1>1, <1>2, <1>3, <1>4
  <2>2. n * (q + 1) = n * q + n
    BY <1>2, <1>3
  <2> QED
    BY <1>1, <1>2, <1>3, <2>1, <2>2
<1>5. p <= q
  BY <1>1, <1>2, <1>4
<1> QED
  BY <1>5 DEF p, q

LEMMA LeastOfTwo ==
  ASSUME NEW a \in Int, NEW b \in Int
  PROVE  /\ Min({a, b}) = IF a <= b THEN a ELSE b
         /\ Max({a, b}) = IF a <= b THEN b ELSE a
BY DEF Min, Max

\* A set of natural numbers has a least one.
LEMMA LeastNatural ==
  ASSUME NEW S \in SUBSET Nat, S # {}
  PROVE  \E x \in S : \A y \in S : x <= y
<1> DEFINE R == OpToRel(<, Nat)
<1>1. IsWellFoundedOn(R, Nat)
  BY NatLessThanWellFounded
<1> HIDE DEF R
<1>2. PICK x \in S : \A y \in S : <<y, x>> \notin R
  BY <1>1, WFMin
<1>3. \A y \in S : y < x => <<y, x>> \in R
  BY DEF R, OpToRel
<1>4. \A y \in S : ~(y < x)
  BY <1>2, <1>3
<1> QED
  BY <1>2, <1>4

LEMMA MinIsLeast ==
  ASSUME NEW S \in SUBSET Nat, S # {}
  PROVE  Min(S) \in S /\ \A y \in S : Min(S) <= y
<1>1. \E x \in S : \A y \in S : x <= y
  BY LeastNatural
<1> QED
  BY <1>1 DEF Min

\* A number of an interval lies between two neighbouring edges.
LEMMA Neighbours ==
  ASSUME NEW a \in Int, NEW b \in Int, NEW cuts \in SUBSET (a..b), a \in cuts, b \in cuts,
         NEW t \in Int, a <= t, t < b
  PROVE  \E p \in Pairwise(cuts) : p[1] <= t /\ t < p[2]
<1> DEFINE below == {t - c : c \in {c \in cuts : c <= t}}
           above == {c - t : c \in {c \in cuts : c > t}}
<1>1. below \in SUBSET Nat /\ t - a \in below
  OBVIOUS
<1>2. above \in SUBSET Nat /\ b - t \in above
  OBVIOUS
<1>3. PICK x \in below : \A y \in below : x <= y
  BY <1>1, LeastNatural
<1>4. PICK z \in above : \A y \in above : z <= y
  BY <1>2, LeastNatural
<1>5. PICK c \in cuts : c <= t /\ x = t - c
  BY <1>3
<1>6. PICK d \in cuts : d > t /\ z = d - t
  BY <1>4
<1>7. \A e \in cuts : e <= t => e <= c
  <2> SUFFICES ASSUME NEW e \in cuts, e <= t PROVE e <= c
    OBVIOUS
  <2>1. t - e \in below
    OBVIOUS
  <2>2. x <= t - e
    BY <1>3, <2>1
  <2>3. e \in Int /\ c \in Int
    OBVIOUS
  <2> QED
    BY <1>5, <2>2, <2>3
<1>8. \A e \in cuts : e > t => e >= d
  <2> SUFFICES ASSUME NEW e \in cuts, e > t PROVE e >= d
    OBVIOUS
  <2>1. e - t \in above
    OBVIOUS
  <2>2. z <= e - t
    BY <1>4, <2>1
  <2>3. e \in Int /\ d \in Int
    OBVIOUS
  <2> QED
    BY <1>6, <2>2, <2>3
<1>9. <<c, d>> \in Pairwise(cuts)
  BY <1>5, <1>6, <1>7, <1>8 DEF Pairwise
<1> QED
  BY <1>5, <1>6, <1>9

-----------------------------------------------------------------------------
(* Units.                                                                  *)

\* The units an interval touches are those of its numbers (chunk_axis_range).
LEMMA RangeIsUnits ==
  ASSUME NEW a \in Int, NEW b \in Int, NEW n \in Positive
  PROVE  ChunkAxisRange(a, b, n) = {t \div n : t \in a..(b - 1)}
<1>1. CASE b <= a
  BY <1>1 DEF ChunkAxisRange
<1>2. CASE b > a
  <2>1. ChunkAxisRange(a, b, n) = (a \div n)..((b - 1) \div n)
    BY <1>2 DEF ChunkAxisRange
  <2>2. ASSUME NEW t \in a..(b - 1) PROVE t \div n \in (a \div n)..((b - 1) \div n)
    BY QuotientGrows, Quotient
  <2>3. ASSUME NEW q \in (a \div n)..((b - 1) \div n) PROVE \E t \in a..(b - 1) : t \div n = q
    <3>1. CASE q = a \div n
      BY <1>2, <3>1
    <3>2. CASE q # a \div n
      <4>1. n \in Nat /\ n > 0
        BY DEF Positive
      <4> DEFINE p == a \div n
                 r == (b - 1) \div n
      <4>2. p \in Int /\ n * p <= a /\ a < n * p + n
        BY Quotient
      <4>3. r \in Int /\ n * r <= b - 1
        BY Quotient
      <4>4. q \in Int /\ q >= p + 1 /\ q <= r
        BY <2>3, <3>2, <4>2, <4>3
      <4> HIDE DEF p, r
      <4>5. n * q >= n * (p + 1) /\ n * (p + 1) = n * p + n
        BY <4>1, <4>2, <4>4
      <4>6. n * q <= n * r
        BY <4>1, <4>3, <4>4
      <4>7. n * q \in a..(b - 1)
        BY <4>1, <4>2, <4>3, <4>4, <4>5, <4>6
      <4>8. (n * q) \div n = q
        BY <4>1, <4>4, <4>7, QuotientIs
      <4> QED
        BY <4>7, <4>8
    <3> QED
      BY <3>1, <3>2
  <2> QED
    BY <2>1, <2>2, <2>3
<1> QED
  BY <1>1, <1>2

IsBox(box) == box \in (Int \X Int) \X (Int \X Int)

\* The units a box touches are those of its cells (units_touched).
LEMMA TouchedAreUnits ==
  ASSUME NEW box, IsBox(box), NEW unit \in Positive \X Positive
  PROVE  UnitsTouched(box, unit) = {UnitOf(c, unit) : c \in Cells(box)}
<1> DEFINE A == box[1][1]..(box[1][2] - 1)
           B == box[2][1]..(box[2][2] - 1)
<1>1. ChunkAxisRange(box[1][1], box[1][2], unit[1]) = {t \div unit[1] : t \in A}
  BY RangeIsUnits DEF IsBox
<1>2. ChunkAxisRange(box[2][1], box[2][2], unit[2]) = {t \div unit[2] : t \in B}
  BY RangeIsUnits DEF IsBox
<1>3. UnitsTouched(box, unit) = {t \div unit[1] : t \in A} \X {t \div unit[2] : t \in B}
  BY <1>1, <1>2 DEF UnitsTouched
<1>4. {UnitOf(c, unit) : c \in Cells(box)} =
        {<<c[1] \div unit[1], c[2] \div unit[2]>> : c \in A \X B}
  BY DEF UnitOf, Cells
<1> HIDE DEF A, B
<1>5. ASSUME NEW u \in {t \div unit[1] : t \in A} \X {t \div unit[2] : t \in B}
      PROVE  \E c \in A \X B : u = <<c[1] \div unit[1], c[2] \div unit[2]>>
  <2>1. PICK t \in A : u[1] = t \div unit[1]
    OBVIOUS
  <2>2. PICK r \in B : u[2] = r \div unit[2]
    OBVIOUS
  <2>3. <<t, r>> \in A \X B /\ u = <<u[1], u[2]>>
    OBVIOUS
  <2> WITNESS <<t, r>> \in A \X B
  <2> QED
    BY <2>1, <2>2, <2>3
<1>6. \A c \in A \X B : c[1] \in A /\ c[2] \in B
  OBVIOUS
<1> QED
  BY <1>3, <1>4, <1>5, <1>6

\* The cells a unit has in an array, along one axis.
LEMMA SpanOfUnit ==
  ASSUME NEW n \in Positive, NEW length \in Nat, NEW q \in Nat, NEW t \in Int
  PROVE  LET stop == Min({(q + 1) * n, length})
         IN /\ stop \in Int /\ q * n \in Int
            /\ q * n <= t /\ t < stop <=> 0 <= t /\ t < length /\ t \div n = q
<1> DEFINE stop == Min({(q + 1) * n, length})
<1>0. n \in Nat /\ n > 0
  BY DEF Positive
<1>1. (q + 1) * n = n * q + n /\ q * n = n * q /\ n * q \in Nat
  BY <1>0
<1>2. stop = IF n * q + n <= length THEN n * q + n ELSE length
  BY <1>0, <1>1, LeastOfTwo
<1>3. ASSUME q * n <= t, t < stop PROVE 0 <= t /\ t < length /\ t \div n = q
  BY <1>0, <1>1, <1>2, <1>3, QuotientIs
<1>4. ASSUME 0 <= t, t < length, t \div n = q PROVE q * n <= t /\ t < stop
  BY <1>0, <1>1, <1>2, <1>4, Quotient
<1> QED
  BY <1>0, <1>1, <1>2, <1>3, <1>4

-----------------------------------------------------------------------------
(* Windows.                                                                *)

\* The first and the last unit of a window are all it can share.
LEMMA WindowsAreExact ==
  ASSUME NEW size \in Positive, NEW length \in Nat, NEW window \in Int \X Int
  PROVE  SharedUnitsAreExact(size, length, window)
<1> DEFINE start == Max({window[1], 0})
           stop == Min({window[2], length})
           Span(i) == <<i * size, Min({(i + 1) * size, length})>>
           ends == {start \div size, (stop - 1) \div size}
           units == {Span(i) : i \in 0..((length - 1) \div size)}
           Slots(s) == s[1]..(s[2] - 1)
           Shared(s) == /\ \E t \in Slots(s) : window[1] <= t /\ t < window[2]
                        /\ \E t \in Slots(s) : t < window[1] \/ t >= window[2]
<1>0. window[1] \in Int /\ window[2] \in Int /\ size \in Nat /\ size > 0
  BY DEF Positive
<1>1. /\ start = (IF window[1] <= 0 THEN 0 ELSE window[1])
      /\ stop = (IF window[2] <= length THEN window[2] ELSE length)
  <2>0. window[1] \in Int /\ window[2] \in Int /\ length \in Int /\ 0 \in Int
    BY <1>0
  <2> HIDE DEF Span, ends, units, Shared
  <2>1. Max({window[1], 0}) = (IF window[1] <= 0 THEN 0 ELSE window[1])
    BY <2>0, LeastOfTwo
  <2>2. Min({window[2], length}) = (IF window[2] <= length THEN window[2] ELSE length)
    BY <2>0, LeastOfTwo
  <2> QED
    BY <2>1, <2>2
<1>2. start \in Nat /\ stop \in Int
  BY <1>0, <1>1
<1>3. \A i \in Nat : \A t \in Int :
         t \in Slots(Span(i)) <=> 0 <= t /\ t < length /\ t \div size = i
  <2> SUFFICES ASSUME NEW i \in Nat, NEW t \in Int
               PROVE  t \in Slots(Span(i)) <=> 0 <= t /\ t < length /\ t \div size = i
    OBVIOUS
  <2>1. /\ Span(i)[1] \in Int /\ Span(i)[2] \in Int
        /\ Span(i)[1] <= t /\ t < Span(i)[2] <=> 0 <= t /\ t < length /\ t \div size = i
    BY SpanOfUnit
  <2> HIDE DEF Span
  <2> QED
    BY <2>1
<1>4. \A i \in Nat : Span(i)[1] \in Int /\ Span(i)[2] \in Int
  BY SpanOfUnit
<1>5. \A t \in Int : 0 <= t /\ t < length => t \div size \in 0..((length - 1) \div size)
  <2> SUFFICES ASSUME NEW t \in Int, 0 <= t, t < length
               PROVE  t \div size \in 0..((length - 1) \div size)
    OBVIOUS
  <2>1. t \div size \in Int /\ (length - 1) \div size \in Int
    BY Quotient
  <2>2. t \div size <= (length - 1) \div size
    BY QuotientGrows
  <2>3. 0 \div size = 0
    BY <1>0, QuotientIs
  <2>4. 0 \div size <= t \div size
    BY QuotientGrows
  <2> QED
    BY <2>1, <2>2, <2>3, <2>4
<1>6. WindowStraddling(size, length, window) =
        IF start >= stop THEN {}
        ELSE {s \in {Span(i) : i \in ends} : s[1] < window[1] \/ s[2] > window[2]}
  BY DEF WindowStraddling
<1>7. SharedUnitsAreExact(size, length, window) <=>
        WindowStraddling(size, length, window) = {s \in units : Shared(s)}
  BY DEF SharedUnitsAreExact
<1>8. \A i \in 0..((length - 1) \div size) : i \in Nat
  OBVIOUS
<1>9. \A t \in Int : 0 <= t /\ t < length /\ window[1] <= t /\ t < window[2]
         <=> start <= t /\ t < stop
  BY <1>0, <1>1
<1> HIDE DEF start, stop, Span
<1>10. CASE start >= stop
  <2>1. \A s \in units : ~Shared(s)
    BY <1>2, <1>3, <1>4, <1>8, <1>9, <1>10
  <2> HIDE DEF units, Shared
  <2> QED
    BY <1>6, <1>7, <1>10, <2>1
<1>11. CASE start < stop
  <2>0. start \in Int /\ stop - 1 \in Int /\ start <= stop - 1
    BY <1>2, <1>11
  <2>1. 0 <= start /\ start < length /\ 0 <= stop - 1 /\ stop - 1 < length
        /\ window[1] <= start /\ start < window[2] /\ window[1] <= stop - 1 /\ stop - 1 < window[2]
    <3>1. start < stop /\ start <= start /\ stop - 1 < stop
      BY <1>2, <1>11
    <3>2. 0 <= start /\ start < length /\ window[1] <= start /\ start < window[2]
      BY <1>9, <2>0, <3>1
    <3>3. 0 <= stop - 1 /\ stop - 1 < length /\ window[1] <= stop - 1 /\ stop - 1 < window[2]
      BY <1>9, <2>0, <3>1
    <3> QED
      BY <3>2, <3>3
  <2>2. ASSUME NEW i \in ends, LET s == Span(i) IN s[1] < window[1] \/ s[2] > window[2]
        PROVE  Span(i) \in units /\ Shared(Span(i))
    <3>1. i \in 0..((length - 1) \div size) /\ i \in Nat
      BY <1>5, <2>0, <2>1
    <3>2. PICK t \in {start, stop - 1} : i = t \div size
      BY <2>0
    <3>3. t \in Int /\ t \in Slots(Span(i)) /\ window[1] <= t /\ t < window[2]
      BY <1>3, <2>0, <2>1, <3>1, <3>2
    <3>4. Span(i)[1] <= t /\ t < Span(i)[2]
      BY <1>4, <3>1, <3>3
    <3>5. \E u \in Slots(Span(i)) : u < window[1] \/ u >= window[2]
      <4>1. CASE Span(i)[1] < window[1]
        <5>1. Span(i)[1] \in Slots(Span(i))
          BY <1>4, <3>1, <3>3, <3>4
        <5> QED
          BY <4>1, <5>1
      <4>2. CASE Span(i)[2] > window[2]
        <5>1. Span(i)[2] - 1 \in Slots(Span(i)) /\ Span(i)[2] - 1 >= window[2]
          BY <1>0, <1>4, <3>1, <3>3, <3>4, <4>2
        <5> QED
          BY <5>1
      <4> QED
        BY <2>2, <4>1, <4>2
    <3> QED
      BY <3>1, <3>3, <3>5
  <2>3. ASSUME NEW i \in 0..((length - 1) \div size), Shared(Span(i))
        PROVE  i \in ends /\ (Span(i)[1] < window[1] \/ Span(i)[2] > window[2])
    <3>1. i \in Nat
      BY <1>8
    <3>2. PICK t \in Slots(Span(i)) : window[1] <= t /\ t < window[2]
      BY <2>3
    <3>3. PICK u \in Slots(Span(i)) : u < window[1] \/ u >= window[2]
      BY <2>3
    <3>4. /\ t \in Int /\ 0 <= t /\ t < length /\ t \div size = i
          /\ u \in Int /\ 0 <= u /\ u < length /\ u \div size = i
      BY <1>3, <1>4, <3>1
    <3>5. start <= t /\ t <= stop - 1
      BY <1>2, <1>9, <3>2, <3>4
    <3>6. Span(i)[1] <= t /\ t < Span(i)[2] /\ Span(i)[1] <= u /\ u < Span(i)[2]
      BY <1>4, <3>1
    <3>7. CASE u < window[1]
      <4>1. u <= start
        BY <1>0, <2>0, <2>1, <3>4, <3>7
      <4>2. u \div size <= start \div size /\ start \div size <= t \div size
        BY <2>0, <3>4, <3>5, <4>1, QuotientGrows
      <4>3. start \div size \in Int
        BY <2>0, Quotient
      <4>4. start \div size = i
        BY <3>1, <3>4, <4>2, <4>3
      <4> QED
        BY <1>0, <1>4, <3>1, <3>4, <3>6, <3>7, <4>4
    <3>8. CASE u >= window[2]
      <4>1. stop - 1 <= u
        BY <1>0, <2>0, <2>1, <3>4, <3>8
      <4>2. t \div size <= (stop - 1) \div size /\ (stop - 1) \div size <= u \div size
        BY <2>0, <3>4, <3>5, <4>1, QuotientGrows
      <4>3. (stop - 1) \div size \in Int
        BY <2>0, Quotient
      <4>4. (stop - 1) \div size = i
        BY <3>1, <3>4, <4>2, <4>3
      <4> QED
        BY <1>0, <1>4, <3>1, <3>4, <3>6, <3>8, <4>4
    <3> QED
      BY <3>3, <3>7, <3>8
  <2> HIDE DEF Shared, Slots, ends
  <2>4. {s \in {Span(i) : i \in ends} : s[1] < window[1] \/ s[2] > window[2]} =
        {s \in units : Shared(s)}
    BY <2>2, <2>3
  <2> QED
    BY <1>2, <1>6, <1>7, <1>11, <2>4
<1> QED
  BY <1>2, <1>10, <1>11

-----------------------------------------------------------------------------
(* Chunk keys.                                                             *)

\* Rows that end where a chunk or the array ends leave their last chunk to themselves.
LEMMA AlignedRangesKeepApart ==
  ASSUME NEW n \in Positive, NEW length \in Nat,
         NEW a \in Intervals(length), NEW b \in Intervals(length),
         IsAligned(a[1], a[2], length, n), a[2] <= b[1]
  PROVE  ChunkAxisRange(a[1], a[2], n) \cap ChunkAxisRange(b[1], b[2], n) = {}
<1>1. /\ a[1] \in Nat /\ a[2] \in Nat /\ b[1] \in Nat /\ b[2] \in Nat
      /\ a[1] <= a[2] /\ b[1] <= b[2] /\ b[2] <= length
  BY DEF Intervals
<1>2. SUFFICES ASSUME NEW t \in a[1]..(a[2] - 1), NEW u \in b[1]..(b[2] - 1), t \div n = u \div n
               PROVE  FALSE
  BY <1>1, RangeIsUnits
<1>3. a[2] # length
  BY <1>1
<1>4. a[2] % n = 0
  BY <1>3 DEF IsAligned
<1>5. n \in Nat /\ n > 0
  BY DEF Positive
<1> DEFINE k == a[2] \div n
           q == t \div n
<1>6. k \in Int /\ a[2] = n * k
  <2>1. k \in Int /\ a[2] % n = a[2] - n * k
    BY <1>1, Quotient
  <2>2. n * k \in Int
    BY <1>5, <2>1
  <2> HIDE DEF k
  <2>3. a[2] - n * k = 0
    BY <1>4, <2>1
  <2> QED
    BY <1>1, <2>1, <2>2, <2>3
<1>7. q \in Int /\ n * q <= t /\ n * q <= u /\ u < n * q + n
  BY <1>1, <1>2, Quotient
<1>8. t < a[2] /\ a[2] <= u
  BY <1>1
<1> HIDE DEF k, q
<1>9. CASE k <= q
  <2>1. n * k <= n * q
    BY <1>5, <1>6, <1>7, <1>9
  <2> QED
    BY <1>1, <1>5, <1>6, <1>7, <1>8, <2>1
<1>10. CASE k > q
  <2>1. n * k >= n * (q + 1) /\ n * (q + 1) = n * q + n
    BY <1>5, <1>6, <1>7, <1>10
  <2> QED
    BY <1>1, <1>5, <1>6, <1>7, <1>8, <2>1
<1> QED
  BY <1>6, <1>7, <1>9, <1>10

\* The keys of a write are the chunks of its cells, and aligned writes of different
\* cells have no chunk in common (physical_chunk_keys_for_region).
LEMMA KeysAreExact ==
  ASSUME NEW shape \in Positive \X Positive, NEW chunks \in Positive \X Positive,
         NEW w \in Regions(shape), NEW v \in Regions(shape)
  PROVE  AlignedWritesKeepApart(shape, chunks, w, v)
<1> DEFINE One(x) == ChunkKeys(x.slot, x.rows, shape, chunks)
           Box(x) == <<<<x.slot, x.slot + 1>>, x.rows>>
           Slot(x) == ChunkAxisRange(x.slot, x.slot + 1, chunks[1])
           Rows(x) == ChunkAxisRange(x.rows[1], x.rows[2], chunks[2])
<1>0. /\ shape[2] \in Nat /\ chunks[1] \in Positive /\ chunks[2] \in Positive
      /\ \A x \in {w, v} : /\ x.slot \in Nat /\ x.rows \in Intervals(shape[2])
                           /\ x.rows[1] \in Nat /\ x.rows[2] \in Nat
                           /\ x.rows = <<x.rows[1], x.rows[2]>>
  BY DEF Regions, Intervals, Positive
<1>1. \A x \in {w, v} : IsBox(Box(x))
  BY <1>0 DEF IsBox
<1>2. \A x \in {w, v} : One(x).keys = {UnitOf(c, chunks) : c \in Cells(Box(x))}
  BY <1>1, TouchedAreUnits DEF ChunkKeys
<1>3. \A x \in {w, v} : One(x).keys = Slot(x) \X Rows(x)
  BY DEF ChunkKeys, UnitsTouched
<1>4. \A x \in {w, v} : One(x).aligned =>
          chunks[1] = 1 /\ IsAligned(x.rows[1], x.rows[2], shape[2], chunks[2])
  BY DEF ChunkKeys
<1>5. \A x \in {w, v} : chunks[1] = 1 => Slot(x) = {x.slot}
  <2> SUFFICES ASSUME NEW x \in {w, v}, chunks[1] = 1 PROVE Slot(x) = {x.slot}
    OBVIOUS
  <2>1. x.slot \div 1 = x.slot
    BY <1>0, QuotientIs DEF Positive
  <2>2. x.slot..(x.slot + 1 - 1) = {x.slot}
    BY <1>0
  <2>3. Slot(x) = {t \div chunks[1] : t \in x.slot..(x.slot + 1 - 1)}
    BY <1>0, RangeIsUnits
  <2> QED
    BY <2>1, <2>2, <2>3
<1>6. ASSUME One(w).aligned, One(v).aligned, Cells(Box(w)) \cap Cells(Box(v)) = {}
      PROVE  One(w).keys \cap One(v).keys = {}
  <2>1. /\ chunks[1] = 1 /\ IsAligned(w.rows[1], w.rows[2], shape[2], chunks[2])
        /\ IsAligned(v.rows[1], v.rows[2], shape[2], chunks[2])
    BY <1>4, <1>6
  <2>2. Slot(w) = {w.slot} /\ Slot(v) = {v.slot}
    BY <1>5, <2>1
  <2>3. CASE w.slot # v.slot
    BY <1>3, <2>2, <2>3
  <2>4. CASE w.slot = v.slot
    <3>1. ~\E t \in Int : /\ w.rows[1] <= t /\ t < w.rows[2]
                          /\ v.rows[1] <= t /\ t < v.rows[2]
      <4> SUFFICES ASSUME NEW t \in Int, w.rows[1] <= t, t < w.rows[2],
                          v.rows[1] <= t, t < v.rows[2]
                   PROVE  FALSE
        OBVIOUS
      <4>1. <<w.slot, t>> \in Cells(Box(w)) /\ <<w.slot, t>> \in Cells(Box(v))
        BY <1>0, <2>4 DEF Cells
      <4> QED
        BY <1>6, <4>1
    <3>2. \/ w.rows[2] <= v.rows[1] \/ v.rows[2] <= w.rows[1]
          \/ w.rows[2] <= w.rows[1] \/ v.rows[2] <= v.rows[1]
      <4>1. w.rows[1] >= v.rows[1] \/ w.rows[1] < v.rows[1]
        BY <1>0
      <4> QED
        BY <1>0, <3>1, <4>1
    <3>3. Rows(w) \cap Rows(v) = {}
      <4>1. CASE w.rows[2] <= v.rows[1]
        BY <1>0, <2>1, <4>1, AlignedRangesKeepApart
      <4>2. CASE v.rows[2] <= w.rows[1]
        <5>1. Rows(v) \cap Rows(w) = {}
          BY <1>0, <2>1, <4>2, AlignedRangesKeepApart
        <5> QED
          BY <5>1
      <4>3. CASE w.rows[2] <= w.rows[1] \/ v.rows[2] <= v.rows[1]
        <5>1. Rows(w) = {} \/ Rows(v) = {}
          BY <4>3 DEF ChunkAxisRange
        <5> QED
          BY <5>1
      <4> QED
        BY <3>2, <4>1, <4>2, <4>3
    <3> QED
      BY <1>3, <3>3
  <2> QED
    BY <2>3, <2>4
<1> QED
  BY <1>2, <1>6 DEF AlignedWritesKeepApart

-----------------------------------------------------------------------------
(* Axes.                                                                   *)

\* What a regular axis does (RegularTimeResolver).
LEMMA RegularAxis ==
  ASSUME NEW axis \in [kind : {"regular"}, mode : {"exact", "floor"},
                       cadence : Positive, extent : Nat]
  PROVE  /\ SizeOf(axis) \in Nat
         /\ \A c \in Int : Position(axis, c) \in Nat \cup {Refused}
         /\ \A c \in Int : PositionsAreExact(axis, c)
<1>1. axis.cadence \in Positive /\ axis.cadence \in Nat /\ axis.cadence > 0 /\ axis.extent \in Nat
      /\ axis.kind = "regular" /\ axis.mode \in {"exact", "floor"}
  BY DEF Positive
<1>2. \A c \in Int : Position(axis, c) =
          IF c < 0 \/ (axis.mode = "exact" /\ c % axis.cadence # 0) THEN Refused
          ELSE c \div axis.cadence
  BY <1>1 DEF Position
<1>3. \A c \in Nat : c \div axis.cadence \in Nat
  <2> SUFFICES ASSUME NEW c \in Nat PROVE c \div axis.cadence \in Nat
    OBVIOUS
  <2>1. 0 \div axis.cadence = 0
    BY <1>1, QuotientIs
  <2>2. 0 \div axis.cadence <= c \div axis.cadence
    BY <1>1, QuotientGrows
  <2>3. c \div axis.cadence \in Int
    BY <1>1, Quotient
  <2> QED
    BY <2>1, <2>2, <2>3
<1>4. SizeOf(axis) \in Nat
  BY <1>1, <1>3 DEF SizeOf
<1>5. \A c \in Int : Position(axis, c) \in Nat \cup {Refused}
  BY <1>1, <1>2, <1>3
<1>6. \A i : Coordinate(axis, i) = i * axis.cadence
  BY <1>1 DEF Coordinate
<1>7. ASSUME NEW c \in Int, Position(axis, c) # Refused
      PROVE  LET at == Coordinate(axis, Position(axis, c))
             IN IF axis.kind = "regular" /\ axis.mode = "floor"
                THEN at <= c /\ c < at + axis.cadence
                ELSE at = c
  <2> DEFINE q == c \div axis.cadence
             at == Coordinate(axis, Position(axis, c))
  <2>1. Position(axis, c) = q /\ (axis.mode = "exact" => c % axis.cadence = 0)
    BY <1>2, <1>7
  <2>2. /\ q \in Int /\ axis.cadence * q <= c /\ c < axis.cadence * q + axis.cadence
        /\ c % axis.cadence = c - axis.cadence * q
    BY <1>1, Quotient
  <2>3. at = axis.cadence * q
    BY <1>1, <1>6, <2>1, <2>2
  <2> HIDE DEF at, q
  <2>4. CASE axis.mode = "floor"
    <3>1. at <= c /\ c < at + axis.cadence
      BY <2>2, <2>3
    <3> QED
      BY <1>1, <2>4, <3>1 DEF at
  <2>5. CASE axis.mode = "exact"
    <3> DEFINE low == axis.cadence * q
    <3>1. low \in Int /\ c % axis.cadence = c - low /\ at = low
      BY <1>1, <2>2, <2>3
    <3> HIDE DEF low
    <3>2. c - low = 0
      BY <2>1, <2>5, <3>1
    <3>3. at = c
      BY <3>1, <3>2
    <3> QED
      BY <2>5, <3>3 DEF at
  <2> QED
    BY <1>1, <2>4, <2>5
<1>8. ASSUME NEW i \in 0..(SizeOf(axis) - 1) PROVE Position(axis, Coordinate(axis, i)) = i
  <2>1. i \in Nat
    BY <1>4
  <2> DEFINE c == i * axis.cadence
  <2>2. c \in Nat /\ c = axis.cadence * i
    BY <1>1, <2>1
  <2> HIDE DEF c
  <2>3. c \div axis.cadence = i
    BY <1>1, <2>1, <2>2, QuotientIs
  <2>4. c % axis.cadence = 0
    BY <1>1, <2>1, <2>2, <2>3, Quotient
  <2> QED
    BY <1>2, <1>6, <2>2, <2>3, <2>4 DEF c
<1> QED
  BY <1>4, <1>5, <1>7, <1>8 DEF PositionsAreExact

\* What an axis of given values does (IrregularTimeResolver).
LEMMA IrregularAxis ==
  ASSUME NEW axis \in [kind : {"irregular"}, values : Seq(Int), calendar : BOOLEAN]
  PROVE  /\ SizeOf(axis) \in Nat
         /\ \A c \in Int : Position(axis, c) \in Nat \cup {Refused}
         /\ \A c \in Int : PositionsAreExact(axis, c)
<1>1. axis.kind = "irregular" /\ axis.values \in Seq(Int) /\ Len(axis.values) \in Nat
      /\ SizeOf(axis) = Len(axis.values)
  BY DEF SizeOf
<1>2. \A c : Position(axis, c) =
          IF Held(axis, c) = {} \/ (axis.calendar /\ \E i, j \in Held(axis, c) : i # j)
          THEN Refused ELSE Min(Held(axis, c)) - 1
  BY <1>1 DEF Position
<1>3. \A c : Held(axis, c) # {} => Min(Held(axis, c)) \in Held(axis, c)
  <2>1. \A c : Held(axis, c) \in SUBSET Nat
    BY <1>1 DEF Held
  <2> QED
    BY <2>1, MinIsLeast
<1>4. \A c : Position(axis, c) # Refused =>
          Position(axis, c) + 1 \in Held(axis, c) /\ Position(axis, c) \in Nat
  <2> SUFFICES ASSUME NEW c, Position(axis, c) # Refused
               PROVE  Position(axis, c) + 1 \in Held(axis, c) /\ Position(axis, c) \in Nat
    OBVIOUS
  <2> DEFINE m == Min(Held(axis, c))
  <2>1. m \in Held(axis, c) /\ Position(axis, c) = m - 1
    BY <1>2, <1>3
  <2>2. m \in Nat /\ m >= 1
    BY <1>1, <2>1 DEF Held
  <2> HIDE DEF m
  <2>3. m - 1 \in Nat /\ (m - 1) + 1 = m
    BY <2>2
  <2> QED
    BY <2>1, <2>3
<1>5. \A i : Coordinate(axis, i) = axis.values[i + 1]
  BY <1>1 DEF Coordinate
<1>6. ASSUME NEW i \in 0..(SizeOf(axis) - 1),
             \A j \in 0..(SizeOf(axis) - 1) : Coordinate(axis, j) = Coordinate(axis, i) => j = i
      PROVE  Position(axis, Coordinate(axis, i)) = i
  <2> DEFINE H == Held(axis, Coordinate(axis, i))
  <2>1. i + 1 \in H
    BY <1>1, <1>5 DEF Held
  <2>2. \A k \in H : k = i + 1
    <3> SUFFICES ASSUME NEW k \in H PROVE k = i + 1
      OBVIOUS
    <3>1. k \in 1..Len(axis.values) /\ axis.values[k] = axis.values[i + 1]
      BY <1>5 DEF Held
    <3>2. k - 1 \in 0..(SizeOf(axis) - 1) /\ (k - 1) + 1 = k
      BY <1>1, <3>1
    <3>3. Coordinate(axis, k - 1) = Coordinate(axis, i)
      BY <1>5, <3>1, <3>2
    <3> QED
      BY <1>1, <1>6, <3>2, <3>3
  <2>3. Min(H) = i + 1
    BY <1>3, <2>1, <2>2
  <2> HIDE DEF H
  <2>4. ~(H = {} \/ (axis.calendar /\ \E m, n \in H : m # n))
    BY <2>1, <2>2
  <2>5. Position(axis, Coordinate(axis, i)) = Min(H) - 1
    BY <1>2, <2>4 DEF H
  <2> QED
    BY <1>1, <2>3, <2>5
<1>7. ASSUME NEW c \in Int, Position(axis, c) # Refused
      PROVE  Coordinate(axis, Position(axis, c)) = c
  BY <1>4, <1>5, <1>7 DEF Held
<1> QED
  BY <1>1, <1>4, <1>6, <1>7 DEF PositionsAreExact

\* What an axis of integers does (IntegerResolver).
LEMMA IntegerAxis ==
  ASSUME NEW axis \in [kind : {"integer"}, slots : Nat]
  PROVE  /\ SizeOf(axis) \in Nat
         /\ \A c \in Int : Position(axis, c) \in Nat \cup {Refused}
         /\ \A c \in Int : PositionsAreExact(axis, c)
<1>1. axis.kind = "integer" /\ axis.slots \in Nat /\ SizeOf(axis) = axis.slots
  BY DEF SizeOf
<1>2. \A c : Position(axis, c) = IF c \in 0..(axis.slots - 1) THEN c ELSE Refused
  BY <1>1 DEF Position
<1>3. \A i : Coordinate(axis, i) = i
  BY <1>1 DEF Coordinate
<1> QED
  BY <1>1, <1>2, <1>3 DEF PositionsAreExact

LEMMA AxesAreExact ==
  ASSUME NEW axis, IsAxis(axis)
  PROVE  /\ SizeOf(axis) \in Nat
         /\ \A c \in Int : Position(axis, c) \in Nat \cup {Refused}
         /\ \A c \in Int : PositionsAreExact(axis, c)
BY RegularAxis, IrregularAxis, IntegerAxis DEF IsAxis

\* Windows that tile an axis share its items out (filter_items_by_index).
LEMMA ItemsAreExact ==
  ASSUME NEW axis, IsAxis(axis), NEW coordinates \in SUBSET Int, NEW cut \in 0..SizeOf(axis)
  PROVE  ItemsAreSharedOut(axis, cut, coordinates)
<1> DEFINE Mine == KeptBy(axis, <<0, cut>>, coordinates)
           Theirs == KeptBy(axis, <<cut, SizeOf(axis)>>, coordinates)
<1>1. SizeOf(axis) \in Nat /\ cut \in Nat /\ cut <= SizeOf(axis)
  BY AxesAreExact
<1>2. ASSUME ~FilterRefuses(axis, coordinates), NEW c \in coordinates
      PROVE  Position(axis, c) \in Nat
  BY <1>2, AxesAreExact DEF FilterRefuses
<1>3. Mine = {c \in coordinates : 0 <= Position(axis, c) /\ Position(axis, c) < cut}
      /\ Theirs = {c \in coordinates : cut <= Position(axis, c) /\ Position(axis, c) < SizeOf(axis)}
  BY DEF KeptBy
<1>4. ASSUME ~FilterRefuses(axis, coordinates)
      PROVE  /\ Mine \cap Theirs = {}
             /\ Mine \cup Theirs = {c \in coordinates : Position(axis, c) < SizeOf(axis)}
  <2> HIDE DEF Mine, Theirs
  <2>1. \A c \in coordinates : Position(axis, c) \in Nat
    BY <1>2, <1>4
  <2>2. \A c \in coordinates : ~(c \in Mine /\ c \in Theirs)
    BY <1>1, <1>3, <2>1
  <2>3. \A c \in coordinates : c \in Mine \/ c \in Theirs <=> Position(axis, c) < SizeOf(axis)
    BY <1>1, <1>3, <2>1
  <2>4. Mine \subseteq coordinates /\ Theirs \subseteq coordinates
    BY <1>3
  <2> QED
    BY <2>2, <2>3, <2>4
<1> QED
  BY <1>4 DEF ItemsAreSharedOut

-----------------------------------------------------------------------------
(* Coverage.                                                               *)

\* What two intervals have in common.
LEMMA CommonRange ==
  ASSUME NEW a \in Int \X Int, NEW b \in Int \X Int, NEW t \in Int
  PROVE  /\ Max({a[1], b[1]}) \in Int /\ Min({a[2], b[2]}) \in Int
         /\ b[1] <= Max({a[1], b[1]}) /\ Min({a[2], b[2]}) <= b[2]
         /\ Max({a[1], b[1]}) <= t /\ t < Min({a[2], b[2]})
              <=> a[1] <= t /\ t < a[2] /\ b[1] <= t /\ t < b[2]
<1>1. a[1] \in Int /\ a[2] \in Int /\ b[1] \in Int /\ b[2] \in Int
  OBVIOUS
<1>2. Max({a[1], b[1]}) = (IF a[1] <= b[1] THEN b[1] ELSE a[1])
  BY <1>1, LeastOfTwo
<1>3. Min({a[2], b[2]}) = (IF a[2] <= b[2] THEN a[2] ELSE b[2])
  BY <1>1, LeastOfTwo
<1> QED
  BY <1>1, <1>2, <1>3

Holds(box, c) ==
    /\ box[1][1] <= c[1] /\ c[1] < box[1][2]
    /\ box[2][1] <= c[2] /\ c[2] < box[2][2]

LEMMA CellsAreHeld ==
  ASSUME NEW box, IsBox(box), NEW c
  PROVE  c \in Cells(box) <=> c \in Int \X Int /\ Holds(box, c)
BY DEF Cells, Holds, IsBox

\* The bounds of a box, of a target, and of what they have in common.
Bounded(box) == \A dim \in 1..2 : box[dim][1] \in Int /\ box[dim][2] \in Int

LEMMA IntersectionHolds ==
  ASSUME NEW box, Bounded(box), NEW target, Bounded(target), NEW c \in Int \X Int
  PROVE  /\ Bounded(Intersection(box, target))
         /\ Holds(Intersection(box, target), c) <=> Holds(box, c) /\ Holds(target, c)
         /\ \A dim \in 1..2 : /\ target[dim][1] <= Intersection(box, target)[dim][1]
                              /\ Intersection(box, target)[dim][2] <= target[dim][2]
<1> DEFINE x == Intersection(box, target)
<1>1. \A dim \in 1..2 : x[dim][1] = Max({box[dim][1], target[dim][1]})
                     /\ x[dim][2] = Min({box[dim][2], target[dim][2]})
  BY DEF Intersection
<1>2. ASSUME NEW dim \in 1..2, NEW t \in Int
      PROVE  /\ x[dim][1] \in Int /\ x[dim][2] \in Int
             /\ target[dim][1] <= x[dim][1] /\ x[dim][2] <= target[dim][2]
             /\ x[dim][1] <= t /\ t < x[dim][2]
                  <=> /\ box[dim][1] <= t /\ t < box[dim][2]
                      /\ target[dim][1] <= t /\ t < target[dim][2]
  <2> DEFINE a == <<box[dim][1], box[dim][2]>>
             b == <<target[dim][1], target[dim][2]>>
  <2>1. a \in Int \X Int /\ b \in Int \X Int
    BY DEF Bounded
  <2>2. a[1] = box[dim][1] /\ a[2] = box[dim][2] /\ b[1] = target[dim][1] /\ b[2] = target[dim][2]
    OBVIOUS
  <2> HIDE DEF a, b
  <2>3. /\ Max({a[1], b[1]}) \in Int /\ Min({a[2], b[2]}) \in Int
        /\ b[1] <= Max({a[1], b[1]}) /\ Min({a[2], b[2]}) <= b[2]
        /\ Max({a[1], b[1]}) <= t /\ t < Min({a[2], b[2]})
             <=> a[1] <= t /\ t < a[2] /\ b[1] <= t /\ t < b[2]
    BY <2>1, CommonRange
  <2> QED
    BY <1>1, <2>2, <2>3
<1> HIDE DEF x
<1>3. Bounded(x)
  BY <1>2 DEF Bounded
<1>4. Holds(x, c) <=> Holds(box, c) /\ Holds(target, c)
  BY <1>2 DEF Holds
<1> QED
  BY <1>2, <1>3, <1>4 DEF x

\* A target is covered when each of its cells is (bounds_cover).
LEMMA CoverIsByCells ==
  ASSUME NEW target, Bounded(target), ~IsEmpty(target),
         NEW boxes, \A x \in boxes : Bounded(x)
  PROVE  BoundsCover(target, boxes)
           <=> \A c \in Int \X Int : Holds(target, c) => \E x \in boxes : Holds(x, c)
<1> DEFINE clipped == {b \in {Intersection(x, target) : x \in boxes} : ~IsEmpty(b)}
           Cuts(dim) == {target[dim][1], target[dim][2]}
                        \cup UNION {{b[dim][1], b[dim][2]} : b \in clipped}
           Covered == \A c \in Int \X Int : Holds(target, c) => \E x \in boxes : Holds(x, c)
<1>1. BoundsCover(target, boxes) <=>
        IF clipped = {} THEN IsEmpty(target)
        ELSE \A rows \in Pairwise(Cuts(1)), columns \in Pairwise(Cuts(2)) :
               \E b \in clipped : Within(<<rows, columns>>, b)
  BY DEF BoundsCover
<1>2. \A b \in clipped : \A dim \in 1..2 :
        /\ b[dim][1] \in Int /\ b[dim][2] \in Int
        /\ target[dim][1] <= b[dim][1] /\ b[dim][2] <= target[dim][2] /\ b[dim][1] < b[dim][2]
  <2> SUFFICES ASSUME NEW x \in boxes, ~IsEmpty(Intersection(x, target)), NEW dim \in 1..2
               PROVE  LET b == Intersection(x, target) IN
                      /\ b[dim][1] \in Int /\ b[dim][2] \in Int
                      /\ target[dim][1] <= b[dim][1] /\ b[dim][2] <= target[dim][2]
                      /\ b[dim][1] < b[dim][2]
    OBVIOUS
  <2> DEFINE b == Intersection(x, target)
  <2>1. Bounded(x) /\ <<0, 0>> \in Int \X Int
    OBVIOUS
  <2>2. Bounded(b) /\ target[dim][1] <= b[dim][1] /\ b[dim][2] <= target[dim][2]
    BY <2>1, IntersectionHolds
  <2>3. ~(b[dim][1] >= b[dim][2])
    BY DEF IsEmpty
  <2> HIDE DEF b
  <2> QED
    BY <2>2, <2>3 DEF Bounded, b
<1>3. \A b \in clipped : \E x \in boxes : b = Intersection(x, target)
  OBVIOUS
<1>4. ASSUME NEW x \in boxes, NEW c \in Int \X Int, Holds(x, c), Holds(target, c)
      PROVE  Intersection(x, target) \in clipped /\ Holds(Intersection(x, target), c)
  <2> DEFINE b == Intersection(x, target)
  <2>1. Bounded(x)
    BY <1>4
  <2>2. Bounded(b) /\ Holds(b, c)
    BY <1>4, <2>1, IntersectionHolds
  <2> HIDE DEF b
  <2>3. ~IsEmpty(b)
    BY <2>2 DEF Bounded, Holds, IsEmpty
  <2> QED
    BY <1>4, <2>2, <2>3 DEF b
<1>5. \A dim \in 1..2 : /\ target[dim][1] \in Int /\ target[dim][2] \in Int
                        /\ target[dim][1] < target[dim][2]
  BY DEF Bounded, IsEmpty
<1>6. \A dim \in 1..2 : /\ Cuts(dim) \in SUBSET (target[dim][1]..target[dim][2])
                        /\ target[dim][1] \in Cuts(dim) /\ target[dim][2] \in Cuts(dim)
                        /\ \A b \in clipped : b[dim][1] \in Cuts(dim) /\ b[dim][2] \in Cuts(dim)
  <2> SUFFICES ASSUME NEW dim \in 1..2
               PROVE  /\ Cuts(dim) \in SUBSET (target[dim][1]..target[dim][2])
                      /\ target[dim][1] \in Cuts(dim) /\ target[dim][2] \in Cuts(dim)
                      /\ \A b \in clipped : b[dim][1] \in Cuts(dim) /\ b[dim][2] \in Cuts(dim)
    OBVIOUS
  <2> HIDE DEF clipped
  <2>1. \A b \in clipped : b[dim][1] \in target[dim][1]..target[dim][2]
                        /\ b[dim][2] \in target[dim][1]..target[dim][2]
    BY <1>2, <1>5
  <2>2. /\ target[dim][1] \in target[dim][1]..target[dim][2]
        /\ target[dim][2] \in target[dim][1]..target[dim][2]
    BY <1>5
  <2> QED
    BY <2>1, <2>2
<1>7. \A dim \in 1..2 : \A p \in Pairwise(Cuts(dim)) :
        /\ p[1] \in target[dim][1]..target[dim][2] /\ p[2] \in target[dim][1]..target[dim][2]
        /\ p[1] < p[2] /\ \A e \in Cuts(dim) : ~(p[1] < e /\ e < p[2])
  <2> HIDE DEF clipped, Cuts
  <2> QED
    BY <1>6 DEF Pairwise
<1> HIDE DEF clipped, Cuts
<1>8. ASSUME Covered, NEW rows \in Pairwise(Cuts(1)), NEW columns \in Pairwise(Cuts(2))
      PROVE  \E b \in clipped : Within(<<rows, columns>>, b)
  <2> DEFINE c == <<rows[1], columns[1]>>
  <2>0. 1 \in 1..2 /\ 2 \in 1..2
    OBVIOUS
  <2>1. /\ rows[1] \in Int /\ rows[2] \in Int /\ rows[1] < rows[2]
        /\ target[1][1] <= rows[1] /\ rows[2] <= target[1][2]
        /\ \A e \in Cuts(1) : ~(rows[1] < e /\ e < rows[2])
    BY <1>5, <1>7, <2>0
  <2>2. /\ columns[1] \in Int /\ columns[2] \in Int /\ columns[1] < columns[2]
        /\ target[2][1] <= columns[1] /\ columns[2] <= target[2][2]
        /\ \A e \in Cuts(2) : ~(columns[1] < e /\ e < columns[2])
    BY <1>5, <1>7, <2>0
  <2>3. c \in Int \X Int /\ c[1] = rows[1] /\ c[2] = columns[1]
    BY <2>1, <2>2
  <2> HIDE DEF c
  <2>4. Holds(target, c)
    BY <1>5, <2>0, <2>1, <2>2, <2>3 DEF Holds
  <2>5. PICK x \in boxes : Holds(x, c)
    BY <1>8, <2>3, <2>4
  <2> DEFINE b == Intersection(x, target)
  <2>6. b \in clipped /\ Holds(b, c)
    BY <1>4, <2>3, <2>4, <2>5
  <2> HIDE DEF b
  <2>7. b[1][1] <= rows[1] /\ rows[1] < b[1][2] /\ b[2][1] <= columns[1] /\ columns[1] < b[2][2]
    BY <2>3, <2>6 DEF Holds
  <2>8. b[1][2] \in Cuts(1) /\ b[2][2] \in Cuts(2) /\ b[1][2] \in Int /\ b[2][2] \in Int
    BY <1>2, <1>6, <2>0, <2>6
  <2>9. rows[2] <= b[1][2] /\ columns[2] <= b[2][2]
    BY <2>1, <2>2, <2>7, <2>8
  <2>10. Within(<<rows, columns>>, b)
    BY <2>7, <2>9 DEF Within
  <2> QED
    BY <2>6, <2>10
<1>9. ASSUME Covered PROVE clipped # {}
  <2> DEFINE c == <<target[1][1], target[2][1]>>
  <2>1. c \in Int \X Int /\ Holds(target, c)
    BY <1>5 DEF Holds
  <2> HIDE DEF c
  <2>2. PICK x \in boxes : Holds(x, c)
    BY <1>9, <2>1
  <2> QED
    BY <1>4, <2>1, <2>2
<1>10. ASSUME NEW c \in Int \X Int, Holds(target, c),
              \A rows \in Pairwise(Cuts(1)), columns \in Pairwise(Cuts(2)) :
                 \E b \in clipped : Within(<<rows, columns>>, b)
       PROVE  \E x \in boxes : Holds(x, c)
  <2>0. 1 \in 1..2 /\ 2 \in 1..2 /\ c[1] \in Int /\ c[2] \in Int
    OBVIOUS
  <2>1. target[1][1] <= c[1] /\ c[1] < target[1][2] /\ target[2][1] <= c[2] /\ c[2] < target[2][2]
    BY <1>10 DEF Holds
  <2>2. PICK rows \in Pairwise(Cuts(1)) : rows[1] <= c[1] /\ c[1] < rows[2]
    <3>1. /\ target[1][1] \in Int /\ target[1][2] \in Int
          /\ Cuts(1) \in SUBSET (target[1][1]..target[1][2])
          /\ target[1][1] \in Cuts(1) /\ target[1][2] \in Cuts(1)
      BY <1>5, <1>6, <2>0
    <3>2. c[1] \in Int /\ target[1][1] <= c[1] /\ c[1] < target[1][2]
      BY <2>0, <2>1
    <3> QED
      BY <3>1, <3>2, Neighbours
  <2>3. PICK columns \in Pairwise(Cuts(2)) : columns[1] <= c[2] /\ c[2] < columns[2]
    <3>1. /\ target[2][1] \in Int /\ target[2][2] \in Int
          /\ Cuts(2) \in SUBSET (target[2][1]..target[2][2])
          /\ target[2][1] \in Cuts(2) /\ target[2][2] \in Cuts(2)
      BY <1>5, <1>6, <2>0
    <3>2. c[2] \in Int /\ target[2][1] <= c[2] /\ c[2] < target[2][2]
      BY <2>0, <2>1
    <3> QED
      BY <3>1, <3>2, Neighbours
  <2>4. PICK b \in clipped : Within(<<rows, columns>>, b)
    BY <1>10
  <2>5. b[1][1] <= rows[1] /\ rows[2] <= b[1][2] /\ b[2][1] <= columns[1] /\ columns[2] <= b[2][2]
    BY <2>4 DEF Within
  <2>6. /\ rows[1] \in Int /\ rows[2] \in Int /\ columns[1] \in Int /\ columns[2] \in Int
        /\ b[1][1] \in Int /\ b[1][2] \in Int /\ b[2][1] \in Int /\ b[2][2] \in Int
    BY <1>2, <1>5, <1>7, <2>0
  <2>7. Holds(b, c)
    BY <2>0, <2>2, <2>3, <2>5, <2>6 DEF Holds
  <2>8. PICK x \in boxes : b = Intersection(x, target)
    BY <1>3
  <2>9. Bounded(x)
    OBVIOUS
  <2>10. Holds(x, c)
    BY <2>7, <2>8, <2>9, IntersectionHolds
  <2> QED
    BY <2>10
<1>11. ASSUME BoundsCover(target, boxes) PROVE Covered
  <2>1. \A rows \in Pairwise(Cuts(1)), columns \in Pairwise(Cuts(2)) :
          \E b \in clipped : Within(<<rows, columns>>, b)
    BY <1>1, <1>11
  <2> QED
    BY <1>10, <2>1
<1>12. ASSUME Covered PROVE BoundsCover(target, boxes)
  BY <1>1, <1>8, <1>9, <1>12
<1> QED
  BY <1>11, <1>12

LEMMA BoxIsBounded ==
  ASSUME NEW shape \in Positive \X Positive, NEW box \in Boxes(shape)
  PROVE  /\ IsBox(box) /\ Bounded(box)
         /\ Cells(box) \subseteq Cells(<<<<0, shape[1]>>, <<0, shape[2]>>>>)
<1>1. /\ box = <<box[1], box[2]>>
      /\ box[1] = <<box[1][1], box[1][2]>> /\ box[2] = <<box[2][1], box[2][2]>>
      /\ box[1][1] \in 0..shape[1] /\ box[1][2] \in 0..shape[1]
      /\ box[2][1] \in 0..shape[2] /\ box[2][2] \in 0..shape[2]
      /\ shape[1] \in Nat /\ shape[2] \in Nat
  BY DEF Boxes, Intervals, Positive
<1>2. IsBox(box)
  BY <1>1 DEF IsBox
<1>3. Bounded(box)
  BY <1>1 DEF Bounded
<1>4. /\ box[1][1]..(box[1][2] - 1) \subseteq 0..(shape[1] - 1)
      /\ box[2][1]..(box[2][2] - 1) \subseteq 0..(shape[2] - 1)
  BY <1>1
<1>5. Cells(box) \subseteq Cells(<<<<0, shape[1]>>, <<0, shape[2]>>>>)
  BY <1>4 DEF Cells
<1> QED
  BY <1>2, <1>3, <1>5

\* The bounds of a unit hold the cells of the array that lie in it (unit_bounds).
LEMMA BoundsHoldUnit ==
  ASSUME NEW shape \in Positive \X Positive, NEW unit \in Positive \X Positive,
         NEW u \in Nat \X Nat, NEW c \in Int \X Int
  PROVE  /\ Bounded(UnitBounds(u, unit, shape))
         /\ Holds(UnitBounds(u, unit, shape), c)
              <=> c \in Cells(<<<<0, shape[1]>>, <<0, shape[2]>>>>) /\ UnitOf(c, unit) = u
<1> DEFINE T == UnitBounds(u, unit, shape)
           stop(dim) == Min({(u[dim] + 1) * unit[dim], shape[dim]})
<1>1. \A dim \in 1..2 : T[dim][1] = u[dim] * unit[dim] /\ T[dim][2] = stop(dim)
  BY DEF UnitBounds
<1>2. \A dim \in 1..2 : /\ unit[dim] \in Positive /\ shape[dim] \in Nat
                        /\ u[dim] \in Nat /\ c[dim] \in Int
  BY DEF Positive
<1>3. \A dim \in 1..2 :
        /\ stop(dim) \in Int /\ u[dim] * unit[dim] \in Int
        /\ u[dim] * unit[dim] <= c[dim] /\ c[dim] < stop(dim)
             <=> 0 <= c[dim] /\ c[dim] < shape[dim] /\ c[dim] \div unit[dim] = u[dim]
  BY <1>2, SpanOfUnit
<1> HIDE DEF T, stop
<1>4. Bounded(T)
  BY <1>1, <1>3 DEF Bounded
<1>5. c \in Cells(<<<<0, shape[1]>>, <<0, shape[2]>>>>) <=>
        0 <= c[1] /\ c[1] < shape[1] /\ 0 <= c[2] /\ c[2] < shape[2]
  BY <1>2 DEF Cells
<1>6. UnitOf(c, unit) = u <=> c[1] \div unit[1] = u[1] /\ c[2] \div unit[2] = u[2]
  BY DEF UnitOf
<1>7. 1 \in 1..2 /\ 2 \in 1..2
  OBVIOUS
<1>8. Holds(T, c) <=> /\ u[1] * unit[1] <= c[1] /\ c[1] < stop(1)
                      /\ u[2] * unit[2] <= c[2] /\ c[2] < stop(2)
  BY <1>1, <1>7 DEF Holds
<1>9. Holds(T, c) <=> /\ 0 <= c[1] /\ c[1] < shape[1] /\ c[1] \div unit[1] = u[1]
                      /\ 0 <= c[2] /\ c[2] < shape[2] /\ c[2] \div unit[2] = u[2]
  BY <1>3, <1>7, <1>8
<1> QED
  BY <1>4, <1>5, <1>6, <1>9 DEF T

\* A unit is found incomplete exactly if a cell of it was not written
\* (incompletely_written_units).
LEMMA CoverageIsByCells ==
  ASSUME NEW shape \in Positive \X Positive, NEW unit \in Positive \X Positive,
         NEW touched \in SUBSET Boxes(shape), NEW written \in SUBSET Boxes(shape)
  PROVE  CoverageIsExact(shape, unit, touched, written)
<1> DEFINE All == Cells(<<<<0, shape[1]>>, <<0, shape[2]>>>>)
           Done == UNION {Cells(b) : b \in written}
           Touching(u) == {b \in written : u \in UnitsTouched(b, unit)}
           Units == UNION {UnitsTouched(b, unit) : b \in touched}
           CellUnits == {UnitOf(c, unit) : c \in UNION {Cells(b) : b \in touched}}
           Undone == {UnitOf(c, unit) : c \in All \ Done}
<1>1. \A b \in touched \cup written : IsBox(b) /\ Bounded(b) /\ Cells(b) \subseteq All
  BY BoxIsBounded
<1>2. \A b \in touched \cup written : UnitsTouched(b, unit) = {UnitOf(c, unit) : c \in Cells(b)}
  BY <1>1, TouchedAreUnits
<1>3. Units = CellUnits
  <2> HIDE DEF All
  <2> QED
    BY <1>2
<1>4. ASSUME NEW c \in All
      PROVE  c \in Int \X Int /\ UnitOf(c, unit) \in Nat \X Nat
  <2>1. c[1] \in Nat /\ c[2] \in Nat /\ c = <<c[1], c[2]>>
    BY DEF Cells, Positive
  <2>2. \A n \in Positive : \A t \in Nat : t \div n \in Nat
    <3> SUFFICES ASSUME NEW n \in Positive, NEW t \in Nat PROVE t \div n \in Nat
      OBVIOUS
    <3>1. 0 \div n = 0
      BY QuotientIs DEF Positive
    <3>2. 0 \div n <= t \div n
      BY QuotientGrows
    <3>3. t \div n \in Int
      BY Quotient
    <3> QED
      BY <3>1, <3>2, <3>3
  <2> QED
    BY <2>1, <2>2 DEF UnitOf
<1>5. ASSUME NEW u \in CellUnits
      PROVE  BoundsCover(UnitBounds(u, unit, shape), Touching(u)) <=> u \notin Undone
  <2> DEFINE T == UnitBounds(u, unit, shape)
  <2>1. PICK c0 \in UNION {Cells(b) : b \in touched} : u = UnitOf(c0, unit)
    OBVIOUS
  <2>2. c0 \in All
    BY <1>1
  <2> HIDE DEF All
  <2>3. u \in Nat \X Nat /\ c0 \in Int \X Int
    BY <1>4, <2>1, <2>2
  <2>4. Bounded(T) /\ \A c \in Int \X Int : Holds(T, c) <=> c \in All /\ UnitOf(c, unit) = u
    BY <2>3, BoundsHoldUnit DEF All
  <2> HIDE DEF T
  <2>5. ~IsEmpty(T)
    BY <2>1, <2>2, <2>3, <2>4 DEF IsEmpty, Holds, Bounded
  <2>6. \A x \in Touching(u) : Bounded(x)
    BY <1>1
  <2>7. BoundsCover(T, Touching(u))
          <=> \A c \in Int \X Int : Holds(T, c) => \E x \in Touching(u) : Holds(x, c)
    BY <2>4, <2>5, <2>6, CoverIsByCells
  <2>8. ASSUME NEW c \in All, UnitOf(c, unit) = u
        PROVE  (\E x \in Touching(u) : Holds(x, c)) <=> c \in Done
    <3>1. c \in Int \X Int
      BY <1>4
    <3>2. \A x \in written : c \in Cells(x) <=> Holds(x, c)
      BY <1>1, <3>1, CellsAreHeld
    <3>3. \A x \in written : c \in Cells(x) => u \in UnitsTouched(x, unit)
      BY <1>2, <2>8
    <3> QED
      BY <3>2, <3>3
  <2>9. \A c \in All : c \in Int \X Int
    BY <1>4
  <2>10. u \in Undone <=> \E c \in All : UnitOf(c, unit) = u /\ c \notin Done
    <3> HIDE DEF Done
    <3> QED
      OBVIOUS
  <2> HIDE DEF Done, Touching, Undone
  <2>11. BoundsCover(T, Touching(u)) <=> u \notin Undone
    BY <2>4, <2>7, <2>8, <2>9, <2>10
  <2> QED
    BY <2>11 DEF T
<1>6. IncompletelyWritten(shape, unit, touched, written) =
        {u \in Units : ~BoundsCover(UnitBounds(u, unit, shape), Touching(u))}
  BY DEF IncompletelyWritten
<1>7. CoverageIsExact(shape, unit, touched, written) <=>
        IncompletelyWritten(shape, unit, touched, written) = CellUnits \cap Undone
  BY DEF CoverageIsExact
<1> HIDE DEF Units, CellUnits, Undone, Touching
<1> QED
  BY <1>3, <1>5, <1>6, <1>7

-----------------------------------------------------------------------------
(* The theorem.                                                            *)

LEMMA InputsAreExact == input \in Inputs => GeometryIsExact
<1> SUFFICES ASSUME input \in Inputs PROVE GeometryIsExact
  OBVIOUS
<1>0. IsInput(input)
  BY GeometryAssumption
<1>1. CASE AsksCoverage(input)
  <2>1. CoverageIsExact(input.shape, input.unit, input.touched, input.written)
    BY <1>1, CoverageIsByCells DEF AsksCoverage
  <2> QED
    BY <1>1, <2>1 DEF AsksCoverage, GeometryIsExact
<1>2. CASE AsksWindow(input)
  <2>1. SharedUnitsAreExact(input.size, input.length, input.window)
    BY <1>2, WindowsAreExact DEF AsksWindow
  <2> QED
    BY <1>2, <2>1 DEF AsksWindow, GeometryIsExact
<1>3. CASE AsksKeys(input)
  <2>1. AlignedWritesKeepApart(input.shape, input.chunks, input.w, input.v)
    BY <1>3, KeysAreExact DEF AsksKeys
  <2> QED
    BY <1>3, <2>1 DEF AsksKeys, GeometryIsExact
<1>4. CASE AsksAxis(input)
  <2>1. \A c \in input.coordinates : PositionsAreExact(input.axis, c)
    BY <1>4, AxesAreExact DEF AsksAxis
  <2>2. ItemsAreSharedOut(input.axis, input.cut, input.coordinates)
    BY <1>4, ItemsAreExact DEF AsksAxis
  <2> QED
    BY <1>4, <2>1, <2>2 DEF AsksAxis, GeometryIsExact
<1> QED
  BY <1>0, <1>1, <1>2, <1>3, <1>4 DEF IsInput

\* Whatever array, boxes, window, region writes or axis and items the operators are
\* asked about: coverage, shared units, chunk keys, positions and the shares of pods
\* computed from edges and indices are those of the cells and instants
\* (chunk_geometry.py, index_resolve.py, filter_items_by_index).
THEOREM OperatorsAreExact == GeometrySpec => []GeometryIsExact
<1>1. GeometryInit => GeometryIsExact
  BY InputsAreExact DEF GeometryInit
<1>2. GeometryIsExact /\ [UNCHANGED input]_input => GeometryIsExact'
  <2> SUFFICES ASSUME GeometryIsExact, input' = input PROVE GeometryIsExact'
    OBVIOUS
  <2> QED
    BY DEF GeometryIsExact
<1> QED
  BY <1>1, <1>2, PTL DEF GeometrySpec
=============================================================================
