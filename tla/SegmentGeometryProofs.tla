----------------------- MODULE SegmentGeometryProofs -----------------------
(***************************************************************************)
(* What holds of every grid of SBs that is cut into segments, for pictures *)
(* of every size: rows and bands are cut at thresholds, so that an SB is   *)
(* in the row and the band whose thresholds it lies between; every segment *)
(* between the first and the last of a row has SBs; the SB loop of the     *)
(* kernel codes those of its segment.                                      *)
(***************************************************************************)
EXTENDS SegmentGeometry, TLAPS, FiniteSetTheorems

\* What svt_aom_enc_dec_segments_init makes of its arguments: not more rows than
\* SB rows, and not more bands than there would be with a column for each SB.
IsGrid(g) == /\ g.w \in Nat \ {0} /\ g.h \in Nat \ {0}
             /\ g.rows \in 1 .. g.h
             /\ g.bands \in g.rows .. g.rows + g.w - 1

-----------------------------------------------------------------------------
(* Division.                                                                *)

\* A quotient, by its bounds.
LEMMA Quotient ==
    ASSUME NEW n \in Nat \ {0}, NEW a \in Nat
    PROVE  /\ a \div n \in Nat
           /\ n * (a \div n) <= a
           /\ a < n * ((a \div n) + 1)
<1>1. /\ a \div n \in Int /\ a % n \in 0..(n - 1)
      /\ a = n * (a \div n) + (a % n)
  OBVIOUS
<1>2. a \div n >= 0
  BY <1>1
<1> DEFINE q == a \div n
           r == a % n
<1>3. q \in Nat /\ r \in 0..(n - 1) /\ a = n * q + r
  BY <1>1, <1>2
<1>4. n * (q + 1) = n * q + n
  BY <1>3
<1> HIDE DEF q, r
<1>5. n * q <= a /\ a < n * (q + 1)
  BY <1>3, <1>4
<1> QED BY <1>3, <1>5 DEF q

\* Products grow with a factor.
LEMMA Grows ==
    ASSUME NEW n \in Nat, NEW a \in Int, NEW b \in Int, a <= b
    PROVE  n * a <= n * b
<1>1. n * (b - a) >= 0
  OBVIOUS
<1>2. n * (b - a) = n * b - n * a
  OBVIOUS
<1> QED BY <1>1, <1>2

\* A quotient reaches k when the dividend reaches k times the divisor.
LEMMA QuotientReaches ==
    ASSUME NEW n \in Nat \ {0}, NEW a \in Nat, NEW k \in Nat
    PROVE  k <= a \div n <=> n * k <= a
<1> DEFINE q == a \div n
<1>1. q \in Nat /\ n * q <= a /\ a < n * (q + 1)
  BY Quotient
<1> HIDE DEF q
<1>2. ASSUME k <= q
      PROVE  n * k <= a
  <2>1. n * k <= n * q
    BY <1>1, <1>2, Grows
  <2> QED BY <1>1, <2>1
<1>3. ASSUME q + 1 <= k
      PROVE  a < n * k
  <2>1. n * (q + 1) <= n * k
    BY <1>1, <1>3, Grows
  <2> QED BY <1>1, <2>1
<1>4. k <= q <=> n * k <= a
  BY <1>1, <1>2, <1>3
<1> QED BY <1>4 DEF q

\* A quotient rounded up is at most k when k times the divisor reaches the dividend.
LEMMA CeilingReaches ==
    ASSUME NEW n \in Nat \ {0}, NEW a \in Nat, NEW k \in Nat
    PROVE  /\ CeilDiv(a, n) \in Nat
           /\ CeilDiv(a, n) <= k <=> a <= n * k
<1>1. a + n - 1 \in Nat
  OBVIOUS
<1>2. (a + n - 1) \div n \in Nat
  BY <1>1, Quotient
<1>3. k + 1 <= (a + n - 1) \div n <=> n * (k + 1) <= a + n - 1
  BY <1>1, QuotientReaches
<1>4. n * (k + 1) = n * k + n
  OBVIOUS
<1>5. n * k \in Nat
  OBVIOUS
<1> DEFINE q == (a + n - 1) \div n
           m == n * k
<1>6. q \in Nat /\ m \in Nat /\ (k + 1 <= q <=> m + n <= a + n - 1)
  BY <1>2, <1>3, <1>4, <1>5
<1> HIDE DEF q, m
<1>7. q <= k <=> a <= m
  BY <1>6
<1> QED BY <1>2, <1>7 DEF q, m, CeilDiv

\* The thresholds t at which the quotient t * c \div n grows: it reaches k at
\* t = CeilDiv(n * k, c).
LEMMA Threshold ==
    ASSUME NEW n \in Nat \ {0}, NEW c \in Nat \ {0}, NEW t \in Nat, NEW k \in Nat
    PROVE  /\ (t * c) \div n \in Nat /\ CeilDiv(n * k, c) \in Nat
           /\ k <= (t * c) \div n <=> CeilDiv(n * k, c) <= t
<1>1. t * c \in Nat /\ n * k \in Nat /\ t * c = c * t
  OBVIOUS
<1>2. (t * c) \div n \in Nat /\ (k <= (t * c) \div n <=> n * k <= t * c)
  BY <1>1, Quotient, QuotientReaches
<1>3. CeilDiv(n * k, c) \in Nat /\ (CeilDiv(n * k, c) <= t <=> n * k <= c * t)
  BY <1>1, CeilingReaches
<1> QED BY <1>1, <1>2, <1>3

\* There are no two thresholds at one place when there are more places than
\* values; the first is at 0 and the last at n.
LEMMA Thresholds ==
    ASSUME NEW n \in Nat \ {0}, NEW c \in 1..n, NEW k \in Nat
    PROVE  /\ CeilDiv(n * k, c) < CeilDiv(n * (k + 1), c)
           /\ CeilDiv(n * 0, c) = 0
           /\ CeilDiv(n * c, c) = n
<1>1. n * k \in Nat /\ n * (k + 1) \in Nat /\ n * c \in Nat /\ n * 0 = 0
  OBVIOUS
<1> DEFINE t == CeilDiv(n * k, c)
           u == CeilDiv(n * (k + 1), c)
<1>2. t \in Nat /\ u \in Nat
  BY <1>1, CeilingReaches
<1>3. t < u
  <2>1. CASE t = 0
    <3>1. u <= 0 <=> n * (k + 1) <= c * 0
      BY <1>1, CeilingReaches
    <3>2. n * (k + 1) = n * k + n
      OBVIOUS
    <3> HIDE DEF t, u
    <3> QED BY <1>1, <1>2, <2>1, <3>1, <3>2
  <2>2. CASE t # 0
    <3>1. t - 1 \in Nat
      BY <1>2, <2>2
    <3>2. t <= t - 1 <=> n * k <= c * (t - 1)
      <4> DEFINE j == t - 1
      <4> HIDE DEF j
      <4>1. t <= j <=> n * k <= c * j
        BY <1>1, <3>1, CeilingReaches DEF j
      <4> QED BY <4>1 DEF j
    <3>3. u <= t <=> n * (k + 1) <= c * t
      <4> DEFINE a == n * (k + 1)
      <4>1. a \in Nat /\ t \in Nat /\ c \in Nat \ {0}
        BY <1>1, <1>2
      <4> HIDE DEF a, t
      <4>2. CeilDiv(a, c) <= t <=> a <= c * t
        BY <4>1, CeilingReaches
      <4> QED BY <4>2 DEF a
    <3>4. n * (k + 1) = n * k + n /\ c * (t - 1) = c * t - c /\ c * t \in Int
      BY <1>2
    <3> HIDE DEF t, u
    <3> QED BY <1>1, <1>2, <3>2, <3>3, <3>4
  <2> QED BY <2>1, <2>2
<1>4. CeilDiv(n * 0, c) = 0
  <2>1. CeilDiv(n * 0, c) <= 0 <=> n * 0 <= c * 0
    BY <1>1, CeilingReaches
  <2>2. c * 0 = 0 /\ CeilDiv(n * 0, c) \in Nat
    BY <1>1, CeilingReaches
  <2> QED BY <1>1, <2>1, <2>2
<1>5. CeilDiv(n * c, c) = n
  <2> DEFINE v == CeilDiv(n * c, c)
  <2>1. v \in Nat /\ (v <= n <=> n * c <= c * n)
    BY <1>1, CeilingReaches
  <2>2. n * c = c * n
    OBVIOUS
  <2>3. n - 1 \in Nat
    OBVIOUS
  <2>4. v <= n - 1 <=> n * c <= c * (n - 1)
    BY <1>1, <2>3, CeilingReaches
  <2>5. c * (n - 1) = c * n - c
    OBVIOUS
  <2> HIDE DEF v
  <2>6. v = n
    BY <1>1, <2>1, <2>2, <2>4, <2>5
  <2> QED BY <2>6 DEF v
<1> QED BY <1>3, <1>4, <1>5

-----------------------------------------------------------------------------
(* Rows.                                                                    *)

\* The SBs on one diagonal are in the same band.
Band(g, t) == (t * g.bands) \div SbBands(g)

\* The diagonal that a band begins with.
Diagonal(g, b) == CeilDiv(SbBands(g) * b, g.bands)

\* The numbers of a grid.
LEMMA GridNumbers ==
    ASSUME NEW g, IsGrid(g)
    PROVE  /\ g.w \in Nat \ {0} /\ g.h \in Nat \ {0}
           /\ g.rows \in Nat \ {0} /\ g.rows <= g.h
           /\ g.bands \in Nat \ {0} /\ g.rows <= g.bands /\ g.bands <= SbBands(g)
           /\ SbBands(g) \in Nat \ {0} /\ SbBands(g) = g.h + g.w - 1
  BY DEF IsGrid, SbBands, BandTotalCount

\* A row begins at its first y.
LEMMA RowFrom ==
    ASSUME NEW g, IsGrid(g), NEW y \in Nat, NEW row \in Nat
    PROVE  /\ RowIndex(g, y) \in Nat /\ FirstY(g, row) \in Nat
           /\ row <= RowIndex(g, y) <=> FirstY(g, row) <= y
<1>1. g.h \in Nat \ {0} /\ g.rows \in Nat \ {0}
  BY GridNumbers
<1> DEFINE h == g.h
           n == g.rows
<1>2. h \in Nat \ {0} /\ n \in Nat \ {0}
  BY <1>1
<1>3. RowIndex(g, y) = (y * n) \div h /\ FirstY(g, row) = CeilDiv(row * h, n)
  BY DEF RowIndex, FirstY
<1> HIDE DEF h, n
<1>4. row * h = h * row
  BY <1>2
<1>5. /\ (y * n) \div h \in Nat /\ CeilDiv(h * row, n) \in Nat
      /\ row <= (y * n) \div h <=> CeilDiv(h * row, n) <= y
  BY <1>2, Threshold
<1> QED BY <1>3, <1>4, <1>5

\* The rows follow one another from 0 to the height of the picture.
LEMMA RowsFollow ==
    ASSUME NEW g, IsGrid(g), NEW row \in Nat
    PROVE  /\ FirstY(g, row) \in Nat /\ FirstY(g, row + 1) \in Nat
           /\ FirstY(g, row) < FirstY(g, row + 1)
           /\ FirstY(g, 0) = 0 /\ FirstY(g, g.rows) = g.h
<1> DEFINE h == g.h
           n == g.rows
<1>1. h \in Nat \ {0} /\ n \in 1..h
  BY GridNumbers
<1>2. /\ FirstY(g, row) = CeilDiv(row * h, n) /\ FirstY(g, row + 1) = CeilDiv((row + 1) * h, n)
      /\ FirstY(g, 0) = CeilDiv(0 * h, n) /\ FirstY(g, n) = CeilDiv(n * h, n)
  BY DEF FirstY
<1> HIDE DEF h, n
<1>3. row * h = h * row /\ (row + 1) * h = h * (row + 1) /\ 0 * h = h * 0 /\ n * h = h * n
  BY <1>1
<1>4. /\ CeilDiv(h * row, n) < CeilDiv(h * (row + 1), n)
      /\ CeilDiv(h * 0, n) = 0 /\ CeilDiv(h * n, n) = h
  BY <1>1, Thresholds
<1>5. FirstY(g, row) \in Nat /\ FirstY(g, row + 1) \in Nat
  BY RowFrom
<1> QED BY <1>2, <1>3, <1>4, <1>5 DEF h, n

\* A band begins at its diagonal.
LEMMA BandFrom ==
    ASSUME NEW g, IsGrid(g), NEW t \in Nat, NEW b \in Nat
    PROVE  /\ Band(g, t) \in Nat /\ Diagonal(g, b) \in Nat
           /\ b <= Band(g, t) <=> Diagonal(g, b) <= t
<1> DEFINE n == SbBands(g)
           c == g.bands
<1>1. n \in Nat \ {0} /\ c \in Nat \ {0}
  BY GridNumbers
<1>2. Band(g, t) = (t * c) \div n /\ Diagonal(g, b) = CeilDiv(n * b, c)
  BY DEF Band, Diagonal
<1> HIDE DEF n, c
<1>3. /\ (t * c) \div n \in Nat /\ CeilDiv(n * b, c) \in Nat
      /\ b <= (t * c) \div n <=> CeilDiv(n * b, c) <= t
  BY <1>1, Threshold
<1> QED BY <1>2, <1>3

\* The bands follow one another from the first diagonal to the last.
LEMMA BandsFollow ==
    ASSUME NEW g, IsGrid(g), NEW b \in Nat
    PROVE  /\ Diagonal(g, b) \in Nat /\ Diagonal(g, b + 1) \in Nat
           /\ Diagonal(g, b) < Diagonal(g, b + 1)
           /\ Diagonal(g, 0) = 0 /\ Diagonal(g, g.bands) = SbBands(g)
<1> DEFINE n == SbBands(g)
           c == g.bands
<1>1. n \in Nat \ {0} /\ c \in 1..n
  BY GridNumbers
<1>2. /\ Diagonal(g, b) = CeilDiv(n * b, c) /\ Diagonal(g, b + 1) = CeilDiv(n * (b + 1), c)
      /\ Diagonal(g, 0) = CeilDiv(n * 0, c) /\ Diagonal(g, c) = CeilDiv(n * c, c)
  BY DEF Diagonal
<1> HIDE DEF n, c
<1>3. /\ CeilDiv(n * b, c) < CeilDiv(n * (b + 1), c)
      /\ CeilDiv(n * 0, c) = 0 /\ CeilDiv(n * c, c) = n
  BY <1>1, Thresholds
<1>4. Diagonal(g, b) \in Nat /\ Diagonal(g, b + 1) \in Nat
  BY BandFrom
<1> QED BY <1>2, <1>3, <1>4 DEF n, c

\* A later diagonal is in the same band or in a later one.
LEMMA BandGrows ==
    ASSUME NEW g, IsGrid(g), NEW t \in Nat, NEW u \in Nat, t <= u
    PROVE  Band(g, t) \in Nat /\ Band(g, u) \in Nat /\ Band(g, t) <= Band(g, u)
<1>1. Band(g, t) \in Nat /\ Band(g, u) \in Nat
  BY BandFrom
<1> DEFINE b == Band(g, t)
<1>2. b \in Nat /\ b <= Band(g, t)
  BY <1>1
<1> HIDE DEF b
<1>3. Diagonal(g, b) \in Nat /\ Diagonal(g, b) <= t
  BY <1>2, BandFrom
<1>4. b <= Band(g, u)
  BY <1>2, <1>3, BandFrom
<1> QED BY <1>1, <1>4 DEF b

\* The diagonals of a picture are in its bands.
LEMMA BandInGrid ==
    ASSUME NEW g, IsGrid(g), NEW t \in Nat, t < SbBands(g)
    PROVE  Band(g, t) \in 0 .. g.bands - 1
<1>1. g.bands \in Nat /\ SbBands(g) \in Nat
  BY GridNumbers
<1>2. Diagonal(g, g.bands) = SbBands(g)
  BY <1>1, BandsFollow
<1>3. Band(g, t) \in Nat /\ (g.bands <= Band(g, t) <=> Diagonal(g, g.bands) <= t)
  BY <1>1, BandFrom
<1> QED BY <1>1, <1>2, <1>3

\* The first y of a row is in the picture; later rows are further down.
LEMMA RowInGrid ==
    ASSUME NEW g, IsGrid(g), NEW row \in 0 .. g.rows - 1
    PROVE  /\ FirstY(g, row) \in Nat /\ LastY(g, row) \in Nat /\ LastY(g, row) = FirstY(g, row + 1) - 1
           /\ FirstY(g, row) <= LastY(g, row) /\ LastY(g, row) < g.h
<1>1. row \in Nat /\ g.rows \in Nat /\ row + 1 \in Nat /\ g.h \in Nat \ {0}
  BY GridNumbers
<1>2. FirstY(g, row) \in Nat /\ FirstY(g, row + 1) \in Nat /\ FirstY(g, row) < FirstY(g, row + 1)
  BY <1>1, RowsFollow
<1>3. FirstY(g, g.rows) = g.h
  BY <1>1, RowsFollow
<1>4. FirstY(g, row + 1) <= g.h
  <2>1. g.h - 1 \in Nat
    BY <1>1
  <2>2. /\ RowIndex(g, g.h - 1) \in Nat
        /\ g.rows <= RowIndex(g, g.h - 1) <=> FirstY(g, g.rows) <= g.h - 1
        /\ row + 1 <= RowIndex(g, g.h) <=> FirstY(g, row + 1) <= g.h
        /\ g.rows <= RowIndex(g, g.h) <=> FirstY(g, g.rows) <= g.h
        /\ RowIndex(g, g.h) \in Nat
    BY <1>1, <2>1, RowFrom
  <2>3. g.rows <= RowIndex(g, g.h) /\ row + 1 <= g.rows
    BY <1>1, <1>3, <2>2
  <2> QED BY <1>1, <2>2, <2>3
<1> QED BY <1>1, <1>2, <1>4 DEF LastY

-----------------------------------------------------------------------------
(* Segments.                                                                *)

\* The row and the band of a segment, from its number.
LEMMA SegmentNumber ==
    ASSUME NEW g, IsGrid(g), NEW row \in Nat, NEW b \in 0 .. g.bands - 1
    PROVE  /\ SegmentIndex(g, row, b) = row * g.bands + b /\ SegmentIndex(g, row, b) \in Nat
           /\ SegmentIndex(g, row, b) \div g.bands = row
           /\ SegmentIndex(g, row, b) % g.bands = b
<1> DEFINE n == g.bands
           s == row * n + b
<1>1. n \in Nat \ {0} /\ b \in 0 .. n - 1
  BY GridNumbers
<1> HIDE DEF n
<1>2. /\ row * n \in Nat /\ n * row = row * n
      /\ n * (row + 1) = row * n + n /\ row + 1 \in Nat
  BY <1>1
<1>3. s \in Nat
  BY <1>1, <1>2
<1>4. s \div n \in Nat /\ (row <= s \div n <=> n * row <= s) /\ (row + 1 <= s \div n <=> n * (row + 1) <= s)
  <2> HIDE DEF s
  <2> QED BY <1>1, <1>2, <1>3, Quotient, QuotientReaches
<1>5. n * row <= s /\ ~(n * (row + 1) <= s)
  BY <1>1, <1>2
<1>6. s \div n = row
  <2> HIDE DEF s
  <2> QED BY <1>4, <1>5
<1>7. s = n * (s \div n) + (s % n) /\ s % n \in Int
  <2> HIDE DEF s
  <2> QED BY <1>1, <1>3
<1>8. s = row * n + (s % n)
  <2> HIDE DEF s
  <2> QED BY <1>2, <1>6, <1>7
<1>9. s % n = b
  <2> DEFINE m == row * n
             r == s % n
  <2>1. m \in Nat /\ m + b = m + r /\ r \in Int /\ b \in Int
    BY <1>1, <1>2, <1>7, <1>8
  <2> HIDE DEF m, r
  <2>2. r = b
    BY <2>1
  <2> QED BY <2>2 DEF r
<1> QED BY <1>3, <1>6, <1>9 DEF SegmentIndex, n

\* Numbers grow with the row and with the band.
LEMMA SegmentOrder ==
    ASSUME NEW g, IsGrid(g), NEW row \in Nat, NEW b \in Int, NEW c \in Int
    PROVE  /\ SegmentIndex(g, row, b) \in Int
           /\ SegmentIndex(g, row, b) <= SegmentIndex(g, row, c) <=> b <= c
           /\ SegmentIndex(g, row, b) = SegmentIndex(g, row, c) <=> b = c
           /\ SegmentIndex(g, row + 1, b) = SegmentIndex(g, row, b) + g.bands
           /\ SegmentIndex(g, row, b) + c = SegmentIndex(g, row, b + c)
<1> DEFINE m == row * g.bands
           n == g.bands
<1>1. n \in Nat
  BY GridNumbers
<1>2. m \in Nat /\ (row + 1) * g.bands = m + n
  BY <1>1
<1>3. /\ SegmentIndex(g, row, b) = m + b /\ SegmentIndex(g, row, c) = m + c
      /\ SegmentIndex(g, row + 1, b) = (row + 1) * g.bands + b
      /\ SegmentIndex(g, row, b + c) = m + (b + c)
  BY DEF SegmentIndex
<1> HIDE DEF m
<1> QED BY <1>1, <1>2, <1>3

\* The segment below has the same band.
LEMMA SegmentBelow ==
    ASSUME NEW g, IsGrid(g), NEW row \in Nat, NEW b \in Int
    PROVE  /\ SegmentIndex(g, row, b) \in Int
           /\ SegmentIndex(g, row + 1, b) = SegmentIndex(g, row, b) + g.bands
  BY SegmentOrder

\* The row and the band of an SB are in the grid.
LEMMA SbInGrid ==
    ASSUME NEW g, IsGrid(g), NEW sb \in Sbs(g)
    PROVE  /\ sb[1] \in 0 .. g.w - 1 /\ sb[2] \in 0 .. g.h - 1 /\ sb = <<sb[1], sb[2]>>
           /\ RowIndex(g, sb[2]) \in 0 .. g.rows - 1
           /\ Band(g, sb[1] + sb[2]) \in 0 .. g.bands - 1
           /\ SegmentOf(g, sb) = SegmentIndex(g, RowIndex(g, sb[2]), Band(g, sb[1] + sb[2]))
<1>1. sb[1] \in 0 .. g.w - 1 /\ sb[2] \in 0 .. g.h - 1 /\ sb = <<sb[1], sb[2]>>
  BY DEF Sbs
<1>2. /\ g.w \in Nat \ {0} /\ g.h \in Nat \ {0} /\ SbBands(g) = g.h + g.w - 1 /\ g.rows \in Nat \ {0}
  BY GridNumbers
<1>3. sb[1] \in Nat /\ sb[2] \in Nat /\ sb[1] + sb[2] \in Nat /\ sb[1] + sb[2] < SbBands(g)
  BY <1>1, <1>2
<1>4. Band(g, sb[1] + sb[2]) \in 0 .. g.bands - 1
  BY <1>3, BandInGrid
<1>5. FirstY(g, g.rows) = g.h
  BY <1>2, RowsFollow
<1>6. RowIndex(g, sb[2]) \in Nat /\ (g.rows <= RowIndex(g, sb[2]) <=> FirstY(g, g.rows) <= sb[2])
  BY <1>2, <1>3, RowFrom
<1>7. RowIndex(g, sb[2]) \in 0 .. g.rows - 1
  BY <1>1, <1>2, <1>5, <1>6
<1>8. SegmentOf(g, sb) = SegmentIndex(g, RowIndex(g, sb[2]), Band(g, sb[1] + sb[2]))
  BY DEF SegmentOf, BandIndex, Band
<1> QED BY <1>1, <1>4, <1>7, <1>8

\* An SB is in the segment between whose thresholds it lies.
LEMMA SegmentIs ==
    ASSUME NEW g, IsGrid(g), NEW sb \in Sbs(g), NEW row \in 0 .. g.rows - 1, NEW b \in 0 .. g.bands - 1
    PROVE  SegmentOf(g, sb) = SegmentIndex(g, row, b)
              <=> /\ FirstY(g, row) <= sb[2] /\ sb[2] <= LastY(g, row)
                  /\ Diagonal(g, b) <= sb[1] + sb[2] /\ sb[1] + sb[2] < Diagonal(g, b + 1)
<1>1. /\ sb[1] \in Nat /\ sb[2] \in Nat /\ sb[1] + sb[2] \in Nat
      /\ row \in Nat /\ b \in Nat /\ row + 1 \in Nat /\ b + 1 \in Nat
      /\ g.bands \in Nat \ {0} /\ g.rows \in Nat
  BY SbInGrid, GridNumbers
<1> DEFINE r == RowIndex(g, sb[2])
           c == Band(g, sb[1] + sb[2])
<1>2. /\ r \in 0 .. g.rows - 1 /\ c \in 0 .. g.bands - 1
      /\ SegmentOf(g, sb) = SegmentIndex(g, r, c)
  BY SbInGrid
<1>3. /\ row <= r <=> FirstY(g, row) <= sb[2]
      /\ row + 1 <= r <=> FirstY(g, row + 1) <= sb[2]
  BY <1>1, RowFrom
<1>4. /\ b <= c <=> Diagonal(g, b) <= sb[1] + sb[2]
      /\ b + 1 <= c <=> Diagonal(g, b + 1) <= sb[1] + sb[2]
  BY <1>1, BandFrom
<1>5. /\ FirstY(g, row + 1) \in Nat /\ LastY(g, row) = FirstY(g, row + 1) - 1
      /\ Diagonal(g, b + 1) \in Nat
  BY <1>1, RowsFollow, BandsFollow DEF LastY
<1> HIDE DEF r, c
<1>6. r \in Nat /\ c \in Nat /\ c \in 0 .. g.bands - 1
  BY <1>1, <1>2
<1>7. /\ SegmentIndex(g, r, c) \div g.bands = r /\ SegmentIndex(g, r, c) % g.bands = c
      /\ SegmentIndex(g, row, b) \div g.bands = row /\ SegmentIndex(g, row, b) % g.bands = b
  BY <1>1, <1>6, SegmentNumber
<1>8. SegmentIndex(g, r, c) = SegmentIndex(g, row, b) <=> r = row /\ c = b
  BY <1>7
<1>9. r = row <=> FirstY(g, row) <= sb[2] /\ sb[2] <= LastY(g, row)
  BY <1>1, <1>3, <1>5, <1>6
<1>10. c = b <=> Diagonal(g, b) <= sb[1] + sb[2] /\ sb[1] + sb[2] < Diagonal(g, b + 1)
  BY <1>1, <1>4, <1>5, <1>6
<1> QED BY <1>2, <1>8, <1>9, <1>10

\* The first and the last band of a row.
LowBand(g, row)  == Band(g, FirstY(g, row))
HighBand(g, row) == Band(g, g.w - 1 + LastY(g, row))

\* The first and the last segment of a row are in the row, in this order.
LEMMA RowEnds ==
    ASSUME NEW g, IsGrid(g), NEW row \in 0 .. g.rows - 1
    PROVE  /\ LowBand(g, row) \in 0 .. g.bands - 1 /\ HighBand(g, row) \in 0 .. g.bands - 1
           /\ LowBand(g, row) <= HighBand(g, row)
           /\ StartingSeg(g, row) = SegmentIndex(g, row, LowBand(g, row))
           /\ EndingSeg(g, row) = SegmentIndex(g, row, HighBand(g, row))
<1>1. /\ FirstY(g, row) \in Nat /\ LastY(g, row) \in Nat
      /\ FirstY(g, row) <= LastY(g, row) /\ LastY(g, row) < g.h
  BY RowInGrid
<1>2. g.w \in Nat \ {0} /\ g.h \in Nat \ {0} /\ SbBands(g) = g.h + g.w - 1
  BY GridNumbers
<1>3. /\ g.w - 1 + LastY(g, row) \in Nat /\ FirstY(g, row) <= g.w - 1 + LastY(g, row)
      /\ FirstY(g, row) < SbBands(g) /\ g.w - 1 + LastY(g, row) < SbBands(g)
  BY <1>1, <1>2
<1>4. /\ LowBand(g, row) \in 0 .. g.bands - 1 /\ HighBand(g, row) \in 0 .. g.bands - 1
  BY <1>1, <1>3, BandInGrid DEF LowBand, HighBand
<1>5. LowBand(g, row) <= HighBand(g, row)
  BY <1>1, <1>3, BandGrows DEF LowBand, HighBand
<1>6. /\ 0 + FirstY(g, row) = FirstY(g, row)
      /\ (g.w - 1) + LastY(g, row) = g.w - 1 + LastY(g, row)
  BY <1>1, <1>2
<1>7. /\ StartingSeg(g, row) = SegmentIndex(g, row, LowBand(g, row))
      /\ EndingSeg(g, row) = SegmentIndex(g, row, HighBand(g, row))
  BY <1>6 DEF StartingSeg, EndingSeg, BandIndex, LowBand, HighBand, Band
<1> QED BY <1>4, <1>5, <1>7

\* They are numbers, in this order.
LEMMA RowInNumbers ==
    ASSUME NEW g, IsGrid(g), NEW row \in 0 .. g.rows - 1
    PROVE  StartingSeg(g, row) \in Nat /\ EndingSeg(g, row) \in Nat /\ StartingSeg(g, row) <= EndingSeg(g, row)
<1> DEFINE l == LowBand(g, row)
           h == HighBand(g, row)
<1>1. /\ l \in 0 .. g.bands - 1 /\ h \in 0 .. g.bands - 1 /\ l <= h /\ row \in Nat
      /\ StartingSeg(g, row) = SegmentIndex(g, row, l) /\ EndingSeg(g, row) = SegmentIndex(g, row, h)
  BY RowEnds, GridNumbers
<1> HIDE DEF l, h
<1>2. l \in Int /\ h \in Int
  BY <1>1, GridNumbers
<1>3. SegmentIndex(g, row, l) <= SegmentIndex(g, row, h)
  BY <1>1, <1>2, SegmentOrder
<1>4. SegmentIndex(g, row, l) \in Nat /\ SegmentIndex(g, row, h) \in Nat
  BY <1>1, SegmentNumber
<1> QED BY <1>1, <1>3, <1>4

\* The rows lie one below the other, shifted to later bands; where two SBs are
\* next to one another, a row begins below a segment of the row above.
LEMMA NextRow ==
    ASSUME NEW g, IsGrid(g), NEW row \in 0 .. g.rows - 1, row + 1 <= g.rows - 1
    PROVE  /\ StartingSeg(g, row) + g.bands <= StartingSeg(g, row + 1)
           /\ EndingSeg(g, row) + g.bands <= EndingSeg(g, row + 1)
           /\ g.w >= 2 => StartingSeg(g, row + 1) <= EndingSeg(g, row) + g.bands
<1>1. row \in Nat /\ row + 1 \in 0 .. g.rows - 1 /\ g.bands \in Nat \ {0} /\ g.w \in Nat \ {0}
  BY GridNumbers
<1>2. /\ FirstY(g, row) \in Nat /\ FirstY(g, row + 1) \in Nat /\ FirstY(g, row) < FirstY(g, row + 1)
      /\ LastY(g, row) \in Nat /\ LastY(g, row) = FirstY(g, row + 1) - 1
      /\ LastY(g, row + 1) \in Nat /\ FirstY(g, row + 1) <= LastY(g, row + 1)
  BY <1>1, RowInGrid, RowsFollow
<1>3. /\ LowBand(g, row) <= LowBand(g, row + 1) /\ HighBand(g, row) <= HighBand(g, row + 1)
      /\ g.w >= 2 => LowBand(g, row + 1) <= HighBand(g, row)
  <2>1. /\ g.w - 1 + LastY(g, row) \in Nat /\ g.w - 1 + LastY(g, row + 1) \in Nat
        /\ g.w - 1 + LastY(g, row) <= g.w - 1 + LastY(g, row + 1)
        /\ g.w >= 2 => FirstY(g, row + 1) <= g.w - 1 + LastY(g, row)
    BY <1>1, <1>2
  <2> QED BY <1>2, <2>1, BandGrows DEF LowBand, HighBand
<1> DEFINE l == LowBand(g, row)
           m == LowBand(g, row + 1)
           h == HighBand(g, row)
           i == HighBand(g, row + 1)
<1>4. l \in Int /\ m \in Int /\ h \in Int /\ i \in Int
  BY <1>1, RowEnds
<1>5. /\ StartingSeg(g, row) = SegmentIndex(g, row, l) /\ EndingSeg(g, row) = SegmentIndex(g, row, h)
      /\ StartingSeg(g, row + 1) = SegmentIndex(g, row + 1, m) /\ EndingSeg(g, row + 1) = SegmentIndex(g, row + 1, i)
  BY <1>1, RowEnds
<1> HIDE DEF l, m, h, i
<1>6. /\ SegmentIndex(g, row + 1, m) = SegmentIndex(g, row, m) + g.bands
      /\ SegmentIndex(g, row + 1, i) = SegmentIndex(g, row, i) + g.bands
      /\ SegmentIndex(g, row, l) \in Int /\ SegmentIndex(g, row, m) \in Int
      /\ SegmentIndex(g, row, h) \in Int /\ SegmentIndex(g, row, i) \in Int
  <2>1. \A b \in Int : /\ SegmentIndex(g, row, b) \in Int
                       /\ SegmentIndex(g, row + 1, b) = SegmentIndex(g, row, b) + g.bands
    BY <1>1, SegmentOrder
  <2> QED BY <1>4, <2>1
<1>7. /\ SegmentIndex(g, row, l) <= SegmentIndex(g, row, m) <=> l <= m
      /\ SegmentIndex(g, row, h) <= SegmentIndex(g, row, i) <=> h <= i
      /\ SegmentIndex(g, row, m) <= SegmentIndex(g, row, h) <=> m <= h
  BY <1>1, <1>4, SegmentOrder
<1>8. l <= m /\ h <= i /\ (g.w >= 2 => m <= h)
  BY <1>3 DEF l, m, h, i
<1> QED BY <1>1, <1>5, <1>6, <1>7, <1>8

\* A segment between the first and the last of a row is in the row.
LEMMA SegmentInRow ==
    ASSUME NEW g, IsGrid(g), NEW row \in 0 .. g.rows - 1, NEW s \in StartingSeg(g, row) .. EndingSeg(g, row)
    PROVE  /\ \E b \in LowBand(g, row) .. HighBand(g, row) :
                 b \in 0 .. g.bands - 1 /\ s = SegmentIndex(g, row, b) /\ s % g.bands = b
           /\ s \in SegmentIds(g) /\ RowOfSeg(g, s) = row
<1>1. /\ row \in Nat /\ g.bands \in Nat \ {0} /\ g.rows \in Nat \ {0}
  BY GridNumbers
<1> DEFINE l == LowBand(g, row)
           h == HighBand(g, row)
           o == SegmentIndex(g, row, 0)
<1>2. /\ l \in 0 .. g.bands - 1 /\ h \in 0 .. g.bands - 1
      /\ StartingSeg(g, row) = SegmentIndex(g, row, l) /\ EndingSeg(g, row) = SegmentIndex(g, row, h)
  BY RowEnds
<1> HIDE DEF l, h
<1>3. \A b \in Int : SegmentIndex(g, row, b) = o + b /\ o \in Int
  <2>1. \A b \in Int : SegmentIndex(g, row, 0) + b = SegmentIndex(g, row, 0 + b) /\ SegmentIndex(g, row, 0) \in Int
    BY <1>1, SegmentOrder
  <2> QED BY <2>1
<1> DEFINE b == s - o
<1>4. l \in Int /\ h \in Int /\ o \in Int
  BY <1>1, <1>2, <1>3
<1>5. s \in Int /\ s >= o + l /\ s <= o + h
  BY <1>2, <1>3, <1>4
<1>6. b \in l .. h /\ b \in 0 .. g.bands - 1 /\ s = o + b /\ b \in Int
  <2> HIDE DEF o
  <2> QED BY <1>1, <1>2, <1>4, <1>5
<1> HIDE DEF b, o
<1>7. s = SegmentIndex(g, row, b)
  BY <1>3, <1>6
<1>8. /\ SegmentIndex(g, row, b) \in Nat /\ SegmentIndex(g, row, b) = row * g.bands + b
      /\ SegmentIndex(g, row, b) \div g.bands = row /\ SegmentIndex(g, row, b) % g.bands = b
  BY <1>1, <1>6, SegmentNumber
<1>9. s \in SegmentIds(g)
  <2>1. g.bands * (row + 1) <= g.bands * g.rows
    BY <1>1, Grows
  <2>2. g.bands * (row + 1) = row * g.bands + g.bands /\ g.bands * g.rows = g.rows * g.bands
    BY <1>1
  <2>3. row * g.bands \in Nat /\ g.rows * g.bands \in Nat
    BY <1>1
  <2> DEFINE m == row * g.bands
             n == g.rows * g.bands
  <2>4. m \in Nat /\ n \in Nat /\ m + g.bands <= n /\ s = m + b /\ SegmentIds(g) = 0 .. n - 1
    BY <1>7, <1>8, <2>1, <2>2, <2>3 DEF SegmentIds
  <2> HIDE DEF m, n
  <2> QED BY <1>1, <1>6, <2>4
<1>10. RowOfSeg(g, s) = row
  BY <1>7, <1>8 DEF RowOfSeg
<1> QED BY <1>6, <1>7, <1>8, <1>9, <1>10 DEF l, h

\* The segment of an SB is between the first and the last of its row.
LEMMA SbInRow ==
    ASSUME NEW g, IsGrid(g), NEW sb \in Sbs(g)
    PROVE  /\ RowIndex(g, sb[2]) \in 0 .. g.rows - 1
           /\ SegmentOf(g, sb) \in StartingSeg(g, RowIndex(g, sb[2])) .. EndingSeg(g, RowIndex(g, sb[2]))
<1> DEFINE row == RowIndex(g, sb[2])
           b == Band(g, sb[1] + sb[2])
<1>1. /\ sb[1] \in 0 .. g.w - 1 /\ sb[2] \in 0 .. g.h - 1
      /\ row \in 0 .. g.rows - 1 /\ b \in 0 .. g.bands - 1
      /\ SegmentOf(g, sb) = SegmentIndex(g, row, b)
  BY SbInGrid
<1>2. g.w \in Nat /\ g.h \in Nat /\ g.rows \in Nat
  BY GridNumbers
<1>3. /\ FirstY(g, row) \in Nat /\ LastY(g, row) \in Nat /\ LastY(g, row) = FirstY(g, row + 1) - 1
      /\ FirstY(g, row + 1) \in Nat
  <2> HIDE DEF row
  <2>1. row \in Nat
    BY <1>1, <1>2
  <2> QED BY <1>1, <2>1, RowInGrid, RowsFollow
<1>4. FirstY(g, row) <= sb[2] /\ ~(FirstY(g, row + 1) <= sb[2])
  <2>1. row \in Nat /\ row + 1 \in Nat /\ sb[2] \in Nat /\ row <= row /\ ~(row + 1 <= row)
    BY <1>1, <1>2
  <2> QED BY <2>1, RowFrom
<1>5. /\ FirstY(g, row) \in Nat /\ sb[1] + sb[2] \in Nat /\ g.w - 1 + LastY(g, row) \in Nat
      /\ FirstY(g, row) <= sb[1] + sb[2] /\ sb[1] + sb[2] <= g.w - 1 + LastY(g, row)
  <2> HIDE DEF row
  <2> QED BY <1>1, <1>2, <1>3, <1>4
<1> HIDE DEF row
<1>6. LowBand(g, row) <= b /\ b <= HighBand(g, row)
  BY <1>5, BandGrows DEF LowBand, HighBand
<1>7. /\ StartingSeg(g, row) = SegmentIndex(g, row, LowBand(g, row))
      /\ EndingSeg(g, row) = SegmentIndex(g, row, HighBand(g, row))
      /\ LowBand(g, row) \in 0 .. g.bands - 1 /\ HighBand(g, row) \in 0 .. g.bands - 1
  BY <1>1, RowEnds
<1> HIDE DEF b
<1>8. /\ row \in Nat /\ b \in Int /\ LowBand(g, row) \in Int /\ HighBand(g, row) \in Int
  BY <1>1, <1>2, <1>7, GridNumbers
<1>9. /\ SegmentIndex(g, row, LowBand(g, row)) <= SegmentIndex(g, row, b)
      /\ SegmentIndex(g, row, b) <= SegmentIndex(g, row, HighBand(g, row))
      /\ SegmentIndex(g, row, b) \in Int /\ SegmentIndex(g, row, LowBand(g, row)) \in Int
      /\ SegmentIndex(g, row, HighBand(g, row)) \in Int
  BY <1>6, <1>8, SegmentOrder
<1>10. SegmentOf(g, sb) \in StartingSeg(g, row) .. EndingSeg(g, row)
  BY <1>1, <1>7, <1>9
<1> QED BY <1>1, <1>10 DEF row

\* The SBs of a picture are finitely many.
LEMMA SbsFinite ==
    ASSUME NEW g, IsGrid(g)
    PROVE  /\ IsFiniteSet(Sbs(g)) /\ Cardinality(Sbs(g)) = g.w * g.h
           /\ \A s : IsFiniteSet(SbsOf(g, s)) /\ ValidSbCount(g, s) \in Nat
<1> DEFINE a == g.w - 1
           b == g.h - 1
           A == 0 .. a
           B == 0 .. b
<1>1. g.w \in Nat \ {0} /\ g.h \in Nat \ {0}
  BY GridNumbers
<1>2. a \in Int /\ b \in Int /\ 0 \in Int
  BY <1>1
<1>3. IsFiniteSet(A) /\ Cardinality(A) = IF 0 > a THEN 0 ELSE a - 0 + 1
  <2> HIDE DEF a
  <2> QED BY <1>2, FS_Interval, Zenon
<1>4. IsFiniteSet(B) /\ Cardinality(B) = IF 0 > b THEN 0 ELSE b - 0 + 1
  <2> HIDE DEF b
  <2> QED BY <1>2, FS_Interval, Zenon
<1>5. Cardinality(A) = g.w /\ Cardinality(B) = g.h
  BY <1>1, <1>3, <1>4
<1>6. Sbs(g) = A \X B
  BY DEF Sbs
<1> HIDE DEF A, B
<1>7. IsFiniteSet(A \X B) /\ Cardinality(A \X B) = Cardinality(A) * Cardinality(B)
  BY <1>3, <1>4, FS_Product
<1>8. IsFiniteSet(Sbs(g)) /\ Cardinality(Sbs(g)) = g.w * g.h
  BY <1>5, <1>6, <1>7
<1>9. ASSUME NEW s
      PROVE  IsFiniteSet(SbsOf(g, s)) /\ ValidSbCount(g, s) \in Nat
  <2>1. SbsOf(g, s) \subseteq Sbs(g)
    BY DEF SbsOf
  <2>2. IsFiniteSet(SbsOf(g, s))
    BY <1>8, <2>1, FS_Subset
  <2> QED BY <2>2, FS_CardinalityType DEF ValidSbCount
<1> QED BY <1>8, <1>9

\* No segment between the first and the last of a row is empty.
LEMMA RowHasNoGap ==
    ASSUME NEW g, IsGrid(g), NEW row \in 0 .. g.rows - 1, NEW s \in StartingSeg(g, row) .. EndingSeg(g, row)
    PROVE  SbsOf(g, s) # {} /\ ValidSbCount(g, s) \in Nat \ {0}
<1>1. /\ FirstY(g, row) \in Nat /\ LastY(g, row) \in Nat
      /\ FirstY(g, row) <= LastY(g, row) /\ LastY(g, row) < g.h
  BY RowInGrid
<1>2. g.w \in Nat \ {0} /\ g.h \in Nat \ {0} /\ g.bands \in Nat
  BY GridNumbers
<1>3. PICK b \in LowBand(g, row) .. HighBand(g, row) : b \in 0 .. g.bands - 1 /\ s = SegmentIndex(g, row, b)
  BY SegmentInRow
<1>4. b \in Nat /\ b + 1 \in Nat /\ LowBand(g, row) \in Int /\ HighBand(g, row) \in Int
  BY <1>2, <1>3, RowEnds
<1> DEFINE first == FirstY(g, row)
           last == LastY(g, row)
           from == Diagonal(g, b)
           upto == Diagonal(g, b + 1)
           end == g.w - 1 + last
<1>5. from \in Nat /\ upto \in Nat /\ from < upto /\ end \in Nat
  BY <1>1, <1>2, <1>4, BandsFollow
<1>6. from <= end
  <2>1. b <= Band(g, end)
    BY <1>3, <1>4 DEF HighBand
  <2> HIDE DEF end
  <2> QED BY <1>4, <1>5, <2>1, BandFrom
<1>7. first < upto
  <2>1. ~(b + 1 <= Band(g, first)) /\ first \in Nat
    BY <1>1, <1>3, <1>4, <1>5, BandFrom DEF LowBand
  <2> HIDE DEF first
  <2> QED BY <1>4, <1>5, <2>1, BandFrom
<1> DEFINE t == IF from >= first THEN from ELSE first
           y == IF t <= last THEN t ELSE last
           x == t - y
<1>8. /\ first \in Nat /\ last \in Nat /\ first <= last /\ last < g.h /\ end = g.w - 1 + last
  BY <1>1
<1> HIDE DEF first, last, from, upto, end
<1>9. /\ t \in Nat /\ first <= t /\ t <= end /\ from <= t /\ t < upto
  BY <1>2, <1>5, <1>6, <1>7, <1>8
<1>10. /\ y \in 0 .. g.h - 1 /\ x \in 0 .. g.w - 1 /\ x + y = t /\ first <= y /\ y <= last
  <2> HIDE DEF t
  <2> QED BY <1>2, <1>8, <1>9
<1> DEFINE sb == <<x, y>>
<1>11. sb \in Sbs(g) /\ sb[1] = x /\ sb[2] = y
  <2> HIDE DEF x, y
  <2> QED BY <1>10 DEF Sbs
<1>12. /\ first <= sb[2] /\ sb[2] <= last /\ from <= sb[1] + sb[2] /\ sb[1] + sb[2] < upto
  <2> HIDE DEF x, y, t
  <2> QED BY <1>9, <1>10, <1>11
<1> HIDE DEF sb
<1>13. SegmentOf(g, sb) = s
  BY <1>3, <1>11, <1>12, SegmentIs DEF first, last, from, upto
<1>14. sb \in SbsOf(g, s)
  BY <1>11, <1>13 DEF SbsOf
<1>15. IsFiniteSet(SbsOf(g, s)) /\ ValidSbCount(g, s) \in Nat
  BY SbsFinite
<1>16. ValidSbCount(g, s) # 0
  BY <1>14, <1>15, FS_EmptySet DEF ValidSbCount
<1> QED BY <1>14, <1>15, <1>16

-----------------------------------------------------------------------------
(* The dependencies.                                                        *)

\* The segments that release segment s of a row: that on its left, and the one
\* that lies one band further up the picture, if the row above has it.
HasLeft(g, row, s)  == s > StartingSeg(g, row)
HasAbove(g, row, s) == row > 0 /\ s - g.bands \in StartingSeg(g, row - 1) .. EndingSeg(g, row - 1)

\* A segment that is not the first of its row is released on its left.
LEMMA LeftReleases ==
    ASSUME NEW g, IsGrid(g), NEW row \in 0 .. g.rows - 1, NEW s \in StartingSeg(g, row) .. EndingSeg(g, row)
    PROVE  InScan(g, s - 1) /\ HasRight(g, s - 1) <=> HasLeft(g, row, s)
<1>1. row \in Nat /\ g.rows \in Nat \ {0} /\ g.bands \in Nat \ {0}
  BY GridNumbers
<1>2. /\ LowBand(g, row) \in 0 .. g.bands - 1 /\ HighBand(g, row) \in 0 .. g.bands - 1
      /\ StartingSeg(g, row) = SegmentIndex(g, row, LowBand(g, row))
      /\ EndingSeg(g, row) = SegmentIndex(g, row, HighBand(g, row))
  BY RowEnds
<1>3. StartingSeg(g, row) \in Nat /\ EndingSeg(g, row) \in Nat /\ s \in Nat
  BY <1>1, <1>2, SegmentNumber
<1>4. ASSUME HasLeft(g, row, s)
      PROVE  InScan(g, s - 1) /\ HasRight(g, s - 1)
  <2>1. s - 1 \in StartingSeg(g, row) .. EndingSeg(g, row) /\ s - 1 < EndingSeg(g, row)
    BY <1>3, <1>4 DEF HasLeft
  <2>2. s - 1 \in SegmentIds(g) /\ RowOfSeg(g, s - 1) = row /\ ValidSbCount(g, s - 1) \in Nat \ {0}
    BY <2>1, SegmentInRow, RowHasNoGap
  <2> QED BY <2>1, <2>2 DEF InScan, HasRight
<1>5. ASSUME InScan(g, s - 1), HasRight(g, s - 1), s = StartingSeg(g, row)
      PROVE  FALSE
  <2> DEFINE l == LowBand(g, row)
  <2>1. s = SegmentIndex(g, row, l) /\ l \in 0 .. g.bands - 1 /\ s - 1 \in Nat
    BY <1>2, <1>3, <1>5 DEF InScan, SegmentIds
  <2> HIDE DEF l
  <2>2. CASE l > 0
    <3>1. s - 1 = SegmentIndex(g, row, l - 1) /\ l - 1 \in 0 .. g.bands - 1
      <4>1. l \in Int /\ -1 \in Int /\ l + (-1) = l - 1
        BY <1>1, <2>1
      <4>2. SegmentIndex(g, row, l) + (-1) = SegmentIndex(g, row, l + (-1))
        BY <1>1, <4>1, SegmentOrder
      <4> QED BY <1>1, <1>3, <2>1, <2>2, <4>1, <4>2
    <3>2. RowOfSeg(g, s - 1) = row
      BY <1>1, <3>1, SegmentNumber DEF RowOfSeg
    <3> QED BY <1>3, <1>5, <3>2 DEF InScan
  <2>3. CASE l = 0
    <3>1. row # 0
      <4>1. s = row * g.bands + l
        BY <1>1, <2>1, SegmentNumber
      <4> QED BY <1>1, <2>1, <2>3, <4>1
    <3>2. row - 1 \in Nat /\ row - 1 \in 0 .. g.rows - 1 /\ (row - 1) + 1 = row
      BY <1>1, <3>1
    <3> DEFINE u == row - 1
    <3>3. u \in Nat /\ u \in 0 .. g.rows - 1 /\ u + 1 = row
      BY <3>2
    <3> HIDE DEF u
    <3>4. s = SegmentIndex(g, u, 0) + g.bands
      <4>1. SegmentIndex(g, u + 1, 0) = SegmentIndex(g, u, 0) + g.bands
        BY <3>3, SegmentBelow
      <4> QED BY <2>1, <2>3, <3>3, <4>1
    <3>5. s - 1 = SegmentIndex(g, u, g.bands - 1)
      <4>1. /\ SegmentIndex(g, u, 0) + (g.bands - 1) = SegmentIndex(g, u, 0 + (g.bands - 1))
            /\ SegmentIndex(g, u, 0) \in Int
        <5> DEFINE c == g.bands - 1
        <5>1. c \in Int /\ 0 \in Int
          BY <1>1
        <5> HIDE DEF c
        <5>2. SegmentIndex(g, u, 0) + c = SegmentIndex(g, u, 0 + c) /\ SegmentIndex(g, u, 0) \in Int
          BY <3>3, <5>1, SegmentOrder
        <5> QED BY <5>2 DEF c
      <4>2. 0 + (g.bands - 1) = g.bands - 1
        BY <1>1
      <4> QED BY <1>1, <3>4, <4>1, <4>2
    <3>6. RowOfSeg(g, s - 1) = u
      <4>1. g.bands - 1 \in 0 .. g.bands - 1
        BY <1>1
      <4> QED BY <3>3, <3>5, <4>1, SegmentNumber DEF RowOfSeg
    <3>7. EndingSeg(g, u) = SegmentIndex(g, u, HighBand(g, u)) /\ HighBand(g, u) \in 0 .. g.bands - 1
      BY <3>3, RowEnds
    <3>8. EndingSeg(g, u) <= s - 1 /\ EndingSeg(g, u) \in Int
      <4> DEFINE h == HighBand(g, u)
                 c == g.bands - 1
      <4>1. h \in Int /\ c \in Int /\ h <= c
        BY <1>1, <3>7
      <4> HIDE DEF h, c
      <4>2. SegmentIndex(g, u, h) <= SegmentIndex(g, u, c) /\ SegmentIndex(g, u, h) \in Int
        BY <3>3, <4>1, SegmentOrder
      <4> QED BY <3>5, <3>7, <4>2 DEF h, c
    <3> QED BY <1>3, <1>5, <3>6, <3>8 DEF HasRight
  <2> QED BY <1>1, <2>1, <2>2, <2>3
<1> QED BY <1>3, <1>4, <1>5 DEF HasLeft

\* A segment of a row that has one above is released by that.
LEMMA AboveReleases ==
    ASSUME NEW g, IsGrid(g), NEW row \in 0 .. g.rows - 1, NEW s \in StartingSeg(g, row) .. EndingSeg(g, row)
    PROVE  InScan(g, s - g.bands) /\ HasBottom(g, s - g.bands) <=> HasAbove(g, row, s)
<1>1. row \in Nat /\ g.rows \in Nat \ {0} /\ g.bands \in Nat \ {0}
  BY GridNumbers
<1>2. PICK b \in LowBand(g, row) .. HighBand(g, row) : b \in 0 .. g.bands - 1 /\ s = SegmentIndex(g, row, b)
  BY SegmentInRow
<1>3. SegmentIndex(g, row, b) = row * g.bands + b /\ s \in Nat
  BY <1>1, <1>2, SegmentNumber
<1>4. StartingSeg(g, row) \in Nat
  BY <1>1, RowEnds, SegmentNumber
<1>5. CASE row = 0
  <2>1. s - g.bands < 0
    BY <1>1, <1>2, <1>3, <1>5
  <2>2. s - g.bands \notin SegmentIds(g)
    BY <2>1 DEF SegmentIds
  <2> QED BY <1>5, <2>2 DEF InScan, HasAbove
<1>6. CASE row # 0
  <2> DEFINE u == row - 1
             p == s - g.bands
  <2>1. u \in Nat /\ u \in 0 .. g.rows - 1 /\ u + 1 = row /\ u < g.rows - 1 /\ row > 0
    BY <1>1, <1>6
  <2>2. p + g.bands = s
    BY <1>1, <1>3
  <2> HIDE DEF u
  <2>3. p = SegmentIndex(g, u, b)
    <3>1. SegmentIndex(g, u + 1, b) = SegmentIndex(g, u, b) + g.bands /\ SegmentIndex(g, u, b) \in Int
      <4>1. b \in Int
        BY <1>1, <1>2
      <4> QED BY <2>1, <4>1, SegmentBelow
    <3> QED BY <1>1, <1>2, <1>3, <2>1, <3>1
  <2>4. RowOfSeg(g, p) = u
    BY <1>2, <2>1, <2>3, SegmentNumber DEF RowOfSeg
  <2> HIDE DEF p
  <2>5. HasBottom(g, p)
    BY <1>3, <1>4, <2>1, <2>2, <2>4 DEF HasBottom
  <2>6. InScan(g, p) <=> p \in StartingSeg(g, u) .. EndingSeg(g, u)
    <3>1. ASSUME p \in StartingSeg(g, u) .. EndingSeg(g, u)
          PROVE  p \in SegmentIds(g) /\ ValidSbCount(g, p) \in Nat \ {0}
      BY <2>1, <3>1, SegmentInRow, RowHasNoGap
    <3> QED BY <2>4, <3>1 DEF InScan
  <2>7. HasAbove(g, row, s) <=> p \in StartingSeg(g, u) .. EndingSeg(g, u)
    BY <2>1 DEF HasAbove, u, p
  <2> QED BY <2>5, <2>6, <2>7 DEF p
<1> QED BY <1>5, <1>6

\* dependency_map counts these two.
LEMMA Dependencies ==
    ASSUME NEW g, IsGrid(g), NEW row \in 0 .. g.rows - 1, NEW s \in StartingSeg(g, row) .. EndingSeg(g, row)
    PROVE  InitialDependency(g, s)
              = (IF HasLeft(g, row, s) THEN 1 ELSE 0) + (IF HasAbove(g, row, s) THEN 1 ELSE 0)
<1>1. row \in Nat /\ g.rows \in Nat \ {0} /\ g.bands \in Nat \ {0} /\ g.rows <= g.bands /\ s \in Int
  BY GridNumbers
<1>2. /\ InScan(g, s - 1) /\ HasRight(g, s - 1) <=> HasLeft(g, row, s)
      /\ InScan(g, s - g.bands) /\ HasBottom(g, s - g.bands) <=> HasAbove(g, row, s)
  BY LeftReleases, AboveReleases
<1> DEFINE a == s - 1
           b == s - g.bands
<1>3. g.bands = 1 => ~HasLeft(g, row, s) /\ ~HasAbove(g, row, s)
  <2> SUFFICES ASSUME g.bands = 1
               PROVE  ~HasLeft(g, row, s) /\ ~HasAbove(g, row, s)
    OBVIOUS
  <2>1. row = 0
    BY <1>1
  <2>2. /\ LowBand(g, row) = 0 /\ HighBand(g, row) = 0
        /\ StartingSeg(g, row) = SegmentIndex(g, row, LowBand(g, row))
        /\ EndingSeg(g, row) = SegmentIndex(g, row, HighBand(g, row))
    BY RowEnds
  <2>3. StartingSeg(g, row) = EndingSeg(g, row) /\ EndingSeg(g, row) \in Int
    BY <1>1, <2>2, SegmentOrder
  <2> QED BY <1>1, <2>1, <2>3 DEF HasLeft, HasAbove
<1>4. g.bands # 1 => a # b
  BY <1>1
<1>5. \A p : p \in Predecessors(g, s) <=> (p = a /\ HasLeft(g, row, s)) \/ (p = b /\ HasAbove(g, row, s))
  BY <1>2, <1>3, <1>4 DEF Predecessors
<1> HIDE DEF a, b
<1>6. CASE HasLeft(g, row, s) /\ HasAbove(g, row, s)
  <2>1. Predecessors(g, s) = {a} \cup {b} /\ a # b
    BY <1>3, <1>4, <1>5, <1>6
  <2>2. IsFiniteSet({a}) /\ Cardinality({a}) = 1
    BY FS_Singleton
  <2>3. Cardinality({a} \cup {b}) = 1 + 1
    BY <2>1, <2>2, FS_AddElement
  <2> QED BY <1>6, <2>1, <2>3 DEF InitialDependency
<1>7. CASE HasLeft(g, row, s) /\ ~HasAbove(g, row, s)
  <2>1. Predecessors(g, s) = {a}
    BY <1>5, <1>7
  <2>2. Cardinality({a}) = 1
    BY FS_Singleton
  <2> QED BY <1>7, <2>1, <2>2 DEF InitialDependency
<1>8. CASE ~HasLeft(g, row, s) /\ HasAbove(g, row, s)
  <2>1. Predecessors(g, s) = {b}
    BY <1>5, <1>8
  <2>2. Cardinality({b}) = 1
    BY FS_Singleton
  <2> QED BY <1>8, <2>1, <2>2 DEF InitialDependency
<1>9. CASE ~HasLeft(g, row, s) /\ ~HasAbove(g, row, s)
  <2>1. Predecessors(g, s) = {}
    BY <1>5, <1>9
  <2> QED BY <1>9, <2>1, FS_EmptySet DEF InitialDependency
<1> QED BY <1>6, <1>7, <1>8, <1>9

-----------------------------------------------------------------------------
(* The SBs.                                                                 *)

\* What an SB reads is in its row, in the same segment or an earlier one, or in
\* the row above, up to the segment above.
LEMMA NeighboursEarlier ==
    ASSUME NEW g, IsGrid(g), NEW sb \in Sbs(g), NEW n \in Neighbours(g, sb)
    PROVE  /\ n \in Sbs(g)
           /\ \/ /\ RowIndex(g, n[2]) = RowIndex(g, sb[2])
                 /\ SegmentOf(g, n) <= SegmentOf(g, sb)
              \/ /\ RowIndex(g, sb[2]) > 0 /\ RowIndex(g, n[2]) = RowIndex(g, sb[2]) - 1
                 /\ SegmentOf(g, n) <= SegmentOf(g, sb) - g.bands
<1>1. n \in Sbs(g)
  BY DEF Neighbours
<1> DEFINE row == RowIndex(g, sb[2])
           b == Band(g, sb[1] + sb[2])
           u == RowIndex(g, n[2])
           c == Band(g, n[1] + n[2])
<1>2. /\ sb[1] \in Nat /\ sb[2] \in Nat /\ n[1] \in Nat /\ n[2] \in Nat
      /\ row \in Nat /\ b \in Nat /\ u \in Nat /\ c \in Nat /\ g.bands \in Nat
      /\ SegmentOf(g, sb) = SegmentIndex(g, row, b) /\ SegmentOf(g, n) = SegmentIndex(g, u, c)
  BY <1>1, SbInGrid, GridNumbers
<1>3. n[1] + n[2] <= sb[1] + sb[2] /\ (n[2] = sb[2] \/ n[2] = sb[2] - 1)
  <2>1. n \in {<<sb[1] - 1, sb[2]>>, <<sb[1], sb[2] - 1>>, <<sb[1] + 1, sb[2] - 1>>}
    BY DEF Neighbours
  <2> QED BY <1>2, <2>1
<1>4. c <= b
  <2>1. n[1] + n[2] \in Nat /\ sb[1] + sb[2] \in Nat
    BY <1>2
  <2> QED BY <1>3, <2>1, BandGrows
<1>5. u = row \/ (row > 0 /\ u = row - 1)
  <2>1. CASE n[2] = sb[2]
    BY <2>1
  <2>2. CASE n[2] = sb[2] - 1
    <3>1. u <= row
      <4>1. u <= RowIndex(g, n[2])
        BY <1>2
      <4> HIDE DEF u, row
      <4>2. FirstY(g, u) <= n[2] /\ FirstY(g, u) \in Nat
        BY <1>2, <4>1, RowFrom
      <4>3. FirstY(g, u) <= sb[2]
        BY <1>2, <2>2, <4>2
      <4>4. u <= RowIndex(g, sb[2])
        BY <1>2, <4>3, RowFrom
      <4> QED BY <4>4 DEF row
    <3>2. row <= u + 1
      <4> SUFFICES ASSUME row > 0
                   PROVE  row - 1 <= u
        BY <1>2
      <4> DEFINE v == row - 1
      <4>1. v \in Nat /\ v + 1 = row
        BY <1>2
      <4>2. row <= RowIndex(g, sb[2])
        BY <1>2
      <4> HIDE DEF v, row
      <4>3. FirstY(g, row) <= sb[2] /\ FirstY(g, row) \in Nat
        BY <1>2, <4>2, RowFrom
      <4>4. FirstY(g, v) < FirstY(g, row) /\ FirstY(g, v) \in Nat
        BY <4>1, RowsFollow
      <4>5. FirstY(g, v) <= n[2]
        BY <1>2, <2>2, <4>3, <4>4
      <4>6. v <= u
        BY <1>2, <4>1, <4>5, RowFrom
      <4> QED BY <4>6 DEF v
    <3> HIDE DEF u, row
    <3> QED BY <1>2, <3>1, <3>2
  <2> QED BY <1>3, <2>1, <2>2
<1> HIDE DEF row, b, u, c
<1>6. SegmentIndex(g, u, c) <= SegmentIndex(g, u, b) /\ SegmentIndex(g, u, b) \in Int /\ SegmentIndex(g, u, c) \in Int
  BY <1>2, <1>4, SegmentOrder
<1>7. CASE u = row
  BY <1>1, <1>2, <1>6, <1>7 DEF row, u
<1>8. CASE row > 0 /\ u = row - 1
  <2>1. u + 1 = row /\ b \in Int
    BY <1>2, <1>8
  <2>2. SegmentIndex(g, row, b) = SegmentIndex(g, u, b) + g.bands
    BY <1>2, <2>1, SegmentBelow
  <2>3. SegmentOf(g, n) <= SegmentOf(g, sb) - g.bands
    BY <1>2, <1>6, <2>2
  <2> QED BY <1>1, <1>8, <2>3 DEF row, u
<1> QED BY <1>5, <1>7, <1>8

\* The SB loop of the kernel, which walks to the left as it goes down and stops
\* after as many SBs as the segment has, codes those of the segment.
LEMMA SweptIsSegment ==
    ASSUME NEW g, IsGrid(g), NEW row \in 0 .. g.rows - 1, NEW s \in StartingSeg(g, row) .. EndingSeg(g, row)
    PROVE  Swept(g, s) = SbsOf(g, s)
<1>1. /\ FirstY(g, row) \in Nat /\ LastY(g, row) \in Nat
      /\ FirstY(g, row) <= LastY(g, row) /\ LastY(g, row) < g.h
  BY RowInGrid
<1>2. g.w \in Nat \ {0} /\ g.h \in Nat \ {0} /\ g.bands \in Nat /\ SbBands(g) = g.h + g.w - 1
  BY GridNumbers
<1>3. PICK b \in LowBand(g, row) .. HighBand(g, row) :
         b \in 0 .. g.bands - 1 /\ s = SegmentIndex(g, row, b) /\ s % g.bands = b
  BY SegmentInRow
<1>4. b \in Nat /\ b + 1 \in Nat /\ LowBand(g, row) \in Int /\ HighBand(g, row) \in Int
  BY <1>2, <1>3, RowEnds
<1> DEFINE first == FirstY(g, row)
           last == LastY(g, row)
           from == Diagonal(g, b)
           upto == Diagonal(g, b + 1)
           end == g.w - 1 + last
<1>5. from \in Nat /\ upto \in Nat /\ from < upto /\ end \in Nat
  BY <1>1, <1>2, <1>4, BandsFollow
<1>6. from <= end
  <2>1. b <= Band(g, end)
    BY <1>3, <1>4 DEF HighBand
  <2> HIDE DEF end
  <2> QED BY <1>4, <1>5, <2>1, BandFrom
<1>7. first < upto
  <2>1. ~(b + 1 <= Band(g, first)) /\ first \in Nat
    BY <1>1, <1>3, <1>4, <1>5, BandFrom DEF LowBand
  <2> HIDE DEF first
  <2> QED BY <1>4, <1>5, <2>1, BandFrom
<1>8. /\ first \in Nat /\ last \in Nat /\ first <= last /\ last < g.h /\ end = g.w - 1 + last
  BY <1>1
<1>9. SegmentBandSize(g, s) = upto
  BY <1>3 DEF SegmentBandSize, Diagonal
<1>10. \A sb : sb \in SbsOf(g, s)
                 <=> /\ sb \in Sbs(g) /\ first <= sb[2] /\ sb[2] <= last
                     /\ from <= sb[1] + sb[2] /\ sb[1] + sb[2] < upto
  BY <1>3, SegmentIs DEF SbsOf
<1> HIDE DEF first, last, from, upto, end
<1>11. \A sb : sb \in Sbs(g) <=> sb = <<sb[1], sb[2]>> /\ sb[1] \in 0 .. g.w - 1 /\ sb[2] \in 0 .. g.h - 1
  BY DEF Sbs
<1> DEFINE corner == from - (g.w - 1)
           y == IF first >= corner THEN first ELSE corner
           x == IF from > y THEN from - y ELSE 0
           start == <<x, y>>
<1>12. /\ y \in first .. last /\ x \in 0 .. g.w - 1 /\ from <= x + y /\ x + y < upto
       /\ x + y = from \/ (x = 0 /\ from <= y)
  BY <1>2, <1>5, <1>6, <1>7, <1>8
<1>13. \A a \in SbsOf(g, s) : a[2] > y \/ (a[2] = y /\ a[1] >= x)
  <2> SUFFICES ASSUME NEW a \in SbsOf(g, s)
               PROVE  a[2] > y \/ (a[2] = y /\ a[1] >= x)
    OBVIOUS
  <2>1. /\ a[1] \in 0 .. g.w - 1 /\ a[2] \in 0 .. g.h - 1
        /\ first <= a[2] /\ from <= a[1] + a[2]
    BY <1>10, <1>11
  <2> DEFINE i == a[1]
             j == a[2]
  <2>2. i \in 0 .. g.w - 1 /\ j \in 0 .. g.h - 1 /\ first <= j /\ from <= i + j
    BY <2>1
  <2> HIDE DEF i, j
  <2>3. first \in Int /\ from \in Int /\ g.w \in Int /\ i \in Int /\ j \in Int /\ i >= 0 /\ i <= g.w - 1
    BY <1>2, <1>5, <1>8, <2>2
  <2>4. corner \in Int /\ j >= corner
    BY <2>2, <2>3
  <2>5. y \in Int /\ j >= y
    BY <2>2, <2>3, <2>4
  <2>6. j = y => i >= x
    BY <2>2, <2>3, <2>5
  <2>7. j > y \/ (j = y /\ i >= x)
    <3> HIDE DEF x, y
    <3> QED BY <2>3, <2>5, <2>6
  <2> QED BY <2>7 DEF i, j
<1> HIDE DEF x, y
<1>14. start \in SbsOf(g, s) /\ start[1] = x /\ start[2] = y
  <2>1. x \in 0 .. g.w - 1 /\ y \in 0 .. g.h - 1 /\ start[1] = x /\ start[2] = y
    BY <1>2, <1>8, <1>12
  <2>2. start \in Sbs(g)
    BY <2>1 DEF Sbs
  <2>3. first <= start[2] /\ start[2] <= last /\ from <= start[1] + start[2] /\ start[1] + start[2] < upto
    BY <1>8, <1>12, <2>1
  <2> HIDE DEF start
  <2> QED BY <1>10, <2>1, <2>2, <2>3
<1>15. StartSb(g, s) = start
  <2>1. \A a \in SbsOf(g, s) : a \in Sbs(g) /\ a = <<a[1], a[2]>> /\ a[1] \in Nat /\ a[2] \in Nat
    BY <1>2, <1>10, <1>11
  <2>2. x \in Nat /\ y \in Nat
    BY <1>2, <1>8, <1>12
  <2>3. \A a \in SbsOf(g, s) : a = start \/ Earlier(start, a)
    BY <1>13, <1>14, <2>1, <2>2 DEF Earlier
  <2>4. \A sb \in SbsOf(g, s) : (\A a \in SbsOf(g, s) : a = sb \/ Earlier(sb, a)) => sb = start
    BY <1>14, <2>1, <2>2, <2>3 DEF Earlier
  <2> HIDE DEF start
  <2> QED BY <1>14, <2>3, <2>4 DEF StartSb
<1>16. \A sb : sb \in Visited(g, s)
                 <=> /\ sb = <<sb[1], sb[2]>> /\ sb[1] \in 0 .. g.w - 1 /\ sb[2] \in y .. SbBands(g)
                     /\ sb[1] >= x - (sb[2] - y) /\ sb[1] + sb[2] < upto
  BY <1>9, <1>14, <1>15 DEF Visited
<1>17. SbsOf(g, s) \subseteq Visited(g, s)
  <2> SUFFICES ASSUME NEW a \in SbsOf(g, s)
               PROVE  a \in Visited(g, s)
    OBVIOUS
  <2>1. /\ a = <<a[1], a[2]>> /\ a[1] \in 0 .. g.w - 1 /\ a[2] \in 0 .. g.h - 1
        /\ from <= a[1] + a[2] /\ a[1] + a[2] < upto
    BY <1>10, <1>11
  <2>2. a[2] >= y
    BY <1>2, <1>8, <1>12, <1>13, <2>1
  <2>3. a[2] \in y .. SbBands(g) /\ a[1] >= x - (a[2] - y)
    BY <1>2, <1>5, <1>8, <1>12, <2>1, <2>2
  <2> QED BY <1>16, <2>1, <2>3
<1>18. \A a \in Visited(g, s) : a[2] <= last => a \in SbsOf(g, s)
  <2> SUFFICES ASSUME NEW a \in Visited(g, s), a[2] <= last
               PROVE  a \in SbsOf(g, s)
    OBVIOUS
  <2>1. /\ a = <<a[1], a[2]>> /\ a[1] \in 0 .. g.w - 1 /\ a[2] \in y .. SbBands(g)
        /\ a[1] >= x - (a[2] - y) /\ a[1] + a[2] < upto
    BY <1>16
  <2>2. a[2] \in 0 .. g.h - 1 /\ first <= a[2] /\ from <= a[1] + a[2]
    BY <1>2, <1>5, <1>8, <1>12, <2>1
  <2> QED BY <1>10, <1>11, <2>1, <2>2
<1>19. IsFiniteSet(Visited(g, s))
  <2> DEFINE a == g.w - 1
             A == 0 .. a
             B == y .. SbBands(g)
  <2>1. a \in Int /\ y \in Int /\ SbBands(g) \in Int /\ 0 \in Int
    BY <1>2, <1>8, <1>12
  <2>2. IsFiniteSet(A)
    <3> HIDE DEF a
    <3> QED BY <2>1, FS_Interval
  <2>3. IsFiniteSet(B)
    BY <2>1, FS_Interval
  <2>4. IsFiniteSet(A \X B)
    <3> HIDE DEF A, B
    <3> QED BY <2>2, <2>3, FS_Product
  <2>5. Visited(g, s) \subseteq A \X B
    BY <1>16
  <2> HIDE DEF A, B
  <2> QED BY <2>4, <2>5, FS_Subset
<1>20. IsFiniteSet(SbsOf(g, s)) /\ Cardinality(SbsOf(g, s)) \in Nat /\ ValidSbCount(g, s) = Cardinality(SbsOf(g, s))
  BY SbsFinite DEF ValidSbCount
<1>21. ASSUME NEW sb \in Visited(g, s)
       PROVE  Cardinality({a \in Visited(g, s) : Earlier(a, sb)}) < ValidSbCount(g, s) <=> sb \in SbsOf(g, s)
  <2> DEFINE E == {a \in Visited(g, s) : Earlier(a, sb)}
  <2>1. IsFiniteSet(E) /\ Cardinality(E) \in Nat
    <3>1. E \subseteq Visited(g, s)
      OBVIOUS
    <3> HIDE DEF E
    <3> QED BY <1>19, <3>1, FS_Subset, FS_CardinalityType
  <2>2. \A a \in Visited(g, s) : a[1] \in Int /\ a[2] \in Int
    BY <1>2, <1>8, <1>12, <1>16
  <2>3. last \in Int
    BY <1>8
  <2>4. ASSUME sb \in SbsOf(g, s)
        PROVE  Cardinality(E) < ValidSbCount(g, s)
    <3>1. sb[2] <= last
      BY <1>10, <2>4
    <3>2. E \subseteq SbsOf(g, s) /\ sb \notin E
      BY <1>18, <2>2, <2>3, <3>1 DEF Earlier
    <3>3. /\ Cardinality(E) <= Cardinality(SbsOf(g, s))
          /\ Cardinality(SbsOf(g, s)) = Cardinality(E) => SbsOf(g, s) = E
      <4> HIDE DEF E
      <4> QED BY <1>20, <3>2, FS_Subset
    <3> HIDE DEF E
    <3> QED BY <1>20, <2>1, <2>4, <3>2, <3>3
  <2>5. ASSUME sb \notin SbsOf(g, s)
        PROVE  ValidSbCount(g, s) <= Cardinality(E)
    <3>1. sb[2] > last
      BY <1>18, <2>2, <2>3, <2>5
    <3>2. SbsOf(g, s) \subseteq E
      BY <1>10, <1>17, <2>2, <2>3, <3>1 DEF Earlier
    <3> HIDE DEF E
    <3> QED BY <1>20, <2>1, <3>2, FS_Subset
  <2> HIDE DEF E
  <2>6. Cardinality(E) < ValidSbCount(g, s) <=> sb \in SbsOf(g, s)
    BY <1>20, <2>1, <2>4, <2>5
  <2> QED BY <2>6 DEF E
<1>22. Swept(g, s) = {sb \in Visited(g, s) : Cardinality({a \in Visited(g, s) : Earlier(a, sb)}) < ValidSbCount(g, s)}
  BY DEF Swept
<1> QED BY <1>17, <1>21, <1>22
=============================================================================
