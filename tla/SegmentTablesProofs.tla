------------------------ MODULE SegmentTablesProofs ------------------------
(***************************************************************************)
(* For sources of every size, and scaled to every size: the tables of      *)
(* EncDec fit what was allocated for the first frame, the SB loop codes    *)
(* the segments, every row is walked from its first segment to its last,   *)
(* and a segment has behind it the segments that its superblocks read.     *)
(***************************************************************************)
EXTENDS SegmentTables, SegmentGeometryProofs, WellFoundedInduction

\* A frame is the current source, scaled; the source is never larger than the
\* one the tables were allocated for.
TablesInv ==
    /\ initial \in Sources /\ source \in Sources
    /\ source.width <= initial.width /\ source.height <= initial.height
    /\ source.sb = initial.sb /\ source.lp1 = initial.lp1
    /\ \E sr, rs \in Denoms : grid = GridOf(Video(source, sr, rs))

\* Every step keeps that.
LEMMA TablesInvariance == Spec => []TablesInv
<1>1. Init => TablesInv
  <2> SUFFICES ASSUME Init
               PROVE  TablesInv
    OBVIOUS
  <2>1. initial \in Sources /\ source = initial /\ grid = GridOf(Video(source, 8, 8)) /\ 8 \in Denoms
    BY DenomsAssumption DEF Init, Unscaled
  <2>2. initial.width \in Nat /\ initial.height \in Nat
    BY <2>1, SourcesAssumption
  <2> QED BY <2>1, <2>2 DEF TablesInv
<1>2. TablesInv /\ [Next]_vars => TablesInv'
  <2> SUFFICES ASSUME TablesInv, [Next]_vars
               PROVE  TablesInv'
    OBVIOUS
  <2>1. ASSUME NEW sr \in Denoms, NEW rs \in Denoms, Reinit(sr, rs)
        PROVE  TablesInv'
    BY <2>1 DEF TablesInv, Reinit
  <2>2. ASSUME NEW v \in Sources, ChangeResolution(v)
        PROVE  TablesInv'
    <3>1. v.width <= initial.width /\ v.height <= initial.height /\ v.sb = source.sb /\ v.lp1 = source.lp1
      BY <2>2 DEF ChangeResolution
    <3>2. /\ source' = v /\ grid' = GridOf(Video(v, 8, 8)) /\ initial' = initial /\ 8 \in Denoms
      BY <2>2, DenomsAssumption DEF ChangeResolution, Unscaled
    <3> QED BY <3>1, <3>2 DEF TablesInv
  <2>3. CASE UNCHANGED vars
    BY <2>3 DEF TablesInv, vars
  <2> QED BY <2>1, <2>2, <2>3 DEF Next
<1> QED BY <1>1, <1>2, PTL DEF Spec

-----------------------------------------------------------------------------
(* Counts.                                                                  *)

\* A quotient grows with the dividend.
LEMMA QuotientGrows ==
    ASSUME NEW n \in Nat \ {0}, NEW a \in Nat, NEW b \in Nat, a <= b
    PROVE  a \div n \in Nat /\ b \div n \in Nat /\ a \div n <= b \div n
<1> DEFINE q == a \div n
<1>1. q \in Nat /\ b \div n \in Nat /\ q <= a \div n
  BY Quotient
<1> HIDE DEF q
<1>2. n * q <= a /\ n * q \in Int
  BY <1>1, QuotientReaches
<1>3. n * q <= b
  BY <1>2
<1>4. q <= b \div n
  BY <1>1, <1>3, QuotientReaches
<1> QED BY <1>1, <1>4 DEF q

\* So does a quotient that is rounded up; it is not zero.
LEMMA CeilingGrows ==
    ASSUME NEW n \in Nat \ {0}, NEW a \in Nat \ {0}, NEW b \in Nat \ {0}, a <= b
    PROVE  CeilDiv(a, n) \in Nat \ {0} /\ CeilDiv(b, n) \in Nat \ {0} /\ CeilDiv(a, n) <= CeilDiv(b, n)
<1> DEFINE u == CeilDiv(b, n)
<1>1. u \in Nat /\ u <= u /\ CeilDiv(a, n) \in Nat
  BY CeilingReaches
<1>2. n * 0 = 0
  OBVIOUS
<1>3. CeilDiv(a, n) <= 0 <=> a <= n * 0
  BY CeilingReaches
<1>4. u <= 0 <=> b <= n * 0
  BY CeilingReaches
<1> HIDE DEF u
<1>5. b <= n * u
  BY <1>1, CeilingReaches DEF u
<1>6. a <= n * u
  BY <1>1, <1>5
<1>7. CeilDiv(a, n) <= u
  BY <1>1, <1>6, CeilingReaches
<1> QED BY <1>1, <1>2, <1>3, <1>4, <1>7 DEF u

\* A scaled side has at least one pixel.
LEMMA ScaledSizeOK ==
    ASSUME NEW dim \in Nat \ {0}, NEW denom \in Nat \ {0}
    PROVE  ScaledSize(dim, denom) \in Nat \ {0}
<1> DEFINE a == dim * 8 + denom \div 2
<1>1. a \in Nat
  <2>1. denom \div 2 \in Nat
    BY Quotient
  <2> QED BY <2>1
<1>2. a \div denom \in Nat
  <2> HIDE DEF a
  <2> QED BY <1>1, Quotient
<1> QED BY <1>2 DEF ScaledSize, AtLeast, AtMost

\* The counts of segments that a source asks for do not depend on the scaling,
\* and a smaller source does not ask for more.
LEMMA CountsOK ==
    ASSUME NEW v \in Sources, NEW u \in Sources, v.width <= u.width, v.height <= u.height, v.sb = u.sb, v.lp1 = u.lp1,
           NEW sr, NEW rs, NEW ur, NEW us
    PROVE  /\ RowCount(Video(v, sr, rs)) \in Nat \ {0} /\ RowCount(Video(u, ur, us)) \in Nat \ {0}
           /\ ColCount(Video(v, sr, rs)) \in Nat \ {0} /\ ColCount(Video(u, ur, us)) \in Nat \ {0}
           /\ RowCount(Video(v, sr, rs)) <= RowCount(Video(u, ur, us))
           /\ ColCount(Video(v, sr, rs)) <= ColCount(Video(u, ur, us))
<1> DEFINE n == u.sb
           m == n \div 2
           w == v.width
           h == v.height
           x == u.width
           y == u.height
<1>1. /\ n \in Nat \ {0} /\ w \in Nat \ {0} /\ h \in Nat \ {0} /\ x \in Nat \ {0} /\ y \in Nat \ {0}
      /\ w <= x /\ h <= y /\ v.lp1 = u.lp1 /\ v.sb = n
  BY SourcesAssumption
<1>2. /\ RowCount(Video(v, sr, rs)) = IF u.lp1 \/ CeilDiv(w, n) = 1 THEN 1 ELSE AtLeast((h + m) \div n, 1)
      /\ RowCount(Video(u, ur, us)) = IF u.lp1 \/ CeilDiv(x, n) = 1 THEN 1 ELSE AtLeast((y + m) \div n, 1)
      /\ ColCount(Video(v, sr, rs)) = IF u.lp1 \/ CeilDiv(h, n) = 1 THEN 1 ELSE AtLeast((w + m) \div n, 1)
      /\ ColCount(Video(u, ur, us)) = IF u.lp1 \/ CeilDiv(y, n) = 1 THEN 1 ELSE AtLeast((x + m) \div n, 1)
  BY DEF RowCount, ColCount, Video, IsPicDimensionSingleSb
<1>3. m \in Nat
  BY <1>1, Quotient
<1> HIDE DEF n, m, w, h, x, y
<1>4. /\ CeilDiv(w, n) \in Nat \ {0} /\ CeilDiv(x, n) \in Nat \ {0} /\ CeilDiv(w, n) <= CeilDiv(x, n)
      /\ CeilDiv(h, n) \in Nat \ {0} /\ CeilDiv(y, n) \in Nat \ {0} /\ CeilDiv(h, n) <= CeilDiv(y, n)
  BY <1>1, CeilingGrows
<1>5. h + m \in Nat /\ y + m \in Nat /\ h + m <= y + m /\ w + m \in Nat /\ x + m \in Nat /\ w + m <= x + m
  BY <1>1, <1>3
<1>6. (h + m) \div n \in Nat /\ (y + m) \div n \in Nat /\ (h + m) \div n <= (y + m) \div n
  BY <1>1, <1>5, QuotientGrows
<1>7. (w + m) \div n \in Nat /\ (x + m) \div n \in Nat /\ (w + m) \div n <= (x + m) \div n
  BY <1>1, <1>5, QuotientGrows
<1> DEFINE a == (h + m) \div n
           b == (y + m) \div n
           c == (w + m) \div n
           d == (x + m) \div n
           i == CeilDiv(w, n)
           j == CeilDiv(x, n)
           k == CeilDiv(h, n)
           l == CeilDiv(y, n)
<1> HIDE DEF a, b, c, d, i, j, k, l
<1>8. /\ a \in Nat /\ b \in Nat /\ c \in Nat /\ d \in Nat /\ a <= b /\ c <= d
      /\ i \in Nat \ {0} /\ j \in Nat \ {0} /\ i <= j /\ k \in Nat \ {0} /\ l \in Nat \ {0} /\ k <= l
      /\ RowCount(Video(v, sr, rs)) = IF u.lp1 \/ i = 1 THEN 1 ELSE AtLeast(a, 1)
      /\ RowCount(Video(u, ur, us)) = IF u.lp1 \/ j = 1 THEN 1 ELSE AtLeast(b, 1)
      /\ ColCount(Video(v, sr, rs)) = IF u.lp1 \/ k = 1 THEN 1 ELSE AtLeast(c, 1)
      /\ ColCount(Video(u, ur, us)) = IF u.lp1 \/ l = 1 THEN 1 ELSE AtLeast(d, 1)
  BY <1>2, <1>4, <1>6, <1>7 DEF a, b, c, d, i, j, k, l
<1>9. j = 1 => i = 1
  BY <1>8
<1>10. l = 1 => k = 1
  BY <1>8
<1> QED BY <1>8, <1>9, <1>10 DEF AtLeast

\* A scaled source gives a grid, whose segments are as counted or fewer.
LEMMA GridOK ==
    ASSUME NEW v \in Sources, NEW sr \in Denoms, NEW rs \in Denoms
    PROVE  LET g == GridOf(Video(v, sr, rs))
           IN  /\ IsGrid(g)
               /\ g.rows <= RowCount(Video(v, sr, rs))
               /\ g.bands <= RowCount(Video(v, sr, rs)) + ColCount(Video(v, sr, rs))
<1> DEFINE video == Video(v, sr, rs)
           r == RowCount(video)
           c == ColCount(video)
           w == SbCount(video, EncodingWidth(video))
           h == SbCount(video, EncodingHeight(video))
           g == GridOf(video)
<1>1. /\ v.width \in Nat \ {0} /\ v.height \in Nat \ {0} /\ v.sb \in Nat \ {0}
      /\ sr \in Nat \ {0} /\ rs \in Nat \ {0}
  BY SourcesAssumption, DenomsAssumption
<1>2. /\ EncodingWidth(video) = ScaledSize(ScaledSize(v.width, rs), sr)
      /\ EncodingHeight(video) = ScaledSize(v.height, rs)
      /\ video.sb = v.sb
  BY DEF EncodingWidth, EncodingHeight, Video
<1>3. EncodingWidth(video) \in Nat \ {0} /\ EncodingHeight(video) \in Nat \ {0}
  <2>1. ScaledSize(v.width, rs) \in Nat \ {0} /\ ScaledSize(v.height, rs) \in Nat \ {0}
    BY <1>1, ScaledSizeOK
  <2>2. ScaledSize(ScaledSize(v.width, rs), sr) \in Nat \ {0}
    BY <1>1, <2>1, ScaledSizeOK
  <2> QED BY <1>2, <2>1, <2>2
<1>4. \A dim \in Nat \ {0} : SbCount(video, dim) \in Nat \ {0}
  <2> SUFFICES ASSUME NEW dim \in Nat \ {0}
               PROVE  SbCount(video, dim) \in Nat \ {0}
    OBVIOUS
  <2> DEFINE a == 8 * CeilDiv(dim, 8)
  <2>1. a \in Nat \ {0}
    <3>1. CeilDiv(dim, 8) \in Nat \ {0}
      BY CeilingGrows
    <3> QED BY <3>1
  <2>2. SbCount(video, dim) = CeilDiv(a, v.sb)
    BY <1>2 DEF SbCount
  <2>3. a <= a
    BY <2>1
  <2> HIDE DEF a, video
  <2>4. CeilDiv(a, v.sb) \in Nat \ {0}
    BY <1>1, <2>1, <2>3, CeilingGrows
  <2> QED BY <2>2, <2>4
<1>5. w \in Nat \ {0} /\ h \in Nat \ {0}
  <2> HIDE DEF video
  <2> QED BY <1>3, <1>4
<1>6. r \in Nat \ {0} /\ c \in Nat \ {0}
  <2>1. v.width <= v.width /\ v.height <= v.height
    BY <1>1
  <2> QED BY <2>1, CountsOK
<1>7. g = [w |-> w, h |-> h, rows |-> AtMost(r, h), bands |-> AtMost(r, h) + AtMost(c, w) - 1]
  BY DEF GridOf, Grid, BandTotalCount
<1> HIDE DEF video, r, c, w, h, g
<1>8. g.w = w /\ g.h = h /\ g.rows = AtMost(r, h) /\ g.bands = AtMost(r, h) + AtMost(c, w) - 1
  BY <1>7
<1>9. IsGrid(g) /\ g.rows <= r /\ g.bands <= r + c
  BY <1>5, <1>6, <1>8 DEF IsGrid, AtMost
<1> QED BY <1>9 DEF video, r, c, g

-----------------------------------------------------------------------------
(* What follows.                                                            *)

\* No frame, scaled or of a resolution that a key frame brings, has more
\* segments than the tables were allocated for (enc_dec_segments.c:34-100 and
\* 104-226, enc_handle.c set_segments_numbers).
THEOREM Fit == Spec => []TablesFit
<1>1. TablesInv => TablesFit
  <2> SUFFICES ASSUME TablesInv
               PROVE  TablesFit
    OBVIOUS
  <2>1. PICK sr \in Denoms, rs \in Denoms : grid = GridOf(Video(source, sr, rs))
    BY DEF TablesInv
  <2> DEFINE r == RowCount(Video(source, sr, rs))
             c == ColCount(Video(source, sr, rs))
             m == RowCount(Video(initial, 8, 8))
             n == ColCount(Video(initial, 8, 8))
  <2>2. r \in Nat \ {0} /\ c \in Nat \ {0} /\ m \in Nat \ {0} /\ n \in Nat \ {0} /\ r <= m /\ c <= n
    BY CountsOK DEF TablesInv
  <2>3. IsGrid(grid) /\ grid.rows <= r /\ grid.bands <= r + c
    BY <2>1, GridOK DEF TablesInv
  <2>4. MaxRowCount = m /\ MaxBandCount = m + n
    BY DEF MaxRowCount, MaxBandCount, Unscaled
  <2> HIDE DEF r, c, m, n
  <2>5. grid.rows \in Nat /\ grid.bands \in Nat
    BY <2>3, GridNumbers
  <2> DEFINE a == grid.rows
             b == grid.bands
  <2>6. a \in Nat /\ b \in Nat /\ a <= m /\ b <= m + n /\ m + n \in Nat
    BY <2>2, <2>3, <2>5
  <2> HIDE DEF a, b
  <2>7. a * b <= m * (m + n)
    <3>1. a * b <= a * (m + n)
      BY <2>6, Grows
    <3>2. (m + n) * a <= (m + n) * m
      BY <2>2, <2>6, Grows
    <3>3. a * (m + n) = (m + n) * a /\ (m + n) * m = m * (m + n)
      BY <2>2, <2>6
    <3>4. a * b \in Int /\ (m + n) * a \in Int /\ (m + n) * m \in Int
      BY <2>2, <2>6
    <3> QED BY <3>1, <3>2, <3>3, <3>4
  <2> QED BY <2>4, <2>6, <2>7 DEF TablesFit, a, b
<1> QED BY <1>1, TablesInvariance, PTL

\* The grid of a frame.
LEMMA FrameGrid ==
    ASSUME TablesInv
    PROVE  IsGrid(grid)
  BY GridOK DEF TablesInv

\* In whichever shape the picture is cut, the SB loop of the kernel codes the SBs
\* that were counted in the segment (enc_dec_process.c:2862-2895,
\* enc_dec_segments.c:130-165).
THEOREM Sweep == Spec => []SweepCodesTheSegment
<1>1. TablesInv => SweepCodesTheSegment
  BY FrameGrid, SweptIsSegment DEF SweepCodesTheSegment, Rows, RowSegs
<1> QED BY <1>1, TablesInvariance, PTL

\* Every row is walked from its first to its last segment without a gap, and in a
\* picture at least two SBs wide the first segment of a row waits for one above
\* (enc_dec_segments.c:167-226).
THEOREM Walked == Spec => []RowsAreWalked
<1>1. TablesInv => RowsAreWalked
  <2> SUFFICES ASSUME TablesInv, NEW row \in Rows
               PROVE  /\ {s \in SegmentIds(grid) : RowOfSeg(grid, s) = row /\ ValidSbCount(grid, s) > 0}
                            = RowSegs(row)
                      /\ WideEnough /\ row > 0 => InitialDependency(grid, StartingSeg(grid, row)) > 0
    BY DEF RowsAreWalked
  <2>1. IsGrid(grid) /\ row \in 0 .. grid.rows - 1
    BY FrameGrid DEF Rows
  <2>2. ASSUME NEW s \in RowSegs(row)
        PROVE  s \in SegmentIds(grid) /\ RowOfSeg(grid, s) = row /\ ValidSbCount(grid, s) > 0
    BY <2>1, SegmentInRow, RowHasNoGap DEF RowSegs
  <2>3. ASSUME NEW s \in SegmentIds(grid), RowOfSeg(grid, s) = row, ValidSbCount(grid, s) > 0
        PROVE  s \in RowSegs(row)
    <3>1. SbsOf(grid, s) # {}
      BY <2>3, FS_EmptySet DEF ValidSbCount
    <3>2. PICK sb \in Sbs(grid) : SegmentOf(grid, sb) = s
      BY <3>1 DEF SbsOf
    <3> DEFINE other == RowIndex(grid, sb[2])
    <3>3. other \in 0 .. grid.rows - 1 /\ s \in StartingSeg(grid, other) .. EndingSeg(grid, other)
      BY <2>1, <3>2, SbInRow
    <3> HIDE DEF other
    <3>4. other = row
      BY <2>1, <2>3, <3>3, SegmentInRow
    <3> QED BY <3>3, <3>4 DEF RowSegs
  <2>4. ASSUME WideEnough, row > 0
        PROVE  InitialDependency(grid, StartingSeg(grid, row)) > 0
    <3> DEFINE above == row - 1
               s == StartingSeg(grid, row)
    <3>1. above \in 0 .. grid.rows - 1 /\ above + 1 = row /\ above + 1 <= grid.rows - 1 /\ grid.w >= 2
      BY <2>1, <2>4, GridNumbers DEF WideEnough
    <3> HIDE DEF above
    <3>2. /\ StartingSeg(grid, above) + grid.bands <= s
          /\ s <= EndingSeg(grid, above) + grid.bands
      BY <2>1, <3>1, NextRow
    <3>3. /\ s \in Nat /\ EndingSeg(grid, row) \in Nat /\ s <= EndingSeg(grid, row)
          /\ StartingSeg(grid, above) \in Nat /\ EndingSeg(grid, above) \in Nat /\ grid.bands \in Nat
      <4>1. \A r \in 0 .. grid.rows - 1 :
               StartingSeg(grid, r) \in Nat /\ EndingSeg(grid, r) \in Nat /\ StartingSeg(grid, r) <= EndingSeg(grid, r)
        BY <2>1, RowInNumbers
      <4> QED BY <2>1, <3>1, <4>1, GridNumbers
    <3> HIDE DEF s
    <3>4. s \in StartingSeg(grid, row) .. EndingSeg(grid, row)
      BY <3>3 DEF s
    <3>5. HasAbove(grid, row, s)
      <4>1. s - grid.bands \in StartingSeg(grid, above) .. EndingSeg(grid, above)
        BY <3>2, <3>3
      <4> QED BY <2>4, <4>1 DEF HasAbove, above
    <3>6. InitialDependency(grid, s) > 0
      BY <2>1, <3>4, <3>5, Dependencies
    <3> QED BY <3>6 DEF s
  <2> QED BY <2>2, <2>3, <2>4 DEF RowSegs, SegmentIds
<1> QED BY <1>1, TablesInvariance, PTL
-----------------------------------------------------------------------------
(* The segments before a segment.                                           *)

\* A nonempty set of numbers has a smallest member.
LEMMA HasSmallest ==
    ASSUME NEW S \in SUBSET Nat, S # {}
    PROVE  \E x \in S : \A y \in S : x <= y
<1>1. PICK x \in S : \A y \in S : ~(<<y, x>> \in OpToRel(<, Nat))
  BY NatLessThanWellFounded, WFMin, Zenon
<1>2. \A y \in S : ~(y < x)
  BY <1>1, Zenon DEF OpToRel
<1> QED BY <1>2

\* A segment is released by segments of smaller numbers.
LEMMA PredecessorsSmaller ==
    ASSUME NEW g, IsGrid(g), NEW s \in Nat, NEW p \in Predecessors(g, s)
    PROVE  p \in SegmentIds(g) /\ p \in 0 .. (s - 1)
<1>1. g.bands \in Nat \ {0} /\ g.rows \in Nat
  BY GridNumbers
<1>2. p \in SegmentIds(g) /\ (p = s - 1 \/ p = s - g.bands)
  BY DEF Predecessors, InScan
<1>3. p \in Nat
  <2>1. g.rows * g.bands \in Nat
    BY <1>1
  <2> HIDE DEF SegmentIds
  <2> QED BY <1>2, <2>1 DEF SegmentIds
<1> QED BY <1>1, <1>2, <1>3

\* The segments before the first n, one by one.
SolvesUpTo(g, f, n) == f = [s \in 0 .. (n - 1) |-> UNION {{p} \cup f[p] : p \in Predecessors(g, s)}]

\* As releases go from smaller numbers to larger, the sets of the segments before
\* a segment are well defined.
LEMMA AncestorsSolvable ==
    ASSUME NEW g, IsGrid(g)
    PROVE  \A n \in Nat : \E f : SolvesUpTo(g, f, n)
<1> DEFINE Bad == {n \in Nat : ~\E f : SolvesUpTo(g, f, n)}
<1> SUFFICES ASSUME Bad # {}
             PROVE  FALSE
  OBVIOUS
<1>1. PICK m \in Bad : \A k \in Bad : m <= k
  <2>1. Bad \in SUBSET Nat
    OBVIOUS
  <2> HIDE DEF Bad
  <2> QED BY <2>1, HasSmallest
<1>2. m \in Nat /\ ~\E f : SolvesUpTo(g, f, m)
  OBVIOUS
<1>3. m # 0
  <2> DEFINE f == [s \in 0 .. (0 - 1) |-> {}]
  <2>1. SolvesUpTo(g, f, 0)
    BY DEF SolvesUpTo
  <2> QED BY <1>2, <2>1
<1>4. m - 1 \in Nat /\ m - 1 \notin Bad
  <2>1. m - 1 \in Nat /\ ~(m <= m - 1)
    BY <1>2, <1>3
  <2> HIDE DEF Bad
  <2> QED BY <1>1, <2>1
<1>5. PICK f : SolvesUpTo(g, f, m - 1)
  BY <1>4
<1> DEFINE h == [s \in 0 .. (m - 1) |-> UNION {{p} \cup f[p] : p \in Predecessors(g, s)}]
<1>6. \A s \in 0 .. (m - 2) : h[s] = f[s]
  <2>1. f = [s \in 0 .. ((m - 1) - 1) |-> UNION {{p} \cup f[p] : p \in Predecessors(g, s)}]
    BY <1>5 DEF SolvesUpTo
  <2> TAKE s \in 0 .. (m - 2)
  <2>2. s \in 0 .. (m - 1) /\ s \in 0 .. ((m - 1) - 1)
    BY <1>2
  <2>3. f[s] = UNION {{p} \cup f[p] : p \in Predecessors(g, s)}
    BY <2>1, <2>2, Zenon
  <2> QED BY <2>2, <2>3
<1>7. ASSUME NEW s \in 0 .. (m - 1)
      PROVE  UNION {{p} \cup f[p] : p \in Predecessors(g, s)} = UNION {{p} \cup h[p] : p \in Predecessors(g, s)}
  <2>1. \A p \in Predecessors(g, s) : p \in 0 .. (m - 2)
    <3> TAKE p \in Predecessors(g, s)
    <3>1. p \in 0 .. (s - 1)
      BY <1>2, PredecessorsSmaller
    <3> QED BY <1>2, <3>1
  <2> HIDE DEF h
  <2>2. \A p \in Predecessors(g, s) : {p} \cup f[p] = {p} \cup h[p]
    BY <1>6, <2>1
  <2> QED BY <2>2
<1>8. SolvesUpTo(g, h, m)
  <2>1. h = [s \in 0 .. (m - 1) |-> UNION {{p} \cup h[p] : p \in Predecessors(g, s)}]
    BY <1>7
  <2> HIDE DEF h
  <2> QED BY <2>1 DEF SolvesUpTo
<1> QED BY <1>2, <1>8

\* The segments before a segment are those that release it and those before them.
LEMMA AncestorsOK ==
    ASSUME IsGrid(grid)
    PROVE  \A s \in SegmentIds(grid) :
              Ancestors[s] = UNION {{p} \cup Ancestors[p] : p \in Predecessors(grid, s)}
<1> DEFINE n == grid.rows * grid.bands
<1>1. n \in Nat /\ SegmentIds(grid) = 0 .. (n - 1)
  <2>1. grid.rows \in Nat /\ grid.bands \in Nat
    BY GridNumbers
  <2> QED BY <2>1 DEF SegmentIds
<1> HIDE DEF n
<1>2. \E f : SolvesUpTo(grid, f, n)
  BY <1>1, AncestorsSolvable
<1>3. \E f : f = [s \in SegmentIds(grid) |-> UNION {{p} \cup f[p] : p \in Predecessors(grid, s)}]
  BY <1>1, <1>2 DEF SolvesUpTo
<1> DEFINE A == CHOOSE f : f = [s \in SegmentIds(grid) |-> UNION {{p} \cup f[p] : p \in Predecessors(grid, s)}]
<1>4. A = [s \in SegmentIds(grid) |-> UNION {{p} \cup A[p] : p \in Predecessors(grid, s)}]
  BY <1>3, Zenon
<1>5. Ancestors = A
  BY DEF Ancestors
<1> HIDE DEF A
<1>6. \A s \in SegmentIds(grid) : A[s] = UNION {{p} \cup A[p] : p \in Predecessors(grid, s)}
  BY <1>4, Zenon
<1> QED BY <1>5, <1>6

\* A segment and those before it.
Upto(s) == Ancestors[s] \cup {s}

\* What is before a segment that releases another is before that one.
LEMMA ReleaseIsBefore ==
    ASSUME IsGrid(grid), NEW s \in SegmentIds(grid), NEW p \in Predecessors(grid, s)
    PROVE  Upto(p) \subseteq Upto(s)
<1>1. Ancestors[s] = UNION {{q} \cup Ancestors[q] : q \in Predecessors(grid, s)}
  BY AncestorsOK
<1>2. {p} \cup Ancestors[p] \subseteq Ancestors[s]
  BY <1>1
<1> QED BY <1>2 DEF Upto

\* A segment of a row, by its number.
LEMMA RowSegOK ==
    ASSUME IsGrid(grid), NEW row \in Rows, NEW s \in RowSegs(row)
    PROVE  s \in SegmentIds(grid) /\ s \in Nat
<1>1. row \in 0 .. grid.rows - 1 /\ s \in StartingSeg(grid, row) .. EndingSeg(grid, row)
  BY DEF Rows, RowSegs
<1>2. StartingSeg(grid, row) \in Nat /\ EndingSeg(grid, row) \in Nat
  BY <1>1, RowInNumbers
<1>3. s \in SegmentIds(grid)
  BY <1>1, SegmentInRow
<1> QED BY <1>1, <1>2, <1>3

\* The segments of a row are before one another.
LEMMA RowIsBefore ==
    ASSUME IsGrid(grid), NEW row \in Rows, NEW t \in RowSegs(row), NEW s \in RowSegs(row), t <= s
    PROVE  Upto(t) \subseteq Upto(s)
<1> DEFINE Bad == {u \in RowSegs(row) : t <= u /\ ~(Upto(t) \subseteq Upto(u))}
<1> SUFFICES ASSUME Bad # {}
             PROVE  FALSE
  OBVIOUS
<1>1. Bad \in SUBSET Nat
  BY RowSegOK
<1>2. PICK u \in Bad : \A k \in Bad : u <= k
  <2> HIDE DEF Bad
  <2> QED BY <1>1, HasSmallest
<1>3. u \in RowSegs(row) /\ t <= u /\ u # t /\ u \in Nat /\ t \in Nat
  BY RowSegOK
<1>4. u - 1 \in RowSegs(row) /\ t <= u - 1 /\ HasLeft(grid, row, u) /\ row \in 0 .. grid.rows - 1
      /\ u \in StartingSeg(grid, row) .. EndingSeg(grid, row)
  <2>1. StartingSeg(grid, row) \in Nat /\ EndingSeg(grid, row) \in Nat /\ row \in 0 .. grid.rows - 1
    BY RowInNumbers DEF Rows
  <2> QED BY <1>3, <2>1 DEF RowSegs, HasLeft
<1>5. Upto(t) \subseteq Upto(u - 1)
  <2>1. u - 1 \notin Bad
    <3>1. ~(u <= u - 1)
      BY <1>3
    <3> HIDE DEF Bad
    <3> QED BY <1>2, <3>1
  <2> QED BY <1>4, <2>1
<1>6. u - 1 \in Predecessors(grid, u)
  <2>1. InScan(grid, u - 1) /\ HasRight(grid, u - 1)
    BY <1>4, LeftReleases
  <2> QED BY <2>1 DEF Predecessors
<1>7. Upto(u - 1) \subseteq Upto(u)
  BY <1>3, <1>6, RowSegOK, ReleaseIsBefore
<1> QED BY <1>5, <1>7

\* So is a segment of the row above, and what is on its left, when the segment is
\* under it or further on: where the row above ends earlier, the way is through the
\* segments on the left.
LEMMA RowAboveIsBefore ==
    ASSUME IsGrid(grid), WideEnough, NEW row \in Rows, row > 0, NEW s \in RowSegs(row),
           NEW t \in RowSegs(row - 1), t <= s - grid.bands
    PROVE  Upto(t) \subseteq Upto(s)
<1> DEFINE above == row - 1
           last == EndingSeg(grid, above) + grid.bands
           u == IF s <= last THEN s ELSE last
<1>1. /\ row \in 0 .. grid.rows - 1 /\ above \in 0 .. grid.rows - 1 /\ above + 1 = row /\ grid.w >= 2
      /\ grid.rows \in Nat /\ grid.bands \in Nat /\ above \in Rows
  BY GridNumbers DEF Rows, WideEnough
<1>2. /\ StartingSeg(grid, row) \in Nat /\ EndingSeg(grid, row) \in Nat
      /\ StartingSeg(grid, above) \in Nat /\ EndingSeg(grid, above) \in Nat
  BY <1>1, RowInNumbers
<1>3. StartingSeg(grid, row) <= EndingSeg(grid, above) + grid.bands
  <2> HIDE DEF above
  <2>1. above + 1 <= grid.rows - 1
    BY <1>1
  <2>2. grid.w >= 2 => StartingSeg(grid, above + 1) <= EndingSeg(grid, above) + grid.bands
    BY <1>1, <2>1, NextRow
  <2> QED BY <1>1, <2>2
<1>4. s \in StartingSeg(grid, row) .. EndingSeg(grid, row) /\ t \in StartingSeg(grid, above) .. EndingSeg(grid, above)
  BY DEF RowSegs
<1>5. /\ u \in StartingSeg(grid, row) .. EndingSeg(grid, row) /\ u <= s
      /\ u - grid.bands \in StartingSeg(grid, above) .. EndingSeg(grid, above)
      /\ t <= u - grid.bands
  <2> HIDE DEF above
  <2> QED BY <1>1, <1>2, <1>3, <1>4
<1>6. HasAbove(grid, row, u)
  BY <1>5 DEF HasAbove
<1> HIDE DEF u, last
<1>7. u - grid.bands \in Predecessors(grid, u)
  <2>1. InScan(grid, u - grid.bands) /\ HasBottom(grid, u - grid.bands)
    BY <1>1, <1>5, <1>6, AboveReleases
  <2> QED BY <2>1 DEF Predecessors
<1>8. u \in RowSegs(row) /\ u - grid.bands \in RowSegs(above)
  BY <1>5 DEF RowSegs
<1>9. Upto(t) \subseteq Upto(u - grid.bands)
  BY <1>1, <1>5, <1>8, RowIsBefore
<1>10. Upto(u - grid.bands) \subseteq Upto(u)
  BY <1>7, <1>8, RowSegOK, ReleaseIsBefore
<1>11. Upto(u) \subseteq Upto(s)
  BY <1>5, <1>8, RowIsBefore
<1> QED BY <1>9, <1>10, <1>11

\* A segment is released after the segments of every SB that its SBs read: left,
\* above and above right (enc_dec_process.c:2862-2895 codes the SBs of a segment,
\* enc_dec_segments.c:187-226 counts what it waits for).
THEOREM NeighboursFirst == Spec => []NeighboursAreAncestors
<1>1. TablesInv => NeighboursAreAncestors
  <2> SUFFICES ASSUME TablesInv, WideEnough, NEW sb \in Sbs(grid), NEW n \in Neighbours(grid, sb)
               PROVE  SegmentOf(grid, n) \in Upto(SegmentOf(grid, sb))
    BY DEF NeighboursAreAncestors, Upto
  <2> DEFINE row == RowIndex(grid, sb[2])
             other == RowIndex(grid, n[2])
             s == SegmentOf(grid, sb)
             t == SegmentOf(grid, n)
  <2>1. IsGrid(grid)
    BY FrameGrid
  <2>2. /\ n \in Sbs(grid)
        /\ \/ other = row /\ t <= s
           \/ row > 0 /\ other = row - 1 /\ t <= s - grid.bands
    BY <2>1, NeighboursEarlier
  <2>3. row \in Rows /\ s \in RowSegs(row) /\ other \in Rows /\ t \in RowSegs(other)
    BY <2>1, <2>2, SbInRow DEF Rows, RowSegs
  <2> HIDE DEF row, other, s, t
  <2>4. Upto(t) \subseteq Upto(s)
    BY <2>1, <2>2, <2>3, RowIsBefore, RowAboveIsBefore
  <2> QED BY <2>4 DEF Upto, s, t
<1> QED BY <1>1, TablesInvariance, PTL
=============================================================================
