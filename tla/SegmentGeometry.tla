-------------------------- MODULE SegmentGeometry --------------------------
(***************************************************************************)
(* How EncDec cuts a picture of superblocks (SBs) into segments, from      *)
(* Codec/enc_dec_segments.c and the macros of Codec/enc_dec_segments.h.    *)
(*                                                                         *)
(* A segment row is a run of SB rows; a band is a run of anti-diagonals;   *)
(* a segment is the intersection of a segment row and a band.  Segments    *)
(* are numbered row * segment_band_count + band, as in the code.           *)
(*                                                                         *)
(* A video is [width, height, sb, lp1, superres, resize]: the maximum      *)
(* input luma size, the superblock size, whether the parallelism level is  *)
(* 1, and the two scaling denominators (8 means unscaled).  A grid is      *)
(* [w, h, rows, bands]: the SBs of the picture and its segments.           *)
(*                                                                         *)
(* GridUncut, LastYFloor, HasBottomOfNext and SegmentBandSizeFloor are     *)
(* faulty variants of the definition below them.                           *)
(***************************************************************************)
EXTENDS Integers, FiniteSets, FiniteSetsExt

CeilDiv(a, b) == (a + b - 1) \div b
AtMost(a, b) == IF a < b THEN a ELSE b
AtLeast(a, b) == IF a > b THEN a ELSE b

-----------------------------------------------------------------------------
(* From pixels to superblocks and segment counts *)

IsPicDimensionSingleSb(sb, dim) == CeilDiv(dim, sb) = 1

(* set_segments_numbers, the EncDec counts: one row for a single SB width  *)
RowCount(v) ==
    IF v.lp1 \/ IsPicDimensionSingleSb(v.sb, v.width) THEN 1
    ELSE AtLeast((v.height + v.sb \div 2) \div v.sb, 1)
ColCount(v) ==
    IF v.lp1 \/ IsPicDimensionSingleSb(v.sb, v.height) THEN 1
    ELSE AtLeast((v.width + v.sb \div 2) \div v.sb, 1)

(* calculate_scaled_size_helper, denominators in eighths *)
ScaledSize(dim, denom) ==
    IF denom = 8 THEN dim
    ELSE AtLeast((dim * 8 + denom \div 2) \div denom, AtMost(16, dim))

(* svt_aom_init_resize_picture scales both sides by the resize denominator *)
(* and the width again by the superres denominator; scale_pcs_params aligns *)
(* to 8 and counts SBs.                                                     *)
EncodingWidth(v) == ScaledSize(ScaledSize(v.width, v.resize), v.superres)
EncodingHeight(v) == ScaledSize(v.height, v.resize)
SbCount(v, dim) == CeilDiv(8 * CeilDiv(dim, 8), v.sb)

-----------------------------------------------------------------------------
(* The grid of svt_aom_enc_dec_segments_init: counts are cut to the picture *)

BandTotalCount(rows, cols) == rows + cols - 1

GridUncut(rows, cols, w, h) ==
    [w |-> w, h |-> h, rows |-> AtMost(rows, h),
     bands |-> BandTotalCount(rows, w)]
Grid(rows, cols, w, h) ==
    [w |-> w, h |-> h, rows |-> AtMost(rows, h),
     bands |-> BandTotalCount(AtMost(rows, h), AtMost(cols, w))]

GridOf(v) == Grid(RowCount(v), ColCount(v),
                  SbCount(v, EncodingWidth(v)), SbCount(v, EncodingHeight(v)))

SbBands(g) == BandTotalCount(g.h, g.w)
Sbs(g) == (0 .. g.w - 1) \X (0 .. g.h - 1)
SegmentIds(g) == 0 .. g.rows * g.bands - 1

RowIndex(g, y) == (y * g.rows) \div g.h
BandIndex(g, x, y) == ((x + y) * g.bands) \div SbBands(g)
SegmentIndex(g, row, band) == row * g.bands + band

SegmentOf(g, sb) ==
    SegmentIndex(g, RowIndex(g, sb[2]), BandIndex(g, sb[1], sb[2]))
SbsOf(g, s) == {sb \in Sbs(g) : SegmentOf(g, sb) = s}

(* valid_sb_count_array and the start arrays: the first SB in raster order *)
ValidSbCount(g, s) == Cardinality(SbsOf(g, s))
Earlier(a, b) == a[2] < b[2] \/ (a[2] = b[2] /\ a[1] < b[1])
StartSb(g, s) ==
    LET all == SbsOf(g, s)
    IN  CHOOSE sb \in all : \A a \in all : a = sb \/ Earlier(sb, a)

(* row_array: the segments of the first and of the last SB of the row *)
FirstY(g, row) == CeilDiv(row * g.h, g.rows)
LastYFloor(g, row) == ((row + 1) * g.h) \div g.rows - 1
LastY(g, row) == FirstY(g, row + 1) - 1
StartingSeg(g, row) == SegmentIndex(g, row, BandIndex(g, 0, FirstY(g, row)))
EndingSeg(g, row) ==
    SegmentIndex(g, row, BandIndex(g, g.w - 1, LastY(g, row)))

RowOfSeg(g, s) == s \div g.bands
HasRight(g, s) == s < EndingSeg(g, RowOfSeg(g, s))
HasBottomOfNext(g, s) ==
    /\ RowOfSeg(g, s) < g.rows - 1
    /\ s + g.bands > StartingSeg(g, RowOfSeg(g, s) + 1)
HasBottom(g, s) ==
    /\ RowOfSeg(g, s) < g.rows - 1
    /\ s + g.bands >= StartingSeg(g, RowOfSeg(g, s) + 1)

(* dependency_map as initialised: one for the segment on the left, one for *)
(* the segment above, which lies one band further up the picture.          *)
InScan(g, s) ==
    /\ s \in SegmentIds(g)
    /\ s \in StartingSeg(g, RowOfSeg(g, s)) .. EndingSeg(g, RowOfSeg(g, s))
    /\ ValidSbCount(g, s) > 0
Predecessors(g, s) ==
    {p \in {s - 1, s - g.bands} :
        /\ InScan(g, p)
        /\ \/ p = s - 1 /\ HasRight(g, p)
           \/ p = s - g.bands /\ HasBottom(g, p)}
InitialDependency(g, s) == Cardinality(Predecessors(g, s))

-----------------------------------------------------------------------------
(* The SB loop of the mode decision kernel: from the start SB, row by row, *)
(* each row beginning one SB further left, until the segment's count of    *)
(* SBs has been coded.                                                     *)
SegmentBandSizeFloor(g, s) == (SbBands(g) * ((s % g.bands) + 1)) \div g.bands
SegmentBandSize(g, s) == CeilDiv(SbBands(g) * ((s % g.bands) + 1), g.bands)
Visited(g, s) ==
    LET start == StartSb(g, s)
        size == SegmentBandSize(g, s)
    IN  {sb \in (0 .. g.w - 1) \X (start[2] .. SbBands(g)) :
            /\ sb[1] >= start[1] - (sb[2] - start[2])
            /\ sb[1] + sb[2] < size}
Swept(g, s) ==
    LET visited == Visited(g, s)
        valid == ValidSbCount(g, s)
    IN  {sb \in visited : Cardinality({a \in visited : Earlier(a, sb)}) < valid}

(* What coding an SB reads: its left, top and top-right neighbours, for    *)
(* intra prediction, the deblocking filter and the entropy contexts.       *)
Neighbours(g, sb) ==
    {<<sb[1] - 1, sb[2]>>, <<sb[1], sb[2] - 1>>, <<sb[1] + 1, sb[2] - 1>>}
        \cap Sbs(g)

=============================================================================
