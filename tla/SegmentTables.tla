--------------------------- MODULE SegmentTables ---------------------------
(***************************************************************************)
(* One EncDecSegments object over the frames of a run: built once for the  *)
(* largest picture, initialised again for every frame and every re-encode, *)
(* with the size scaling gives that frame.  The tables it holds are a      *)
(* function of the grid, so the grid is the state.                         *)
(***************************************************************************)
EXTENDS SegmentGeometry

CONSTANTS
    Sources,    \* inputs: [width, height, sb, lp1]
    Denoms      \* the scaling denominators, in eighths

ASSUME SourcesAssumption ==
    \A v \in Sources : /\ v.width \in Nat \ {0} /\ v.height \in Nat \ {0}
                       /\ v.width % 8 = 0 /\ v.height % 8 = 0
                       /\ v.sb \in {64, 128} /\ v.lp1 \in BOOLEAN
ASSUME DenomsAssumption == 8 \in Denoms /\ Denoms \subseteq 8 .. 16

VARIABLES
    initial,  \* the source the objects were built for
    scaling,  \* whether superres or resize is configured
    source,   \* the current source: key frames may change the resolution
    grid      \* SBs and segments of the frame the object is set up for

vars == <<initial, scaling, source, grid>>

Video(v, sr, rs) ==
    [width |-> v.width, height |-> v.height, sb |-> v.sb, lp1 |-> v.lp1,
     superres |-> sr, resize |-> rs]
Unscaled(v) == Video(v, 8, 8)

Init == /\ initial \in Sources /\ source = initial
        /\ scaling \in BOOLEAN
        /\ grid = GridOf(Unscaled(initial))

(* svt_aom_init_enc_dec_segement for a frame scaled by these denominators  *)
Reinit(sr, rs) == /\ scaling \/ (sr = 8 /\ rs = 8)
                  /\ grid' = GridOf(Video(source, sr, rs))
                  /\ UNCHANGED <<initial, scaling, source>>

(* A key frame brings a new resolution: refused with scaling, below 64 and *)
(* above the initial size; set_segments_numbers counts again.              *)
ChangeResolution(v) ==
    /\ ~scaling
    /\ v.width \in 64 .. initial.width /\ v.height \in 64 .. initial.height
    /\ v.sb = source.sb /\ v.lp1 = source.lp1
    /\ source' = v
    /\ grid' = GridOf(Unscaled(v))
    /\ UNCHANGED <<initial, scaling>>

Next == \/ \E sr, rs \in Denoms : Reinit(sr, rs)
        \/ \E v \in Sources : ChangeResolution(v)

Spec == Init /\ [][Next]_vars

-----------------------------------------------------------------------------
(* segment_max_row_count, segment_max_band_count of the constructor *)
MaxRowCount == RowCount(Unscaled(initial))
MaxBandCount == RowCount(Unscaled(initial)) + ColCount(Unscaled(initial))

Rows == 0 .. grid.rows - 1
(* "EncDec segments assume a width of at least 2 SBs", or a single row     *)
WideEnough == grid.w >= 2 \/ grid.rows = 1

RowSegs(row) == StartingSeg(grid, row) .. EndingSeg(grid, row)

(* Every frame fits the arrays the constructor allocated for the largest   *)
(* one: neither the rows nor the row * band tables are indexed past them.  *)
TablesFit ==
    /\ grid.rows <= MaxRowCount
    /\ grid.rows * grid.bands <= MaxRowCount * MaxBandCount

(* The SB loop of the kernel, which walks to the left as it goes down,     *)
(* codes exactly the SBs that the initialisation counted in the segment.   *)
SweepCodesTheSegment ==
    \A row \in Rows : \A s \in RowSegs(row) : Swept(grid, s) = SbsOf(grid, s)

(* Between its first and its last segment a row has no empty segment, and  *)
(* no SB outside them: a worker that walks the row by incrementing the     *)
(* segment index meets every SB of the row.  And every row after the first *)
(* begins with a segment that some segment above releases: in a picture at *)
(* least two SBs wide, no row is left waiting for a task nobody posts.     *)
RowsAreWalked ==
    \A row \in Rows :
        /\ {s \in SegmentIds(grid) : RowOfSeg(grid, s) = row /\ ValidSbCount(grid, s) > 0}
              = RowSegs(row)
        /\ WideEnough /\ row > 0 => InitialDependency(grid, StartingSeg(grid, row)) > 0

(* A segment is released only after the segments of every SB its own SBs   *)
(* read: they are among its predecessors in the dependency map, direct or  *)
(* not.                                                                    *)
Ancestors ==
    LET anc[s \in SegmentIds(grid)] ==
            UNION {{p} \cup anc[p] : p \in Predecessors(grid, s)}
    IN  anc
NeighboursAreAncestors ==
    LET anc == Ancestors
    IN  WideEnough => \A sb \in Sbs(grid) : \A n \in Neighbours(grid, sb) :
            SegmentOf(grid, n) \in anc[SegmentOf(grid, sb)]
                                 \cup {SegmentOf(grid, sb)}
=============================================================================
