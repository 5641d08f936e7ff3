----------------------------- MODULE Wavefront -----------------------------
(***************************************************************************)
(* What EncDec promises for each picture, without segments, tasks or       *)
(* threads: superblocks are coded once each, never before their left, top  *)
(* and top-right neighbours, and the picture is handed on, or coded again, *)
(* only when all of it is coded.                                           *)
(***************************************************************************)
EXTENDS SegmentGeometry

CONSTANTS Pictures, Grids

VARIABLES
    grid,     \* the picture's size
    times,    \* how often each SB has been coded in the current pass
    handed    \* whether the picture has been handed on

None(g) == [sb \in Sbs(g) |-> 0]
Once(g) == [sb \in Sbs(g) |-> 1]

Init == /\ grid \in [Pictures -> Grids]
        /\ times = [p \in Pictures |-> None(grid[p])]
        /\ handed = [p \in Pictures |-> FALSE]

(* Some SBs are coded, once, whose neighbours are coded before or with     *)
(* them.  Written with the next state, so that a step is tested instead of *)
(* every set of SBs being tried.                                           *)
Code(p) ==
    LET new == {sb \in Sbs(grid[p]) : times'[p][sb] # times[p][sb]}
    IN  /\ UNCHANGED <<grid, handed>>
        /\ \A sb \in new :
              /\ times[p][sb] = 0 /\ times'[p][sb] = 1
              /\ \A n \in Neighbours(grid[p], sb) : times'[p][n] = 1
        /\ \A q \in Pictures \ {p} : times'[q] = times[q]

Complete(p) == ~handed[p] /\ times[p] = Once(grid[p])

HandOn(p) == /\ Complete(p)
             /\ handed' = [handed EXCEPT ![p] = TRUE]
             /\ UNCHANGED <<grid, times>>

CodeAgain(p) == /\ Complete(p)
                /\ times' = [times EXCEPT ![p] = None(grid[p])]
                /\ UNCHANGED <<grid, handed>>

(* A picture that was handed on may come back in another size.             *)
ComeBack(p) == /\ handed[p]
               /\ \E g \in Grids :
                     /\ grid' = [grid EXCEPT ![p] = g]
                     /\ times' = [times EXCEPT ![p] = None(g)]
               /\ handed' = [handed EXCEPT ![p] = FALSE]

Next == \E p \in Pictures : Code(p) \/ HandOn(p) \/ CodeAgain(p) \/ ComeBack(p)

Spec == Init /\ [][Next]_<<grid, times, handed>>
=============================================================================
