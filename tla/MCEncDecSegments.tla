------------------------- MODULE MCEncDecSegments -------------------------
(* Grids of a few SBs: enough rows for feedback tasks to chain, one shape   *)
(* with as many segments as SBs and one with segments of several SBs.       *)
EXTENDS EncDecSegments, TLC

Wide == Grid(2, 2, 4, 3)         \* segments of several SBs
Pair == Grid(2, 2, 2, 2)         \* the smallest with two rows
Single == Grid(1, 1, 2, 1)       \* one segment: the task pool is smallest
Large == Grid(4, 4, 4, 4)        \* a longer wavefront

Deep == {Large, Wide, Pair}
Small == {Pair, Single}

Symmetric == Permutations(Workers) \cup Permutations(Pictures)
===========================================================================
