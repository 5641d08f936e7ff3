---------------------------- MODULE FilterStages ----------------------------
(***************************************************************************)
(* The stages that finish a picture after its blocks are coded: deblocking *)
(* of the whole picture, CDEF and restoration in segments, entropy coding  *)
(* by tiles.  Each stage has several workers, which take parts of several  *)
(* pictures from one queue; nobody is told to wait for a picture.  The     *)
(* worker that finishes the last part of a picture finishes the stage for  *)
(* it, alone, and hands the picture to the next stage.                     *)
(*                                                                         *)
(* A picture is named by its decode order.  A queue between two stages is  *)
(* the set of parts that are posted: workers overtake each other, so the   *)
(* order in which parts are taken says nothing about when they are done.   *)
(* The pools behind the queues are not modelled: they are sized for all    *)
(* parts of all child picture control sets, up to 300.                     *)
(***************************************************************************)
EXTENDS Integers, Sequences, FiniteSets

CONSTANT
    Videos        \* what is encoded: settings and the pictures in decode order

VARIABLES
    video,        \* the settings and the pictures of this sequence
    deblocking,   \* enc_dec_results: pictures that are reconstructed
    cdef,         \* the CDEF segments of each picture
    restoration,  \* its restoration segments
    tiles,        \* its tiles, for entropy coding
    cdefCount,    \* tot_seg_searched_cdef
    restCount,    \* tot_seg_searched_rest
    tileDone,     \* the tiles with entropy_coding_tile_done
    held,         \* how often the picture holds its references
    results       \* entropy_coding_results: pictures for packetization

filterVars == <<deblocking, cdef, restoration, tiles, cdefCount, restCount, tileDone, held, results>>

Pictures == 0..(Len(video.pictures) - 1)
Pic(d)   == video.pictures[d + 1]

\* superres_total_recode_loop: how often the picture is coded to find its best
\* super-resolution.
Loops(d) == Pic(d).loops

\* A part waits in a queue, is worked on, or is not there: not cut yet or done;
\* the worker that marked the last tile of a picture has yet to hand it on.
PartStates == {"none", "posted", "taken", "last"}
Nothing(n) == [s \in 1..n |-> "none"]
Posted(n)  == [s \in 1..n |-> "posted"]

InitFilters ==
    /\ deblocking = {}
    /\ cdef        = [d \in Pictures |-> Nothing(video.cdefSegments)]
    /\ restoration = [d \in Pictures |-> Nothing(video.restSegments)]
    /\ tiles       = [d \in Pictures |-> Nothing(video.tiles)]
    /\ cdefCount = [d \in Pictures |-> 0] /\ restCount = [d \in Pictures |-> 0]
    /\ tileDone  = [d \in Pictures |-> {}]
    /\ held      = [d \in Pictures |-> 0]
    /\ results   = <<>>

\* One of the workers of a stage takes a part of picture d.
Busy(queue) == {part \in Pictures \X UNION {DOMAIN queue[d] : d \in Pictures} : queue[part[1]][part[2]] \in {"taken", "last"}}
CanTake(queue, d, s) == queue[d][s] = "posted" /\ Cardinality(Busy(queue)) < video.workers
Taken(queue, d, s)   == [queue EXCEPT ![d][s] = "taken"]
Done(queue, d, s)    == [queue EXCEPT ![d][s] = "none"]

-----------------------------------------------------------------------------
(* Deblocking: one worker filters the picture and posts its CDEF segments.  *)

\* Faulty variant: the count of the picture's last pass is kept.
CountKept(count, d) == count

\* A count is reset by the stage before, just before it posts the segments.
CountReset(count, d) == [count EXCEPT ![d] = 0]

Deblock(d) ==
    /\ d \in deblocking
    /\ deblocking' = deblocking \ {d}
    /\ cdefCount' = CountReset(cdefCount, d)
    /\ cdef' = [cdef EXCEPT ![d] = Posted(video.cdefSegments)]
    /\ UNCHANGED <<restoration, tiles, restCount, tileDone, held, results>>

-----------------------------------------------------------------------------
(* CDEF and restoration: segments are searched with no lock; the count is   *)
(* raised under the picture's mutex, and who completes it filters the       *)
(* picture and cuts it for the next stage before the mutex is released.     *)

Completes(count, d, total) == count[d] + 1 = total

SearchCdef(d, s) ==
    /\ CanTake(cdef, d, s) /\ cdef' = Taken(cdef, d, s)
    /\ UNCHANGED <<deblocking, restoration, tiles, cdefCount, restCount, tileDone, held, results>>

CountCdef(d, s) ==
    /\ cdef[d][s] = "taken" /\ cdef' = Done(cdef, d, s)
    /\ cdefCount' = [cdefCount EXCEPT ![d] = @ + 1]
    /\ IF Completes(cdefCount, d, video.cdefSegments)
       THEN /\ restCount' = CountReset(restCount, d)
            /\ restoration' = [restoration EXCEPT ![d] = Posted(video.restSegments)]
       ELSE UNCHANGED <<restCount, restoration>>
    /\ UNCHANGED <<deblocking, tiles, tileDone, held, results>>

SearchRestoration(d, s) ==
    /\ CanTake(restoration, d, s) /\ restoration' = Taken(restoration, d, s)
    /\ UNCHANGED <<deblocking, cdef, tiles, cdefCount, restCount, tileDone, held, results>>

CountRestoration(d, s) ==
    /\ restoration[d][s] = "taken" /\ restoration' = Done(restoration, d, s)
    /\ restCount' = [restCount EXCEPT ![d] = @ + 1]
    /\ tiles' = IF Completes(restCount, d, video.restSegments)
                THEN [tiles EXCEPT ![d] = Posted(video.tiles)] ELSE tiles
    /\ UNCHANGED <<deblocking, cdef, cdefCount, tileDone, held, results>>

-----------------------------------------------------------------------------
(* Entropy coding: a tile is coded with no lock, then marked under the      *)
(* picture's mutex; who finds all tiles of the picture marked lets go of    *)
(* the mutex and then of the references, unless the picture may be coded    *)
(* again, and posts it.                                                     *)

\* Faulty variant: the references are released after every pass.
LetGoAfterEveryPass(d) == TRUE

LetsGo(d) == Loops(d) = 0

CodeTile(d, t) ==
    /\ CanTake(tiles, d, t) /\ tiles' = Taken(tiles, d, t)
    /\ UNCHANGED <<deblocking, cdef, restoration, cdefCount, restCount, tileDone, held, results>>

MarkTile(d, t) ==
    /\ tiles[d][t] = "taken"
    /\ tileDone' = [tileDone EXCEPT ![d] = @ \cup {t}]
    /\ tiles' = [tiles EXCEPT ![d][t] = IF tileDone'[d] = 1..video.tiles THEN "last" ELSE "none"]
    /\ UNCHANGED <<deblocking, cdef, restoration, cdefCount, restCount, held, results>>

HandOn(d, t) ==
    /\ tiles[d][t] = "last" /\ tiles' = Done(tiles, d, t)
    /\ held' = IF LetsGo(d) THEN [held EXCEPT ![d] = @ - 1] ELSE held
    /\ results' = Append(results, d)
    /\ UNCHANGED <<deblocking, cdef, restoration, cdefCount, restCount, tileDone>>

Filter(d) ==
    \/ Deblock(d)
    \/ \E s \in DOMAIN cdef[d] : SearchCdef(d, s) \/ CountCdef(d, s)
    \/ \E s \in DOMAIN restoration[d] : SearchRestoration(d, s) \/ CountRestoration(d, s)
    \/ \E t \in DOMAIN tiles[d] : CodeTile(d, t) \/ MarkTile(d, t) \/ HandOn(d, t)

-----------------------------------------------------------------------------
\* The stages picture d is in, packetization's queue included.
InParts(queue, d) == \E s \in DOMAIN queue[d] : queue[d][s] # "none"

StagesOf(d) ==
    {stage \in {"deblocking", "cdef", "restoration", "tiles", "results"} :
        CASE stage = "deblocking"  -> d \in deblocking
          [] stage = "cdef"        -> InParts(cdef, d)
          [] stage = "restoration" -> InParts(restoration, d)
          [] stage = "tiles"       -> InParts(tiles, d)
          [] stage = "results"     -> \E i \in DOMAIN results : results[i] = d}

FiltersTypeOK ==
    /\ video \in Videos /\ deblocking \subseteq Pictures
    /\ \A d \in Pictures :
          /\ cdef[d] \in [1..video.cdefSegments -> PartStates]
          /\ restoration[d] \in [1..video.restSegments -> PartStates]
          /\ tiles[d] \in [1..video.tiles -> PartStates]
          /\ cdefCount[d] \in 0..video.cdefSegments /\ restCount[d] \in 0..video.restSegments
          /\ tileDone[d] \subseteq 1..video.tiles
    /\ \A i \in DOMAIN results : results[i] \in Pictures
=============================================================================
