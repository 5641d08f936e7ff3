------------------------------- MODULE LookAhead -------------------------------
(***************************************************************************)
(* The look-ahead of the encoder: how far resource coordination and the    *)
(* picture decision run ahead of the pictures that are coded.              *)
(*                                                                         *)
(* Resource coordination takes a parent picture control set (PPCS) for     *)
(* each picture, and passes the picture on when it has the next one, as it *)
(* must know which is the last.  The picture decision, the module this one *)
(* extends, sends mini-GOPs to motion estimation.  Motion estimation       *)
(* finishes pictures in any order; initial rate control puts them back in  *)
(* decode order in a ring, and holds a base picture until the mini-GOPs    *)
(* ahead of it are there.  Source-based operations run the temporal        *)
(* dependency model (TPL) of a base picture over this window, reading the  *)
(* references that its pictures hold, and give references back.  A picture *)
(* that is coded gives its PPCS back.                                      *)
(*                                                                         *)
(* All this waits on pools whose sizes are computed from the mini-GOP and  *)
(* the look-ahead: the question is whether they are large enough.          *)
(*                                                                         *)
(* Grain: a pass of a kernel is one step.  The picture decision's loops    *)
(* over a mini-GOP touch nothing that the other threads read, so these run *)
(* between its pictures and mini-GOPs only.                                *)
(***************************************************************************)
EXTENDS PictureDecision

CONSTANTS
    Depths,       \* the look-ahead settings of a sequence that a run considers
    MeThreads     \* pictures that motion estimation works on at once

\* mgs: lad_mg; tplMgs: tpl_lad_mg; tpl: whether TPL runs; delay: scd_delay.
ASSUME DepthsAssumption ==
    Depths \subseteq [mgs : Nat, tplMgs : Nat, tpl : BOOLEAN, delay : Nat]

\* TPL runs in random access only.  Overlays double the pools, and start-up
\* mini-GOPs have a limit of their own: neither is considered.
ASSUME SettingsAssumption ==
    \A c \in Configs : c.structure = "random access" /\ ~c.overlays /\ c.startup = 0

ASSUME ThreadsAssumption == MeThreads \in Nat \ {0}

VARIABLES
    ahead,      \* the look-ahead settings
    taken,      \* pictures that have a PPCS, that of the end of the stream included
    estimating, \* pictures of which motion estimation is not finished
    injected,   \* how many pictures of "sent" have left the picture decision
    ring,       \* lad_queue->cir_buf: the place in "sent" of the picture in each slot
    head,       \* lad_queue->head
    left,       \* the pictures that left initial rate control, with their window
    analysed,   \* how many of these have left source-based operations
    given,      \* pictures that gave their references back (reference_released)
    coded       \* pictures that are coded and packetized

inputs  == <<taken, coded>>
queue   == <<ring, head, left>>
sources == <<analysed, given>>
aheadVars == <<ahead, taken, estimating, injected, ring, head, left, analysed, given, coded>>

-----------------------------------------------------------------------------
\* The pools.

MgSize == 2^cfg.hl

\* Faulty variant: no provision for an intra picture between two mini-GOPs.
PpcsOfMiniGops == MgSize * (ahead.mgs + 1) + ahead.delay + 1

\* picture_control_set_pool_init_count: the mini-GOPs of the window, each with
\* an intra picture, what the scene detector looks ahead, and the picture that
\* resource coordination holds.  Higher levels of parallelism add to this.
PpcsCount == (1 + MgSize) * (ahead.mgs + 1) + ahead.delay + 1

\* me_pool_init_count
MeDataCount == IF ahead.tpl THEN 1 + (1 + MgSize) * ahead.mgs + MgSize ELSE 1

Slots == 0..(PpcsCount - 1)

PipelineInit ==
    /\ Init
    /\ ahead \in Depths
    /\ taken = 0 /\ estimating = {} /\ injected = 0
    /\ ring = [s \in Slots |-> None] /\ head = 0 /\ left = <<>>
    /\ analysed = 0 /\ given = {} /\ coded = {}

-----------------------------------------------------------------------------
\* Before the look-ahead.

\* The end of the stream takes a PPCS like a picture.
HasPpcs == taken - Cardinality(coded) < PpcsCount

TakePicture ==
    /\ taken <= cfg.pictures /\ HasPpcs
    /\ taken' = taken + 1
    /\ UNCHANGED <<vars, ahead, estimating, injected, queue, sources, coded>>

\* What resource coordination has passed on.
Posted == IF taken = 0 THEN 0 ELSE taken - 1

\* The scene detector has the pictures it looks at, or sees the last one.
WindowAvailable ==
    \/ Posted = cfg.pictures
    \/ poc + 1 + ahead.delay < Posted

\* The picture decision, which first sends what it has decided.
Decide ==
    /\ injected = Len(sent)
    /\ phase = "place" => WindowAvailable
    /\ Next
    /\ UNCHANGED aheadVars

\* A picture goes to motion estimation with a buffer for its results.
SendPictureOut ==
    /\ injected < Len(sent)
    /\ injected - Cardinality(coded) < MeDataCount
    /\ injected' = injected + 1
    /\ estimating' = estimating \cup {injected + 1}
    /\ UNCHANGED <<vars, ahead, inputs, queue, sources>>

-----------------------------------------------------------------------------
\* Initial rate control.

SlotOf(i) == sent[i].dec % PpcsCount

\* The pictures from slot h of the ring on, up to the first empty slot.
Run(r, h) ==
    LET At(k)   == r[(h + k) % PpcsCount]
        empty   == {k \in Slots : At(k) = None}
        length  == IF empty = {} THEN PpcsCount ELSE Min(empty)
    IN  [k \in 1..length |-> At(k - 1)]

\* Faulty variant: the mini-GOP of the picture itself is the first one ahead.
TargetWithoutOwn(p) == IF p.held THEN ahead.mgs + 1 ELSE ahead.mgs

\* The mini-GOPs a base picture waits for, its own included; a delayed intra
\* picture is a mini-GOP of its own.
Target(p) == (IF p.held THEN ahead.mgs + 1 ELSE ahead.mgs) + 1

\* Faulty variant: the end of the sequence changes nothing.
TargetAsIfEndless(p, run, k) == Target(p)

\* No mini-GOP comes after that of the last picture, once this one is seen.
TargetAt(p, run, k) ==
    LET lasts == {sent[run[j]].id - p.id + 1 : j \in {i \in 1..k : sent[run[i]].eos}}
    IN  Min(lasts \cup {Target(p)})

\* Faulty variant: a mini-GOP counts from its first picture on.
IsWholeAtFirst(run, k) == k = 1 \/ sent[run[k]].id # sent[run[k - 1]].id

\* All pictures of the mini-GOP have been seen: they follow one another.
IsWhole(run, k) ==
    Cardinality({j \in 1..k : sent[run[j]].id = sent[run[k]].id}) = sent[run[k]].size

\* The last of the mini-GOPs to wait for, when they are all there.
EndOfWindow(p, run) ==
    LET enough == {k \in DOMAIN run :
                     Cardinality({j \in 1..k : IsWhole(run, j)}) = TargetAt(p, run, k)}
    IN  IF enough = {} THEN None ELSE sent[run[Min(enough)]].id

\* store_extended_group: all that is there of the mini-GOPs up to the last.
ExtGroup(run, end) == SelectSeq(run, LAMBDA i : sent[i].id <= end)

\* The part of it TPL runs over, up to the second intra picture.
Joins(ext, k) ==
    LET p      == sent[ext[k]]
        intras == {j \in 2..(k - 1) : sent[ext[j]].intra}
    IN  IF p.intra THEN k = 1 \/ ~p.held
        ELSE intras = {} \/ p.id = sent[ext[Max(intras)]].id

TplGroup(ext) ==
    LET p       == sent[ext[1]]
        limit   == (IF p.intra THEN 1 ELSE 0) + (ahead.tplMgs + 1) * 2^p.hl
        size    == IF limit < Len(ext) THEN limit ELSE Len(ext)
        outside == {k \in 1..size : ~Joins(ext, k)}
    IN  IF outside = {} THEN SubSeq(ext, 1, size)
        ELSE SubSeq(ext, 1, Min(outside) - 1)

\* The picture at the head goes on: at once, or with its window.
Leaving(run) ==
    LET p   == sent[run[1]]
        end == EndOfWindow(p, run)
    IN  CASE ~ahead.tpl \/ ~p.base -> <<[pic |-> run[1], window |-> <<>>]>>
          [] ahead.tpl /\ p.base /\ end # None -> <<[pic |-> run[1], window |-> ExtGroup(run, end)]>>
          [] OTHER -> <<>>

\* process_lad_queue: the head goes on as long as it can.
Processed(run) ==
    LET process[k \in 0..Len(run)] ==
            IF k = Len(run) THEN <<>>
            ELSE LET now == Leaving(SubSeq(run, k + 1, Len(run)))
                 IN  IF now = <<>> THEN <<>> ELSE now \o process[k + 1]
    IN  process[0]

\* Faulty variant: the slots stay as they are.
NotEmptied(slots, gone) == slots

\* The slots of the pictures that left are empty again.
Emptied(slots, gone) == [s \in Slots |-> IF slots[s] \in gone THEN None ELSE slots[s]]

\* Motion estimation is finished with a picture.  Its threads take pictures in
\* order: one finishes early by as many as there are threads.
EstimationDone(i) ==
    /\ i \in estimating
    /\ Cardinality({j \in estimating : j < i}) < MeThreads
    /\ estimating' = estimating \ {i}
    /\ \E full \in {[ring EXCEPT ![SlotOf(i)] = IF @ = None THEN i ELSE @]} :
       \E run \in {Run(full, head)} : \E out \in {Processed(run)} :
           /\ ring' = Emptied(full, {out[k].pic : k \in DOMAIN out})
           /\ head' = (head + Len(out)) % PpcsCount
           /\ left' = left \o out
    /\ given' = IF ahead.tpl THEN given ELSE given \cup {i}
    /\ UNCHANGED <<vars, ahead, inputs, injected, analysed>>

-----------------------------------------------------------------------------
\* Source-based operations, and the rest of the encoder.

TplPictures(out) == IF out.window = <<>> THEN {} ELSE Range(TplGroup(out.window))

\* Faulty variant: a mini-GOP cut short gives back with that of the base too.
OwesAnyOf(p, q) == q.id <= p.id + 1

\* Whose references the TPL of base picture p gives back: those of its own
\* mini-GOP, and of the one cut short after it.
Owes(p, q) == IF q.inOrder THEN q.id = p.id + 1 ELSE q.id = p.id

Analyse ==
    LET out == left[analysed + 1]
        p   == sent[out.pic]
    IN  /\ analysed < Len(left)
        /\ analysed' = analysed + 1
        /\ given' = given \cup {out.pic} \cup {i \in TplPictures(out) : Owes(p, sent[i])}
        /\ UNCHANGED <<vars, ahead, inputs, estimating, injected, queue>>

\* External: mode decision, coding and packetization, in any order.
Code(i) ==
    /\ \E k \in 1..analysed : left[k].pic = i
    /\ i \notin coded
    /\ coded' = coded \cup {i}
    /\ UNCHANGED <<vars, ahead, taken, estimating, injected, queue, sources>>

-----------------------------------------------------------------------------
\* The threads that share the pools run while the picture decision is between
\* two pictures, or between two mini-GOPs.
Pauses == phase \in {"place", "build"}

Others ==
    \/ TakePicture
    \/ SendPictureOut
    \/ \E i \in estimating : EstimationDone(i)
    \/ Analyse
    \/ \E i \in DOMAIN sent : Code(i)

PipelineNext ==
    \/ Decide
    \/ Pauses /\ Others

PipelineVars == <<vars, aheadVars>>

\* Every thread runs: none of them is stopped but by an empty fifo or pool.
PipelineFairness ==
    /\ WF_PipelineVars(Decide)
    /\ WF_PipelineVars(Pauses /\ TakePicture)
    /\ WF_PipelineVars(Pauses /\ SendPictureOut)
    /\ WF_PipelineVars(Pauses /\ \E i \in estimating : EstimationDone(i))
    /\ WF_PipelineVars(Pauses /\ Analyse)
    /\ WF_PipelineVars(Pauses /\ \E i \in DOMAIN sent : Code(i))

PipelineSpec == PipelineInit /\ [][PipelineNext]_PipelineVars /\ PipelineFairness

-----------------------------------------------------------------------------
\* "lad queue overflow" (initial_rc_process.c:142): the slot of a picture that
\* motion estimation will finish is empty, in whatever order it finishes, and
\* another slot is too, on which the scans of the ring stop.
RingHasRoom ==
    \A i \in estimating :
        /\ ring[SlotOf(i)] = None
        /\ \E s \in Slots \ {SlotOf(i)} : ring[s] = None

\* A base picture leaves with its own mini-GOP and the whole mini-GOPs of the
\* look-ahead, as far as the sequence has them, and with nothing else, however
\* motion estimation reorders the pictures.
WindowsAreWhole ==
    \A k \in DOMAIN left :
        LET p    == sent[left[k].pic]
            last == p.id + ahead.mgs + (IF p.held THEN 1 ELSE 0)
        IN  ahead.tpl /\ p.base =>
                Range(left[k].window) = {i \in DOMAIN sent : i >= left[k].pic /\ sent[i].id \in p.id..last}

\* The TPL of a base picture reads no picture that gave its references back
\* with an earlier one, and so gives none back twice: the release in the loop
\* over the group does not ask reference_released.
TplReadsHeldReferences ==
    analysed < Len(left) => TplPictures(left[analysed + 1]) \cap given = {}

\* However key frames fall, the pools are large enough for the look-ahead to
\* fill, and every picture is coded.
EveryPictureIsCoded == <>(Cardinality(coded) = cfg.pictures)

\* "Minimum input pictures needed in the pipeline" (enc_handle.c:335): when no
\* PPCS is left for the next picture, some picture of those in the pipeline
\* can still move.
MinimumIsEnough ==
    phase = "place" /\ taken <= cfg.pictures /\ ~HasPpcs =>
        \/ WindowAvailable \/ injected < Len(sent) \/ estimating # {}
        \/ analysed < Len(left) \/ Cardinality(coded) < analysed
=============================================================================
