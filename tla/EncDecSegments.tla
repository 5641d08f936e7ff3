--------------------------- MODULE EncDecSegments ---------------------------
(***************************************************************************)
(* The EncDec stage: worker threads run svt_aom_mode_decision_kernel_iter  *)
(* (Codec/enc_dec_process.c), take tasks from one system resource, and     *)
(* share the segments of a picture through assign_enc_dec_segments.        *)
(*                                                                         *)
(* A worker that has coded a segment releases the segment on its right and *)
(* the one below; it goes on with one of them if it was the last that one  *)
(* waited for, and posts a feedback task for the row below if both became  *)
(* ready.  The worker that completes the count of coded SBs either starts  *)
(* the picture again (recode) or posts the result.                         *)
(*                                                                         *)
(* Grain: a section under an assignment_mutex or the intra_mutex is one    *)
(* step; an access to current_seg_index outside its mutex is a step of its *)
(* own.  Coding a segment is one step.  svt_get_empty_object followed by   *)
(* svt_post_full_object is one step that waits for a free task: what lies  *)
(* between fills in the task.  The task resource is the ObjectPool of      *)
(* SystemResource: a count of free tasks and the queue of posted ones.     *)
(*                                                                         *)
(* There is one tile group (set_segments_numbers fixes the tile group      *)
(* counts at 1), so a picture has one EncDecSegments object.               *)
(***************************************************************************)
EXTENDS SegmentGeometry, Sequences, Functions

CONSTANTS
    Pictures,     \* child picture control sets in flight
    Workers,      \* EncDec threads
    Grids,        \* the grids a picture may have
    NoTask,       \* a worker without a task
    AllowRecode,  \* static_config.recode_loop is not DISALLOW_RECODE
    IsSuperres,   \* static_config.superres_mode is not SUPERRES_NONE
    MaxRounds     \* bound on recodes and superres retries of a picture

ASSUME SizesAssumption ==
    /\ IsFiniteSet(Pictures) /\ Pictures # {} /\ Workers # {}
    /\ AllowRecode \in BOOLEAN /\ IsSuperres \in BOOLEAN /\ MaxRounds \in Nat
ASSUME GridsAssumption ==
    \A g \in Grids : /\ g.w \in Nat \ {0} /\ g.h \in Nat \ {0}
                     /\ g.rows \in 1 .. g.h
                     /\ g.bands \in g.rows .. g.rows + g.w - 1

(* The tables of a grid, evaluated once *)
Valid == [g \in Grids |-> [s \in SegmentIds(g) |-> ValidSbCount(g, s)]]
First == [g \in Grids |-> [r \in 0 .. g.rows - 1 |-> StartingSeg(g, r)]]
Last == [g \in Grids |-> [r \in 0 .. g.rows - 1 |-> EndingSeg(g, r)]]
InitialDep == [g \in Grids |-> [s \in SegmentIds(g) |-> InitialDependency(g, s)]]

VARIABLES
    full,      \* the grid of an unscaled picture
    grid,      \* sb_row_count ... segment_band_count of the picture
    dep,       \* dependency_map
    cur,       \* row_array[].current_seg_index
    count,     \* enc_dec_coded_sb_count
    stage,     \* where the picture is: "mdc", "encdec" or "results"
    retry,     \* whether MDC will post a superres task for it
    rounds,    \* recodes and retries so far
    times,     \* how often each SB has been coded in this pass
    free,      \* wrappers in the empty queue of the task resource
    queue,     \* posted tasks
    worker     \* what each thread is doing

pictureVars == <<full, grid, count, stage, retry, rounds>>
segmentVars == <<dep, cur>>
taskVars == <<free, queue>>
vars == <<full, grid, dep, cur, count, stage, retry, rounds, times, free, queue, worker>>

(* mode_decision_configuration_fifo_init_count, the number of tasks.  The  *)
(* cap of 300 is out of reach of the instances.                            *)
Flag(b) == IF b THEN 1 ELSE 0
SegmentCount(g) == g.rows * (g.bands - g.rows + 1)
TaskCountOnePass == Cardinality(Pictures) * SegmentCount(full)
TaskCount == Cardinality(Pictures) * SegmentCount(full) * (1 + Flag(AllowRecode) + Flag(IsSuperres))

Task(type, p, row) == [type |-> type, pic |-> p, row |-> row]
Tasks == [type : {"MDC", "ENCDEC", "SUPERRES"}, pic : Pictures, row : Nat]
Idle == [pc |-> "idle", task |-> NoTask, from |-> 0, seg |-> 0,
         self |-> FALSE, again |-> FALSE, coded |-> 0]

FreshCur(g) == First[g]
NoneCoded(g) == [sb \in Sbs(g) |-> 0]
FreshDep(g) == InitialDep[g]

Init ==
    /\ full \in Grids /\ grid = [p \in Pictures |-> full]
    /\ dep = [p \in Pictures |-> FreshDep(grid[p])]
    /\ cur = [p \in Pictures |-> FreshCur(grid[p])]
    /\ count = [p \in Pictures |-> 0]
    /\ stage = [p \in Pictures |-> "mdc"]
    /\ retry = [p \in Pictures |-> FALSE]
    /\ rounds = [p \in Pictures |-> 0]
    /\ times = [p \in Pictures |-> NoneCoded(grid[p])]
    /\ free = TaskCount
    /\ queue = <<>>
    /\ worker = [w \in Workers |-> Idle]

PostTask(t) == /\ free > 0
               /\ free' = free - 1
               /\ queue' = Append(queue, t)

-----------------------------------------------------------------------------
(* The stages around EncDec *)

(* Mode decision configuration posts the picture, or its superres retry.   *)
Configure(p) ==
    /\ stage[p] = "mdc"
    /\ PostTask(Task(IF retry[p] THEN "SUPERRES" ELSE "MDC", p, 0))
    /\ stage' = [stage EXCEPT ![p] = "encdec"]
    /\ UNCHANGED <<full, grid, count, retry, rounds, segmentVars, times, worker>>

(* Packetization sends a superres picture round again: picture management  *)
(* gives it the size of the next denominator, the segments are renewed     *)
(* when EncDec gets the task.  What was coded counts no longer.            *)
Retry(p, g) ==
    /\ IsSuperres /\ stage[p] = "results" /\ rounds[p] < MaxRounds
    /\ g.w <= full.w /\ g.h <= full.h
    /\ grid' = [grid EXCEPT ![p] = g]
    /\ stage' = [stage EXCEPT ![p] = "mdc"]
    /\ retry' = [retry EXCEPT ![p] = TRUE]
    /\ rounds' = [rounds EXCEPT ![p] = @ + 1]
    /\ times' = [times EXCEPT ![p] = NoneCoded(g)]
    /\ UNCHANGED <<full, count, segmentVars, taskVars, worker>>

-----------------------------------------------------------------------------
(* The kernel: what worker w does next *)

At(w, pc) == worker[w].pc = pc
Pic(w) == worker[w].task.pic
GridAt(w) == grid[Pic(w)]
Row(w) == worker[w].from \div GridAt(w).bands
Set(w, new) == worker' = [worker EXCEPT ![w] = new]
Move(w, pc) == worker' = [worker EXCEPT ![w].pc = pc]

(* Faulty variants of the definitions below, one plausible bug each.       *)
HasBottomSegUnchecked(w) == Row(w) < GridAt(w).rows - 1
IsLastReleaseEager(w, s) == dep[Pic(w)][s] >= 1
IsTotalOfRow(w, n) == n >= GridAt(w).w
TallyOutsideMutex(w) ==
    /\ At(w, "tally")
    /\ count' = [count EXCEPT ![Pic(w)] = @ + worker[w].coded]
    /\ Move(w, IF SumFunction(times[Pic(w)]) = GridAt(w).w * GridAt(w).h
               THEN "last" ELSE "release")
    /\ UNCHANGED <<full, grid, stage, retry, rounds, segmentVars, times, taskVars>>

-----------------------------------------------------------------------------
(* EB_GET_FULL_OBJECT, then the dispatch on the input type *)
Take(w) ==
    /\ At(w, "idle") /\ queue # <<>>
    /\ queue' = Tail(queue)
    /\ Set(w, [Idle EXCEPT !.task = Head(queue),
                           !.pc = CASE Head(queue).type = "MDC" -> "start"
                                    [] Head(queue).type = "ENCDEC" -> "row"
                                    [] Head(queue).type = "SUPERRES" -> "renew"])
    /\ UNCHANGED <<free, pictureVars, segmentVars, times>>

(* ENCDEC_TASKS_MDC_INPUT: every row back to its start, begin with row 0.  *)
StartPicture(w) ==
    /\ At(w, "start")
    /\ cur' = [cur EXCEPT ![Pic(w)] =
                 [FreshCur(GridAt(w)) EXCEPT ![0] = @ + 1]]
    /\ Set(w, [worker[w] EXCEPT !.pc = "code", !.seg = FreshCur(GridAt(w))[0]])
    /\ UNCHANGED <<dep, pictureVars, times, taskVars>>

(* ENCDEC_TASKS_ENCDEC_INPUT: read the row's current segment ...           *)
StartRow(w) ==
    /\ At(w, "row")
    /\ Set(w, [worker[w] EXCEPT !.pc = "bump",
                                !.seg = cur[Pic(w)][worker[w].task.row]])
    /\ UNCHANGED <<pictureVars, segmentVars, times, taskVars>>

(* ... and increment it, outside the row's mutex.                          *)
BumpRow(w) ==
    /\ At(w, "bump")
    /\ cur' = [cur EXCEPT ![Pic(w)][worker[w].task.row] = @ + 1]
    /\ Move(w, "code")
    /\ UNCHANGED <<dep, pictureVars, times, taskVars>>

(* The SB loop over the assigned segment *)
Code(w) ==
    /\ At(w, "code")
    /\ LET swept == Swept(GridAt(w), worker[w].seg)
       IN  times' = [times EXCEPT ![Pic(w)] =
                       [sb \in DOMAIN @ |-> @[sb] + Flag(sb \in swept)]]
    /\ Set(w, [worker[w] EXCEPT !.pc = "right", !.from = worker[w].seg,
                                !.self = FALSE, !.again = FALSE,
                                !.coded = @ + Valid[GridAt(w)][worker[w].seg]])
    /\ UNCHANGED <<pictureVars, segmentVars, taskVars>>

(* ENCDEC_TASKS_CONTINUE releases a segment; the last release takes it.    *)
HasRightSeg(w) == worker[w].from < Last[GridAt(w)][Row(w)]
HasBottomSeg(w) ==
    /\ Row(w) < GridAt(w).rows - 1
    /\ worker[w].from + GridAt(w).bands >= First[GridAt(w)][Row(w) + 1]
IsLastRelease(w, s) == dep[Pic(w)][s] = 1
ReleaseSeg(w, s) == dep' = [dep EXCEPT ![Pic(w)][s] = @ - 1]
TakeCurrent(w, row) ==
    /\ cur' = [cur EXCEPT ![Pic(w)][row] = @ + 1]
    /\ Set(w, [worker[w] EXCEPT !.pc = IF row = Row(w) THEN "below" ELSE "code",
                                !.seg = cur[Pic(w)][row],
                                !.self = (row = Row(w)), !.again = TRUE])

Right(w) ==
    /\ At(w, "right")
    /\ LET s == worker[w].from + 1
       IN  IF HasRightSeg(w)
           THEN /\ ReleaseSeg(w, s)
                /\ IF IsLastRelease(w, s) THEN TakeCurrent(w, Row(w))
                   ELSE Move(w, "below") /\ UNCHANGED cur
           ELSE Move(w, "below") /\ UNCHANGED segmentVars
    /\ UNCHANGED <<pictureVars, times, taskVars>>

AfterBelow(w) == Move(w, IF worker[w].again THEN "code" ELSE "tally")

Below(w) ==
    /\ At(w, "below")
    /\ LET s == worker[w].from + GridAt(w).bands
       IN  IF ~HasBottomSeg(w) THEN AfterBelow(w) /\ UNCHANGED segmentVars
           ELSE /\ ReleaseSeg(w, s)
                /\ IF ~IsLastRelease(w, s) THEN AfterBelow(w) /\ UNCHANGED cur
                   ELSE IF worker[w].self THEN Move(w, "feedback") /\ UNCHANGED cur
                   ELSE TakeCurrent(w, Row(w) + 1)
    /\ UNCHANGED <<pictureVars, times, taskVars>>

(* The row below became ready too: another worker shall take it.           *)
Feedback(w) ==
    /\ At(w, "feedback")
    /\ PostTask(Task("ENCDEC", Pic(w), Row(w) + 1))
    /\ Move(w, "code")
    /\ UNCHANGED <<pictureVars, segmentVars, times>>

-----------------------------------------------------------------------------
(* The end of the kernel *)

IsTotal(w, n) == n = GridAt(w).w * GridAt(w).h

(* Under the intra_mutex: add the SBs coded; the last one sees the total.  *)
Tally(w) ==
    /\ At(w, "tally")
    /\ LET total == count[Pic(w)] + worker[w].coded
       IN  /\ count' = [count EXCEPT ![Pic(w)] = total]
           /\ Move(w, IF IsTotal(w, total) THEN "last" ELSE "release")
    /\ UNCHANGED <<full, grid, stage, retry, rounds, segmentVars, times, taskVars>>

(* svt_aom_init_enc_dec_segement and the reset of the count *)
RenewSegments(w) ==
    /\ count' = [count EXCEPT ![Pic(w)] = 0]
    /\ dep' = [dep EXCEPT ![Pic(w)] = FreshDep(GridAt(w))]
    /\ cur' = [cur EXCEPT ![Pic(w)] = FreshCur(GridAt(w))]
    /\ times' = [times EXCEPT ![Pic(w)] = NoneCoded(GridAt(w))]
    /\ Move(w, "repost")

Recode(w) ==
    /\ At(w, "last") /\ AllowRecode /\ rounds[Pic(w)] < MaxRounds
    /\ rounds' = [rounds EXCEPT ![Pic(w)] = @ + 1]
    /\ RenewSegments(w)
    /\ UNCHANGED <<full, grid, stage, retry, taskVars>>

Renew(w) ==
    /\ At(w, "renew")
    /\ RenewSegments(w)
    /\ UNCHANGED <<full, grid, stage, retry, rounds, taskVars>>

(* The picture goes through EncDec again; the worker still holds its task. *)
Repost(w) ==
    /\ At(w, "repost")
    /\ PostTask(Task("MDC", Pic(w), 0))
    /\ Move(w, "release")
    /\ UNCHANGED <<pictureVars, segmentVars, times>>

PostResult(w) ==
    /\ At(w, "last")
    /\ stage' = [stage EXCEPT ![Pic(w)] = "results"]
    /\ Move(w, "release")
    /\ UNCHANGED <<full, grid, count, retry, rounds, segmentVars, times, taskVars>>

ReleaseTask(w) ==
    /\ At(w, "release")
    /\ free' = free + 1
    /\ Set(w, Idle)
    /\ UNCHANGED <<queue, pictureVars, segmentVars, times>>

-----------------------------------------------------------------------------
Finished == /\ \A p \in Pictures : stage[p] = "results"
            /\ \A w \in Workers : At(w, "idle")

Segment(w) == Code(w) \/ Right(w) \/ Below(w) \/ Feedback(w)
Begin(w) == StartPicture(w) \/ StartRow(w) \/ BumpRow(w) \/ Renew(w)
End(w) == Tally(w) \/ Recode(w) \/ Repost(w) \/ PostResult(w) \/ ReleaseTask(w)
Work(w) == Take(w) \/ Begin(w) \/ Segment(w) \/ End(w)

Next == \/ \E p \in Pictures : Configure(p) \/ \E g \in Grids : Retry(p, g)
        \/ \E w \in Workers : Work(w)
        \/ Finished /\ UNCHANGED vars

Spec == Init /\ [][Next]_vars

(* Threads are scheduled: a worker or a stage that can step does.          *)
FairSpec == /\ Spec
            /\ \A w \in Workers : WF_vars(Work(w))
            /\ \A p \in Pictures : WF_vars(Configure(p))

-----------------------------------------------------------------------------
(* Properties *)

Steps == {"idle", "start", "row", "bump", "code", "right", "below", "feedback",
          "tally", "last", "renew", "repost", "release"}

(* Types of the state; dependency_map never goes below zero: its entries   *)
(* are bytes and would wrap.                                               *)
TypeOK ==
    /\ full \in Grids /\ grid \in [Pictures -> Grids]
    /\ \A p \in Pictures :
        /\ \A s \in DOMAIN dep[p] : dep[p][s] \in 0 .. 2
        /\ \A r \in DOMAIN cur[p] : cur[p][r] \in Nat
    /\ count \in [Pictures -> Nat]
    /\ stage \in [Pictures -> {"mdc", "encdec", "results"}]
    /\ retry \in [Pictures -> BOOLEAN] /\ rounds \in [Pictures -> 0 .. MaxRounds]
    /\ \A p \in Pictures : times[p] \in [Sbs(grid[p]) -> Nat]
    /\ free \in 0 .. TaskCount
    /\ queue \in Seq(Tasks)
    /\ worker \in [Workers -> [pc : Steps, task : Tasks \cup {NoTask}, from : Nat,
                              seg : Nat, self : BOOLEAN, again : BOOLEAN,
                              coded : Nat]]

Busy(w) == ~At(w, "idle")
InSegments(w) == worker[w].pc \in {"row", "bump", "code", "right", "below", "feedback"}

(* A worker that resets the rows of a picture, or renews its segments,     *)
(* without a lock is alone in them, and no other task of the picture is    *)
(* queued: a worker of the previous pass has left the segments for good.   *)
ResetsAlone ==
    \A w \in Workers :
        worker[w].pc \in {"start", "renew", "last", "repost"}
        => /\ \A v \in Workers \ {w} :
                Busy(v) /\ Pic(v) = Pic(w) => At(v, "release")
           /\ \A i \in DOMAIN queue : queue[i].pic # Pic(w)

(* Who may move a row's current_seg_index next: a queued task, a worker    *)
(* that begins the row or is about to post it, or the worker inside it.    *)
OwnsRow(w, p, row) ==
    /\ InSegments(w) /\ Pic(w) = p
    /\ \/ worker[w].pc \in {"row", "bump"} /\ worker[w].task.row = row
       \/ worker[w].pc = "feedback" /\ Row(w) + 1 = row
       \/ /\ worker[w].pc = "code" \/ worker[w].again
          /\ worker[w].seg \div grid[p].bands = row
       \/ /\ worker[w].pc = "right" /\ HasRightSeg(w) /\ Row(w) = row
QueuedRow(p, row) ==
    {i \in DOMAIN queue : queue[i] = Task("ENCDEC", p, row)}

(* A segment row has at most one owner at a time, although it passes from  *)
(* worker to worker through feedback tasks: that is why                    *)
(* ENCDEC_TASKS_ENCDEC_INPUT may increment current_seg_index without the   *)
(* row's mutex.                                                            *)
OneOwnerPerRow ==
    \A p \in Pictures : \A row \in 0 .. grid[p].rows - 1 :
        Cardinality({w \in Workers : OwnsRow(w, p, row)})
            + Cardinality(QueuedRow(p, row)) <= 1

(* EncDec implements Wavefront: SBs are coded once, after the neighbours   *)
(* they read, and only a fully coded picture is posted or coded again.     *)
Abstract == INSTANCE Wavefront WITH
                handed <- [p \in Pictures |-> stage[p] = "results"]
ImplementsWavefront == Abstract!Spec

(* Every picture that enters EncDec leaves it.                             *)
EveryPictureLeaves ==
    \A p \in Pictures : stage[p] = "mdc" ~> stage[p] = "results"
=============================================================================
