# A verification model of the encoder in `submission/`

The repository is a video compression challenge: a vendored SVT-AV1 encoder
(`src/submission`, C) and a Python harness that builds and scores it
(`src/harness`).  The program's own hard logic is the encoder's threading: some
fifteen kinds of thread pass pictures through queues of reference-counted
wrappers, start pictures out of display order, and cut each picture into
segments that many workers code at once.  That is what is modelled here.

All paths below are relative to `src/submission/Source/Lib/` unless they start
with `src/`.

## 1. Inventory

A stage is a *kernel*: a loop that blocks on its input queue, changes the
picture or shared lists, and posts to the next queue.

| Component | State | Operations | Hard part |
|---|---|---|---|
| **System resource** `Codec/sys_resource_manager.c` | two muxing queues (object ring, process ring), one fifo and semaphore per thread, `live_count`, `release_enable` | get empty, post full, get full (blocking, polling), increment, release, enable/disable release, shut down | every operation runs in several locked pieces; wakeups are posted outside the locks |
| **Resource coordination** `Codec/resource_coordination_process.c` | active sequence control set, previous picture | take an input picture, change the sequence parameters, drop the old control set | reads a live count without its lock |
| **Picture analysis, motion estimation** | per-picture segment counter | search a segment; initial rate control counts it | |
| **Picture decision** `Codec/pd_process.c` | reorder queue, decoded picture buffer, mini-GOP arrays, semaphore | reorder, form a mini-GOP, assign references, send in decode order | back-pressure from the reference list; application may pin buffer slots |
| **Initial rate control** `Codec/initial_rc_process.c` | look-ahead ring indexed by decode order | push, drain in order, gather the window of a base picture | ring overflow; a window of whole mini-GOPs from pictures that arrive in any order; pools that must hold the window |
| **Source-based operations / TPL** `Codec/src_ops_process.c` | TPL group, segment hand-over | dispatch, propagate, give references back | references given back once, and never before a later group reads them; the same wavefront as EncDec |
| **Picture manager** `Codec/pic_manager_process.c` | input list, reference list, `consecutive_dec_order`, heap of started orders, `pmgr_dec_order`, `decode_order` | INPUT, REFERENCE, FEEDBACK, SUPERRES; scan of the input list; release of references | starting out of order without losing a reference or forgetting a picture |
| **Rate control** `Codec/rc_process.c` | statistics | set the QP, take feedback | numerical |
| **Mode decision configuration, EncDec** `Codec/md_config_process.c`, `enc_dec_process.c`, `enc_dec_segments.c` | dependency map, row cursors, coded-superblock count | take a task, code a segment, release neighbours, feedback task, recode | many workers, several unlocked steps |
| **Deblocking, CDEF, restoration** | segment counters | filter a segment, count it | the worker that completes the count does the picture's work |
| **Entropy coding** `Codec/ec_process.c` | tiles done | code a tile, count it, release references | |
| **Packetization** `Codec/packetization_process.c` | reorder queue, hidden frames, shown-frame count | write headers, feedback, build temporal units, end of sequence | decode order to temporal units; end-of-sequence release |
| **Encoder API** `Globals/enc_handle.c` | handle, pools, threads | init, send, get, flush, deinit | shutdown of running threads |
| **Challenge harness** `src/harness` | files | validity gates, scoring | sequential |

Interactions.  Pictures travel forward as wrappers: resource coordination →
picture analysis → picture decision → motion estimation → initial rate control
→ source-based operations → picture manager → rate control → mode decision
configuration → EncDec → deblocking → CDEF → restoration → entropy coding →
packetization.  Three loops go back: restoration (REFERENCE) and packetization
(FEEDBACK, SUPERRES) to the picture manager; EncDec to itself (feedback and
recode tasks); packetization to rate control.  The reference list is shared
under a mutex by the picture manager and packetization; the semaphore
`ref_buffer_available_semaphore` couples picture decision to the release of
references.  Live counts tie all of them to the pools.

What makes each correct: a wrapper is in one place and comes back exactly when
nobody refers to it; no wakeup is lost; every superblock is coded once and
after the neighbours it reads; every picture is started after its references
are complete, keeps them as long as it needs, and leaves; nothing waits for
itself.  `PROJECT.json` lists every hazard at its line with the property that
covers it, or the reason why none does.

## 2. Modules

```
CircularBuffer <- SystemResource <- MCSystemResource      ObjectPool, ObjectChannel
      ^                 ^                                   (abstract contracts)
             SystemResourceProofs

SegmentGeometry <- SegmentTables <- MCSegmentTables
SegmentGeometry <- MCEncDecSegments -> EncDecSegments -> Wavefront (abstract)
SegmentGeometry <- SegmentGeometryProofs <- SegmentTablesProofs (of SegmentTables)
                                         <- EncDecSegmentsProofs (of EncDecSegments)

PictureManager <- MCPictureManager
      ^
PictureManagerProofs

PredictionStructure <- LowDelayStructure <- PictureDecision <- MCPictureDecision
                                                  ^
                                              LookAhead <- MCLookAhead
PictureDecision <- PictureDecisionProofs <- LookAheadProofs (of LookAhead)

FilterStages <- Packetization <- PacketizationRing <- MCPacketization
                   |      ^             ^
                   v      |             PacketizationProofs
        OutputStream      MCOvertaking
          (abstract)
MCVideos <- MCPacketization, MCOvertaking (the sequences)
```

**CircularBuffer** is `EbCircularBuffer` as pure operators: a record of slots,
head, tail and count; `PushBack`, `PushFront`, `PopFront`, `EmptyCheck`.

**SystemResource** is one system resource between producers, consumers and
other holders.  State: the object and process ring of each queue (`objQ`,
`procQ`), each fifo's list, semaphore and quit signal, `live` and `enable` of
each wrapper, and a program counter per thread.  Each action is one critical
section of the C function, in its order; `svt_muxing_queue_assignation` is
split where it unlocks the fifo before it posts the semaphore, holding the queue
mutex throughout.  `Share`/`Claim` stand for the stages that increment counts,
`Pin`/`Unpin`/`CheckPrevious`/`DropPrevious`/`ShareActive` for resource
coordination's handling of the sequence control set with the unlocked test.
The single-threaded build path and statistics are left out.

**ObjectPool** says what a resource promises about its wrappers (taken when
empty, shared, back when unreferenced); **ObjectChannel** that consumers
receive wrappers in posting order.  Both are refined by SystemResource.

**SegmentGeometry** is the arithmetic of `svt_aom_enc_dec_segments_init`,
`set_segments_numbers`, the scaled sizes, and the superblock loop of the
mode-decision kernel: which superblocks are in a segment, where rows begin and
end, how many predecessors a segment has.  **SegmentTables** re-initialises one
pooled table for one picture after the other, with and without scaling, and
states what the tables must satisfy.

**EncDecSegments** runs pictures through workers: tasks, `assign_enc_dec_segments`
in its three task types, the two locked releases (right, bottom-left), the
count under `intra_mutex`, the recode path, the superres retry and the result.
The unlocked steps are steps of their own.  The geometry is a constant; the MC
module gives it as `SegmentGeometry` computes it.  **Wavefront** is its
contract: every superblock of a pass is coded once, after its
neighbours, and a picture is handed on when all are.

**PictureManager** is the picture manager with the stages it talks to.  A
picture is named by its decode order; what the picture decision chose for it
(references, refreshed slots) is a row of a constant structure.  `DpbAfter` is
what the slots hold after a picture (those that no later picture has overwritten),
and `ReleasedPics` the references a picture retires: those it overwrites the last slot
of, as `assign_and_release_pa_refs` finds by looking through the other slots.
`ListHasRoom` is about both lists, which the code fills without a way to refuse.  A handler receives one message
(`Receive…`), then scans: `StartPicture` starts the first startable entry at or
after the cursor, with everything the code does for it, and `EndScan` runs the
release loop and goes back to sleep.  Messages arrive in the order they were
posted, as a one-consumer resource delivers them (shown by `ObjectChannel`).
The closed loop between is `Filter` (restoration), `CodeEntropy`, `Recode`,
`Packetize`, and the end-of-sequence release.  `frame_end_cdf_update_mode` is on
for every frame the encoder makes, so the weaker guard on `feedback_arrived` is
subsumed and left out.  The heap is its set of orders: its array layout decides
nothing.

**PictureDecision** is the picture decision with `av1_generate_rps_info` and what
it calls.  One thread runs it, so an action is one pass of a loop of the kernel
over one picture or one mini-GOP, in the kernel's order (`phase`): place a
picture in the pre-assignment buffer, split the buffer into mini-GOPs, give the
pictures of a mini-GOP their positions and decode numbers, decide each (the
slots it predicts from and overwrites, the toggles, what is shown), leave a
picture to its overlay, assign and release references slot by slot, send.  The
application's key frames, the length of the sequence and the dynamic choice
between one mini-GOP of 32 and two of 16 are nondeterministic.
**PredictionStructure** holds the random-access tables, **LowDelayStructure** the
low-delay ones.  A slot carries the number, decode order and layer of its
picture.  The tables are compared with what the encoder means by them, not with
themselves: `NearestReferences` says which picture a slot must hold.

**LookAhead** composes the picture decision with the threads around it.
Resource coordination takes a parent control set (PPCS) for a picture and holds
it until the next one is there; the picture decision waits for the pictures its
scene detector looks at (`WindowAvailable`) and sends pictures out, each with a
buffer for the results of motion estimation; its threads finish them out of
order; initial rate control keeps them in a ring by decode order, passes the
head on as long as it can, and gives a base picture its window of mini-GOPs;
source-based operations cut the TPL group out of the window and give references
back; coding (`Code`, external) gives the PPCS back.  The pools have the sizes
that `Globals/enc_handle.c` computes at the lower levels of parallelism, where
it adds no extra mini-GOP.  The loops of the picture decision over one mini-GOP
touch nothing the others read, so the other threads run between its pictures
and mini-GOPs (`Pauses`).  `IsWhole` counts the pictures of a mini-GOP by its
identity where the code counts consecutive ones: the same, because mini-GOPs
arrive whole (`MiniGopsArriveWhole`).

**FilterStages** is deblocking, CDEF, restoration and entropy coding with their
several workers, as the counting of parts: a worker takes a part without a
lock, and counts it under the picture's mutex.  In entropy coding the mutex ends
between the two halves: `MarkTile` marks a tile and looks whether all are marked, and
only then, in `HandOn`, the worker that found it so lets go of the references and
posts the picture.  **Packetization** extends it
with the end of the encoder: coding again for the best super-resolution, the
ring in decode order, the metadata that hidden pictures leave in entries of the
ring, temporal units (`UnitLengths` are the lengths at which the entries from the
head on could end a unit, of which `count_frames_in_next_tu` takes the first; the
hidden frames inside are a set that is written in order of time), headers that show a hidden picture in the buffer of the
earliest one kept, the count of pictures shown, and the two threads that may
find the stream complete: packetization after its last unit and resource
coordination when the application ends the sequence.  The application takes a
packet and gives its buffer back.  `Start` has the limits that the code has: a
child control set, the references, the picture's turn (`InTurn`: with `enable_dec_order`
the feedback of all before it, otherwise no more than the reach past the oldest
picture not *started*), and parent control sets for what was taken in and is not packetized
(`HasParents`).  None of them bounds how far a picture may get ahead of one that was started
and is slow; what that means for the ring is the subject of **PacketizationRing**,
below.  The block coding between `Start` and
`Deblock` is left out; `EncDecSegments` has it.  **OutputStream** is the contract:
packets in display order, each with its own picture and metadata, then the
end, once.

What connects these modules is checked on one side and assumed on the other:
PictureDecision shows that pictures leave in decode order without a gap, that
what is shown comes in display order and that the picture a header shows is a
reference of the picture it comes with; Packetization's videos (`IsVideo`)
assume just that.

**PacketizationRing.**  Packetization fills the entry of a picture without asking
whether it is free, sends from the head without asking whose entry it is, and leaves
the metadata of hidden pictures in the entry of their picture number.  Whether
that is safe depends on which pictures can overtake which, and that on the sequence alone:
`Overtakings` are the sets of pictures that can be packetized while the rest is not,
given what each predicts from (and, where coding is in decode order or one picture at a
time, the order of the starts).  `RingIsLarge` asks that in none of these situations the
next picture meets an entry or a metadata slot that is in use.  It is a condition on the sequence,
not a guard of the model, and the code does not enforce it: MCPacketization keeps to
sequences that meet it (`RingAssumption`, which TLC evaluates), MCOvertaking has an
ordinary one that does not.

## 3. Runs

Bounds are in the cfg files; the numbers below are why they suffice.

| Run | Bounds | Shows |
|---|---|---|
| SRM_threads | 3 wrappers, 2 producers, 1 consumer that polls and blocks, 1 holder | conservation, counts, no lost wakeup, posting order, refinement of ObjectPool and ObjectChannel. Two threads on a side is what the assignation needs to hand a wrapper to another thread than the one that runs it; three wrappers fill and wrap the rings; a poller leaves the stale registrations. |
| SRM_scs | 3 wrappers, one pinned, 2 holders | the unlocked test before the drop of the previous sequence control set is sound |
| SRM_live | 2 wrappers, 1 producer, 2 consumers, shutdown at any moment, fair threads | every posted wrapper is received, consumers leave, none pops an empty fifo |
| SEG_tables | inputs up to six superblocks a side, sizes that end in a superblock's first and second half, both superblock sizes, denominators 8-16 | tables fit, every row is walked to its end, the kernel's loop sweeps exactly the segment, and neighbours come before |
| ED_safety | 3 workers, one picture of 2 or 4 rows, one recode or retry | each superblock once, after its neighbours; one owner per row; unlocked resets run alone. Pictures share nothing but the task pool, so one is enough here; four rows let feedback tasks chain. |
| ED_live | 3 workers, 2 pictures of 1 or 2 rows, task pool at its configured size, fair threads | every picture leaves. With one segment a picture the pool is smallest and the workers outnumber the spare tasks. |
| PM_order | ten videos: four structures with a reach of three; low delay in decode order; a heap of three; a pool that runs dry; recoded pyramids; fair threads | no picture forgotten, none loses a reference, the list has room, the order count is exact, waits end, every picture is coded |
| RPS | every structure with 0 to 5 levels, both reference schemes, reduced buffers; every length from two to three mini-GOPs; key frames at each place; forward key frames, start-up and dynamic mini-GOPs, overlays | each picture is shown once, in order; decode numbers have no gap; mini-GOPs arrive whole; slots hold the pictures the tables mean; a picture is released with its last slot; upper layers can be dropped at constant bit rate |
| LAD | mini-GOPs of two pictures (5 to 7 pictures, up to 2 forced key frames) and of four (7 or 9 pictures, one key frame), key frames anywhere; look-ahead of one mini-GOP with and without scene-detection delay, of two with a TPL window of one, none without TPL; two motion estimation threads; fair threads | the ring has room, windows are whole, TPL reads only pictures that still hold their references, every picture is coded |
| LAD_pool | the same sequences, TPL without a look-ahead mini-GOP | **finding**, below |
| BE_stream | seven videos of 2 to 9 pictures that `RingIsLarge` admits, 2 workers a stage, 1 or 2 child control sets, 1 or 2 segments and tiles, fair threads | the stream is what OutputStream promises whoever ends it and in decode order, a picture is in one stage at a time, no output buffer is lost, the stream ends |
| BE_ring | one video of 9 pictures: two pyramids of four, ring of 6, 2 child control sets | **finding**, below: the order of the stream is lost to overtaking, and on the way the metadata of a hidden picture |

The prediction structures are the smallest that make a difference: a pyramid (late
pictures of low layers started early), all intra (nothing refers), flat low
delay (each refers to the last), a fan and a burst (several pictures retire at
once).  Buffers of one or two slots stand for the eight of AV1: the hazards need
one slot to be overwritten while an earlier picture still refers to it.

`RPS` needs no small instance: the encoder's tables have five sizes, and the
toggles and positions repeat with two or three mini-GOPs; what differs between
sequences is how a mini-GOP ends and which one follows, and the settings
enumerate that.  The nine pictures of two pyramids of four in `BE_stream` go once and a half around
a ring of 6, in decode order; of the pyramid and a half that go out of order the last
picture begins the second round; the
three pyramids of two go around a ring of 4 one at a time, in any order their
dependencies allow.  The
low-delay video has the smallest ring there is, of two entries, and goes around it.  In the
video with two segments and tiles a picture that is coded twice shares the
workers with one that overtakes it; a third would add nothing, as pictures
meet only in the queues.

`LAD` needs three mini-GOPs after a key frame: that of the base picture, the one
ahead, and one that must stay outside the window; an odd number of pictures and
a forced key frame cut mini-GOPs short.  Two motion estimation threads are what
it takes to finish a picture before an earlier one.  The pools follow the
mini-GOP, so small mini-GOPs meet their limits as large ones do.

**Where the ring is safe.**  `BE_stream` shows that all is well for sequences that
`RingIsLarge` admits, and only for those.  Which are they?  Whatever is coded in decode
order, as with `enable_dec_order`, which `enc_handle.c:4157-4164` sets for low delay
and for one level of parallelism: then only the shape of a mini-GOP matters
(`InOrderIsLarge`, a theorem).  Out of order with several child control sets,
short sequences or rings that are long for their mini-GOPs; for long
sequences nothing in the code bounds the overtaking, so that a longer ring (a
look-ahead, more parallelism) makes the case rarer and does not exclude it.
`BE_ring` shows that with the smallest ring and two child control sets it takes
only two ordinary mini-GOPs.

`CHECK_DEADLOCK FALSE` is set where the modelled video is finite and the system
stops when all of it is coded (`ED_live`, `PM_order`, `RPS`, `LAD*`, `BE_*`) or the resource was shut
down (`SRM_live`); there the liveness
property, or `NothingStartableIsLeft`, distinguishes a finished system from a stuck one.

### Fairness

Every actor is a thread of its own, blocked only on semaphores and short
critical sections, so each thread's next step is weakly fair.  The steps that take
a queue's mutex are strongly fair: the mutex is freed again and again, and a
waiting thread gets it in the end.  `SRM_live` also
assumes that a consumer releases what it holds in the end, as every kernel does
at the end of its iteration.  `BE_stream` assumes that the application ends its
sequence, takes packets and gives them back; in `LAD`, that some picture that
reached coding is coded in the end; weak fairness per picture in the
filters stands for workers that finish the part they have taken.

The process ring serves the last registration first, so a fair thread can still
be overtaken for ever.  Nothing in the code promises otherwise, and nothing is
claimed of it: a sleeping producer misses no wrapper (`NoLostWakeup`), but may
see others get them.  `SRM_live` has no poller; the stale registrations of
polls are a matter of `SRM_threads`.

## 4. What is proved

The theorems hold for every value of the constants that the named assumptions of
the modules admit; the runs evaluate these assumptions on their instances.  Each
safety theorem comes from an `Invariance`, `Spec => []IInv`, where `IInv` is a
conjunction of named parts, none of which is inductive alone.  A proof has one
lemma per action.

**SystemResourceProofs.**  For every length, a push or pop keeps a circular buffer well
formed and changes its contents by exactly one element at the right end, in order
too (`PushBackOrder`, `PopFrontOrder`): the order is what the channel below needs.
For any number of wrappers, producers, consumers and
holders: `TypeCorrect`, `WrappersConserved` (`ObjectConservation`),
`LiveCountsAgree`, `PopFindsObject` (`NoNullPop`), `DropStaysCurrent` and
`SleepersHaveNothing` (`NoLostWakeup`).  `NoNullPop` needs to know how many posts
of each semaphore are matched by objects in the fifo, by the quit post, or by the
post that an assignation still owes; conservation needs to know that a thread past
its pop holds the wrapper it popped; live counts need to know that a wrapper in the
pool has the released value and who holds a reference.  `NoLostWakeup` adds
`WakeInv`: whenever a muxing queue's mutex is free one of its two rings is empty,
and a thread that waits is registered or its fifo was filled.

Its second part is the refinement.  Step by step, with the mapping the runs use, a
resource implements the pool (`PoolImplemented`), and with one consumer the channel
(`ChannelImplemented`).  The resources whose order matters have one consumer:
the output streams, the reconstructions, the picture manager's messages.  With
several, each takes from its own fifo, and the order in which they go on is
nobody's.

**SegmentTablesProofs**, from **SegmentGeometryProofs.**  For every input size,
superblock size and scaling: `Fit` (`TablesFit`), `Sweep`
(`SweepCodesTheSegment`), `Walked` (`RowsAreWalked`) and `NeighboursFirst`
(`NeighboursAreAncestors`).  The divisions of the code
are thresholds (lemma `Thresholds`: a superblock is in band `k` or later iff it is at
or past the first of band `k`), and from these
follows that bands and rows are intervals that cover the picture, that the segments
of a row have no gap, and that the loop bounds of the kernel, computed by
rounding up and cutting, are the segment.  That a smaller or scaled frame fits the
tables of the first one is the invariant `TablesInv`.  The ancestors of a segment are
a recursive function of its number; as releases go from smaller numbers to larger it
has a solution (`AncestorsSolvable`), so it can be unfolded, and a segment has behind
it its row on the left and, where the row above ends earlier, that row through its own.

**EncDecSegmentsProofs.**  For any number of workers and pictures and any grid with
no more rows than superblock rows and no fewer bands than rows (`GridsAssumption`):
`Types` (`TypeOK`), `Resets` (`ResetsAlone`), `OneOwner` (`OneOwnerPerRow`) and
`WavefrontImplemented` (`ImplementsWavefront`).  Pictures share only workers and
tasks, so the invariant is about one picture and what it sees: its tables, the
workers that serve it and its tasks in the queue.  `PictureOK` is an automaton over
the life of a picture: waiting for its first pass, running, alone with the worker
that resets it, waiting for another pass, and so on.  While a pass runs, `Wave` holds:

* `Dependent`: a dependency count is the number of predecessors that have not
  released the segment yet.  Nothing else makes the last release the last.
* `Placed` and `Ready`: a worker is at the last segment its row's cursor handed
  out, and a segment that is handed out has no release left to wait for.
* `Apart`: a segment has one carrier, be it a worker or a feedback task.
* `Counted`: each coded superblock is counted or will be by the worker that has it.

That the count reaches the total only when no other worker is left follows from
`Counted`: somebody's uncounted superblocks are missing from it.  For the
refinement, a step of `Code` is one of the contract's `Code`, `Recode` is
`CodeAgain`, `PostResult` is `HandOn`, `Retry` is `ComeBack`; every other step
stutters, `Renew` too, as nothing is coded yet when it resets the tables.  That neighbours came before is `NeighboursEarlier` of SegmentGeometryProofs with
`Dependent`.

**PictureManagerProofs.**  For every video that `VideosAssumption` admits and every
size of pools and lists: `Types` (`TypeOK`), `Room` (`ListHasRoom`), `Exact`
(`ConsecutiveIsExact`), `Kept` (`ReferencesAreKept`), `NothingLeft`
(`NothingStartableIsLeft`).  A reference's entry goes when a picture that overwrites
it is not later than `consecutive_dec_order`: that nobody still to start refers to
it rests on this order being exact, which rests on the heap never being full, which
rests on how far ahead the scan starts pictures.  That live counts keep a wrapper
rests on `LiveInv`: they are the entry's own and one per picture that predicts from
it.  Credits rest on the list and the mail having as many references as the semaphore was taken.
`NothingLeft` needs `FirstInv` (nothing starts before the first picture, so
`pmgr_dec_order` never goes back) and that a start that enables an earlier picture moves
the cursor back.  `VideosAssumption` says that a picture predicts from what the
slots hold, which `RPS` checks of the picture decision, that there are more wrappers than slots, and that
the heap has room for the reach; section 5 has the case where the last is not so.
A still image (`avif`), whose pools are fixed (`Globals/enc_handle.c:506`), is left out.

**PacketizationProofs.**  Two things hold for every video that `IsVideo` admits, in whatever
order its pictures are packetized: `FlowInvariance`, and from it `OneStage`
(`OneStageAtATime`).  `FlowInv`: between its start and its packet a picture is in
exactly one stage, what is counted there are the parts that are done, and whoever is about to
hand a picture on is its last worker.

The rest is about the ring and has the hypothesis `RingAssumption`, that
`RingIsLarge` holds of the video.  It is needed: `BE_ring` violates
`BitstreamInDecodeOrder` where it fails.  It is not the conclusion: it speaks of sets of pictures
closed under their dependencies, and knows neither ring nor time.  `OrderInv` connects
the two: what is packetized is always such a set, because pictures start with their
references packetized and in their turn.  `RingInv`: there is a number
of pictures whose units left; behind it the ring holds what was packetized since,
and the buffers in the ring, with the application, on their way and free are all of
them.  That what is written but not sent lies less than a ring's length ahead rests on a
property of the sender: it sends a unit as soon as a shown picture completes it,
so that only hidden pictures are left between the head and the oldest one missing
(`HiddenAhead`, `RoomAhead`).  `EndInv`: under the lock either thread sees whether the
other ended the stream.  The theorems: `Types` (`TypeOK`), `NothingOverwritten` (a picture
finds its ring entry empty), `InDecodeOrder` (`BitstreamInDecodeOrder`) and `EndsOnce`.

`InOrderIsLarge` discharges the hypothesis for all that is coded in decode order: `RingIsLarge`
follows from `OfMiniGops`, that fewer hidden pictures come in a row than the ring
has entries and that those waiting to be shown are less than a round of picture numbers
apart.  A mini-GOP of `mg_size` has at most one hidden picture a layer, all less than
`mg_size` apart and all shown before the next mini-GOP; the ring has more than `mg_size` entries
(`enc_handle.c:338,579`).

Its second part is the refinement.  For every video with a ring that is large enough the packets posted are those
OutputStream promises, in its order (`StreamRefinement`, the safety part of
`ImplementsOutputStream`).  Packetization works in decode order and never compares
picture numbers; it relies on two things.
`InDisplayOrder`, part of `IsVideo`, is what the picture decision guarantees (its
`ShownInDisplayOrder`, checked by `RPS`): each shown picture carries on where those
before it in decode order left off, and a hidden one is shown by one header, of a
picture that predicts from it.  `RingIsLarge` (`RingAssumption`, not `IsVideo`) rules out that two pictures
meet in the ring, in an entry or in the metadata of one: hidden pictures leave
theirs in the entry of their *picture number* (`packetization_process.c:774-804`, where a
comment wants it to be that of the decode order), pictures take that of their
decode order.  `StreamInv` says that what was displayed is what the units sent
display (`CountInv`); that the buffers kept are those of the hidden pictures of these
units that are not shown yet, the latest first (`KeptInv`), so that a header goes out
in the buffer of the picture it shows because that one has the least number; that each
entry not sent yet carries the metadata its packets will need (`EntriesInv`); and that
the metadata of a hidden picture stays where it was left until the picture whose
header shows it is written (`MetadataInv`), which needs that this one waits for it in
the picture manager (`NeedsInv`).  When `SignalEnd` or `Leave` posts the end, all
numbers are displayed because the counts agree.

**PictureDecisionProofs.**  For every configuration that `IsConfiguration` admits,
sequences of any length and key frames anywhere: `Typing` (`TypeOK`), `ArrivedWhole`
(`MiniGopsArriveWhole`), `Released` (`ReleasedWithItsLastSlot`) and `Droppable`
(`CbrLayersAreDroppable`).  A picture gets its number when its mini-GOP is built, and a
mini-GOP its size when it leaves, so `Inv` follows pictures from the buffer to the
messages: the buffer holds consecutive pictures, with a key frame last (`WindowInv`);
its mini-GOPs follow one another to its end (`PiecesInv`); the numbers given out are
those of the pictures placed (`NumbersInv`); the mini-GOP being built is numbered
without a gap, and a key frame that is to wait comes last in it (`GroupInv`); what was
sent stands in blocks of the size each message says, up to a key frame that waits
(`SendInv`).  That the pyramid's decode numbers are a permutation of the positions is
the tables' (`DecodeOrderOK`); that a mini-GOP sees each position once is
`PositionsGoRound`.  `Released` needs that a slot buffer tells pictures apart by either
number (`BuffersInv`): the code compares picture numbers and names the released
picture by its decode order.
For `Droppable`, `LayersInv` says which slots have only base pictures and which none of
the highest layer.  It holds with fewer buffers because these go with fewer references
(`enc_handle.c:3478-3487`, and the runtime preset can lower the counts but not raise
them): with `ld_reduce_ref_buffs` 1 the long-term slot is overwritten by the middle
layer, and only the second reference of a base picture is still allowed.

**LookAheadProofs**, from PictureDecisionProofs.  `RingNeverOverflows` (`RingHasRoom`):
the reorder queue of the initial rate control has a slot per parent picture set and no
test for room.  (`SettingsAssumption`: random access, no overlays, no start-up
mini-GOP, which size the pools differently.)  A picture has its set from the moment it is taken until it is coded, so the pool
bounds what is in between; what the picture decision has sent is at most what was taken,
in decode order without a gap (its `Inv`); pictures are coded only after they left the
ring in that order.  So the decode orders inside the ring and in motion estimation are
closer together than the ring is long, whatever the order in which motion estimation
finishes, and each picture is alone in the slot of its decode order (`PassedInv`,
`InsideInv`).

**Only model-checked.**

* Liveness (`PostedIsReceived`, `QuitIsObeyed`, `EveryPictureLeaves`,
  `EveryPictureIsCoded`, `StreamEnds`, ...): out of the prover's reach.
* The liveness part of `ImplementsOutputStream` (that everything promised is posted).
* `ShownInDisplayOrder` and `NearestReferences`: they are about what the tables of the
  structures hold, row by row.  The tables are finite and `RPS` goes through all of them.
* `WindowsAreWhole` and `TplReadsHeldReferences`: they rest on the order of the pictures
  inside a mini-GOP (the base picture first, and what each predicts from), which is
  again what the tables say.

## 5. Findings

**LAD_pool.**  When the look-ahead distance is below a mini-GOP, `lad_mg` is 0
while TPL stays on.  A delayed key frame then waits in the ring for the mini-GOP
after its own; if that is another key frame, it is itself held for the mini-GOP
after it.  Two key frames, a whole mini-GOP, the pictures of the scene
detector and the one that resource coordination holds must be in the encoder at
once: `mg_size + 3 + scd_delay`.  What `Globals/enc_handle.c:335` calls the
"minimum input pictures needed in the pipeline" is one less, and at the lower
levels of parallelism nothing is added to it.  The run ends where every thread
waits.

**BE_ring.**  The reorder ring has an entry per parent control set
(`Globals/enc_handle.c:579`), `mg_size + 2` with no look-ahead mini-GOP and no scene
detector (`:338`), at the lower levels of parallelism.  Packetization fills entry
`decode_order % size` without a look at it (`Codec/packetization_process.c:668`) and sends
from the head without a look at whose entry it is.  Nothing keeps the pictures within a
round of each other: the picture manager bounds the distance to the oldest picture not *started*
(`Codec/pic_manager_process.c:566`), and parent control sets return at packetization.
In the run, two mini-GOPs of four with a ring of 6, picture 1 (decode order 3) is slow to
code; pictures 4 and 2, hidden, wait in the ring for its unit.  None of the next four predicts from
it: 3, 8, 6 and 5 overtake it, and the last, of decode order 7, takes the entry of
decode order 1.  The packet of picture 4 and its buffer are lost, and picture 5 goes out in
its place, right after picture 0.
`src/submission/Docs/svt-av1-encoder-design.md:738-739` promises the bitstream "in
picture-decoding order".

The same trace loses metadata before that.  Hidden pictures 2 and 8 leave their HDR10+
metadata in the same entry, as 2 and 8 are the same modulo 6
(`Codec/packetization_process.c:774-783`).  When picture 8 is packetized before picture 1,
whose header shows picture 2, picture 2 would go out with the metadata of picture 8.
That takes no round of the ring, only a picture that is two ahead in decode order.  The
comment at line 775 calls the entry that of the "current frame number", and the TODO at
lines 777 and 797 asks whether it should not be that of the decode order.

Five smaller observations are not kept as runs.  With `hierarchical_levels` 0 and overlays, which the
settings check does not exclude, the flat branch of `av1_generate_rps_info`
(`Codec/pd_process.c:2267`) shows every picture: the alternative reference is shown, and
its overlay again, where `src/submission/Docs/Appendix-Alt-Refs.md:282` says that the
overlay is displayed *instead*; `RPS` has overlays in the pyramids only.  A frame scaled to the width of
one superblock may still have several segment rows, as their number is taken
from the unscaled input; hence the assumption `WideEnough` of the segment
properties.  `release_references_eos` skips a reference whose REFERENCE message
is still on its way, and leaves its wrapper taken until the pools are destroyed.
`lib_svt_encoder_send_error_exit` (`Globals/enc_handle.c:5765`) takes an empty
wrapper from the application's side of the output queue.  The last came out of the
proof of `ConsecutiveIsExact`, whose induction fails when the heap of started
orders is full: `heap_push` (`Codec/pic_manager_process.c:122`) then drops the
order, its caller ignores that, and `consecutive_dec_order` never passes it.  The heap
has as many places as there are parent control sets and the scan reaches
`reference_picture_buffer_init_count - REF_FRAMES` ahead.  The pools are sized for
that, except that `Globals/enc_handle.c:448` raises the reference pool to 30 when the
reconstruction is asked for without TPL: with small mini-GOPs the parents may be
fewer than 22.  `IsConfiguration` leaves this case out and says so.

## 6. Not modelled, and why

Pixel and coefficient arithmetic, mode decision, rate control (numerical,
sequential); SIMD kernels; the application, scripts and vendored libraries; the
single-threaded dispatcher (the same kernels, one after the other); tile
groups other than one (each has tables of its own and they meet only in the
count); in the picture decision, application-managed reference slots, S-frames,
changes of the number of layers while encoding, all-intra coding and
scene-change detection; the pools behind the queues of the filter stages, which
are sized for all parts of all child control sets; in the look-ahead, the statistics it gathers for rate
control, the arithmetic of TPL and the dispatch of its segments, overlays,
start-up mini-GOPs, super-resolution, and the pools of input pictures and
references, whose sizes have margins of their own; allocation failures; the
statistics of a first pass.  In the models of the filters a worker that finishes
a picture posts its parts at once, where the code posts them one by one: the
workers behind only see them sooner.  `PROJECT.json` gives the reason
for each component.

## 7. Plan

Done: SystemResource with its contracts; segments and EncDec; picture manager;
picture decision; the look-ahead with the pools around it; the stages from
deblocking to the output, with their contract; the proofs of section 4.

Next, proofs, in order of worth: a lemma per structure of what its rows mean, from which
`NearestReferences`, then `ShownInDisplayOrder` (which is what `IsVideo` assumes as
`InDisplayOrder`), then `WindowsAreWhole` and `TplReadsHeldReferences`, would follow.

Left for later models: the TPL
dispenser as a second client of the wavefront; the life cycle of the encoder
handle with the shutdown order over several resources and the error path that
takes from the output queue.
