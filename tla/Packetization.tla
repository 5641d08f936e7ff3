--------------------------- MODULE Packetization ---------------------------
(***************************************************************************)
(* The end of the encoder: packetization, one thread, receives pictures in *)
(* any order, puts them in decode order in a ring, joins the hidden ones   *)
(* with the next shown one to temporal units, and posts a packet for each  *)
(* picture that is shown, directly or by a header that shows a hidden one. *)
(* It shares the end of the sequence with resource coordination: whoever   *)
(* finds that all pictures are shown posts the last packet.  The           *)
(* application takes packets and gives their buffers back.                 *)
(*                                                                         *)
(* The way back to the start of the encoder is short here: a picture may   *)
(* start when the pictures it predicts from are packetized (the picture    *)
(* manager waits for that, frame_end_cdf_update_mode being always on).     *)
(***************************************************************************)
EXTENDS FilterStages, SequencesExt

VARIABLES
    started,      \* pictures the picture manager has started
    recodes,      \* superres_recode_loop of each
    packetized,   \* pictures whose feedback was posted
    ring,         \* packetization_reorder_queue, the entries with a wrapper
    head,         \* packetization_reorder_queue_head_index
    metadata,     \* the HDR10+ metadata left in each entry of the ring
    undisplayed,  \* picture_decision_undisplayed_queue, by the pts of its buffers
    unit,         \* frames: how many pictures the unit being sent is made of
    shown,        \* total_number_of_shown_frames
    terminating,  \* terminating_picture_number
    eos,          \* packetization's own flag: the last picture is shown
    lock,         \* who has total_number_of_shown_frames_mutex
    packer,       \* where packetization is
    coordinator,  \* where resource coordination is
    free,         \* empty buffers of the output stream
    output,       \* packets posted and not yet taken
    taken,        \* packets the application holds
    finished,     \* eos_sent
    stream        \* all packets posted so far

ringVars == <<ring, head, metadata, undisplayed>>
endVars  == <<shown, terminating, eos, lock, coordinator>>
appVars  == <<taken, finished>>
vars == <<video, filterVars, started, recodes, packetized, ringVars, unit, endVars, packer, free, output, appVars, stream>>

None   == -1
Nobody == "nobody"
NoEntry == [pic |-> None, metadata |-> None, next |-> None]
NoEnd  == -2          \* ~0u: no number of shown pictures comes up to it

\* The entries of the ring, and the buffers of the output stream.
Size    == video.size
Buffers == video.size + 2
Slot    == 0..(Size - 1)

\* A picture of a video: its picture number, whether it is shown, shows the
\* next picture too (has_show_existing), or is an alternative reference with
\* an overlay to come; the pictures it predicts from; how often it is coded.
IsPicture(p) ==
    /\ {p.number, p.loops} \subseteq Nat
    /\ {p.show, p.existing, p.alt} \subseteq BOOLEAN /\ ~(p.alt /\ p.show) /\ (p.existing => p.show)

\* The picture numbers that picture p shows, itself and by a header after it.
Displayed(p) == IF ~p.show THEN {} ELSE IF p.existing THEN {p.number, p.number + 1} ELSE {p.number}
DisplayedBefore(g, i) == UNION {Displayed(g[j]) : j \in 1..(i - 1)}

\* A picture that a later picture's header shows.
Waits(p)       == ~p.show /\ ~p.alt
Shows(g, s, i) == g[s].existing /\ g[s].number + 1 = g[i].number

\* What picture decision provides: in decode order the pictures are displayed
\* one number after the other, and each hidden one, but an alternative reference,
\* is shown once, by the header of a later picture that predicts from it.
InDisplayOrder(g, last) ==
    \A i \in DOMAIN g :
        /\ g[i].show => DisplayedBefore(g, i) = 0..(g[i].number - 1) /\ Displayed(g[i]) \subseteq 0..last
        /\ Waits(g[i]) => \E s \in (i + 1)..Len(g) : Shows(g, s, i)
        /\ g[i].existing => \E d \in g[i].needs : Waits(g[d + 1]) /\ Shows(g, i, d + 1)
        /\ \A j \in DOMAIN g : i # j /\ Waits(g[i]) /\ Waits(g[j]) => g[i].number # g[j].number

\* The settings: the sizes of the pools and of the ring; whether pictures are
\* coded one after the other (enable_dec_order), and if not, how far past those
\* that are started one may start.
IsVideo(v) ==
    LET g == v.pictures
    IN  /\ DOMAIN g = 1..Len(g) /\ {Len(g), v.last} \subseteq Nat
        /\ {v.size, v.reach, v.children, v.workers, v.cdefSegments, v.restSegments, v.tiles} \subseteq Nat \ {0}
        /\ v.inOrder \in BOOLEAN
        /\ \A i \in DOMAIN g : IsPicture(g[i]) /\ g[i].needs \subseteq 0..(i - 2)
        /\ InDisplayOrder(g, v.last)

ASSUME VideosAssumption == \A v \in Videos : IsVideo(v)

Init ==
    /\ video \in Videos
    /\ InitFilters
    /\ started = {} /\ recodes = [d \in Pictures |-> 0] /\ packetized = {}
    /\ ring = [i \in Slot |-> NoEntry] /\ head = 0
    /\ metadata = [i \in Slot |-> None]
    /\ undisplayed = <<>> /\ unit = 0
    /\ shown = 0 /\ terminating = NoEnd /\ eos = FALSE
    /\ lock = Nobody /\ packer = "waits" /\ coordinator = "runs"
    /\ free = Buffers /\ output = <<>> /\ taken = <<>> /\ finished = FALSE
    /\ stream = <<>>

-----------------------------------------------------------------------------
(* The picture manager and the block coding, as far as they matter here.    *)

\* Faulty variant: the picture manager starts whatever has its references.
AnyTurn(d) == TRUE

\* With enable_dec_order a picture waits for the feedback of all before it; if
\* not, it is started no further past the oldest one that is not started than
\* there are reference buffers for.
InTurn(d) == IF video.inOrder THEN 0..(d - 1) \subseteq packetized
                              ELSE \A e \in Pictures \ started : d < e + video.reach

\* Pictures are taken in in display order, those of a mini-GOP before its first
\* one is coded, and each has a parent picture control set until it is packetized.
TakenIn(d)    == {e \in Pictures : \E f \in 0..d : Pic(e).number <= Pic(f).number}
HasParents(d) == Cardinality(TakenIn(d) \ packetized) <= Size

\* A picture gets a child picture control set: its references are held, its
\* tiles unmarked.
Start(d) ==
    /\ d \in Pictures \ started /\ Pic(d).needs \subseteq packetized
    /\ InTurn(d) /\ HasParents(d)
    /\ Cardinality(started \ packetized) < video.children
    /\ started' = started \cup {d}
    /\ deblocking' = deblocking \cup {d}
    /\ tileDone' = [tileDone EXCEPT ![d] = {}]
    /\ held' = [held EXCEPT ![d] = @ + 1]
    /\ UNCHANGED <<video, cdef, restoration, tiles, cdefCount, restCount, results, recodes, packetized,
                   ringVars, unit, endVars, packer, free, output, appVars, stream>>

FilterPicture(d) ==
    /\ d \in started /\ Filter(d)
    /\ UNCHANGED <<video, started, recodes, packetized, ringVars, unit, endVars, packer, free, output, appVars, stream>>

-----------------------------------------------------------------------------
(* A picture arrives.                                                       *)

Arrives(d) == packer = "waits" /\ results # <<>> /\ Head(results) = d

\* It is coded again, in a size not tried yet or in the best one: it goes back
\* to motion estimation, and the picture manager unmarks its tiles.
Recode(d) ==
    /\ Arrives(d) /\ recodes[d] < Loops(d)
    /\ recodes' = [recodes EXCEPT ![d] = @ + 1]
    /\ results' = Tail(results)
    /\ deblocking' = deblocking \cup {d}
    /\ tileDone' = [tileDone EXCEPT ![d] = {}]
    /\ UNCHANGED <<video, cdef, restoration, tiles, cdefCount, restCount, held, started, packetized,
                   ringVars, unit, endVars, packer, free, output, appVars, stream>>

SlotOf(n) == n % Size

\* The picture that a header following picture d shows.
ShownNext(d) == Pic(d).number + 1

InputMetadata(d) == IF Pic(d).number \in video.tagged THEN Pic(d).number ELSE None

\* A hidden picture leaves its metadata in the entry of its picture number.
MetadataKept(d) ==
    IF Pic(d).show THEN metadata ELSE [metadata EXCEPT ![SlotOf(Pic(d).number)] = InputMetadata(d)]

\* The picture is written to a buffer, once one is empty, and takes its entry of
\* the ring; the picture manager and the rate control get their feedback and
\* the control sets are released.
Write(d) ==
    /\ Arrives(d) /\ recodes[d] + 1 >= Loops(d)
    /\ free > 0 /\ free' = free - 1
    /\ results' = Tail(results)
    /\ ring' = [ring EXCEPT ![SlotOf(d)] =
                  [pic |-> d,
                   metadata |-> IF Pic(d).show THEN InputMetadata(d) ELSE None,
                   next |-> IF Pic(d).existing THEN MetadataKept(d)[SlotOf(ShownNext(d))] ELSE None]]
    /\ metadata' = IF Pic(d).existing THEN [MetadataKept(d) EXCEPT ![SlotOf(ShownNext(d))] = None] ELSE MetadataKept(d)
    /\ held' = IF Loops(d) > 0 THEN [held EXCEPT ![d] = @ - 1] ELSE held
    /\ packetized' = packetized \cup {d}
    /\ packer' = "written"
    /\ UNCHANGED <<video, deblocking, cdef, restoration, tiles, cdefCount, restCount, tileDone, started, recodes,
                   head, undisplayed, unit, endVars, output, appVars, stream>>

-----------------------------------------------------------------------------
(* The temporal units that are complete, under the mutex.                   *)

\* Faulty variant: packetization and resource coordination do not exclude
\* each other.
AlwaysFree == TRUE

LockIsFree == lock = Nobody

Enter ==
    /\ packer = "written" /\ LockIsFree
    /\ lock' = "packetization" /\ packer' = "looks" /\ eos' = FALSE
    /\ UNCHANGED <<video, filterVars, started, recodes, packetized, ringVars, unit, shown, terminating, coordinator,
                   free, output, appVars, stream>>

Entry(i) == ring[(head + i) % Size]

\* The entries before the first shown picture, and that one; none if one of
\* them is still missing.
UnitLengths ==
    {n \in 1..Size : /\ \A i \in 0..(n - 1) : Entry(i) # NoEntry
                     /\ \A i \in 0..(n - 1) : Pic(Entry(i).pic).show <=> i = n - 1}
FramesInNextUnit == IF UnitLengths = {} THEN 0 ELSE CHOOSE n \in UnitLengths : TRUE

Packet(pts, shows, meta) == [pts |-> pts, shows |-> shows, metadata |-> meta]

\* A packet is posted, to be taken by the application.
Post(packet) == output' = Append(output, packet) /\ stream' = Append(stream, packet)

\* The earliest is last.
SortedByPts(queue) ==
    LET Before(i) == {j \in DOMAIN queue : queue[j] > queue[i] \/ (queue[j] = queue[i] /\ j < i)}
    IN  [n \in DOMAIN queue |-> queue[CHOOSE i \in DOMAIN queue : Cardinality(Before(i)) = n - 1]]

\* The hidden pictures of a unit: the buffer of the unit takes in their data,
\* theirs are kept for the headers that will show them; an alternative
\* reference is never shown, its overlay is.
HiddenFrames(frames) == {Entry(i).pic : i \in 0..(frames - 2)}

\* Faulty variant: the buffer of an alternative reference is forgotten.
NothingDropped(frames) == {}

Dropped(frames) == {d \in HiddenFrames(frames) : Pic(d).alt}
Kept(frames)    == SetToSeq({d \in HiddenFrames(frames) : ~Pic(d).alt})

SendUnit ==
    /\ packer = "looks" /\ FramesInNextUnit > 0
    /\ LET frames == FramesInNextUnit
           last   == Entry(frames - 1)
       IN  /\ unit' = frames
           /\ Post(Packet(Pic(last.pic).number, Pic(last.pic).number, last.metadata))
           /\ undisplayed' = IF frames > 1
                             THEN SortedByPts(undisplayed \o [i \in DOMAIN Kept(frames) |-> Pic(Kept(frames)[i]).number])
                             ELSE undisplayed
           /\ free' = free + Cardinality(Dropped(frames))
           /\ packer' = IF Pic(last.pic).existing THEN "shows" ELSE "counts"
    /\ UNCHANGED <<video, filterVars, started, recodes, packetized, ring, head, metadata, endVars, appVars>>

\* The header that shows a hidden picture goes out in the earliest of the
\* buffers that were kept, whose pts it inherits.
ShowExisting ==
    /\ packer = "shows" /\ packer' = "counts"
    /\ IF undisplayed = <<>> THEN UNCHANGED <<undisplayed, output, stream>>
       ELSE LET last == Entry(unit - 1)
            IN  /\ Post(Packet(Last(undisplayed), Pic(last.pic).number + 1, last.next))
                /\ undisplayed' = Front(undisplayed)
    /\ UNCHANGED <<video, filterVars, started, recodes, packetized, ring, head, metadata, unit, endVars, free, appVars>>

\* Faulty variant: only pictures that are shown directly count.
NewlyShownOnce(d) == 1

NewlyShown(d) == IF Pic(d).existing THEN 2 ELSE 1

CountShown ==
    /\ packer = "counts" /\ packer' = "looks"
    /\ shown' = shown + NewlyShown(Entry(unit - 1).pic)
    /\ eos' = (shown' = terminating + 1)
    /\ ring' = [i \in Slot |-> IF \E j \in 0..(unit - 1) : i = (head + j) % Size THEN NoEntry ELSE ring[i]]
    /\ head' = (head + unit) % Size
    /\ unit' = 0
    /\ UNCHANGED <<video, filterVars, started, recodes, packetized, metadata, undisplayed, terminating, lock,
                   coordinator, free, output, appVars, stream>>

Stream == INSTANCE OutputStream WITH
            frames <- [n \in 1..(1 + video.last) |->
                         Packet(n - 1, n - 1, IF n - 1 \in video.tagged THEN n - 1 ELSE None)]

\* No unit is complete: if that was the last one the end of the stream is posted,
\* in a buffer packetization waits for without letting go of the mutex.
Leave ==
    /\ packer = "looks" /\ FramesInNextUnit = 0
    /\ IF eos THEN free > 0 /\ free' = free - 1 /\ Post(Stream!EndOfStream)
              ELSE UNCHANGED <<free, output, stream>>
    /\ packer' = "waits" /\ lock' = Nobody
    /\ UNCHANGED <<video, filterVars, started, recodes, packetized, ringVars, unit, shown, terminating, eos, coordinator, appVars>>

-----------------------------------------------------------------------------
(* Resource coordination is told that no more pictures come.                *)

TerminateSequence ==
    /\ coordinator = "runs" /\ LockIsFree
    /\ lock' = "coordination" /\ coordinator' = "terminates"
    /\ terminating' = video.last
    /\ UNCHANGED <<video, filterVars, started, recodes, packetized, ringVars, unit, shown, eos, packer, free, output,
                   appVars, stream>>

SignalEnd ==
    /\ coordinator = "terminates" /\ coordinator' = "done"
    /\ lock' = Nobody
    /\ IF shown = terminating + 1 THEN free > 0 /\ free' = free - 1 /\ Post(Stream!EndOfStream)
                                  ELSE UNCHANGED <<free, output, stream>>
    /\ UNCHANGED <<video, filterVars, started, recodes, packetized, ringVars, unit, shown, terminating, eos, packer, appVars>>

-----------------------------------------------------------------------------
(* The application takes packets one at a time, writes each and gives its   *)
(* buffer back.                                                             *)

GetPacket ==
    /\ ~finished /\ taken = <<>> /\ output # <<>>
    /\ taken' = Append(taken, Head(output)) /\ output' = Tail(output)
    /\ finished' = (Head(output) = Stream!EndOfStream)
    /\ UNCHANGED <<video, filterVars, started, recodes, packetized, ringVars, unit, endVars, packer, free, stream>>

ReleaseOutBuffer ==
    /\ taken # <<>> /\ taken' = Tail(taken) /\ free' = free + 1
    /\ UNCHANGED <<video, filterVars, started, recodes, packetized, ringVars, unit, endVars, packer, output, finished, stream>>

-----------------------------------------------------------------------------
Packetize   == \/ \E d \in Pictures : Recode(d) \/ Write(d)
               \/ Enter \/ SendUnit \/ ShowExisting \/ CountShown \/ Leave
Coordinate  == TerminateSequence \/ SignalEnd
Application == GetPacket \/ ReleaseOutBuffer

Next == \/ \E d \in Pictures : Start(d) \/ FilterPicture(d)
        \/ Packetize \/ Coordinate \/ Application

\* No thread is starved, and the application ends its stream and takes packets.
Fairness ==
    /\ \A i \in UNION {DOMAIN v.pictures : v \in Videos} :
          WF_vars(i - 1 \in Pictures /\ (Start(i - 1) \/ FilterPicture(i - 1)))
    /\ WF_vars(Packetize) /\ WF_vars(Coordinate) /\ WF_vars(GetPacket) /\ WF_vars(ReleaseOutBuffer)

Spec == Init /\ [][Next]_vars /\ Fairness

-----------------------------------------------------------------------------
(* Correctness.                                                             *)

\* Every variable stays in its range.
TypeOK ==
    /\ FiltersTypeOK
    /\ packetized \subseteq started /\ started \subseteq Pictures
    /\ \A d \in Pictures : recodes[d] \in 0..Loops(d)
    /\ \A i \in Slot : ring[i] # NoEntry => SlotOf(ring[i].pic) = i
    /\ head \in Slot /\ unit \in 0..Size /\ free \in 0..Buffers
    /\ lock \in {Nobody, "packetization", "coordination"}
    /\ packer \in {"waits", "written", "looks", "shows", "counts"}
    /\ coordinator \in {"runs", "terminates", "done"}
    /\ terminating \in {NoEnd, video.last}

\* Whichever workers finish its segments and tiles, and however often it is
\* coded, a picture is in one stage at a time and in packetization's queue at
\* most once; and it holds its references, once, until its last pass is over.
OneStageAtATime ==
    \A d \in Pictures :
        /\ Cardinality(StagesOf(d)) <= 1
        /\ Cardinality({i \in DOMAIN results : results[i] = d}) <= 1
        /\ held[d] = IF d \in started \ packetized /\ (Loops(d) > 0 \/ StagesOf(d) # {"results"}) THEN 1 ELSE 0

\* The application receives what OutputStream promises: every picture in display
\* order, shown by the packet that carries its time and with its own metadata,
\* then one end of the stream, whoever signals it.
ImplementsOutputStream == Stream!Spec

\* A picture goes into the stream only after all that come before it in decode
\* order: none lies in the ring in the place of one that is still being coded, or
\* of one that waits for its unit.
BitstreamInDecodeOrder ==
    \A i \in 0..(unit - 1) : 0..(Entry(i).pic - 1) \subseteq packetized

\* In the end the application has seen the end of the stream and every buffer is
\* empty again: none is lost while it waits for its unit, is kept for the header
\* that will show its picture, or goes to the application and back.
StreamEnds == <>[](finished /\ free = Buffers)
=============================================================================
