--------------------------- MODULE PictureManager ---------------------------
(***************************************************************************)
(* The picture manager: one thread that decides when a picture may enter   *)
(* the closed loop.  It owns the list of pictures waiting to be started,   *)
(* shares the list of reference pictures with the end of the pipeline, and *)
(* is woken by the pictures themselves: INPUT when the open loop is done   *)
(* with one, REFERENCE when one is reconstructed, FEEDBACK when one is     *)
(* packetized, SUPERRES when one is to be coded again.                     *)
(*                                                                         *)
(* A picture is named by its decode order, the order in which the open     *)
(* loop delivers pictures.  What the picture decision chose for it (the    *)
(* pictures it predicts from and the slots of the decoded picture buffer   *)
(* it overwrites) is a row of the constant structure the run starts from.  *)
(***************************************************************************)
EXTENDS Integers, Sequences, FiniteSets, Functions

CONSTANT
    Videos           \* what is encoded: each has a configuration and a structure

Unlisted == -1

SlotsOf(g) == UNION {g[p].refresh : p \in DOMAIN g}

\* The decoded picture buffer after each picture of a structure: the pictures
\* that some slot still holds, as none after them overwrote it.
DpbAfter(g) ==
    [p \in DOMAIN g |-> {q \in 0..p : \E s \in g[q].refresh : \A k \in (q + 1)..p : s \notin g[k].refresh}]

\* A prediction structure gives for each picture the pictures it predicts from,
\* which the buffer holds when it is decoded, the slots it refreshes, and how
\* often it is coded to find its best super-resolution.
IsStructure(g) ==
    /\ IsFiniteSet(DOMAIN g) /\ DOMAIN g # {}
    /\ DOMAIN g = 0..(Cardinality(DOMAIN g) - 1) /\ g[0].needs = {}
    /\ \A p \in DOMAIN g : g[p].recodes \in Nat /\ (p > 0 => g[p].needs \subseteq DpbAfter(g)[p - 1])

\* The settings of a sequence that matter here.
IsConfiguration(c) ==
    /\ {c.refFrames, c.refBuffers, c.listLength, c.parents, c.children} \subseteq Nat \ {0}
    /\ {c.decOrder, c.pmDecOrder} \subseteq BOOLEAN
    \* min_ref: the pictures the buffer holds and those that are started ahead.
    /\ c.decOrder \/ c.refBuffers > c.refFrames
    \* The heap has a place for every picture that can be started ahead, but the
    \* next.  So the pools are sized, unless the reconstruction is asked for
    \* without TPL (enc_handle.c:448): then there are 30 reference buffers at least.
    /\ c.decOrder \/ c.refBuffers - c.refFrames <= c.parents + 1

ASSUME VideosAssumption ==
    \A v \in Videos :
        IsConfiguration(v.scs) /\ IsStructure(v.gop) /\ SlotsOf(v.gop) \subseteq 1..v.scs.refFrames

VARIABLES
    scs,             \* the configuration of this video
    gop,             \* its structure
    released,        \* released_pics of each picture
    sent,            \* pictures the picture decision has sent, in decode order
    credits,         \* ref_buffer_available_semaphore
    inbox,           \* picture demux results, waiting for the picture manager
    inputs,          \* pic_mgr_input_pic_list
    refs,            \* ref_pic_list
    consecutive,     \* consecutive_dec_order
    heap,            \* started_pics_dec_order, a min-heap
    pmgrDecOrder,    \* pmgr_dec_order: the picture started last
    decodeOrder,     \* the context's decode_order: the next picture to be fed back
    cursor,          \* position in the input list; 0 when no handler is running
    eos,             \* the references were released at the end of the sequence
    stage,           \* where each picture is
    recodes,         \* passes each picture has been through
    live             \* live_count of the reference wrapper of each picture

pictureState == <<stage, recodes, live>>
startState   == <<consecutive, heap, pmgrDecOrder, inputs>>
video == <<scs, gop, released>>
vars == <<video, sent, credits, inbox, inputs, refs, consecutive, heap, pmgrDecOrder,
          decodeOrder, cursor, eos, stage, recodes, live>>

\* The settings: slots of the decoded picture buffer (REF_FRAMES), wrappers of
\* the reference picture pool, ref_pic_list_length, parent and child picture
\* control sets; enable_dec_order: one picture at a time, after its feedback;
\* enable_pic_mgr_dec_order: pictures start in decode order.
RefFrames  == scs.refFrames
RefBuffers == scs.refBuffers
ListLength == scs.listLength
Parents    == scs.parents
Children   == scs.children
DecOrder   == scs.decOrder
PmDecOrder == scs.pmDecOrder

Pictures == DOMAIN gop
Needs(p) == gop[p].needs
IsRef(p) == gop[p].refresh # {}
Recodes(p) == gop[p].recodes      \* superres_total_recode_loop

\* released_pics: the pictures whose last slot a picture overwrites.
ReleasedPics(g) ==
    [p \in DOMAIN g |-> IF p = 0 THEN {} ELSE DpbAfter(g)[p - 1] \ DpbAfter(g)[p]]

Stages   == {"unsent", "waiting", "coding", "filtered", "coded", "coded again", "done"}
Underway == {"coding", "filtered", "coded", "coded again"}
Never  == Cardinality(Pictures)             \* UINT64_MAX: later than every picture
NoRef  == [pic |-> Unlisted, available |-> FALSE, updated |-> FALSE, lastRef |-> Unlisted]
NewRef(p) == [pic |-> p, available |-> FALSE, updated |-> FALSE, lastRef |-> Never]

Init ==
    /\ \E v \in Videos : scs = v.scs /\ gop = v.gop
    /\ released = ReleasedPics(gop)
    /\ sent = 0 /\ credits = ListLength /\ inbox = <<>>
    /\ inputs = [i \in 1..Parents |-> Unlisted]
    /\ refs = [i \in 1..ListLength |-> NoRef]
    /\ consecutive = 0 /\ heap = {} /\ pmgrDecOrder = 0 /\ decodeOrder = 0
    /\ cursor = 0 /\ eos = FALSE
    /\ stage = [p \in Pictures |-> "unsent"]
    /\ recodes = [p \in Pictures |-> 0]
    /\ live = [p \in Pictures |-> 0]

Least(S) == CHOOSE x \in S : \A y \in S : x <= y

-----------------------------------------------------------------------------
(* The picture decision sends the next picture.  It holds a parent control  *)
(* set, and one that others may predict from also waits for the semaphore.  *)

\* Faulty variant: the picture decision does not wait for the semaphore.
HasCreditUnchecked(p) == TRUE

HasCredit(p) == IsRef(p) => credits > 0

SendPictureOut ==
    /\ sent \in Pictures
    /\ Cardinality({p \in Pictures : stage[p] \in Underway \cup {"waiting"}}) < Parents
    /\ HasCredit(sent)
    /\ credits' = IF IsRef(sent) THEN credits - 1 ELSE credits
    /\ stage' = [stage EXCEPT ![sent] = "waiting"]
    /\ inbox' = Append(inbox, [type |-> "INPUT", pic |-> sent])
    /\ sent' = sent + 1
    /\ UNCHANGED <<video, startState, refs, decodeOrder, cursor, eos, recodes, live>>

-----------------------------------------------------------------------------
(* The handlers.  Each one records what the message says and then scans the *)
(* input list for pictures that can be started.                             *)

Receives(type) == cursor = 0 /\ inbox # <<>> /\ Head(inbox).type = type

\* The first entry for a picture, 0 if it has none.
EntryOf(p) ==
    LET found == {i \in DOMAIN refs : refs[i].pic = p}
    IN  IF found = {} THEN 0 ELSE Least(found)

\* A full list is reported and its last entry reused.
FreeEntry ==
    LET free == {i \in DOMAIN refs : refs[i] = NoRef}
    IN  IF free = {} THEN ListLength ELSE Least(free)

FreeInputs == {i \in DOMAIN inputs : inputs[i] = Unlisted}

ReceiveInput ==
    /\ Receives("INPUT")
    /\ LET p == Head(inbox).pic
       IN  /\ inputs' = IF FreeInputs = {} THEN inputs ELSE [inputs EXCEPT ![Least(FreeInputs)] = p]
           /\ refs' = IF IsRef(p) THEN [refs EXCEPT ![FreeEntry] = NewRef(p)] ELSE refs
    /\ inbox' = Tail(inbox) /\ cursor' = 1
    /\ UNCHANGED <<video, sent, credits, consecutive, heap, pmgrDecOrder, decodeOrder, eos, pictureState>>

ReceiveReference ==
    /\ Receives("REFERENCE")
    /\ LET i == EntryOf(Head(inbox).pic)
       IN  refs' = IF i = 0 THEN refs ELSE [refs EXCEPT ![i].available = TRUE]
    /\ inbox' = Tail(inbox) /\ cursor' = 1
    /\ UNCHANGED <<video, sent, credits, startState, decodeOrder, eos, pictureState>>

ReceiveFeedback ==
    /\ Receives("FEEDBACK")
    /\ LET p == Head(inbox).pic
           i == EntryOf(p)
       IN  /\ refs' = IF i = 0 THEN refs ELSE [refs EXCEPT ![i].updated = TRUE]
           /\ decodeOrder' = IF p = decodeOrder THEN decodeOrder + 1 ELSE decodeOrder
    /\ inbox' = Tail(inbox) /\ cursor' = 1
    /\ UNCHANGED <<video, sent, credits, startState, eos, pictureState>>

\* A picture to be coded again goes straight back: nothing else is looked at.
ReceiveSuperres ==
    /\ Receives("SUPERRES")
    /\ stage' = [stage EXCEPT ![Head(inbox).pic] = "coding"]
    /\ inbox' = Tail(inbox)
    /\ UNCHANGED <<video, sent, credits, startState, refs, decodeOrder, cursor, eos, recodes, live>>

-----------------------------------------------------------------------------
(* The scan of the input list.  A step starts one picture; getting a        *)
(* reference wrapper or a child picture control set may block the thread.   *)

\* Faulty variant: pictures start however far ahead they are.
WithinReachAlways(p) == TRUE

WithinReach(p) == ~DecOrder => p <= consecutive + RefBuffers - RefFrames

\* frame_end_cdf_update_mode is on for every frame, so a reference must have
\* been packetized too; feedback_arrived is set and cleared with it.
Usable(i) == i # 0 /\ refs[i].available /\ refs[i].updated

Startable(p) ==
    /\ DecOrder => p = decodeOrder
    /\ PmDecOrder => p = 0 \/ p = pmgrDecOrder + 1
    /\ WithinReach(p)
    /\ \A r \in Needs(p) : Usable(EntryOf(r))

Candidates == {i \in DOMAIN inputs : i >= cursor /\ inputs[i] # Unlisted /\ Startable(inputs[i])}

BuffersInUse == Cardinality({p \in Pictures : live[p] > 0})
HasBuffer(p) == IsRef(p) => BuffersInUse < RefBuffers
HasChild     == Cardinality({p \in Pictures : stage[p] \in Underway}) < Children

\* The last of the orders that follow n without a gap among those in S.
LastConsecutive(n, S) ==
    CHOOSE m \in {n} \cup S : (n + 1)..m \subseteq S /\ m + 1 \notin S

PushHeap(p) == IF Cardinality(heap) = Parents THEN heap ELSE heap \cup {p}

\* Faulty variant: the scan goes on with the next entry.
RestartsNever(p) == FALSE

\* Whether the picture just started makes the scan begin again.
Restarts(p) == p = consecutive + 1

\* Faulty variant: references are never let go.
HoldForever(p, d) == [r \in Pictures |-> IF r \in Needs(p) /\ d > 0 THEN live[r] + d ELSE live[r]]

\* Adds d to the live count of every reference of p.
Hold(p, d) == [r \in Pictures |-> IF r \in Needs(p) THEN live[r] + d ELSE live[r]]

StartPicture ==
    /\ cursor # 0 /\ Candidates # {}
    /\ LET i == Least(Candidates)
           p == inputs[i]
       IN  /\ HasBuffer(p) /\ HasChild
           /\ live' = [Hold(p, 1) EXCEPT ![p] = IF IsRef(p) THEN 1 ELSE 0]
           /\ pmgrDecOrder' = p
           /\ consecutive' = IF p = consecutive + 1 THEN LastConsecutive(p, heap) ELSE consecutive
           /\ heap' = IF p = consecutive + 1 THEN {q \in heap : q > consecutive'}
                      ELSE IF p > consecutive THEN PushHeap(p) ELSE heap
           /\ inputs' = [inputs EXCEPT ![i] = Unlisted]
           /\ refs' = [j \in DOMAIN refs |->
                         IF refs[j].pic \in released[p] THEN [refs[j] EXCEPT !.lastRef = p] ELSE refs[j]]
           /\ cursor' = IF Restarts(p) THEN 1 ELSE i + 1
           /\ stage' = [stage EXCEPT ![p] = "coding"]
    /\ UNCHANGED <<video, sent, credits, inbox, decodeOrder, eos, recodes>>

\* Faulty variant: an overwritten reference is dropped at once.
PastLastRefMarked(e) == e.lastRef # Never

\* No picture that is still to be started may refer to this one.
PastLastRef(e) == e.lastRef <= consecutive

Releasable(e) == e # NoRef /\ PastLastRef(e) /\ e.available /\ e.updated

\* Drops the entries of a set from the list: the nominal count of each wrapper
\* is released and the semaphore is posted once for each.
DropEntries(S) ==
    /\ refs' = [i \in DOMAIN refs |-> IF i \in S THEN NoRef ELSE refs[i]]
    /\ credits' = credits + Cardinality(S)

DropCount(count, S) == [p \in Pictures |-> count[p] - Cardinality({i \in S : refs[i].pic = p})]

EndScan ==
    /\ cursor # 0 /\ Candidates = {}
    /\ LET over == {i \in DOMAIN refs : Releasable(refs[i])}
       IN  DropEntries(over) /\ live' = DropCount(live, over)
    /\ cursor' = 0
    /\ UNCHANGED <<video, sent, inbox, startState, decodeOrder, eos, stage, recodes>>

-----------------------------------------------------------------------------
(* The pictures in the closed loop.                                         *)

\* Restoration is done with a picture; one that may be coded again is not yet
\* offered as a reference.
Filter(p) ==
    /\ stage[p] = "coding"
    /\ stage' = [stage EXCEPT ![p] = "filtered"]
    /\ inbox' = IF IsRef(p) /\ Recodes(p) = 0 THEN Append(inbox, [type |-> "REFERENCE", pic |-> p]) ELSE inbox
    /\ UNCHANGED <<video, sent, credits, startState, refs, decodeOrder, cursor, eos, recodes, live>>

\* Entropy coding lets go of the references, unless the picture may be coded again.
CodeEntropy(p) ==
    /\ stage[p] = "filtered"
    /\ stage' = [stage EXCEPT ![p] = "coded"]
    /\ live' = IF Recodes(p) = 0 THEN Hold(p, -1) ELSE live
    /\ UNCHANGED <<video, sent, credits, inbox, startState, refs, decodeOrder, cursor, eos, recodes>>

\* After the last trial the best one may have to be coded once more.
Recode(p) ==
    /\ stage[p] = "coded" /\ recodes[p] < Recodes(p)
    /\ recodes' = [recodes EXCEPT ![p] = @ + 1]
    /\ stage' = [stage EXCEPT ![p] = "coded again"]
    /\ inbox' = Append(inbox, [type |-> "SUPERRES", pic |-> p])
    /\ UNCHANGED <<video, sent, credits, startState, refs, decodeOrder, cursor, eos, live>>

\* What packetization tells the picture manager.
Results(p) ==
    (IF IsRef(p) /\ Recodes(p) > 0 THEN <<[type |-> "REFERENCE", pic |-> p]>> ELSE <<>>)
    \o (IF IsRef(p) \/ DecOrder THEN <<[type |-> "FEEDBACK", pic |-> p]>> ELSE <<>>)

Packetize(p) ==
    /\ stage[p] = "coded" /\ recodes[p] + 1 >= Recodes(p)
    /\ stage' = [stage EXCEPT ![p] = "done"]
    /\ inbox' = inbox \o Results(p)
    /\ live' = IF Recodes(p) > 0 THEN Hold(p, -1) ELSE live
    /\ UNCHANGED <<video, sent, credits, startState, refs, decodeOrder, cursor, eos, recodes>>

\* Packetization has written the last picture.
ReleaseReferencesEos ==
    /\ ~eos /\ \A p \in Pictures : stage[p] = "done"
    /\ eos' = TRUE
    /\ LET all == {i \in DOMAIN refs : refs[i].available}
       IN  DropEntries(all) /\ live' = DropCount(live, all)
    /\ UNCHANGED <<video, sent, inbox, startState, decodeOrder, cursor, stage, recodes>>

-----------------------------------------------------------------------------
Receive == ReceiveInput \/ ReceiveReference \/ ReceiveFeedback \/ ReceiveSuperres
Scan    == StartPicture \/ EndScan
Coding(p) == Filter(p) \/ CodeEntropy(p) \/ Recode(p) \/ Packetize(p)

Next ==
    \/ SendPictureOut \/ Receive \/ Scan \/ ReleaseReferencesEos
    \/ \E p \in Pictures : Coding(p)

Spec == Init /\ [][Next]_vars

\* Every thread of the pipeline runs on its own: none is starved.
Fairness ==
    /\ WF_vars(SendPictureOut) /\ WF_vars(Receive) /\ WF_vars(Scan) /\ WF_vars(ReleaseReferencesEos)
    /\ \A p \in UNION {DOMAIN v.gop : v \in Videos} : WF_vars(p \in Pictures /\ Coding(p))

FairSpec == Spec /\ Fairness

-----------------------------------------------------------------------------
(* Correctness.                                                             *)

Started(p) == stage[p] \in Underway \cup {"done"}

Messages == [type : {"INPUT", "REFERENCE", "FEEDBACK", "SUPERRES"}, pic : Pictures]
Entries  == [pic : Pictures \cup {Unlisted}, available : BOOLEAN, updated : BOOLEAN,
             lastRef : Pictures \cup {Never, Unlisted}]

\* Every variable stays in its range.
TypeOK ==
    /\ \E v \in Videos : scs = v.scs /\ gop = v.gop
    /\ sent \in 0..Never /\ credits \in 0..ListLength
    /\ inbox \in Seq(Messages)
    /\ inputs \in [1..Parents -> Pictures \cup {Unlisted}]
    /\ refs \in [1..ListLength -> Entries]
    /\ consecutive \in Pictures /\ heap \subseteq Pictures
    /\ pmgrDecOrder \in Pictures /\ decodeOrder \in 0..Never
    /\ cursor \in 0..(Parents + 1) /\ eos \in BOOLEAN
    /\ stage \in [Pictures -> Stages] /\ recodes \in [Pictures -> Nat] /\ live \in [Pictures -> Nat]

\* When the picture manager goes back to sleep it leaves no picture behind that
\* could be started: no message would come for it (the hang that restart_list
\* is there to prevent).
NothingStartableIsLeft ==
    cursor = 0 => \A i \in DOMAIN inputs : inputs[i] # Unlisted => ~Startable(inputs[i])

\* consecutive_dec_order is exact: everything up to it was started, the heap
\* holds what was started beyond it, and the heap lost nothing for being full.
ConsecutiveIsExact ==
    /\ \A p \in Pictures : Started(p) /\ p > 0 <=> p \in 1..consecutive \cup heap
    /\ consecutive + 1 \notin heap /\ \A p \in heap : p > consecutive

\* A picture that was sent but not started still finds all of its references
\* in the list: none was dropped because a later picture overwrote its slot.
\* And once it is started no reference is recycled while it predicts from it,
\* through all the passes it is coded in.
ReferencesAreKept ==
    \A p \in Pictures : \A r \in Needs(p) :
        /\ stage[p] = "waiting" => stage[r] = "waiting" \/ (EntryOf(r) # 0 /\ live[r] > 0)
        /\ stage[p] \in {"coding", "filtered", "coded again"} => live[r] > 0

\* A picture that was sent always finds a place in the input list, which no
\* line of the code counts, and a reference picture a free entry, which the
\* semaphore counts.
ListHasRoom ==
    Receives("INPUT") =>
        /\ FreeInputs # {}
        /\ IsRef(Head(inbox).pic) => \E i \in DOMAIN refs : refs[i] = NoRef

\* Every picture of the video is coded: the picture manager never waits for a
\* reference wrapper that only itself could release, and no message is missing.
EveryPictureIsCoded == <>[](\A p \in Pictures : stage[p] = "done")
=============================================================================
