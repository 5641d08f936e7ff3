---------------------------- MODULE PictureDecision ----------------------------
(***************************************************************************)
(* The picture decision: one thread that takes the pictures in display     *)
(* order, collects them in the pre-assignment buffer until a mini-GOP can  *)
(* be built, splits the buffer into mini-GOPs, and gives each picture its  *)
(* place in a prediction structure: temporal layer, decode order, the      *)
(* pictures it predicts from, the slots of the decoded picture buffer it   *)
(* overwrites and the frame that is shown once it is decoded.  It then     *)
(* sends the pictures on in decode order, an intra picture held back until *)
(* the mini-GOP after it is known.                                         *)
(*                                                                         *)
(* The thread is sequential, so an action is a pass of its loops over one  *)
(* picture or one mini-GOP, in the order the code makes them (phase).  What *)
(* varies is the configuration, where the application forces key frames,   *)
(* where the sequence ends and how the dynamic mini-GOP choice falls out.  *)
(***************************************************************************)
EXTENDS LowDelayStructure, FiniteSets, TLC, SequencesExt

VARIABLES
    cfg,             \* the settings of the sequence
    forcedLeft,      \* key frames the application may still ask for
    phase,           \* which loop of the kernel runs
    poc,             \* current_input_poc: the picture placed last
    intraPosition,   \* intra_period_position
    window,          \* pre_assignment_buffer
    startup,         \* enable_startup_mg: the next mini-GOP has the start-up size
    prevLevels,      \* previous_mini_gop_hierarchical_levels
    position,        \* pred_struct_position
    afterIntra,      \* elapsed_non_cra_count = 0
    altNumber,       \* picture_number_alt: next number, overlays counted
    baseNumber,      \* decode_base_number
    miniGops,        \* the mini-GOPs of the buffer that are not built yet
    group,           \* mg_pictures_array: the mini-GOP being built
    at,              \* index of the picture a loop over the mini-GOP has reached
    lay0, lay1,      \* lay0_toggle and lay1_toggle
    lastLongBase,    \* last_long_base_pic
    dpb,             \* ctx->dpb: what each slot holds as the decisions are made
    pdDpb,           \* enc_ctx->pd_dpb: what it holds as references are released
    delayed,         \* prev_delayed_intra
    mgId,            \* mg_progress_id
    sent             \* what has been sent on, in order

place    == <<poc, intraPosition, window, forcedLeft>>
numbers  == <<altNumber, baseNumber, position, afterIntra, prevLevels>>
toggles  == <<lay0, lay1, lastLongBase, dpb>>
sending  == <<delayed, mgId, sent>>
vars == <<cfg, phase, place, startup, numbers, miniGops, group, at, toggles, pdDpb, sending>>

None == -1
Nobody == [num |-> None, dec |-> None, layer |-> 0]

RandomAccess == cfg.structure = "random access"
LowDelay     == ~RandomAccess

IsConfiguration(c) ==
    /\ c.structure \in {"random access", "crf", "cbr", "flat"}
    /\ c.hl \in 0..5 /\ c.scheme \in {0, 1} /\ c.reduce \in 0..2 /\ c.flatMaxRefs \in 1..4
    /\ {c.more5L, c.forwardKeys, c.overlays, c.dynamic} \subseteq BOOLEAN
    /\ {c.base0, c.base1, c.nonBase0, c.nonBase1, c.forced} \subseteq Nat
    /\ c.reduce > 0 => \A n \in {c.base0, c.base1, c.nonBase0, c.nonBase1} : n <= 3 - c.reduce
    /\ c.pictures \in Nat \ {0} /\ c.longBase \in Nat \ {0}
    /\ c.period = None \/ c.period \in Nat \ {0}
    /\ c.startup \in {0, 2, 3, 4} /\ c.startup <= c.hl
    /\ c.forwardKeys => c.hl = 4
    /\ c.overlays \/ c.dynamic => c.structure = "random access"
    /\ c.structure = "cbr" => c.hl \in 1..2
    /\ c.structure = "flat" => c.hl = 0

ASSUME ConfigsAssumption == \A c \in Configs : IsConfiguration(c)

Init ==
    /\ cfg \in Configs /\ forcedLeft = cfg.forced
    /\ phase = "place" /\ poc = None /\ intraPosition = 0 /\ window = <<>>
    /\ startup = FALSE /\ prevLevels = 0 /\ position = 0 /\ afterIntra = FALSE
    /\ altNumber = 0 /\ baseNumber = 0 /\ miniGops = <<>> /\ group = <<>> /\ at = 1
    /\ lay0 = 0 /\ lay1 = 0 /\ lastLongBase = 0
    /\ dpb = [i \in Slot |-> Nobody] /\ pdDpb = [i \in Slot |-> Nobody]
    /\ delayed = <<>> /\ mgId = 0 /\ sent = <<>>

-----------------------------------------------------------------------------
\* Placing the next picture in the pre-assignment buffer.

NextLevels == IF startup THEN cfg.startup ELSE cfg.hl

IsKey(p) == p.idr \/ p.cra
WindowIntra(w) == \E i \in DOMAIN w : IsKey(w[i])

\* Faulty variant: a complete mini-GOP is not released.
ReleasableAtIntra(w) == WindowIntra(w) \/ w[Len(w)].eos \/ LowDelay

\* A mini-GOP can be built: at an intra picture, when it is complete, at the end.
Releasable(w) == \/ WindowIntra(w)
                 \/ Len(w) = 2^NextLevels
                 \/ w[Len(w)].eos
                 \/ LowDelay

PeriodEnds == intraPosition = cfg.period

PlacePicture(forced) ==
    LET p == [num |-> poc + 1,
              idr |-> poc = None \/ (~cfg.forwardKeys /\ (forced \/ PeriodEnds)),
              cra |-> poc # None /\ cfg.forwardKeys /\ PeriodEnds,
              eos |-> poc + 1 = cfg.pictures - 1]
    IN  /\ phase = "place" /\ poc + 1 < cfg.pictures
        /\ forced => forcedLeft > 0 /\ poc # None
        /\ forcedLeft' = forcedLeft - (IF forced THEN 1 ELSE 0)
        /\ poc' = poc + 1
        /\ window' = Append(window, p)
        /\ intraPosition' = IF PeriodEnds \/ forced THEN 0 ELSE intraPosition + 1
        /\ phase' = IF Releasable(window') THEN "split" ELSE "place"
        /\ UNCHANGED <<cfg, startup, numbers, miniGops, group, at, toggles, pdDpb, sending>>

\* The largest mini-GOP that fits in what is left of the buffer; one that would
\* end with the key frame is broken up, down to a pair.
PieceLevel(left, idr) ==
    LET fits == {k \in 1..5 : 2^k <= left /\ ~(2^k = left /\ idr /\ k > 1)}
    IN  IF fits = {} THEN 1 ELSE CHOOSE k \in fits : \A j \in fits : j <= k

Pieces(count, idr) ==
    LET split[left \in 0..count] ==
            IF left = 0 THEN <<>>
            ELSE LET hl  == PieceLevel(left, idr)
                     len == IF 2^hl < left THEN 2^hl ELSE left
                 IN  <<[start |-> count - left, len |-> len, hl |-> hl, idr |-> idr /\ len = left]>>
                     \o split[left - len]
    IN  split[count]

\* The dynamic choice may code 32 pictures as two mini-GOPs of 16.
Halved == <<[start |-> 0, len |-> 16, hl |-> 4, idr |-> FALSE],
                    [start |-> 16, len |-> 16, hl |-> 4, idr |-> FALSE]>>

\* A picture alone in the buffer keeps the levels of the configuration when it
\* is intra, and those of a pair at most when it is not.
WindowSplits ==
    LET last   == window[Len(window)]
        count  == Len(window)
        whole  == <<[start |-> 0, len |-> count, hl |-> NextLevels, idr |-> last.idr]>>
        pieces == Pieces(count, last.idr)
        capped == [pieces EXCEPT ![1].hl = IF count = 1 /\ NextLevels = 0 THEN 0 ELSE @]
    IN  IF count > 1 \/ (~IsKey(last) /\ RandomAccess)
        THEN {capped} \cup (IF cfg.dynamic /\ pieces[1].hl = 5 THEN {Halved} ELSE {})
        ELSE {whole}

SplitWindow ==
    /\ phase = "split"
    /\ miniGops' \in WindowSplits
    /\ prevLevels' = IF window[Len(window)].num = 0 THEN NextLevels ELSE prevLevels
    /\ startup' = (cfg.startup # 0 /\ IsKey(window[Len(window)]))
    /\ phase' = "build"
    /\ UNCHANGED <<cfg, place, altNumber, baseNumber, position, afterIntra, group, at,
                   toggles, pdDpb, sending>>

-----------------------------------------------------------------------------
\* Building a mini-GOP: the place of each picture in its structure.

LevelsOf(g, p) == IF p.idr THEN cfg.hl ELSE g.hl

\* A mini-GOP that is not complete, or ends with a key frame, is coded in
\* display order with past references.
CutsShort(g, p) ==
    /\ RandomAccess /\ ~IsKey(p)
    /\ g.len < EntryCount(LevelsOf(g, p)) \/ g.idr

\* The position of a picture in its structure after that of the picture before.
NextPosition(g, p, before, justAfterIntra) ==
    IF p.idr \/ (p.cra /\ g.len < EntryCount(LevelsOf(g, p))) THEN 0
    ELSE LET next == IF justAfterIntra THEN 1 ELSE before + 1
         IN  IF next = EntryCount(LevelsOf(g, p)) THEN 0 ELSE next

\* The positions start anew when the number of levels changes.
EntryPosition(g, first) == IF prevLevels # LevelsOf(g, first) THEN 0 ELSE position

Positions(g, pics) ==
    LET pos[i \in 0..Len(pics)] ==
            IF i = 0 THEN EntryPosition(g, pics[1])
            ELSE NextPosition(g, pics[i], pos[i - 1],
                              IF i = 1 THEN afterIntra ELSE IsKey(pics[i - 1]))
    IN  pos

IdxInMg(i, pos, hl) ==
    IF RandomAccess THEN i - 1 ELSE IF pos = 0 THEN 0 ELSE (pos - 1) % EntryCount(hl)

\* Faulty variant: the mini-GOP that ends with a key frame is a pyramid too.
DecodeNumberAtKey(g, hl, pos, i) ==
    IF g.len = EntryCount(hl) /\ RandomAccess
    THEN baseNumber + DecodeOrder(hl)[pos + 1] ELSE altNumber + i - 1

DecodeNumber(g, hl, pos, i) ==
    IF ~g.idr /\ g.len = EntryCount(hl) /\ RandomAccess
    THEN baseNumber + DecodeOrder(hl)[pos + 1] ELSE altNumber + i - 1

Picture(g, pics, i) ==
    LET p   == pics[i]
        hl  == LevelsOf(g, p)
        pos == Positions(g, pics)[i]
    IN  [num |-> p.num, idr |-> p.idr, cra |-> p.cra, eos |-> p.eos, hl |-> hl,
         inOrder |-> LowDelay \/ CutsShort(g, p), position |-> pos, layer |-> Layer(hl, pos),
         idx |-> IdxInMg(i, pos, hl), len |-> g.len, dec |-> DecodeNumber(g, hl, pos, i),
         altRef |-> cfg.overlays /\ Layer(hl, pos) = 0 /\ ~IsKey(p), overlay |-> FALSE,
         refs |-> {}, last |-> None, bwd |-> None, refresh |-> {}, show |-> FALSE, existing |-> None, released |-> {}]

\* The picture that shows a base picture which was filtered into an alternative
\* reference: the same structure, the top layer, decoded last.
OverlayOf(p) ==
    [p EXCEPT !.overlay = TRUE, !.altRef = FALSE, !.layer = p.hl, !.dec = altNumber + p.len]

\* The pictures that are decoded before picture i.
DecodedBefore(pics, i) ==
    {j \in DOMAIN pics : pics[j].dec < pics[i].dec \/ (pics[j].dec = pics[i].dec /\ j < i)}

InDecodeOrder(pics) ==
    [k \in DOMAIN pics |-> pics[CHOOSE i \in DOMAIN pics : Cardinality(DecodedBefore(pics, i)) = k - 1]]

StartMiniGop ==
    LET g        == Head(miniGops)
        pics     == SubSeq(window, g.start + 1, g.start + g.len)
        built    == [i \in 1..g.len |-> Picture(g, pics, i)]
        final    == built[g.len]
        overlays == IF final.altRef THEN <<OverlayOf(final)>> ELSE <<>>
        all      == built \o overlays
    IN  /\ phase = "build" /\ miniGops # <<>>
        /\ prevLevels' = g.hl
        /\ position' = final.position
        /\ afterIntra' = IsKey(pics[g.len])
        /\ intraPosition' = IF pics[1].num = 0 THEN 0 ELSE intraPosition
        /\ altNumber' = altNumber + Len(all)
        /\ baseNumber' = baseNumber + Len(all)
        /\ group' = InDecodeOrder(all)
        /\ miniGops' = Tail(miniGops)
        /\ at' = 1 /\ phase' = "decide"
        /\ UNCHANGED <<cfg, poc, window, forcedLeft, startup, toggles, pdDpb, sending>>

-----------------------------------------------------------------------------
\* Deciding a picture: its references, its slots, what is shown after it.

IsRef(p) == ~p.overlay /\ IsUsedAsRef(cfg, p.hl, p.layer)

Flat(p) ==
    LET new == CircInc(lay0, 0, 7)
    IN  Choice([k \in 1..7 |-> FlatSlots(lay0)[FlatRow[k]]], new, lay1, IF p.overlay THEN {} ELSE {new})

\* Faulty variant: the toggles are read as if the pyramid were decoded in its order.
SlotsInPyramid(p) == PyramidSlots(lay0, lay1)

\* In display order the base picture is decoded last: the toggles are read as
\* if it, and the middle of the pyramid, had been decoded already.
SlotsSeenBy(p) ==
    PyramidSlots(IF p.inOrder /\ p.layer > 0 THEN CircInc(lay0, 0, 2) ELSE lay0,
                 IF p.inOrder /\ p.layer > 0 /\ p.hl > 1 /\ p.idx < 2^(p.hl - 1) - 1 THEN 1 - lay1 ELSE lay1)

RowOf(p) == CASE p.overlay -> OverlayRow
              [] ~p.overlay /\ p.layer = 0 -> BaseRow(p.hl, cfg.more5L)
              [] OTHER -> Row(cfg, p.hl, p.idx)

Pyramid(p) ==
    LET row   == [k \in 1..7 |-> SlotsSeenBy(p)[RowOf(p)[k]]]
        base  == CircInc(lay0, 0, 2)
        other == 1 - lay1
    IN  CASE p.layer = 0 -> Choice(row, base, lay1, {base})
          [] p.layer = 1 /\ ~p.overlay -> Choice(row, lay0, other, IF IsRef(p) THEN {LAY1_OFF + other} ELSE {})
          [] OTHER -> Choice(row, lay0, lay1, IF IsRef(p) THEN {3 + p.layer} ELSE {})

ChoiceFor(p) ==
    CASE p.idr -> Choice([k \in 1..7 |-> 0], 0, 0, Slot)
      [] ~p.idr /\ cfg.structure = "flat" -> RtcFlat(cfg, lay0, lay1)
      [] ~p.idr /\ cfg.structure = "crf"  -> LowDelayCrf(cfg, p, IsRef(p), lay0, lay1)
      [] ~p.idr /\ cfg.structure = "cbr"  -> LowDelayCbr(cfg, p, IsRef(p), lay0, lay1)
      [] ~p.idr /\ RandomAccess -> IF p.hl = 0 THEN Flat(p) ELSE Pyramid(p)

\* Faulty variant: whatever picture comes then is kept.
KeepsAny(p) == cfg.structure \in {"crf", "cbr"} /\ ~p.idr /\ p.num - lastLongBase >= cfg.longBase

\* Every longBase pictures the base picture is kept as a long-term reference.
KeepsLongBase(p) == /\ cfg.structure \in {"crf", "cbr"} /\ ~p.idr /\ p.layer = 0
                    /\ p.num - lastLongBase >= cfg.longBase

\* A list ends where a picture would be in it twice; list 1 may repeat LAST.
Upto(pocs, from, to, known) ==
    Cardinality({i \in from..to : \A k \in from..i : pocs[k] \notin {pocs[j] : j \in known[k]}})

List0Count(p, pocs) ==
    LET count == 1 + Upto(pocs, 2, 4, [k \in 2..4 |-> 1..(k - 1)])
        limit == IF p.layer = 0 THEN cfg.base0 ELSE cfg.nonBase0
    IN  IF count < limit THEN count ELSE limit

List1Count(p, pocs) ==
    LET l0    == List0Count(p, pocs)
        count == Upto(pocs, 5, 7, [k \in 5..7 |-> ((IF k = 5 THEN 2 ELSE 1)..l0) \cup (5..(k - 1))])
        limit == IF p.layer = 0 THEN cfg.base1 ELSE cfg.nonBase1
    IN  IF p.overlay \/ (p.inOrder /\ RandomAccess) THEN 0
        ELSE IF count < limit THEN count ELSE limit

\* Faulty variant: pictures of a mini-GOP cut short are left to the pyramid.
IsShownInPyramid(p) == p.idr \/ p.overlay \/ (~p.cra /\ p.layer = p.hl)

\* What is shown with a picture: itself, and the picture of another slot.
IsShown(p) == \/ p.idr \/ p.inOrder \/ p.overlay \/ p.hl = 0
              \/ p.cra /\ p.len < EntryCount(p.hl)
              \/ ~p.cra /\ p.layer = p.hl
ShowsExisting(p) == ~IsKey(p) /\ ~p.inOrder /\ ~p.overlay /\ p.hl > 0 /\ p.layer = p.hl

Refreshed(buffer, slots, p) ==
    [i \in Slot |-> IF i \in slots THEN [num |-> p.num, dec |-> p.dec, layer |-> p.layer] ELSE buffer[i]]

DecidePicture ==
    LET p       == group[at]
        choice  == ChoiceFor(p)
        refresh == choice.refresh \cup (IF KeepsLongBase(p) THEN {long_base_idx} ELSE {})
        pocs    == [k \in 1..7 |-> dpb[choice.row[k]].num]
        used0   == {pocs[k] : k \in 1..List0Count(p, pocs)}
        used1   == {pocs[k] : k \in 5..(4 + List1Count(p, pocs))}
        new     == Refreshed(dpb, refresh, p)
    IN  /\ phase = "decide" /\ at <= Len(group)
        /\ lay0' = choice.lay0 /\ lay1' = choice.lay1
        /\ lastLongBase' = IF KeepsLongBase(p) THEN p.num ELSE lastLongBase
        /\ dpb' = new
        /\ group' = [group EXCEPT ![at] =
               [p EXCEPT !.refresh = refresh, !.show = IsShown(p),
                         !.refs = IF IsKey(p) THEN {} ELSE used0 \cup used1,
                         !.last = IF IsKey(p) THEN None ELSE pocs[1],
                         !.bwd  = IF IsKey(p) \/ used1 = {} THEN None ELSE pocs[5],
                         !.existing = IF ShowsExisting(p)
                                      THEN new[SlotsSeenBy(p)[ShowExisting(p.hl, p.idx)]].num ELSE None]]
        /\ at' = at + 1
        /\ UNCHANGED <<cfg, phase, place, startup, numbers, miniGops, pdDpb, sending>>

\* Faulty variant: the picture of the slot is shown as well.
NeverShownByOverlay(p) == FALSE

\* The overlay shows the picture that would have been shown after the one
\* before it in display order.
ShownByOverlay(p) == \E q \in Range(group) : q.altRef /\ q.num = p.num + 1 /\ ~p.overlay

LeaveToOverlay ==
    /\ phase = "decide" /\ at > Len(group)
    /\ group' = [i \in DOMAIN group |->
                   IF ShownByOverlay(group[i]) THEN [group[i] EXCEPT !.existing = None] ELSE group[i]]
    /\ at' = 1 /\ phase' = "assign"
    /\ UNCHANGED <<cfg, place, startup, numbers, miniGops, toggles, pdDpb, sending>>

-----------------------------------------------------------------------------
\* Faulty variant: the slots already refreshed still count.
StillInOldDpb(slots, p, i) == \E j \in Slot \ {i} : pdDpb[j].num = pdDpb[i].num

\* Assigning the references of a picture and releasing those it replaces, slot
\* after slot: a picture is released with the last slot that held it.
StillInDpb(slots, p, i) ==
    \E j \in Slot \ {i} : (IF j < i /\ j \in slots THEN p.num ELSE pdDpb[j].num) = pdDpb[i].num

ReleasedBy(p) ==
    {pdDpb[i].dec : i \in {k \in p.refresh : pdDpb[k] # Nobody /\ ~StillInDpb(p.refresh, p, k)}}

AssignReferences ==
    LET p == group[at]
    IN  /\ phase = "assign" /\ at <= Len(group)
        /\ group' = [group EXCEPT ![at].released = ReleasedBy(p)]
        /\ pdDpb' = Refreshed(pdDpb, p.refresh, p)
        /\ at' = at + 1
        /\ UNCHANGED <<cfg, phase, place, startup, numbers, miniGops, toggles, sending>>

-----------------------------------------------------------------------------
\* Sending the mini-GOP on.

\* An intra picture that does not complete a mini-GOP waits for the next one.
IsDelayedIntra(p) ==
    /\ IsKey(p) /\ RandomAccess /\ ~p.eos
    /\ p.idr \/ p.len < EntryCount(p.hl)

\* What the rest of the encoder is told of a picture.
Message(p, id, size) ==
    [dec |-> p.dec, id |-> id, size |-> size, released |-> p.released,
     num |-> p.num, hl |-> p.hl, base |-> p.layer = 0, intra |-> IsKey(p), held |-> IsDelayedIntra(p),
     inOrder |-> p.inOrder, eos |-> p.eos,
     shows |-> (IF p.show THEN <<p.num>> ELSE <<>>) \o (IF p.existing # None THEN <<p.existing>> ELSE <<>>)]

\* Faulty variant: the intra picture is counted with the mini-GOP.
NeverSplitsOff(g) == FALSE

\* An intra picture that ends an incomplete mini-GOP is a group of its own.
SplitsOff(g) ==
    LET p == g[Len(g)] IN IsKey(p) /\ g[1].inOrder /\ RandomAccess /\ (IsDelayedIntra(p) \/ p.eos)

\* The pictures at these indices, in their order.
Those(pics, indices) ==
    [k \in 1..Cardinality(indices) |->
        pics[CHOOSE i \in indices : Cardinality({j \in indices : j < i}) = k - 1]]

SendMiniGop ==
    LET size     == IF SplitsOff(group) THEN Len(group) - 1 ELSE Len(group)
        MessageOf(p) == IF SplitsOff(group) /\ IsKey(p) THEN Message(p, mgId + 1, 1)
                        ELSE Message(p, mgId, IF IsDelayedIntra(p) THEN 1 ELSE size)
        held     == {i \in DOMAIN group : IsDelayedIntra(group[i])}
        leaving  == Those(group, DOMAIN group \ held)
        waiting  == Those(group, held)
    IN  /\ phase = "assign" /\ at > Len(group)
        /\ sent' = sent \o delayed \o [i \in DOMAIN leaving |-> MessageOf(leaving[i])]
        /\ delayed' = [i \in DOMAIN waiting |-> MessageOf(waiting[i])]
        /\ mgId' = mgId + (IF SplitsOff(group) THEN 2 ELSE 1)
        /\ group' = <<>> /\ at' = 1
        /\ phase' = IF miniGops = <<>> THEN "place" ELSE "build"
        /\ window' = IF miniGops = <<>> THEN <<>> ELSE window
        /\ UNCHANGED <<cfg, poc, intraPosition, forcedLeft, startup, numbers, miniGops, toggles, pdDpb>>

-----------------------------------------------------------------------------
Next ==
    \/ \E forced \in BOOLEAN : PlacePicture(forced)
    \/ SplitWindow
    \/ StartMiniGop
    \/ DecidePicture
    \/ LeaveToOverlay
    \/ AssignReferences
    \/ SendMiniGop

Spec == Init /\ [][Next]_vars

-----------------------------------------------------------------------------
Number(n) == n \in None..(cfg.pictures - 1)

TypeOK ==
    /\ cfg \in Configs /\ forcedLeft \in 0..cfg.forced
    /\ phase \in {"place", "split", "build", "decide", "assign"}
    /\ Number(poc) /\ Number(poc - Len(window))
    /\ \A i \in DOMAIN window : window[i].num = poc - Len(window) + i
    /\ startup \in BOOLEAN /\ afterIntra \in BOOLEAN /\ prevLevels \in 0..5
    /\ position \in 0..(EntryCount(cfg.hl) - 1)
    /\ {altNumber, baseNumber, mgId, lastLongBase} \subseteq 0..(2 * cfg.pictures)
    /\ lay0 \in 0..7 /\ lay1 \in 0..2
    /\ at \in 1..(Len(group) + 1) /\ (group = <<>> <=> phase \in {"place", "split", "build"})
    /\ \A i \in DOMAIN group : group[i].refresh \subseteq Slot /\ group[i].layer \in 0..group[i].hl
    /\ \A i \in Slot : dpb[i].layer \in 0..5 /\ Number(dpb[i].num) /\ Number(pdDpb[i].num)
    /\ Len(delayed) <= 1

\* The pictures shown by all that was sent, in the order of sending.
Shown == FlattenSeq([i \in DOMAIN sent |-> sent[i].shows])

\* "Countinuity count check of visible frames" (packetization_process.c:159):
\* in the order they leave, the pictures shown, directly or from a slot of
\* the decoded picture buffer, are picture 0, 1, 2, ... without a gap or a
\* repetition, however complete, cut short and intra mini-GOPs follow; and when
\* the buffer is empty, every picture placed so far is shown by what was sent,
\* but for the intra picture that waits for the next mini-GOP, which only the
\* end of the sequence may not leave behind.
ShownInDisplayOrder ==
    /\ \A i \in DOMAIN Shown : Shown[i] = i - 1
    /\ phase = "place" /\ window = <<>> =>
        /\ Len(Shown) + Len(FlattenSeq([i \in DOMAIN delayed |-> delayed[i].shows])) = poc + 1
        /\ poc = cfg.pictures - 1 => delayed = <<>>

\* Pictures leave in decode order, numbered without a gap: the later stages
\* find their slot in every ring by this number.  All pictures of a mini-GOP
\* carry its number and its size, leave together, and are that many: the
\* look-ahead counts them to know a group is complete.
MiniGopsArriveWhole ==
    \A i \in DOMAIN sent :
        LET same == {j \in DOMAIN sent : sent[j].id = sent[i].id}
        IN  /\ sent[i].dec = i - 1
            /\ Cardinality(same) = sent[i].size
            /\ \A j \in same : j - i < sent[i].size /\ sent[j].size = sent[i].size

\* A loop over the mini-GOP has dealt with one more picture.
Moves(loop) == phase = loop /\ at' = at + 1

Held(buffer) == {buffer[i].num : i \in Slot}

\* The first reference of each list is the right one of those the decoded
\* picture buffer holds: in a complete pyramid the nearest on its side, in a
\* mini-GOP cut short the nearest past one of a lower layer.  The slots the
\* tables name by role, through toggles that mini-GOPs of other sizes have
\* moved, hold the pictures the tables mean.
NearestReferences ==
    [][Moves("decide") =>
        LET p      == group'[at]
            past   == {n \in Held(dpb) : n < p.num}
            future == {n \in Held(dpb) : n > p.num}
            lower  == {dpb[k].num : k \in {j \in Slot : dpb[j].layer < p.layer}}
        IN  RandomAccess /\ p.hl > 0 /\ ~IsKey(p) /\ ~p.overlay =>
                /\ ~p.inOrder => p.last = Max(past)
                /\ p.inOrder /\ p.layer > 0 => p.last = Max(past \cap lower)
                /\ p.bwd \in future => p.bwd = Min(future)
                /\ ~p.inOrder /\ p.layer > 0 /\ cfg.nonBase1 > 0 => p.bwd \in future]_vars

\* A picture is released exactly when the last slot that held it is given to
\* another picture, however many slots it held and whichever are refreshed.
ReleasedWithItsLastSlot ==
    [][Moves("assign") =>
        group'[at].released = {pdDpb[k].dec : k \in Slot} \ ({pdDpb'[k].dec : k \in Slot} \cup {None})]_vars

\* At a constant bit rate a receiver may drop the upper layers: no picture
\* predicts from a picture of a higher layer.
CbrLayersAreDroppable ==
    [][Moves("decide") /\ cfg.structure = "cbr" =>
        \A n \in group'[at].refs : \A k \in Slot : dpb[k].num = n => dpb[k].layer <= group'[at].layer]_vars
=============================================================================
