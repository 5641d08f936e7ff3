-------------------------- MODULE MCPictureManager --------------------------
(***************************************************************************)
(* Instances of the picture manager for TLC, with the prediction           *)
(* structures the picture decision builds, cut down to a buffer of two or  *)
(* three slots.                                                            *)
(***************************************************************************)
EXTENDS PictureManager

Slots == {1, 2}
Pic(needs, refresh) == [needs |-> needs, refresh |-> refresh, recodes |-> 0]

FromZero(s) == [p \in 0..(Len(s) - 1) |-> s[p + 1]]

\* A key frame, then a pyramid: the base picture, its middle, two leaves; and
\* the next key frame, which overwrites everything and waits for nothing.
Pyramid == FromZero(<<Pic({}, Slots), Pic({0}, {1}), Pic({0, 1}, {2}), Pic({1, 2}, {}), Pic({1, 2}, {}), Pic({}, Slots)>>)

\* Every picture is a forced key frame.
AllIntra == [p \in 0..5 |-> Pic({}, Slots)]

\* Low delay: each picture predicts from the one before it.
Flat == [p \in 0..5 |-> Pic(IF p = 0 THEN {} ELSE {p - 1}, IF p = 0 THEN Slots ELSE {1 + (p % 2)})]

\* One picture predicts from a slow one, the others from the key frame.
Fan == FromZero(<<Pic({}, Slots), Pic({0}, {1}), Pic({1}, {1}), Pic({0}, {}), Pic({0}, {}), Pic({0}, {}), Pic({0}, {2})>>)

\* A picture that predicts from a key frame is overtaken by key frames.
Burst == [p \in 0..6 |-> IF p = 1 THEN Pic({0}, {}) ELSE Pic({}, {1})]

\* Every picture is coded a second time.
Twice(g) == [p \in DOMAIN g |-> [g[p] EXCEPT !.recodes = 2]]

\* Random access with a reach of three or two; a heap that is soon full; low
\* delay, in decode order, with one wrapper more than slots; and a pool that
\* runs dry.
Wide      == [refFrames |-> 2, refBuffers |-> 5, listLength |-> 5, parents |-> 4, children |-> 2, decOrder |-> FALSE, pmDecOrder |-> FALSE]
SmallHeap == [Wide EXCEPT !.refBuffers = 4, !.listLength = 4, !.parents = 3, !.children = 3]
LowDelay  == [Wide EXCEPT !.refBuffers = 3, !.decOrder = TRUE, !.pmDecOrder = TRUE]
Dry       == [Wide EXCEPT !.refFrames = 1, !.refBuffers = 3, !.listLength = 3, !.children = 4]

Pairs(configs, gops) == [scs : configs, gop : gops]
Simple        == {Pyramid, AllIntra, Flat, Fan}
OrderVideos   == Pairs({Wide}, Simple) \cup Pairs({LowDelay}, {Flat, AllIntra})
                   \cup Pairs({SmallHeap}, {Pyramid, Fan, Twice(Pyramid)}) \cup Pairs({Dry}, {Burst})
=============================================================================
