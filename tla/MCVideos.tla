------------------------------ MODULE MCVideos ------------------------------
(***************************************************************************)
(* The pictures and the settings that sequences for TLC are made of.       *)
(***************************************************************************)
EXTENDS Integers, Sequences

Shown(n, needs)   == [number |-> n, show |-> TRUE, existing |-> FALSE, alt |-> FALSE, needs |-> needs, loops |-> 0]
Hidden(n, needs)  == [Shown(n, needs) EXCEPT !.show = FALSE]
Leading(n, needs) == [Shown(n, needs) EXCEPT !.existing = TRUE]
AltRef(n, needs)  == [Hidden(n, needs) EXCEPT !.alt = TRUE]

\* Two pictures may be coded at once, and in another order than that of decoding.
Video(pictures, size, tagged) ==
    [pictures |-> pictures, size |-> size, tagged |-> tagged, inOrder |-> FALSE, reach |-> 3, children |-> 2, workers |-> 2,
     last |-> CHOOSE n \in {pictures[i].number : i \in DOMAIN pictures} : \A i \in DOMAIN pictures : pictures[i].number <= n,
     cdefSegments |-> 1, restSegments |-> 1, tiles |-> 1]

\* One picture after the other.
OneByOne(v) == [v EXCEPT !.children = 1]

\* The same, in decode order (enable_dec_order).
InOrder(v)  == [OneByOne(v) EXCEPT !.inOrder = TRUE]

Cut(v, n)   == [v EXCEPT !.cdefSegments = n, !.restSegments = n, !.tiles = n]
Recoded(p)  == [p EXCEPT !.loops = 2]

\* A key frame and two pyramids of four; without look-ahead their ring has a
\* parent picture control set for each of the four, a delayed key frame and the
\* picture that resource coordination holds back.
TwoPyramids == <<Shown(0, {}), Hidden(4, {0}), Hidden(2, {0, 1}), Leading(1, {0, 2}), Leading(3, {1, 2}),
                 Hidden(8, {1}), Hidden(6, {1, 5}), Leading(5, {1, 6}), Leading(7, {5, 6})>>
RingOfFour  == 6
=============================================================================
