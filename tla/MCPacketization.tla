--------------------------- MODULE MCPacketization ---------------------------
(***************************************************************************)
(* Sequences for TLC, with the pools that enc_handle.c gives them: two     *)
(* mini-GOPs of four coded in decode order, one and a half with pictures   *)
(* that overtake each other, three of two coded one at a time but not in   *)
(* order, one with an overlay, low delay with the smallest ring, two       *)
(* pictures at once in several segments and tiles of which one is coded    *)
(* twice, and a hidden picture that is coded twice.                        *)
(***************************************************************************)
EXTENDS PacketizationRing, MCVideos

PyramidAndHalf == SubSeq(TwoPyramids, 1, 5) \o <<Hidden(6, {1}), Leading(5, {1, 5})>>
Twos           == <<Shown(0, {}), Hidden(2, {0}), Leading(1, {0, 1}), Hidden(4, {1}), Leading(3, {1, 3}),
                    Hidden(6, {3}), Leading(5, {3, 5})>>
Overlaid       == <<Shown(0, {}), AltRef(4, {0}), Hidden(2, {0, 1}), Leading(1, {0, 2}), Shown(3, {2, 1}), Shown(4, {1})>>
LowDelay       == <<Shown(0, {}), Shown(1, {0}), Shown(2, {1})>>
Overtaking     == <<Recoded(Shown(0, {})), Shown(1, {})>>
HiddenTwice    == <<Shown(0, {}), Recoded(Hidden(2, {0})), Leading(1, {0, 1})>>

Sequences == {InOrder(Video(TwoPyramids, RingOfFour, {0, 2, 3, 4, 6, 8})),
              Video(PyramidAndHalf, RingOfFour, {0, 2, 3, 4, 6}),
              OneByOne([Video(Twos, 4, {2, 3, 6}) EXCEPT !.reach = 2]),
              Video(Overlaid, 12, {2, 4}),
              InOrder(Video(LowDelay, 2, {1})),
              Cut(Video(Overtaking, 2, {1}), 2), Video(HiddenTwice, 4, {2})}
=============================================================================
