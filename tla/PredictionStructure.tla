-------------------------- MODULE PredictionStructure --------------------------
(***************************************************************************)
(* The tables of the prediction structures: the layer and the decode order *)
(* of each picture of a mini-GOP, the slots of the decoded picture buffer  *)
(* it predicts from and, once it is decoded, the slot that is shown after  *)
(* it.  A picture of a mini-GOP of 2^hl pictures is named by its index in  *)
(* display order; the last one is the base picture, of layer 0.            *)
(*                                                                         *)
(* A row lists the slots of LAST, LAST2, LAST3, GOLD, BWD, ALT2 and ALT by *)
(* the picture each is meant to hold: b2, b1, b0 the newest to the oldest  *)
(* base picture, l11 and l10 the newest and the oldest of layer 1, and l2, *)
(* l3, l4 the newest of the other layers.                                  *)
(***************************************************************************)
EXTENDS Integers, Sequences

CONSTANT
    Configs          \* the settings of a sequence that a run considers

REF_FRAMES == 8
Slot == 0..(REF_FRAMES - 1)
LAY1_OFF == 3

CircInc(x, lo, hi) == IF x = hi THEN lo ELSE x + 1
CircDec(x, lo, hi) == IF x = lo THEN hi ELSE x - 1

EntryCount(hl) == 2 ^ hl

\* The number of trailing zero bits of n says how high a picture is in the
\* pyramid; position 0 is the base picture.
Layer(hl, position) ==
    IF position = 0 THEN 0
    ELSE hl - (CHOOSE k \in 0..hl : position % 2^k = 0 /\ position % 2^(k + 1) # 0)

\* The pictures of positions 0, 1, ... are decoded in this order after the
\* previous mini-GOP: base first, then both halves of the pyramid.
DecodeOrder(hl) ==
    CASE hl = 0 -> <<0>>
      [] hl = 1 -> <<0, 1>>
      [] hl = 2 -> <<0, 2, 1, 3>>
      [] hl = 3 -> <<0, 3, 2, 4, 1, 6, 5, 7>>
      [] hl = 4 -> <<0, 4, 3, 5, 2, 7, 6, 8, 1, 11, 10, 12, 9, 14, 13, 15>>
      [] hl = 5 -> <<0, 5, 4, 6, 3, 8, 7, 9, 2, 12, 11, 13, 10, 15, 14, 16,
                     1, 20, 19, 21, 18, 23, 22, 24, 17, 27, 26, 28, 25, 30, 29, 31>>

-----------------------------------------------------------------------------
\* The slots behind the names, from the two toggles of the picture decision.
PyramidSlots(lay0, lay1) ==
    [b2  |-> lay0,
     b1  |-> CircDec(lay0, 0, 2),
     b0  |-> CircDec(CircDec(lay0, 0, 2), 0, 2),
     l11 |-> LAY1_OFF + lay1,
     l10 |-> CircDec(LAY1_OFF + lay1, LAY1_OFF, LAY1_OFF + 1),
     l2  |-> 5,
     l3  |-> 6,
     l4  |-> 7]

\* Flat: eight base pictures, newest first.
FlatSlots(lay0) == [i \in 0..7 |-> (lay0 + 8 - i) % 8]
FlatRow == <<0, 2, 4, 6, 1, 3, 5>>

BaseRow(hl, more5L) ==
    CASE hl \in 1..3 -> <<"b2", "b0", "b2", "b2", "b2", "b1", "b2">>
      [] hl = 4 -> IF more5L THEN <<"b2", "b0", "l11", "b2", "b2", "b1", "l10">>
                             ELSE <<"b2", "b0", "b2", "b2", "b2", "b1", "b2">>
      [] hl = 5 -> <<"b2", "b1", "b0", "b2", "b2", "l11", "b2">>

OverlayRow == [i \in 1..7 |-> "b2"]

Rows1(scheme) ==
    <<IF scheme = 0 THEN <<"b1", "b0", "b0", "b1", "b2", "b2", "b2">>
                    ELSE <<"b1", "l11", "b0", "b1", "b2", "l10", "b2">> >>

Rows2 == <<
    <<"b1", "l10", "b0", "b1", "l11", "b2", "l11">>,
    <<"b1", "l11", "b0", "b1", "b2", "b2", "b2">>,
    <<"l11", "b1", "l2", "l11", "b2", "b2", "b2">> >>

Rows3 == <<
    <<"b1", "l10", "l3", "b1", "l2", "l11", "b2">>,
    <<"b1", "l2", "l10", "b0", "l11", "b2", "l11">>,
    <<"l2", "b1", "l3", "l2", "l11", "b2", "l11">>,
    <<"b1", "l11", "b0", "b1", "b2", "b2", "b2">>,
    <<"l11", "b1", "l3", "l11", "l2", "b2", "l2">>,
    <<"l11", "l2", "b1", "l10", "b2", "b2", "b2">>,
    <<"l2", "l11", "l3", "l2", "b2", "b2", "b2">> >>

Rows4(more5L) ==
    LET Or(more, less) == IF more5L THEN more ELSE less
    IN <<
    <<"b1", "l10", "l4", "b0", "l3", "l2", "l11">>,
    <<"b1", "l3", "l10", "b0", "l2", "l11", "b2">>,
    <<"l3", "b1", "l4", "l10", "l2", "l11", "b2">>,
    <<"b1", "l2", "l10", "b0", "l11", "b2", Or("l3", "l11")>>,
    <<"l2", "b1", "l4", "l10", "l3", "l11", "b2">>,
    <<"l2", "l3", "b1", "l10", "l11", "b2", Or("l4", "l11")>>,
    <<"l3", "l2", "l4", "b1", "l11", "b2", Or("l10", "l11")>>,
    <<"b1", "l11", "b0", "b1", "b2", "l2", "b2">>,
    <<"l11", "b1", "l4", "l10", "l3", "l2", "b2">>,
    <<"l11", "l3", "b1", "l10", "l2", "b2", "l2">>,
    <<"l3", "l11", "l4", "b1", "l2", "b2", "l2">>,
    <<"l11", "l2", "b1", "l3", "b2", "l4", Or("l10", "b2")>>,
    <<"l2", "l11", "l4", "b1", "l3", "b2", "l3">>,
    <<"l2", "l3", "l11", "b1", "b2", "l4", "b2">>,
    <<"l3", "l2", "l4", "l11", "b2", "b1", "b2">> >>

Rows5 == <<
    <<"b1", "l10", "l11", "b2", "l4", "l3", "l2">>,
    <<"b1", "l4", "l10", "b2", "l3", "l2", "l11">>,
    <<"l4", "b1", "l10", "b2", "l3", "l2", "l11">>,
    <<"b1", "l3", "l10", "b0", "l2", "l11", "b2">>,
    <<"l3", "b1", "l10", "l3", "l4", "l2", "l11">>,
    <<"l3", "l4", "b1", "l10", "l2", "l11", "b2">>,
    <<"l4", "l3", "b1", "l4", "l2", "l11", "b2">>,
    <<"b1", "l2", "l10", "b1", "l11", "b2", "l3">>,
    <<"l2", "b1", "l10", "l2", "l4", "l3", "l11">>,
    <<"l2", "l4", "b1", "l10", "l3", "l11", "b2">>,
    <<"l4", "l2", "b1", "l10", "l3", "l11", "b2">>,
    <<"l2", "l3", "b1", "l10", "l11", "b2", "l11">>,
    <<"l3", "l2", "b1", "l10", "l4", "l11", "b2">>,
    <<"l3", "l4", "l2", "b1", "l11", "b2", "l11">>,
    <<"l4", "l3", "l2", "l10", "l11", "b2", "b1">>,
    <<"b1", "l11", "b0", "l10", "b2", "l2", "l3">>,
    <<"l11", "b1", "l10", "b2", "l4", "l3", "l2">>,
    <<"l11", "l4", "b1", "l10", "l3", "l2", "b2">>,
    <<"l4", "l11", "b1", "l10", "l3", "l2", "b2">>,
    <<"l11", "l3", "b1", "l11", "l2", "b2", "l2">>,
    <<"l3", "l11", "b1", "l10", "l4", "l2", "b2">>,
    <<"l3", "l4", "l11", "b1", "l2", "b2", "l2">>,
    <<"l4", "l3", "l11", "b1", "l2", "b2", "b0">>,
    <<"l11", "l2", "b1", "l11", "b2", "l4", "l10">>,
    <<"l2", "l11", "b1", "l10", "l4", "l3", "b2">>,
    <<"l2", "l4", "l11", "b1", "l3", "b2", "l3">>,
    <<"l4", "l2", "l11", "b1", "l3", "b2", "b0">>,
    <<"l2", "l3", "l11", "b1", "b2", "b0", "b2">>,
    <<"l3", "l2", "l11", "b1", "l4", "b2", "b0">>,
    <<"l3", "l4", "l2", "l11", "b2", "b1", "b0">>,
    <<"l4", "l3", "l2", "b1", "b2", "l11", "b0">> >>

\* The row of a picture that is neither a base picture nor an overlay.
Row(cfg, hl, idx) ==
    CASE hl = 1 -> Rows1(cfg.scheme)[idx + 1]
      [] hl = 2 -> Rows2[idx + 1]
      [] hl = 3 -> Rows3[idx + 1]
      [] hl = 4 -> Rows4(cfg.more5L)[idx + 1]
      [] hl = 5 -> Rows5[idx + 1]

\* After a leaf of a pyramid, the next picture in display order is shown.
ShowExisting(hl, idx) ==
    CASE hl = 1 -> "b2"
      [] hl = 2 -> <<"l11", "b2">>[idx \div 2 + 1]
      [] hl = 3 -> <<"l2", "l11", "l2", "b2">>[idx \div 2 + 1]
      [] hl = 4 -> <<"l3", "l2", "l3", "l11", "l3", "l2", "l3", "b2">>[idx \div 2 + 1]
      [] hl = 5 -> <<"l4", "l3", "l4", "l2", "l4", "l3", "l4", "l11",
                     "l4", "l3", "l4", "l2", "l4", "l3", "l4", "b2">>[idx \div 2 + 1]

\* Pictures below the top layer are references; those of the top layer, if the
\* referencing scheme says so and there is a slot for them.
IsUsedAsRef(cfg, hl, layer) == layer < hl \/ hl = 0 \/ (hl < 5 /\ cfg.scheme = 1)
=============================================================================
