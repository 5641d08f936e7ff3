--------------------------- MODULE LowDelayStructure ---------------------------
(***************************************************************************)
(* The low-delay structures: pictures are decoded in display order, from   *)
(* past pictures only.  Each structure says which slots of the decoded     *)
(* picture buffer a picture predicts from (LAST, LAST2, LAST3, GOLD, BWD,  *)
(* ALT2, ALT), how it moves the two toggles and which slots it overwrites. *)
(*                                                                         *)
(* cfg.reduce is ld_reduce_ref_buffs: with 1 or 2 a base picture also      *)
(* overwrites the slots no picture predicts from, to free their buffers.   *)
(***************************************************************************)
EXTENDS PredictionStructure

long_base_idx == 7

\* The result of a choice: a row of slots, the toggles and the slots refreshed.
Choice(row, lay0, lay1, refresh) == [row |-> row, lay0 |-> lay0, lay1 |-> lay1, refresh |-> refresh]

\* Flat real-time coding: up to four previous pictures.
RtcFlat(cfg, lay0, lay1) ==
    LET last == cfg.flatMaxRefs - 1
        p1   == CircDec(lay0, 0, last)
        p2   == CircDec(p1, 0, last)
        p3   == CircDec(p2, 0, last)
        new  == CircInc(lay0, 0, last)
    IN  Choice(<<lay0, p1, p2, p3, lay0, lay0, lay0>>, new, lay1, {new} \cup (cfg.flatMaxRefs..7))

\* Constant quality: base pictures, the newest others, and a long-term picture.
LowDelayCrf(cfg, p, isRef, lay0, lay1) ==
    LET offset == IF cfg.reduce = 0 THEN LAY1_OFF ELSE 1
        n2     == IF cfg.reduce = 2 THEN 1 ELSE offset + lay1
        n1     == CircDec(n2, offset, offset + 2)
        n0     == CircDec(n1, offset, offset + 2)
        b1     == CircDec(lay0, 0, 2)
        b0     == CircDec(b1, 0, 2)
        middle == IF p.hl = 0 THEN 0 ELSE 2^(p.hl - 1) - 1
        after  == p.layer # 0 /\ p.idx > middle /\ cfg.nonBase1 = 0
        row    == <<IF after THEN n2 ELSE lay0, n1, long_base_idx, b0, n2, n0, b1>>
        base   == CircInc(lay0, 0, 2)
        other  == CircInc(lay1, 0, 2)
    IN  CASE p.layer = 0 /\ cfg.reduce = 0 -> Choice(row, base, lay1, {base})
          [] p.layer = 0 /\ cfg.reduce > 0 -> Choice(row, lay0, lay1, {lay0} \cup (IF cfg.reduce = 2 THEN 2..7 ELSE 4..7))
          [] p.layer # 0 /\ ~isRef -> Choice(row, lay0, lay1, {})
          [] p.layer # 0 /\ isRef /\ cfg.reduce = 2 -> Choice(row, lay0, lay1, {1})
          [] OTHER -> Choice(row, lay0, other, {offset + other})

\* Constant bit rate, with one or two layers above the base.
LowDelayCbr(cfg, p, isRef, lay0, lay1) ==
    LET b1   == CircDec(lay0, 0, 2)
        b0   == CircDec(b1, 0, 2)
        l11  == CASE cfg.reduce = 2 -> IF lay0 = 0 THEN 1 ELSE 0
                  [] cfg.reduce = 1 -> LAY1_OFF
                  [] OTHER -> LAY1_OFF + lay1
        l10  == CircDec(l11, LAY1_OFF, LAY1_OFF + 1)
        From(last, last2, last3, gold) == <<last, last2, last3, gold, last, last, last>>
        row  == CASE p.layer = 0 /\ p.hl = 1 -> From(lay0, b1, long_base_idx, b0)
                  [] p.layer = 0 /\ p.hl = 2 -> From(lay0, b0, long_base_idx, lay0)
                  [] p.hl = 1 /\ p.layer = 1 -> From(lay0, IF cfg.scheme = 0 THEN b1 ELSE l11, b1, lay0)
                  [] p.hl = 2 /\ p.layer > 0 /\ p.idx < 2 -> From(lay0, l11, b1, lay0)
                  [] OTHER -> From(l11, lay0, l10, l11)
        base == CircInc(lay0, 0, 2)
    IN  CASE p.layer = 0 -> IF cfg.reduce = 2
                            THEN Choice(row, lay0, lay1, {lay0} \cup (2..7))
                            ELSE Choice(row, base, lay1, {base} \cup (IF cfg.reduce = 1 THEN 4..7 ELSE {}))
          [] p.layer = 1 /\ (isRef \/ p.hl = 2) ->
                 CASE cfg.reduce = 2 -> Choice(row, lay0, lay1, {l11} \cup (2..7))
                   [] cfg.reduce = 1 -> Choice(row, lay0, lay1, {LAY1_OFF} \cup (4..7))
                   [] OTHER -> Choice(row, lay0, 1 - lay1, {LAY1_OFF + 1 - lay1})
          [] p.layer = 2 /\ isRef /\ cfg.reduce = 0 -> Choice(row, lay0, lay1, {5})
          [] OTHER -> Choice(row, lay0, lay1, {})
=============================================================================
