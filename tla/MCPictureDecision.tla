-------------------------- MODULE MCPictureDecision --------------------------
(***************************************************************************)
(* Settings of a sequence for TLC: every prediction structure, with the    *)
(* reference counts the encoder sets for it, long enough for two or three  *)
(* mini-GOPs of the largest size and for each way a mini-GOP can end.      *)
(***************************************************************************)
EXTENDS PictureDecision

Counts(l0, l1, nl0, nl1) == [base0 |-> l0, base1 |-> l1, nonBase0 |-> nl0, nonBase1 |-> nl1]

Setting(structure, hl, scheme, counts) ==
    [structure |-> structure, hl |-> hl, scheme |-> scheme, more5L |-> scheme = 1, reduce |-> 0, flatMaxRefs |-> 4,
     forwardKeys |-> FALSE, overlays |-> FALSE, dynamic |-> FALSE, forced |-> 0, pictures |-> 4 * 2^hl + 4,
     longBase |-> 4, period |-> None, startup |-> 0] @@ counts

Best == Counts(4, 3, 4, 3)
RA(hl, scheme, counts) == Setting("random access", hl, scheme, counts)

\* The sequence ends, or a key frame comes, after any number of pictures.
AnyLength(c, lengths) == {[c EXCEPT !.pictures = n] : n \in lengths}

Pyramids == UNION {AnyLength(c, 2 * 2^c.hl .. 3 * 2^c.hl + 1) : c \in {RA(hl, s, Best) : hl \in 1..3, s \in {0, 1}}}
              \cup AnyLength(RA(4, 0, Best), {33, 47}) \cup AnyLength(RA(4, 1, Counts(3, 2, 3, 2)), {41, 49})
Deep     == {[RA(5, 1, Best) EXCEPT !.dynamic = TRUE, !.pictures = n, !.period = k] :
                n \in {97, 120}, k \in {None, 35, 58}}
Keys     == {[RA(hl, 1, Best) EXCEPT !.forced = 1] : hl \in 0..3}
              \cup {[RA(3, 0, Best) EXCEPT !.period = k] : k \in 0..17 \ {0}}
              \cup {[RA(4, 0, Best) EXCEPT !.period = 13, !.startup = 2]}
Forward  == {[RA(4, s, Best) EXCEPT !.forwardKeys = TRUE, !.period = k] : s \in {0, 1}, k \in {16, 23, 32}}
Startups == {[RA(hl, 1, Best) EXCEPT !.startup = k, !.forced = 1, !.pictures = 28] : hl \in {4}, k \in {2, 3, 4}}
Overlays == {[RA(hl, s, Best) EXCEPT !.overlays = TRUE, !.forced = 1] : hl \in 1..3, s \in {0, 1}}
              \cup {RA(0, 1, Best)}

LowDelays ==
    {[Setting("crf", hl, s, c) EXCEPT !.reduce = IF c.base0 = 1 THEN 2 ELSE IF c.base0 = 2 THEN 1 ELSE 0, !.forced = 1] :
        hl \in 0..3, s \in {0, 1}, c \in {Counts(4, 3, 4, 3), Counts(3, 2, 2, 2), Counts(2, 2, 1, 1), Counts(1, 0, 1, 0)}}
    \cup
    {[Setting("cbr", hl, s, c) EXCEPT !.reduce = IF c.base0 = 1 THEN 2 ELSE IF c.base0 = 2 THEN 1 ELSE 0, !.forced = 1] :
        hl \in 1..2, s \in {0, 1}, c \in {Counts(4, 0, 4, 0), Counts(2, 0, 1, 0), Counts(1, 0, 1, 0)}}
    \cup
    {[Setting("flat", 0, 1, Counts(n, 0, n, 0)) EXCEPT !.flatMaxRefs = n, !.forced = 1] : n \in 1..4}

Settings == Pyramids \cup Deep \cup Keys \cup Forward \cup Startups \cup Overlays \cup LowDelays
=============================================================================
