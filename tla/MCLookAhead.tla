------------------------------ MODULE MCLookAhead ------------------------------
(***************************************************************************)
(* Short mini-GOPs, with key frames and the end of the sequence anywhere.  *)
(***************************************************************************)
EXTENDS LookAhead

Sequence(hl, forced, n) ==
    [structure |-> "random access", hl |-> hl, scheme |-> 0, more5L |-> FALSE, reduce |-> 0, flatMaxRefs |-> 4,
     base0 |-> 1, base1 |-> 1, nonBase0 |-> 1, nonBase1 |-> 1,
     forwardKeys |-> FALSE, overlays |-> FALSE, dynamic |-> FALSE, forced |-> forced, pictures |-> n,
     longBase |-> 4, period |-> None, startup |-> 0]

Sequences == {Sequence(1, 2, n) : n \in 5..7} \cup {Sequence(2, 1, n) : n \in {7, 9}}

Ahead(mgs, tpl, delay) == [mgs |-> mgs, tplMgs |-> mgs, tpl |-> tpl, delay |-> delay]

\* With TPL one mini-GOP, two for a variable bit rate, and none without TPL.
LookAheads == {Ahead(1, TRUE, 0), Ahead(1, TRUE, 1), Ahead(0, FALSE, 1),
               [mgs |-> 2, tplMgs |-> 1, tpl |-> TRUE, delay |-> 0]}

\* TPL when the application asks for less than a mini-GOP of look-ahead.
NoLookAhead == {Ahead(0, TRUE, 0), Ahead(0, TRUE, 2)}
=============================================================================
