-------------------------- MODULE MCSegmentTables --------------------------
(* Sources small enough to enumerate: up to six SBs a side, with sizes that *)
(* end inside an SB on either side of its middle.                          *)
EXTENDS SegmentTables

SmallSources ==
    [width : {48, 136, 216, 352}, height : {40, 64, 160, 272},
     sb : {64}, lp1 : {FALSE}]
    \cup [width : {136, 456}, height : {120, 336}, sb : {128}, lp1 : BOOLEAN]
SomeDenoms == {8, 9, 11, 13, 16}
=============================================================================
