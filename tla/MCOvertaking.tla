---------------------------- MODULE MCOvertaking ----------------------------
(***************************************************************************)
(* Two ordinary mini-GOPs of four with the smallest ring enc_handle.c      *)
(* makes for them and two child picture control sets: pictures overtake    *)
(* one that others need not wait for, and the ring is not large enough.    *)
(***************************************************************************)
EXTENDS Packetization, MCVideos

Sequences == {Video(TwoPyramids, RingOfFour, {2, 8})}
=============================================================================
