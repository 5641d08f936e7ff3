---------------------------- MODULE ObjectChannel ----------------------------
(***************************************************************************)
(* What the full queue of an EbSystemResource with one consumer promises:  *)
(* a channel that delivers every posted wrapper once, in posting order.    *)
(* The packets of the output stream reach the application through it.      *)
(***************************************************************************)
EXTENDS Sequences

CONSTANT Objects

VARIABLE channel

Init == channel = <<>>

Send(o) == channel' = Append(channel, o)

Receive == channel # <<>> /\ channel' = Tail(channel)

Next == Receive \/ \E o \in Objects : Send(o)

Spec == Init /\ [][Next]_channel
=============================================================================
