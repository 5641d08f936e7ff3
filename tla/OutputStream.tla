---------------------------- MODULE OutputStream ----------------------------
(***************************************************************************)
(* What the application is promised of the packets it receives: one for    *)
(* each picture it sent, in display order, each showing that picture and   *)
(* carrying that picture's metadata; then, once, the end of the stream.    *)
(***************************************************************************)
EXTENDS Integers, Sequences

VARIABLES
    frames,     \* the packets expected, in display order
    stream      \* the packets posted so far

EndOfStream == [pts |-> -1, shows |-> -1, metadata |-> -1]

Init == stream = <<>>

Show == /\ Len(stream) < Len(frames)
        /\ stream' = Append(stream, frames[Len(stream) + 1])
        /\ UNCHANGED frames

End == /\ stream = frames
       /\ stream' = Append(stream, EndOfStream)
       /\ UNCHANGED frames

Next == Show \/ End

\* Nothing else is ever posted.
Safety == Init /\ [][Next]_<<frames, stream>>

\* And everything is posted.
Spec == Safety /\ WF_<<frames, stream>>(Next)
=============================================================================
