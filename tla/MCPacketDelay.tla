---------------------------- MODULE MCPacketDelay ---------------------------
(* A video timeline with two generations, and an audio lane beside it. *)
EXTENDS PacketDelay
MCStreams == {<<"v", 1>>, <<"v", 2>>, <<"a", 1>>}
MCRequired == {<<"v", 1>>}
MCEncoders == {[lag |-> 0, gop |-> 3], [lag |-> 2, gop |-> 2]}
\* No step reads what the last call returned.
MCView == <<core, last, spent, shown, loose>>
============================================================================
