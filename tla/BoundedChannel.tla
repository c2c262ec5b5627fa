--------------------------- MODULE BoundedChannel ---------------------------
(***************************************************************************)
(* What the ring between the two audio clocks promises                     *)
(* (src/src/core/audio_spsc_fifo.hpp:69-74): a bounded channel that yields *)
(* whole blocks, once each and in order.                                   *)
(***************************************************************************)
EXTENDS Naturals, Sequences

CONSTANTS
  Capacity,
  Nothing       \* what is no block

VARIABLES
  channel,
  delivered     \* the last block that was received

channelVars == <<channel, delivered>>

ChannelInit == channel = <<>> /\ delivered = Nothing

Send ==
  /\ Len(channel) < Capacity
  /\ Len(channel') = Len(channel) + 1
  /\ channel'[Len(channel) + 1] # Nothing
  /\ channel' = Append(channel, channel'[Len(channel) + 1])
  /\ UNCHANGED delivered

Receive ==
  /\ channel # <<>>
  /\ channel' = Tail(channel)
  /\ delivered' = Head(channel)

ChannelSpec == ChannelInit /\ [][Send \/ Receive]_channelVars

=============================================================================
