----------------------------- MODULE ByteChannel -----------------------------
(***************************************************************************)
(* What a pipe promises: a bounded first-in first-out channel of bytes.    *)
(* Bytes are taken in the order they were put, each exactly once; nothing  *)
(* is put after the write end is closed; closing the read end discards     *)
(* what was not taken.                                                     *)
(***************************************************************************)
EXTENDS Naturals, Sequences

CONSTANTS Bytes, Capacity

VARIABLES queue, taken, writable, readable

channelVars == <<queue, taken, writable, readable>>

ChannelInit ==
  /\ queue = <<>>
  /\ taken = <<>>
  /\ writable = TRUE
  /\ readable = TRUE

Put ==
  /\ writable /\ readable
  /\ \E n \in 1..(Capacity - Len(queue)) : \E s \in [1..n -> Bytes] : queue' = queue \o s
  /\ UNCHANGED <<taken, writable, readable>>

Take ==
  /\ readable
  /\ \E n \in 1..Len(queue) :
       /\ taken' = taken \o SubSeq(queue, 1, n)
       /\ queue' = SubSeq(queue, n + 1, Len(queue))
  /\ UNCHANGED <<writable, readable>>

CloseWrite ==
  /\ writable' = FALSE
  /\ UNCHANGED <<queue, taken, readable>>

\* Also what closing the write end with an error does.
Discard ==
  /\ readable' = FALSE
  /\ queue' = <<>>
  /\ writable' \in {writable, FALSE}
  /\ UNCHANGED taken

ChannelNext == Put \/ Take \/ CloseWrite \/ Discard

ChannelSpec == ChannelInit /\ [][ChannelNext]_channelVars
=============================================================================
