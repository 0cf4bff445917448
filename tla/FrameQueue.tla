----------------------------- MODULE FrameQueue -----------------------------
(***************************************************************************)
(* What the decoder of a channel is promised: the frames received for it,  *)
(* each once, whole and in order.  The abstract specification of           *)
(* RingBuffer: frames are numbered as they are received.                   *)
(***************************************************************************)
EXTENDS Naturals

VARIABLES
    received,    \* the frames received so far
    decoded      \* the frames handed to the decoder so far

Init == received = 0 /\ decoded = 0

Receive == received' = received + 1 /\ UNCHANGED decoded

Decode ==
    /\ decoded < received
    /\ decoded' = decoded + 1
    /\ UNCHANGED received

Spec == Init /\ [][Receive \/ Decode]_<<received, decoded>>
=============================================================================
