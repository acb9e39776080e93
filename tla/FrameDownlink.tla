---------------------------- MODULE FrameDownlink ---------------------------
(***************************************************************************)
(* What the downlink promises of detector frames, whatever happens on the  *)
(* way from the detector.  The ground puts a frame together from packets   *)
(* that carry the buffer, the frame counter, the number of packets and the *)
(* index of the packet (DownlinkBufferElement::get_header).  So frames are *)
(* queued one at a time and in full, and the frames of a buffer are        *)
(* numbered consecutively, from zero each time the program starts.         *)
(***************************************************************************)
EXTENDS Integers, Sequences

CONSTANTS
  Bufs,             \* ring buffers
  PacketsPerFrame,  \* packets into which a frame is cut
  CountMod          \* the frame counter is a uint16_t: 2^16 in the code

VARIABLES
  count,  \* [Bufs -> 0 .. CountMod - 1]: number of the next frame
  queue   \* headers of the packets not yet sent

Header(b, n, i) ==
  [buf |-> b, frame_counter |-> n, of |-> PacketsPerFrame, index |-> i]

Init == /\ count = [b \in Bufs |-> 0]
        /\ queue = <<>>

\* A whole frame of b is queued, under the next number.
Release(b) ==
  /\ queue' = queue \o [i \in 1 .. PacketsPerFrame |-> Header(b, count[b], i)]
  /\ count' = [count EXCEPT ![b] = (@ + 1) % CountMod]

\* All that is queued goes to the ground.
Send == /\ queue' = <<>>
        /\ UNCHANGED count

\* The program starts again.
Reset == /\ count' = [b \in Bufs |-> 0]
         /\ queue' = <<>>

Next == \/ \E b \in Bufs : Release(b)
        \/ Send
        \/ Reset

Spec == Init /\ [][Next]_<<count, queue>>
=============================================================================
