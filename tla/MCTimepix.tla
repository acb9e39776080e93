------------------------------ MODULE MCTimepix ------------------------------
(* Instances of Timepix for TLC.  The sizes differ, so that replies out of    *)
(* place are also out of size.                                               *)
EXTENDS Timepix

MCSize == [r \in Requests |-> CASE r = "hk" -> 2 [] r = "pcap" -> 2 [] OTHER -> 1]
=============================================================================
