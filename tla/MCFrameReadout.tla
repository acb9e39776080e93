--------------------------- MODULE MCFrameReadout ---------------------------
(* Instances of FrameReadout for TLC: one canister and one CMOS buffer.    *)
EXTENDS FrameReadout

MCBufs     == {"cdte1", "cmos1"}
MCCdTe     == {"cdte1"}
MCCycle    == <<"cdte1", "cmos1">>
MCSystemOf == [b \in MCBufs |-> b]
=============================================================================
