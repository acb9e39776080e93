------------------------------- MODULE MCCircle -------------------------------
(* An instance of Circle for TLC: every kind of system once, in an order that *)
(* has, like the flight order, two visits in a row that may not send.        *)
EXTENDS Circle

MCOrder     == <<"cdte1", "cmos1", "cdtede", "housekeeping", "timepix", "uplink">>
MCCanisters == {"cdte1"}
MCCMOSs     == {"cmos1"}
=============================================================================
