---------------------------- MODULE MCCumulocity ----------------------------
(* Instances of Cumulocity for TLC: one script at a time, three object ids, one *)
(* or two measurement types and alarms; the cfgs choose the switches.           *)
EXTENDS Cumulocity
=============================================================================
