---------------------------- MODULE MCDdnsUpdater ----------------------------
(* Instances of DdnsUpdater for TLC: two updaters, the old and the new one of an *)
(* ifup (a dead one's wget may linger in its slot), and two addresses.           *)
EXTENDS DdnsUpdater
=============================================================================
