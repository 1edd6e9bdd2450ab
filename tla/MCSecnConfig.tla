---------------------------- MODULE MCSecnConfig ----------------------------
(* SecnConfig with one browser, a run that may wait for the one at work, and    *)
(* the two modes that write options of secn back; the box is shipped with a     *)
(* third.                                                                       *)
EXTENDS SecnConfig
MCChoices == {[port |-> "Mesh", ip |-> "PPPoE"], [port |-> "WiFi", ip |-> "DHCP"]}
=============================================================================
