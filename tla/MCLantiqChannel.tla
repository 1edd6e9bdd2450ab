--------------------------- MODULE MCLantiqChannel ---------------------------
(* Instances of LantiqChannel for TLC: every number of one digit is in the      *)
(* dialplan, and none of two.                                                   *)
EXTENDS LantiqChannel

OneDigit == {<<digit>> : digit \in Digits}
=============================================================================
