----------------------------- MODULE MCTcpClient -----------------------------
(* Instances of TcpClient for TLC: two channels, one of them written by the      *)
(* daemon and by another writer, and two values; waits of zero or one second     *)
(* stand for the code's 10 and 60, so that every order of the three timers       *)
(* occurs.  Either line of the server matches both patterns.                     *)
EXTENDS TcpClient, TLC
CONSTANTS a, b, v1, v2
MCLines == {a :> v1 @@ b :> v1, a :> v2 @@ b :> v1}
=============================================================================
