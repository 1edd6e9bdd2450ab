---------------------------- MODULE SampleWindow ----------------------------
(***************************************************************************)
(* What a database of the bandwidth collector promises, whoever reads it:  *)
(* it shows the newest samples, oldest first, in a window of fixed length.  *)
(* A sample enters at the end and pushes the oldest one out; a collector   *)
(* that dies while it does so leaves one sample twice and the new one out. *)
(***************************************************************************)
EXTENDS Naturals

CONSTANT WindowSize   \* at least 2

VARIABLE window   \* times of the samples, 0 where there is none yet

Places == 1..WindowSize

Init == window = [i \in Places |-> 0]

Append ==
    /\ window[WindowSize] < window'[WindowSize]
    /\ window' = [i \in Places |-> IF i < WindowSize THEN window[i + 1] ELSE window'[i]]

\* From place k on, everything moves back by one; what comes back at the first place
\* is no newer than what it replaces.
Interrupt(k) ==
    /\ window'[1] <= window[1]
    /\ window' = [i \in Places |-> IF i < k THEN window[i]
                                   ELSE IF i = 1 THEN window'[i] ELSE window[i - 1]]

Next == Append \/ \E k \in Places : Interrupt(k)

Spec == Init /\ [][Next]_window
=============================================================================
