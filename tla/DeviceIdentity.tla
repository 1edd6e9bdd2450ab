--------------------------- MODULE DeviceIdentity ---------------------------
(***************************************************************************)
(* What the cloud registration of a device promises, with no protocol: the *)
(* box keeps at most one identity, it only ever adopts the identity of a   *)
(* device object that exists in the service, and an object is only retired *)
(* once the box no longer holds it as its identity.                        *)
(* Module Cumulocity is shown to implement this specification.             *)
(***************************************************************************)
CONSTANTS Ids,   \* identities the service can allot
          None   \* "no identity"

VARIABLES identity,  \* the identity the box keeps, or None
          alive      \* the device objects that exist in the service

vars == <<identity, alive>>

Init == identity = None /\ alive = {}

\* The service brings a new device object into being.
Enrol(i) == i \notin alive /\ alive' = alive \union {i} /\ UNCHANGED identity

\* The box takes an existing object as its identity.
Adopt(i) == i \in alive /\ identity' = i /\ UNCHANGED alive

\* The box gives its identity up.
Release == identity' = None /\ UNCHANGED alive

\* An object that is not the box's identity disappears.
Retire(i) == i # identity /\ alive' = alive \ {i} /\ UNCHANGED identity

Next == Release \/ \E i \in Ids : Enrol(i) \/ Adopt(i) \/ Retire(i)

Spec == Init /\ [][Next]_vars
=============================================================================
