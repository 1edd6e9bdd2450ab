-------------------------- MODULE CumulocityProofs --------------------------
(***************************************************************************)
(* Theorems about Cumulocity for any number of scripts, ids and types and  *)
(* for every combination of lost requests, killed scripts and erased       *)
(* configurations.                                                         *)
(***************************************************************************)
EXTENDS Cumulocity, TLAPS

Client == [pc : Labels, opt : AllCommands, svc : Opt(Ids), gid : Opt(Ids),
           types : SUBSET Types, todo : SUBSET Alarms]

(* A script that goes on at a label with an id and a set of types, or ends, *)
(* stays well typed.                                                        *)
LEMMA ProceedType ==
  ASSUME NEW c \in Clients, NEW l \in Labels, NEW g \in Opt(Ids),
         NEW ts \in SUBSET Types,
         client \in [Clients -> Client], Proceed(c, l, g, ts)
  PROVE  client' \in [Clients -> Client]
<1> DEFINE next == [client[c] EXCEPT !.pc = l, !.gid = g, !.types = ts]
<1>1. next \in Client
  BY DEF Client
<1>2. Idle \in Client
  BY DEF Client, Idle, Labels, AllCommands, AlarmCommands, Opt
<1>3. client' = [client EXCEPT ![c] = IF l = "idle" THEN Idle ELSE next]
  BY DEF Proceed
<1> HIDE DEF next
<1> QED
  BY <1>1, <1>2, <1>3

(* The same for a step that keeps the types it was invoked with.            *)
LEMMA ContinueType ==
  ASSUME NEW c \in Clients, NEW l \in Labels, NEW g \in Opt(Ids),
         client \in [Clients -> Client], Continue(c, l, g)
  PROVE  client' \in [Clients -> Client]
<1>1. client[c].types \in SUBSET Types
  BY DEF Client
<1> QED
  BY <1>1, ProceedType DEF Continue

(* The same for the step after a request, which may end the script.         *)
LEMMA AfterRequestType ==
  ASSUME NEW c \in Clients, NEW l \in Labels, NEW g \in Opt(Ids),
         client \in [Clients -> Client], AfterRequest(c, l, g)
  PROVE  client' \in [Clients -> Client]
<1>1. CASE DebugSet
  BY <1>1, ContinueType DEF AfterRequest
<1>2. CASE ~DebugSet
  BY <1>2, ContinueType DEF AfterRequest, Labels
<1> QED
  BY <1>1, <1>2

(* Whatever the scripts, the service and the faults do, every variable      *)
(* keeps to its type; this needs no discipline.                             *)
LEMMA TypeStep ==
  ASSUME TypeOK, [Next]_vars
  PROVE  TypeOK'
<1> USE DEF TypeOK, Client, alarms
<1>1. ASSUME NEW c \in Clients, NEW o \in Commands, NEW ts \in SUBSET Types,
             Start(c, o, ts)
      PROVE  TypeOK'
  <2>1. Job(o) \in Labels
    BY DEF Job, Labels
  <2> QED
    BY <1>1, <2>1, SwitchAssumption DEF Start, Ready, service, alarms, Labels, Opt, At
<1>2. ASSUME NEW c \in Clients, Identify(c)
      PROVE  TypeOK'
  <2>1. PICK l \in Labels, g \in Opt(Ids) : AfterRequest(c, l, g)
    BY <1>2 DEF Identify, Labels, Opt
  <2> QED
    BY <1>2, <2>1, AfterRequestType DEF Identify, service, alarms
<1>3. ASSUME NEW c \in Clients, CreateObject(c)
      PROVE  TypeOK'
  <2>1. CASE \E i \in Ids \ used, r \in Codes(201) :
               /\ used' = used \union {i}
               /\ objects' = objects \union {i}
               /\ AfterRequest(c, IF r = 201 THEN "map" ELSE "idle", i)
    <3>1. PICK i \in Ids \ used, l \in Labels :
               /\ used' = used \union {i}
               /\ objects' = objects \union {i}
               /\ AfterRequest(c, l, i)
      BY <2>1 DEF Labels
    <3> QED
      BY <1>3, <3>1, AfterRequestType DEF CreateObject, Opt
  <2>2. CASE Continue(c, "idle", None) /\ UNCHANGED <<used, objects>>
    BY <1>3, <2>2, ContinueType DEF CreateObject, Labels, Opt
  <2> QED
    BY <1>3, <2>1, <2>2 DEF CreateObject
<1>4. ASSUME NEW c \in Clients, CreateExternalID(c)
      PROVE  TypeOK'
  <2>1. client' \in [Clients -> Client] /\ client[c].gid \in Opt(Ids)
    BY <1>4, AfterRequestType DEF CreateExternalID, Labels
  <2> QED
    BY <1>4, <2>1 DEF CreateExternalID
<1>5. ASSUME NEW c \in Clients, SaveGid(c)
      PROVE  TypeOK'
  <2>1. Job(client[c].opt) \in Labels /\ client[c].gid \in Opt(Ids)
    BY DEF Job, Labels
  <2> QED
    BY <1>5, <2>1, ContinueType DEF SaveGid, service, alarms
<1>6. ASSUME NEW c \in Clients, ForgetGid(c)
      PROVE  TypeOK'
  <2>1. client[c].gid \in Opt(Ids)
    OBVIOUS
  <2> QED
    BY <1>6, <2>1, ContinueType DEF ForgetGid, service, alarms, Labels, Opt
<1>7. ASSUME NEW c \in Clients, DeleteDevice(c)
      PROVE  TypeOK'
  BY <1>7, ContinueType DEF DeleteDevice, Labels, Opt
<1>8. ASSUME NEW c \in Clients, GetObject(c)
      PROVE  TypeOK'
  <2>1. CASE Continue(c, "idle", None)
    BY <1>8, <2>1, ContinueType DEF GetObject, service, alarms, Labels, Opt
  <2>2. CASE /\ client[c].gid \in objects
             /\ \E r \in Codes(200) :
                  Proceed(c, "update", client[c].gid,
                          client[c].types \union ListRead(client[c].gid, r))
    <3>1. PICK r : Proceed(c, "update", client[c].gid,
                           client[c].types \union ListRead(client[c].gid, r))
      BY <2>2
    <3>2. /\ client[c].gid \in Opt(Ids)
          /\ client[c].types \union ListRead(client[c].gid, r) \in SUBSET Types
      BY <2>2 DEF ListRead, Opt
    <3>3. client' \in [Clients -> Client]
      BY <3>1, <3>2, ProceedType DEF Labels
    <3> QED
      BY <1>8, <3>3 DEF GetObject, service, alarms
  <2>3. PICK r \in Codes(IF client[c].gid \in objects THEN 200 ELSE 404) :
               IF ListRead(client[c].gid, r) # {}
               THEN Proceed(c, "update", client[c].gid,
                            client[c].types \union ListRead(client[c].gid, r))
               ELSE Continue(c, "idle", None)
    BY <1>8 DEF GetObject
  <2>4. ListRead(client[c].gid, r) # {} => r = 200
    BY DEF ListRead
  <2>5. r = 200 => client[c].gid \in objects
    BY <2>3 DEF Codes
  <2> QED
    BY <2>1, <2>2, <2>3, <2>4, <2>5
<1>9. ASSUME NEW c \in Clients, UpdateMeasurementTypes(c)
      PROVE  TypeOK'
  BY <1>9, ContinueType DEF UpdateMeasurementTypes, Labels, Opt
<1>10. ASSUME NEW c \in Clients, PostMeasurements(c)
      PROVE  TypeOK'
  BY <1>10, ContinueType DEF PostMeasurements, service, alarms, Labels, Opt
<1>11. ASSUME NEW c \in Clients, Crash(c)
      PROVE  TypeOK'
  BY <1>11, ContinueType DEF Crash, service, alarms, Labels, Opt
<1>12. ASSUME EraseConfig
      PROVE  TypeOK'
  BY <1>12 DEF EraseConfig, service, alarms, Idle, Labels, Opt, AllCommands, AlarmCommands
<1>13. ASSUME NEW i \in Ids, OperatorDeletes(i)
      PROVE  TypeOK'
  BY <1>13 DEF OperatorDeletes, Opt
<1>15. ASSUME NEW c \in Clients, NEW o \in Commands, NEW g \in Ids, StartFor(c, o, g)
       PROVE  TypeOK'
  <2> DEFINE new == [Idle EXCEPT !.pc = Job(o), !.opt = o, !.svc = localGid, !.gid = g]
  <2>1. Job(o) \in Labels /\ o \in AllCommands
    BY <1>15 DEF StartFor, Job, Labels, AllCommands, AlarmCommands
  <2>2. new \in Client
    BY <2>1 DEF Idle, Opt
  <2> QED
    BY <1>15, <2>2 DEF StartFor, service
<1>16. ASSUME NEW c \in Clients, NEW a \in Alarms, StartClear(c, a)
       PROVE  TypeOK'
  <2> DEFINE new == [Idle EXCEPT !.pc = "clear", !.opt = "ca", !.svc = localGid, !.todo = {a}]
  <2>1. new \in Client
    BY DEF Idle, Opt, Labels, AllCommands, AlarmCommands
  <2> QED
    BY <1>16, <2>1 DEF StartClear, service
<1>17. ASSUME NEW c \in Clients, RaiseAlarm(c)
       PROVE  TypeOK'
  <2>1. client' \in [Clients -> Client] /\ client[c].gid \in Opt(Ids)
    BY <1>17, ContinueType DEF RaiseAlarm, Labels, Opt
  <2>2. source' \in [Alarms -> Opt(Ids)] /\ active' \subseteq Alarms
    BY <1>17, <2>1 DEF RaiseAlarm
  <2> QED
    BY <1>17, <2>1, <2>2 DEF RaiseAlarm
<1>18. ASSUME NEW c \in Clients, ListAlarms(c)
       PROVE  TypeOK'
  <2>1. CASE Continue(c, "idle", None)
    BY <1>18, <2>1, ContinueType DEF ListAlarms, service, Labels, Opt
  <2>2. CASE client' = [client EXCEPT ![c].pc = "clear", ![c].todo = AlarmsOf(client[c].gid)]
    <3> DEFINE new == [client[c] EXCEPT !.pc = "clear", !.todo = AlarmsOf(client[c].gid)]
    <3>1. new \in Client
      BY DEF AlarmsOf, Labels
    <3>2. client' = [client EXCEPT ![c] = new]
      BY <2>2
    <3> QED
      BY <1>18, <3>1, <3>2 DEF ListAlarms, service
  <2> QED
    BY <1>18, <2>1, <2>2 DEF ListAlarms
<1>19. ASSUME NEW c \in Clients, ClearAlarm(c)
       PROVE  TypeOK'
  <2>1. active' \subseteq Alarms
    BY <1>19 DEF ClearAlarm
  <2>2. CASE Continue(c, "idle", None)
    BY <1>19, <2>1, <2>2, ContinueType DEF ClearAlarm, Labels, Opt
  <2>3. ASSUME NEW a, client' = [client EXCEPT ![c].todo = client[c].todo \ {a}]
        PROVE  TypeOK'
    <3> DEFINE new == [client[c] EXCEPT !.todo = client[c].todo \ {a}]
    <3>1. new \in Client
      OBVIOUS
    <3>2. client' = [client EXCEPT ![c] = new]
      BY <2>3
    <3> QED
      BY <1>19, <2>1, <3>1, <3>2 DEF ClearAlarm
  <2> QED
    BY <1>19, <2>2, <2>3 DEF ClearAlarm
<1>14. CASE UNCHANGED vars
  BY <1>14 DEF vars, service, alarms
<1> QED
  BY <1>1, <1>2, <1>3, <1>4, <1>5, <1>6, <1>7, <1>8, <1>9, <1>10, <1>11, <1>12,
     <1>13, <1>14, <1>15, <1>16, <1>17, <1>18, <1>19 DEF Next, ScriptStep

THEOREM TypeCorrect == Spec => []TypeOK
<1>1. Init => TypeOK
  BY DEF Init, TypeOK, Idle, Labels, AllCommands, AlarmCommands, Opt
<1> QED
  BY <1>1, TypeStep, PTL DEF Spec

-----------------------------------------------------------------------------
(* The safety of the identity. Discipline (no -d beside another script, and *)
(* nobody deleting the device in the web page) is what it needs, no more.   *)

(* What a step of script c leaves: the other scripts as they were, and c at *)
(* label l with id g, or ended.                                             *)
Moves(c, l, g) ==
  /\ \A d \in Clients \ {c} : client'[d] = client[d]
  /\ client'[c].pc \in {l, "idle"}
  /\ client'[c].pc # "idle" => /\ client'[c].gid = g
                               /\ client'[c].opt = client[c].opt
                               /\ client'[c].svc = client[c].svc

LEMMA ProceedMoves ==
  ASSUME TypeOK, NEW c \in Clients, NEW l, NEW g, NEW ts, Proceed(c, l, g, ts)
  PROVE  Moves(c, l, g)
<1> DEFINE next == [client[c] EXCEPT !.pc = l, !.gid = g, !.types = ts]
<1>1. /\ next.pc = l /\ next.gid = g
      /\ next.opt = client[c].opt /\ next.svc = client[c].svc
  BY DEF TypeOK
<1>2. client' = [client EXCEPT ![c] = IF l = "idle" THEN Idle ELSE next]
  BY DEF Proceed
<1>3. Idle.pc = "idle"
  BY DEF Idle
<1> HIDE DEF next
<1> QED
  BY <1>1, <1>2, <1>3 DEF TypeOK, Moves

LEMMA ContinueMoves ==
  ASSUME TypeOK, NEW c \in Clients, NEW l, NEW g, Continue(c, l, g)
  PROVE  Moves(c, l, g)
  BY ProceedMoves DEF Continue

LEMMA AfterRequestMoves ==
  ASSUME TypeOK, NEW c \in Clients, NEW l, NEW g, AfterRequest(c, l, g)
  PROVE  Moves(c, l, g)
<1>1. Moves(c, l, g) \/ Moves(c, "idle", g)
  BY ContinueMoves DEF AfterRequest
<1> QED
  BY <1>1 DEF Moves

Parts == /\ LocalGidLive /\ MappedLive /\ ScriptsHoldLiveIds
         /\ DeleteRunsAlone /\ OnlyDeleteRemoves /\ OneAtATime

(* Every step of a disciplined system keeps the identity safe. A step that  *)
(* removes an object is -d's, which runs alone and has emptied the config;  *)
(* every other step leaves objects as they are or adds one.                 *)
LEMMA SafetyStep ==
  ASSUME Disciplined, InductiveInvariant, [Next]_vars
  PROVE  Parts'
<1> USE SwitchAssumption, NoneAssumption DEF InductiveInvariant, Parts, At,
      LocalGidLive, MappedLive, ScriptsHoldLiveIds, DeleteRunsAlone,
      OnlyDeleteRemoves, OneAtATime
<1>1. ASSUME NEW c \in Clients, NEW o \in Commands, NEW ts \in SUBSET Types,
             Start(c, o, ts)
      PROVE  Parts'
  <2>1. /\ \A d \in Clients \ {c} : client'[d] = client[d]
        /\ client'[c].opt = o
        /\ client'[c].svc = localGid
        /\ client'[c].pc \in {"identify", "update", "fetch", "post", "raise", "list", "idle"}
        /\ o = "d" => client'[c].pc = "identify"
        /\ client'[c].pc \in {"update", "fetch", "post"} =>
                client'[c].gid = localGid /\ localGid # None
    BY <1>1 DEF Start, Job, TypeOK, AllCommands, AlarmCommands
  <2>2. UNCHANGED <<localGid, objects, mapped>> /\ client[c].pc = "idle"
    BY <1>1 DEF Start, Ready, service, alarms
  <2>3. ~Overlap \/ o = "d" => \A d \in Clients : client[d].pc = "idle"
    BY <1>1 DEF Start, Ready, Disciplined
  <2>4. LocalGidLive' /\ MappedLive' /\ ScriptsHoldLiveIds' /\ OnlyDeleteRemoves'
    BY <2>1, <2>2
  <2>5. DeleteRunsAlone'
    <3> SUFFICES ASSUME NEW d \in Clients, client'[d].opt = "d", client'[d].pc # "idle"
                 PROVE  /\ "d" \in Commands
                        /\ \A e \in Clients : e # d => client'[e].pc = "idle"
                        /\ client'[d].pc \in {"identify", "forget", "remove"}
                        /\ client'[d].pc \in {"identify", "forget"} =>
                                client'[d].svc = localGid'
                        /\ client'[d].pc = "remove" => localGid' = None
      OBVIOUS
    <3>1. CASE d = c
      BY <2>1, <2>2, <2>3, <3>1
    <3>2. CASE d # c
      BY <2>1, <2>2, <2>3, <3>2 DEF Disciplined, TypeOK
    <3> QED
      BY <3>1, <3>2
  <2>6. OneAtATime'
    BY <2>1, <2>2, <2>3
  <2> QED
    BY <2>4, <2>5, <2>6
<1>2. ASSUME NEW c \in Clients, Identify(c)
      PROVE  Parts'
  <2>1. PICK l, g : /\ Moves(c, l, g)
                    /\ \/ l = "forget" /\ client[c].opt = "d" /\ mapped # None /\ g = mapped
                       \/ l = "save" /\ client[c].opt # "d" /\ mapped # None /\ g = mapped
                       \/ l = "create" /\ client[c].opt # "d"
                       \/ l = "idle"
    BY <1>2, AfterRequestMoves DEF Identify, Codes
  <2>2. UNCHANGED <<localGid, objects, mapped>> /\ client[c].pc = "identify"
    BY <1>2 DEF Identify, service, alarms
  <2> QED
    BY <2>1, <2>2 DEF Moves
<1>3. ASSUME NEW c \in Clients, CreateObject(c)
      PROVE  Parts'
  <2>1. PICK l, g : /\ Moves(c, l, g)
                    /\ l # "idle" => l = "map" /\ g \in objects'
    BY <1>3, AfterRequestMoves, ContinueMoves DEF CreateObject
  <2>2. /\ UNCHANGED <<localGid, mapped>> /\ client[c].pc = "create"
        /\ objects \subseteq objects'
    BY <1>3 DEF CreateObject
  <2> QED
    BY <2>1, <2>2 DEF Moves
<1>4. ASSUME NEW c \in Clients, CreateExternalID(c)
      PROVE  Parts'
  <2>1. Moves(c, "save", client[c].gid)
    BY <1>4, AfterRequestMoves DEF CreateExternalID
  <2>2. /\ UNCHANGED <<localGid, objects>> /\ client[c].pc = "map"
        /\ mapped' = mapped \/ mapped' \in objects
    BY <1>4 DEF CreateExternalID
  <2> QED
    BY <2>1, <2>2 DEF Moves
<1>5. ASSUME NEW c \in Clients, SaveGid(c)
      PROVE  Parts'
  <2>1. PICK l \in {"idle", "update", "fetch", "post", "raise", "list"} : Moves(c, l, client[c].gid)
    BY <1>5, ContinueMoves DEF SaveGid, Job
  <2>2. /\ UNCHANGED <<objects, mapped>> /\ client[c].pc = "save"
        /\ localGid' = client[c].gid
    BY <1>5 DEF SaveGid, service, alarms
  <2> QED
    BY <2>1, <2>2 DEF Moves
<1>6. ASSUME NEW c \in Clients, ForgetGid(c)
      PROVE  Parts'
  <2>1. Moves(c, "remove", client[c].gid)
    BY <1>6, ContinueMoves DEF ForgetGid
  <2>2. UNCHANGED <<objects, mapped>> /\ client[c].pc = "forget" /\ localGid' = None
    BY <1>6 DEF ForgetGid, service, alarms
  <2> QED
    BY <2>1, <2>2 DEF Moves
<1>7. ASSUME NEW c \in Clients, DeleteDevice(c)
      PROVE  Parts'
  <2>1. Moves(c, "idle", None)
    BY <1>7, ContinueMoves DEF DeleteDevice
  <2>2. /\ UNCHANGED localGid /\ client[c].pc = "remove"
        /\ mapped' # None => mapped' \in objects'
    BY <1>7 DEF DeleteDevice
  <2> QED
    BY <2>1, <2>2 DEF Moves
<1>8. ASSUME NEW c \in Clients, GetObject(c)
      PROVE  Parts'
  <2>1. PICK l, g : /\ Moves(c, l, g)
                    /\ l # "idle" => l = "update" /\ g = client[c].gid
    BY <1>8, ContinueMoves, ProceedMoves DEF GetObject
  <2>2. UNCHANGED <<localGid, objects, mapped>> /\ client[c].pc = "fetch"
    BY <1>8 DEF GetObject, service, alarms
  <2> QED
    BY <2>1, <2>2 DEF Moves
<1>9. ASSUME NEW c \in Clients,
             \/ UpdateMeasurementTypes(c) \/ PostMeasurements(c)
             \/ RaiseAlarm(c) \/ Crash(c)
      PROVE  Parts'
  <2>1. Moves(c, "idle", None)
    BY <1>9, ContinueMoves DEF UpdateMeasurementTypes, PostMeasurements, RaiseAlarm, Crash
  <2>2. UNCHANGED <<localGid, objects, mapped>>
    BY <1>9 DEF UpdateMeasurementTypes, PostMeasurements, RaiseAlarm, Crash, service, alarms
  <2> QED
    BY <2>1, <2>2 DEF Moves
<1>13. ASSUME NEW c \in Clients,
              \/ \E o \in Commands, g \in Ids : StartFor(c, o, g)
              \/ \E a \in Alarms : StartClear(c, a)
       PROVE  Parts'
  <2>1. /\ \A d \in Clients \ {c} : client'[d] = client[d]
        /\ client'[c].pc \in {"raise", "list", "clear"} /\ client'[c].opt # "d"
    <3>1. CASE \E o \in Commands, g \in Ids : StartFor(c, o, g)
      BY <3>1 DEF StartFor, Job, Idle, TypeOK
    <3>2. CASE \E a \in Alarms : StartClear(c, a)
      BY <3>2 DEF StartClear, Idle, TypeOK
    <3> QED
      BY <1>13, <3>1, <3>2
  <2>2. UNCHANGED <<localGid, objects, mapped>> /\ client[c].pc = "idle"
    BY <1>13 DEF StartFor, StartClear, Ready, service
  <2>3. ~Overlap => \A d \in Clients : client[d].pc = "idle"
    BY <1>13 DEF StartFor, StartClear, Ready
  <2>4. \A d \in Clients : client[d].opt = "d" /\ client[d].pc # "idle" => ~Overlap
    BY DEF Disciplined
  <2>5. LocalGidLive' /\ MappedLive' /\ ScriptsHoldLiveIds' /\ OnlyDeleteRemoves'
    BY <2>1, <2>2
  <2>6. DeleteRunsAlone'
    BY <2>1, <2>2, <2>3, <2>4
  <2>7. OneAtATime'
    BY <2>1, <2>2, <2>3
  <2> QED
    BY <2>5, <2>6, <2>7
<1>14. ASSUME NEW c \in Clients, ListAlarms(c) \/ ClearAlarm(c)
       PROVE  Parts'
  <2>1. Moves(c, "clear", client[c].gid) \/ Moves(c, "idle", None)
    <3>1. CASE Continue(c, "idle", None)
      BY <3>1, ContinueMoves
    <3>2. CASE ~Continue(c, "idle", None)
      BY <1>14, <3>2 DEF ListAlarms, ClearAlarm, Moves, TypeOK
    <3> QED
      BY <3>1, <3>2
  <2>2. UNCHANGED <<localGid, objects, mapped>> /\ client[c].pc \in {"list", "clear"}
    BY <1>14 DEF ListAlarms, ClearAlarm, service
  <2> QED
    BY <2>1, <2>2 DEF Moves
<1>10. CASE EraseConfig
  BY <1>10 DEF EraseConfig, service, alarms, Idle
<1>11. ASSUME NEW i \in Ids, OperatorDeletes(i)
       PROVE  Parts'
  BY <1>11 DEF OperatorDeletes, Disciplined
<1>12. CASE UNCHANGED vars
  BY <1>12 DEF vars, service, alarms
<1> QED
  BY <1>1, <1>2, <1>3, <1>4, <1>5, <1>6, <1>7, <1>8, <1>9, <1>10, <1>11, <1>12,
     <1>13, <1>14 DEF Next, ScriptStep

(* Disciplined use keeps the inductive invariant, whatever is lost, killed  *)
(* or erased: its constituents explain each other (see their comments).     *)
THEOREM InductiveInvariantHolds ==
  ASSUME Disciplined
  PROVE  Spec => []InductiveInvariant
<1>1. Init => InductiveInvariant
  BY DEF Init, InductiveInvariant, TypeOK, Idle, Labels, AllCommands, AlarmCommands, Opt, At,
      LocalGidLive, MappedLive, ScriptsHoldLiveIds, DeleteRunsAlone,
      OnlyDeleteRemoves, OneAtATime
<1>2. InductiveInvariant /\ [Next]_vars => InductiveInvariant'
  BY TypeStep, SafetyStep DEF InductiveInvariant, Parts
<1> QED
  BY <1>1, <1>2, PTL DEF Spec

(* The committed GlobalID never dangles: for any number of scripts, with    *)
(* lost requests, killed scripts and erased configurations, as long as -d   *)
(* never overlaps another invocation (SaveGid, ForgetGid, DeleteDevice).    *)
THEOREM LocalGidNeverDangles ==
  ASSUME Disciplined
  PROVE  Spec => []LocalGidLive
  BY InductiveInvariantHolds, PTL DEF InductiveInvariant

(* Nor is a request ever addressed to an object that is gone.               *)
THEOREM RequestsReachLiveDevices ==
  ASSUME Disciplined
  PROVE  Spec => []AddressesLiveDevice
<1>1. InductiveInvariant => AddressesLiveDevice
  BY DEF InductiveInvariant, ScriptsHoldLiveIds, AddressesLiveDevice
<1> QED
  BY <1>1, InductiveInvariantHolds, PTL

-----------------------------------------------------------------------------
(* A disciplined step changes the config and the set of objects the way     *)
(* DeviceIdentity allows: adopting a live id, releasing it, enrolling an    *)
(* object or retiring one the config does not name.                         *)
LEMMA IdentityStep ==
  ASSUME Disciplined, InductiveInvariant, [Next]_vars
  PROVE  [Identity!Next]_(Identity!vars)
<1> USE DEF Identity!Next, Identity!vars, Identity!Enrol, Identity!Adopt,
            Identity!Release, Identity!Retire
<1>1. ASSUME NEW c \in Clients, CreateObject(c)
      PROVE  [Identity!Next]_(Identity!vars)
  BY <1>1 DEF CreateObject, InductiveInvariant, TypeOK
<1>2. ASSUME NEW c \in Clients, SaveGid(c)
      PROVE  [Identity!Next]_(Identity!vars)
  BY <1>2 DEF SaveGid, service, alarms, InductiveInvariant, ScriptsHoldLiveIds, TypeOK, At
<1>3. ASSUME NEW c \in Clients, ForgetGid(c)
      PROVE  [Identity!Next]_(Identity!vars)
  BY <1>3 DEF ForgetGid, service, alarms
<1>4. ASSUME NEW c \in Clients, DeleteDevice(c)
      PROVE  [Identity!Next]_(Identity!vars)
  <2>1. localGid = None /\ UNCHANGED localGid
    BY <1>4 DEF DeleteDevice, InductiveInvariant, DeleteRunsAlone, OnlyDeleteRemoves, At
  <2>2. CASE UNCHANGED objects
    BY <2>1, <2>2
  <2>3. CASE objects' = objects \ {client[c].gid} /\ client[c].gid \in objects
    BY <2>1, <2>3, NoneAssumption DEF InductiveInvariant, TypeOK
  <2>4. objects' = objects \/ objects' = objects \ {client[c].gid}
    BY <1>4 DEF DeleteDevice
  <2> QED
    BY <2>2, <2>3, <2>4
<1>5. CASE EraseConfig
  BY <1>5 DEF EraseConfig, service, alarms
<1>6. ASSUME UNCHANGED <<localGid, objects>>
      PROVE  [Identity!Next]_(Identity!vars)
  BY <1>6
<1>7. ASSUME NEW c \in Clients,
             \/ \E o \in Commands, ts \in SUBSET Types : Start(c, o, ts)
             \/ \E o \in Commands, g \in Ids : StartFor(c, o, g)
             \/ \E a \in Alarms : StartClear(c, a)
             \/ Identify(c) \/ CreateExternalID(c) \/ GetObject(c)
             \/ UpdateMeasurementTypes(c) \/ PostMeasurements(c)
             \/ RaiseAlarm(c) \/ ListAlarms(c) \/ ClearAlarm(c) \/ Crash(c)
      PROVE  UNCHANGED <<localGid, objects>>
  BY <1>7 DEF Start, StartFor, StartClear, Identify, CreateExternalID, GetObject,
              UpdateMeasurementTypes, PostMeasurements, RaiseAlarm, ListAlarms,
              ClearAlarm, Crash, service
<1>8. ~ \E i \in Ids : OperatorDeletes(i)
  BY DEF OperatorDeletes, Disciplined
<1>9. CASE UNCHANGED vars
  BY <1>9 DEF vars, service
<1> QED
  BY <1>1, <1>2, <1>3, <1>4, <1>5, <1>6, <1>7, <1>8, <1>9 DEF Next, ScriptStep

(* Used with discipline, the scripts implement DeviceIdentity.              *)
THEOREM Refinement ==
  ASSUME Disciplined
  PROVE  Spec => ImplementsIdentity
<1>1. Init => Identity!Init
  BY DEF Init, Identity!Init
<1>2. InductiveInvariant /\ [Next]_vars => [Identity!Next]_(Identity!vars)
  BY IdentityStep
<1> QED
  BY <1>1, <1>2, InductiveInvariantHolds, PTL DEF Spec, ImplementsIdentity, Identity!Spec

-----------------------------------------------------------------------------
(* One invocation at a time.                                                *)

Invoked(c) == \/ \E o \in Commands, ts \in SUBSET Types : Start(c, o, ts)
              \/ \E o \in Commands, g \in Ids : StartFor(c, o, g)
              \/ \E a \in Alarms : StartClear(c, a)

(* Every step but the two around the scripts is one script's.               *)
LEMMA WhoseStep ==
  ASSUME [Next]_vars
  PROVE  \/ \E c \in Clients : Invoked(c) \/ ScriptStep(c) \/ Crash(c)
         \/ EraseConfig
         \/ \E i \in Ids : OperatorDeletes(i)
         \/ UNCHANGED vars
  BY DEF Next, Invoked

(* A script's step is no other's, and one that starts finds the slot free.  *)
LEMMA OthersStay ==
  ASSUME TypeOK, NEW c \in Clients, Invoked(c) \/ ScriptStep(c) \/ Crash(c)
  PROVE  /\ \A d \in Clients \ {c} : client'[d] = client[d]
         /\ client[c].pc = "idle" => Ready(c)
<1>1. CASE Invoked(c)
  <2>1. Ready(c) /\ \E new : client' = [client EXCEPT ![c] = new]
    BY <1>1 DEF Invoked, Start, StartFor, StartClear
  <2> QED
    BY <2>1 DEF TypeOK
<1>2. CASE ScriptStep(c) \/ Crash(c)
  <2>1. client[c].pc # "idle"
    BY <1>2 DEF ScriptStep, Crash, Identify, CreateObject, CreateExternalID, SaveGid,
       ForgetGid, DeleteDevice, GetObject, UpdateMeasurementTypes, PostMeasurements,
       RaiseAlarm, ListAlarms, ClearAlarm, At
  <2>2. ASSUME NEW l, NEW g, NEW ts, Proceed(c, l, g, ts)
        PROVE  \A d \in Clients \ {c} : client'[d] = client[d]
    BY <2>2 DEF Proceed, TypeOK
  <2>3. ASSUME NEW l, NEW g, Continue(c, l, g) \/ AfterRequest(c, l, g)
        PROVE  \A d \in Clients \ {c} : client'[d] = client[d]
    BY <2>2, <2>3 DEF Continue, AfterRequest
  <2>4. CASE Identify(c) \/ CreateObject(c) \/ CreateExternalID(c)
    BY <2>1, <2>3, <2>4 DEF Identify, CreateObject, CreateExternalID
  <2>5. CASE SaveGid(c) \/ ForgetGid(c) \/ DeleteDevice(c) \/ UpdateMeasurementTypes(c)
             \/ PostMeasurements(c) \/ RaiseAlarm(c) \/ Crash(c)
    BY <2>1, <2>3, <2>5 DEF SaveGid, ForgetGid, DeleteDevice, UpdateMeasurementTypes,
       PostMeasurements, RaiseAlarm, Crash
  <2>6. CASE GetObject(c)
    BY <2>1, <2>2, <2>3, <2>6 DEF GetObject
  <2>7. CASE ListAlarms(c) \/ ClearAlarm(c)
    <3>1. CASE Continue(c, "idle", None)
      BY <2>1, <2>3, <3>1
    <3>2. CASE ~Continue(c, "idle", None)
      BY <2>1, <2>7, <3>2 DEF ListAlarms, ClearAlarm, TypeOK
    <3> QED
      BY <3>1, <3>2
  <2> QED
    BY <1>2, <2>4, <2>5, <2>6, <2>7 DEF ScriptStep
<1> QED
  BY <1>1, <1>2

(* So the script that acts is the only one there is.                        *)
LEMMA OnlyOne ==
  ASSUME ~Overlap, TypeOK, OneAtATime, NEW c \in Clients,
         Invoked(c) \/ ScriptStep(c) \/ Crash(c)
  PROVE  \A d \in Clients \ {c} : client[d].pc = "idle" /\ client'[d].pc = "idle"
  BY OthersStay DEF OneAtATime, Ready, At

LEMMA OneAtATimeStep ==
  ASSUME ~Overlap, TypeOK, OneAtATime, [Next]_vars
  PROVE  OneAtATime'
<1>1. ASSUME NEW c \in Clients, Invoked(c) \/ ScriptStep(c) \/ Crash(c)
      PROVE  OneAtATime'
  BY <1>1, OnlyOne DEF OneAtATime, At
<1>2. CASE EraseConfig
  BY <1>2 DEF EraseConfig, Idle, OneAtATime, At
<1>3. CASE UNCHANGED client
  BY <1>3 DEF OneAtATime, At
<1> QED
  BY <1>1, <1>2, <1>3, WhoseStep DEF OperatorDeletes, vars

LEMMA InitOneAtATime == Init => OneAtATime
  BY DEF Init, OneAtATime, Idle, At

-----------------------------------------------------------------------------
(* Box and service agree, whatever is lost, killed, erased or removed.      *)

AloneAt(c) ==
  /\ client[c].pc \in {"identify", "create", "map", "save"} /\ client[c].opt # "d"
         => localGid = None
  /\ client[c].pc \in {"create", "map", "save"} => client[c].opt # "d"
  /\ client[c].pc \in {"create", "map"} => mapped = None
  /\ client[c].pc = "save" => mapped \in {None, client[c].gid}

LEMMA RegistersParts == RegistersAlone <=> \A c \in Clients : AloneAt(c)
  BY DEF RegistersAlone, AloneAt, At

(* A step of the one script has to keep its own part.                       *)
LEMMA AloneIsEnough ==
  ASSUME ~Overlap, TypeOK, OneAtATime, NEW c \in Clients,
         Invoked(c) \/ ScriptStep(c) \/ Crash(c), AloneAt(c)'
  PROVE  RegistersAlone'
<1>1. \A d \in Clients \ {c} : AloneAt(d)'
  BY OnlyOne DEF AloneAt
<1> QED
  BY <1>1 DEF RegistersAlone, AloneAt, At

LEMMA IdentityInvariantStep ==
  ASSUME ~Overlap, IdentityInvariant, [Next]_vars
  PROVE  OneIdentity' /\ RegistersAlone'
<1>a. TypeOK /\ OneAtATime /\ OneIdentity /\ \A c \in Clients : AloneAt(c)
  BY RegistersParts DEF IdentityInvariant
<1>b. ASSUME NEW c \in Clients, Invoked(c) \/ ScriptStep(c) \/ Crash(c),
             AloneAt(c)', OneIdentity'
      PROVE  OneIdentity' /\ RegistersAlone'
  BY <1>a, <1>b, AloneIsEnough
<1> USE DEF At, OneIdentity
<1>1. ASSUME NEW c \in Clients, Invoked(c)
      PROVE  OneIdentity' /\ RegistersAlone'
  <2>1. UNCHANGED <<localGid, mapped>>
    BY <1>1 DEF Invoked, Start, StartFor, StartClear, service
  <2>2. /\ client'[c].pc \notin {"create", "map", "save"}
        /\ client'[c].pc = "identify" /\ client'[c].opt # "d" => localGid = None
    <3>1. CASE \E o \in Commands, ts \in SUBSET Types : Start(c, o, ts)
      BY <1>a, <3>1 DEF Start, Job, TypeOK
    <3>2. CASE \E o \in Commands, g \in Ids : StartFor(c, o, g)
      BY <1>a, <3>2 DEF StartFor, Job, Idle, TypeOK
    <3>3. CASE \E a \in Alarms : StartClear(c, a)
      BY <1>a, <3>3 DEF StartClear, Idle, TypeOK
    <3> QED
      BY <1>1, <3>1, <3>2, <3>3 DEF Invoked
  <2> QED
    BY <1>a, <1>b, <1>1, <2>1, <2>2 DEF AloneAt
<1>2. ASSUME NEW c \in Clients, Identify(c)
      PROVE  OneIdentity' /\ RegistersAlone'
  <2>1. PICK l, g : /\ Moves(c, l, g)
                    /\ \/ l = "forget"
                       \/ l = "save" /\ client[c].opt # "d" /\ g = mapped
                       \/ l = "create" /\ client[c].opt # "d" /\ mapped = None
                       \/ l = "idle"
    BY <1>a, <1>2, AfterRequestMoves DEF Identify, Codes
  <2>2. UNCHANGED <<localGid, mapped>> /\ client[c].pc = "identify"
    BY <1>2 DEF Identify, service
  <2>3. AloneAt(c)'
    BY <1>a, <2>1, <2>2 DEF Moves, AloneAt
  <2> QED
    BY <1>a, <1>b, <1>2, <2>2, <2>3 DEF ScriptStep
<1>3. ASSUME NEW c \in Clients, CreateObject(c)
      PROVE  OneIdentity' /\ RegistersAlone'
  <2>1. PICK l, g : l \in {"map", "idle"} /\ Moves(c, l, g)
    BY <1>a, <1>3, AfterRequestMoves, ContinueMoves DEF CreateObject
  <2>2. UNCHANGED <<localGid, mapped>> /\ client[c].pc = "create"
    BY <1>3 DEF CreateObject
  <2>3. AloneAt(c)'
    BY <1>a, <2>1, <2>2 DEF Moves, AloneAt
  <2> QED
    BY <1>a, <1>b, <1>3, <2>2, <2>3 DEF ScriptStep
<1>4. ASSUME NEW c \in Clients, CreateExternalID(c)
      PROVE  OneIdentity' /\ RegistersAlone'
  <2>1. Moves(c, "save", client[c].gid)
    BY <1>a, <1>4, AfterRequestMoves DEF CreateExternalID
  <2>2. /\ UNCHANGED localGid /\ client[c].pc = "map"
        /\ mapped' \in {mapped, client[c].gid}
    BY <1>4 DEF CreateExternalID
  <2>3. localGid = None /\ mapped = None
    BY <1>a, <2>2 DEF AloneAt
  <2>4. AloneAt(c)'
    BY <1>a, <2>1, <2>2, <2>3 DEF Moves, AloneAt
  <2> QED
    BY <1>a, <1>b, <1>4, <2>2, <2>3, <2>4 DEF ScriptStep
<1>5. ASSUME NEW c \in Clients, SaveGid(c)
      PROVE  OneIdentity' /\ RegistersAlone'
  <2>1. PICK l \in {"idle", "update", "fetch", "post", "raise", "list"} :
             Moves(c, l, client[c].gid)
    BY <1>a, <1>5, ContinueMoves DEF SaveGid, Job
  <2>2. UNCHANGED mapped /\ client[c].pc = "save" /\ localGid' = client[c].gid
    BY <1>5 DEF SaveGid, service
  <2>3. AloneAt(c)'
    BY <2>1 DEF Moves, AloneAt
  <2>4. OneIdentity'
    BY <1>a, <2>2 DEF AloneAt
  <2> QED
    BY <1>b, <1>5, <2>3, <2>4 DEF ScriptStep
<1>6. ASSUME NEW c \in Clients, ForgetGid(c) \/ DeleteDevice(c)
      PROVE  OneIdentity' /\ RegistersAlone'
  <2>1. Moves(c, "remove", client[c].gid) \/ Moves(c, "idle", None)
    BY <1>a, <1>6, ContinueMoves DEF ForgetGid, DeleteDevice
  <2>2. localGid' \in {localGid, None} /\ mapped' \in {mapped, None}
    BY <1>6 DEF ForgetGid, DeleteDevice, service
  <2>3. AloneAt(c)'
    BY <2>1 DEF Moves, AloneAt
  <2> QED
    BY <1>a, <1>b, <1>6, <2>2, <2>3 DEF ScriptStep
<1>7. ASSUME NEW c \in Clients, GetObject(c) \/ UpdateMeasurementTypes(c)
             \/ PostMeasurements(c) \/ RaiseAlarm(c) \/ ListAlarms(c) \/ ClearAlarm(c)
             \/ Crash(c)
      PROVE  OneIdentity' /\ RegistersAlone'
  <2>1. client'[c].pc \in {"update", "clear", "idle"}
    <3>1. CASE Continue(c, "idle", None)
      BY <1>a, <3>1, ContinueMoves DEF Moves
    <3>2. CASE GetObject(c) /\ ~Continue(c, "idle", None)
      BY <1>a, <3>2, ProceedMoves DEF GetObject, Moves
    <3>3. CASE (ListAlarms(c) \/ ClearAlarm(c)) /\ ~Continue(c, "idle", None)
      BY <1>a, <3>3 DEF ListAlarms, ClearAlarm, TypeOK
    <3> QED
      BY <1>7, <3>1, <3>2, <3>3 DEF UpdateMeasurementTypes, PostMeasurements, RaiseAlarm,
         Crash
  <2>2. UNCHANGED <<localGid, mapped>>
    BY <1>7 DEF GetObject, UpdateMeasurementTypes, PostMeasurements, RaiseAlarm,
       ListAlarms, ClearAlarm, Crash, service
  <2>3. AloneAt(c)'
    BY <2>1 DEF AloneAt
  <2> QED
    BY <1>a, <1>b, <1>7, <2>2, <2>3 DEF ScriptStep
<1>8. CASE EraseConfig
  BY <1>8 DEF EraseConfig, Idle, RegistersAlone
<1>9. ASSUME NEW i \in Ids, OperatorDeletes(i)
      PROVE  OneIdentity' /\ RegistersAlone'
  <2>1. UNCHANGED <<localGid, client>> /\ mapped' \in {mapped, None}
    BY <1>9 DEF OperatorDeletes
  <2>2. \A c \in Clients : AloneAt(c)'
    BY <1>a, <2>1 DEF AloneAt
  <2> QED
    BY <1>a, <2>1, <2>2 DEF RegistersAlone, AloneAt
<1>10. CASE UNCHANGED vars
  BY <1>10 DEF vars, service, IdentityInvariant, RegistersAlone
<1> QED
  BY <1>1, <1>2, <1>3, <1>4, <1>5, <1>6, <1>7, <1>8, <1>9, <1>10, WhoseStep DEF ScriptStep

(* While invocations do not overlap, box and service agree who the box is,  *)
(* whatever requests are lost, scripts killed, configurations erased and    *)
(* devices removed in the web page.                                         *)
THEOREM OneIdentityAlways ==
  ASSUME ~Overlap
  PROVE  Spec => []OneIdentity
<1>1. Init => IdentityInvariant
  <2> SUFFICES ASSUME Init PROVE IdentityInvariant
    OBVIOUS
  <2>1. TypeOK
    BY DEF Init, TypeOK, Idle, Labels, AllCommands, AlarmCommands, Opt
  <2>2. OneIdentity /\ RegistersAlone
    BY DEF Init, OneIdentity, RegistersAlone, Idle, At
  <2> QED
    BY <2>1, <2>2, InitOneAtATime DEF IdentityInvariant
<1>2. IdentityInvariant /\ [Next]_vars => IdentityInvariant'
  BY TypeStep, OneAtATimeStep, IdentityInvariantStep DEF IdentityInvariant
<1>3. IdentityInvariant => OneIdentity
  BY DEF IdentityInvariant
<1> QED
  BY <1>1, <1>2, <1>3, PTL DEF Spec

-----------------------------------------------------------------------------
(* Between runs the service has the one object the box knows, or none.      *)

(* Where a script goes when requests are not lost and the debug option is   *)
(* set: to the label l and no other.                                        *)
Goes(c, l, g) == /\ client'[c].pc = l
                 /\ l # "idle" => client'[c].gid = g /\ client'[c].opt = client[c].opt

LEMMA ProceedGoes ==
  ASSUME TypeOK, NEW c \in Clients, NEW l, NEW g, NEW ts, Proceed(c, l, g, ts)
  PROVE  Goes(c, l, g)
<1> DEFINE next == [client[c] EXCEPT !.pc = l, !.gid = g, !.types = ts]
<1>1. next.pc = l /\ next.gid = g /\ next.opt = client[c].opt
  BY DEF TypeOK
<1>2. client' = [client EXCEPT ![c] = IF l = "idle" THEN Idle ELSE next]
  BY DEF Proceed
<1>3. Idle.pc = "idle"
  BY DEF Idle
<1> HIDE DEF next
<1> QED
  BY <1>1, <1>2, <1>3 DEF TypeOK, Goes

LEMMA ContinueGoes ==
  ASSUME TypeOK, NEW c \in Clients, NEW l, NEW g,
         Continue(c, l, g) \/ (DebugSet /\ AfterRequest(c, l, g))
  PROVE  Goes(c, l, g)
  BY ProceedGoes DEF Continue, AfterRequest

(* The labels of a script that is creating or removing the object.          *)
Busy == {"create", "map", "save", "forget", "remove"}
AccountedAt(c) ==
  /\ client[c].pc = "create" => objects = {} /\ mapped = None
  /\ client[c].pc = "map" => objects \subseteq {client[c].gid} /\ mapped = None
  /\ client[c].pc \in {"save", "forget", "remove"} => Registered(client[c].gid)

LEMMA AccountedParts ==
  ObjectAccountedFor <=> /\ (\A c \in Clients : client[c].pc \notin Busy) => Registered(localGid)
                         /\ \A c \in Clients : AccountedAt(c)
  BY DEF ObjectAccountedFor, AccountedAt, Busy, At

(* The one script has to account for the object, if it is busy with it, or  *)
(* to leave it as the config knows it.                                      *)
LEMMA AccountedIsEnough ==
  ASSUME ~Overlap, TypeOK, OneAtATime, NEW c \in Clients,
         Invoked(c) \/ ScriptStep(c) \/ Crash(c),
         AccountedAt(c)', client'[c].pc \notin Busy => Registered(localGid)'
  PROVE  ObjectAccountedFor'
<1>1. \A d \in Clients \ {c} : AccountedAt(d)'
  BY OnlyOne DEF AccountedAt
<1>2. \A d \in Clients : AccountedAt(d)'
  BY <1>1
<1> QED
  BY <1>2 DEF ObjectAccountedFor, AccountedAt, Busy, At

(* A script that acts and is not busy finds the object as the config knows  *)
(* it.                                                                      *)
LEMMA FoundRegistered ==
  ASSUME ~Overlap, TypeOK, OneAtATime, ObjectAccountedFor, NEW c \in Clients,
         Invoked(c) \/ ScriptStep(c) \/ Crash(c), client[c].pc \notin Busy
  PROVE  Registered(localGid)
<1>1. \A d \in Clients : client[d].pc \notin Busy
  BY OnlyOne DEF Busy
<1> QED
  BY <1>1, AccountedParts

LEMMA AccountedStep ==
  ASSUME ~Overlap, DebugSet, Faults \subseteq {"operator"},
         TypeOK, OneAtATime, ObjectAccountedFor, [Next]_vars
  PROVE  ObjectAccountedFor'
<1> USE DEF At
<1>a. \A k : Codes(k) = {k}
  BY DEF Codes
<1>b. \A c \in Clients : AccountedAt(c)
  BY AccountedParts
<1>c. objects \subseteq Ids /\ None \notin Ids
  BY NoneAssumption DEF TypeOK
<1>1. ASSUME NEW c \in Clients, Invoked(c)
      PROVE  ObjectAccountedFor'
  <2>1. UNCHANGED <<localGid, objects, mapped>> /\ client[c].pc = "idle"
    BY <1>1 DEF Invoked, Start, StartFor, StartClear, Ready, service
  <2>2. client'[c].pc \notin Busy
    <3>1. CASE \E o \in Commands, ts \in SUBSET Types : Start(c, o, ts)
      BY <3>1 DEF Start, Job, TypeOK, Busy
    <3>2. CASE \E o \in Commands, g \in Ids : StartFor(c, o, g)
      BY <3>2 DEF StartFor, Job, Idle, TypeOK, Busy
    <3>3. CASE \E a \in Alarms : StartClear(c, a)
      BY <3>3 DEF StartClear, Idle, TypeOK, Busy
    <3> QED
      BY <1>1, <3>1, <3>2, <3>3 DEF Invoked
  <2>3. Registered(localGid)
    BY <1>1, <2>1, FoundRegistered DEF Busy
  <2> QED
    BY <1>1, <2>1, <2>2, <2>3, AccountedIsEnough DEF AccountedAt, Busy, Registered
<1>2. ASSUME NEW c \in Clients, Identify(c)
      PROVE  ObjectAccountedFor'
  <2>1. PICK l, g : /\ Goes(c, l, g)
                    /\ \/ l \in {"forget", "save"} /\ mapped # None /\ g = mapped
                       \/ l \in {"create", "idle"} /\ mapped = None
    <3>1. CASE mapped = None
      BY <1>a, <1>2, <3>1, ContinueGoes DEF Identify
    <3>2. CASE mapped # None
      BY <1>a, <1>2, <3>2, ContinueGoes DEF Identify
    <3> QED
      BY <3>1, <3>2
  <2>2. UNCHANGED <<localGid, objects, mapped>> /\ client[c].pc = "identify"
    BY <1>2 DEF Identify, service
  <2>3. Registered(localGid)
    BY <1>2, <2>2, FoundRegistered DEF Busy, ScriptStep
  <2>4. mapped = None => objects = {}
    BY <1>c, <2>3 DEF Registered
  <2>5. mapped # None => mapped = localGid
    BY <2>3 DEF Registered
  <2> QED
    BY <1>2, <2>1, <2>2, <2>3, <2>4, <2>5, AccountedIsEnough
       DEF AccountedAt, Goes, Busy, Registered, ScriptStep
<1>3. ASSUME NEW c \in Clients, CreateObject(c)
      PROVE  ObjectAccountedFor'
  <2>1. objects = {} /\ mapped = None /\ UNCHANGED <<localGid, mapped>>
    BY <1>b, <1>3 DEF CreateObject, AccountedAt
  <2>2. \/ \E i \in Ids : Goes(c, "map", i) /\ objects' = {i}
        \/ Goes(c, "idle", None) /\ objects' = {}
    BY <1>a, <1>3, <2>1, ContinueGoes DEF CreateObject
  <2>3. AccountedAt(c)' /\ (client'[c].pc \notin Busy => Registered(localGid)')
    BY <2>1, <2>2 DEF AccountedAt, Goes, Busy, Registered
  <2> QED
    BY <1>3, <2>3, AccountedIsEnough DEF ScriptStep
<1>4. ASSUME NEW c \in Clients, CreateExternalID(c)
      PROVE  ObjectAccountedFor'
  <2>1. /\ objects \subseteq {client[c].gid} /\ mapped = None /\ UNCHANGED objects
        /\ Goes(c, "save", client[c].gid)
    BY <1>b, <1>4, ContinueGoes DEF CreateExternalID, AccountedAt
  <2>2. mapped' = IF client[c].gid \in objects THEN client[c].gid ELSE None
    <3>1. PICK r \in Codes(201) : \E acted \in Acted(r) :
             mapped' = IF acted /\ mapped = None /\ client[c].gid \in objects
                       THEN client[c].gid ELSE mapped
      BY <1>4 DEF CreateExternalID
    <3>2. Acted(r) = {TRUE}
      <4>1. r # 0
        BY <1>a, <3>1
      <4> QED
        BY <4>1, Zenon DEF Acted
    <3>3. PICK acted \in Acted(r) :
             mapped' = IF acted /\ mapped = None /\ client[c].gid \in objects
                       THEN client[c].gid ELSE mapped
      BY <3>1
    <3>4. acted
      BY <3>2, Zenon
    <3> QED
      BY <2>1, <3>3, <3>4, Zenon
  <2>3. AccountedAt(c)' /\ client'[c].pc \in Busy
    BY <2>1, <2>2 DEF AccountedAt, Goes, Busy, Registered
  <2> QED
    BY <1>4, <2>3, AccountedIsEnough DEF ScriptStep
<1>5. ASSUME NEW c \in Clients, SaveGid(c)
      PROVE  ObjectAccountedFor'
  <2>1. Goes(c, Job(client[c].opt), client[c].gid)
    BY <1>5, ContinueGoes DEF SaveGid
  <2>2. Registered(client[c].gid) /\ UNCHANGED <<objects, mapped>> /\ localGid' = client[c].gid
    BY <1>b, <1>5 DEF SaveGid, service, AccountedAt
  <2>3. client'[c].pc \notin Busy
    BY <2>1 DEF Goes, Job, Busy
  <2> QED
    BY <1>5, <2>2, <2>3, AccountedIsEnough DEF ScriptStep, AccountedAt, Registered, Busy
<1>6. ASSUME NEW c \in Clients, ForgetGid(c)
      PROVE  ObjectAccountedFor'
  <2>1. Goes(c, "remove", client[c].gid)
    BY <1>6, ContinueGoes DEF ForgetGid
  <2>2. Registered(client[c].gid) /\ UNCHANGED <<objects, mapped>>
    BY <1>b, <1>6 DEF ForgetGid, service, AccountedAt
  <2> QED
    BY <1>6, <2>1, <2>2, AccountedIsEnough DEF ScriptStep, AccountedAt, Registered, Busy, Goes
<1>7. ASSUME NEW c \in Clients, DeleteDevice(c)
      PROVE  ObjectAccountedFor'
  <2>1. Goes(c, "idle", None)
    BY <1>7, ContinueGoes DEF DeleteDevice
  <2>2. Registered(client[c].gid)
    BY <1>b, <1>7 DEF DeleteDevice, AccountedAt
  <2>3. /\ objects' = objects \ {client[c].gid}
        /\ mapped' = IF mapped = client[c].gid THEN None ELSE mapped
    <3>1. PICK r \in Codes(204) : \E acted \in Acted(r) :
             IF acted
             THEN /\ objects' = objects \ {client[c].gid}
                  /\ mapped' = IF mapped = client[c].gid THEN None ELSE mapped
             ELSE UNCHANGED <<objects, mapped>>
      BY <1>7 DEF DeleteDevice
    <3>2. Acted(r) = {TRUE}
      <4>1. r # 0
        BY <1>a, <3>1
      <4> QED
        BY <4>1, Zenon DEF Acted
    <3>3. PICK acted \in Acted(r) :
             IF acted
             THEN /\ objects' = objects \ {client[c].gid}
                  /\ mapped' = IF mapped = client[c].gid THEN None ELSE mapped
             ELSE UNCHANGED <<objects, mapped>>
      BY <3>1
    <3>4. acted
      BY <3>2, Zenon
    <3> QED
      BY <3>3, <3>4, Zenon
  <2>4. objects' = {} /\ mapped' = None
    BY <2>2, <2>3 DEF Registered
  <2> QED
    BY <1>7, <2>1, <2>4, AccountedIsEnough DEF ScriptStep, AccountedAt, Registered, Busy, Goes
<1>8. ASSUME NEW c \in Clients, GetObject(c) \/ UpdateMeasurementTypes(c)
             \/ PostMeasurements(c) \/ RaiseAlarm(c) \/ ListAlarms(c) \/ ClearAlarm(c)
      PROVE  ObjectAccountedFor'
  <2>1. client'[c].pc \in {"update", "clear", "idle"}
    <3>1. CASE Continue(c, "idle", None)
      BY <3>1, ContinueMoves DEF Moves
    <3>2. CASE GetObject(c) /\ ~Continue(c, "idle", None)
      BY <3>2, ProceedMoves DEF GetObject, Moves
    <3>3. CASE (ListAlarms(c) \/ ClearAlarm(c)) /\ ~Continue(c, "idle", None)
      BY <3>3 DEF ListAlarms, ClearAlarm, TypeOK
    <3> QED
      BY <1>8, <3>1, <3>2, <3>3 DEF UpdateMeasurementTypes, PostMeasurements, RaiseAlarm
  <2>2. /\ UNCHANGED <<localGid, objects, mapped>>
        /\ client[c].pc \in {"fetch", "update", "post", "raise", "list", "clear"}
    BY <1>8 DEF GetObject, UpdateMeasurementTypes, PostMeasurements, RaiseAlarm,
       ListAlarms, ClearAlarm, service
  <2>3. ScriptStep(c) /\ Registered(localGid)
    BY <1>8, <2>2, FoundRegistered DEF Busy, ScriptStep
  <2> QED
    BY <2>1, <2>2, <2>3, AccountedIsEnough DEF AccountedAt, Busy, Registered
<1>9. ASSUME NEW i \in Ids, OperatorDeletes(i)
      PROVE  ObjectAccountedFor'
  <2>1. /\ UNCHANGED <<localGid, client>> /\ objects' = objects \ {i}
        /\ mapped' = IF mapped = i THEN None ELSE mapped
    BY <1>9 DEF OperatorDeletes
  <2>2. i # None
    BY <1>c
  <2>3. ASSUME NEW g, Registered(g)
        PROVE  /\ objects \ {i} \subseteq {g}
               /\ (IF mapped = i THEN None ELSE mapped)
                     = IF objects \ {i} = {} THEN None ELSE g
    <3>1. CASE i \in objects
      BY <2>3, <3>1 DEF Registered
    <3>2. CASE i \notin objects
      BY <1>9, <3>2 DEF OperatorDeletes
    <3> QED
      BY <3>1, <3>2
  <2>4. ASSUME NEW g, Registered(g)
        PROVE  /\ objects' \subseteq {g}
               /\ mapped' = IF objects' = {} THEN None ELSE g
    BY <2>1, <2>3, <2>4
  <2>5. \A c \in Clients : AccountedAt(c)'
    BY <1>b, <2>1, <2>4 DEF AccountedAt, Registered
  <2>6. (\A c \in Clients : client'[c].pc \notin Busy) => Registered(localGid)'
    BY <2>1, <2>4, AccountedParts DEF Registered
  <2> QED
    BY <2>5, <2>6 DEF ObjectAccountedFor, AccountedAt, Busy
<1>10. ~EraseConfig /\ \A c \in Clients : ~Crash(c)
  BY DEF EraseConfig, Crash
<1>11. CASE UNCHANGED vars
  BY <1>11 DEF vars, service, ObjectAccountedFor, Registered
<1> QED
  BY <1>1, <1>2, <1>3, <1>4, <1>5, <1>6, <1>7, <1>8, <1>9, <1>10, <1>11, WhoseStep
     DEF ScriptStep

(* When no request is lost and no script killed, with one invocation at a   *)
(* time and the debug option set, the box leaves nothing behind in the      *)
(* service: one object, its config's and its MAC's, or none.                *)
THEOREM AlwaysRegisteredOrNot ==
  ASSUME ~Overlap, DebugSet, Faults \subseteq {"operator"}
  PROVE  Spec => []RegisteredOrNot
<1>1. Init => RegisteredInvariant
  <2> SUFFICES ASSUME Init PROVE RegisteredInvariant
    OBVIOUS
  <2>1. TypeOK
    BY DEF Init, TypeOK, Idle, Labels, AllCommands, AlarmCommands, Opt
  <2>2. ObjectAccountedFor
    BY DEF Init, ObjectAccountedFor, Registered, Idle, At
  <2> QED
    BY <2>1, <2>2, InitOneAtATime DEF RegisteredInvariant
<1>2. RegisteredInvariant /\ [Next]_vars => RegisteredInvariant'
  BY TypeStep, OneAtATimeStep, AccountedStep DEF RegisteredInvariant
<1>3. RegisteredInvariant => RegisteredOrNot
  BY DEF RegisteredInvariant, ObjectAccountedFor, Registered, RegisteredOrNot, At
<1> QED
  BY <1>1, <1>2, <1>3, PTL DEF Spec
=============================================================================
