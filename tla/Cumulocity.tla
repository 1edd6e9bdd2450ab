----------------------------- MODULE Cumulocity -----------------------------
(***************************************************************************)
(* The Cumulocity client of the IoT image: every invocation of             *)
(* cumulocity.lua is a process of its own (started from a sketch through   *)
(* the Bridge, from cron or by hand), reads the uci package "iot" once, may *)
(* talk to the service over HTTP several times and may write the GlobalID  *)
(* back.  Modelled: get_GlobalID with is_registered, create_object and     *)
(* create_externalID, and every command.                                   *)
(*                                                                         *)
(* One HTTP request is one step: the service's effect, the status code the *)
(* script sees, and what the script does until the next request or write.  *)
(***************************************************************************)
EXTENDS Naturals, FiniteSets

CONSTANTS Clients,   \* slots for processes running the script
          Ids,       \* managed object ids the service can allot
          Types,     \* measurement type names
          Alarms,    \* alarms the service can keep
          FirstPiece,\* alarms listed in the first piece of an answer, the one that is decoded
          None,      \* an absent uci option or external id
          Commands,  \* the options the script is invoked with
          Overlap,   \* may two invocations run at the same time?
          DebugSet,  \* is the option iot.general.debug set?
          Faults     \* what may go wrong around the script

AlarmCommands == {"ga", "sa", "ca"}
AllCommands == {"g", "d", "u", "a", "p"} \union AlarmCommands
AllFaults == {"loss", "crash", "erase", "operator"}

ASSUME NoneAssumption == None \notin Ids
ASSUME SwitchAssumption == /\ Commands \subseteq AllCommands
                           /\ Overlap \in BOOLEAN
                           /\ DebugSet \in BOOLEAN
                           /\ Faults \subseteq AllFaults
                           /\ FirstPiece \in Nat

VARIABLES
    localGid,   \* uci option iot.general.GlobalID, as committed
    used,       \* ids the service has ever allotted
    objects,    \* managed objects that exist
    mapped,     \* object the external id c8y_MAC/<mac of wlan0> names
    supported,  \* c8y_SupportedMeasurements of each object; {}: no such field
    source,     \* the object an alarm was raised for; None: not raised yet
    active,     \* alarms that are not cleared
    client      \* the running scripts: program counter and local variables

alarms == <<source, active>>
service == <<used, objects, mapped, supported, alarms>>
vars == <<localGid, service, client>>

Labels == {"idle", "identify", "create", "map", "save", "forget", "remove",
           "fetch", "update", "post", "raise", "list", "clear"}
Opt(id) == id \union {None}
Idle == [pc |-> "idle", opt |-> "g", svc |-> None, gid |-> None, types |-> {},
         todo |-> {}]

TypeOK ==
    /\ localGid \in Opt(Ids)
    /\ used \subseteq Ids
    /\ objects \subseteq used
    /\ mapped \in Opt(Ids)
    /\ supported \in [Ids -> SUBSET Types]
    /\ source \in [Alarms -> Opt(Ids)] /\ active \subseteq Alarms
    /\ client \in [Clients -> [pc : Labels, opt : AllCommands, svc : Opt(Ids), gid : Opt(Ids),
                               types : SUBSET Types, todo : SUBSET Alarms]]

Init ==
    /\ localGid = None
    /\ used = {} /\ objects = {} /\ mapped = None
    /\ supported = [i \in Ids |-> {}]
    /\ source = [a \in Alarms |-> None] /\ active = {}
    /\ client = [c \in Clients |-> Idle]

-----------------------------------------------------------------------------
(* Control flow of one script *)

At(c, label) == client[c].pc = label

\* Go on at a label with gid g and types ts; a script that ends leaves nothing behind.
Proceed(c, label, g, ts) ==
    client' = [client EXCEPT ![c] =
        IF label = "idle" THEN Idle
        ELSE [@ EXCEPT !.pc = label, !.gid = g, !.types = ts]]
Continue(c, label, g) == Proceed(c, label, g, client[c].types)

\* Every request is followed by "if debug >= 1": without the option the
\* variable is the boolean false, the comparison raises an error and the script
\* ends there, whatever the service has done.
AfterRequest(c, label, g) == Continue(c, IF DebugSet THEN label ELSE "idle", g)

\* The command proper, once get_GlobalID has returned an id.
Job(o) == CASE o = "u" -> "update" [] o = "a" -> "fetch" [] o = "p" -> "post"
            [] o = "sa" -> "raise" [] o \in {"ga", "ca"} -> "list" [] OTHER -> "idle"

\* What the script may see of a request the service answers with k: k itself,
\* or 0, which stands for an error string in place of the code and for a refusal.
Codes(k) == {k} \union (IF "loss" \in Faults THEN {0} ELSE {})

\* Whether the service has acted on a request whose code the script sees as r.
Acted(r) == IF r = 0 THEN BOOLEAN ELSE {TRUE}

Ready(c) == At(c, "idle") /\ (Overlap \/ \A d \in Clients : At(d, "idle"))

\* An invocation: the modules are loaded, the snapshot service := get_all("iot",
\* "general") is taken, and get_GlobalID returns at once when it has an id.
Start(c, o, ts) ==
    /\ Ready(c)
    /\ (o \in {"u", "a"}) = (ts # {})
    /\ ~(o = "g" /\ localGid # None)
    /\ client' = [client EXCEPT ![c] =
         [pc |-> IF o = "d" \/ localGid = None THEN "identify" ELSE Job(o),
          opt |-> o, svc |-> localGid, types |-> ts, todo |-> {},
          gid |-> IF o = "d" THEN None ELSE localGid]]
    /\ UNCHANGED <<localGid, service>>

\* -ga and -sa with an id of the user's, and -ca with an alarm's, go to work at once.
StartFor(c, o, g) ==
    /\ Ready(c)
    /\ o \in {"ga", "sa"}
    /\ client' = [client EXCEPT ![c] = [Idle EXCEPT !.pc = Job(o), !.opt = o,
                                                   !.svc = localGid, !.gid = g]]
    /\ UNCHANGED <<localGid, service>>
StartClear(c, a) ==
    /\ Ready(c)
    /\ "ca" \in Commands
    /\ client' = [client EXCEPT ![c] = [Idle EXCEPT !.pc = "clear", !.opt = "ca",
                                                   !.svc = localGid, !.todo = {a}]]
    /\ UNCHANGED <<localGid, service>>

\* Wrong variants, each a slip this code could have had; the properties below
\* must tell them from the real step.  Here: -d goes straight to the object,
IdentifyKeepingLocalGid(c) ==
    /\ At(c, "identify")
    /\ \E r \in Codes(IF mapped = None THEN 404 ELSE 200) :
         AfterRequest(c,
             CASE r = 200 -> IF client[c].opt = "d" THEN "remove" ELSE "save"
               [] r = 404 -> IF client[c].opt = "d" THEN "idle" ELSE "create"
               [] OTHER -> "idle",
             IF r = 200 THEN mapped ELSE None)
    /\ UNCHANGED <<localGid, service>>
\* and here every failure of the lookup counts as "not registered".
IdentifyTakingErrorFor404(c) ==
    /\ At(c, "identify")
    /\ \E r \in Codes(IF mapped = None THEN 404 ELSE 200) :
         AfterRequest(c,
             CASE r = 200 -> IF client[c].opt = "d" THEN "forget" ELSE "save"
               [] OTHER -> IF client[c].opt = "d" THEN "idle" ELSE "create",
             IF r = 200 THEN mapped ELSE None)
    /\ UNCHANGED <<localGid, service>>

\* is_registered: GET /identity/externalIds/c8y_MAC/<mac>.  Without an id all
\* commands but -d go on to concatenate nil into a request, and end.
Identify(c) ==
    /\ At(c, "identify")
    /\ \E r \in Codes(IF mapped = None THEN 404 ELSE 200) :
         AfterRequest(c,
             CASE r = 200 -> IF client[c].opt = "d" THEN "forget" ELSE "save"
               [] r = 404 -> IF client[c].opt = "d" THEN "idle" ELSE "create"
               [] OTHER -> "idle",
             IF r = 200 THEN mapped ELSE None)
    /\ UNCHANGED <<localGid, service>>

\* Wrong variant: the object is never given its external id.
CreateObjectUnmapped(c) ==
    /\ At(c, "create")
    /\ \E i \in Ids \ used, r \in Codes(201) :
         /\ used' = used \union {i}
         /\ objects' = objects \union {i}
         /\ AfterRequest(c, IF r = 201 THEN "save" ELSE "idle", i)
    /\ UNCHANGED <<localGid, mapped, supported, alarms>>

\* create_object: POST /inventory/managedObjects.
CreateObject(c) ==
    /\ At(c, "create")
    /\ \/ \E i \in Ids \ used, r \in Codes(201) :
            /\ used' = used \union {i}
            /\ objects' = objects \union {i}
            /\ AfterRequest(c, IF r = 201 THEN "map" ELSE "idle", i)
       \/ /\ "loss" \in Faults \/ used = Ids   \* bound: the ids run out
          /\ Continue(c, "idle", None)
          /\ UNCHANGED <<used, objects>>
    /\ UNCHANGED <<localGid, mapped, supported, alarms>>

\* create_externalID: POST /identity/globalIds/<gid>/externalIds.  An external id
\* names one object, so the service refuses a second one.  get_GlobalID does not
\* look at the code.
CreateExternalID(c) ==
    /\ At(c, "map")
    /\ \E r \in Codes(201) : \E acted \in Acted(r) :
         mapped' = IF acted /\ mapped = None /\ client[c].gid \in objects
                   THEN client[c].gid ELSE mapped
    /\ AfterRequest(c, "save", client[c].gid)
    /\ UNCHANGED <<localGid, used, objects, supported, alarms>>

\* Wrong variants: the two results of is_registered in the wrong order,
SaveGidSwapped(c) ==
    /\ At(c, "save")
    /\ localGid' = 200
    /\ Continue(c, Job(client[c].opt), client[c].gid)
    /\ UNCHANGED service
\* or a set without a commit.
SaveGidUncommitted(c) ==
    /\ At(c, "save")
    /\ Continue(c, Job(client[c].opt), client[c].gid)
    /\ UNCHANGED <<localGid, service>>

\* uci set + commit of the GlobalID, by whichever way get_GlobalID found it, and
\* the return to the command.
SaveGid(c) ==
    /\ At(c, "save")
    /\ localGid' = client[c].gid
    /\ Continue(c, Job(client[c].opt), client[c].gid)
    /\ UNCHANGED service

\* Wrong variant: a delete without a commit.
ForgetGidUncommitted(c) ==
    /\ At(c, "forget")
    /\ Continue(c, "remove", client[c].gid)
    /\ UNCHANGED <<localGid, service>>

\* -d, the local half: uci delete + commit.  The delete is looked up in the copy
\* of the package loaded when the script started: an option that was not there
\* then is not deleted.
ForgetGid(c) ==
    /\ At(c, "forget")
    /\ localGid' = IF client[c].svc = None THEN localGid ELSE None
    /\ Continue(c, "remove", client[c].gid)
    /\ UNCHANGED service

\* -d, the remote half, delete_device: the object goes, and its external id with it.
DeleteDevice(c) ==
    /\ At(c, "remove")
    /\ \E r \in Codes(204) : \E acted \in Acted(r) :
         IF acted
         THEN /\ objects' = objects \ {client[c].gid}
              /\ mapped' = IF mapped = client[c].gid THEN None ELSE mapped
         ELSE UNCHANGED <<objects, mapped>>
    /\ Continue(c, "idle", None)
    /\ UNCHANGED <<localGid, used, supported, alarms>>

\* get_object: the list of types in the object that a request answered with code r
\* returned; {} when there is no object, or no list in it.
ListRead(g, r) == IF r = 200 /\ DebugSet THEN supported[g] ELSE {}

\* Wrong variant: the new types replace the script's copy of the list.
GetObjectReplacing(c) ==
    /\ At(c, "fetch")
    /\ LET g == client[c].gid IN
       \E r \in Codes(IF g \in objects THEN 200 ELSE 404) :
         IF ListRead(g, r) # {} THEN Proceed(c, "update", g, client[c].types)
         ELSE Continue(c, "idle", None)
    /\ UNCHANGED <<localGid, service>>

\* -a, first half: the list of the object is read and the missing types appended
\* to the script's copy of it.  An error, or an object that has no list yet, raises
\* an error in pairs(nil) or tabledump and ends the script.
GetObject(c) ==
    /\ At(c, "fetch")
    /\ LET g == client[c].gid IN
       \E r \in Codes(IF g \in objects THEN 200 ELSE 404) :
         IF ListRead(g, r) # {}
         THEN Proceed(c, "update", g, client[c].types \union ListRead(g, r))
         ELSE Continue(c, "idle", None)
    /\ UNCHANGED <<localGid, service>>

\* update_measurement_types: PUT /inventory/managedObjects/<gid>, the whole list.
UpdateMeasurementTypes(c) ==
    /\ At(c, "update")
    /\ \E r \in Codes(200) : \E acted \in Acted(r) :
         supported' = IF acted /\ client[c].gid \in objects
                      THEN [supported EXCEPT ![client[c].gid] = client[c].types]
                      ELSE supported
    /\ Continue(c, "idle", None)
    /\ UNCHANGED <<localGid, used, objects, mapped, alarms>>

\* -p, post_measurements: the service files the reading under the object the
\* body names; nothing the other commands look at changes.
PostMeasurements(c) ==
    /\ At(c, "post")
    /\ Continue(c, "idle", None)
    /\ UNCHANGED <<localGid, service>>

\* -sa, send_alarm: refused for an object that does not exist.  The alarm's id is then cut
\* out of head.location: an error without it, but no step of the script follows.
RaiseAlarm(c) ==
    LET g == client[c].gid IN
    /\ At(c, "raise")
    /\ \/ \E a \in Alarms : /\ g \in objects /\ source[a] = None
                            /\ source' = [source EXCEPT ![a] = g]
                            /\ active' = active \union {a}
       \/ /\ \/ g \notin objects
             \/ "loss" \in Faults
             \/ \A a \in Alarms : source[a] # None     \* bound: the alarms run out
          /\ UNCHANGED alarms
    /\ Continue(c, "idle", None)
    /\ UNCHANGED <<localGid, used, objects, mapped, supported>>

\* get_alarms; -ga is content with printing an id.  Only the first piece of the answer
\* is decoded: if the list goes on after it, nothing is, and the script ends with an error.
AlarmsOf(g) == {a \in active : source[a] = g}
ListAlarms(c) ==
    LET found == AlarmsOf(client[c].gid) IN
    /\ At(c, "list")
    /\ \E r \in Codes(200) :
         IF r = 200 /\ DebugSet /\ client[c].opt = "ca"
              /\ found # {} /\ Cardinality(found) <= FirstPiece
         THEN client' = [client EXCEPT ![c].pc = "clear", ![c].todo = found]
         ELSE Continue(c, "idle", None)
    /\ UNCHANGED <<localGid, service>>

\* Wrong variant: the loop ends with the first one.
ClearAlarmFirst(c) ==
    /\ At(c, "clear")
    /\ \E a \in client[c].todo, r \in Codes(200) : \E acted \in Acted(r) :
         active' = IF acted THEN active \ {a} ELSE active
    /\ Continue(c, "idle", None)
    /\ UNCHANGED <<localGid, used, objects, mapped, supported, source>>

\* clear_alarm, for one listed alarm after the other; nobody looks at the code.
ClearAlarm(c) ==
    /\ At(c, "clear")
    /\ \E a \in client[c].todo, r \in Codes(200) : \E acted \in Acted(r) :
         LET left == client[c].todo \ {a} IN
         /\ active' = IF acted THEN active \ {a} ELSE active
         /\ IF left # {} /\ DebugSet THEN client' = [client EXCEPT ![c].todo = left]
                                     ELSE Continue(c, "idle", None)
    /\ UNCHANGED <<localGid, used, objects, mapped, supported, source>>

ScriptStep(c) ==
    \/ Identify(c) \/ CreateObject(c) \/ CreateExternalID(c) \/ SaveGid(c)
    \/ ForgetGid(c) \/ DeleteDevice(c) \/ GetObject(c)
    \/ UpdateMeasurementTypes(c) \/ PostMeasurements(c)
    \/ RaiseAlarm(c) \/ ListAlarms(c) \/ ClearAlarm(c)

-----------------------------------------------------------------------------
(* Around the scripts *)

\* A script is killed, or the power goes, between two steps.
Crash(c) ==
    /\ "crash" \in Faults /\ ~At(c, "idle")
    /\ Continue(c, "idle", None)
    /\ UNCHANGED <<localGid, service>>

\* The box is flashed or reset to its defaults and starts without a GlobalID.
EraseConfig ==
    /\ "erase" \in Faults
    /\ localGid' = None
    /\ client' = [c \in Clients |-> Idle]
    /\ UNCHANGED service

\* Somebody deletes the device in the service's own web page.
OperatorDeletes(i) ==
    /\ "operator" \in Faults /\ i \in objects
    /\ objects' = objects \ {i}
    /\ mapped' = IF mapped = i THEN None ELSE mapped
    /\ UNCHANGED <<localGid, used, supported, alarms, client>>

Next ==
    \/ \E c \in Clients : \/ \E o \in Commands, ts \in SUBSET Types : Start(c, o, ts)
                          \/ \E o \in Commands, g \in Ids : StartFor(c, o, g)
                          \/ \E a \in Alarms : StartClear(c, a)
                          \/ ScriptStep(c)
                          \/ Crash(c)
    \/ EraseConfig
    \/ \E i \in Ids : OperatorDeletes(i)

Spec == Init /\ [][Next]_vars

\* A running script is scheduled; nobody is obliged to start one.
FairSpec == Spec /\ \A c \in Clients : WF_vars(ScriptStep(c))

-----------------------------------------------------------------------------
(* Properties *)

\* Invocations never overlap, or none of them deletes; and nobody deletes the
\* device behind the script's back.
Disciplined == (~Overlap \/ "d" \notin Commands) /\ "operator" \notin Faults

\* The committed GlobalID names an object that exists: get_GlobalID trusts it
\* without asking (lines 536-538), so once it dangles nothing repairs it.
LocalGidLive == localGid # None => localGid \in objects

\* A request about a device is addressed to an object that exists.
AddressesLiveDevice ==
    \A c \in Clients :
        client[c].pc \in {"map", "fetch", "update", "post"} => client[c].gid \in objects

\* Why LocalGidLive holds: a script on its way to write or use an id has one of an
\* existing object; -d runs alone, has seen the GlobalID it is about to delete,
\* and has none left in the config when it goes for the object.
ScriptsHoldLiveIds ==
    \A c \in Clients :
        client[c].pc \in {"map", "save", "fetch", "update", "post"}
            => client[c].gid \in objects
DeleteRunsAlone ==
    \A c \in Clients :
        client[c].opt = "d" /\ ~At(c, "idle") =>
            /\ "d" \in Commands
            /\ \A d \in Clients : d # c => At(d, "idle")
            /\ client[c].pc \in {"identify", "forget", "remove"}
            /\ client[c].pc \in {"identify", "forget"} => client[c].svc = localGid
            /\ At(c, "remove") => localGid = None
OnlyDeleteRemoves ==
    \A c \in Clients : client[c].pc \in {"forget", "remove"} => client[c].opt = "d"
MappedLive == mapped # None => mapped \in objects
OneAtATime ==
    \A c, d \in Clients : ~Overlap /\ c # d => At(c, "idle") \/ At(d, "idle")
InductiveInvariant ==
    /\ TypeOK
    /\ LocalGidLive
    /\ MappedLive
    /\ ScriptsHoldLiveIds
    /\ DeleteRunsAlone
    /\ OnlyDeleteRemoves
    /\ OneAtATime

\* The box and the service agree who the box is: when the config holds an id and
\* the MAC is mapped, they name the same object, however earlier runs ended.
OneIdentity == localGid # None /\ mapped # None => localGid = mapped

\* Why OneIdentity holds while invocations do not overlap: a script that registers the
\* box runs with no id in the config, and the MAC leads nowhere but to its own object.
RegistersAlone ==
    \A c \in Clients :
        /\ client[c].pc \in {"identify", "create", "map", "save"} /\ client[c].opt # "d"
               => localGid = None
        /\ client[c].pc \in {"create", "map", "save"} => client[c].opt # "d"
        /\ client[c].pc \in {"create", "map"} => mapped = None
        /\ At(c, "save") => mapped \in {None, client[c].gid}
IdentityInvariant == TypeOK /\ OneAtATime /\ OneIdentity /\ RegistersAlone

\* With no request lost, a box whose scripts have all ended has at most one object
\* in the service: the one in its config, and the one its MAC leads to.
RegisteredOrNot ==
    (\A c \in Clients : At(c, "idle")) =>
        /\ objects \subseteq {localGid}
        /\ mapped = IF objects = {} THEN None ELSE localGid

\* Why it holds: but for the script that is creating or removing it, the one object is
\* always the config's and the MAC's; that script holds the id itself.
Registered(g) == /\ objects \subseteq {g}
                 /\ mapped = IF objects = {} THEN None ELSE g
ObjectAccountedFor ==
    /\ (\A c \in Clients :
            client[c].pc \notin {"create", "map", "save", "forget", "remove"})
          => Registered(localGid)
    /\ \A c \in Clients :
          /\ At(c, "create") => objects = {} /\ mapped = None
          /\ At(c, "map") => objects \subseteq {client[c].gid} /\ mapped = None
          /\ client[c].pc \in {"save", "forget", "remove"} => Registered(client[c].gid)
RegisteredInvariant == TypeOK /\ OneAtATime /\ ObjectAccountedFor

\* "-a" appends: its write never drops a type the object has by then.
AppendKeepsTypes ==
    [][\A c \in Clients : client[c].opt = "a" /\ At(c, "update")
            /\ client'[c].pc = "idle" =>
         \A i \in Ids : supported[i] \subseteq supported'[i]]_vars

\* Asking for the GlobalID of a box that has none gives it one (while the bound
\* on the number of ids lets the service create objects).
RegistersEventually ==
    \A c \in Clients : (At(c, "identify") /\ client[c].opt = "g" /\ used # Ids)
                            ~> (localGid # None)

\* "clear all alarm from self device": when nothing is lost and nobody is killed, -ca
\* without an id clears every alarm the device has, if their list is short enough.
Clearable(c, a) == /\ At(c, "list") /\ client[c].opt = "ca"
                   /\ a \in AlarmsOf(client[c].gid)
                   /\ Cardinality(AlarmsOf(client[c].gid)) <= FirstPiece
ClearsAll == \A c \in Clients, a \in Alarms : Clearable(c, a) ~> a \notin active

\* Seen from the config and the service, the protocol is DeviceIdentity.
Identity == INSTANCE DeviceIdentity WITH identity <- localGid, alive <- objects
ImplementsIdentity == Identity!Spec
=============================================================================
