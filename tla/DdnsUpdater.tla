----------------------------- MODULE DdnsUpdater -----------------------------
(***************************************************************************)
(* The dynamic DNS client: every "ifup" of the interface makes hotplug     *)
(* start dynamic_dns_updater.sh in the background.  A new process stops the *)
(* one named in the pid file, takes its place there, reads the time of the *)
(* last update and asks the name server what is registered; then it        *)
(* compares and updates for ever.  Modelled: one section of /etc/config/   *)
(* ddns, its processes, the files under /var/run/dynamic_dns, the address  *)
(* of the interface, the provider's record and the requests under way.     *)
(*                                                                         *)
(* A pid in the file or in a variable whose process has ended is None: it  *)
(* matches no running process (pids are taken not to be reused).           *)
(***************************************************************************)
EXTENDS Integers

CONSTANTS Procs,     \* slots for updater processes
          Ips,       \* addresses the interface may get
          None,      \* no address, no pid, no file
          ForceInterval,     \* force_interval_seconds
          CheckInterval,     \* check_interval_seconds
          Faults     \* what the network may do

ASSUME DdnsNone == None \notin Ips \union Procs \union Int
ASSUME DdnsAssumption == /\ ForceInterval \in Nat \ {0} /\ CheckInterval \in Nat \ {0}
                         /\ Faults \subseteq {"outage", "staleDns", "ifdown", "renewal"}

VARIABLES
    pc,          \* where each updater is
    old,         \* old_pid
    registered,  \* registered_ip
    current,     \* current_ip
    age,         \* time_since_update: seconds since last_update
    nap,         \* seconds slept
    request,     \* the address each updater's wget carries, while it is under way
    runDir,      \* does /var/run/dynamic_dns exist?
    pidFile,     \* the process named in <section>.pid
    fileAge,     \* seconds since the time in <section>.update; None: no file;
                 \* Cut: the file is empty
    wanIp,       \* address of the interface
    dns,         \* the provider's record of the domain
    serverOk     \* does the provider answer?

procVars == <<pc, old, registered, current, age, nap>>
fileVars == <<runDir, pidFile, fileAge>>
vars == <<procVars, request, fileVars, wanIp, dns, serverOk>>

Maybe(S) == S \union {None}
Empty == "empty"                          \* a request with no address in its URL
Cut == -1                                 \* a file truncated and not yet written
Ages == 0..(ForceInterval + 1)            \* capped where "longer than the interval" begins
Older(n) == IF n <= ForceInterval THEN n + 1 ELSE n
Starting == {"read", "kill", "claim"}
Looping == {"load", "lookup", "look", "decide", "send", "wget", "record", "write", "sleep"}

TypeOK ==
    /\ pc \in [Procs -> {"gone"} \union Starting \union Looping]
    /\ old \in [Procs -> Maybe(Procs)]
    /\ registered \in [Procs -> Maybe(Ips)] /\ current \in [Procs -> Maybe(Ips)]
    /\ age \in [Procs -> Ages] /\ nap \in [Procs -> 0..CheckInterval]
    /\ request \in [Procs -> Maybe(Ips \union {Empty})]
    /\ runDir \in BOOLEAN /\ pidFile \in Maybe(Procs) /\ fileAge \in Maybe(Ages \union {Cut})
    /\ wanIp \in Maybe(Ips) /\ dns \in Maybe(Ips) /\ serverOk \in BOOLEAN

\* The box has booted: /var is a RAM disk, and the interface is down.
Init ==
    /\ pc = [p \in Procs |-> "gone"] /\ old = [p \in Procs |-> None]
    /\ registered = [p \in Procs |-> None] /\ current = [p \in Procs |-> None]
    /\ age = [p \in Procs |-> 0] /\ nap = [p \in Procs |-> 0]
    /\ request = [p \in Procs |-> None]
    /\ runDir = FALSE /\ pidFile = None /\ fileAge = None
    /\ wanIp = None /\ dns \in Maybe(Ips) /\ serverOk = TRUE

Goto(p, label) == pc' = [pc EXCEPT ![p] = label]

-----------------------------------------------------------------------------
(* Starting an updater *)

\* ifup with an address it did not have: 25-ddns starts an updater and does not wait
\* for it.
IfUp(p, ip) ==
    /\ wanIp # ip /\ wanIp' = ip
    /\ pc[p] = "gone" /\ request[p] = None
    /\ Goto(p, "read")
    /\ UNCHANGED <<old, registered, current, age, nap, request, fileVars, dns, serverOk>>

\* Wrong variant: the process writes its pid before it reads the old one.
ReadPidOwn(p) ==
    /\ pc[p] = "read"
    /\ runDir' = TRUE /\ pidFile' = p
    /\ old' = [old EXCEPT ![p] = p]
    /\ Goto(p, "kill")
    /\ UNCHANGED <<registered, current, age, nap, request, fileAge, wanIp, dns, serverOk>>

\* Lines 210-215: without the directory there is nothing to stop.
ReadPid(p) ==
    /\ pc[p] = "read"
    /\ old' = [old EXCEPT ![p] = IF runDir THEN pidFile ELSE None]
    /\ Goto(p, IF runDir /\ pidFile # None THEN "kill" ELSE "claim")
    /\ UNCHANGED <<registered, current, age, nap, request, fileVars, wanIp, dns, serverOk>>

\* The process q ends, wherever it is, while p goes on at a label (p = q: it ends itself).
\* Its wget is a child of its own and goes on.
Ends(q, p, label) ==
    LET Cleared(f, v) == [r \in Procs |-> IF r = q THEN v ELSE f[r]]
    IN /\ pc' = [r \in Procs |-> IF r = q THEN "gone" ELSE IF r = p THEN label ELSE pc[r]]
       /\ old' = [r \in Procs |-> IF r = p \/ r = q \/ old[r] = q THEN None ELSE old[r]]
       /\ pidFile' = IF pidFile = q THEN None ELSE pidFile
       /\ registered' = Cleared(registered, None) /\ current' = Cleared(current, None)
       /\ age' = Cleared(age, 0) /\ nap' = Cleared(nap, 0)
       /\ UNCHANGED <<request, runDir, fileAge, wanIp, dns, serverOk>>

\* Lines 216-221.
KillOld(p) == pc[p] = "kill" /\ Ends(old[p], p, "claim")

\* Line 228 (and 226).
ClaimPid(p) ==
    /\ pc[p] = "claim"
    /\ runDir' = TRUE /\ pidFile' = p
    /\ Goto(p, "load")
    /\ UNCHANGED <<old, registered, current, age, nap, request, fileAge, wanIp, dns, serverOk>>

\* Wrong variant: the default for a missing file is left out.
LoadWithoutDefault(p) ==
    /\ pc[p] = "load"
    /\ age' = [age EXCEPT ![p] = fileAge]
    /\ Goto(p, "lookup")
    /\ UNCHANGED <<old, registered, current, nap, request, fileVars, wanIp, dns, serverOk>>

\* Lines 233-240: with no record of an update, one is overdue; of an empty record there
\* is no difference to take, and the shell gives the script up.
LoadLastUpdate(p) ==
    /\ pc[p] = "load" /\ fileAge # Cut
    /\ age' = [age EXCEPT ![p] = IF fileAge = None THEN ForceInterval + 1 ELSE fileAge]
    /\ Goto(p, "lookup")
    /\ UNCHANGED <<old, registered, current, nap, request, fileVars, wanIp, dns, serverOk>>

LoadFails(p) == pc[p] = "load" /\ fileAge = Cut /\ Ends(p, p, "gone")

\* Line 249: what the name server says, which may be out of date, or nothing.
Lookup(p) ==
    /\ pc[p] = "lookup"
    /\ \E ip \in (IF serverOk /\ wanIp # None THEN {dns} ELSE {None})
                    \union (IF "staleDns" \in Faults THEN Ips ELSE {}) :
         registered' = [registered EXCEPT ![p] = ip]
    /\ Goto(p, "look")
    /\ UNCHANGED <<old, current, age, nap, request, fileVars, wanIp, dns, serverOk>>

-----------------------------------------------------------------------------
(* The endless loop *)

\* get_current_ip: the address of the interface, or nothing.
GetCurrentIp(p) ==
    /\ pc[p] = "look"
    /\ current' = [current EXCEPT ![p] = wanIp]
    /\ Goto(p, "decide")
    /\ UNCHANGED <<old, registered, age, nap, request, fileVars, wanIp, dns, serverOk>>

\* Wrong variant: no update is ever forced.
UpdateDueOnChange(p) == current[p] # registered[p]
\* Line 268.
UpdateDue(p) == current[p] # registered[p] \/ ForceInterval < age[p]
Decide(p) ==
    /\ pc[p] = "decide"
    /\ Goto(p, IF UpdateDue(p) THEN "send" ELSE "sleep")
    /\ UNCHANGED <<old, registered, current, age, nap, request, fileVars, wanIp, dns, serverOk>>

\* Line 291: wget is started on the URL with the address filled in,
SendUpdate(p) ==
    /\ pc[p] = "send"
    /\ request' = [request EXCEPT ![p] = IF current[p] = None THEN Empty ELSE current[p]]
    /\ Goto(p, "wget")
    /\ UNCHANGED <<old, registered, current, age, nap, fileVars, wanIp, dns, serverOk>>

\* and ends some time later: the provider has recorded the address, or that of the
\* sender when the URL has none, or the request has failed.
Answer(p) ==
    /\ request[p] # None
    /\ dns' = IF ~serverOk \/ wanIp = None THEN dns
              ELSE IF request[p] = Empty THEN wanIp ELSE request[p]
    /\ request' = [request EXCEPT ![p] = None]
    /\ IF pc[p] = "wget" THEN Goto(p, "record") ELSE UNCHANGED pc
    /\ UNCHANGED <<old, registered, current, age, nap, fileVars, wanIp, serverOk>>

\* Lines 297-306, whatever wget has said; the shell truncates the file,
Record(p) ==
    /\ pc[p] = "record"
    /\ age' = [age EXCEPT ![p] = 0]
    /\ registered' = [registered EXCEPT ![p] = current[p]]
    /\ fileAge' = Cut
    /\ Goto(p, "write")
    /\ UNCHANGED <<old, current, nap, request, runDir, pidFile, wanIp, dns, serverOk>>

\* and then echo writes the time to it.
WriteTime(p) ==
    /\ pc[p] = "write"
    /\ fileAge' = age[p]
    /\ Goto(p, "sleep")
    /\ UNCHANGED <<old, registered, current, age, nap, request, runDir, pidFile, wanIp, dns, serverOk>>

\* Line 316.
Wake(p) ==
    /\ pc[p] = "sleep" /\ nap[p] = CheckInterval
    /\ Goto(p, "look")
    /\ nap' = [nap EXCEPT ![p] = 0]
    /\ UNCHANGED <<old, registered, current, age, request, fileVars, wanIp, dns, serverOk>>

UpdaterStep(p) ==
    \/ ReadPid(p) \/ KillOld(p) \/ ClaimPid(p) \/ LoadLastUpdate(p) \/ LoadFails(p)
    \/ Lookup(p)
    \/ GetCurrentIp(p) \/ Decide(p) \/ SendUpdate(p) \/ Record(p) \/ WriteTime(p)
    \/ Wake(p)

-----------------------------------------------------------------------------
(* Around the updaters *)

\* The address changes under an interface that stays up: nobody is started for it.
AddressChanges(ip) ==
    /\ "renewal" \in Faults /\ wanIp # None
    /\ wanIp' = ip
    /\ UNCHANGED <<procVars, request, fileVars, dns, serverOk>>

IfDown ==
    /\ "ifdown" \in Faults /\ wanIp # None
    /\ wanIp' = None
    /\ UNCHANGED <<procVars, request, fileVars, dns, serverOk>>

Outage ==
    /\ "outage" \in Faults
    /\ serverOk' = ~serverOk
    /\ UNCHANGED <<procVars, request, fileVars, wanIp, dns>>

\* A second passes for everybody.
Tick ==
    /\ age' = [p \in Procs |-> IF pc[p] \in Looping \ {"load"} THEN Older(age[p]) ELSE age[p]]
    /\ nap' = [p \in Procs |->
                  IF pc[p] = "sleep" /\ nap[p] < CheckInterval THEN nap[p] + 1 ELSE nap[p]]
    /\ fileAge' = IF fileAge \in Ages THEN Older(fileAge) ELSE fileAge
    /\ UNCHANGED <<pc, old, registered, current, request, runDir, pidFile, wanIp, dns, serverOk>>

Next ==
    \/ \E p \in Procs : \/ \E ip \in Ips : IfUp(p, ip)
                        \/ UpdaterStep(p)
                        \/ Answer(p)
    \/ \E ip \in Ips : AddressChanges(ip)
    \/ IfDown \/ Outage \/ Tick

Spec == Init /\ [][Next]_vars

\* Interfaces that come up so far apart that one updater has taken its place before
\* the next one starts.  Nothing in 25-ddns sees to it.
InTurn == \A p, q \in Procs : pc[p] \in Starting /\ pc[q] \in Starting => p = q
SerialSpec == Init /\ [][Next /\ InTurn']_vars

\* Updaters run, requests come to an end and time passes; the interface and the
\* provider owe nothing.
FairSpec ==
    /\ Spec
    /\ WF_vars(Tick)
    /\ \A p \in Procs : WF_vars(UpdaterStep(p)) /\ WF_vars(Answer(p))

-----------------------------------------------------------------------------
(* Properties *)

\* "if process is already running, stop it": no two updaters look after the domain.
OneUpdater == \A p, q \in Procs : pc[p] \in Looping /\ pc[q] \in Looping => p = q

\* Whoever stops an updater takes its place, however many ifups come together: from the
\* first one on there is always a process that looks after the domain or is about to,
\* but for the one that finds the time of the last update cut off.
NeverAbandoned == runDir => (\E p \in Procs : pc[p] # "gone") \/ fileAge = Cut

\* Why that holds: no process finds itself in the pid file.
NotItsOwnPredecessor ==
    \A p \in Procs : /\ pc[p] \in {"gone"} \union Starting => pidFile # p
                     /\ old[p] # p
AlwaysInvariant == TypeOK /\ NotItsOwnPredecessor /\ NeverAbandoned

\* Why OneUpdater holds when ifups are far apart: the pid file names the updater that runs,
\* until the next one has stopped it.
PidFileNamesUpdater ==
    /\ \A p \in Procs : pc[p] \in Looping => runDir /\ pidFile = p
    /\ \A p \in Procs : pc[p] = "kill" => old[p] = pidFile
    /\ \A p, q \in Procs : pc[p] = "claim" => pc[q] \notin Looping

InductiveInvariant == TypeOK /\ InTurn /\ PidFileNamesUpdater /\ OneUpdater

\* When the address and the provider settle, the record becomes the address, whatever
\* was lost, stale or overtaken before: unless an updater was killed between truncating
\* the file with the time of the update and writing it, which no later one gets over.
RecordConverges ==
    \A ip \in Ips :
        <>[](wanIp = ip /\ serverOk) /\ []<>(fileAge # Cut) => <>[](dns = ip)

\* "do update and then loop endlessly, checking ip every check_interval": once an address
\* has come up there is an updater that looks after it.
LoopsEndlessly ==
    \A ip \in Ips :
        <>[](wanIp = ip /\ serverOk) => []<>(\E p \in Procs : pc[p] \in Looping)
=============================================================================
