---------------------------- MODULE ServiceReload ----------------------------
(***************************************************************************)
(* How the daemons of the box are started and stopped.  A page of the web  *)
(* interface stages the settings, which the scripts' "uci get" shows from  *)
(* then on; if they are to be applied too, the page it answers with asks   *)
(* (XHR) for luci-reload, which waits for the lock /var/run/luci-reload    *)
(* and then runs the init script of what has changed: iotd for the sensor  *)
(* services, dragino for the router of the serial line.  For each of its   *)
(* daemons the script reads whether it is wanted, looks in the process     *)
(* list for one that runs, kills what it has found and starts a new one.   *)
(* The start at boot and the command line take no lock.                    *)
(***************************************************************************)
EXTENDS Naturals, FiniteSets

CONSTANTS Services,   \* daemons there are settings for
          Scripts,    \* for each init script, the services it looks after
          Pids,       \* slots for processes
          Reloads,    \* slots for runs of luci-reload
          ByHand,     \* slots for runs of an init script without the lock
          None

ASSUME ReloadAssumption ==
    /\ Scripts \subseteq SUBSET Services
    /\ Reloads \intersect ByHand = {}
    /\ None \notin Services \union Reloads

VARIABLES
    enabled,  \* the settings, with what is staged: is the service wanted?
    process,  \* the service a process is of, or None
    lock,     \* who holds the lock
    run,      \* the runs: program counter and variables
    fallen,   \* (history) services whose daemon has ended by itself, or was never started
    unasked   \* (history) services changed by a page, with no run asked for since

vars == <<enabled, process, lock, run, fallen, unasked>>

Runs == Reloads \union ByHand
Idle == [pc |-> "idle", todo |-> {}, serv |-> None, wanted |-> FALSE, found |-> {}]

RunType == [pc : {"idle", "xhr", "lock", "next", "ps", "kill", "start"},
            todo : SUBSET Services, serv : Services \union {None},
            wanted : BOOLEAN, found : SUBSET Pids]

TypeOK ==
    /\ enabled \in [Services -> BOOLEAN]
    /\ process \in [Pids -> Services \union {None}]
    /\ lock \in Reloads \union {None}
    /\ run \in [Runs -> RunType]
    /\ fallen \in SUBSET Services
    /\ unasked \in SUBSET Services

Init ==
    /\ enabled \in [Services -> BOOLEAN]
    /\ process = [p \in Pids |-> None]
    /\ lock = None
    /\ run = [r \in Runs |-> Idle]
    /\ fallen = Services
    /\ unasked = {}

At(r, label) == run[r].pc = label
Of(s) == {p \in Pids : process[p] = s}

\* A run that changes processes.
Active(r) == run[r].pc \notin {"idle", "xhr", "lock"}

-----------------------------------------------------------------------------
\* Map.parse stages what the page has changed; with "Save & Apply" the page it answers
\* with is to ask for a run.
Save(r) ==
    /\ r \in Reloads /\ At(r, "idle")
    /\ \E script \in Scripts : \E s \in script :
          /\ enabled' = [enabled EXCEPT ![s] = ~@]
          /\ unasked' = unasked \union {s}
          /\ \/ run' = [run EXCEPT ![r].pc = "xhr", ![r].todo = script]
             \/ run' = run
    /\ UNCHANGED <<process, lock, fallen>>

\* servicectl forks luci-reload for what the page names.
Trigger(r) ==
    /\ At(r, "xhr")
    /\ run' = [run EXCEPT ![r].pc = "lock"]
    /\ unasked' = unasked \ run[r].todo
    /\ UNCHANGED <<enabled, process, lock, fallen>>

\* The page is left before, or the request is lost.
LoseRequest(r) ==
    /\ At(r, "xhr")
    /\ run' = [run EXCEPT ![r] = Idle]
    /\ UNCHANGED <<enabled, process, lock, fallen, unasked>>

\* Wrong variant: nobody waits.
LockNot(r) ==
    /\ At(r, "lock")
    /\ lock' = r
    /\ run' = [run EXCEPT ![r].pc = "next"]
    /\ UNCHANGED <<enabled, process, fallen, unasked>>

\* luci-reload: lock
Lock(r) ==
    /\ At(r, "lock")
    /\ lock = None
    /\ lock' = r
    /\ run' = [run EXCEPT ![r].pc = "next"]
    /\ UNCHANGED <<enabled, process, fallen, unasked>>

\* /etc/init.d/... start, at boot or by hand
StartByHand(r) ==
    /\ r \in ByHand /\ At(r, "idle")
    /\ \E script \in Scripts :
          /\ run' = [run EXCEPT ![r].pc = "next", ![r].todo = script]
          /\ unasked' = unasked \ script
    /\ UNCHANGED <<enabled, process, lock, fallen>>

\* Wrong variant: an option that is not set.
GetEnableUnset(r) ==
    /\ At(r, "next")
    /\ \E s \in run[r].todo :
          run' = [run EXCEPT ![r].pc = "ps", ![r].serv = s, ![r].wanted = None]
    /\ UNCHANGED <<enabled, process, lock, fallen, unasked>>

\* start_iot_services and load_uart: the settings are read,
GetEnable(r) ==
    /\ At(r, "next")
    /\ \E s \in run[r].todo :
          run' = [run EXCEPT ![r].pc = "ps", ![r].serv = s, ![r].wanted = enabled[s],
                             ![r].todo = @ \ {s}]
    /\ UNCHANGED <<enabled, process, lock, fallen, unasked>>

\* then the process list,
ListProcesses(r) ==
    /\ At(r, "ps")
    /\ run' = [run EXCEPT ![r].pc = "kill", ![r].found = Of(run[r].serv)]
    /\ UNCHANGED <<enabled, process, lock, fallen, unasked>>

\* what has been found there is killed (SIGTERM, which these daemons do not catch), if it
\* is one pid: the test [[ ! -z $servpid ]] of two words is an error, and nothing is killed,
KillFound(r) ==
    /\ At(r, "kill")
    /\ process' = [p \in Pids |-> IF run[r].found = {p} THEN None ELSE process[p]]
    /\ run' = [run EXCEPT ![r].pc = "start", ![r].found = {}]
    /\ UNCHANGED <<enabled, lock, fallen, unasked>>

\* Wrong variant: nobody asks whether it is wanted.
StartServiceAnyway(r) ==
    /\ At(r, "start")
    /\ \E p \in Pids : /\ process[p] = None
                       /\ process' = [process EXCEPT ![p] = run[r].serv]
    /\ fallen' = fallen \ {run[r].serv}
    /\ run' = [run EXCEPT ![r].pc = "next", ![r].serv = None]
    /\ UNCHANGED <<enabled, lock, unasked>>

\* and a service that is wanted is started.
StartService(r) ==
    /\ At(r, "start")
    /\ IF run[r].wanted
       THEN \E p \in Pids : /\ process[p] = None
                            /\ process' = [process EXCEPT ![p] = run[r].serv]
                            /\ fallen' = fallen \ {run[r].serv}
       ELSE UNCHANGED <<process, fallen>>
    /\ run' = [run EXCEPT ![r].pc = "next", ![r].serv = None]
    /\ UNCHANGED <<enabled, lock, unasked>>

\* Wrong variant: the lock stays.
DoneLocked(r) ==
    /\ At(r, "next") /\ run[r].todo = {}
    /\ run' = [run EXCEPT ![r] = Idle]
    /\ UNCHANGED <<enabled, process, lock, fallen, unasked>>

\* luci-reload: lock -u
Done(r) ==
    /\ At(r, "next") /\ run[r].todo = {}
    /\ run' = [run EXCEPT ![r] = Idle]
    /\ lock' = IF r \in Reloads THEN None ELSE lock
    /\ UNCHANGED <<enabled, process, fallen, unasked>>

\* A daemon ends by itself (an error in a script, a server that says no).
Crash(p) ==
    /\ process[p] # None
    /\ process' = [process EXCEPT ![p] = None]
    /\ fallen' = fallen \union {process[p]}
    /\ UNCHANGED <<enabled, lock, run, unasked>>

Goes(r) == \/ GetEnable(r) \/ ListProcesses(r) \/ KillFound(r) \/ StartService(r) \/ Done(r)

Next ==
    \/ \E r \in Reloads : Save(r) \/ Trigger(r) \/ LoseRequest(r) \/ Lock(r)
    \/ \E r \in ByHand : StartByHand(r)
    \/ \E r \in Runs : Goes(r)
    \/ \E p \in Pids : Crash(p)

Spec == Init /\ [][Next]_vars

\* What the scripts rely on and nothing enforces: a run by hand, or at boot, works while
\* no other does.
InTurn == \A q \in ByHand, r \in Runs : q # r => ~(Active(q)' /\ Active(r)')
SerialSpec == Init /\ [][Next /\ InTurn]_vars

\* A run that has begun goes on, and who waits for the lock gets it some day.
FairSerialSpec ==
    /\ SerialSpec
    /\ \A r \in Reloads : SF_vars(Lock(r) /\ InTurn)
    /\ \A r \in Runs : WF_vars(Goes(r))

-----------------------------------------------------------------------------
(* Properties *)

\* Runs that wait for each other leave no service with two daemons, and no process
\* that came to a pid after the list was taken is killed in place of another.
OneDaemon == \A p, q \in Pids : process[p] = process[q] /\ process[p] # None => p = q
KillsItsOwn ==
    \A r \in Runs : At(r, "kill") => \A p \in run[r].found : process[p] \in {run[r].serv, None}
OneOfEach == OneDaemon /\ KillsItsOwn

\* When no run is under way the services run that are wanted, but for those that have
\* ended by themselves and those a page has changed without asking for a run since:
\* settings saved and asked for while an older run was busy are not lost.
Fits(s) == IF Of(s) = {} THEN enabled[s] => s \in fallen ELSE enabled[s]
WantedRun == (\A r \in Runs : At(r, "idle")) => \A s \in Services \ unasked : Fits(s)

\* Why: two runs never work at once,
OneActive ==
    /\ \A q, r \in Runs : Active(q) /\ Active(r) => q = r
    /\ \A r \in Reloads : lock = r <=> Active(r)

\* what a run has found in the process list is still what is there,
Busy(r) == run[r].pc \in {"ps", "kill", "start"}
ListHolds ==
    \A r \in Runs :
        /\ Busy(r) => run[r].serv \in Services
        /\ At(r, "kill") => /\ Of(run[r].serv) \subseteq run[r].found
                            /\ \A p, q \in run[r].found : p = q
        /\ At(r, "start") => Of(run[r].serv) = {}
        /\ At(r, "idle") => run[r].todo = {}

\* and a service that does not fit has a run to be asked for, is on the list of one, or is
\* being done by one that knows what is wanted.
Waiting(s) == s \in unasked \/ \E r \in Runs : s \in run[r].todo /\ ~At(r, "xhr")
Working(s) == \E r \in Runs : Busy(r) /\ run[r].serv = s /\ run[r].wanted = enabled[s]
NothingForgotten == \A s \in Services : Fits(s) \/ Waiting(s) \/ Working(s)
WorkKnown ==
    \A r \in Runs : Busy(r) => \/ run[r].wanted = enabled[run[r].serv]
                              \/ Waiting(run[r].serv)
InductiveInvariant ==
    TypeOK /\ OneActive /\ ListHolds /\ KillsItsOwn /\ OneDaemon /\ NothingForgotten /\ WorkKnown

\* Whoever waits for the lock is served, and gets to the end.
RunsEnd == \A r \in Reloads : At(r, "lock") ~> At(r, "idle")
=============================================================================
