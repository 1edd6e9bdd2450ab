-------------------------- MODULE BandwidthCollector -------------------------
(***************************************************************************)
(* luci-bwc, the collector behind the realtime graphs of the web           *)
(* interface.  The page runs it every few seconds to print a database.     *)
(* Each run ("client") first looks for the collector through its pid file:  *)
(* it restarts the collector's countdown with a signal, or forks a new     *)
(* collector, and then maps the database and prints it row by row.  The    *)
(* collector adds a sample to the database every second, in place, with no *)
(* lock, and ends when its countdown has run out.                          *)
(*                                                                         *)
(* Modelled: one database (the four kinds are handled alike), a row being  *)
(* its time; the pid file; the system clock; any number of clients and of  *)
(* collectors.  A pid whose process has ended is None: it matches no       *)
(* process (pids are taken not to be reused).                              *)
(***************************************************************************)
EXTENDS Integers, FiniteSets

CONSTANTS Clients,    \* slots for processes printing the database
          Daemons,    \* slots for collector processes
          None,       \* no pid
          StepCount,  \* STEP_COUNT, rows in the database
          Timeout,    \* passes a collector makes without being asked
          MaxTime,    \* bound on the clock
          Faults      \* what may happen to the box

ASSUME CollectorAssumption ==
    /\ StepCount \in Nat \ {0, 1} /\ Timeout \in Nat /\ MaxTime \in Nat \ {0}
    /\ None \notin Daemons
    /\ Faults \subseteq {"kill", "clockBack"}

VARIABLES
    clock,    \* time(NULL)
    exists,   \* does the database file exist?
    sized,    \* has it any contents? Touching a mapping of an empty file kills
    slots,    \* the times in its page
    pidFile,  \* the process PID_PATH names
    daemon,   \* the collectors: program counter and local variables
    client    \* the clients: the same

fileVars == <<exists, sized, slots>>
vars == <<clock, fileVars, pidFile, daemon, client>>

Rows == 1..StepCount
Times == 0..MaxTime
Starting == {"truncate", "writepid"}
Looping == {"stat", "create", "zero", "sample", "compare", "shift", "store",
            "sleep", "load", "count"}
Off == [pc |-> "off", countdown |-> -1, register |-> -1, now |-> 0, row |-> 1]
Idle == [pc |-> "idle", pid |-> None, row |-> 1, last |-> 0, comma |-> FALSE]

DaemonType == [pc : {"off", "unlink"} \union Starting \union Looping,
               countdown : -1..Timeout, register : -1..Timeout, now : Times, row : Rows]
ClientType == [pc : {"idle", "ping", "signal", "fork", "open", "row", "end"},
               pid : Daemons \union {None}, row : Rows, last : Times, comma : BOOLEAN]

TypeOK ==
    /\ clock \in Times \ {0}
    /\ exists \in BOOLEAN /\ sized \in BOOLEAN
    /\ slots \in [Rows -> Times]
    /\ pidFile \in Daemons \union {None}
    /\ daemon \in [Daemons -> DaemonType]
    /\ client \in [Clients -> ClientType]

Init ==
    /\ clock = 1
    /\ exists = FALSE /\ sized = FALSE /\ slots = [i \in Rows |-> 0]
    /\ pidFile = None
    /\ daemon = [d \in Daemons |-> Off]
    /\ client = [c \in Clients |-> Idle]

DaemonAt(d, label) == daemon[d].pc = label
ClientAt(c, label) == client[c].pc = label
Run(d, label) == daemon' = [daemon EXCEPT ![d].pc = label]

\* The process of d ends: its pid now names nobody.
Forget(pid, d) == IF pid = d THEN None ELSE pid
Ends(d) ==
    /\ daemon' = [daemon EXCEPT ![d] = Off]
    /\ client' = [c \in Clients |-> [client[c] EXCEPT !.pid = Forget(@, d)]]

-----------------------------------------------------------------------------
(* The collector: run_daemon *)

\* writepid: the file is opened with O_TRUNC,
TruncatePid(d) ==
    /\ DaemonAt(d, "truncate")
    /\ pidFile' = None
    /\ Run(d, "writepid")
    /\ UNCHANGED <<clock, fileVars, client>>

\* then written; and the loop begins with a full countdown.
WritePid(d) ==
    /\ DaemonAt(d, "writepid")
    /\ pidFile' = d
    /\ daemon' = [daemon EXCEPT ![d].pc = "stat", ![d].countdown = Timeout]
    /\ UNCHANGED <<clock, fileVars, client>>

\* Wrong variant: the database is made anew on every pass.
StatNot(d) ==
    /\ DaemonAt(d, "stat")
    /\ Run(d, "create")
    /\ UNCHANGED <<clock, fileVars, pidFile, client>>

\* update_ifstat and its like: a database that is not there is made by init_file:
Stat(d) ==
    /\ DaemonAt(d, "stat")
    /\ Run(d, IF exists THEN "sample" ELSE "create")
    /\ UNCHANGED <<clock, fileVars, pidFile, client>>
CreateFile(d) ==
    /\ DaemonAt(d, "create")
    /\ exists' = TRUE
    /\ daemon' = [daemon EXCEPT ![d].pc = "zero", ![d].row = 1]
    /\ UNCHANGED <<clock, sized, slots, pidFile, client>>
ZeroRow(d) ==
    LET i == daemon[d].row IN
    /\ DaemonAt(d, "zero")
    /\ slots' = [slots EXCEPT ![i] = 0]
    /\ sized' = TRUE
    /\ IF i < StepCount THEN daemon' = [daemon EXCEPT ![d].row = i + 1]
                        ELSE Run(d, "sample")
    /\ UNCHANGED <<clock, exists, pidFile, client>>

\* The entry is stamped,
Sample(d) ==
    /\ DaemonAt(d, "sample")
    /\ daemon' = [daemon EXCEPT ![d].pc = "compare", ![d].now = clock]
    /\ UNCHANGED <<clock, fileVars, pidFile, client>>

\* Wrong variant: every sample is taken.
CompareNot(d) ==
    /\ DaemonAt(d, "compare")
    /\ IF ~sized THEN Ends(d) /\ pidFile' = Forget(pidFile, d)
       ELSE /\ daemon' = [daemon EXCEPT ![d].pc = "shift", ![d].row = 1]
            /\ UNCHANGED <<pidFile, client>>
    /\ UNCHANGED <<clock, fileVars>>

\* update_file maps the database: a file with no contents costs the collector its
\* life (SIGBUS), and an entry that is not newer than the last is left out.
Compare(d) ==
    /\ DaemonAt(d, "compare")
    /\ IF ~sized THEN Ends(d) /\ pidFile' = Forget(pidFile, d)
       ELSE /\ IF daemon[d].now > slots[StepCount]
               THEN daemon' = [daemon EXCEPT ![d].pc = "shift", ![d].row = 1]
               ELSE Run(d, "sleep")
            /\ UNCHANGED <<pidFile, client>>
    /\ UNCHANGED <<clock, fileVars>>

\* Wrong variant: one row too few is moved.
ShiftRowShort(d) ==
    LET i == daemon[d].row IN
    /\ DaemonAt(d, "shift")
    /\ slots' = [slots EXCEPT ![i] = slots[i + 1]]
    /\ IF i < StepCount - 2 THEN daemon' = [daemon EXCEPT ![d].row = i + 1]
                            ELSE Run(d, "store")
    /\ UNCHANGED <<clock, exists, sized, pidFile, client>>

\* Wrong variant: a row that has been moved is cleared.
ShiftRowClearing(d) ==
    LET i == daemon[d].row IN
    /\ DaemonAt(d, "shift")
    /\ slots' = [slots EXCEPT ![i] = slots[i + 1], ![i + 1] = 0]
    /\ IF i < StepCount - 1 THEN daemon' = [daemon EXCEPT ![d].row = i + 1]
                            ELSE Run(d, "store")
    /\ UNCHANGED <<clock, exists, sized, pidFile, client>>

\* memmove towards the start of the page copies upwards, one row after the other,
ShiftRow(d) ==
    LET i == daemon[d].row IN
    /\ DaemonAt(d, "shift")
    /\ slots' = [slots EXCEPT ![i] = slots[i + 1]]
    /\ IF i < StepCount - 1 THEN daemon' = [daemon EXCEPT ![d].row = i + 1]
                            ELSE Run(d, "store")
    /\ UNCHANGED <<clock, exists, sized, pidFile, client>>

\* and memcpy puts the entry into the last one.
StoreRow(d) ==
    /\ DaemonAt(d, "store")
    /\ slots' = [slots EXCEPT ![StepCount] = daemon[d].now]
    /\ Run(d, "sleep")
    /\ UNCHANGED <<clock, exists, sized, pidFile, client>>

\* "countdown--" is a load and a store on this processor; a signal between the two
\* is lost.
LoadCountdown(d) ==
    /\ DaemonAt(d, "load")
    /\ daemon' = [daemon EXCEPT ![d].pc = "count", ![d].register = daemon[d].countdown]
    /\ UNCHANGED <<clock, fileVars, pidFile, client>>

\* Wrong variants: the countdown stays where it is,
StoreCountdownSame(d) ==
    /\ DaemonAt(d, "count")
    /\ daemon' = [daemon EXCEPT ![d].countdown = daemon[d].register, ![d].pc = "stat"]
    /\ UNCHANGED <<clock, fileVars, pidFile, client>>
\* or nobody looks at it.
StoreCountdownUnchecked(d) ==
    /\ DaemonAt(d, "count")
    /\ daemon' = [daemon EXCEPT ![d].countdown = daemon[d].register - 1, ![d].pc = "stat"]
    /\ UNCHANGED <<clock, fileVars, pidFile, client>>

StoreCountdown(d) ==
    LET left == daemon[d].register - 1 IN
    /\ DaemonAt(d, "count")
    /\ daemon' = [daemon EXCEPT ![d].countdown = left,
                                ![d].pc = IF left >= 0 THEN "stat" ELSE "unlink"]
    /\ UNCHANGED <<clock, fileVars, pidFile, client>>

\* The pid file goes, whoever it names, and the process with it.
UnlinkPid(d) ==
    /\ DaemonAt(d, "unlink")
    /\ pidFile' = None
    /\ Ends(d)
    /\ UNCHANGED <<clock, fileVars>>

DaemonStep(d) ==
    \/ TruncatePid(d) \/ WritePid(d) \/ Stat(d) \/ CreateFile(d) \/ ZeroRow(d)
    \/ Sample(d) \/ Compare(d) \/ ShiftRow(d) \/ StoreRow(d)
    \/ LoadCountdown(d) \/ StoreCountdown(d) \/ UnlinkPid(d)

-----------------------------------------------------------------------------
(* The client: check_daemon and run_dump_* *)

Go(c, label) == client' = [client EXCEPT ![c].pc = label]
Leave(c) == client' = [client EXCEPT ![c] = Idle]

\* readpid; nothing keeps a client from checking while another one does.
ReadPid(c) ==
    /\ ClientAt(c, "idle")
    /\ client' = [client EXCEPT ![c].pc = IF pidFile = None THEN "fork" ELSE "ping",
                                ![c].pid = pidFile]
    /\ UNCHANGED <<clock, fileVars, pidFile, daemon>>

\* kill(pid, 0)
Ping(c) ==
    /\ ClientAt(c, "ping")
    /\ Go(c, IF client[c].pid = None THEN "fork" ELSE "signal")
    /\ UNCHANGED <<clock, fileVars, pidFile, daemon>>

\* SIGUSR1 runs reset_countdown in the collector and ends its sleep; if the process
\* has ended since the ping the client gives up.
SendSignal(c) ==
    /\ ClientAt(c, "signal")
    /\ LET d == client[c].pid IN
       IF d = None THEN Leave(c) /\ UNCHANGED daemon
       ELSE /\ daemon' = [daemon EXCEPT ![d].countdown = Timeout,
                                        ![d].pc = IF @ = "sleep" THEN "load" ELSE @]
            /\ Go(c, "open")
    /\ UNCHANGED <<clock, fileVars, pidFile>>

\* fork() in run_daemon; the parent goes on at once.  Without a free slot (a
\* bound) it fails, and the client with it.
Fork(c) ==
    /\ ClientAt(c, "fork")
    /\ \/ \E d \in Daemons : /\ DaemonAt(d, "off")
                             /\ Run(d, "truncate")
                             /\ Go(c, "open")
       \/ /\ \A d \in Daemons : ~DaemonAt(d, "off")
          /\ Leave(c)
          /\ UNCHANGED daemon
    /\ UNCHANGED <<clock, fileVars, pidFile>>

\* mmap_file
OpenFile(c) ==
    /\ ClientAt(c, "open")
    /\ IF exists THEN Go(c, "row") ELSE Leave(c)
    /\ UNCHANGED <<clock, fileVars, pidFile, daemon>>

\* The rows are printed from the live mapping, those without a time left out, each
\* with a comma after it but the one in the last place.
PrintRow(c) ==
    LET i == client[c].row
        shown == slots[i] # 0
    IN
    /\ ClientAt(c, "row")
    /\ IF sized
       THEN client' = [client EXCEPT
                ![c].last = IF shown THEN slots[i] ELSE @,
                ![c].comma = IF shown THEN i < StepCount ELSE @,
                ![c].row = IF i < StepCount THEN i + 1 ELSE @,
                ![c].pc = IF i < StepCount THEN "row" ELSE "end"]
       ELSE Leave(c)                                        \* SIGBUS
    /\ UNCHANGED <<clock, fileVars, pidFile, daemon>>

Finish(c) ==
    /\ ClientAt(c, "end")
    /\ Leave(c)
    /\ UNCHANGED <<clock, fileVars, pidFile, daemon>>

ClientStep(c) ==
    \/ Ping(c) \/ SendSignal(c) \/ Fork(c) \/ OpenFile(c) \/ PrintRow(c) \/ Finish(c)

-----------------------------------------------------------------------------
(* The box *)

\* A second passes, and sleep(1) ends where it has begun before.  In the last
\* second of the bound the clock stands still.
Tick ==
    /\ clock' = IF clock < MaxTime THEN clock + 1 ELSE clock
    /\ daemon' = [d \in Daemons |->
                    [daemon[d] EXCEPT !.pc = IF @ = "sleep" THEN "load" ELSE @]]
    /\ UNCHANGED <<fileVars, pidFile, client>>

\* The clock is set back, by the time client or by hand.
SetClockBack ==
    /\ "clockBack" \in Faults
    /\ \E t \in 1..(clock - 1) : clock' = t
    /\ UNCHANGED <<fileVars, pidFile, daemon, client>>

\* A collector is killed wherever it is; its pid file stays.
Kill(d) ==
    /\ "kill" \in Faults
    /\ ~DaemonAt(d, "off")
    /\ Ends(d)
    /\ pidFile' = Forget(pidFile, d)
    /\ UNCHANGED <<clock, fileVars>>

Next ==
    \/ \E d \in Daemons : DaemonStep(d) \/ Kill(d)
    \/ \E c \in Clients : ReadPid(c) \/ ClientStep(c)
    \/ Tick \/ SetClockBack

Spec == Init /\ [][Next]_vars

\* Somebody is between reading the pid file and having written it.
Checking == \/ \E c \in Clients : client[c].pc \in {"ping", "fork"}
            \/ \E d \in Daemons : daemon[d].pc \in Starting

\* An assumption the code does nothing for: no page asks while another one is still
\* looking for the collector or starting it.
InTurn == \A c \in Clients : ClientAt(c, "idle") /\ client'[c].pc # "idle" => ~Checking
SerialSpec == Init /\ [][Next /\ InTurn]_vars

\* Processes run and time passes; nobody has to look at a graph.
Fairness == /\ WF_vars(Tick)
            /\ \A d \in Daemons : WF_vars(DaemonStep(d))
            /\ \A c \in Clients : WF_vars(ClientStep(c))
FairSpec == Spec /\ Fairness
FairSerialSpec == SerialSpec /\ Fairness

-----------------------------------------------------------------------------
(* Properties *)

Mover(d) == daemon[d].pc \in {"shift", "store"}   \* a sample is being moved in

\* What checks in turn lead to, and the rest needs: the pid file names the collector from
\* when it begins to loop until it has ended, and only a client that has found nobody
\* starts one.
PidFileNamesCollector ==
    /\ \A d \in Daemons : daemon[d].pc \in Looping \union {"unlink"} => pidFile = d
    /\ \A c \in Clients : ClientAt(c, "fork") => pidFile = None
    /\ \A c \in Clients : ClientAt(c, "ping") => client[c].pid = pidFile
    /\ \A d \in Daemons : daemon[d].pc \in Starting =>
            /\ pidFile = None
            /\ \A e \in Daemons : ~DaemonAt(e, "off") => d = e
    /\ \A c \in Clients, d \in Daemons :
            client[c].pc \in {"ping", "fork"} => daemon[d].pc \notin Starting
    /\ \A b, c \in Clients :
            client[b].pc \in {"ping", "fork"} /\ client[c].pc \in {"ping", "fork"} => b = c

\* The times in the database never go down from a row to the next, not even while
\* a sample is being moved in; a database being made is blank.
DatabaseOrdered ==
    /\ \A i, j \in Rows : i <= j => slots[i] <= slots[j]
    /\ \A d \in Daemons :
          /\ Mover(d) => daemon[d].now > slots[StepCount] /\ sized
          /\ daemon[d].pc \in {"create", "zero"} => \A i \in Rows : slots[i] = 0
          /\ DaemonAt(d, "zero") => exists
    /\ sized => exists
    /\ ~sized => \A i \in Rows : slots[i] = 0

\* What a client will print next is no older than what it has printed, and a row it
\* has printed has one behind it.
ReadersInOrder ==
    \A c \in Clients :
        /\ ClientAt(c, "row") =>
              /\ client[c].last <= slots[client[c].row]
              /\ client[c].comma => slots[StepCount] # 0
        /\ ClientAt(c, "end") => ~client[c].comma
        /\ client[c].pc \notin {"row", "end"} => client[c].last = 0 /\ ~client[c].comma
        /\ client[c].pc \notin {"row", "end"} => client[c].row = 1

\* A collector that loops has not run out of time, and moves no row from beyond the page.
CountdownLive ==
    \A d \in Daemons :
        /\ daemon[d].pc \in Looping => daemon[d].countdown >= 0
        /\ DaemonAt(d, "count") => daemon[d].register >= 0
        /\ DaemonAt(d, "shift") => daemon[d].row < StepCount

InductiveInvariant ==
    /\ TypeOK
    /\ CountdownLive
    /\ PidFileNamesCollector
    /\ DatabaseOrdered
    /\ ReadersInOrder

\* The list a client prints is well formed: no comma behind its last row, whatever
\* the collector does to the database meanwhile.
OutputWellFormed == \A c \in Clients : ClientAt(c, "end") => ~client[c].comma

\* And it goes forward in time.
PrintsInOrder ==
    [][\A c \in Clients :
         ClientAt(c, "row") /\ client'[c].pc \in {"row", "end"}
            => client[c].last <= client'[c].last]_vars

\* Samples taken are not blanked again.
HistoryKept == [][slots[StepCount] # 0 => slots'[StepCount] # 0]_vars

\* Seen as a whole the database is a SampleWindow, a sample entering it when it has
\* been found newer than the last.
Shown ==
    IF \E d \in Daemons : Mover(d)
    THEN LET d == CHOOSE e \in Daemons : Mover(e)
             next == IF DaemonAt(d, "shift") THEN daemon[d].row ELSE StepCount
         IN [i \in Rows |-> IF i < next THEN slots[i]
                            ELSE IF i < StepCount THEN slots[i + 1] ELSE daemon[d].now]
    ELSE slots
Window == INSTANCE SampleWindow WITH WindowSize <- StepCount, window <- Shown
ImplementsWindow == Window!Spec

\* Why a collector that dies while it moves a sample in leaves the window a place back:
\* the row it has copied last stands in the database twice.
RowsCopied ==
    \A d \in Daemons :
        /\ DaemonAt(d, "shift") /\ daemon[d].row > 1
               => slots[daemon[d].row - 1] = slots[daemon[d].row]
        /\ DaemonAt(d, "store") => slots[StepCount - 1] = slots[StepCount]

\* When nobody looks at the graphs any more the collectors end.
CollectorsEnd ==
    <>[](\A c \in Clients : ClientAt(c, "idle"))
        => <>[](\A d \in Daemons : DaemonAt(d, "off"))
=============================================================================
