----------------------- MODULE BandwidthCollectorProofs -----------------------
(***************************************************************************)
(* Theorems about BandwidthCollector, for any clients, collectors, length  *)
(* of the database and countdown: the types always, the rest when the      *)
(* clients look for the collector in turn (SerialSpec).                    *)
(***************************************************************************)
EXTENDS BandwidthCollector, TLAPS

Labels == {"off", "unlink"} \union Starting \union Looping
ClientLabels == {"idle", "ping", "signal", "fork", "open", "row", "end"}
TypesAndCounters == TypeOK /\ CountdownLive

(* The bounds of the rows and of the countdown.                            *)
LEMMA Bounds ==
    /\ StepCount \in Nat /\ StepCount >= 2 /\ Timeout \in Nat /\ MaxTime \in Nat
    /\ 1 \in Rows /\ StepCount \in Rows /\ 0 \in Times
    /\ -1 \in -1 .. Timeout /\ Timeout \in -1 .. Timeout
    /\ \A i \in Rows : i < StepCount => i + 1 \in Rows
BY CollectorAssumption DEF Rows, Times

LEMMA OffTyped == Off \in DaemonType
BY Bounds DEF Off, DaemonType

LEMMA IdleTyped == Idle \in ClientType
BY Bounds DEF Idle, ClientType

(* Steps that move a program counter, and the end of a process.            *)
LEMMA RunTyped ==
    ASSUME TypeOK, NEW d \in Daemons, NEW label \in Labels, Run(d, label)
    PROVE  daemon' \in [Daemons -> DaemonType]
<1>1. [daemon[d] EXCEPT !.pc = label] \in DaemonType
  BY DEF TypeOK, DaemonType, Labels
<1>2. daemon' = [daemon EXCEPT ![d] = [daemon[d] EXCEPT !.pc = label]]
  BY DEF Run
<1> QED
  BY <1>1, <1>2 DEF TypeOK

LEMMA GoTyped ==
    ASSUME TypeOK, NEW c \in Clients, NEW label \in ClientLabels, Go(c, label)
    PROVE  client' \in [Clients -> ClientType]
<1>1. [client[c] EXCEPT !.pc = label] \in ClientType
  BY DEF TypeOK, ClientType, ClientLabels
<1>2. client' = [client EXCEPT ![c] = [client[c] EXCEPT !.pc = label]]
  BY DEF Go
<1> QED
  BY <1>1, <1>2 DEF TypeOK

LEMMA LeaveTyped ==
    ASSUME TypeOK, NEW c \in Clients, Leave(c)
    PROVE  client' \in [Clients -> ClientType]
BY IdleTyped DEF TypeOK, Leave

LEMMA EndsTyped ==
    ASSUME TypeOK, NEW d \in Daemons, Ends(d)
    PROVE  /\ daemon' \in [Daemons -> DaemonType]
           /\ client' \in [Clients -> ClientType]
<1>1. daemon' \in [Daemons -> DaemonType]
  BY OffTyped DEF TypeOK, Ends
<1>2. ASSUME NEW c \in Clients
      PROVE  [client[c] EXCEPT !.pid = Forget(@, d)] \in ClientType
  BY DEF TypeOK, ClientType, Forget
<1> QED
  BY <1>1, <1>2 DEF Ends

(* What a step of a collector leaves of the others.                        *)
LEMMA OthersUntouched ==
    ASSUME TypeOK, NEW d \in Daemons, DaemonStep(d) \/ Kill(d)
    PROVE  \A e \in Daemons \ {d} : daemon'[e] = daemon[e]
BY DEF TypeOK, DaemonStep, Kill, TruncatePid, WritePid, Stat, CreateFile, ZeroRow, Sample,
       Compare, ShiftRow, StoreRow, LoadCountdown, StoreCountdown, UnlinkPid, Ends, Run

LEMMA TypeInit == Init => TypesAndCounters
<1> SUFFICES ASSUME Init PROVE TypesAndCounters
  OBVIOUS
<1>1. TypeOK
  <2>1. clock \in Times \ {0}
    BY CollectorAssumption DEF Init, Times
  <2> QED
    BY <2>1, OffTyped, IdleTyped, Bounds DEF Init, TypeOK
<1>2. CountdownLive
  BY DEF Init, CountdownLive, DaemonAt, Off, Looping
<1> QED
  BY <1>1, <1>2 DEF TypesAndCounters

LEMMA DaemonTypes ==
    ASSUME TypesAndCounters, NEW d \in Daemons, DaemonStep(d)
    PROVE  TypeOK'
<1> USE DEF TypesAndCounters
<1>1. CASE TruncatePid(d)
  BY <1>1, RunTyped DEF TruncatePid, TypeOK, Labels, Starting, fileVars
<1>2. CASE WritePid(d)
  <2>1. [daemon[d] EXCEPT !.pc = "stat", !.countdown = Timeout] \in DaemonType
    BY Bounds DEF TypeOK, DaemonType, Looping
  <2>2. daemon' = [daemon EXCEPT ![d] = [daemon[d] EXCEPT !.pc = "stat", !.countdown = Timeout]]
    BY <1>2 DEF WritePid
  <2> QED
    BY <1>2, <2>1, <2>2 DEF WritePid, TypeOK, fileVars
<1>3. CASE Stat(d)
  BY <1>3, RunTyped DEF Stat, TypeOK, Labels, Looping, fileVars
<1>4. CASE CreateFile(d)
  <2>1. [daemon[d] EXCEPT !.pc = "zero", !.row = 1] \in DaemonType
    BY Bounds DEF TypeOK, DaemonType, Looping
  <2>2. daemon' = [daemon EXCEPT ![d] = [daemon[d] EXCEPT !.pc = "zero", !.row = 1]]
    BY <1>4 DEF CreateFile
  <2> QED
    BY <1>4, <2>1, <2>2 DEF CreateFile, TypeOK
<1>5. CASE ZeroRow(d)
  <2>1. slots' \in [Rows -> Times] /\ sized' \in BOOLEAN
    BY <1>5, Bounds DEF ZeroRow, TypeOK
  <2>2. CASE daemon[d].row < StepCount
    <3>1. daemon[d].row + 1 \in Rows
      BY <2>2, Bounds DEF TypeOK, DaemonType
    <3>2. [daemon[d] EXCEPT !.row = daemon[d].row + 1] \in DaemonType
      BY <3>1 DEF TypeOK, DaemonType
    <3>3. daemon' = [daemon EXCEPT ![d] = [daemon[d] EXCEPT !.row = daemon[d].row + 1]]
      BY <1>5, <2>2 DEF ZeroRow
    <3> QED
      BY <1>5, <2>1, <3>2, <3>3 DEF ZeroRow, TypeOK
  <2>3. CASE ~(daemon[d].row < StepCount)
    BY <1>5, <2>1, <2>3, RunTyped DEF ZeroRow, TypeOK, Labels, Looping
  <2> QED
    BY <2>2, <2>3
<1>6. CASE Sample(d)
  <2>1. [daemon[d] EXCEPT !.pc = "compare", !.now = clock] \in DaemonType
    BY DEF TypeOK, DaemonType, Looping
  <2>2. daemon' = [daemon EXCEPT ![d] = [daemon[d] EXCEPT !.pc = "compare", !.now = clock]]
    BY <1>6 DEF Sample
  <2> QED
    BY <1>6, <2>1, <2>2 DEF Sample, TypeOK, fileVars
<1>7. CASE Compare(d)
  <2>1. CASE ~sized
    BY <1>7, <2>1, EndsTyped DEF Compare, TypeOK, Forget, fileVars
  <2>2. CASE sized /\ daemon[d].now > slots[StepCount]
    <3>1. [daemon[d] EXCEPT !.pc = "shift", !.row = 1] \in DaemonType
      BY Bounds DEF TypeOK, DaemonType, Looping
    <3>2. daemon' = [daemon EXCEPT ![d] = [daemon[d] EXCEPT !.pc = "shift", !.row = 1]]
      BY <1>7, <2>2 DEF Compare
    <3> QED
      BY <1>7, <2>2, <3>1, <3>2 DEF Compare, TypeOK, fileVars
  <2>3. CASE sized /\ ~(daemon[d].now > slots[StepCount])
    BY <1>7, <2>3, RunTyped DEF Compare, TypeOK, Labels, Looping, fileVars
  <2> QED
    BY <2>1, <2>2, <2>3
<1>8. CASE ShiftRow(d)
  <2>1. daemon[d].row \in Rows /\ daemon[d].row + 1 \in Rows
    BY <1>8, Bounds DEF ShiftRow, CountdownLive, TypeOK, DaemonType
  <2>2. slots' \in [Rows -> Times]
    BY <1>8, <2>1 DEF ShiftRow, TypeOK
  <2>3. CASE daemon[d].row < StepCount - 1
    <3>1. [daemon[d] EXCEPT !.row = daemon[d].row + 1] \in DaemonType
      BY <2>1 DEF TypeOK, DaemonType
    <3>2. daemon' = [daemon EXCEPT ![d] = [daemon[d] EXCEPT !.row = daemon[d].row + 1]]
      BY <1>8, <2>3 DEF ShiftRow
    <3> QED
      BY <1>8, <2>2, <3>1, <3>2 DEF ShiftRow, TypeOK
  <2>4. CASE ~(daemon[d].row < StepCount - 1)
    BY <1>8, <2>2, <2>4, RunTyped DEF ShiftRow, TypeOK, Labels, Looping
  <2> QED
    BY <2>3, <2>4
<1>9. CASE StoreRow(d)
  <2>1. slots' \in [Rows -> Times]
    BY <1>9, Bounds DEF StoreRow, TypeOK, DaemonType
  <2> QED
    BY <1>9, <2>1, RunTyped DEF StoreRow, TypeOK, Labels, Looping
<1>10. CASE LoadCountdown(d)
  <2>1. [daemon[d] EXCEPT !.pc = "count", !.register = daemon[d].countdown] \in DaemonType
    BY DEF TypeOK, DaemonType, Looping
  <2>2. daemon' = [daemon EXCEPT ![d] = [daemon[d] EXCEPT !.pc = "count",
                                            !.register = daemon[d].countdown]]
    BY <1>10 DEF LoadCountdown
  <2> QED
    BY <1>10, <2>1, <2>2 DEF LoadCountdown, TypeOK, fileVars
<1>11. CASE StoreCountdown(d)
  <2> DEFINE left == daemon[d].register - 1
             next == IF left >= 0 THEN "stat" ELSE "unlink"
  <2>1. left \in -1 .. Timeout
    BY <1>11, Bounds DEF StoreCountdown, CountdownLive, TypeOK, DaemonType
  <2>2. [daemon[d] EXCEPT !.countdown = left, !.pc = next] \in DaemonType
    BY <2>1 DEF TypeOK, DaemonType, Looping
  <2>3. daemon' = [daemon EXCEPT ![d] = [daemon[d] EXCEPT !.countdown = left, !.pc = next]]
    BY <1>11 DEF StoreCountdown
  <2> QED
    BY <1>11, <2>2, <2>3 DEF StoreCountdown, TypeOK, fileVars
<1>12. CASE UnlinkPid(d)
  BY <1>12, EndsTyped DEF UnlinkPid, TypeOK, fileVars
<1> QED
  BY <1>1, <1>2, <1>3, <1>4, <1>5, <1>6, <1>7, <1>8, <1>9, <1>10, <1>11, <1>12 DEF DaemonStep

LEMMA DaemonCounters ==
    ASSUME TypesAndCounters, NEW d \in Daemons, DaemonStep(d)
    PROVE  CountdownLive'
<1> USE DEF TypesAndCounters
<1> SUFFICES /\ daemon'[d].pc \in Looping => daemon'[d].countdown >= 0
             /\ daemon'[d].pc = "count" => daemon'[d].register >= 0
             /\ daemon'[d].pc = "shift" => daemon'[d].row < StepCount
  BY OthersUntouched DEF CountdownLive, DaemonAt
<1> USE DEF DaemonAt, Looping
<1>0. daemon[d].pc \in Looping => daemon[d].countdown >= 0
  BY DEF CountdownLive
<1>1. CASE TruncatePid(d)
  BY <1>1 DEF TruncatePid, Run, TypeOK, DaemonType
<1>2. CASE WritePid(d)
  BY <1>2, Bounds DEF WritePid, TypeOK, DaemonType
<1>3. CASE Stat(d)
  BY <1>0, <1>3 DEF Stat, Run, TypeOK, DaemonType
<1>4. CASE CreateFile(d)
  BY <1>0, <1>4 DEF CreateFile, TypeOK, DaemonType
<1>5. CASE ZeroRow(d)
  BY <1>0, <1>5 DEF ZeroRow, Run, TypeOK, DaemonType
<1>6. CASE Sample(d)
  BY <1>0, <1>6 DEF Sample, TypeOK, DaemonType
<1>7. CASE Compare(d)
  BY <1>0, <1>7, Bounds DEF Compare, Run, Ends, Off, TypeOK, DaemonType
<1>8. CASE ShiftRow(d)
  <2>1. daemon[d].row \in Nat /\ daemon[d].pc = "shift"
    BY <1>8 DEF ShiftRow, TypeOK, DaemonType, Rows
  <2>2. CASE daemon[d].row < StepCount - 1
    <3>1. daemon' = [daemon EXCEPT ![d].row = daemon[d].row + 1]
      BY <1>8, <2>2 DEF ShiftRow
    <3>2. daemon[d].row + 1 < StepCount
      BY <2>1, <2>2, Bounds
    <3> QED
      BY <1>0, <2>1, <3>1, <3>2 DEF TypeOK, DaemonType
  <2>3. CASE ~(daemon[d].row < StepCount - 1)
    <3>1. daemon' = [daemon EXCEPT ![d].pc = "store"]
      BY <1>8, <2>3 DEF ShiftRow, Run
    <3> QED
      BY <1>0, <2>1, <3>1 DEF TypeOK, DaemonType
  <2> QED
    BY <2>2, <2>3
<1>9. CASE StoreRow(d)
  BY <1>0, <1>9 DEF StoreRow, Run, TypeOK, DaemonType
<1>10. CASE LoadCountdown(d)
  BY <1>0, <1>10 DEF LoadCountdown, TypeOK, DaemonType
<1>11. CASE StoreCountdown(d)
  BY <1>11 DEF StoreCountdown, TypeOK, DaemonType
<1>12. CASE UnlinkPid(d)
  BY <1>12 DEF UnlinkPid, Ends, Off, TypeOK, DaemonType
<1> QED
  BY <1>1, <1>2, <1>3, <1>4, <1>5, <1>6, <1>7, <1>8, <1>9, <1>10, <1>11, <1>12 DEF DaemonStep

LEMMA ClientTypes ==
    ASSUME TypesAndCounters, NEW c \in Clients, ReadPid(c) \/ ClientStep(c)
    PROVE  TypesAndCounters'
<1> USE DEF TypesAndCounters
<1>1. CASE ReadPid(c)
  <2> DEFINE next == IF pidFile = None THEN "fork" ELSE "ping"
  <2>1. [client[c] EXCEPT !.pc = next, !.pid = pidFile] \in ClientType
    BY DEF TypeOK, ClientType
  <2>2. client' = [client EXCEPT ![c] = [client[c] EXCEPT !.pc = next, !.pid = pidFile]]
    BY <1>1 DEF ReadPid
  <2> QED
    BY <1>1, <2>1, <2>2 DEF ReadPid, TypeOK, CountdownLive, DaemonAt, fileVars
<1>2. CASE Ping(c)
  BY <1>2, GoTyped DEF Ping, TypeOK, CountdownLive, DaemonAt, ClientLabels, fileVars
<1>3. CASE SendSignal(c)
  <2>1. CASE client[c].pid = None
    BY <1>3, <2>1, LeaveTyped DEF SendSignal, TypeOK, CountdownLive, DaemonAt, fileVars
  <2>2. CASE client[c].pid # None
    <3> PICK d \in Daemons : d = client[c].pid
      BY <2>2 DEF TypeOK, ClientType
    <3> DEFINE next == IF daemon[d].pc = "sleep" THEN "load" ELSE daemon[d].pc
    <3>1. [daemon[d] EXCEPT !.countdown = Timeout, !.pc = next] \in DaemonType
      BY Bounds DEF TypeOK, DaemonType, Looping
    <3>2. daemon' = [daemon EXCEPT ![d] = [daemon[d] EXCEPT !.countdown = Timeout, !.pc = next]]
      BY <1>3, <2>2 DEF SendSignal
    <3>3. TypeOK'
      BY <1>3, <2>2, <3>1, <3>2, GoTyped DEF SendSignal, TypeOK, ClientLabels, fileVars
    <3>4. CountdownLive'
      BY <3>2, Bounds DEF CountdownLive, DaemonAt, TypeOK, DaemonType, Looping
    <3> QED
      BY <3>3, <3>4
  <2> QED
    BY <2>1, <2>2
<1>4. CASE Fork(c)
  <2>1. CASE \A d \in Daemons : ~DaemonAt(d, "off")
    BY <1>4, <2>1, LeaveTyped DEF Fork, TypeOK, CountdownLive, DaemonAt, fileVars
  <2>2. ASSUME NEW d \in Daemons, Run(d, "truncate"), Go(c, "open")
        PROVE  TypesAndCounters'
    <3>1. TypeOK'
      BY <1>4, <2>2, RunTyped, GoTyped
      DEF Fork, TypeOK, Labels, Starting, ClientLabels, fileVars
    <3>2. CountdownLive'
      BY <2>2 DEF Run, CountdownLive, DaemonAt, TypeOK, DaemonType, Looping
    <3> QED
      BY <3>1, <3>2
  <2> QED
    BY <1>4, <2>1, <2>2 DEF Fork
<1>5. CASE OpenFile(c)
  BY <1>5, GoTyped, LeaveTyped
  DEF OpenFile, TypeOK, CountdownLive, DaemonAt, ClientLabels, fileVars
<1>6. CASE PrintRow(c)
  <2>1. CASE ~sized
    BY <1>6, <2>1, LeaveTyped DEF PrintRow, TypeOK, CountdownLive, DaemonAt, fileVars
  <2>2. CASE sized
    <3> DEFINE i == client[c].row
               last == IF slots[i] # 0 THEN slots[i] ELSE client[c].last
               comma == IF slots[i] # 0 THEN i < StepCount ELSE client[c].comma
               row == IF i < StepCount THEN i + 1 ELSE i
               next == IF i < StepCount THEN "row" ELSE "end"
               rec == [client[c] EXCEPT !.last = last, !.comma = comma, !.row = row, !.pc = next]
    <3>0. i \in Rows /\ slots[i] \in Times /\ client[c] \in ClientType
      BY DEF TypeOK, ClientType
    <3>1. last \in Times
      BY <3>0 DEF ClientType
    <3>5. comma \in BOOLEAN
      <4>1. client[c].comma \in BOOLEAN
        BY <3>0 DEF ClientType
      <4>2. CASE slots[i] # 0
        BY <4>2
      <4>3. CASE slots[i] = 0
        BY <4>1, <4>3
      <4> QED
        BY <4>2, <4>3
    <3>4. row \in Rows
      BY <3>0, Bounds
    <3>2. rec \in ClientType
      BY <3>0, <3>1, <3>4, <3>5 DEF ClientType
    <3>3. client' = [client EXCEPT ![c] = rec]
      BY <1>6, <2>2 DEF PrintRow
    <3> QED
      BY <1>6, <3>2, <3>3 DEF PrintRow, TypeOK, CountdownLive, DaemonAt, fileVars
  <2> QED
    BY <2>1, <2>2 DEF TypeOK
<1>7. CASE Finish(c)
  BY <1>7, LeaveTyped DEF Finish, TypeOK, CountdownLive, DaemonAt, fileVars
<1> QED
  BY <1>1, <1>2, <1>3, <1>4, <1>5, <1>6, <1>7 DEF ClientStep

LEMMA BoxTypes ==
    ASSUME TypesAndCounters, Tick \/ SetClockBack \/ \E d \in Daemons : Kill(d)
    PROVE  TypesAndCounters'
<1> USE DEF TypesAndCounters
<1>1. CASE Tick
  <2>1. clock' \in Times \ {0}
    BY <1>1, CollectorAssumption DEF Tick, TypeOK, Times
  <2>2. ASSUME NEW d \in Daemons
        PROVE  [daemon[d] EXCEPT !.pc = IF @ = "sleep" THEN "load" ELSE @] \in DaemonType
    BY DEF TypeOK, DaemonType, Looping
  <2>3. daemon' \in [Daemons -> DaemonType]
    BY <1>1, <2>2 DEF Tick
  <2>4. CountdownLive'
    BY <1>1 DEF Tick, CountdownLive, DaemonAt, Looping, TypeOK, DaemonType
  <2> QED
    BY <1>1, <2>1, <2>3, <2>4 DEF Tick, TypeOK, fileVars
<1>2. CASE SetClockBack
  <2>1. clock' \in Times \ {0}
    BY <1>2, CollectorAssumption DEF SetClockBack, TypeOK, Times
  <2> QED
    BY <1>2, <2>1 DEF SetClockBack, TypeOK, CountdownLive, DaemonAt, fileVars
<1>3. ASSUME NEW d \in Daemons, Kill(d) PROVE TypesAndCounters'
  <2>1. TypeOK'
    BY <1>3, EndsTyped DEF Kill, TypeOK, Forget, fileVars
  <2>2. CountdownLive'
    BY <1>3 DEF Kill, Ends, Off, CountdownLive, DaemonAt, Looping, TypeOK
  <2> QED
    BY <2>1, <2>2
<1> QED
  BY <1>1, <1>2, <1>3

LEMMA TypeStep == TypesAndCounters /\ [Next]_vars => TypesAndCounters'
<1> SUFFICES ASSUME TypesAndCounters, [Next]_vars PROVE TypesAndCounters'
  OBVIOUS
<1>1. CASE UNCHANGED vars
  BY <1>1 DEF vars, fileVars, TypesAndCounters, TypeOK, CountdownLive, DaemonAt
<1>2. ASSUME NEW d \in Daemons, DaemonStep(d) PROVE TypesAndCounters'
  BY <1>2, DaemonTypes, DaemonCounters DEF TypesAndCounters
<1> QED
  BY <1>1, <1>2, ClientTypes, BoxTypes DEF Next

(* Every variable keeps to its type, with checks that overlap and every    *)
(* fault; a collector that loops has time left.                            *)
THEOREM TypeCorrect == Spec => []TypeOK
<1>1. TypesAndCounters => TypeOK
  BY DEF TypesAndCounters
<1> QED
  BY <1>1, TypeInit, TypeStep, PTL DEF Spec

-----------------------------------------------------------------------------
(* From here on the clients check in turn.                                 *)

(* A collector at work, as its clients see it.                             *)
Working(d) ==
    /\ daemon[d].pc \in Looping
    /\ daemon'[d].pc \in Looping \union {"unlink"}
    /\ pidFile' = pidFile /\ client' = client

(* A collector that ends takes its pid with it.                            *)
Gone(d) ==
    /\ daemon'[d].pc = "off"
    /\ pidFile' = Forget(pidFile, d)
    /\ client' = [c \in Clients |-> [client[c] EXCEPT !.pid = Forget(@, d)]]

LEMMA StepOfCollector ==
    ASSUME TypesAndCounters, PidFileNamesCollector, NEW d \in Daemons, DaemonStep(d) \/ Kill(d)
    PROVE  TruncatePid(d) \/ WritePid(d) \/ Working(d) \/ Gone(d)
<1> USE DEF TypesAndCounters, DaemonAt
<1>1. CASE Stat(d)
  BY <1>1 DEF Stat, Run, Working, TypeOK, DaemonType, Looping
<1>2. CASE CreateFile(d)
  BY <1>2 DEF CreateFile, Working, TypeOK, DaemonType, Looping
<1>3. CASE ZeroRow(d)
  BY <1>3 DEF ZeroRow, Run, Working, TypeOK, DaemonType, Looping
<1>4. CASE Sample(d)
  BY <1>4 DEF Sample, Working, TypeOK, DaemonType, Looping
<1>5. CASE Compare(d)
  BY <1>5 DEF Compare, Run, Ends, Off, Working, Gone, TypeOK, DaemonType, Looping
<1>6. CASE ShiftRow(d)
  BY <1>6 DEF ShiftRow, Run, Working, TypeOK, DaemonType, Looping
<1>7. CASE StoreRow(d)
  BY <1>7 DEF StoreRow, Run, Working, TypeOK, DaemonType, Looping
<1>8. CASE LoadCountdown(d)
  BY <1>8 DEF LoadCountdown, Working, TypeOK, DaemonType, Looping
<1>9. CASE StoreCountdown(d)
  BY <1>9 DEF StoreCountdown, Working, TypeOK, DaemonType, Looping
<1>10. CASE UnlinkPid(d)
  <2>1. pidFile = d
    BY <1>10 DEF UnlinkPid, PidFileNamesCollector
  <2> QED
    BY <1>10, <2>1 DEF UnlinkPid, Ends, Off, Gone, Forget, TypeOK
<1>11. CASE Kill(d)
  BY <1>11 DEF Kill, Ends, Off, Gone, TypeOK
<1> QED
  BY <1>1, <1>2, <1>3, <1>4, <1>5, <1>6, <1>7, <1>8, <1>9, <1>10, <1>11 DEF DaemonStep

LEMMA PidFileCollector ==
    ASSUME TypesAndCounters, PidFileNamesCollector, NEW d \in Daemons, DaemonStep(d) \/ Kill(d)
    PROVE  PidFileNamesCollector'
<1> USE DEF TypesAndCounters, DaemonAt, ClientAt
<1>0. \A e \in Daemons \ {d} : daemon'[e] = daemon[e]
  BY OthersUntouched
<1>1. CASE TruncatePid(d)
  <2>1. /\ daemon[d].pc = "truncate" /\ daemon'[d].pc = "writepid"
        /\ pidFile' = None /\ client' = client
    BY <1>1 DEF TruncatePid, Run, TypeOK, DaemonType
  <2>2. pidFile = None
    BY <2>1 DEF PidFileNamesCollector, Starting
  <2> QED
    BY <1>0, <2>1, <2>2 DEF PidFileNamesCollector, Starting, Looping
<1>2. CASE WritePid(d)
  <2>1. /\ daemon[d].pc = "writepid" /\ daemon'[d].pc = "stat"
        /\ pidFile' = d /\ client' = client
    BY <1>2 DEF WritePid, TypeOK, DaemonType
  <2>2. /\ \A e \in Daemons \ {d} : daemon[e].pc = "off"
        /\ \A c \in Clients : client[c].pc \notin {"ping", "fork"}
    BY <2>1 DEF PidFileNamesCollector, Starting
  <2> QED
    BY <1>0, <2>1, <2>2 DEF PidFileNamesCollector, Starting, Looping
<1>3. CASE Working(d)
  BY <1>0, <1>3 DEF Working, PidFileNamesCollector, Starting, Looping
<1>4. CASE Gone(d)
  <2>1. \A c \in Clients : /\ client'[c].pc = client[c].pc
                           /\ client'[c].pid = Forget(client[c].pid, d)
    BY <1>4 DEF Gone, TypeOK, ClientType
  <2>2. /\ \A e \in Daemons : daemon'[e].pc # "off" => e # d /\ daemon'[e] = daemon[e]
        /\ pidFile' = Forget(pidFile, d)
    BY <1>0, <1>4 DEF Gone
  <2> QED
    BY <2>1, <2>2 DEF PidFileNamesCollector, Starting, Looping, Forget
<1> QED
  BY <1>1, <1>2, <1>3, <1>4, StepOfCollector

LEMMA PidFileClient ==
    ASSUME TypesAndCounters, PidFileNamesCollector, InTurn,
           NEW c \in Clients, ReadPid(c) \/ ClientStep(c)
    PROVE  PidFileNamesCollector'
<1> USE DEF TypesAndCounters, DaemonAt, ClientAt
<1>0. pidFile' = pidFile /\ \A b \in Clients \ {c} : client'[b] = client[b]
  BY DEF ClientStep, ReadPid, Ping, SendSignal, Fork, OpenFile, PrintRow, Finish, Go, Leave,
         TypeOK
<1>1. CASE ReadPid(c)
  <2>1. /\ client'[c].pc = IF pidFile = None THEN "fork" ELSE "ping"
        /\ client'[c].pid = pidFile /\ daemon' = daemon
    BY <1>1 DEF ReadPid, TypeOK, ClientType
  <2>2. ~Checking
    <3>1. client[c].pc = "idle" /\ client'[c].pc # "idle"
      BY <1>1, <2>1 DEF ReadPid
    <3> QED
      BY <3>1, Zenon DEF InTurn
  <2> QED
    BY <1>0, <2>1, <2>2 DEF PidFileNamesCollector, Checking
<1>2. CASE Ping(c)
  <2>1. /\ client[c].pc = "ping" /\ daemon' = daemon
        /\ client'[c].pc = IF client[c].pid = None THEN "fork" ELSE "signal"
    BY <1>2 DEF Ping, Go, TypeOK, ClientType
  <2> QED
    BY <1>0, <2>1 DEF PidFileNamesCollector
<1>3. CASE SendSignal(c)
  <2>1. client'[c].pc \in {"idle", "open"}
    BY <1>3 DEF SendSignal, Go, Leave, Idle, TypeOK, ClientType
  <2>2. \A d \in Daemons : \/ daemon'[d].pc = daemon[d].pc
                           \/ daemon[d].pc = "sleep" /\ daemon'[d].pc = "load"
    <3>1. CASE client[c].pid = None
      BY <1>3, <3>1 DEF SendSignal
    <3>2. CASE client[c].pid # None
      <4> PICK d \in Daemons : d = client[c].pid
        BY <3>2 DEF TypeOK, ClientType
      <4> DEFINE next == IF daemon[d].pc = "sleep" THEN "load" ELSE daemon[d].pc
      <4>1. daemon' = [daemon EXCEPT ![d] = [daemon[d] EXCEPT !.countdown = Timeout, !.pc = next]]
        BY <1>3, <3>2 DEF SendSignal
      <4> QED
        BY <4>1 DEF TypeOK, DaemonType
    <3> QED
      BY <3>1, <3>2
  <2> QED
    BY <1>0, <2>1, <2>2 DEF PidFileNamesCollector, Starting, Looping
<1>4. CASE Fork(c)
  <2>1. client[c].pc = "fork" /\ client'[c].pc \in {"idle", "open"}
    BY <1>4 DEF Fork, Go, Leave, Idle, TypeOK, ClientType
  <2>2. \A d \in Daemons : daemon[d].pc = "off"
    BY <2>1, CollectorAssumption DEF PidFileNamesCollector, TypeOK, DaemonType, Starting, Looping
  <2>3. \A b \in Clients : client'[b].pc \notin {"ping", "fork"}
    BY <1>0, <2>1 DEF PidFileNamesCollector
  <2>4. CASE daemon' = daemon
    BY <1>0, <2>1, <2>2, <2>3, <2>4 DEF PidFileNamesCollector, Starting, Looping
  <2>5. ASSUME NEW d \in Daemons, Run(d, "truncate") PROVE PidFileNamesCollector'
    <3>1. /\ daemon'[d].pc = "truncate"
          /\ \A e \in Daemons \ {d} : daemon'[e].pc = "off"
      BY <2>2, <2>5 DEF Run, TypeOK, DaemonType
    <3>2. pidFile = None
      BY <2>1 DEF PidFileNamesCollector
    <3> QED
      BY <1>0, <2>3, <3>1, <3>2 DEF PidFileNamesCollector, Starting, Looping
  <2> QED
    BY <1>4, <2>2, <2>4, <2>5 DEF Fork
<1>5. CASE OpenFile(c) \/ PrintRow(c) \/ Finish(c)
  <2>1. CASE OpenFile(c)
    BY <1>0, <2>1 DEF OpenFile, Go, Leave, Idle, TypeOK, ClientType, PidFileNamesCollector
  <2>2. CASE PrintRow(c)
    <3>1. daemon' = daemon
      BY <2>2 DEF PrintRow
    <3>2. client'[c].pc \in {"row", "end", "idle"}
      BY <2>2 DEF PrintRow, Leave, Idle, TypeOK, ClientType
    <3> QED
      BY <1>0, <3>1, <3>2 DEF PidFileNamesCollector
  <2>3. CASE Finish(c)
    BY <1>0, <2>3 DEF Finish, Leave, Idle, TypeOK, PidFileNamesCollector
  <2> QED
    BY <1>5, <2>1, <2>2, <2>3
<1> QED
  BY <1>1, <1>2, <1>3, <1>4, <1>5 DEF ClientStep

LEMMA PidFileStep ==
    ASSUME TypesAndCounters, PidFileNamesCollector, [Next /\ InTurn]_vars
    PROVE  PidFileNamesCollector'
<1> USE DEF TypesAndCounters, DaemonAt, ClientAt
<1>1. CASE UNCHANGED vars
  BY <1>1 DEF vars, PidFileNamesCollector
<1>2. CASE Tick
  <2>1. \A d \in Daemons : \/ daemon'[d].pc = daemon[d].pc
                           \/ daemon[d].pc = "sleep" /\ daemon'[d].pc = "load"
    BY <1>2 DEF Tick, TypeOK, DaemonType
  <2>2. pidFile' = pidFile /\ client' = client
    BY <1>2 DEF Tick
  <2> QED
    BY <2>1, <2>2 DEF PidFileNamesCollector, Starting, Looping
<1>3. CASE SetClockBack
  BY <1>3 DEF SetClockBack, PidFileNamesCollector
<1> QED
  BY <1>1, <1>2, <1>3, PidFileCollector, PidFileClient DEF Next

(* The samples in the database only ever move up.                          *)
Rising == \A i \in Rows : slots[i] <= slots'[i]

LEMMA OnlyMover ==
    ASSUME PidFileNamesCollector, NEW d \in Daemons, NEW e \in Daemons,
           daemon[d].pc \in Looping, daemon[e].pc \in Looping
    PROVE  d = e
BY DEF PidFileNamesCollector

LEMMA ShiftOrdered ==
    ASSUME TypesAndCounters, DatabaseOrdered, NEW d \in Daemons, ShiftRow(d)
    PROVE  /\ Rising /\ slots' \in [Rows -> Times]
           /\ \A i, j \in Rows : i <= j => slots'[i] <= slots'[j]
           /\ slots'[StepCount] = slots[StepCount]
<1> USE DEF TypesAndCounters
<1> DEFINE k == daemon[d].row
<1>1. k \in Rows /\ k + 1 \in Rows /\ k < StepCount
  BY Bounds DEF ShiftRow, CountdownLive, TypeOK, DaemonType
<1>2. slots \in [Rows -> Times] /\ \A i \in Rows : slots[i] \in Nat
  BY DEF TypeOK, Times
<1>3. slots' = [slots EXCEPT ![k] = slots[k + 1]]
  BY DEF ShiftRow
<1>4. \A i, j \in Rows : i <= j => slots[i] <= slots[j]
  BY DEF DatabaseOrdered
<1>5. \A i \in Rows : slots'[i] = IF i = k THEN slots[k + 1] ELSE slots[i]
  BY <1>2, <1>3
<1>6. \A i \in Rows : i \in Int
  BY DEF Rows
<1> HIDE DEF k
<1>7. Rising
  BY <1>1, <1>2, <1>4, <1>5, <1>6 DEF Rising
<1>8. ASSUME NEW i \in Rows, NEW j \in Rows, i <= j PROVE slots'[i] <= slots'[j]
  <2>1. CASE i = k /\ j # k
    <3>1. k + 1 <= j
      BY <1>1, <1>6, <1>8, <2>1
    <3> QED
      BY <1>1, <1>4, <1>5, <2>1, <3>1
  <2>2. CASE i # k
    BY <1>1, <1>2, <1>4, <1>5, <1>6, <1>7, <1>8, <2>2 DEF Rising
  <2>3. CASE i = k /\ j = k
    BY <1>1, <1>2, <1>5, <2>3
  <2> QED
    BY <2>1, <2>2, <2>3
<1>9. slots' \in [Rows -> Times]
  BY <1>1, <1>2, <1>3
<1>10. slots'[StepCount] = slots[StepCount]
  BY <1>1, <1>5, <1>6, Bounds
<1> QED
  BY <1>7, <1>8, <1>9, <1>10

LEMMA StoreOrdered ==
    ASSUME TypesAndCounters, DatabaseOrdered, NEW d \in Daemons, StoreRow(d)
    PROVE  Rising /\ \A i, j \in Rows : i <= j => slots'[i] <= slots'[j]
<1> USE DEF TypesAndCounters
<1>1. /\ slots \in [Rows -> Times] /\ \A i \in Rows : slots[i] \in Nat
      /\ daemon[d].now \in Nat
  BY DEF TypeOK, Times, DaemonType
<1>2. \A i \in Rows : slots'[i] = IF i = StepCount THEN daemon[d].now ELSE slots[i]
  BY <1>1 DEF StoreRow
<1>3. daemon[d].now > slots[StepCount]
  BY DEF StoreRow, DatabaseOrdered, Mover, DaemonAt
<1>4. \A i, j \in Rows : i <= j => slots[i] <= slots[j]
  BY DEF DatabaseOrdered
<1>5. \A i \in Rows : i \in Int /\ i <= StepCount
  BY Bounds DEF Rows
<1>6. \A i \in Rows : slots[i] <= slots[StepCount]
  BY <1>4, <1>5, Bounds
<1>7. Rising
  <2>1. ASSUME NEW i \in Rows, i # StepCount PROVE slots[i] <= slots'[i]
    BY <1>1, <1>2, <2>1
  <2>2. slots[StepCount] <= slots'[StepCount]
    BY <1>1, <1>2, <1>3, Bounds
  <2> QED
    BY <2>1, <2>2 DEF Rising
<1>8. ASSUME NEW i \in Rows, NEW j \in Rows, i <= j PROVE slots'[i] <= slots'[j]
  <2>1. CASE j # StepCount
    <3>1. i # StepCount
      BY <1>5, <1>8, <2>1, Bounds
    <3> QED
      BY <1>2, <1>4, <1>8, <2>1, <3>1
  <2>2. CASE j = StepCount /\ i # StepCount
    <3>1. slots'[j] = daemon[d].now /\ slots'[i] = slots[i]
      BY <1>2, <2>2
    <3> QED
      BY <1>1, <1>3, <1>6, <3>1, Bounds
  <2>3. CASE i = StepCount /\ j = StepCount
    BY <1>1, <1>2, <2>3, Bounds
  <2> QED
    BY <2>1, <2>2, <2>3
<1> QED
  BY <1>7, <1>8

LEMMA ZeroSame ==
    ASSUME TypesAndCounters, DatabaseOrdered, NEW d \in Daemons, ZeroRow(d)
    PROVE  slots' = slots /\ sized' = TRUE /\ exists' = exists /\ exists
BY DEF TypesAndCounters, ZeroRow, DatabaseOrdered, DaemonAt, TypeOK, DaemonType

(* What DatabaseOrdered asks of one collector.                             *)
InStep(d) ==
    /\ Mover(d) => daemon[d].now > slots[StepCount] /\ sized
    /\ daemon[d].pc \in {"create", "zero"} => \A i \in Rows : slots[i] = 0
    /\ DaemonAt(d, "zero") => exists

LEMMA QuietCollector ==
    ASSUME TypesAndCounters, DatabaseOrdered, UNCHANGED fileVars,
           NEW d \in Daemons, InStep(d)', \A e \in Daemons \ {d} : daemon'[e] = daemon[e]
    PROVE  DatabaseOrdered' /\ Rising
<1>1. Rising
  BY DEF Rising, fileVars, TypesAndCounters, TypeOK, Times
<1>2. \A e \in Daemons : InStep(e)'
  BY DEF DatabaseOrdered, InStep, Mover, DaemonAt, fileVars
<1>3. slots' = slots /\ sized' = sized /\ exists' = exists
  BY DEF fileVars
<1> QED
  BY <1>1, <1>2, <1>3 DEF DatabaseOrdered, InStep

LEMMA OrderedCollector ==
    ASSUME TypesAndCounters, PidFileNamesCollector, DatabaseOrdered,
           NEW d \in Daemons, DaemonStep(d) \/ Kill(d)
    PROVE  DatabaseOrdered' /\ Rising
<1> USE DEF TypesAndCounters
<1>0. \A e \in Daemons \ {d} : daemon'[e] = daemon[e]
  BY OthersUntouched
<1>1. InStep(d)
  BY DEF DatabaseOrdered, InStep
<1>2. CASE TruncatePid(d) \/ WritePid(d) \/ LoadCountdown(d)
  <2>1. UNCHANGED fileVars /\ daemon'[d].pc \in {"writepid", "stat", "count"}
    BY <1>2 DEF TruncatePid, WritePid, LoadCountdown, Run, TypeOK, DaemonType
  <2> QED
    BY <1>0, <2>1, QuietCollector DEF InStep, Mover, DaemonAt
<1>3. CASE StoreCountdown(d) \/ UnlinkPid(d) \/ Kill(d)
  <2>1. UNCHANGED fileVars /\ daemon'[d].pc \in {"stat", "unlink", "off"}
    BY <1>3 DEF StoreCountdown, UnlinkPid, Kill, Ends, Off, TypeOK, DaemonType
  <2> QED
    BY <1>0, <2>1, QuietCollector DEF InStep, Mover, DaemonAt
<1>4. CASE Stat(d)
  <2>1. UNCHANGED fileVars /\ daemon'[d].pc = IF exists THEN "sample" ELSE "create"
    BY <1>4 DEF Stat, Run, TypeOK, DaemonType
  <2>2. ~exists => \A i \in Rows : slots[i] = 0
    BY DEF DatabaseOrdered
  <2>3. InStep(d)'
    BY <2>1, <2>2 DEF InStep, Mover, DaemonAt, fileVars
  <2> QED
    BY <1>0, <2>1, <2>3, QuietCollector
<1>5. CASE Sample(d)
  <2>1. UNCHANGED fileVars /\ daemon'[d].pc = "compare"
    BY <1>5 DEF Sample, TypeOK, DaemonType
  <2> QED
    BY <1>0, <2>1, QuietCollector DEF InStep, Mover, DaemonAt
<1>6. CASE Compare(d)
  <2>1. UNCHANGED fileVars
    BY <1>6 DEF Compare
  <2>2. \/ daemon'[d].pc \in {"off", "sleep"}
        \/ /\ daemon'[d].pc = "shift" /\ daemon'[d].now = daemon[d].now
           /\ sized /\ daemon[d].now > slots[StepCount]
    BY <1>6 DEF Compare, Run, Ends, Off, TypeOK, DaemonType
  <2>3. InStep(d)'
    BY <2>1, <2>2 DEF InStep, Mover, DaemonAt, fileVars
  <2> QED
    BY <1>0, <2>1, <2>3, QuietCollector
<1>7. ASSUME daemon[d].pc \in Looping, NEW e \in Daemons \ {d}
      PROVE  daemon'[e].pc \notin Looping
  BY <1>0, <1>7, OnlyMover
<1>8. CASE CreateFile(d)
  <2>1. /\ daemon[d].pc = "create" /\ daemon'[d].pc = "zero"
        /\ exists' = TRUE /\ slots' = slots /\ sized' = sized
    BY <1>8 DEF CreateFile, DaemonAt, TypeOK, DaemonType
  <2>2. \A e \in Daemons \ {d} : daemon'[e].pc \notin Looping
    BY <1>7, <2>1 DEF Looping
  <2>3. Rising
    BY <2>1 DEF Rising, TypeOK, Times
  <2>4. \A i \in Rows : slots[i] = 0
    BY <1>1, <2>1 DEF InStep
  <2> QED
    BY <2>1, <2>2, <2>3, <2>4 DEF DatabaseOrdered, Mover, DaemonAt, Looping
<1>9. CASE ZeroRow(d)
  <2>1. slots' = slots /\ sized' = TRUE /\ exists' = exists /\ exists
    BY <1>9, ZeroSame
  <2>2. daemon[d].pc = "zero" /\ daemon'[d].pc \in {"zero", "sample"}
    BY <1>9 DEF ZeroRow, Run, DaemonAt, TypeOK, DaemonType
  <2>3. \A e \in Daemons \ {d} : daemon'[e].pc \notin Looping
    BY <1>7, <2>2 DEF Looping
  <2>4. Rising
    BY <2>1 DEF Rising, TypeOK, Times
  <2>5. \A i \in Rows : slots[i] = 0
    BY <1>1, <2>2 DEF InStep
  <2> QED
    BY <2>1, <2>2, <2>3, <2>4, <2>5 DEF DatabaseOrdered, Mover, DaemonAt, Looping
<1>10. CASE ShiftRow(d)
  <2>1. /\ Rising /\ slots'[StepCount] = slots[StepCount]
        /\ \A i, j \in Rows : i <= j => slots'[i] <= slots'[j]
    BY <1>10, ShiftOrdered
  <2>2. /\ daemon[d].pc = "shift" /\ daemon'[d].pc \in {"shift", "store"}
        /\ daemon'[d].now = daemon[d].now /\ sized' = sized /\ exists' = exists
    BY <1>10 DEF ShiftRow, Run, DaemonAt, TypeOK, DaemonType
  <2>3. \A e \in Daemons \ {d} : daemon'[e].pc \notin Looping
    BY <1>7, <2>2 DEF Looping
  <2>4. sized /\ daemon[d].now > slots[StepCount]
    BY <1>1, <2>2 DEF InStep, Mover
  <2> QED
    BY <2>1, <2>2, <2>3, <2>4 DEF DatabaseOrdered, Mover, DaemonAt, Looping
<1>11. CASE StoreRow(d)
  <2>1. Rising /\ \A i, j \in Rows : i <= j => slots'[i] <= slots'[j]
    BY <1>11, StoreOrdered
  <2>2. /\ daemon[d].pc = "store" /\ daemon'[d].pc = "sleep"
        /\ sized' = sized /\ exists' = exists
    BY <1>11 DEF StoreRow, Run, DaemonAt, TypeOK, DaemonType
  <2>3. \A e \in Daemons \ {d} : daemon'[e].pc \notin Looping
    BY <1>7, <2>2 DEF Looping
  <2>4. sized
    BY <1>1, <2>2 DEF InStep, Mover
  <2> QED
    BY <2>1, <2>2, <2>3, <2>4 DEF DatabaseOrdered, Mover, DaemonAt, Looping
<1> QED
  BY <1>2, <1>3, <1>4, <1>5, <1>6, <1>8, <1>9, <1>10, <1>11 DEF DaemonStep

LEMMA OrderedStep ==
    ASSUME TypesAndCounters, PidFileNamesCollector, DatabaseOrdered, [Next /\ InTurn]_vars
    PROVE  DatabaseOrdered' /\ Rising
<1> USE DEF TypesAndCounters
<1>1. ASSUME NEW d \in Daemons, DaemonStep(d) \/ Kill(d) PROVE DatabaseOrdered' /\ Rising
  BY <1>1, OrderedCollector
<1>2. SUFFICES ASSUME UNCHANGED fileVars,
                      \A d \in Daemons : /\ daemon'[d].now = daemon[d].now
                                         /\ \/ daemon'[d].pc = daemon[d].pc
                                            \/ daemon'[d].pc \in {"truncate", "load"}
               PROVE  DatabaseOrdered' /\ Rising
  <2>1. CASE UNCHANGED vars
    BY <1>2, <2>1 DEF vars
  <2>2. CASE Tick
    <3>1. UNCHANGED fileVars
      BY <2>2 DEF Tick
    <3>2. \A d \in Daemons : /\ daemon'[d].now = daemon[d].now
                             /\ \/ daemon'[d].pc = daemon[d].pc
                                \/ daemon'[d].pc \in {"truncate", "load"}
      BY <2>2 DEF Tick, TypeOK, DaemonType
    <3> QED
      BY <1>2, <3>1, <3>2
  <2>3. CASE SetClockBack
    BY <1>2, <2>3 DEF SetClockBack
  <2>4. ASSUME NEW c \in Clients, ReadPid(c) \/ ClientStep(c), ~SendSignal(c), ~Fork(c)
        PROVE  UNCHANGED <<fileVars, daemon>>
    BY <2>4 DEF ClientStep, ReadPid, Ping, OpenFile, PrintRow, Finish
  <2>5. ASSUME NEW c \in Clients, SendSignal(c) PROVE DatabaseOrdered' /\ Rising
    <3>1. UNCHANGED fileVars
      BY <2>5 DEF SendSignal
    <3>2. CASE client[c].pid = None
      BY <1>2, <2>5, <3>1, <3>2 DEF SendSignal
    <3>3. CASE client[c].pid # None
      <4> PICK d \in Daemons : d = client[c].pid
        BY <3>3 DEF TypeOK, ClientType
      <4> DEFINE next == IF daemon[d].pc = "sleep" THEN "load" ELSE daemon[d].pc
      <4>1. daemon' = [daemon EXCEPT ![d] = [daemon[d] EXCEPT !.countdown = Timeout, !.pc = next]]
        BY <2>5, <3>3 DEF SendSignal
      <4> QED
        BY <1>2, <3>1, <4>1 DEF TypeOK, DaemonType
    <3> QED
      BY <3>2, <3>3
  <2>6. ASSUME NEW c \in Clients, Fork(c) PROVE DatabaseOrdered' /\ Rising
    <3>1. UNCHANGED fileVars
      BY <2>6 DEF Fork
    <3>2. daemon' = daemon \/ \E d \in Daemons : Run(d, "truncate")
      BY <2>6 DEF Fork
    <3> QED
      BY <1>2, <3>1, <3>2 DEF Run, TypeOK, DaemonType
  <2> QED
    BY <1>1, <1>2, <2>1, <2>2, <2>3, <2>4, <2>5, <2>6 DEF Next
<1>3. Rising
  BY <1>2 DEF Rising, fileVars, TypeOK, Times
<1>4. \A d \in Daemons : daemon'[d].pc \in {"create", "zero", "shift", "store"}
                            => daemon'[d].pc = daemon[d].pc
  BY <1>2
<1>5. slots' = slots /\ sized' = sized /\ exists' = exists
  BY <1>2 DEF fileVars
<1> QED
  BY <1>2, <1>3, <1>4, <1>5 DEF DatabaseOrdered, Mover, DaemonAt

(* The variables of a client which ReadersInOrder is about.                *)
LEMMA ReadersWait ==
    ASSUME TypesAndCounters, ReadersInOrder, Rising,
           slots'[StepCount] \in Nat,
           \A i \in Rows : slots'[i] \in Nat,
           \A c \in Clients : /\ client'[c].pc = client[c].pc
                              /\ client'[c].row = client[c].row
                              /\ client'[c].last = client[c].last
                              /\ client'[c].comma = client[c].comma
    PROVE  ReadersInOrder'
<1>1. ASSUME NEW c \in Clients PROVE client[c].last \in Nat /\ client[c].row \in Rows
  BY DEF TypesAndCounters, TypeOK, ClientType, Times
<1>2. \A i \in Rows : slots[i] \in Nat
  BY DEF TypesAndCounters, TypeOK, Times
<1>3. slots[StepCount] # 0 => slots'[StepCount] # 0
  BY <1>2, Bounds DEF Rising
<1>4. \A c \in Clients : client[c].last <= slots[client[c].row]
                            => client[c].last <= slots'[client[c].row]
  BY <1>1, <1>2 DEF Rising
<1> QED
  BY <1>3, <1>4 DEF ReadersInOrder, ClientAt

LEMMA ReadersClient ==
    ASSUME TypesAndCounters, DatabaseOrdered, ReadersInOrder, slots' = slots,
           NEW c \in Clients, ReadPid(c) \/ ClientStep(c)
    PROVE  ReadersInOrder'
<1> USE DEF TypesAndCounters, ClientAt
<1>0. \A b \in Clients \ {c} : client'[b] = client[b]
  BY DEF ClientStep, ReadPid, Ping, SendSignal, Fork, OpenFile, PrintRow, Finish, Go, Leave,
         TypeOK
<1> SUFFICES /\ client'[c].pc = "row" => /\ client'[c].last <= slots[client'[c].row]
                                         /\ client'[c].comma => slots[StepCount] # 0
             /\ client'[c].pc = "end" => ~client'[c].comma
             /\ client'[c].pc \notin {"row", "end"}
                  => client'[c].last = 0 /\ ~client'[c].comma /\ client'[c].row = 1
  BY <1>0 DEF ReadersInOrder
<1>1. client'[c] = Idle => client'[c].pc = "idle" /\ client'[c].last = 0
                           /\ ~client'[c].comma /\ client'[c].row = 1
  BY DEF Idle
<1>2. client \in [Clients -> ClientType] /\ client[c] \in ClientType
  BY DEF TypeOK
<1>3. CASE PrintRow(c) /\ sized
  <2> DEFINE i == client[c].row
  <2>1. /\ client[c].pc = "row" /\ i \in Rows /\ slots[i] \in Nat /\ client[c].last \in Nat
        /\ slots[StepCount] \in Nat
    BY <1>2, <1>3, Bounds DEF PrintRow, TypeOK, ClientType, Times
  <2>2. client[c].last <= slots[i] /\ (client[c].comma => slots[StepCount] # 0)
    BY <2>1 DEF ReadersInOrder
  <2>3. slots[i] <= slots[StepCount]
    BY <2>1, Bounds DEF DatabaseOrdered, Rows
  <2>4. client'[c].last <= slots[i]
    BY <1>2, <1>3, <2>1, <2>2 DEF PrintRow, ClientType
  <2>5. CASE i < StepCount
    <3>1. client'[c].pc = "row" /\ client'[c].row = i + 1
      BY <1>2, <1>3, <2>5 DEF PrintRow, ClientType
    <3>2. i + 1 \in Rows /\ slots[i] <= slots[i + 1] /\ slots[i + 1] \in Nat
      BY <2>1, <2>5, Bounds DEF DatabaseOrdered, Rows, TypeOK, Times
    <3>3. CASE slots[i] # 0
      BY <2>1, <2>3, <2>4, <3>1, <3>2, <3>3, <1>2, <1>3 DEF PrintRow, ClientType, TypeOK, Times
    <3>4. CASE slots[i] = 0
      <4>1. client'[c].comma = client[c].comma
        BY <1>2, <1>3, <3>4 DEF PrintRow, ClientType
      <4>2. client'[c].last \in Nat
        BY <1>2, <1>3, <2>1, <3>4 DEF PrintRow, ClientType
      <4> QED
        BY <2>1, <2>2, <2>4, <3>1, <3>2, <4>1, <4>2
    <3> QED
      BY <3>3, <3>4
  <2>6. CASE ~(i < StepCount)
    <3>1. client'[c].pc = "end" /\ i = StepCount
      BY <1>2, <1>3, <2>1, <2>6, Bounds DEF PrintRow, ClientType, Rows
    <3>2. CASE slots[i] # 0
      BY <1>2, <1>3, <2>6, <3>1, <3>2 DEF PrintRow, ClientType
    <3>3. CASE slots[i] = 0
      <4>1. client'[c].comma = client[c].comma
        BY <1>2, <1>3, <3>3 DEF PrintRow, ClientType
      <4> QED
        BY <2>2, <3>1, <3>3, <4>1
    <3> QED
      BY <3>2, <3>3
  <2> QED
    BY <2>5, <2>6
<1>4. CASE PrintRow(c) /\ ~sized
  BY <1>1, <1>2, <1>4 DEF PrintRow, Leave
<1>5. CASE Finish(c)
  BY <1>1, <1>2, <1>5 DEF Finish, Leave
<1>6. CASE OpenFile(c)
  <2>1. client[c].pc = "open"
    BY <1>6 DEF OpenFile
  <2>2. client[c].last = 0 /\ ~client[c].comma /\ client[c].row = 1
    BY <2>1 DEF ReadersInOrder
  <2>3. 0 <= slots[1]
    BY Bounds DEF TypeOK, Times
  <2>4. CASE client' = [client EXCEPT ![c].pc = "row"]
    BY <1>2, <2>2, <2>3, <2>4 DEF ClientType
  <2> QED
    BY <1>1, <1>2, <1>6, <2>4 DEF OpenFile, Go, Leave
<1>7. CASE ReadPid(c) \/ Ping(c) \/ SendSignal(c) \/ Fork(c)
  <2>1. client[c].pc \notin {"row", "end"}
    BY <1>7 DEF ReadPid, Ping, SendSignal, Fork
  <2>2. client[c].last = 0 /\ ~client[c].comma /\ client[c].row = 1
    BY <2>1 DEF ReadersInOrder
  <2>3. \/ client'[c] = Idle
        \/ /\ client'[c].pc \notin {"row", "end"}
           /\ client'[c].last = client[c].last
           /\ client'[c].comma = client[c].comma
           /\ client'[c].row = client[c].row
    <3>1. CASE ReadPid(c)
      BY <1>2, <3>1 DEF ReadPid, ClientType
    <3>2. CASE Ping(c)
      BY <1>2, <3>2 DEF Ping, Go, ClientType
    <3>3. CASE SendSignal(c)
      <4>1. Leave(c) \/ Go(c, "open")
        BY <3>3 DEF SendSignal
      <4> QED
        BY <1>2, <4>1 DEF Go, Leave, ClientType
    <3>4. CASE Fork(c)
      <4>1. Leave(c) \/ Go(c, "open")
        BY <3>4 DEF Fork
      <4> QED
        BY <1>2, <4>1 DEF Go, Leave, ClientType
    <3> QED
      BY <1>7, <3>1, <3>2, <3>3, <3>4
  <2> QED
    BY <1>1, <2>2, <2>3
<1> QED
  BY <1>3, <1>4, <1>5, <1>6, <1>7 DEF ClientStep

LEMMA ReadersStep ==
    ASSUME TypesAndCounters, PidFileNamesCollector, DatabaseOrdered, ReadersInOrder,
           [Next /\ InTurn]_vars
    PROVE  ReadersInOrder'
<1> USE DEF TypesAndCounters
<1>1. Rising /\ TypeOK'
  BY OrderedStep, TypeStep
<1>2. slots'[StepCount] \in Nat /\ \A i \in Rows : slots'[i] \in Nat
  BY <1>1, Bounds DEF TypeOK, Times
<1>3. ASSUME NEW c \in Clients, ReadPid(c) \/ ClientStep(c) PROVE ReadersInOrder'
  <2>1. slots' = slots
    BY <1>3 DEF ClientStep, ReadPid, Ping, SendSignal, Fork, OpenFile, PrintRow, Finish, fileVars
  <2> QED
    BY <1>3, <2>1, ReadersClient
<1>4. CASE UNCHANGED client
  BY <1>1, <1>2, <1>4, ReadersWait
<1>5. ASSUME NEW d \in Daemons, DaemonStep(d) \/ Kill(d) PROVE ReadersInOrder'
  <2>1. \/ client' = client
        \/ client' = [c \in Clients |-> [client[c] EXCEPT !.pid = Forget(@, d)]]
    BY <1>5, StepOfCollector DEF Working, Gone, TruncatePid, WritePid
  <2>2. CASE client' = [c \in Clients |-> [client[c] EXCEPT !.pid = Forget(@, d)]]
    <3>1. \A c \in Clients : /\ client'[c].pc = client[c].pc
                             /\ client'[c].row = client[c].row
                             /\ client'[c].last = client[c].last
                             /\ client'[c].comma = client[c].comma
      BY <2>2 DEF TypeOK, ClientType
    <3> QED
      BY <1>1, <1>2, <3>1, ReadersWait
  <2> QED
    BY <1>4, <2>1, <2>2
<1>6. CASE Tick \/ SetClockBack \/ UNCHANGED vars
  BY <1>4, <1>6 DEF Tick, SetClockBack, vars
<1> QED
  BY <1>3, <1>5, <1>6 DEF Next

LEMMA InvariantInit == Init => InductiveInvariant
<1> SUFFICES ASSUME Init PROVE InductiveInvariant
  OBVIOUS
<1>1. TypeOK /\ CountdownLive
  BY TypeInit DEF TypesAndCounters
<1>2. \A d \in Daemons : daemon[d].pc = "off"
  BY DEF Init, Off
<1>3. \A c \in Clients : /\ client[c].pc = "idle" /\ client[c].last = 0
                         /\ client[c].comma = FALSE /\ client[c].row = 1
  BY DEF Init, Idle
<1>4. PidFileNamesCollector
  BY <1>2, <1>3 DEF PidFileNamesCollector, DaemonAt, ClientAt, Starting, Looping
<1>5. DatabaseOrdered
  BY <1>2, Bounds DEF Init, DatabaseOrdered, Mover, DaemonAt
<1>6. ReadersInOrder
  BY <1>3 DEF ReadersInOrder, ClientAt
<1> QED
  BY <1>1, <1>4, <1>5, <1>6 DEF InductiveInvariant

LEMMA InvariantStep ==
    ASSUME InductiveInvariant, [Next /\ InTurn]_vars
    PROVE  InductiveInvariant'
BY TypeStep, PidFileStep, OrderedStep, ReadersStep DEF InductiveInvariant, TypesAndCounters

(* If the clients check in turn, the pid file names the collector, the    *)
(* database is in order, and so is what every client has printed.          *)
THEOREM InductiveInvariantHolds == SerialSpec => []InductiveInvariant
<1>1. InductiveInvariant /\ [Next /\ InTurn]_vars => InductiveInvariant'
  BY InvariantStep
<1> QED
  BY <1>1, InvariantInit, PTL DEF SerialSpec

(* What a client prints from the live mapping is well formed,              *)
THEOREM PrintsWellFormed == SerialSpec => []OutputWellFormed
<1>1. InductiveInvariant => OutputWellFormed
  BY DEF InductiveInvariant, ReadersInOrder, OutputWellFormed
<1> QED
  BY <1>1, InductiveInvariantHolds, PTL

(* goes forward in time,                                                   *)
THEOREM PrintsForward == SerialSpec => PrintsInOrder
<1>1. ASSUME InductiveInvariant, [Next /\ InTurn]_vars, NEW c \in Clients, ClientAt(c, "row"),
             client'[c].pc \in {"row", "end"}
      PROVE  client[c].last <= client'[c].last
  <2>1. TypeOK /\ client[c] \in ClientType /\ client[c].last \in Nat
    BY <1>1 DEF InductiveInvariant, TypeOK, ClientType, Times
  <2>2. client[c].last <= slots[client[c].row]
    BY <1>1 DEF InductiveInvariant, ReadersInOrder
  <2>3. client'[c].last = client[c].last \/ client'[c].last = slots[client[c].row]
    <3>1. ASSUME NEW d \in Daemons, DaemonStep(d) \/ Kill(d)
          PROVE  client'[c].last = client[c].last
      <4>1. \/ client' = client
            \/ client' = [b \in Clients |-> [client[b] EXCEPT !.pid = Forget(@, d)]]
        BY <1>1, <3>1, StepOfCollector
        DEF Working, Gone, TruncatePid, WritePid, InductiveInvariant, TypesAndCounters
      <4> QED
        BY <2>1, <4>1 DEF ClientType
    <3>2. ASSUME NEW b \in Clients \ {c}, ReadPid(b) \/ ClientStep(b)
          PROVE  client'[c] = client[c]
      BY <3>2, <2>1
      DEF ClientStep, ReadPid, Ping, SendSignal, Fork, OpenFile, PrintRow, Finish, Go, Leave, TypeOK
    <3>3. CASE PrintRow(c)
      <4>1. sized
        BY <1>1, <2>1, <3>3 DEF PrintRow, Leave, Idle, TypeOK
      <4> QED
        BY <2>1, <3>3, <4>1 DEF PrintRow, TypeOK, ClientType
    <3>4. ~(ReadPid(c) \/ Ping(c) \/ SendSignal(c) \/ Fork(c) \/ OpenFile(c) \/ Finish(c))
      BY <1>1 DEF ReadPid, Ping, SendSignal, Fork, OpenFile, Finish, ClientAt
    <3>5. CASE Tick \/ SetClockBack \/ UNCHANGED vars
      BY <3>5 DEF Tick, SetClockBack, vars
    <3> QED
      BY <1>1, <3>1, <3>2, <3>3, <3>4, <3>5 DEF Next, ClientStep
  <2> QED
    BY <2>1, <2>2, <2>3
<1>2. InductiveInvariant /\ [Next /\ InTurn]_vars
        => [\A c \in Clients :
              ClientAt(c, "row") /\ client'[c].pc \in {"row", "end"}
                 => client[c].last <= client'[c].last]_vars
  BY <1>1
<1> QED
  BY <1>2, InductiveInvariantHolds, PTL DEF SerialSpec, PrintsInOrder

(* and no sample is blanked while it is read.                              *)
THEOREM SamplesStay == SerialSpec => HistoryKept
<1>1. InductiveInvariant /\ [Next /\ InTurn]_vars => [slots[StepCount] # 0 => slots'[StepCount] # 0]_vars
  <2> SUFFICES ASSUME InductiveInvariant, [Next /\ InTurn]_vars
               PROVE  slots[StepCount] # 0 => slots'[StepCount] # 0
    OBVIOUS
  <2>1. Rising /\ TypeOK /\ TypeOK'
    BY OrderedStep, TypeStep DEF InductiveInvariant, TypesAndCounters
  <2>2. slots[StepCount] \in Nat /\ slots'[StepCount] \in Nat
    BY <2>1, Bounds DEF TypeOK, Times
  <2> QED
    BY <2>1, <2>2, Bounds DEF Rising
<1> QED
  BY <1>1, InductiveInvariantHolds, PTL DEF SerialSpec, HistoryKept

-----------------------------------------------------------------------------
(* The database, with the sample that is being moved in, is a SampleWindow. *)

(* What the rows sl show while a collector whose record is r moves a sample *)
(* in, and what they show with the collectors dm.                           *)
Moving(r) == r.pc \in {"shift", "store"}
Half(sl, r) ==
    [i \in Rows |-> IF i < (IF r.pc = "shift" THEN r.row ELSE StepCount) THEN sl[i]
                    ELSE IF i < StepCount THEN sl[i + 1] ELSE r.now]
Seen(sl, dm) ==
    IF \E d \in Daemons : Moving(dm[d])
    THEN Half(sl, dm[CHOOSE d \in Daemons : Moving(dm[d])])
    ELSE sl

LEMMA ShownIsSeen == Shown = Seen(slots, daemon) /\ Shown' = Seen(slots', daemon')
<1>1. Shown = Seen(slots, daemon)
  BY DEF Shown, Seen, Half, Moving, Mover, DaemonAt
<1>2. Shown' = Seen(slots', daemon')
  BY DEF Shown, Seen, Half, Moving, Mover, DaemonAt
<1> QED
  BY <1>1, <1>2

LEMMA SeenMoving ==
    ASSUME NEW sl, NEW dm, NEW d \in Daemons, Moving(dm[d]),
           \A e \in Daemons \ {d} : ~Moving(dm[e])
    PROVE  Seen(sl, dm) = Half(sl, dm[d])
<1>1. (CHOOSE e \in Daemons : Moving(dm[e])) = d
  OBVIOUS
<1> QED
  BY <1>1 DEF Seen

LEMMA SeenAtRest ==
    ASSUME NEW sl, NEW dm, \A d \in Daemons : ~Moving(dm[d])
    PROVE  Seen(sl, dm) = sl
BY DEF Seen

(* What RowsCopied asks of one collector.                                   *)
Copied(sl, r) ==
    /\ r.pc = "shift" /\ r.row > 1 => sl[r.row - 1] = sl[r.row]
    /\ r.pc = "store" => sl[StepCount - 1] = sl[StepCount]

LEMMA RowsCopiedParts ==
    /\ RowsCopied <=> \A d \in Daemons : Copied(slots, daemon[d])
    /\ RowsCopied' <=> \A d \in Daemons : Copied(slots', daemon'[d])
BY DEF RowsCopied, Copied, DaemonAt

(* A collector that moves a sample in is alone.                             *)
LEMMA MovesAlone ==
    ASSUME TypesAndCounters, PidFileNamesCollector, NEW d \in Daemons, Moving(daemon[d])
    PROVE  \A e \in Daemons \ {d} : ~Moving(daemon[e])
BY OnlyMover DEF Moving, Looping

(* The steps by which samples come in.                                      *)
Begins(d) ==
    /\ \A e \in Daemons : ~Moving(daemon[e])
    /\ UNCHANGED slots /\ daemon'[d].pc = "shift" /\ daemon'[d].row = 1
    /\ daemon'[d].now > slots[StepCount]
Breaks(d) ==
    /\ Moving(daemon[d]) /\ UNCHANGED slots /\ daemon'[d].pc = "off"
(* All others leave them alone.                                             *)
LeavesRows ==
    /\ slots' = slots
    /\ \A d \in Daemons :
          \/ ~Moving(daemon[d]) /\ ~Moving(daemon'[d])
          \/ /\ daemon'[d].pc = daemon[d].pc /\ daemon'[d].row = daemon[d].row
             /\ daemon'[d].now = daemon[d].now

LEMMA LeavesShown ==
    ASSUME TypesAndCounters, PidFileNamesCollector, RowsCopied, LeavesRows
    PROVE  RowsCopied' /\ UNCHANGED Shown
<1>1. RowsCopied'
  BY RowsCopiedParts DEF LeavesRows, Copied, Moving
<1>2. CASE \E d \in Daemons : Moving(daemon[d])
  <2>1. PICK d \in Daemons : Moving(daemon[d])
    BY <1>2
  <2>2. /\ Moving(daemon'[d]) /\ Half(slots', daemon'[d]) = Half(slots, daemon[d])
        /\ \A e \in Daemons \ {d} : ~Moving(daemon[e]) /\ ~Moving(daemon'[e])
    BY <2>1, MovesAlone DEF LeavesRows, Moving, Half
  <2>3. Seen(slots, daemon) = Half(slots, daemon[d])
    BY <2>1, <2>2, SeenMoving
  <2>4. Seen(slots', daemon') = Half(slots', daemon'[d])
    BY <2>2, SeenMoving
  <2>5. Shown' = Shown
    BY <2>2, <2>3, <2>4, ShownIsSeen
  <2> QED
    BY <1>1, <2>5
<1>3. CASE \A d \in Daemons : ~Moving(daemon[d])
  <2>1. \A d \in Daemons : ~Moving(daemon'[d])
    BY <1>3 DEF LeavesRows, Moving
  <2>2. Seen(slots, daemon) = slots
    BY <1>3, SeenAtRest
  <2>3. Seen(slots', daemon') = slots'
    BY <2>1, SeenAtRest
  <2>4. Shown' = Shown
    BY <2>2, <2>3, ShownIsSeen DEF LeavesRows
  <2> QED
    BY <1>1, <2>4
<1> QED
  BY <1>1, <1>2, <1>3

(* What the steps of a collector are to the rows.                           *)
LEMMA RowsAndCollector ==
    ASSUME TypesAndCounters, PidFileNamesCollector, DatabaseOrdered,
           NEW d \in Daemons, DaemonStep(d) \/ Kill(d)
    PROVE  ShiftRow(d) \/ StoreRow(d) \/ Begins(d) \/ Breaks(d) \/ LeavesRows
<1> USE DEF TypesAndCounters, DaemonAt
<1>0. \A e \in Daemons \ {d} : daemon'[e] = daemon[e]
  BY OthersUntouched
<1>a. ASSUME slots' = slots, ~Moving(daemon[d]), ~Moving(daemon'[d])
      PROVE  LeavesRows
  BY <1>0, <1>a DEF LeavesRows
<1>1. CASE TruncatePid(d) \/ WritePid(d) \/ Stat(d) \/ CreateFile(d) \/ Sample(d)
           \/ LoadCountdown(d) \/ StoreCountdown(d) \/ UnlinkPid(d)
  <2>1. slots' = slots
    BY <1>1 DEF TruncatePid, WritePid, Stat, CreateFile, Sample, LoadCountdown,
       StoreCountdown, UnlinkPid, fileVars
  <2>2. ~Moving(daemon[d])
    BY <1>1 DEF TruncatePid, WritePid, Stat, CreateFile, Sample, LoadCountdown,
       StoreCountdown, UnlinkPid, Moving
  <2>3. ~Moving(daemon'[d])
    BY <1>1 DEF TruncatePid, WritePid, Stat, CreateFile, Sample, LoadCountdown,
       StoreCountdown, UnlinkPid, Run, Ends, Off, Moving, TypeOK, DaemonType
  <2> QED
    BY <1>a, <2>1, <2>2, <2>3
<1>2. CASE ZeroRow(d)
  <2>1. slots' = slots
    BY <1>2, ZeroSame
  <2>2. daemon[d].pc = "zero" /\ daemon'[d].pc \in {"zero", "sample"}
    BY <1>2 DEF ZeroRow, Run, TypeOK, DaemonType
  <2> QED
    BY <1>a, <2>1, <2>2 DEF Moving
<1>3. CASE Compare(d)
  <2>1. slots' = slots /\ daemon[d].pc = "compare"
    BY <1>3 DEF Compare, fileVars
  <2>2. CASE sized /\ daemon[d].now > slots[StepCount]
    <3>1. /\ daemon'[d].pc = "shift" /\ daemon'[d].row = 1
          /\ daemon'[d].now = daemon[d].now
      BY <1>3, <2>2 DEF Compare, TypeOK, DaemonType
    <3>2. \A e \in Daemons : ~Moving(daemon[e])
      BY <2>1, OnlyMover DEF Moving, Looping
    <3> QED
      BY <2>1, <2>2, <3>1, <3>2 DEF Begins
  <2>3. CASE ~(sized /\ daemon[d].now > slots[StepCount])
    <3>1. daemon'[d].pc \in {"off", "sleep"}
      BY <1>3, <2>3 DEF Compare, Run, Ends, Off, TypeOK, DaemonType
    <3> QED
      BY <1>a, <2>1, <3>1 DEF Moving
  <2> QED
    BY <2>2, <2>3
<1>4. CASE Kill(d)
  <2>1. slots' = slots /\ daemon'[d].pc = "off"
    BY <1>4 DEF Kill, Ends, Off, fileVars, TypeOK
  <2> QED
    BY <1>a, <2>1 DEF Breaks, Moving
<1> QED
  BY <1>1, <1>2, <1>3, <1>4 DEF DaemonStep

(* A sample found newer than the last enters at once, as the window sees it.*)
LEMMA BeginAppends ==
    ASSUME TypesAndCounters, NEW d \in Daemons, Begins(d),
           \A e \in Daemons \ {d} : daemon'[e] = daemon[e]
    PROVE  RowsCopied' /\ Window!Append
<1>1. /\ Moving(daemon'[d]) /\ \A e \in Daemons \ {d} : ~Moving(daemon'[e])
  BY DEF Begins, Moving
<1>2. Shown = slots /\ Shown' = Half(slots, daemon'[d])
  BY <1>1, SeenAtRest, SeenMoving, ShownIsSeen DEF Begins
<1>3. \A i \in Rows : i \in Int /\ i >= 1 /\ i <= StepCount
  BY Bounds DEF Rows
<1>4. Half(slots, daemon'[d])
         = [i \in Rows |-> IF i < StepCount THEN slots[i + 1] ELSE daemon'[d].now]
  BY <1>3 DEF Half, Begins
<1>5. Shown'[StepCount] = daemon'[d].now
  BY <1>2, <1>4, Bounds
<1>6. slots[StepCount] < daemon'[d].now
  <2>1. slots[StepCount] \in Nat
    BY Bounds DEF TypesAndCounters, TypeOK, Times
  <2> QED
    BY <2>1 DEF Begins
<1>7. Shown' = [i \in Rows |-> IF i < StepCount THEN Shown[i + 1] ELSE Shown'[i]]
  <2>1. \A i \in Rows : ~(i < StepCount) => Shown'[i] = daemon'[d].now
    BY <1>2, <1>4
  <2> QED
    BY <1>2, <1>4, <2>1
<1>8. Window!Append
  BY <1>2, <1>5, <1>6, <1>7 DEF Window!Append, Window!Places, Rows
<1>9. RowsCopied'
  BY <1>1, RowsCopiedParts DEF Begins, Copied, Moving
<1> QED
  BY <1>8, <1>9

(* Copying a row changes nothing that the window shows, nor does the copy   *)
(* of the sample.                                                           *)
LEMMA ShiftHides ==
    ASSUME TypesAndCounters, PidFileNamesCollector, NEW d \in Daemons, ShiftRow(d)
    PROVE  RowsCopied' /\ UNCHANGED Shown
<1> USE DEF TypesAndCounters
<1> DEFINE k == daemon[d].row
<1>1. k \in Rows /\ k + 1 \in Rows /\ k < StepCount /\ k \in Nat /\ StepCount \in Nat
  BY Bounds DEF ShiftRow, CountdownLive, TypeOK, DaemonType, Rows
<1>2. slots' = [slots EXCEPT ![k] = slots[k + 1]] /\ daemon[d].pc = "shift"
  BY DEF ShiftRow, DaemonAt
<1>3. \A i \in Rows : slots'[i] = IF i = k THEN slots[k + 1] ELSE slots[i]
  BY <1>2 DEF TypeOK
<1>4. /\ daemon'[d].now = daemon[d].now
      /\ k < StepCount - 1 => daemon'[d].pc = "shift" /\ daemon'[d].row = k + 1
      /\ ~(k < StepCount - 1) => daemon'[d].pc = "store"
  BY DEF ShiftRow, Run, DaemonAt, TypeOK, DaemonType
<1>5. Moving(daemon[d]) /\ Moving(daemon'[d])
  BY <1>2, <1>4 DEF Moving
<1>6. \A e \in Daemons \ {d} : ~Moving(daemon[e]) /\ ~Moving(daemon'[e])
  BY <1>5, MovesAlone, OthersUntouched DEF DaemonStep
<1>7. \A i \in Rows : i \in Nat /\ i <= StepCount
  BY Bounds DEF Rows
<1> HIDE DEF k
<1>8. Half(slots, daemon[d])
         = [i \in Rows |-> IF i < k THEN slots[i]
                           ELSE IF i < StepCount THEN slots[i + 1] ELSE daemon[d].now]
  BY <1>2 DEF Half, k
<1>9. Half(slots', daemon'[d])
         = [i \in Rows |-> IF i < k + 1 THEN slots'[i]
                           ELSE IF i < StepCount THEN slots'[i + 1] ELSE daemon[d].now]
  <2>1. (IF daemon'[d].pc = "shift" THEN daemon'[d].row ELSE StepCount) = k + 1
    BY <1>1, <1>4
  <2> QED
    BY <1>4, <2>1 DEF Half
<1>10. ASSUME NEW i \in Rows
       PROVE  (IF i < k + 1 THEN slots'[i]
               ELSE IF i < StepCount THEN slots'[i + 1] ELSE daemon[d].now)
              = (IF i < k THEN slots[i]
                 ELSE IF i < StepCount THEN slots[i + 1] ELSE daemon[d].now)
  <2>1. CASE i < k
    BY <1>1, <1>3, <1>7, <2>1
  <2>2. CASE i = k
    BY <1>1, <1>3, <1>7, <2>2
  <2>3. CASE i > k
    <3>1. i < StepCount => i + 1 \in Rows /\ i + 1 # k
      BY <1>1, <1>7, <2>3, Bounds
    <3> QED
      BY <1>1, <1>3, <1>7, <2>3, <3>1
  <2>4. i \in Nat /\ k \in Nat
    BY <1>1, <1>7
  <2>5. i < k \/ i = k \/ i > k
    BY <2>4
  <2> QED
    BY <2>1, <2>2, <2>3, <2>5
<1>11. Half(slots', daemon'[d]) = Half(slots, daemon[d])
  BY <1>8, <1>9, <1>10
<1>12. UNCHANGED Shown
  BY <1>5, <1>6, <1>11, SeenMoving, ShownIsSeen
<1>13. slots'[k] = slots'[k + 1]
  BY <1>1, <1>3
<1>14. Copied(slots', daemon'[d])
  <2>1. CASE k < StepCount - 1
    BY <1>1, <1>4, <1>13, <2>1 DEF Copied
  <2>2. CASE ~(k < StepCount - 1)
    <3>1. k = StepCount - 1
      BY <1>1, <2>2
    <3> QED
      BY <1>1, <1>4, <1>13, <2>2, <3>1 DEF Copied
  <2> QED
    BY <2>1, <2>2
<1>15. RowsCopied'
  BY <1>6, <1>14, RowsCopiedParts DEF Copied, Moving
<1> QED
  BY <1>12, <1>15

LEMMA StoreHides ==
    ASSUME TypesAndCounters, PidFileNamesCollector, NEW d \in Daemons, StoreRow(d)
    PROVE  RowsCopied' /\ UNCHANGED Shown
<1> USE DEF TypesAndCounters
<1>1. /\ slots' = [slots EXCEPT ![StepCount] = daemon[d].now]
      /\ daemon[d].pc = "store" /\ daemon'[d].pc = "sleep"
  BY DEF StoreRow, Run, DaemonAt, TypeOK, DaemonType
<1>2. Moving(daemon[d]) /\ ~Moving(daemon'[d])
  BY <1>1 DEF Moving
<1>3. \A e \in Daemons \ {d} : ~Moving(daemon[e]) /\ ~Moving(daemon'[e])
  BY <1>2, MovesAlone, OthersUntouched DEF DaemonStep
<1>4. \A i \in Rows : i \in Nat /\ i <= StepCount
  BY Bounds DEF Rows
<1>5. Half(slots, daemon[d])
         = [i \in Rows |-> IF i < StepCount THEN slots[i] ELSE daemon[d].now]
  BY <1>1 DEF Half
<1>6. slots' = [i \in Rows |-> IF i < StepCount THEN slots[i] ELSE daemon[d].now]
  <2>1. \A i \in Rows : slots'[i] = IF i = StepCount THEN daemon[d].now ELSE slots[i]
    BY <1>1 DEF TypeOK
  <2>2. \A i \in Rows : i < StepCount <=> i # StepCount
    BY <1>4, Bounds
  <2>3. \A i \in Rows : slots'[i] = IF i < StepCount THEN slots[i] ELSE daemon[d].now
    BY <2>1, <2>2
  <2>4. slots' = [i \in Rows |-> slots'[i]]
    BY <1>1 DEF TypeOK
  <2> QED
    BY <2>3, <2>4
<1>7. UNCHANGED Shown
  BY <1>2, <1>3, <1>5, <1>6, SeenMoving, SeenAtRest, ShownIsSeen
<1>8. RowsCopied'
  BY <1>2, <1>3, RowsCopiedParts DEF Copied, Moving
<1> QED
  BY <1>7, <1>8

(* A collector that dies half-way takes the new sample with it: from the    *)
(* row it would have copied next the window is a place back.                *)
LEMMA BreakInterrupts ==
    ASSUME TypesAndCounters, PidFileNamesCollector, DatabaseOrdered, RowsCopied,
           NEW d \in Daemons, Breaks(d), \A e \in Daemons \ {d} : daemon'[e] = daemon[e]
    PROVE  RowsCopied' /\ \E k \in Window!Places : Window!Interrupt(k)
<1> USE DEF TypesAndCounters
<1> DEFINE k == IF daemon[d].pc = "shift" THEN daemon[d].row ELSE StepCount
<1>1. /\ \A e \in Daemons \ {d} : ~Moving(daemon[e])
      /\ \A e \in Daemons : ~Moving(daemon'[e])
  BY MovesAlone DEF Breaks, Moving
<1>2. Shown = Half(slots, daemon[d]) /\ Shown' = slots
  BY <1>1, SeenMoving, SeenAtRest, ShownIsSeen DEF Breaks
<1>3. k \in Rows
  BY Bounds DEF TypeOK, DaemonType
<1>4. Half(slots, daemon[d])
         = [i \in Rows |-> IF i < k THEN slots[i]
                           ELSE IF i < StepCount THEN slots[i + 1] ELSE daemon[d].now]
  BY DEF Half
<1>5. k > 1 => slots[k - 1] = slots[k]
  BY RowsCopiedParts, Bounds DEF Copied, Breaks, Moving
<1> HIDE DEF k
<1>6. \A i \in Rows : i \in Nat /\ i >= 1 /\ i <= StepCount
  BY Bounds DEF Rows
<1>7. \A i \in Rows : i # 1 => i - 1 \in Rows
  BY Bounds DEF Rows
<1>8. ASSUME NEW i \in Rows
      PROVE  slots[i] = IF i < k THEN Shown[i] ELSE IF i = 1 THEN slots[i] ELSE Shown[i - 1]
  <2>1. CASE i < k
    BY <1>2, <1>4, <2>1
  <2>2. CASE ~(i < k) /\ i # 1
    <3>1. /\ i - 1 \in Rows /\ i - 1 < StepCount /\ (i - 1) + 1 = i
          /\ Shown[i - 1] = IF i - 1 < k THEN slots[i - 1] ELSE slots[i]
      BY <1>2, <1>4, <1>6, <1>7, <2>2, Bounds
    <3>2. CASE i = k
      BY <1>5, <1>6, <2>2, <3>1, <3>2
    <3>3. CASE i # k
      BY <1>3, <1>6, <2>2, <3>1, <3>3
    <3> QED
      BY <3>2, <3>3
  <2> QED
    BY <2>1, <2>2
<1>9. slots[1] <= Shown[1]
  <2>1. slots[1] \in Nat /\ 2 \in Rows /\ slots[1] <= slots[2] /\ 1 \in Rows
    BY Bounds DEF DatabaseOrdered, TypeOK, Times, Rows
  <2>2. CASE k = 1
    BY <1>2, <1>4, <2>1, <2>2, Bounds
  <2>3. CASE k # 1
    BY <1>2, <1>3, <1>4, <1>6, <2>1, <2>3
  <2> QED
    BY <2>2, <2>3
<1>10. slots = [i \in Rows |-> IF i < k THEN Shown[i]
                               ELSE IF i = 1 THEN slots[i] ELSE Shown[i - 1]]
  <2>1. slots = [i \in Rows |-> slots[i]]
    BY DEF TypeOK
  <2> QED
    BY <1>8, <2>1
<1>11. Window!Interrupt(k) /\ k \in Window!Places
  BY <1>2, <1>3, <1>9, <1>10 DEF Window!Interrupt, Window!Places, Rows
<1>12. RowsCopied'
  BY <1>1, RowsCopiedParts DEF Copied, Moving
<1> QED
  BY <1>11, <1>12

LEMMA WindowStep ==
    ASSUME InductiveInvariant, RowsCopied, [Next /\ InTurn]_vars
    PROVE  RowsCopied' /\ [Window!Next]_Shown
<1>0. TypesAndCounters /\ PidFileNamesCollector /\ DatabaseOrdered /\ TypeOK
  BY DEF InductiveInvariant, TypesAndCounters
<1>1. ASSUME NEW d \in Daemons, DaemonStep(d) \/ Kill(d)
      PROVE  RowsCopied' /\ [Window!Next]_Shown
  <2>1. \A e \in Daemons \ {d} : daemon'[e] = daemon[e]
    BY <1>0, <1>1, OthersUntouched
  <2> QED
    BY <1>0, <1>1, <2>1, RowsAndCollector, ShiftHides, StoreHides, BeginAppends,
       BreakInterrupts, LeavesShown DEF Window!Next
<1>2. ASSUME slots' = slots,
             \A d \in Daemons : /\ daemon'[d].row = daemon[d].row
                                /\ daemon'[d].now = daemon[d].now
                                /\ \/ daemon'[d].pc = daemon[d].pc
                                   \/ ~Moving(daemon[d]) /\ ~Moving(daemon'[d])
      PROVE  RowsCopied' /\ [Window!Next]_Shown
  BY <1>0, <1>2, LeavesShown DEF LeavesRows
<1>3. CASE Tick
  <2>1. \A d \in Daemons : /\ daemon'[d].row = daemon[d].row
                           /\ daemon'[d].now = daemon[d].now
                           /\ \/ daemon'[d].pc = daemon[d].pc
                              \/ daemon[d].pc = "sleep" /\ daemon'[d].pc = "load"
    BY <1>0, <1>3 DEF Tick, TypeOK, DaemonType
  <2> QED
    BY <1>2, <1>3, <2>1 DEF Tick, fileVars, Moving
<1>4. ASSUME NEW c \in Clients, ReadPid(c) \/ ClientStep(c)
      PROVE  RowsCopied' /\ [Window!Next]_Shown
  <2>0. slots' = slots
    BY <1>4 DEF ClientStep, ReadPid, Ping, SendSignal, Fork, OpenFile, PrintRow, Finish,
       fileVars
  <2>1. CASE UNCHANGED daemon
    BY <1>2, <2>0, <2>1
  <2>2. CASE SendSignal(c) /\ client[c].pid # None
    <3> PICK d \in Daemons : d = client[c].pid
      BY <1>0, <2>2 DEF TypeOK, ClientType
    <3> DEFINE next == IF daemon[d].pc = "sleep" THEN "load" ELSE daemon[d].pc
    <3>1. daemon' = [daemon EXCEPT ![d] = [daemon[d] EXCEPT !.countdown = Timeout, !.pc = next]]
      BY <2>2 DEF SendSignal
    <3>2. \A e \in Daemons : /\ daemon'[e].row = daemon[e].row
                             /\ daemon'[e].now = daemon[e].now
                             /\ \/ daemon'[e].pc = daemon[e].pc
                                \/ daemon[e].pc = "sleep" /\ daemon'[e].pc = "load"
      BY <1>0, <3>1 DEF TypeOK, DaemonType
    <3> QED
      BY <1>2, <2>0, <3>2 DEF Moving
  <2>3. ASSUME Fork(c), ~UNCHANGED daemon
        PROVE  RowsCopied' /\ [Window!Next]_Shown
    <3>1. PICK d \in Daemons : daemon[d].pc = "off" /\ Run(d, "truncate")
      BY <2>3 DEF Fork, DaemonAt
    <3>2. \A e \in Daemons : /\ daemon'[e].row = daemon[e].row
                             /\ daemon'[e].now = daemon[e].now
                             /\ \/ daemon'[e].pc = daemon[e].pc
                                \/ daemon[e].pc = "off" /\ daemon'[e].pc = "truncate"
      BY <1>0, <3>1 DEF Run, TypeOK, DaemonType
    <3> QED
      BY <1>2, <2>0, <3>2 DEF Moving
  <2> QED
    BY <1>4, <2>1, <2>2, <2>3
    DEF ClientStep, ReadPid, Ping, SendSignal, OpenFile, PrintRow, Finish
<1>5. CASE SetClockBack \/ UNCHANGED vars
  BY <1>2, <1>5 DEF SetClockBack, vars, fileVars
<1> QED
  BY <1>1, <1>3, <1>4, <1>5 DEF Next

(* If the clients check in turn the database is a SampleWindow, whichever  *)
(* processes are killed and wherever the clock is set: a sample enters when *)
(* it has been found newer than the last, and comes out again if its        *)
(* collector dies before it has been stored.                                *)
THEOREM Refinement == SerialSpec => ImplementsWindow
<1>1. Init => RowsCopied /\ Window!Init
  <2> SUFFICES ASSUME Init PROVE RowsCopied /\ Window!Init
    OBVIOUS
  <2>1. \A d \in Daemons : ~Moving(daemon[d])
    BY DEF Init, Off, Moving
  <2>2. Shown = slots
    BY <2>1, SeenAtRest, ShownIsSeen
  <2>3. Window!Init
    BY <2>2 DEF Init, Window!Init, Window!Places, Rows
  <2> QED
    BY <2>1, <2>3, RowsCopiedParts DEF Copied, Moving
<1>2. InductiveInvariant /\ RowsCopied /\ [Next /\ InTurn]_vars => RowsCopied' /\ [Window!Next]_Shown
  BY WindowStep
<1> QED
  BY <1>1, <1>2, InductiveInvariantHolds, PTL DEF SerialSpec, ImplementsWindow, Window!Spec
=============================================================================
