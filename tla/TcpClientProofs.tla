--------------------------- MODULE TcpClientProofs ---------------------------
(***************************************************************************)
(* Sending on change misses no value, for any channels, values and writers,*)
(* the daemon's own writes included, while the server does not close and   *)
(* every write of an upload channel has a second of its own (CalmSpec).    *)
(***************************************************************************)
EXTENDS TcpClient, TLAPS

Job == [vals : Captures, open : Maybe(Channels)]

(* What client:send leaves: typed uploads and connection, whatever is sent. *)
LEMMA SendType ==
  ASSUME NEW D \in SUBSET Upload, NEW msgs \in [D -> Maybe(Values)],
         uploaded \in [Upload -> Maybe(Values)], conn \in Connections, Send(msgs)
  PROVE  /\ uploaded' \in [Upload -> Maybe(Values)]
         /\ conn' \in Connections
         /\ conn = "up" => /\ conn' = "up"
                           /\ \A ch \in Upload :
                                uploaded'[ch] = IF ch \in D THEN msgs[ch] ELSE uploaded[ch]
  BY DEF Send, Connections, Maybe

(* A write keeps the files well typed.                                      *)
LEMMA WriteType ==
  ASSUME StoreTypeOK, NEW ch \in Channels, NEW v \in Maybe(Values), Write(ch, v)
  PROVE  /\ file' \in [Channels -> Maybe(Values)]
         /\ touched' \in [Channels -> BOOLEAN]
         /\ newer' \in [Channels -> BOOLEAN]
  BY DEF StoreTypeOK, Write

(* A line that arrives leaves its writer with captures to write.            *)
LEMMA ArriveType ==
  ASSUME StoreTypeOK, NEW w \in Writers, NEW vals \in Captures, Arrive(w, vals)
  PROVE  StoreTypeOK'
<1> DEFINE next == [vals |-> vals, open |-> Blank]
<1>1. next \in Job
  BY DEF Job, Maybe
<1>2. job' = [job EXCEPT ![w] = next]
  BY DEF Arrive
<1> HIDE DEF next
<1> QED
  BY <1>1, <1>2 DEF Arrive, StoreTypeOK, Job

(* The two halves of a write.                                               *)
LEMMA WriterType ==
  ASSUME StoreTypeOK, NEW w \in Writers, WriterStep(w)
  PROVE  StoreTypeOK'
<1>1. ASSUME NEW ch \in Channels, Truncate(w, ch)
      PROVE  StoreTypeOK'
  <2> DEFINE next == [vals |-> job[w].vals, open |-> ch]
  <2>1. next \in Job
    BY DEF StoreTypeOK, Job, Maybe
  <2>2. job' = [job EXCEPT ![w] = next] /\ Write(ch, Blank) /\ Blank \in Maybe(Values)
    BY <1>1 DEF Truncate, Maybe
  <2> HIDE DEF next
  <2>3. job' \in [Writers -> Job]
    BY <2>1, <2>2 DEF StoreTypeOK, Job
  <2> QED
    BY <2>2, <2>3, WriteType DEF StoreTypeOK, Job
<1>2. CASE Fill(w)
  <2> DEFINE ch == job[w].open
             vals == [job[w].vals EXCEPT ![ch] = Blank]
             next == [vals |-> vals, open |-> Blank]
  <2>1. ch \in Channels /\ job[w].vals \in Captures
    BY <1>2 DEF Fill, StoreTypeOK, Maybe
  <2>2. vals \in Captures /\ job[w].vals[ch] \in Maybe(Values)
    BY <2>1 DEF Captures, Maybe
  <2>3. job' = [job EXCEPT ![w] = next] /\ Write(ch, job[w].vals[ch])
    BY <1>2 DEF Fill
  <2> HIDE DEF ch, vals
  <2>4. next \in Job
    BY <2>2 DEF Job, Maybe
  <2> HIDE DEF next
  <2>5. job' \in [Writers -> Job]
    BY <2>3, <2>4 DEF StoreTypeOK, Job
  <2> QED
    BY <2>1, <2>2, <2>3, <2>5, WriteType DEF StoreTypeOK, Job
<1> QED
  BY <1>1, <1>2 DEF WriterStep

(* One pass of the loop, and what happens around it, keeps the types.       *)
LEMMA TypeStep ==
  ASSUME TypeOK, [Next]_vars
  PROVE  TypeOK'
<1> USE TcpAssumption
<1>1. CASE Top
  <2>1. StoreTypeOK'
    BY <1>1 DEF Top, storeVars, TypeOK, StoreTypeOK
  <2>2. /\ conn' \in Connections
        /\ inbox' = inbox \/ inbox' = <<>>
        /\ aliveAge' \in 0..MaxAge /\ aliveTop' \in 0..aliveAge'
    BY <1>1 DEF Top, Connect, TypeOK, Connections, MaxAge
  <2> QED
    BY <1>1, <2>1, <2>2 DEF Top, TypeOK
<1>2. CASE Receive
  <2>1. StoreTypeOK'
    <3>1. CASE UNCHANGED storeVars
      BY <3>1 DEF storeVars, TypeOK, StoreTypeOK
    <3>2. CASE inbox # <<>> /\ Head(inbox) # Partial
      <4>1. Head(inbox) \in Captures
        BY <3>2, TcpAssumption DEF TypeOK
      <4>2. Arrive(Daemon, Head(inbox))
        BY <1>2, <3>2 DEF Receive
      <4> QED
        BY <4>1, <4>2, ArriveType DEF TypeOK
    <3> QED
      BY <1>2, <3>1, <3>2 DEF Receive
  <2>2. inbox' = <<>>
    BY <1>2 DEF Receive, TypeOK
  <2> QED
    BY <1>2, <2>1, <2>2 DEF Receive, TypeOK
<1>13. CASE Dispatch
  <2>1. StoreTypeOK'
    BY <1>13, WriterType DEF Dispatch, TypeOK
  <2> QED
    BY <1>13, <2>1 DEF Dispatch, clientVars, netVars, TypeOK
<1>3. ASSUME NEW ch \in Upload, ReadValue(ch)
      PROVE  TypeOK'
  BY <1>3 DEF ReadValue, TypeOK, StoreTypeOK, storeVars, netVars, Maybe
<1>4. CASE StatAndSend
  <2>1. /\ uploaded' \in [Upload -> Maybe(Values)]
        /\ conn' \in Connections
    <3> DEFINE D == {cur} \intersect {c \in Upload : newer[c] /\ OnChange}
    <3>1. Send([ch \in D |-> rd])
      BY <1>4 DEF StatAndSend
    <3>2. [ch \in D |-> rd] \in [D -> Maybe(Values)] /\ D \in SUBSET Upload
      BY DEF TypeOK
    <3> HIDE DEF D
    <3> QED
      BY <3>1, <3>2, SendType DEF TypeOK
  <2>2. StoreTypeOK'
    BY <1>4 DEF StatAndSend, TypeOK, StoreTypeOK
  <2> QED
    BY <1>4, <2>1, <2>2 DEF StatAndSend, TypeOK, Maybe
<1>5. CASE Post
  <2>1. /\ uploaded' \in [Upload -> Maybe(Values)]
        /\ conn' \in Connections
    <3> DEFINE D == {c \in Upload : cached[c] # Blank}
    <3>1. Send([ch \in D |-> cached[ch]]) \/ UNCHANGED <<conn, uploaded>>
      BY <1>5 DEF Post
    <3>2. [ch \in D |-> cached[ch]] \in [D -> Maybe(Values)] /\ D \in SUBSET Upload
      BY DEF TypeOK
    <3> HIDE DEF D
    <3> QED
      BY <3>1, <3>2, SendType DEF TypeOK
  <2> QED
    BY <1>5, <2>1 DEF Post, TypeOK, StoreTypeOK, storeVars, MaxPostAge
<1>6. CASE Alive
  <2>1. /\ conn' \in Connections
        /\ inbox' = inbox \/ inbox' = <<>>
        /\ aliveAge' \in 0..MaxAge /\ aliveTop' \in 0..aliveAge'
    BY <1>6 DEF Alive, Connect, RestartAliveTimer, TypeOK, Connections, MaxAge
  <2> QED
    BY <1>6, <2>1 DEF Alive, TypeOK, StoreTypeOK, storeVars
<1>7. CASE Writes
  <2>1. StoreTypeOK'
    BY <1>7, ArriveType, WriterType DEF Writes, Writing, TypeOK
  <2> QED
    BY <1>7, <2>1 DEF Writes, clientVars, netVars, TypeOK
<1>8. CASE Tick
  <2>1. /\ postAge' \in 0..MaxPostAge
        /\ aliveAge' \in 0..MaxAge /\ aliveAge <= aliveAge'
    BY <1>8 DEF Tick, Capped, TypeOK, MaxPostAge, MaxAge
  <2>2. StoreTypeOK'
    BY <1>8 DEF Tick, NewSecond, TypeOK, StoreTypeOK
  <2> QED
    BY <1>8, <2>1, <2>2 DEF Tick, netVars, TypeOK
<1>9. ASSUME NEW line \in Lines \union {Partial}, ServerSends(line)
      PROVE  TypeOK'
  BY <1>9 DEF ServerSends, clientVars, TypeOK, StoreTypeOK, storeVars
<1>10. ASSUME NEW line \in Lines, ServerCompletes(line)
       PROVE  TypeOK'
  BY <1>10 DEF ServerCompletes, clientVars, TypeOK, StoreTypeOK, storeVars
<1>11. CASE ServerStops \/ ServerStarts
  BY <1>11 DEF ServerStops, ServerStarts, clientVars, TypeOK, StoreTypeOK, storeVars,
               Connections
<1>12. CASE UNCHANGED vars
  BY <1>12 DEF vars, clientVars, netVars, TypeOK, StoreTypeOK, storeVars
<1> QED
  BY <1>1, <1>2, <1>3, <1>4, <1>5, <1>6, <1>7, <1>8, <1>9, <1>10, <1>11, <1>12, <1>13
     DEF Next, ClientStep, ServerSendsPartial

(* The initial state is well typed.                                         *)
LEMMA InitType == Init => TypeOK
  BY TcpAssumption DEF Init, StoreInit, TypeOK, StoreTypeOK, Maybe, Rest, Captures,
     Nothing, Connections, MaxAge, MaxPostAge

(* Every variable keeps to its type, with every race and every fault.       *)
THEOREM TypeCorrect == Spec => []TypeOK
  BY InitType, TypeStep, PTL DEF Spec

-----------------------------------------------------------------------------
-----------------------------------------------------------------------------
(* Calm use                                                                 *)

CalmParts == /\ Connected /\ ReadIsCurrent /\ RewrittenIsNewer
             /\ CachedWhenSeen /\ NothingMissed

(* A step that changes neither the upload channels' files nor what the      *)
(* daemon knows of them.                                                    *)
LEMMA QuietStep ==
  ASSUME CalmParts, UNCHANGED <<newer, job, cur, rd, cached, uploaded>>,
         \A ch \in Upload : file'[ch] = file[ch], Connected', pc' = "stat" => pc = "stat"
  PROVE  CalmParts'
  BY DEF CalmParts, ReadIsCurrent, RewrittenIsNewer, CachedWhenSeen, NothingMissed

(* A line that arrives opens no file.                                       *)
LEMMA CalmArrive ==
  ASSUME TypeOK, CalmParts, NEW w \in Writers, NEW vals \in Captures, Arrive(w, vals),
         UNCHANGED <<conn, pc, cur, rd, cached, uploaded>>
  PROVE  CalmParts'
<1>1. \A o \in Writers : job'[o].open = job[o].open
  BY DEF Arrive, Rest, TypeOK, StoreTypeOK
<1> QED
  BY <1>1 DEF Arrive, CalmParts, Connected, ReadIsCurrent, RewrittenIsNewer,
     CachedWhenSeen, NothingMissed

(* A write in its turn, by any writer.                                      *)
LEMMA CalmWrite ==
  ASSUME TypeOK, CalmParts, InTurn, NEW w \in Writers, WriterStep(w),
         UNCHANGED <<conn, pc, cur, rd, cached, uploaded>>
  PROVE  CalmParts'
<1> USE BlankAssumption, TcpAssumption
<1>1. ASSUME NEW ch \in Channels, Truncate(w, ch)
      PROVE  CalmParts'
  <2>1. \A o \in Writers : job'[o].open = IF o = w THEN ch ELSE job[o].open
    BY <1>1 DEF Truncate, TypeOK, StoreTypeOK
  <2>2. job[w].open = Blank /\ ch # Blank
    BY <1>1 DEF Truncate
  <2>3. ch \in Upload => /\ ~touched[ch] /\ cur # ch
                         /\ \A o \in Writers : job[o].open # ch
    BY <2>1, <2>2 DEF InTurn
  <2>4. \A c \in Channels : /\ file'[c] = IF c = ch THEN Blank ELSE file[c]
                            /\ c # ch => (newer'[c] <=> newer[c])
                            /\ c = ch /\ ~touched[ch] => newer'[c]
    BY <1>1 DEF Truncate, Write, TypeOK, StoreTypeOK
  <2>5. RewrittenIsNewer'
    <3> SUFFICES ASSUME NEW x \in Writers, NEW c \in Upload, job'[x].open = c
                 PROVE  /\ file'[c] = Blank /\ newer'[c]
                        /\ \A o \in Writers : o # x => job'[o].open # c
      BY DEF RewrittenIsNewer
    <3>1. CASE x = w
      BY <2>1, <2>3, <2>4, <3>1
    <3>2. CASE x # w
      BY <2>1, <2>3, <2>4, <3>2 DEF CalmParts, RewrittenIsNewer
    <3> QED
      BY <3>1, <3>2
  <2> QED
    BY <2>3, <2>4, <2>5 DEF CalmParts, Connected, ReadIsCurrent, CachedWhenSeen, NothingMissed
<1>2. CASE Fill(w)
  <2> DEFINE ch == job[w].open
             v == job[w].vals[ch]
  <2>1. ch \in Channels /\ ch # Blank
    BY <1>2 DEF Fill, TypeOK, StoreTypeOK, Maybe
  <2>2. \A c \in Channels : /\ file'[c] = IF c = ch THEN v ELSE file[c]
                            /\ newer[c] => newer'[c]
                            /\ c # ch => (newer'[c] <=> newer[c])
    BY <1>2, <2>1 DEF Fill, Write, TypeOK, StoreTypeOK
  <2>3. \A o \in Writers : job'[o].open = IF o = w THEN Blank ELSE job[o].open
    BY <1>2 DEF Fill, TypeOK, StoreTypeOK
  <2>4. ch \in Upload => /\ file[ch] = Blank /\ newer[ch]
                         /\ \A o \in Writers : o # w => job[o].open # ch
    BY DEF CalmParts, RewrittenIsNewer
  <2> HIDE DEF ch, v
  <2>5. RewrittenIsNewer'
    BY <2>2, <2>3, <2>4 DEF CalmParts, RewrittenIsNewer
  <2> QED
    BY <2>1, <2>2, <2>4, <2>5 DEF CalmParts, Connected, ReadIsCurrent, CachedWhenSeen,
       NothingMissed
<1> QED
  BY <1>1, <1>2 DEF WriterStep

(* Each step of a calm system keeps the parts of CalmInvariant.             *)
LEMMA CalmStep ==
  ASSUME Calm, TypeOK, TypeOK', CalmParts, [Next /\ InTurn]_vars
  PROVE  CalmParts'
<1> USE BlankAssumption, TcpAssumption
<1>1. CASE Top
  <2>1. Connected'
    BY <1>1 DEF Top, Connect, CalmParts, Connected
  <2> QED
    BY <1>1, <2>1, QuietStep DEF Top, storeVars
<1>2. CASE Receive
  <2>1. CASE UNCHANGED storeVars
    BY <1>2, <2>1, QuietStep DEF Receive, storeVars, CalmParts, Connected
  <2>2. CASE inbox # <<>> /\ Head(inbox) # Partial
    <3>1. Head(inbox) \in Captures /\ Arrive(Daemon, Head(inbox))
      BY <1>2, <2>2 DEF Receive, TypeOK
    <3> QED
      BY <1>2, <2>2, <3>1, CalmArrive DEF Receive
  <2> QED
    BY <1>2, <2>1, <2>2 DEF Receive
<1>13. CASE Dispatch
  <2>1. CASE InTurn
    BY <1>13, <2>1, CalmWrite, TcpAssumption DEF Dispatch, clientVars, netVars
  <2>2. CASE UNCHANGED vars
    BY <2>2, QuietStep DEF vars, storeVars, clientVars, netVars, CalmParts, Connected
  <2> QED
    BY <2>1, <2>2
<1>3. ASSUME NEW ch \in Upload, ReadValue(ch)
      PROVE  CalmParts'
  <2>1. UNCHANGED <<file, newer, job, cached, uploaded, conn>> /\ pc # "top"
    BY <1>3 DEF ReadValue, storeVars, netVars
  <2>2. ReadIsCurrent'
    BY <1>3 DEF ReadValue, ReadIsCurrent, storeVars
  <2> QED
    BY <2>1, <2>2 DEF CalmParts, Connected, RewrittenIsNewer, CachedWhenSeen, NothingMissed
<1>4. CASE StatAndSend
  <2>1. cur \in Upload /\ rd # Blank /\ rd = file[cur] /\ conn = "up"
    BY <1>4 DEF StatAndSend, CalmParts, Connected, ReadIsCurrent
  <2> DEFINE D == {cur} \intersect {c \in Upload : newer[c] /\ OnChange}
  <2>2. /\ conn' = "up"
        /\ \A ch \in Upload :
             uploaded'[ch] = IF ch = cur /\ newer[cur] THEN rd ELSE uploaded[ch]
    <3> DEFINE msgs == [ch \in D |-> rd]
    <3>1. Send(msgs)
      BY <1>4 DEF StatAndSend
    <3>2. /\ msgs \in [D -> Maybe(Values)] /\ D \in SUBSET Upload
          /\ \A ch \in D : msgs[ch] = rd
      BY DEF TypeOK
    <3>3. \A ch \in Upload : ch \in D <=> ch = cur /\ newer[cur]
      BY <2>1 DEF Calm
    <3>4. uploaded \in [Upload -> Maybe(Values)] /\ conn \in Connections
      BY DEF TypeOK
    <3> HIDE DEF D, msgs
    <3>5. /\ conn' = "up"
          /\ \A ch \in Upload : uploaded'[ch] = IF ch \in D THEN msgs[ch] ELSE uploaded[ch]
      BY <2>1, <3>1, <3>2, <3>4, SendType
    <3> QED
      BY <3>2, <3>3, <3>5
  <2>3. /\ UNCHANGED <<file, job>> /\ pc' = "scan"
        /\ \A ch \in Upload : /\ newer'[ch] <=> ch # cur /\ newer[ch]
                              /\ cached'[ch] = IF ch = cur THEN rd ELSE cached[ch]
    BY <1>4, TcpAssumption DEF StatAndSend, TypeOK, StoreTypeOK
  <2>4. \A w \in Writers : job[w].open # cur
    BY <2>1 DEF CalmParts, RewrittenIsNewer
  <2>5. RewrittenIsNewer'
    BY <2>3, <2>4 DEF CalmParts, RewrittenIsNewer
  <2>6. CachedWhenSeen' /\ NothingMissed'
    BY <2>1, <2>2, <2>3 DEF CalmParts, CachedWhenSeen, NothingMissed
  <2> QED
    BY <2>2, <2>3, <2>5, <2>6 DEF CalmParts, Connected, ReadIsCurrent
<1>5. CASE Post
  <2>1. pc # "top" /\ conn = "up" /\ pc' = "alive"
    BY <1>5 DEF Post, CalmParts, Connected
  <2> DEFINE D == {c \in Upload : cached[c] # Blank}
  <2>2. /\ conn' = "up"
        /\ \A ch \in Upload : uploaded'[ch] = uploaded[ch] \/ uploaded'[ch] = cached[ch]
    <3>1. CASE UNCHANGED <<conn, uploaded>>
      BY <2>1, <3>1
    <3>2. CASE Send([ch \in D |-> cached[ch]])
      <4> DEFINE msgs == [ch \in D |-> cached[ch]]
      <4>1. /\ msgs \in [D -> Maybe(Values)] /\ D \in SUBSET Upload
            /\ \A ch \in D : msgs[ch] = cached[ch]
        BY DEF TypeOK
      <4>2. Send(msgs)
        BY <3>2
      <4>3. uploaded \in [Upload -> Maybe(Values)] /\ conn \in Connections
        BY DEF TypeOK
      <4> HIDE DEF D, msgs
      <4>4. /\ conn' = "up"
            /\ \A ch \in Upload : uploaded'[ch] = IF ch \in D THEN msgs[ch] ELSE uploaded[ch]
        BY <2>1, <4>1, <4>2, <4>3, SendType
      <4> QED
        BY <4>1, <4>4
    <3> QED
      BY <1>5, <3>1, <3>2 DEF Post
  <2> QED
    BY <1>5, <2>1, <2>2 DEF Post, storeVars, CalmParts, Connected, ReadIsCurrent,
       RewrittenIsNewer, CachedWhenSeen, NothingMissed
<1>6. CASE Alive
  <2>1. Connected'
    BY <1>6 DEF Alive, CalmParts, Connected
  <2> QED
    BY <1>6, <2>1, QuietStep DEF Alive, storeVars
<1>7. CASE Writes
  <2>1. InTurn \/ UNCHANGED vars
    OBVIOUS
  <2>2. CASE UNCHANGED vars
    BY <2>2, QuietStep DEF vars, storeVars, clientVars, netVars, CalmParts, Connected
  <2>3. ASSUME NEW w \in Writers, NEW vals \in Captures, Arrive(w, vals)
        PROVE  CalmParts'
    BY <1>7, <2>3, CalmArrive DEF Writes, clientVars, netVars
  <2>4. ASSUME NEW w \in Writers, WriterStep(w), InTurn
        PROVE  CalmParts'
    BY <1>7, <2>4, CalmWrite DEF Writes, clientVars, netVars
  <2> QED
    BY <1>7, <2>1, <2>2, <2>3, <2>4 DEF Writes, Writing
<1>8. CASE Tick
  BY <1>8, QuietStep DEF Tick, netVars, CalmParts, Connected
<1>9. ASSUME NEW line, ServerSends(line) \/ ServerCompletes(line)
      PROVE  CalmParts'
  BY <1>9, QuietStep DEF ServerSends, ServerCompletes, storeVars, clientVars,
     CalmParts, Connected
<1>10. CASE ServerStops \/ ServerStarts
  BY <1>10, QuietStep DEF Calm, ServerStops, ServerStarts, storeVars, clientVars,
     CalmParts, Connected
<1>11. CASE UNCHANGED vars
  BY <1>11, QuietStep DEF vars, storeVars, clientVars, netVars, CalmParts, Connected
<1> QED
  BY <1>1, <1>2, <1>3, <1>4, <1>5, <1>6, <1>7, <1>8, <1>9, <1>10, <1>11, <1>13
     DEF Next, ClientStep, ServerSendsPartial

(* Calm use keeps CalmInvariant.                                            *)
LEMMA CalmInvariantHolds ==
  ASSUME Calm
  PROVE  CalmSpec => []CalmInvariant
<1>1. Init => CalmInvariant
  <2>1. Init => CalmParts
    BY BlankAssumption, TcpAssumption DEF Init, StoreInit, Rest, Nothing, CalmParts,
       Connected, ReadIsCurrent, RewrittenIsNewer, CachedWhenSeen, NothingMissed
  <2> QED
    BY <2>1, InitType DEF CalmInvariant, CalmParts
<1>2. CalmInvariant /\ [Next /\ InTurn]_vars => CalmInvariant'
  <2> SUFFICES ASSUME CalmInvariant, [Next /\ InTurn]_vars
               PROVE  CalmInvariant'
    OBVIOUS
  <2>1. TypeOK'
    BY TypeStep DEF CalmInvariant
  <2> QED
    BY <2>1, CalmStep DEF CalmInvariant, CalmParts
<1> QED
  BY <1>1, <1>2, PTL DEF CalmSpec

(* Sending on change (lines 96-108) passes over no value that arrived: what *)
(* a channel holds without being news to the daemon is what the server has. *)
THEOREM SendsOnChange ==
  ASSUME Calm
  PROVE  CalmSpec => []NothingMissed
  BY CalmInvariantHolds, PTL DEF CalmInvariant
=============================================================================
