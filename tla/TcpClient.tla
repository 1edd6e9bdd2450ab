------------------------------ MODULE TcpClient ------------------------------
(***************************************************************************)
(* tcp_client.lua, the daemon that relays channels to a remote TCP server  *)
(* and server lines to channels.  One pass of its endless loop: wait for   *)
(* server data with select, receive and dispatch every line that is there, *)
(* read every upload channel (the value first, its mtime after it) and     *)
(* send what is new, send everything when the update interval has passed,  *)
(* and look after the connection.  The daemon shares the channels with the *)
(* writers of ChannelStore; time is counted in seconds since the events    *)
(* the code compares with, capped one past the longest comparison.  The    *)
(* daemon is itself one of the writers: a line of the server is written    *)
(* channel by channel, each time truncating and filling the file.          *)
(***************************************************************************)
EXTENDS ChannelStore, Naturals, Sequences

CONSTANTS Daemon,      \* the daemon's name among the writers
          Upload,      \* channels of class upload
          Lines,       \* server lines, by what the download channels' patterns capture
          Sensed,      \* channels the router and the sketches write
          OnChange,    \* update_onchange
          Interval,    \* update_interval, in seconds; 0: never
          KeepAlive,   \* keep_alive_interval (10 in the code)
          RetryWait,   \* wait between attempts without a connection (60)
          MaxLines,    \* bound: lines the server sends in all
          Faults       \* what the server may do

ASSUME TcpAssumption == /\ Daemon \in Writers
                        /\ Upload \subseteq Channels /\ Lines \subseteq Captures \ {Nothing}
                        /\ Sensed \subseteq Channels
                        /\ OnChange \in BOOLEAN
                        /\ {Interval, KeepAlive, RetryWait, MaxLines} \subseteq Nat
                        /\ KeepAlive <= RetryWait
                        /\ Faults \subseteq {"close", "partial"}

VARIABLES
    conn,      \* the socket in `client`: see Connections
    serverUp,  \* does the server accept connections?
    inbox,     \* lines sent by the server and not yet received
    lines,     \* how many lines it has sent
    pc, todo,  \* where the loop is; upload channels still to read in this pass
    cur, rd,   \* channel being read and the value just read
    cached,    \* v["value"] of each upload channel
    postAge,   \* cur_time - old_time
    aliveAge,  \* os.time() - alive_old_time
    aliveTop,  \* alive_cur_time - alive_old_time, taken at the top of the loop
    uploaded   \* the last value of each channel that reached the server

clientVars == <<pc, todo, cur, rd, cached, postAge, aliveAge, aliveTop>>
netVars == <<conn, serverUp, inbox, lines>>
vars == <<storeVars, clientVars, netVars, uploaded>>

\* none: client is nil; up; half: the peer has closed, which leaves getpeername
\* its answer; reset: something was sent after that, and getpeername fails.
Connections == {"none", "up", "half", "reset"}
\* The beginning of a line whose end has not arrived.
Partial == Nothing
MaxAge == RetryWait + 1
MaxPostAge == Interval + 1

TypeOK ==
    /\ StoreTypeOK
    /\ conn \in Connections /\ serverUp \in BOOLEAN
    /\ Len(inbox) <= 1 /\ \A k \in DOMAIN inbox : inbox[k] \in Lines \union {Partial}
    /\ lines \in 0..MaxLines
    /\ pc \in {"top", "receive", "scan", "stat", "post", "alive"}
    /\ todo \subseteq Upload /\ cur \in Maybe(Upload) /\ rd \in Maybe(Values)
    /\ cached \in [Upload -> Maybe(Values)]
    /\ postAge \in 0..MaxPostAge /\ aliveAge \in 0..MaxAge /\ aliveTop \in 0..aliveAge
    /\ uploaded \in [Upload -> Maybe(Values)]

Init ==
    /\ StoreInit
    /\ serverUp \in BOOLEAN /\ conn = (IF serverUp THEN "up" ELSE "none")
    /\ inbox = <<>> /\ lines = 0
    /\ pc = "top" /\ todo = {} /\ cur = Blank /\ rd = Blank
    /\ cached = [ch \in Upload |-> Blank]
    /\ postAge = 0 /\ aliveAge = 0 /\ aliveTop = 0
    /\ uploaded = [ch \in Upload |-> Blank]

-----------------------------------------------------------------------------
(* Sending and connecting *)

\* client:send of the values msgs, a function on some channels; its result is
\* ignored.  Sent to a peer that has gone, they are lost and the kernel learns of it.
Send(msgs) ==
    /\ uploaded' = IF conn = "up"
                   THEN [ch \in Upload |-> IF ch \in DOMAIN msgs THEN msgs[ch]
                                           ELSE uploaded[ch]]
                   ELSE uploaded
    /\ conn' = IF conn = "half" /\ DOMAIN msgs # {} THEN "reset" ELSE conn

\* Connect_to_Server: a new socket, or nil.
Connect == conn' = (IF serverUp THEN "up" ELSE "none") /\ inbox' = <<>>

\* alive_old_time = alive_cur_time, the second in which this pass began.
RestartAliveTimer == aliveAge' = aliveAge - aliveTop

-----------------------------------------------------------------------------
(* The loop *)

\* Wrong variant: the age measured in an earlier pass outlives the timer's restart.
TopKeepingAge ==
    /\ pc = "top"
    /\ aliveTop' = aliveAge
    /\ IF conn # "none"
       THEN /\ pc' = "receive" /\ todo' = Upload
            /\ UNCHANGED <<conn, inbox, aliveAge>>
       ELSE /\ IF aliveAge > RetryWait THEN Connect /\ aliveAge' = 0
               ELSE UNCHANGED <<conn, inbox, aliveAge>>
            /\ UNCHANGED <<pc, todo>>
    /\ UNCHANGED <<storeVars, serverUp, lines, cur, rd, cached, postAge, uploaded>>

\* The pass begins: without a socket it is only a timed attempt to connect.
Top ==
    /\ pc = "top"
    /\ IF conn # "none"
       THEN /\ pc' = "receive" /\ todo' = Upload /\ aliveTop' = aliveAge
            /\ UNCHANGED <<conn, inbox, aliveAge>>
       ELSE /\ IF aliveAge > RetryWait THEN Connect /\ aliveAge' = 0
               ELSE UNCHANGED <<conn, inbox, aliveAge>>
            /\ aliveTop' = 0
            /\ UNCHANGED <<pc, todo>>
    /\ UNCHANGED <<storeVars, serverUp, lines, cur, rd, cached, postAge, uploaded>>

\* select, then client:receive for as long as the socket is readable: a whole line
\* is matched with every pattern; with no data for a second the pass goes on, as it
\* does at the end of the stream, where a partial line is dropped.  On a partial line
\* of a live connection receive just waits.
Receive ==
    /\ pc = "receive" /\ job[Daemon] = Rest
    /\ IF inbox # <<>> /\ Head(inbox) # Partial
       THEN Arrive(Daemon, Head(inbox)) /\ inbox' = Tail(inbox) /\ UNCHANGED pc
       ELSE /\ inbox = <<>> \/ conn # "up"
            /\ inbox' = <<>>
            /\ pc' = "scan"
            /\ UNCHANGED storeVars
    /\ UNCHANGED <<conn, serverUp, lines, todo, cur, rd, cached, postAge,
                   aliveAge, aliveTop, uploaded>>

\* Dispatch_Data_to_Sensor_Channel writes the channels it matched, one after the
\* other, before the next receive.
Dispatch ==
    /\ pc = "receive"
    /\ WriterStep(Daemon)
    /\ UNCHANGED <<clientVars, netVars, uploaded>>

\* get_channel_value, first half: tail -n 1.  An empty file yields nothing.
ReadValue(ch) ==
    /\ pc = "scan" /\ ch \in todo
    /\ todo' = todo \ {ch}
    /\ IF file[ch] = Blank THEN UNCHANGED <<pc, cur, rd>>
       ELSE pc' = "stat" /\ cur' = ch /\ rd' = file[ch]
    /\ UNCHANGED <<storeVars, netVars, cached, postAge, aliveAge, aliveTop, uploaded>>

\* get_channel_value, second half: the mtime, taken now; it is compared with the
\* update_time of the channel, which it then replaces.
StatAndSend ==
    /\ pc = "stat"
    /\ cached' = [cached EXCEPT ![cur] = rd]
    /\ Send([ch \in {cur} \intersect {c \in Upload : newer[c] /\ OnChange} |-> rd])
    /\ newer' = [newer EXCEPT ![cur] = FALSE]
    /\ pc' = "scan" /\ cur' = Blank /\ rd' = Blank
    /\ UNCHANGED <<file, touched, job, serverUp, inbox, lines, todo, postAge,
                   aliveAge, aliveTop>>

\* Wrong variant: the interval is restarted by every pass.
PostRestartingTimer ==
    /\ pc = "scan" /\ todo = {}
    /\ IF Interval > 0 /\ postAge > Interval
       THEN Send([ch \in {c \in Upload : cached[c] # Blank} |-> cached[ch]])
       ELSE UNCHANGED <<conn, uploaded>>
    /\ postAge' = 0
    /\ pc' = "alive"
    /\ UNCHANGED <<storeVars, serverUp, inbox, lines, todo, cur, rd, cached,
                   aliveAge, aliveTop>>

\* All channels read: everything known is sent when the interval has passed.
Post ==
    /\ pc = "scan" /\ todo = {}
    /\ IF Interval > 0 /\ postAge > Interval
       THEN /\ Send([ch \in {c \in Upload : cached[c] # Blank} |-> cached[ch]])
            /\ postAge' = 0
       ELSE UNCHANGED <<conn, uploaded, postAge>>
    /\ pc' = "alive"
    /\ UNCHANGED <<storeVars, serverUp, inbox, lines, todo, cur, rd, cached,
                   aliveAge, aliveTop>>

\* Wrong variant: the socket is replaced when it is nil, not when it has no peer.
AliveTrustingSocket ==
    /\ pc = "alive"
    /\ IF aliveTop > KeepAlive
       THEN /\ IF conn = "none" THEN Connect ELSE UNCHANGED <<conn, inbox>>
            /\ RestartAliveTimer /\ aliveTop' = 0
       ELSE UNCHANGED <<conn, inbox, aliveAge, aliveTop>>
    /\ pc' = "top"
    /\ UNCHANGED <<storeVars, serverUp, lines, todo, cur, rd, cached, postAge, uploaded>>

\* The keep-alive: a socket whose peer the kernel has no address for is replaced.
Alive ==
    /\ pc = "alive"
    /\ IF aliveTop > KeepAlive
       THEN /\ IF conn = "reset" THEN Connect ELSE UNCHANGED <<conn, inbox>>
            /\ RestartAliveTimer /\ aliveTop' = 0
       ELSE UNCHANGED <<conn, inbox, aliveAge, aliveTop>>
    /\ pc' = "top"
    /\ UNCHANGED <<storeVars, serverUp, lines, todo, cur, rd, cached, postAge, uploaded>>

ClientStep == Top \/ Receive \/ Dispatch \/ (\E ch \in Upload : ReadValue(ch)) \/ StatAndSend
              \/ Post \/ Alive

-----------------------------------------------------------------------------
(* Around the daemon *)

Writing ==
    \E w \in Writers \ {Daemon} :
        \/ \E vals \in Captures \ {Nothing} :
              /\ \A ch \in Channels \ Sensed : vals[ch] = Blank
              /\ Arrive(w, vals)
        \/ WriterStep(w)

Writes == Writing /\ UNCHANGED <<clientVars, netVars, uploaded>>

\* A second passes.
Capped(n, max) == IF n < max THEN n + 1 ELSE max
Tick ==
    /\ NewSecond
    /\ postAge' = Capped(postAge, MaxPostAge)
    /\ aliveAge' = Capped(aliveAge, MaxAge)
    /\ UNCHANGED <<file, newer, job, netVars, pc, todo, cur, rd, cached, aliveTop, uploaded>>

\* The server sends a line for a download channel, whole or in two packets.
ServerSends(line) ==
    /\ conn = "up" /\ inbox = <<>> /\ lines < MaxLines
    /\ inbox' = <<line>> /\ lines' = lines + 1
    /\ UNCHANGED <<storeVars, clientVars, conn, serverUp, uploaded>>
ServerSendsPartial ==
    /\ "partial" \in Faults
    /\ ServerSends(Partial)
ServerCompletes(line) ==
    /\ conn = "up" /\ inbox = <<Partial>>
    /\ inbox' = <<line>>
    /\ UNCHANGED <<storeVars, clientVars, conn, serverUp, lines, uploaded>>

\* The server closes its connections and goes, or comes back.
ServerStops ==
    /\ "close" \in Faults /\ serverUp
    /\ serverUp' = FALSE
    /\ conn' = IF conn = "up" THEN "half" ELSE conn
    /\ UNCHANGED <<storeVars, clientVars, inbox, lines, uploaded>>
ServerStarts ==
    /\ ~serverUp /\ serverUp' = TRUE
    /\ UNCHANGED <<storeVars, clientVars, conn, inbox, lines, uploaded>>

Next ==
    \/ ClientStep \/ Writes \/ Tick
    \/ ServerSendsPartial \/ ServerStops \/ ServerStarts
    \/ \E line \in Lines : ServerSends(line) \/ ServerCompletes(line)

Spec == Init /\ [][Next]_vars

\* The daemon runs, time passes, and the server finishes the lines it begins.
FairSpec ==
    /\ Spec
    /\ WF_vars(ClientStep)
    /\ WF_vars(Tick)
    /\ WF_vars(\E line \in Lines : ServerCompletes(line))

-----------------------------------------------------------------------------
(* Properties *)

\* A value that stays in a channel's file is the one the server ends up with
\* ("Send to server when a new value arrive"), once the server stays up.
LastValueUploaded ==
    \A ch \in Upload, v \in Values :
        (<>[](file[ch] = v) /\ <>[]serverUp) => <>[](uploaded[ch] = v)

\* A connection the server has closed is replaced once the server accepts again:
\* only a send makes getpeername fail, so only if there is something to send.
ReconnectsEventually ==
    <>[]serverUp /\ <>(\E ch \in Upload : cached[ch] # Blank) => <>[](conn = "up")

\* Sending on change misses nothing as long as every write of an upload channel has a
\* second of its own: it does not begin while the file is open elsewhere, in the
\* second of another write, or between the daemon's read and its stat.
Calm == OnChange /\ "close" \notin Faults
InTurn ==
    \A w \in Writers, ch \in Upload :
        job'[w].open = ch /\ job[w].open # ch =>
            /\ ~touched[ch] /\ cur # ch
            /\ \A o \in Writers : job[o].open # ch
CalmSpec == Init /\ [][Next /\ InTurn]_vars

\* What a channel holds without being newer than the update_time is what the server
\* has.
NothingMissed ==
    \A ch \in Upload : file[ch] # Blank /\ ~newer[ch] => uploaded[ch] = file[ch]

\* What has to be true for that: the daemon only reads while connected, a value it
\* has read is still the file's, and a file that is being rewritten is empty and
\* newer until its value is there.
Connected == conn \in {"none", "up"} /\ (pc # "top" => conn = "up")
ReadIsCurrent ==
    pc = "stat" => cur \in Upload /\ rd # Blank /\ rd = file[cur]
RewrittenIsNewer ==
    \A w \in Writers, ch \in Upload :
        job[w].open = ch =>
            /\ file[ch] = Blank /\ newer[ch]
            /\ \A o \in Writers : o # w => job[o].open # ch
CachedWhenSeen ==
    \A ch \in Upload : file[ch] # Blank /\ ~newer[ch] => cached[ch] = file[ch]
CalmInvariant ==
    /\ TypeOK /\ Connected /\ ReadIsCurrent /\ RewrittenIsNewer
    /\ CachedWhenSeen /\ NothingMissed
=============================================================================
