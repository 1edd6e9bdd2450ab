---------------------------- MODULE ChannelStore ----------------------------
(***************************************************************************)
(* The sensor channels: one file per channel under /var/iot/channels, with *)
(* the newest value on its last line, shared by every process of the IoT   *)
(* image.  Writers are the UART router (uart_routing.lua), the TCP client  *)
(* (a line from the MCU or the server may match the patterns of several    *)
(* channels, each of which captures a value of its own) and sketches (the  *)
(* command set_sensor_value).  "echo v > file" is two steps to a reader:   *)
(* the shell truncates the file, then echo fills it.  Values have one      *)
(* length, so that of two echoes into one file the later is what is left.  *)
(*                                                                         *)
(* The clock is kept only as far as one-second mtimes tell writes apart:   *)
(* touched[ch] says that the file's mtime is the current second, and       *)
(* newer[ch] that it is later than the update_time the reader remembers.   *)
(***************************************************************************)
EXTENDS FiniteSets

CONSTANTS Channels,  \* channel ids
          Values,    \* values a channel can hold
          Blank,     \* no file, or an empty one
          Writers    \* processes that write channels

ASSUME BlankAssumption == Blank \notin Values \union Channels

VARIABLES file,     \* content of each channel's file
          touched,  \* was the file written in the current second?
          newer,    \* is its mtime later than the one the reader has seen?
          job       \* what each writer has still to write, and the file it has open

storeVars == <<file, touched, newer, job>>

Maybe(S) == S \union {Blank}
\* What the patterns of the channels have captured from a line.
Captures == [Channels -> Maybe(Values)]
Nothing == [ch \in Channels |-> Blank]
Rest == [vals |-> Nothing, open |-> Blank]

StoreTypeOK ==
    /\ file \in [Channels -> Maybe(Values)]
    /\ touched \in [Channels -> BOOLEAN]
    /\ newer \in [Channels -> BOOLEAN]
    /\ job \in [Writers -> [vals : Captures, open : Maybe(Channels)]]

\* /var/iot/channels is on a RAM disk: empty after a boot.
StoreInit ==
    /\ file = Nothing
    /\ touched = [ch \in Channels |-> FALSE]
    /\ newer = [ch \in Channels |-> FALSE]
    /\ job = [w \in Writers |-> Rest]

-----------------------------------------------------------------------------
\* Any write of v to the file of ch: its mtime becomes the current second, which is
\* news to the reader of the channel unless it has already seen that second.
Write(ch, v) ==
    /\ file' = [file EXCEPT ![ch] = v]
    /\ newer' = [newer EXCEPT ![ch] = @ \/ ~touched[ch]]
    /\ touched' = [touched EXCEPT ![ch] = TRUE]

\* A line has come in, or a sketch names one channel and its value.
Arrive(w, vals) ==
    /\ job[w] = Rest
    /\ job' = [job EXCEPT ![w] = [vals |-> vals, open |-> Blank]]
    /\ UNCHANGED <<file, touched, newer>>

\* set_sensor_data, first half: the shell opens the file for writing.
Truncate(w, ch) ==
    /\ job[w].vals[ch] # Blank /\ job[w].open = Blank
    /\ Write(ch, Blank)
    /\ job' = [job EXCEPT ![w] = [vals |-> @.vals, open |-> ch]]

\* set_sensor_data, second half: echo writes the value.
Fill(w) ==
    /\ job[w].open # Blank
    /\ Write(job[w].open, job[w].vals[job[w].open])
    /\ job' = [job EXCEPT ![w] = [vals |-> [@.vals EXCEPT ![job[w].open] = Blank],
                                  open |-> Blank]]

WriterStep(w) == Fill(w) \/ \E ch \in Channels : Truncate(w, ch)

\* The next second begins.
NewSecond == touched' = [ch \in Channels |-> FALSE]
=============================================================================
