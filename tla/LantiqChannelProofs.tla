------------------------- MODULE LantiqChannelProofs -------------------------
(***************************************************************************)
(* Theorems about the telephone ports, for any number of ports, channels,  *)
(* digits and waiting events and for any dialplan, whatever the person,    *)
(* the callers and the device do and however the dial timer's handler      *)
(* falls between the others.                                               *)
(***************************************************************************)
EXTENDS LantiqChannel, SequenceTheorems, TLAPS

PvtType == [state : States, owner : Channels \union {None},
            timer : BOOLEAN, dtmfbuf : Seq(Digits)]
ChanType == [state : {"free", "down", "busy", "ringing", "ring", "up"},
             port : Ports \union {None}, queue : SUBSET {"answer", "hangup"}]
SchedType == [known : BOOLEAN, orphans : Nat]
ThreadType == [pc : {"expired", "dialling"}, port : Ports] \union {Idle}
EventType == {"on", "off"} \union Keys

(* The type invariant, by the variables.                                    *)
LEMMA TypeParts ==
  TypeOK <=> /\ hook \in [Ports -> {"on", "off"}]
             /\ events \in [Ports -> Seq(EventType)]
             /\ pvt \in [Ports -> PvtType]
             /\ sched \in [Ports -> SchedType]
             /\ thread \in ThreadType
             /\ chan \in [Channels -> ChanType]
             /\ calm \in BOOLEAN
  BY DEF TypeOK, PvtType, ChanType, SchedType, ThreadType, EventType

(* A function with one value replaced by one of the same kind.              *)
LEMMA ExceptTyped ==
  ASSUME NEW S, NEW T, NEW f \in [S -> T], NEW k, NEW new \in T
  PROVE  [f EXCEPT ![k] = new] \in [S -> T]
  OBVIOUS

(* The step of a handler, apart from the types it keeps: it touches one     *)
(* port p and one channel at most.                                          *)
LEMMA EventTyped ==
  ASSUME TypeOK, NEW p \in Ports, NEW event, Event(p, event)
  PROVE  events' \in [Ports -> Seq(EventType)]
<1>1. events[p] \in Seq(EventType) /\ events[p] # << >> /\ events \in [Ports -> Seq(EventType)]
  BY TypeParts DEF Event
<1>2. Tail(events[p]) \in Seq(EventType)
  BY <1>1, HeadTailProperties
<1> QED
  BY <1>1, <1>2 DEF Event

(* Dialling gives the port, and a channel that was free, new records.       *)
LEMMA DialEffect ==
  ASSUME TypeOK, NEW p \in Ports, NEW timer \in BOOLEAN, Dial(p, timer)
  PROVE  \E r \in PvtType :
            /\ pvt' = [pvt EXCEPT ![p] = r]
            /\ r.state \in {"INCALL", "CALL_ENDED"}
            /\ \/ chan' = chan /\ r.owner \in {None, pvt[p].owner}
               \/ \E c \in Channels :
                     /\ ~Live(c) /\ r.owner = c
                     /\ chan' = [chan EXCEPT ![c] = [state |-> "ring", port |-> p,
                                                    queue |-> {}]]
<1> DEFINE after(state, owner) == [state |-> state, owner |-> owner,
                                   timer |-> timer, dtmfbuf |-> << >>]
<1>1. << >> \in Seq(Digits) /\ pvt[p].owner \in Channels \union {None}
  BY EmptySeq DEF TypeOK
<1>2. \A s \in {"INCALL", "CALL_ENDED"}, o \in Channels \union {None} :
          after(s, o) \in PvtType /\ after(s, o).state = s /\ after(s, o).owner = o
  BY <1>1 DEF PvtType, States
<1>3. CASE \E c \in Channels :
              /\ ~Live(c)
              /\ chan' = [chan EXCEPT ![c] = [state |-> "ring", port |-> p, queue |-> {}]]
              /\ pvt' = [pvt EXCEPT ![p] = after("INCALL", c)]
  <2>1. PICK c \in Channels :
              /\ ~Live(c)
              /\ chan' = [chan EXCEPT ![c] = [state |-> "ring", port |-> p, queue |-> {}]]
              /\ pvt' = [pvt EXCEPT ![p] = after("INCALL", c)]
    BY <1>3
  <2>2. /\ after("INCALL", c) \in PvtType /\ after("INCALL", c).state = "INCALL"
        /\ after("INCALL", c).owner = c
    BY <1>2
  <2> HIDE DEF after
  <2> QED
    BY <2>1, <2>2
<1>4. CASE \E o \in {None, pvt[p].owner} :
              pvt' = [pvt EXCEPT ![p] = after("CALL_ENDED", o)] /\ chan' = chan
  <2>1. PICK o \in {None, pvt[p].owner} :
              pvt' = [pvt EXCEPT ![p] = after("CALL_ENDED", o)] /\ chan' = chan
    BY <1>4
  <2>2. /\ after("CALL_ENDED", o) \in PvtType /\ after("CALL_ENDED", o).state = "CALL_ENDED"
        /\ after("CALL_ENDED", o).owner = o
    BY <1>1, <1>2
  <2> HIDE DEF after
  <2> QED
    BY <2>1, <2>2
<1> QED
  BY <1>3, <1>4 DEF Dial

-----------------------------------------------------------------------------
(* Ports and channels *)

(* What a step that touches port p, and channel c if it is one, may do.     *)
Local(p, c) ==
    /\ pvt' \in [Ports -> PvtType] /\ chan' \in [Channels -> ChanType]
    /\ \A q \in Ports \ {p} : pvt'[q] = pvt[q]
    /\ \A d \in Channels \ {c} : chan'[d] = chan[d]
    /\ c \in Channels /\ Live(c) => chan[c].port = p
Agreed(p, c) ==
    /\ LET owner == pvt'[p].owner IN
       owner # None => chan'[owner].state # "free" /\ chan'[owner].port = p
    /\ pvt'[p].state = "RINGING" => \E d \in Channels : RingsFor(p, d)'
    /\ c \in Channels => /\ chan'[c].state # "free" => chan'[c].port # None
                         /\ "answer" \in chan'[c].queue => chan'[c].state = "ringing"

Calls == OwnerLives /\ RingsForACaller /\ ChannelsInOrder

(* Such a step keeps the three invariants about calls at every port.        *)
LEMMA LocalStep ==
  ASSUME TypeOK, Calls, NEW p \in Ports, NEW c, Local(p, c), Agreed(p, c)
  PROVE  Calls'
<1>0. pvt \in [Ports -> PvtType] /\ chan \in [Channels -> ChanType] /\ None \notin Channels
  BY TypeParts, LantiqAssumption
<1>1. OwnerLives'
  <2> SUFFICES ASSUME NEW q \in Ports, pvt'[q].owner # None
               PROVE  chan'[pvt'[q].owner].state # "free" /\ chan'[pvt'[q].owner].port = q
    BY DEF OwnerLives, Live
  <2>1. CASE q = p
    BY <2>1 DEF Agreed
  <2>2. CASE q # p
    <3>1. pvt'[q] = pvt[q] /\ pvt[q].owner \in Channels
      BY <1>0, <2>2 DEF Local, PvtType
    <3>2. Live(pvt[q].owner) /\ chan[pvt[q].owner].port = q
      BY <3>1 DEF Calls, OwnerLives
    <3> QED
      BY <2>2, <3>1, <3>2 DEF Local, Live
  <2> QED
    BY <2>1, <2>2
<1>2. RingsForACaller'
  <2> SUFFICES ASSUME NEW q \in Ports, pvt'[q].state = "RINGING"
               PROVE  \E d \in Channels : RingsFor(q, d)'
    BY DEF RingsForACaller
  <2>1. CASE q = p
    BY <2>1 DEF Agreed
  <2>2. CASE q # p
    <3>1. PICK d \in Channels : RingsFor(q, d)
      BY <2>2 DEF Local, Calls, RingsForACaller
    <3>2. chan'[d] = chan[d]
      BY <2>2, <3>1 DEF Local, RingsFor, Live
    <3> QED
      BY <3>1, <3>2 DEF RingsFor
  <2> QED
    BY <2>1, <2>2
<1>3. ChannelsInOrder'
  BY DEF Local, Agreed, Calls, ChannelsInOrder, Live
<1> QED
  BY <1>1, <1>2, <1>3 DEF Calls

(* The record of a port that is dialling one more digit.                    *)
LEMMA PortRecord ==
  ASSUME NEW r \in PvtType, NEW s \in States, NEW t \in BOOLEAN, NEW b \in Seq(Digits)
  PROVE  [r EXCEPT !.state = s, !.timer = t, !.dtmfbuf = b] \in PvtType
  BY DEF PvtType

(* The record of a channel with its state or its queue replaced.            *)
LEMMA ChannelRecord ==
  ASSUME NEW k \in ChanType, NEW u \in SUBSET {"answer", "hangup"},
         NEW s \in {"free", "down", "busy", "ringing", "ring", "up"}
  PROVE  /\ [k EXCEPT !.state = s] \in ChanType
         /\ [k EXCEPT !.queue = u] \in ChanType
         /\ [k EXCEPT !.state = s, !.queue = u] \in ChanType
         /\ Unused \in ChanType
  BY DEF ChanType, Unused

(* Dialling, by '#' or by the timer.                                        *)
LEMMA DialCalls ==
  ASSUME TypeOK, Calls, NEW p \in Ports, NEW timer \in BOOLEAN, Dial(p, timer)
  PROVE  /\ pvt' \in [Ports -> PvtType] /\ chan' \in [Channels -> ChanType]
         /\ \A q \in Ports \ {p} : pvt'[q] = pvt[q]
         /\ pvt'[p].state \in {"INCALL", "CALL_ENDED"}
         /\ Calls'
<1>0. /\ pvt \in [Ports -> PvtType] /\ chan \in [Channels -> ChanType]
      /\ None \notin Channels /\ None \notin Ports
  BY TypeParts, LantiqAssumption
<1>1. PICK r \in PvtType :
            /\ pvt' = [pvt EXCEPT ![p] = r]
            /\ r.state \in {"INCALL", "CALL_ENDED"}
            /\ \/ chan' = chan /\ r.owner \in {None, pvt[p].owner}
               \/ \E c \in Channels :
                     /\ ~Live(c) /\ r.owner = c
                     /\ chan' = [chan EXCEPT ![c] = [state |-> "ring", port |-> p,
                                                    queue |-> {}]]
  BY DialEffect
<1>2. /\ pvt' \in [Ports -> PvtType] /\ pvt'[p] = r
      /\ \A q \in Ports \ {p} : pvt'[q] = pvt[q]
  BY <1>0, <1>1
<1>3. CASE chan' = chan /\ r.owner \in {None, pvt[p].owner}
  <2>1. Local(p, None)
    BY <1>0, <1>2, <1>3 DEF Local
  <2>2. Agreed(p, None)
    BY <1>0, <1>1, <1>2, <1>3 DEF Agreed, Calls, OwnerLives, Live
  <2> QED
    BY <1>1, <1>2, <2>1, <2>2, LocalStep DEF Local
<1>4. ASSUME NEW c \in Channels, ~Live(c), r.owner = c,
             chan' = [chan EXCEPT ![c] = [state |-> "ring", port |-> p, queue |-> {}]]
      PROVE  chan' \in [Channels -> ChanType] /\ Calls'
  <2>1. [state |-> "ring", port |-> p, queue |-> {}] \in ChanType
    BY DEF ChanType
  <2>2. chan' \in [Channels -> ChanType] /\ chan'[c] = [state |-> "ring", port |-> p, queue |-> {}]
    BY <1>0, <1>4, <2>1
  <2>3. Local(p, c)
    BY <1>0, <1>2, <1>4, <2>2 DEF Local
  <2>4. Agreed(p, c)
    BY <1>0, <1>1, <1>2, <1>4, <2>2 DEF Agreed
  <2> QED
    BY <2>2, <2>3, <2>4, LocalStep
<1> QED
  BY <1>1, <1>2, <1>3, <1>4

(* The receiver put down.                                                   *)
LEMMA OnHookCalls ==
  ASSUME TypeOK, Calls, NEW p \in Ports, OnHookEvent(p)
  PROVE  /\ pvt' \in [Ports -> PvtType] /\ chan' \in [Channels -> ChanType]
         /\ \A q \in Ports \ {p} : pvt'[q] = pvt[q]
         /\ pvt'[p].state = "ONHOOK"
         /\ Calls'
<1>0. /\ pvt \in [Ports -> PvtType] /\ chan \in [Channels -> ChanType]
      /\ None \notin Channels /\ None \notin Ports
  BY TypeParts, LantiqAssumption
<1> DEFINE owner == pvt[p].owner
           drop == pvt[p].state = "DIALING" /\ owner # None
           t == IF pvt[p].state = "DIALING" THEN FALSE ELSE pvt[p].timer
           o == IF drop THEN None ELSE owner
           r == [pvt[p] EXCEPT !.state = "ONHOOK", !.timer = t, !.owner = o]
<1>1. /\ pvt[p] \in PvtType /\ owner \in Channels \union {None} /\ pvt[p].timer \in BOOLEAN
      /\ owner # None => Live(owner) /\ chan[owner].port = p
  BY <1>0 DEF PvtType, Calls, OwnerLives
<1>2. /\ r \in PvtType /\ r.state = "ONHOOK" /\ r.owner = o
  <2>1. "ONHOOK" \in States /\ t \in BOOLEAN /\ o \in Channels \union {None}
    BY <1>1 DEF States
  <2> HIDE DEF t, o
  <2>2. r \in PvtType
    BY <1>1, <2>1 DEF PvtType
  <2> QED
    BY <1>1, <2>2 DEF PvtType
<1>3. pvt' = [pvt EXCEPT ![p] = r]
  BY DEF OnHookEvent
<1>4. /\ pvt' \in [Ports -> PvtType] /\ pvt'[p] = r
      /\ \A q \in Ports \ {p} : pvt'[q] = pvt[q]
  BY <1>0, <1>2, <1>3
<1>5. CASE chan' = chan /\ ~drop
  <2>1. Local(p, None) /\ Agreed(p, None)
    BY <1>0, <1>1, <1>2, <1>4, <1>5 DEF Local, Agreed, Live
  <2> QED
    BY <1>2, <1>4, <2>1, LocalStep DEF Local
<1>6. CASE drop /\ chan' = [chan EXCEPT ![owner] = Unused]
  <2>1. chan' \in [Channels -> ChanType] /\ chan'[owner] = Unused
    BY <1>0, <1>1, <1>6, ChannelRecord
  <2>2. Local(p, owner)
    BY <1>0, <1>1, <1>4, <1>6, <2>1 DEF Local
  <2>3. Agreed(p, owner)
    BY <1>2, <1>4, <1>6, <2>1 DEF Agreed, Unused
  <2> QED
    BY <1>2, <1>4, <2>1, <2>2, <2>3, LocalStep
<1>7. CASE /\ ~drop /\ owner # None
           /\ chan' = [chan EXCEPT ![owner].queue = @ \union {"hangup"}]
  <2> DEFINE k == [chan[owner] EXCEPT !.queue = chan[owner].queue \union {"hangup"}]
  <2>1. chan[owner] \in ChanType
    BY <1>0, <1>1, <1>7
  <2>2. /\ k \in ChanType /\ k.state = chan[owner].state /\ k.port = chan[owner].port
        /\ "answer" \in k.queue => "answer" \in chan[owner].queue
    <3>1. chan[owner].queue \union {"hangup"} \in SUBSET {"answer", "hangup"}
      BY <2>1 DEF ChanType
    <3>2. k \in ChanType
      BY <2>1, <3>1, ChannelRecord
    <3> QED
      BY <2>1, <3>2 DEF ChanType
  <2>3. chan' = [chan EXCEPT ![owner] = k]
    BY <1>7
  <2> HIDE DEF k
  <2>4. chan' \in [Channels -> ChanType] /\ chan'[owner] = k
    BY <1>0, <1>1, <1>7, <2>2, <2>3
  <2>5. Local(p, owner)
    BY <1>0, <1>1, <1>4, <2>3, <2>4 DEF Local
  <2>6. Agreed(p, owner)
    BY <1>0, <1>1, <1>2, <1>4, <1>7, <2>2, <2>4 DEF Agreed, Live, Calls, ChannelsInOrder
  <2> QED
    BY <1>2, <1>4, <2>4, <2>5, <2>6, LocalStep
<1> QED
  BY <1>5, <1>6, <1>7 DEF OnHookEvent, EndCall, Talking

(* The receiver lifted.                                                     *)
LEMMA OffHookCalls ==
  ASSUME TypeOK, Calls, NEW p \in Ports, OffHookEvent(p)
  PROVE  /\ pvt' \in [Ports -> PvtType] /\ chan' \in [Channels -> ChanType]
         /\ \A q \in Ports \ {p} : pvt'[q] = pvt[q]
         /\ pvt'[p].state # "DIALING"
         /\ Calls'
<1>0. /\ pvt \in [Ports -> PvtType] /\ chan \in [Channels -> ChanType]
      /\ None \notin Channels /\ None \notin Ports
  BY TypeParts, LantiqAssumption
<1> DEFINE owner == pvt[p].owner
           accepts == owner # None /\ chan[owner].state = "ringing"
<1>1. /\ pvt[p] \in PvtType /\ owner \in Channels \union {None}
      /\ owner # None => Live(owner) /\ chan[owner].port = p
  BY <1>0 DEF PvtType, Calls, OwnerLives
<1>2. PICK s \in {"RINGING", "INCALL", "OFFHOOK"} :
         /\ pvt' = [pvt EXCEPT ![p].state = s]
         /\ \/ s = "RINGING" /\ pvt[p].state = "RINGING" /\ chan' = chan
            \/ s = "OFFHOOK" /\ chan' = chan
            \/ /\ s = "INCALL" /\ accepts
               /\ chan' = [chan EXCEPT ![owner].queue = @ \union {"answer"}]
  BY DEF OffHookEvent
<1>a. s \in States
  BY DEF States
<1>3. [pvt[p] EXCEPT !.state = s] \in PvtType
  BY <1>1, <1>a DEF PvtType
<1>4. /\ pvt' \in [Ports -> PvtType] /\ pvt'[p].state = s /\ pvt'[p].owner = owner
      /\ \A q \in Ports \ {p} : pvt'[q] = pvt[q]
  BY <1>0, <1>1, <1>2, <1>3 DEF PvtType
<1>5. CASE chan' = chan
  <2>1. s = "RINGING" => \E d \in Channels : RingsFor(p, d)
    BY <1>2, <1>5 DEF Calls, RingsForACaller
  <2>2. Local(p, None) /\ Agreed(p, None)
    BY <1>0, <1>1, <1>4, <1>5, <2>1 DEF Local, Agreed, Live, RingsFor
  <2> QED
    BY <1>4, <2>2, LocalStep DEF Local
<1>6. CASE /\ s = "INCALL" /\ accepts
           /\ chan' = [chan EXCEPT ![owner].queue = @ \union {"answer"}]
  <2> DEFINE k == [chan[owner] EXCEPT !.queue = chan[owner].queue \union {"answer"}]
  <2>1. chan[owner] \in ChanType
    BY <1>0, <1>1, <1>6
  <2>a. chan[owner].queue \union {"answer"} \in SUBSET {"answer", "hangup"}
    BY <2>1 DEF ChanType
  <2>b. k \in ChanType
    BY <2>1, <2>a, ChannelRecord
  <2>2. /\ k \in ChanType /\ k.state = "ringing" /\ k.port = chan[owner].port
    BY <1>6, <2>1, <2>b DEF ChanType
  <2>3. chan' = [chan EXCEPT ![owner] = k]
    BY <1>6
  <2> HIDE DEF k
  <2>4. chan' \in [Channels -> ChanType] /\ chan'[owner] = k
    BY <1>0, <1>1, <1>6, <2>2, <2>3
  <2>5. Local(p, owner)
    BY <1>0, <1>1, <1>4, <2>3, <2>4 DEF Local
  <2>6. Agreed(p, owner)
    BY <1>0, <1>1, <1>4, <1>6, <2>2, <2>4 DEF Agreed
  <2> QED
    BY <1>4, <1>6, <2>4, <2>5, <2>6, LocalStep
<1> QED
  BY <1>2, <1>5, <1>6

(* A digit: the port is dialling, or nothing happens.                       *)
LEMMA DigitCalls ==
  ASSUME TypeOK, Calls, NEW p \in Ports, NEW digit \in Digits, DigitEvent(p, digit)
  PROVE  /\ pvt' \in [Ports -> PvtType] /\ chan' \in [Channels -> ChanType]
         /\ \A q \in Ports \ {p} : pvt'[q] = pvt[q]
         /\ Calls'
<1>0. /\ pvt \in [Ports -> PvtType] /\ chan \in [Channels -> ChanType]
      /\ None \notin Channels /\ None \notin Ports /\ chan' = chan
  BY TypeParts, LantiqAssumption DEF DigitEvent
<1> DEFINE b == Append(pvt[p].dtmfbuf, digit)
           r == [pvt[p] EXCEPT !.state = "DIALING", !.timer = TRUE, !.dtmfbuf = b]
<1>1. pvt[p] \in PvtType /\ b \in Seq(Digits)
  BY <1>0, AppendProperties DEF PvtType
<1>2. r \in PvtType /\ r.state = "DIALING" /\ r.owner = pvt[p].owner
  <2>1. "DIALING" \in States /\ TRUE \in BOOLEAN
    BY DEF States
  <2> HIDE DEF b
  <2>2. r \in PvtType
    BY <1>1, <2>1, PortRecord
  <2> QED
    BY <1>1, <2>2 DEF PvtType
<1>3. pvt' = pvt \/ pvt' = [pvt EXCEPT ![p] = r]
  BY DEF DigitEvent
<1> HIDE DEF r
<1>4. /\ pvt' \in [Ports -> PvtType] /\ pvt'[p].owner = pvt[p].owner
      /\ pvt'[p] = pvt[p] \/ pvt'[p].state = "DIALING"
      /\ \A q \in Ports \ {p} : pvt'[q] = pvt[q]
  BY <1>0, <1>2, <1>3
<1>5. Local(p, None)
  BY <1>0, <1>4 DEF Local
<1>6. Agreed(p, None)
  BY <1>0, <1>4 DEF Agreed, Calls, OwnerLives, RingsForACaller, RingsFor, Live
<1> QED
  BY <1>0, <1>4, <1>5, <1>6, LocalStep

(* An entry's time has come and its handler begins: only the timer is forgotten. *)
LEMMA TimeoutCalls ==
  ASSUME TypeOK, Calls, NEW p \in Ports, DialTimeout(p)
  PROVE  /\ pvt' \in [Ports -> PvtType] /\ chan' \in [Channels -> ChanType]
         /\ \A q \in Ports : pvt'[q].state = pvt[q].state
         /\ Calls'
<1>0. /\ pvt \in [Ports -> PvtType] /\ chan \in [Channels -> ChanType]
      /\ None \notin Channels /\ None \notin Ports /\ chan' = chan
  BY TypeParts, LantiqAssumption DEF DialTimeout
<1>1. pvt[p] \in PvtType /\ pvt' = [pvt EXCEPT ![p].timer = FALSE]
  BY <1>0 DEF DialTimeout
<1>2. [pvt[p] EXCEPT !.timer = FALSE] \in PvtType
  BY <1>1 DEF PvtType
<1>3. /\ pvt' \in [Ports -> PvtType] /\ \A q \in Ports \ {p} : pvt'[q] = pvt[q]
      /\ pvt'[p].owner = pvt[p].owner /\ pvt'[p].state = pvt[p].state
  BY <1>0, <1>1, <1>2 DEF PvtType
<1>4. Local(p, None)
  BY <1>0, <1>3 DEF Local
<1>5. Agreed(p, None)
  BY <1>0, <1>3 DEF Agreed, Calls, OwnerLives, RingsForACaller, RingsFor, Live
<1> QED
  BY <1>0, <1>3, <1>4, <1>5, LocalStep

(* A new channel for a port, whoever owned it before.                       *)
LEMMA RequestCalls ==
  ASSUME TypeOK, Calls, NEW p \in Ports, Request(p)
  PROVE  /\ pvt' \in [Ports -> PvtType] /\ chan' \in [Channels -> ChanType]
         /\ \A q \in Ports : pvt'[q].state = pvt[q].state
         /\ Calls'
<1>0. /\ pvt \in [Ports -> PvtType] /\ chan \in [Channels -> ChanType]
      /\ None \notin Channels /\ None \notin Ports
  BY TypeParts, LantiqAssumption
<1> DEFINE k == [state |-> "down", port |-> p, queue |-> {}]
<1>1. PICK c \in Channels : /\ ~Live(c)
                            /\ chan' = [chan EXCEPT ![c] = k]
                            /\ pvt' = [pvt EXCEPT ![p].owner = c]
  BY DEF Request
<1>2. k \in ChanType /\ k.state = "down" /\ k.port = p /\ k.queue = {}
  BY DEF ChanType
<1>3. pvt[p] \in PvtType /\ [pvt[p] EXCEPT !.owner = c] \in PvtType
  BY <1>0 DEF PvtType
<1> HIDE DEF k
<1>4. chan' \in [Channels -> ChanType] /\ chan'[c] = k
  BY <1>0, <1>1, <1>2
<1>5. /\ pvt' \in [Ports -> PvtType] /\ \A q \in Ports \ {p} : pvt'[q] = pvt[q]
      /\ pvt'[p].owner = c /\ pvt'[p].state = pvt[p].state
  BY <1>0, <1>1, <1>3 DEF PvtType
<1>6. Local(p, c)
  BY <1>0, <1>1, <1>4, <1>5 DEF Local
<1>7. pvt[p].state = "RINGING" => \E d \in Channels : RingsFor(p, d)'
  <2>1. ASSUME NEW d \in Channels, RingsFor(p, d)
        PROVE  RingsFor(p, d)'
    BY <1>1, <2>1 DEF RingsFor, Live
  <2> QED
    BY <2>1 DEF Calls, RingsForACaller
<1>8. Agreed(p, c)
  BY <1>0, <1>2, <1>4, <1>5, <1>7 DEF Agreed
<1> QED
  BY <1>4, <1>5, <1>6, <1>8, LocalStep

(* The call: the port rings for the channel, or the channel is refused.     *)
LEMMA CallCalls ==
  ASSUME TypeOK, Calls, NEW c \in Channels, Call(c)
  PROVE  /\ pvt' \in [Ports -> PvtType] /\ chan' \in [Channels -> ChanType]
         /\ \A q \in Ports : pvt'[q].state \in {pvt[q].state, "RINGING"}
         /\ Calls'
<1>0. /\ pvt \in [Ports -> PvtType] /\ chan \in [Channels -> ChanType]
      /\ None \notin Channels /\ None \notin Ports
  BY TypeParts, LantiqAssumption
<1>a. PICK p \in Ports : p = chan[c].port
  BY <1>0 DEF Call, ChanType, Calls, ChannelsInOrder, Live
<1>1. /\ chan[c] \in ChanType /\ p = chan[c].port /\ chan[c].state = "down" /\ Live(c)
      /\ "answer" \notin chan[c].queue
  BY <1>0, <1>a DEF Call, ChanType, Calls, ChannelsInOrder, Live
<1>2. PICK s \in {"ringing", "busy"} :
         /\ chan' = [chan EXCEPT ![c].state = s]
         /\ \/ s = "ringing" /\ pvt' = [pvt EXCEPT ![p].state = "RINGING"]
            \/ s = "busy" /\ pvt' = pvt
  BY <1>a DEF Call
<1>3. [chan[c] EXCEPT !.state = s] \in ChanType
  BY <1>1 DEF ChanType
<1>4. /\ chan' \in [Channels -> ChanType] /\ chan'[c].state = s /\ chan'[c].port = p
      /\ chan'[c].queue = chan[c].queue
      /\ \A d \in Channels \ {c} : chan'[d] = chan[d]
  BY <1>0, <1>1, <1>2, <1>3 DEF ChanType
<1>5. pvt[p] \in PvtType /\ [pvt[p] EXCEPT !.state = "RINGING"] \in PvtType
  BY <1>0, <1>1 DEF PvtType, States
<1>6. /\ pvt' \in [Ports -> PvtType] /\ \A q \in Ports \ {p} : pvt'[q] = pvt[q]
      /\ pvt'[p].owner = pvt[p].owner
      /\ \/ s = "ringing" /\ pvt'[p].state = "RINGING"
         \/ s = "busy" /\ pvt'[p].state = pvt[p].state
  <2> DEFINE n == [pvt[p] EXCEPT !.state = "RINGING"]
  <2>1. n \in PvtType /\ n.state = "RINGING" /\ n.owner = pvt[p].owner
    BY <1>5 DEF PvtType
  <2>2. (s = "ringing" /\ pvt' = [pvt EXCEPT ![p] = n]) \/ (s = "busy" /\ pvt' = pvt)
    BY <1>2
  <2> HIDE DEF n
  <2> QED
    BY <1>0, <1>1, <2>1, <2>2
<1>7. Local(p, c)
  BY <1>1, <1>4, <1>6 DEF Local
<1>8. pvt'[p].state = "RINGING" => \E d \in Channels : RingsFor(p, d)'
  <2>1. CASE s = "ringing"
    BY <1>1, <1>4, <2>1 DEF RingsFor
  <2>2. ASSUME NEW d \in Channels, RingsFor(p, d)
        PROVE  RingsFor(p, d)'
    BY <1>1, <1>4, <2>2 DEF RingsFor
  <2> QED
    <3>1. pvt[p].state = "RINGING" => \E d \in Channels : RingsFor(p, d)
      BY <1>1 DEF Calls, RingsForACaller
    <3> QED
      BY <1>6, <2>1, <2>2, <3>1
<1>9. Agreed(p, c)
  <2>1. pvt[p].owner # None => pvt[p].owner \in Channels /\ Live(pvt[p].owner)
                               /\ chan[pvt[p].owner].port = p
    BY <1>0, <1>1 DEF Calls, OwnerLives, PvtType
  <2> QED
    BY <1>0, <1>1, <1>4, <1>6, <1>8, <2>1 DEF Agreed, Live
<1> QED
  BY <1>1, <1>4, <1>6, <1>7, <1>9, LocalStep

(* ANSWER is taken.                                                         *)
LEMMA AnswerCalls ==
  ASSUME TypeOK, Calls, NEW c \in Channels, Answer(c)
  PROVE  pvt' = pvt /\ chan' \in [Channels -> ChanType] /\ Calls'
<1>0. /\ pvt \in [Ports -> PvtType] /\ chan \in [Channels -> ChanType]
      /\ None \notin Channels /\ None \notin Ports /\ pvt' = pvt
  BY TypeParts, LantiqAssumption DEF Answer
<1>1. chan[c] \in ChanType /\ Live(c)
  BY <1>0 DEF Answer, ChanType, Calls, ChannelsInOrder, Live
<1>2. PICK p \in Ports : p = chan[c].port
  BY <1>1 DEF ChanType, Calls, ChannelsInOrder
<1>a. ~RingsFor(p, c)
  BY <1>1 DEF Answer, RingsFor
<1> DEFINE k == [chan[c] EXCEPT !.state = "up", !.queue = chan[c].queue \ {"answer"}]
<1>3. chan[c].queue \ {"answer"} \in SUBSET {"answer", "hangup"}
  BY <1>1 DEF ChanType
<1>4. k \in ChanType /\ k.state = "up" /\ k.port = p /\ "answer" \notin k.queue
  BY <1>1, <1>2, <1>3 DEF ChanType
<1>5. chan' = [chan EXCEPT ![c] = k]
  BY DEF Answer
<1> HIDE DEF k
<1>6. /\ chan' \in [Channels -> ChanType] /\ chan'[c] = k
      /\ \A d \in Channels \ {c} : chan'[d] = chan[d]
  BY <1>0, <1>4, <1>5
<1>7. Local(p, c)
  BY <1>0, <1>2, <1>6 DEF Local
<1>8. pvt[p].state = "RINGING" => \E d \in Channels : RingsFor(p, d)'
  <2>1. ASSUME NEW d \in Channels, RingsFor(p, d)
        PROVE  RingsFor(p, d)'
    <3>1. d # c
      BY <1>a, <2>1
    <3> QED
      BY <1>6, <2>1, <3>1 DEF RingsFor
  <2> QED
    BY <1>2, <2>1 DEF Calls, RingsForACaller
<1>9. Agreed(p, c)
  <2>1. pvt[p].owner # None => pvt[p].owner \in Channels /\ Live(pvt[p].owner)
                               /\ chan[pvt[p].owner].port = p
    BY <1>0, <1>2 DEF Calls, OwnerLives, PvtType
  <2>2. p # None
    BY <1>0, <1>2
  <2> QED
    BY <1>0, <1>4, <1>6, <1>8, <2>1, <2>2 DEF Agreed, Live
<1> QED
  BY <1>0, <1>2, <1>6, <1>7, <1>9, LocalStep

(* A channel ends.                                                          *)
LEMMA HangUpCalls ==
  ASSUME TypeOK, Calls, NEW c \in Channels, HangUp(c)
  PROVE  /\ pvt' \in [Ports -> PvtType] /\ chan' \in [Channels -> ChanType]
         /\ \A q \in Ports : pvt'[q] = pvt[q] \/ pvt'[q].state # "DIALING"
         /\ Calls'
<1>0. /\ pvt \in [Ports -> PvtType] /\ chan \in [Channels -> ChanType]
      /\ None \notin Channels /\ None \notin Ports
  BY TypeParts, LantiqAssumption
<1>a. PICK p \in Ports : p = chan[c].port
  BY <1>0 DEF HangUp, ChanType, Calls, ChannelsInOrder
<1> DEFINE s == IF pvt[p].state \in OnHook THEN "ONHOOK" ELSE "CALL_ENDED"
           r == [pvt[p] EXCEPT !.state = s, !.owner = None]
<1>1. chan[c] \in ChanType /\ Live(c) /\ p = chan[c].port
  BY <1>0, <1>a DEF HangUp
<1>2. pvt[p] \in PvtType /\ s \in {"ONHOOK", "CALL_ENDED"} /\ s \in States
  BY <1>0, <1>1 DEF States
<1>3. r \in PvtType /\ r.state = s /\ r.owner = None
  <2> HIDE DEF s
  <2> QED
    BY <1>2 DEF PvtType
<1>4. pvt' = [pvt EXCEPT ![p] = r] /\ chan' = [chan EXCEPT ![c] = Unused]
  BY <1>a DEF HangUp, HungUp
<1> HIDE DEF r
<1>5. /\ chan' \in [Channels -> ChanType] /\ chan'[c] = Unused
      /\ \A d \in Channels \ {c} : chan'[d] = chan[d]
  BY <1>0, <1>1, <1>4, ChannelRecord
<1>6. /\ pvt' \in [Ports -> PvtType] /\ pvt'[p] = r
      /\ \A q \in Ports \ {p} : pvt'[q] = pvt[q]
  BY <1>0, <1>1, <1>3, <1>4
<1>7. Local(p, c)
  BY <1>1, <1>5, <1>6 DEF Local
<1>8. Agreed(p, c)
  BY <1>2, <1>3, <1>5, <1>6 DEF Agreed, Unused
<1> QED
  BY <1>1, <1>2, <1>3, <1>5, <1>6, <1>7, <1>8, LocalStep

-----------------------------------------------------------------------------
(* The dial timer *)

(* A step that leaves scheduler and its thread alone begins no dialling.    *)
LEMMA TimedKept ==
  ASSUME DialingIsTimed, sched' = sched, thread' = thread,
         \A p \in Ports : pvt'[p].state = "DIALING" => pvt[p].state = "DIALING"
  PROVE  DialingIsTimed'
  BY DEF DialingIsTimed, Timed

(* A step that may set or stop the timer of port p.                         *)
LEMMA TimedAt ==
  ASSUME DialingIsTimed, NEW p \in Ports, sched \in [Ports -> SchedType], NEW k \in SchedType,
         sched' = [sched EXCEPT ![p] = k], thread' = thread,
         \A q \in Ports \ {p} : pvt'[q] = pvt[q],
         pvt'[p].state = "DIALING" => k.known
  PROVE  sched' \in [Ports -> SchedType] /\ DialingIsTimed'
<1>1. /\ sched' \in [Ports -> SchedType] /\ sched'[p] = k
      /\ \A q \in Ports \ {p} : sched'[q] = sched[q]
  OBVIOUS
<1> QED
  BY <1>1 DEF DialingIsTimed, Timed

LEMMA SchedRecord ==
  ASSUME NEW k \in SchedType, NEW b \in BOOLEAN
  PROVE  /\ [k EXCEPT !.known = b] \in SchedType
         /\ [k EXCEPT !.known = b].known = b
         /\ [k EXCEPT !.known = b].orphans = k.orphans
  BY DEF SchedType

-----------------------------------------------------------------------------
(* The steps *)

LEMMA PersonStep ==
  ASSUME InductiveInvariant, NEW p \in Ports, Person(p), calm' \in BOOLEAN
  PROVE  InductiveInvariant'
<1>1. PICK event \in EventType : Happens(p, event) /\ hook' \in [Ports -> {"on", "off"}]
  <2>1. CASE LiftOrReplace(p)
    <3>1. hook' \in [Ports -> {"on", "off"}] /\ hook'[p] \in EventType /\ Happens(p, hook'[p])
      BY <2>1 DEF LiftOrReplace, InductiveInvariant, TypeOK, EventType
    <3> QED
      BY <3>1
  <2>2. ASSUME NEW key \in Keys, Press(p, key)
        PROVE  Happens(p, key) /\ hook' = hook
    BY <2>2, Zenon DEF Press
  <2> QED
    BY <2>1, <2>2 DEF Person, InductiveInvariant, TypeOK, EventType
<1>2. Append(events[p], event) \in Seq(EventType)
  BY AppendProperties DEF InductiveInvariant, TypeOK, EventType
<1>3. events' \in [Ports -> Seq(EventType)]
  BY <1>1, <1>2, TypeParts DEF Happens, InductiveInvariant
<1>4. TypeOK'
  BY <1>1, <1>3, TypeParts DEF Happens, InductiveInvariant, TypeOK, PvtType, ChanType,
                               SchedType, ThreadType, EventType
<1> QED
  BY <1>1, <1>4 DEF Happens, InductiveInvariant, DialingIsTimed, Timed, OwnerLives, Live,
                    RingsForACaller, RingsFor, ChannelsInOrder

LEMMA MonitorStep ==
  ASSUME InductiveInvariant, NEW p \in Ports, Monitor(p), calm' \in BOOLEAN
  PROVE  InductiveInvariant'
<1>0. /\ TypeOK /\ Calls /\ DialingIsTimed /\ pvt[p].timer \in BOOLEAN
      /\ sched \in [Ports -> SchedType] /\ sched[p] \in SchedType
  BY TypeParts DEF InductiveInvariant, Calls, PvtType
<1>1. ASSUME events' \in [Ports -> Seq(EventType)], hook' = hook, thread' = thread,
             pvt' \in [Ports -> PvtType], chan' \in [Channels -> ChanType], Calls',
             sched' \in [Ports -> SchedType], DialingIsTimed'
      PROVE  InductiveInvariant'
  <2>1. TypeOK'
    BY <1>0, <1>1, TypeParts DEF TypeOK, PvtType, ChanType, SchedType, ThreadType, EventType
  <2> QED
    BY <1>1, <2>1 DEF InductiveInvariant, Calls
<1> DEFINE stopped == [sched[p] EXCEPT !.known = FALSE]
           started == [sched[p] EXCEPT !.known = TRUE]
<1>2. /\ stopped \in SchedType /\ started \in SchedType /\ started.known
      /\ Stopped(p) = [sched EXCEPT ![p] = stopped]
      /\ Restarted(p) = [sched EXCEPT ![p] = started]
  BY <1>0, SchedRecord DEF Stopped, Restarted
<1> HIDE DEF stopped, started
<1>3. CASE OnHookEvent(p)
  <2>1. /\ pvt' \in [Ports -> PvtType] /\ chan' \in [Channels -> ChanType] /\ Calls'
        /\ \A q \in Ports \ {p} : pvt'[q] = pvt[q]
        /\ pvt'[p].state = "ONHOOK"
    BY <1>0, <1>3, OnHookCalls
  <2>2. /\ events' \in [Ports -> Seq(EventType)] /\ hook' = hook /\ thread' = thread
        /\ sched' = sched \/ sched' = Stopped(p)
    BY <1>0, <1>3, EventTyped DEF OnHookEvent
  <2>3. sched' \in [Ports -> SchedType] /\ DialingIsTimed'
    BY <1>0, <1>2, <2>1, <2>2, TimedKept, TimedAt
  <2> QED
    BY <1>1, <2>1, <2>2, <2>3
<1>4. CASE OffHookEvent(p)
  <2>1. /\ pvt' \in [Ports -> PvtType] /\ chan' \in [Channels -> ChanType] /\ Calls'
        /\ \A q \in Ports \ {p} : pvt'[q] = pvt[q]
        /\ pvt'[p].state # "DIALING"
    BY <1>0, <1>4, OffHookCalls
  <2>2. /\ events' \in [Ports -> Seq(EventType)] /\ hook' = hook /\ thread' = thread
        /\ sched' = sched
    BY <1>0, <1>4, EventTyped DEF OffHookEvent
  <2>3. DialingIsTimed'
    BY <1>0, <2>1, <2>2, TimedKept
  <2> QED
    BY <1>0, <1>1, <2>1, <2>2, <2>3
<1>5. CASE HashEvent(p)
  <2>1. /\ events' \in [Ports -> Seq(EventType)] /\ hook' = hook /\ thread' = thread
    BY <1>0, <1>5, EventTyped DEF HashEvent
  <2>2. CASE Dial(p, FALSE) /\ sched' = Stopped(p)
    <3>1. /\ pvt' \in [Ports -> PvtType] /\ chan' \in [Channels -> ChanType] /\ Calls'
          /\ \A q \in Ports \ {p} : pvt'[q] = pvt[q]
          /\ pvt'[p].state # "DIALING"
      BY <1>0, <2>2, DialCalls
    <3>2. sched' \in [Ports -> SchedType] /\ DialingIsTimed'
      BY <1>0, <1>2, <2>1, <2>2, <3>1, TimedAt
    <3> QED
      BY <1>1, <2>1, <3>1, <3>2
  <2>3. CASE pvt' = pvt /\ sched' = sched /\ chan' = chan
    <3>1. /\ pvt \in [Ports -> PvtType] /\ chan \in [Channels -> ChanType]
      BY <1>0, TypeParts
    <3>2. Calls' /\ DialingIsTimed'
      BY <1>0, <2>1, <2>3 DEF Calls, OwnerLives, Live, RingsForACaller, RingsFor,
                              ChannelsInOrder, DialingIsTimed, Timed
    <3> QED
      BY <1>0, <1>1, <2>1, <2>3, <3>1, <3>2
  <2> QED
    BY <1>5, <2>2, <2>3 DEF HashEvent
<1>6. ASSUME NEW digit \in Digits, DigitEvent(p, digit)
      PROVE  InductiveInvariant'
  <2>1. /\ pvt' \in [Ports -> PvtType] /\ chan' \in [Channels -> ChanType] /\ Calls'
        /\ \A q \in Ports \ {p} : pvt'[q] = pvt[q]
    BY <1>0, <1>6, DigitCalls
  <2>2. /\ events' \in [Ports -> Seq(EventType)] /\ hook' = hook /\ thread' = thread
        /\ (sched' = sched /\ pvt' = pvt) \/ sched' = Restarted(p)
    BY <1>0, <1>6, EventTyped DEF DigitEvent
  <2>3. sched' \in [Ports -> SchedType] /\ DialingIsTimed'
    BY <1>0, <1>2, <2>1, <2>2, TimedKept, TimedAt
  <2> QED
    BY <1>1, <2>1, <2>2, <2>3
<1> QED
  BY <1>3, <1>4, <1>5, <1>6 DEF Monitor

LEMMA SchedulerStep ==
  ASSUME InductiveInvariant, NEW p \in Ports, Scheduler(p), calm' \in BOOLEAN
  PROVE  InductiveInvariant'
<1>0. /\ TypeOK /\ Calls /\ DialingIsTimed /\ pvt[p].timer \in BOOLEAN
      /\ sched \in [Ports -> SchedType] /\ sched[p] \in SchedType
      /\ pvt \in [Ports -> PvtType] /\ chan \in [Channels -> ChanType]
      /\ thread \in ThreadType /\ None \notin Ports /\ Idle.port = None
  BY TypeParts, LantiqAssumption DEF InductiveInvariant, Calls, PvtType, Idle
<1>1. ASSUME events' = events, hook' = hook, thread' \in ThreadType,
             pvt' \in [Ports -> PvtType], chan' \in [Channels -> ChanType], Calls',
             sched' \in [Ports -> SchedType], DialingIsTimed'
      PROVE  InductiveInvariant'
  <2>1. TypeOK'
    BY <1>0, <1>1, TypeParts DEF TypeOK, PvtType, ChanType, SchedType, ThreadType, EventType
  <2> QED
    BY <1>1, <2>1 DEF InductiveInvariant, Calls
<1>2. \A pc \in {"expired", "dialling"} :
         /\ [pc |-> pc, port |-> p] \in ThreadType
         /\ [pc |-> pc, port |-> p].port = p
  BY DEF ThreadType
<1>3. CASE TimerExpires(p)
  <2>1. /\ events' = events /\ hook' = hook /\ pvt' = pvt /\ chan' = chan
        /\ thread = Idle /\ thread' = [pc |-> "expired", port |-> p]
    BY <1>3 DEF TimerExpires
  <2>2. PICK k \in SchedType : sched' = [sched EXCEPT ![p] = k]
    <3>1. [sched[p] EXCEPT !.known = FALSE] \in SchedType
      BY <1>0, SchedRecord
    <3>2. sched[p].orphans > 0 => [sched[p] EXCEPT !.orphans = sched[p].orphans - 1] \in SchedType
      BY <1>0 DEF SchedType
    <3> QED
      BY <1>3, <3>1, <3>2 DEF TimerExpires
  <2>3. sched' \in [Ports -> SchedType] /\ \A q \in Ports \ {p} : sched'[q] = sched[q]
    BY <1>0, <2>2
  <2>4. DialingIsTimed'
    BY <1>0, <1>2, <2>1, <2>3 DEF DialingIsTimed, Timed
  <2>5. Calls'
    BY <1>0, <2>1 DEF Calls, OwnerLives, Live, RingsForACaller, RingsFor, ChannelsInOrder
  <2> QED
    BY <1>0, <1>1, <1>2, <2>1, <2>3, <2>4, <2>5
<1>4. CASE DialTimeout(p)
  <2>1. /\ events' = events /\ hook' = hook /\ thread.port = p
        /\ \/ pvt[p].state # "ONHOOK" /\ thread' = [pc |-> "dialling", port |-> p]
           \/ pvt[p].state = "ONHOOK" /\ thread' = Idle
    BY <1>4 DEF DialTimeout
  <2>2. /\ pvt' \in [Ports -> PvtType] /\ chan' \in [Channels -> ChanType] /\ Calls'
        /\ \A q \in Ports : pvt'[q].state = pvt[q].state
    BY <1>0, <1>4, TimeoutCalls
  <2>3. sched' \in [Ports -> SchedType] /\ \A q \in Ports \ {p} : sched'[q] = sched[q]
    <3>1. [known |-> FALSE, orphans |-> sched[p].orphans + 1] \in SchedType
      BY <1>0 DEF SchedType
    <3>2. \/ sched' = sched
          \/ sched' = [sched EXCEPT ![p] = [known |-> FALSE, orphans |-> sched[p].orphans + 1]]
      BY <1>4 DEF DialTimeout
    <3> QED
      BY <1>0, <3>1, <3>2
  <2>4. DialingIsTimed'
    BY <1>0, <1>2, <2>1, <2>2, <2>3 DEF DialingIsTimed, Timed
  <2> QED
    BY <1>1, <1>2, <2>1, <2>2, <2>3, <2>4 DEF ThreadType
<1>5. CASE DialTimedOut(p)
  <2>1. /\ events' = events /\ hook' = hook /\ thread' = Idle /\ sched' = sched
        /\ thread.port = p /\ Dial(p, pvt[p].timer)
    BY <1>5 DEF DialTimedOut
  <2>2. /\ pvt' \in [Ports -> PvtType] /\ chan' \in [Channels -> ChanType] /\ Calls'
        /\ \A q \in Ports \ {p} : pvt'[q] = pvt[q]
        /\ pvt'[p].state # "DIALING"
    BY <1>0, <2>1, DialCalls
  <2>3. DialingIsTimed'
    BY <1>0, <2>1, <2>2 DEF DialingIsTimed, Timed
  <2> QED
    BY <1>0, <1>1, <2>1, <2>2, <2>3 DEF ThreadType
<1> QED
  BY <1>3, <1>4, <1>5 DEF Scheduler

LEMMA AsteriskStep ==
  ASSUME InductiveInvariant, Asterisk, calm' \in BOOLEAN
  PROVE  InductiveInvariant'
<1>0. /\ TypeOK /\ Calls /\ DialingIsTimed
      /\ pvt \in [Ports -> PvtType] /\ chan \in [Channels -> ChanType]
  BY TypeParts DEF InductiveInvariant, Calls
<1>1. ASSUME hook' = hook, events' = events, sched' = sched, thread' = thread,
             pvt' \in [Ports -> PvtType], chan' \in [Channels -> ChanType], Calls',
             \A q \in Ports : pvt'[q].state = "DIALING" => pvt[q].state = "DIALING"
      PROVE  InductiveInvariant'
  <2>1. TypeOK'
    BY <1>0, <1>1, TypeParts DEF TypeOK, PvtType, ChanType, SchedType, ThreadType, EventType
  <2>2. DialingIsTimed'
    BY <1>0, <1>1, TimedKept
  <2> QED
    BY <1>1, <2>1, <2>2 DEF InductiveInvariant, Calls
<1>2. ASSUME NEW p \in Ports, Request(p)
      PROVE  InductiveInvariant'
  <2>1. hook' = hook /\ events' = events /\ sched' = sched /\ thread' = thread
    BY <1>2 DEF Request
  <2> QED
    BY <1>0, <1>1, <1>2, <2>1, RequestCalls
<1>3. ASSUME NEW c \in Channels, Call(c)
      PROVE  InductiveInvariant'
  <2>1. hook' = hook /\ events' = events /\ sched' = sched /\ thread' = thread
    BY <1>3 DEF Call
  <2> QED
    BY <1>0, <1>1, <1>3, <2>1, CallCalls
<1>4. ASSUME NEW c \in Channels, Answer(c)
      PROVE  InductiveInvariant'
  <2>1. hook' = hook /\ events' = events /\ sched' = sched /\ thread' = thread
    BY <1>4 DEF Answer
  <2> QED
    BY <1>0, <1>1, <1>4, <2>1, AnswerCalls
<1>5. ASSUME NEW c \in Channels, HangUp(c)
      PROVE  InductiveInvariant'
  <2>1. hook' = hook /\ events' = events /\ sched' = sched /\ thread' = thread
    BY <1>5 DEF HangUp
  <2> QED
    BY <1>0, <1>1, <1>5, <2>1, HangUpCalls
<1> QED
  BY <1>2, <1>3, <1>4, <1>5 DEF Asterisk

(* Every step keeps the inductive invariant.                                *)
LEMMA InductiveStep ==
  ASSUME InductiveInvariant, [Next]_vars
  PROVE  InductiveInvariant'
<1>1. calm' \in BOOLEAN
  BY DEF Next, vars, InductiveInvariant, TypeOK
<1>2. ASSUME NEW p \in Ports, FeedFails(p)
      PROVE  InductiveInvariant'
  <2>1. events' \in [Ports -> Seq(EventType)]
    BY <1>2, EventTyped DEF FeedFails, InductiveInvariant
  <2>2. TypeOK'
    BY <1>1, <1>2, <2>1 DEF FeedFails, InductiveInvariant, TypeOK, EventType
  <2> QED
    BY <1>2, <2>2 DEF FeedFails, InductiveInvariant, DialingIsTimed, Timed, OwnerLives, Live,
                      RingsForACaller, RingsFor, ChannelsInOrder
<1>3. CASE UNCHANGED vars
  BY <1>3 DEF vars, driver, InductiveInvariant, TypeOK, DialingIsTimed, Timed, OwnerLives, Live,
              RingsForACaller, RingsFor, ChannelsInOrder
<1> QED
  BY <1>1, <1>2, <1>3, PersonStep, MonitorStep, SchedulerStep, AsteriskStep DEF Next

LEMMA InductiveInit == Init => InductiveInvariant
<1> SUFFICES ASSUME Init
             PROVE  InductiveInvariant
  OBVIOUS
<1>1. << >> \in Seq(Digits) /\ << >> \in Seq(EventType)
  BY EmptySeq
<1>2. \A p \in Ports : pvt[p].state \in {"ONHOOK", "OFFHOOK"} /\ pvt[p].owner = None
  BY DEF Init
<1>3. pvt \in [Ports -> PvtType]
  BY <1>1 DEF Init, PvtType, States
<1>4. \A c \in Channels : chan[c] = Unused /\ Unused \in ChanType
  BY DEF Init, Unused, ChanType
<1>5. sched \in [Ports -> SchedType]
  BY DEF Init, SchedType
<1>6. TypeOK
  BY <1>1, <1>3, <1>4, <1>5, TypeParts DEF Init, ThreadType
<1> QED
  BY <1>2, <1>4, <1>6 DEF InductiveInvariant, DialingIsTimed, OwnerLives, RingsForACaller,
                          ChannelsInOrder, Unused, Live

LEMMA InductiveInvariantHolds == Spec => []InductiveInvariant
  BY InductiveInit, InductiveStep, PTL DEF Spec

-----------------------------------------------------------------------------
(* Every variable keeps to its type.                                        *)
THEOREM TypeCorrect == Spec => []TypeOK
<1>1. InductiveInvariant => TypeOK
  BY DEF InductiveInvariant
<1> QED
  BY <1>1, InductiveInvariantHolds, PTL

(* While a number is being dialled something in the scheduler will end it,  *)
(* however lantiq_event_dial_timeout falls between the other handlers.      *)
THEOREM DialingAlwaysTimed == Spec => []DialingIsTimed
<1>1. InductiveInvariant => DialingIsTimed
  BY DEF InductiveInvariant
<1> QED
  BY <1>1, InductiveInvariantHolds, PTL

(* The channel in pvt->owner, which lantiq_end_call, accept_call and        *)
(* lantiq_end_dialing use, is a live channel of that port.                  *)
THEOREM OwnerAlwaysLives == Spec => []OwnerLives
<1>1. InductiveInvariant => OwnerLives
  BY DEF InductiveInvariant
<1> QED
  BY <1>1, InductiveInvariantHolds, PTL

(* A port rings only while a caller waits whose call nobody has taken.      *)
THEOREM AlwaysRingsForACaller == Spec => []RingsForACaller
<1>1. InductiveInvariant => RingsForACaller
  BY DEF InductiveInvariant
<1> QED
  BY <1>1, InductiveInvariantHolds, PTL
=============================================================================
