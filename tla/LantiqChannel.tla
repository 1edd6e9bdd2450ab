---------------------------- MODULE LantiqChannel ----------------------------
(***************************************************************************)
(* chan_lantiq, the Asterisk driver of the box's telephone ports.  Four    *)
(* parties act on a port: the person at the telephone, whose doings wait   *)
(* as events in the device; the monitor thread, which takes the events and *)
(* changes the port's state; the scheduler thread, which dials when no     *)
(* digit has come for two seconds; and the threads of Asterisk, which ask  *)
(* for a channel, ring, answer and hang up.                                *)
(*                                                                         *)
(* The handlers of the monitor and of Asterisk hold iflock, each to its    *)
(* end, and each is one action.  The monitor fetches an event under one    *)
(* hold and handles it under the next; nobody else takes events, so what   *)
(* another thread does in between might as well come first, and the two    *)
(* are one action.  The handler of the dial timer holds no lock: its entry *)
(* leaves the scheduler, the timer is forgotten and the state looked at,   *)
(* and then, whatever has happened, the number is dialled.                 *)
(*                                                                         *)
(* Left out: voice frames and their statistics, the caller's number, what  *)
(* the person hears (bell and tones, hence ast_lantiq_indicate), requests  *)
(* for a port the box does not have, and the scheduler thread seeing half  *)
(* of what a handler does.                                                 *)
(***************************************************************************)
EXTENDS Naturals, Sequences

CONSTANTS Ports,      \* dev_ctx.channels of them
          Channels,   \* slots for Asterisk's channels
          None,       \* NULL
          Digits,     \* keys of the telephone but '#'
          Hash,       \* '#'
          Extensions, \* numbers the dialplan has
          MaxDigits,  \* bound on the digits waiting to be dialled
          MaxEvents,  \* bound on the events waiting in the device
          MaxOrphans  \* bound on the entries no port knows of any more

ASSUME LantiqAssumption ==
    /\ None \notin Ports \union Channels
    /\ Hash \notin Digits
    /\ Digits \intersect {"on", "off"} = {} /\ Hash \notin {"on", "off"}
    /\ Extensions \subseteq Seq(Digits) \ {<< >>}
    /\ MaxDigits \in Nat /\ MaxEvents \in Nat /\ MaxOrphans \in Nat

VARIABLES
    hook,     \* "on" or "off": the receiver
    events,   \* the device's events for a port, oldest first
    pvt,      \* struct lantiq_pvt
    sched,    \* the scheduler's entries for a port: the one dial_timer names, others
    thread,   \* the scheduler thread: the timeout it is handling
    chan,     \* Asterisk's channels, with the control frames queued for them
    calm      \* (history) nothing has happened but what is expected: Calmly

driver == <<hook, events, pvt, sched, thread, chan>>
vars == <<driver, calm>>

Keys == Digits \union {Hash}
States == {"ONHOOK", "OFFHOOK", "DIALING", "INCALL", "CALL_ENDED", "RINGING"}
Unused == [state |-> "free", port |-> None, queue |-> {}]
OnHook == {"ONHOOK", "RINGING"}
Idle == [pc |-> "idle", port |-> None]

\* The module's type invariant: what each part of the driver and of its surroundings holds.
TypeOK ==
    /\ hook \in [Ports -> {"on", "off"}]
    /\ events \in [Ports -> Seq({"on", "off"} \union Keys)]
    /\ pvt \in [Ports -> [state : States, owner : Channels \union {None},
                          timer : BOOLEAN, dtmfbuf : Seq(Digits)]]
    /\ sched \in [Ports -> [known : BOOLEAN, orphans : Nat]]
    /\ thread \in [pc : {"expired", "dialling"}, port : Ports] \union {Idle}
    /\ chan \in [Channels -> [state : {"free", "down", "busy", "ringing", "ring", "up"},
                              port : Ports \union {None},
                              queue : SUBSET {"answer", "hangup"}]]
    /\ calm \in BOOLEAN

\* load_module asks the device where the receiver is.
Init ==
    /\ hook \in [Ports -> {"on", "off"}]
    /\ events = [p \in Ports |-> << >>]
    /\ pvt = [p \in Ports |-> [state |-> IF hook[p] = "on" THEN "ONHOOK" ELSE "OFFHOOK",
                               owner |-> None, timer |-> FALSE, dtmfbuf |-> << >>]]
    /\ sched = [p \in Ports |-> [known |-> FALSE, orphans |-> 0]]
    /\ thread = Idle
    /\ chan = [c \in Channels |-> Unused]
    /\ calm = TRUE

Live(c) == chan[c].state # "free"
Talking(p) == pvt[p].state = "INCALL"
Of(p) == {c \in Channels : chan[c].port = p}

-----------------------------------------------------------------------------
(* The person at the telephone *)

Happens(p, event) ==
    /\ Len(events[p]) < MaxEvents
    /\ events' = [events EXCEPT ![p] = Append(@, event)]
    /\ UNCHANGED <<pvt, sched, thread, chan>>

LiftOrReplace(p) ==
    /\ hook' = [hook EXCEPT ![p] = IF @ = "on" THEN "off" ELSE "on"]
    /\ Happens(p, hook'[p])

\* MaxDigits bounds what a person presses before it is dialled; the driver checks no
\* such thing, and its buffer of AST_MAX_EXTENSION digits is taken to be longer.
Press(p, key) ==
    /\ hook[p] = "off"
    /\ Len(pvt[p].dtmfbuf) + Len(SelectSeq(events[p], LAMBDA e : e \in Digits))
          < (IF key = Hash THEN MaxDigits + 1 ELSE MaxDigits)
    /\ Happens(p, key)
    /\ UNCHANGED hook

-----------------------------------------------------------------------------
(* What the handlers have in common.  Each gives the new pvt, sched or chan. *)

\* Wrong variants: the owner stays, the bell goes on, or a port that rings is taken for one
\* in a call.
HungUpOwned(p, was) ==
    [was EXCEPT ![p].state = IF @ \in OnHook THEN "ONHOOK" ELSE "CALL_ENDED"]
HungUpRinging(p, was) ==
    [was EXCEPT ![p].state = IF @ \in OnHook THEN @ ELSE "CALL_ENDED", ![p].owner = None]
HungUpEnded(p, was) ==
    [was EXCEPT ![p].state = IF @ = "ONHOOK" THEN @ ELSE "CALL_ENDED", ![p].owner = None]

\* ast_lantiq_hangup, with which every channel ends: a port that rings is quiet again,
\* any other that is not on hook has the end of a call; and the port has no owner,
\* whichever of its channels has ended.
HungUp(p, was) ==
    [was EXCEPT ![p].state = IF @ \in OnHook THEN "ONHOOK" ELSE "CALL_ENDED",
                ![p].owner = None]

\* lantiq_dial: a number in the dialplan gets a channel that owns the port, and a thread
\* for it; if there is none to be had the channel is hung up at once.  Another number,
\* the empty one for instance, gets the busy tone, and the owner stays.
Dial(p, timer) ==
    LET After(state, owner) == [state |-> state, owner |-> owner,
                                timer |-> timer, dtmfbuf |-> << >>]
    IN
    \/ /\ pvt[p].dtmfbuf \in Extensions
       /\ \E c \in Channels :
             /\ ~Live(c)
             /\ chan' = [chan EXCEPT ![c] = [state |-> "ring", port |-> p, queue |-> {}]]
             /\ pvt' = [pvt EXCEPT ![p] = After("INCALL", c)]
    \/ /\ pvt' = [pvt EXCEPT ![p] = After("CALL_ENDED",
                      IF pvt[p].dtmfbuf \in Extensions THEN None ELSE pvt[p].owner)]
       /\ UNCHANGED chan

\* Wrong variant: a timer that is set is deleted and not set again.
RestartedOnce(p) == [sched EXCEPT ![p].known = ~pvt[p].timer]

\* ast_sched_thread_del on dial_timer, which finds nothing if the entry is being handled;
\* and a new entry in place of the one dial_timer names.
Stopped(p) == [sched EXCEPT ![p].known = FALSE]
Restarted(p) == [sched EXCEPT ![p].known = TRUE]

-----------------------------------------------------------------------------
(* The monitor thread: lantiq_dev_event_handler *)

Event(p, event) ==
    /\ events[p] # << >> /\ Head(events[p]) = event
    /\ events' = [events EXCEPT ![p] = Tail(@)]

\* Wrong variant: Asterisk is not told.
EndCallSilent(p) == chan

\* lantiq_end_call: Asterisk is only asked to end it.
EndCall(p) == IF Talking(p) /\ pvt[p].owner # None
              THEN [chan EXCEPT ![pvt[p].owner].queue = @ \union {"hangup"}]
              ELSE chan

\* lantiq_dev_event_hook, the receiver put down: dialling is given up, with the timer and
\* with a channel that owns the port meanwhile (lantiq_end_dialing), and a call is ended.
\* The digits stay in the buffer.
OnHookEvent(p) ==
    LET dialing == pvt[p].state = "DIALING"
        drop == dialing /\ pvt[p].owner # None
    IN
    /\ Event(p, "on")
    /\ pvt' = [pvt EXCEPT ![p].state = "ONHOOK",
                          ![p].timer = IF dialing THEN FALSE ELSE @,
                          ![p].owner = IF drop THEN None ELSE @]
    /\ sched' = IF dialing THEN Stopped(p) ELSE sched
    /\ chan' = IF drop THEN [chan EXCEPT ![pvt[p].owner] = Unused] ELSE EndCall(p)
    /\ UNCHANGED <<hook, thread>>

\* The receiver lifted: a ringing port takes the call if its owner rings (accept_call),
\* any other gives the dial tone.
OffHookEvent(p) ==
    LET owner == pvt[p].owner
        accepts == owner # None /\ chan[owner].state = "ringing"
    IN
    /\ Event(p, "off")
    /\ IF pvt[p].state = "RINGING"
       THEN /\ pvt' = [pvt EXCEPT ![p].state = IF accepts THEN "INCALL" ELSE @]
            /\ chan' = IF accepts
                       THEN [chan EXCEPT ![owner].queue = @ \union {"answer"}] ELSE chan
       ELSE /\ pvt' = [pvt EXCEPT ![p].state = "OFFHOOK"]
            /\ UNCHANGED chan
    /\ UNCHANGED <<hook, sched, thread>>

\* The receiver is lifted and the device refuses to feed the line: the port stays as it is.
FeedFails(p) ==
    /\ Event(p, "off")
    /\ UNCHANGED <<hook, pvt, sched, thread, chan>>

\* lantiq_dev_event_digit: a digit is kept and the timer begins anew; in a call it is
\* handed on, and after one it means nothing.
DigitEvent(p, digit) ==
    /\ Event(p, digit)
    /\ IF pvt[p].state \in {"OFFHOOK", "DIALING"}
       THEN /\ sched[p].orphans < MaxOrphans
            /\ pvt' = [pvt EXCEPT ![p].state = "DIALING", ![p].timer = TRUE,
                                  ![p].dtmfbuf = Append(@, digit)]
            /\ sched' = Restarted(p)
       ELSE UNCHANGED <<pvt, sched>>
    /\ UNCHANGED <<hook, thread, chan>>

\* Wrong variant: '#' is kept like a digit.
HashEventKept(p) ==
    /\ Event(p, Hash)
    /\ pvt' = [pvt EXCEPT ![p].dtmfbuf = IF pvt[p].state = "DIALING"
                                         THEN Append(@, Hash) ELSE @]
    /\ UNCHANGED <<hook, sched, thread, chan>>

\* '#' dials at once, and the timer is off.
HashEvent(p) ==
    /\ Event(p, Hash)
    /\ IF pvt[p].state \in {"OFFHOOK", "DIALING"}
       THEN /\ Dial(p, FALSE)
            /\ sched' = Stopped(p)
       ELSE UNCHANGED <<pvt, sched, chan>>
    /\ UNCHANGED <<hook, thread>>

-----------------------------------------------------------------------------
(* The scheduler thread: lantiq_event_dial_timeout *)

\* An entry's time has come: it is out of the scheduler when its handler begins.
TimerExpires(p) ==
    /\ thread = Idle
    /\ \/ sched[p].known /\ sched' = [sched EXCEPT ![p].known = FALSE]
       \/ sched[p].orphans > 0 /\ sched' = [sched EXCEPT ![p].orphans = @ - 1]
    /\ thread' = [pc |-> "expired", port |-> p]
    /\ UNCHANGED <<hook, events, pvt, chan>>

\* Wrong variant: the condition as it reads.
DialTimeoutOnHook(p) ==
    /\ thread = [pc |-> "expired", port |-> p]
    /\ pvt' = [pvt EXCEPT ![p].timer = FALSE]
    /\ thread' = IF pvt[p].state = "ONHOOK" THEN [pc |-> "dialling", port |-> p] ELSE Idle
    /\ UNCHANGED <<hook, events, sched, chan>>

\* dial_timer = 0 forgets an entry that was made in the meantime.
\* "! state == ONHOOK" is (!state) == ONHOOK: any state but ONHOOK, which is 0.
DialTimeout(p) ==
    /\ thread = [pc |-> "expired", port |-> p]
    /\ pvt' = [pvt EXCEPT ![p].timer = FALSE]
    /\ sched' = IF sched[p].known
                THEN [sched EXCEPT ![p] = [known |-> FALSE, orphans |-> @.orphans + 1]]
                ELSE sched
    /\ thread' = IF pvt[p].state # "ONHOOK" THEN [pc |-> "dialling", port |-> p] ELSE Idle
    /\ UNCHANGED <<hook, events, chan>>

DialTimedOut(p) ==
    /\ thread = [pc |-> "dialling", port |-> p]
    /\ thread' = Idle
    /\ Dial(p, pvt[p].timer)
    /\ UNCHANGED <<hook, events, sched>>

-----------------------------------------------------------------------------
(* Asterisk *)

\* ast_lantiq_requester: the new channel owns the port, whoever owned it before.
Request(p) ==
    /\ \E c \in Channels :
          /\ ~Live(c)
          /\ chan' = [chan EXCEPT ![c] = [state |-> "down", port |-> p, queue |-> {}]]
          /\ pvt' = [pvt EXCEPT ![p].owner = c]
    /\ UNCHANGED <<hook, events, sched, thread>>

\* ast_lantiq_call: the bell rings if the receiver is down, else the port is busy.
Call(c) ==
    LET p == chan[c].port IN
    /\ chan[c].state = "down"
    /\ IF pvt[p].state = "ONHOOK"
       THEN /\ chan' = [chan EXCEPT ![c].state = "ringing"]
            /\ pvt' = [pvt EXCEPT ![p].state = "RINGING"]
       ELSE /\ chan' = [chan EXCEPT ![c].state = "busy"]
            /\ UNCHANGED pvt
    /\ UNCHANGED <<hook, events, sched, thread>>

\* ANSWER, queued by accept_call on one side or sent by the other side, is taken.
Answer(c) ==
    /\ chan[c].state = "ring" \/ "answer" \in chan[c].queue
    /\ chan' = [chan EXCEPT ![c].state = "up", ![c].queue = @ \ {"answer"}]
    /\ UNCHANGED <<hook, events, pvt, sched, thread>>

\* ast_lantiq_hangup, at any time: the other side ends the call or gives up, or
\* the channel has been asked to end, or the port is busy.
HangUp(c) ==
    /\ Live(c)
    /\ pvt' = HungUp(chan[c].port, pvt)
    /\ chan' = [chan EXCEPT ![c] = Unused]
    /\ UNCHANGED <<hook, events, sched, thread>>

-----------------------------------------------------------------------------
(* The expected course of things, which no lock keeps.                     *)

\* Asterisk has done what it is about to do with the port's channels.  Its threads
\* take milliseconds, a person tenths of a second.
Settled(p) ==
    \A c \in Of(p) : chan[c].state \notin {"down", "busy"} /\ "hangup" \notin chan[c].queue

\* Nobody asks for a port that is in use.
Free(p) == pvt[p].owner = None /\ pvt[p].state \in {"ONHOOK", "CALL_ENDED"}

Calmly ==
    /\ \A p \in Ports : Len(events'[p]) < Len(events[p]) => Settled(p)
    /\ \A p \in Ports : \A c \in Of(p)' \ Of(p) : chan'[c].state = "down" => Free(p)
    /\ thread # Idle => thread' # thread \/ UNCHANGED <<pvt, chan>>

-----------------------------------------------------------------------------
Person(p) == LiftOrReplace(p) \/ \E key \in Keys : Press(p, key)

Monitor(p) == OnHookEvent(p) \/ OffHookEvent(p) \/ HashEvent(p)
              \/ \E digit \in Digits : DigitEvent(p, digit)

Scheduler(p) == TimerExpires(p) \/ DialTimeout(p) \/ DialTimedOut(p)

Asterisk == \/ \E p \in Ports : Request(p)
            \/ \E c \in Channels : Call(c) \/ Answer(c) \/ HangUp(c)

Next ==
    \/ /\ Asterisk \/ \E p \in Ports : Person(p) \/ Monitor(p) \/ Scheduler(p)
       /\ calm' = (calm /\ Calmly)
    \/ /\ \E p \in Ports : FeedFails(p)
       /\ calm' = FALSE

Spec == Init /\ [][Next]_vars

\* Threads run, the scheduler's entries come due, and Asterisk calls, and ends what it has
\* been asked to end.  People do as they please, and so do callers.
Due(c) == "hangup" \in chan[c].queue \/ chan[c].state = "busy"
FairSpec ==
    /\ Spec
    /\ \A p \in Ports : WF_driver(Monitor(p) \/ FeedFails(p)) /\ SF_driver(TimerExpires(p))
                        /\ WF_driver(DialTimeout(p) \/ DialTimedOut(p))
    /\ \A c \in Channels : WF_driver(Call(c)) /\ WF_driver(Due(c) /\ HangUp(c))
-----------------------------------------------------------------------------
(* Properties *)

\* While a number is being dialled an entry in the scheduler, or the timeout that is being
\* handled, will end it: whatever hangs up, asks for the port or races with the timer,
\* nobody is left waiting at a silent line.
Timed(p) == sched[p].known \/ sched[p].orphans > 0 \/ thread.port = p
DialingIsTimed == \A p \in Ports : pvt[p].state = "DIALING" => Timed(p)

\* The channel a port takes for its owner, which the monitor thread asks, answers and hangs
\* up, is a channel of that port that has not ended, however many have been asked for.
OwnerLives ==
    \A p \in Ports : pvt[p].owner # None =>
        Live(pvt[p].owner) /\ chan[pvt[p].owner].port = p

\* A port rings only while a caller waits for it whose call nobody has taken yet.
RingsFor(p, c) ==
    chan[c].port = p /\ chan[c].state = "ringing" /\ "answer" \notin chan[c].queue
RingsForACaller ==
    \A p \in Ports : pvt[p].state = "RINGING" => \E c \in Channels : RingsFor(p, c)

\* What these rest on: a channel that lives has a port, and only one that rings is answered.
ChannelsInOrder ==
    \A c \in Channels : /\ Live(c) => chan[c].port # None
                        /\ "answer" \in chan[c].queue => chan[c].state = "ringing"
InductiveInvariant ==
    /\ TypeOK
    /\ DialingIsTimed
    /\ OwnerLives
    /\ RingsForACaller
    /\ ChannelsInOrder

\* As long as nothing unexpected happens, what the driver takes the receiver for, with the
\* events still to come, is where the receiver is: neither calls nor their ends make it
\* lose track.
SeenHook(p) == IF pvt[p].state \in OnHook THEN "on" ELSE "off"
HookEvents(p) == {i \in 1..Len(events[p]) : events[p][i] \in {"on", "off"}}
KnowsTheHook ==
    calm => \A p \in Ports :
        /\ HookEvents(p) = {} => SeenHook(p) = hook[p]
        /\ \A i \in HookEvents(p) :
              /\ (\A j \in HookEvents(p) : i <= j) => events[p][i] # SeenHook(p)
              /\ (\A j \in HookEvents(p) : j <= i) => events[p][i] = hook[p]

\* Dialling comes to an end, whatever has been pressed and whatever else happens.
DialingEnds == \A p \in Ports : pvt[p].state = "DIALING" ~> pvt[p].state # "DIALING"

\* If nothing unexpected happens, once the receiver stays down Asterisk's side of the call
\* ends too.
CallsEnd ==
    \A p \in Ports :
        []calm /\ <>[](hook[p] = "on")
            => <>[](\A c \in Of(p) : chan[c].state \in {"down", "ringing"})

\* "buffer holding dialed digits": before the first digit of a number it is empty.
EmptyAtDialTone == \A p \in Ports : pvt[p].state = "OFFHOOK" => pvt[p].dtmfbuf = << >>

\* "we were hung up, play busy tone": a port in a call has the end of it only when no
\* channel of the port is up any more.
BusyMeansHungUp ==
    [][\A p \in Ports :
         Talking(p) /\ pvt'[p].state = "CALL_ENDED" =>
            \A c \in Of(p) : chan[c].state = "up" => chan'[c].state = "free"]_vars
=============================================================================
