-------------------------- MODULE DdnsUpdaterProofs --------------------------
(***************************************************************************)
(* For any number of processes and addresses and any behaviour of the      *)
(* network: however updaters are started the domain is never abandoned, and *)
(* when they are started one after the other there is one at a time.       *)
(* (Started together they may both go on: TLC finds how.)                  *)
(***************************************************************************)
EXTENDS DdnsUpdater, TLAPS

(* The end of a process keeps the types.                                    *)
LEMMA EndsTyped ==
  ASSUME TypeOK, NEW p \in Procs, NEW q \in Maybe(Procs), NEW l, 
         l \in {"gone"} \union Starting \union Looping, Ends(q, p, l)
  PROVE  TypeOK'
<1> USE DdnsAssumption DEF TypeOK, Maybe, Starting, Looping
<1>1. /\ pc' \in [Procs -> {"gone"} \union Starting \union Looping]
      /\ old' \in [Procs -> Maybe(Procs)] /\ pidFile' \in Maybe(Procs)
  BY DEF Ends
<1>2. /\ registered' \in [Procs -> Maybe(Ips)] /\ current' \in [Procs -> Maybe(Ips)]
      /\ age' \in [Procs -> Ages] /\ nap' \in [Procs -> 0..CheckInterval]
  BY DEF Ends, Ages
<1> QED
  BY <1>1, <1>2 DEF Ends

(* Every step keeps the types, serial or not.                               *)
LEMMA TypeStep ==
  ASSUME TypeOK, [Next]_vars
  PROVE  TypeOK'
<1> USE DdnsAssumption DEF TypeOK, Maybe, Starting, Looping
<1>1. ASSUME NEW p \in Procs, NEW ip \in Ips, IfUp(p, ip)
      PROVE  TypeOK'
  BY <1>1 DEF IfUp, Goto, fileVars
<1>2. ASSUME NEW p \in Procs, ReadPid(p)
      PROVE  TypeOK'
  BY <1>2 DEF ReadPid, Goto, fileVars
<1>3. ASSUME NEW p \in Procs, KillOld(p)
      PROVE  TypeOK'
  BY <1>3, EndsTyped DEF KillOld
<1>4. ASSUME NEW p \in Procs, ClaimPid(p)
      PROVE  TypeOK'
  BY <1>4 DEF ClaimPid, Goto
<1>5. ASSUME NEW p \in Procs, LoadLastUpdate(p)
      PROVE  TypeOK'
  BY <1>5 DEF LoadLastUpdate, Goto, fileVars, Ages
<1>14. ASSUME NEW p \in Procs, LoadFails(p)
       PROVE  TypeOK'
  BY <1>14, EndsTyped DEF LoadFails
<1>6. ASSUME NEW p \in Procs, Lookup(p)
      PROVE  TypeOK'
  BY <1>6 DEF Lookup, Goto, fileVars
<1>7. ASSUME NEW p \in Procs, GetCurrentIp(p) \/ Decide(p) \/ SendUpdate(p)
      PROVE  TypeOK'
  BY <1>7 DEF GetCurrentIp, Decide, SendUpdate, Goto, fileVars
<1>8. ASSUME NEW p \in Procs, Record(p) \/ WriteTime(p)
      PROVE  TypeOK'
  BY <1>8 DEF Record, WriteTime, Goto, Ages
<1>9. ASSUME NEW p \in Procs, Wake(p)
      PROVE  TypeOK'
  BY <1>9 DEF Wake, Goto, fileVars
<1>10. ASSUME NEW p \in Procs, Answer(p)
       PROVE  TypeOK'
  BY <1>10 DEF Answer, Goto, fileVars
<1>11. CASE IfDown \/ Outage \/ \E ip \in Ips : AddressChanges(ip)
  BY <1>11 DEF IfDown, Outage, AddressChanges, procVars, fileVars
<1>12. CASE Tick
  <2>1. \A n \in Ages : Older(n) \in Ages
    BY DEF Older, Ages
  <2>2. age' \in [Procs -> Ages] /\ nap' \in [Procs -> 0..CheckInterval]
    BY <1>12, <2>1 DEF Tick
  <2>3. fileAge' \in Maybe(Ages \union {Cut})
    BY <1>12, <2>1 DEF Tick
  <2> QED
    BY <1>12, <2>2, <2>3 DEF Tick
<1>13. CASE UNCHANGED vars
  BY <1>13 DEF vars, procVars, fileVars
<1> QED
  BY <1>1, <1>2, <1>3, <1>4, <1>5, <1>6, <1>7, <1>8, <1>9, <1>10, <1>11, <1>12, <1>13, <1>14
     DEF Next, UpdaterStep

(* The types hold at the boot.                                              *)
LEMMA InitType == Init => TypeOK
<1> SUFFICES ASSUME Init PROVE TypeOK
  OBVIOUS
<1>1. 0 \in Ages /\ 0 \in 0..CheckInterval
  BY DdnsAssumption DEF Ages
<1>2. /\ age \in [Procs -> Ages] /\ nap \in [Procs -> 0..CheckInterval]
  BY <1>1 DEF Init
<1>3. /\ old \in [Procs -> Maybe(Procs)]
      /\ registered \in [Procs -> Maybe(Ips)] /\ current \in [Procs -> Maybe(Ips)]
      /\ request \in [Procs -> Maybe(Ips \union {Empty})]
      /\ pc \in [Procs -> {"gone"} \union Starting \union Looping]
  BY DEF Init, Maybe
<1> QED
  BY <1>2, <1>3 DEF Init, TypeOK, Maybe

(* Every variable keeps to its type.                                        *)
THEOREM TypeCorrect == Spec => []TypeOK
  BY InitType, TypeStep, PTL DEF Spec

-----------------------------------------------------------------------------
(* Steps of an updater in its loop, and of the world around it, leave the   *)
(* pid file and the places of all updaters in the protocol alone.           *)
LEMMA LoopStep ==
  ASSUME InductiveInvariant, UNCHANGED <<old, runDir, pidFile>>,
         NEW p \in Procs, NEW l \in Looping, pc[p] \in Looping,
         pc' = [pc EXCEPT ![p] = l]
  PROVE  PidFileNamesUpdater' /\ OneUpdater'
<1>1. \A q \in Procs : /\ pc'[q] \in Looping <=> pc[q] \in Looping
                       /\ q # p => pc'[q] = pc[q]
  BY DEF InductiveInvariant, TypeOK
<1>2. Looping \intersect Starting = {} /\ {"kill", "claim"} \subseteq Starting
  BY DEF Looping, Starting
<1> QED
  BY <1>1, <1>2 DEF InductiveInvariant, PidFileNamesUpdater, OneUpdater

(* Each step of a serial system keeps the pid file naming the updater.      *)
LEMMA SerialStep ==
  ASSUME InductiveInvariant, [Next /\ InTurn']_vars
  PROVE  InTurn' /\ PidFileNamesUpdater' /\ OneUpdater'
<1> USE DdnsNone DEF InductiveInvariant, InTurn, Starting, Looping
<1> SUFFICES PidFileNamesUpdater' /\ OneUpdater'
  BY DEF vars, procVars
<1>1. ASSUME NEW p \in Procs, NEW ip \in Ips, IfUp(p, ip)
      PROVE  PidFileNamesUpdater' /\ OneUpdater'
  BY <1>1 DEF IfUp, Goto, fileVars, TypeOK, PidFileNamesUpdater, OneUpdater
<1>2. ASSUME NEW p \in Procs, ReadPid(p)
      PROVE  PidFileNamesUpdater' /\ OneUpdater'
  <2>1. /\ \A q \in Procs : q # p => pc[q] \notin Starting /\ pc'[q] = pc[q]
        /\ pc'[p] = "kill" => old'[p] = pidFile
        /\ pc'[p] \in {"kill", "claim"}
        /\ pc'[p] = "claim" => ~runDir \/ pidFile = None
        /\ UNCHANGED <<runDir, pidFile>>
    BY <1>2 DEF ReadPid, Goto, fileVars, TypeOK
  <2> QED
    BY <2>1 DEF PidFileNamesUpdater, OneUpdater
<1>3. ASSUME NEW p \in Procs, KillOld(p)
      PROVE  PidFileNamesUpdater' /\ OneUpdater'
  <2>1. /\ \A q \in Procs : q # p => pc[q] \notin Starting
        /\ pc'[p] \in {"claim", "gone"}
        /\ \A q \in Procs : q # p => pc'[q] = IF q = old[p] THEN "gone" ELSE pc[q]
        /\ old[p] = pidFile
    BY <1>3 DEF KillOld, Ends, TypeOK, PidFileNamesUpdater
  <2>2. \A q \in Procs : pc'[q] \notin Looping
    BY <2>1 DEF PidFileNamesUpdater
  <2> QED
    BY <2>1, <2>2 DEF PidFileNamesUpdater, OneUpdater
<1>4. ASSUME NEW p \in Procs, ClaimPid(p)
      PROVE  PidFileNamesUpdater' /\ OneUpdater'
  <2>1. /\ \A q \in Procs : q # p => /\ pc[q] \notin Starting \union Looping
                                     /\ pc'[q] = pc[q]
        /\ pc'[p] = "load" /\ runDir' /\ pidFile' = p
    BY <1>4 DEF ClaimPid, Goto, TypeOK, PidFileNamesUpdater
  <2> QED
    BY <2>1 DEF PidFileNamesUpdater, OneUpdater
<1>5. ASSUME NEW p \in Procs,
             \/ LoadLastUpdate(p) \/ Lookup(p) \/ GetCurrentIp(p) \/ Decide(p)
             \/ SendUpdate(p) \/ Record(p) \/ WriteTime(p) \/ Wake(p)
      PROVE  PidFileNamesUpdater' /\ OneUpdater'
  <2>1. PICK l \in Looping : pc' = [pc EXCEPT ![p] = l]
    BY <1>5 DEF LoadLastUpdate, Lookup, GetCurrentIp, Decide, SendUpdate, Record, WriteTime,
       Wake, Goto
  <2>2. pc[p] \in Looping /\ UNCHANGED <<old, runDir, pidFile>>
    BY <1>5 DEF LoadLastUpdate, Lookup, GetCurrentIp, Decide, SendUpdate, Record, WriteTime,
       Wake, fileVars
  <2> QED
    BY <2>1, <2>2, LoopStep
<1>6. ASSUME NEW p \in Procs, Answer(p)
      PROVE  PidFileNamesUpdater' /\ OneUpdater'
  <2>1. CASE pc[p] = "wget"
    <3>1. pc' = [pc EXCEPT ![p] = "record"] /\ UNCHANGED <<old, runDir, pidFile>>
      BY <1>6, <2>1 DEF Answer, Goto, fileVars
    <3> QED
      BY <2>1, <3>1, LoopStep
  <2>2. CASE UNCHANGED pc
    BY <1>6, <2>2 DEF Answer, fileVars, PidFileNamesUpdater, OneUpdater
  <2> QED
    BY <1>6, <2>1, <2>2 DEF Answer
<1>7. ASSUME UNCHANGED <<pc, old, runDir, pidFile>>
      PROVE  PidFileNamesUpdater' /\ OneUpdater'
  BY <1>7 DEF PidFileNamesUpdater, OneUpdater
<1>8. ASSUME NEW p \in Procs, LoadFails(p)
      PROVE  PidFileNamesUpdater' /\ OneUpdater'
  <2>1. pc[p] = "load" /\ pc'[p] = "gone"
    BY <1>8 DEF LoadFails, Ends, TypeOK
  <2>2. \A q \in Procs : q # p => pc'[q] = pc[q]
    BY <1>8 DEF LoadFails, Ends, TypeOK
  <2>3. \A q \in Procs : pc'[q] \notin Looping
    BY <2>1, <2>2 DEF OneUpdater
  <2>4. pidFile = p /\ pidFile' = None
    BY <1>8, <2>1 DEF LoadFails, Ends, PidFileNamesUpdater
  <2>5. \A q \in Procs : q # p /\ pc[q] = "kill" => old[q] = p /\ old'[q] = None
    BY <1>8, <2>4 DEF LoadFails, Ends, PidFileNamesUpdater
  <2> QED
    BY <2>1, <2>2, <2>3, <2>4, <2>5 DEF PidFileNamesUpdater, OneUpdater
<1>9. CASE \E ip \in Ips : AddressChanges(ip)
  BY <1>7, <1>9 DEF AddressChanges, procVars, fileVars
<1> QED
  BY <1>1, <1>2, <1>3, <1>4, <1>5, <1>6, <1>7, <1>8, <1>9
     DEF Next, UpdaterStep, IfDown, Outage, Tick, vars, procVars, fileVars

(* What the serial system keeps, all together.                              *)
LEMMA SerialInvariant == SerialSpec => []InductiveInvariant
<1>1. Init => InductiveInvariant
  BY InitType DEF Init, InductiveInvariant, InTurn, PidFileNamesUpdater, OneUpdater,
     Starting, Looping
<1>2. InductiveInvariant /\ [Next /\ InTurn']_vars => InductiveInvariant'
  BY TypeStep, SerialStep DEF InductiveInvariant
<1> QED
  BY <1>1, <1>2, PTL DEF SerialSpec

(* Started one after the other, at most one updater runs its loop (lines    *)
(* 209-228).                                                                *)
THEOREM SerialOneUpdater == SerialSpec => []OneUpdater
<1>1. InductiveInvariant => OneUpdater
  BY DEF InductiveInvariant
<1> QED
  BY <1>1, SerialInvariant, PTL

(* And the pid file always names the updater that runs, so the next one     *)
(* finds it there to kill (lines 209-221).                                  *)
THEOREM PidFileAlwaysNamesUpdater == SerialSpec => []PidFileNamesUpdater
<1>1. InductiveInvariant => PidFileNamesUpdater
  BY DEF InductiveInvariant
<1> QED
  BY <1>1, SerialInvariant, PTL

-----------------------------------------------------------------------------
(* However they are started, no process takes itself for its predecessor,   *)
(* and so the one that kills is there to go on.                             *)
LEMMA AlwaysStep ==
  ASSUME AlwaysInvariant, [Next]_vars
  PROVE  NotItsOwnPredecessor' /\ NeverAbandoned'
<1> USE DdnsNone DEF AlwaysInvariant, TypeOK, Maybe, Starting, Looping
<1>1. ASSUME NEW p \in Procs, NEW ip \in Ips, IfUp(p, ip)
      PROVE  NotItsOwnPredecessor' /\ NeverAbandoned'
  BY <1>1 DEF IfUp, Goto, fileVars, NotItsOwnPredecessor, NeverAbandoned
<1>2. ASSUME NEW p \in Procs, ReadPid(p)
      PROVE  NotItsOwnPredecessor' /\ NeverAbandoned'
  BY <1>2 DEF ReadPid, Goto, fileVars, NotItsOwnPredecessor, NeverAbandoned
<1>3. ASSUME NEW p \in Procs, KillOld(p)
      PROVE  NotItsOwnPredecessor' /\ NeverAbandoned'
  <2>1. old[p] # p /\ pc'[p] = "claim"
    BY <1>3 DEF KillOld, Ends, NotItsOwnPredecessor
  <2>2. NotItsOwnPredecessor'
    BY <1>3 DEF KillOld, Ends, NotItsOwnPredecessor
  <2> QED
    BY <2>1, <2>2 DEF NeverAbandoned
<1>4. ASSUME NEW p \in Procs, ClaimPid(p)
      PROVE  NotItsOwnPredecessor' /\ NeverAbandoned'
  BY <1>4 DEF ClaimPid, Goto, NotItsOwnPredecessor, NeverAbandoned
<1>5. ASSUME NEW p \in Procs, LoadFails(p)
      PROVE  NotItsOwnPredecessor' /\ NeverAbandoned'
  BY <1>5 DEF LoadFails, Ends, NotItsOwnPredecessor, NeverAbandoned
<1>6. ASSUME NEW p \in Procs,
             \/ LoadLastUpdate(p) \/ Lookup(p) \/ GetCurrentIp(p) \/ Decide(p)
             \/ SendUpdate(p) \/ Record(p) \/ WriteTime(p) \/ Wake(p) \/ Answer(p)
      PROVE  NotItsOwnPredecessor' /\ NeverAbandoned'
  <2>1. \/ UNCHANGED <<pc, fileAge>>
        \/ \E l \in Looping : pc[p] \in Looping /\ pc' = [pc EXCEPT ![p] = l]
    BY <1>6 DEF LoadLastUpdate, Lookup, GetCurrentIp, Decide, SendUpdate, Record, WriteTime,
       Wake, Answer, Goto, fileVars
  <2>2. UNCHANGED <<old, runDir, pidFile>>
    BY <1>6 DEF LoadLastUpdate, Lookup, GetCurrentIp, Decide, SendUpdate, Record, WriteTime,
       Wake, Answer, fileVars
  <2> QED
    BY <2>1, <2>2 DEF NotItsOwnPredecessor, NeverAbandoned
<1>7. CASE \/ IfDown \/ Outage \/ UNCHANGED vars \/ \E ip \in Ips : AddressChanges(ip)
  BY <1>7 DEF IfDown, Outage, AddressChanges, vars, procVars, fileVars,
     NotItsOwnPredecessor, NeverAbandoned
<1>8. CASE Tick
  <2>1. fileAge = Cut => fileAge' = Cut
    BY <1>8, DdnsAssumption DEF Tick, Ages, Cut
  <2> QED
    BY <1>8, <2>1 DEF Tick, NotItsOwnPredecessor, NeverAbandoned
<1> QED
  BY <1>1, <1>2, <1>3, <1>4, <1>5, <1>6, <1>7, <1>8 DEF Next, UpdaterStep

(* However many ifups come together, from the first one on the domain has   *)
(* a process that looks after it or is about to, but for a time of the last *)
(* update that was cut off (lines 209-228, 306).                            *)
THEOREM DomainNeverAbandoned == Spec => []NeverAbandoned
<1>1. Init => AlwaysInvariant
  BY InitType, DdnsNone DEF Init, AlwaysInvariant, NotItsOwnPredecessor, NeverAbandoned
<1>2. AlwaysInvariant /\ [Next]_vars => AlwaysInvariant'
  BY TypeStep, AlwaysStep DEF AlwaysInvariant
<1>3. AlwaysInvariant => NeverAbandoned
  BY DEF AlwaysInvariant
<1> QED
  BY <1>1, <1>2, <1>3, PTL DEF Spec
=============================================================================
