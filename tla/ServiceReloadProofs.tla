-------------------------- MODULE ServiceReloadProofs -------------------------
(***************************************************************************)
(* Theorems about ServiceReload, for any services, scripts, runs and       *)
(* processes: the types always, and the rest when runs by hand are in turn. *)
(***************************************************************************)
EXTENDS ServiceReload, TLAPS

LEMMA TypeInit == Init => TypeOK
<1> SUFFICES ASSUME Init PROVE TypeOK
  OBVIOUS
<1>1. Idle \in RunType
  BY DEF Idle, RunType
<1> QED
  BY <1>1 DEF Init, TypeOK

LEMMA TypeStep == TypeOK /\ [Next]_vars => TypeOK'
<1> SUFFICES ASSUME TypeOK, [Next]_vars PROVE TypeOK'
  OBVIOUS
<1> USE DEF TypeOK
<1>1. ASSUME NEW r \in Reloads, Save(r) PROVE TypeOK'
  <2>1. PICK script \in Scripts, s \in Services :
            /\ enabled' = [enabled EXCEPT ![s] = ~@]
            /\ unasked' = unasked \union {s}
            /\ \/ run' = [run EXCEPT ![r].pc = "xhr", ![r].todo = script]
               \/ run' = run
    BY <1>1, ReloadAssumption DEF Save
  <2>2. script \subseteq Services
    BY ReloadAssumption
  <2>3. enabled' \in [Services -> BOOLEAN]
    BY <2>1
  <2>4. run' \in [Runs -> RunType]
    <3>1. [run[r] EXCEPT !.pc = "xhr", !.todo = script] \in RunType
      BY <2>2 DEF RunType, Runs
    <3>2. \/ run' = [run EXCEPT ![r] = [run[r] EXCEPT !.pc = "xhr", !.todo = script]]
          \/ run' = run
      BY <2>1 DEF Runs
    <3> QED
      BY <3>1, <3>2
  <2> QED
    BY <1>1, <2>1, <2>3, <2>4 DEF Save
<1>11. ASSUME NEW r \in Reloads, Trigger(r) PROVE TypeOK'
  <2>1. run' \in [Runs -> RunType]
    BY <1>11 DEF Trigger, RunType
  <2> QED
    BY <1>11, <2>1 DEF Trigger
<1>12. ASSUME NEW r \in Reloads, LoseRequest(r) PROVE TypeOK'
  <2>1. Idle \in RunType
    BY DEF Idle, RunType
  <2> QED
    BY <1>12, <2>1 DEF LoseRequest
<1>2. ASSUME NEW r \in Reloads, Lock(r) PROVE TypeOK'
  <2>1. run' \in [Runs -> RunType]
    BY <1>2 DEF Lock, RunType
  <2> QED
    BY <1>2, <2>1 DEF Lock
<1>3. ASSUME NEW r \in ByHand, StartByHand(r) PROVE TypeOK'
  <2>1. PICK script \in Scripts :
            /\ run' = [run EXCEPT ![r].pc = "next", ![r].todo = script]
            /\ unasked' = unasked \ script
    BY <1>3 DEF StartByHand
  <2>2. script \subseteq Services
    BY ReloadAssumption
  <2>3. run' \in [Runs -> RunType]
    <3>1. [run[r] EXCEPT !.pc = "next", !.todo = script] \in RunType
      BY <2>2 DEF RunType, Runs
    <3>2. run' = [run EXCEPT ![r] = [run[r] EXCEPT !.pc = "next", !.todo = script]]
      BY <2>1 DEF Runs
    <3> QED
      BY <3>1, <3>2
  <2> QED
    BY <1>3, <2>1, <2>3 DEF StartByHand
<1>4. ASSUME NEW r \in Runs, GetEnable(r) PROVE TypeOK'
  <2>1. PICK s \in run[r].todo :
            run' = [run EXCEPT ![r].pc = "ps", ![r].serv = s, ![r].wanted = enabled[s],
                               ![r].todo = @ \ {s}]
    BY <1>4 DEF GetEnable
  <2>2. s \in Services /\ enabled[s] \in BOOLEAN /\ run[r].todo \ {s} \in SUBSET Services
    BY <2>1 DEF RunType
  <2>3. run' \in [Runs -> RunType]
    BY <2>1, <2>2 DEF RunType
  <2> QED
    BY <1>4, <2>3 DEF GetEnable
<1>5. ASSUME NEW r \in Runs, ListProcesses(r) PROVE TypeOK'
  <2>1. run' \in [Runs -> RunType]
    <3>1. [run[r] EXCEPT !.pc = "kill", !.found = Of(run[r].serv)] \in RunType
      BY DEF RunType, Of
    <3>2. run' = [run EXCEPT ![r] = [run[r] EXCEPT !.pc = "kill", !.found = Of(run[r].serv)]]
      BY <1>5 DEF ListProcesses
    <3> QED
      BY <3>1, <3>2
  <2> QED
    BY <1>5, <2>1 DEF ListProcesses
<1>6. ASSUME NEW r \in Runs, KillFound(r) PROVE TypeOK'
  <2>1. run' \in [Runs -> RunType]
    <3>1. [run[r] EXCEPT !.pc = "start", !.found = {}] \in RunType
      BY DEF RunType
    <3>2. run' = [run EXCEPT ![r] = [run[r] EXCEPT !.pc = "start", !.found = {}]]
      BY <1>6 DEF KillFound
    <3> QED
      BY <3>1, <3>2
  <2> QED
    BY <1>6, <2>1 DEF KillFound
<1>7. ASSUME NEW r \in Runs, StartService(r) PROVE TypeOK'
  <2>1. run[r].serv \in Services \union {None}
    BY DEF RunType
  <2>2. process' \in [Pids -> Services \union {None}] /\ fallen' \in SUBSET Services
    BY <1>7, <2>1 DEF StartService
  <2>3. run' \in [Runs -> RunType]
    <3>1. [run[r] EXCEPT !.pc = "next", !.serv = None] \in RunType
      BY DEF RunType
    <3>2. run' = [run EXCEPT ![r] = [run[r] EXCEPT !.pc = "next", !.serv = None]]
      BY <1>7 DEF StartService
    <3> QED
      BY <3>1, <3>2
  <2> QED
    BY <1>7, <2>2, <2>3 DEF StartService
<1>8. ASSUME NEW r \in Runs, Done(r) PROVE TypeOK'
  <2>1. Idle \in RunType
    BY DEF Idle, RunType
  <2> QED
    BY <1>8, <2>1 DEF Done
<1>9. ASSUME NEW p \in Pids, Crash(p) PROVE TypeOK'
  BY <1>9 DEF Crash
<1>10. CASE UNCHANGED vars
  BY <1>10 DEF vars
<1> QED
  BY <1>1, <1>2, <1>3, <1>4, <1>5, <1>6, <1>7, <1>8, <1>9, <1>10, <1>11, <1>12
  DEF Next, Goes

(* TypeOK is an invariant, with runs by hand at any time.                     *)
THEOREM TypeCorrect == Spec => []TypeOK
BY TypeInit, TypeStep, PTL DEF Spec

-----------------------------------------------------------------------------
LEMMA InvInit == Init => InductiveInvariant
<1> SUFFICES ASSUME Init PROVE InductiveInvariant
  OBVIOUS
<1>1. \A r \in Runs : run[r].pc = "idle" /\ run[r].todo = {}
  BY DEF Init, Idle
<1>2. OneActive
  BY <1>1, ReloadAssumption DEF OneActive, Active, At, Init, Runs
<1>3. ListHolds /\ KillsItsOwn /\ WorkKnown
  BY <1>1 DEF ListHolds, KillsItsOwn, WorkKnown, Busy, At
<1>4. OneDaemon
  BY DEF Init, OneDaemon, Of
<1>5. NothingForgotten
  BY ReloadAssumption DEF NothingForgotten, Fits, Of, Init
<1> QED
  BY <1>2, <1>3, <1>4, <1>5, TypeInit DEF InductiveInvariant

(* A step of the one run that works changes nothing about the others.      *)
LEMMA SaveKeeps ==
    ASSUME InductiveInvariant, NEW r \in Reloads, Save(r)
    PROVE  InductiveInvariant'
<1> USE DEF InductiveInvariant
<1>0. TypeOK'
  BY TypeStep DEF Next
<1>1. PICK script \in Scripts, s \in Services :
          /\ enabled' = [enabled EXCEPT ![s] = ~@]
          /\ unasked' = unasked \union {s}
          /\ \/ run' = [run EXCEPT ![r].pc = "xhr", ![r].todo = script]
             \/ run' = run
  BY ReloadAssumption DEF Save
<1>2. /\ r \in Runs /\ run[r].pc = "idle" /\ run[r].todo = {}
      /\ process' = process /\ lock' = lock /\ fallen' = fallen
  BY DEF Save, Runs, At, ListHolds
<1>3. /\ run'[r].pc \in {"idle", "xhr"}
      /\ run'[r].pc = "idle" => run'[r].todo = {}
      /\ \A q \in Runs \ {r} : run'[q] = run[q]
      /\ \A t \in Services \ {s} : enabled'[t] = enabled[t]
  <2>1. CASE run' = [run EXCEPT ![r].pc = "xhr", ![r].todo = script]
    BY <1>1, <1>2, <2>1 DEF TypeOK
  <2>2. CASE run' = run
    BY <1>1, <1>2, <2>2 DEF TypeOK
  <2> QED
    BY <1>1, <2>1, <2>2
<1>4. OneActive'
  BY <1>2, <1>3 DEF OneActive, Active, Runs
<1>5. ListHolds' /\ KillsItsOwn' /\ OneDaemon'
  BY <1>2, <1>3 DEF ListHolds, KillsItsOwn, OneDaemon, Busy, At, Of
<1>6. \A t \in Services : Waiting(t) => Waiting(t)'
  BY <1>1, <1>2, <1>3 DEF Waiting, At
<1>7. Waiting(s)'
  BY <1>1 DEF Waiting
<1>8. \A t \in Services \ {s} : (Fits(t) => Fits(t)') /\ (Working(t) => Working(t)')
  BY <1>2, <1>3 DEF Fits, Of, Working, Busy
<1>9. NothingForgotten'
  BY <1>6, <1>7, <1>8 DEF NothingForgotten
<1>10. WorkKnown'
  <2> SUFFICES ASSUME NEW q \in Runs, Busy(q)'
               PROVE  (run[q].wanted = enabled[run[q].serv])' \/ Waiting(run[q].serv)'
    BY DEF WorkKnown
  <2>1. q # r /\ Busy(q) /\ run'[q] = run[q] /\ run[q].serv \in Services
    BY <1>2, <1>3 DEF Busy, ListHolds
  <2>2. CASE run[q].serv = s
    BY <2>1, <2>2, <1>7
  <2>3. CASE run[q].serv # s
    BY <2>1, <2>3, <1>3, <1>6 DEF WorkKnown
  <2> QED
    BY <2>2, <2>3
<1> QED
  BY <1>0, <1>4, <1>5, <1>9, <1>10

(* What a request that arrives was for is on the list of its run.          *)
LEMMA TriggerKeeps ==
    ASSUME InductiveInvariant, NEW r \in Reloads, Trigger(r)
    PROVE  InductiveInvariant'
<1> USE DEF InductiveInvariant
<1>0. TypeOK'
  BY TypeStep DEF Next
<1>1. /\ r \in Runs /\ run[r].pc = "xhr" /\ unasked' = unasked \ run[r].todo
      /\ process' = process /\ lock' = lock /\ fallen' = fallen /\ enabled' = enabled
  BY DEF Trigger, Runs, At
<1>2. /\ run'[r].pc = "lock" /\ run'[r].todo = run[r].todo
      /\ \A q \in Runs \ {r} : run'[q] = run[q]
  BY <1>1 DEF Trigger, TypeOK, RunType
<1>3. OneActive'
  BY <1>1, <1>2 DEF OneActive, Active, Runs
<1>4. ListHolds' /\ KillsItsOwn' /\ OneDaemon'
  BY <1>1, <1>2 DEF ListHolds, KillsItsOwn, OneDaemon, Busy, At, Of
<1>5. \A t : Waiting(t) => Waiting(t)'
  BY <1>1, <1>2 DEF Waiting, At
<1>6. \A t \in Services : (Fits(t) => Fits(t)') /\ (Working(t) => Working(t)')
  BY <1>1, <1>2 DEF Fits, Of, Working, Busy
<1>7. NothingForgotten'
  BY <1>5, <1>6 DEF NothingForgotten
<1>8. WorkKnown'
  BY <1>1, <1>2, <1>5 DEF WorkKnown, Busy
<1> QED
  BY <1>0, <1>3, <1>4, <1>7, <1>8

(* What a request that is lost was for was not counted on.                 *)
LEMMA LoseRequestKeeps ==
    ASSUME InductiveInvariant, NEW r \in Reloads, LoseRequest(r)
    PROVE  InductiveInvariant'
<1> USE DEF InductiveInvariant
<1>0. TypeOK'
  BY TypeStep DEF Next
<1>1. /\ r \in Runs /\ run[r].pc = "xhr" /\ unasked' = unasked
      /\ process' = process /\ lock' = lock /\ fallen' = fallen /\ enabled' = enabled
  BY DEF LoseRequest, Runs, At
<1>2. /\ run'[r].pc = "idle" /\ run'[r].todo = {}
      /\ \A q \in Runs \ {r} : run'[q] = run[q]
  BY <1>1 DEF LoseRequest, TypeOK, Idle
<1>3. OneActive'
  BY <1>1, <1>2 DEF OneActive, Active, Runs
<1>4. ListHolds' /\ KillsItsOwn' /\ OneDaemon'
  BY <1>1, <1>2 DEF ListHolds, KillsItsOwn, OneDaemon, Busy, At, Of
<1>5. \A t : Waiting(t) => Waiting(t)'
  BY <1>1, <1>2 DEF Waiting, At
<1>6. \A t \in Services : (Fits(t) => Fits(t)') /\ (Working(t) => Working(t)')
  BY <1>1, <1>2 DEF Fits, Of, Working, Busy
<1>7. NothingForgotten'
  BY <1>5, <1>6 DEF NothingForgotten
<1>8. WorkKnown'
  BY <1>1, <1>2, <1>5 DEF WorkKnown, Busy
<1> QED
  BY <1>0, <1>3, <1>4, <1>7, <1>8

LEMMA LockKeeps ==
    ASSUME InductiveInvariant, InTurn, NEW r \in Reloads, Lock(r)
    PROVE  InductiveInvariant'
<1> USE DEF InductiveInvariant
<1>0. TypeOK'
  BY TypeStep DEF Next
<1>1. /\ r \in Runs /\ run[r].pc = "lock" /\ lock = None /\ lock' = r
      /\ process' = process /\ fallen' = fallen /\ enabled' = enabled
      /\ unasked' = unasked
  BY DEF Lock, Runs, At
<1>2. \A q \in Runs \ {r} : run'[q] = run[q]
  BY <1>1 DEF Lock, TypeOK
<1>3. run'[r].pc = "next" /\ run'[r].todo = run[r].todo
  BY <1>1 DEF Lock, TypeOK, RunType
<1>4. Active(r)'
  BY <1>3 DEF Active
<1>5. \A q \in Runs \ {r} : ~Active(q)'
  <2> SUFFICES ASSUME NEW q \in Runs \ {r} PROVE ~Active(q)'
    OBVIOUS
  <2>1. CASE q \in ByHand
    BY <1>1, <1>4, <2>1 DEF InTurn
  <2>2. CASE q \in Reloads
    <3>1. ~Active(q)
      BY <1>1, <2>2, ReloadAssumption DEF OneActive
    <3> QED
      BY <1>2, <3>1 DEF Active
  <2> QED
    BY <2>1, <2>2 DEF Runs
<1>6. OneActive'
  BY <1>1, <1>3, <1>5 DEF OneActive, Active, At, Runs
<1>7. ListHolds' /\ KillsItsOwn' /\ OneDaemon'
  <2>1. ListHolds'
    BY <1>1, <1>2, <1>3 DEF ListHolds, Busy, At, Of
  <2>2. KillsItsOwn'
    BY <1>1, <1>2, <1>3 DEF KillsItsOwn, At
  <2>3. OneDaemon'
    BY <1>1 DEF OneDaemon
  <2> QED
    BY <2>1, <2>2, <2>3
<1>8. \A t : Waiting(t) => Waiting(t)'
  BY <1>1, <1>2, <1>3 DEF Waiting, At
<1>9. \A t \in Services : (Fits(t) => Fits(t)') /\ (Working(t) => Working(t)')
  BY <1>1, <1>2 DEF Fits, Of, Working, Busy
<1>10. NothingForgotten'
  BY <1>8, <1>9 DEF NothingForgotten
<1>11. WorkKnown'
  BY <1>1, <1>2, <1>3, <1>8 DEF WorkKnown, Busy
<1> QED
  BY <1>0, <1>6, <1>7, <1>10, <1>11

LEMMA StartByHandKeeps ==
    ASSUME InductiveInvariant, InTurn, NEW r \in ByHand, StartByHand(r)
    PROVE  InductiveInvariant'
<1> USE DEF InductiveInvariant
<1>0. TypeOK'
  BY TypeStep DEF Next
<1>1. /\ r \in Runs /\ r \notin Reloads /\ run[r].pc = "idle" /\ run[r].todo = {}
      /\ process' = process /\ fallen' = fallen /\ enabled' = enabled /\ lock' = lock
  BY ReloadAssumption DEF StartByHand, Runs, At, ListHolds
<1>2. PICK script \in Scripts :
          /\ run' = [run EXCEPT ![r].pc = "next", ![r].todo = script]
          /\ unasked' = unasked \ script
  BY DEF StartByHand
<1>3. /\ run'[r].pc = "next" /\ run'[r].todo = script
      /\ \A q \in Runs \ {r} : run'[q] = run[q]
  BY <1>1, <1>2 DEF TypeOK
<1>10. \A q \in Runs \ {r} : ~Active(q)' /\ ~Active(q)
  BY <1>1, <1>3 DEF InTurn, Active
<1>4. OneActive'
  BY <1>1, <1>3, <1>10 DEF OneActive, Active, Runs
<1>5. ListHolds' /\ KillsItsOwn' /\ OneDaemon'
  BY <1>1, <1>3 DEF ListHolds, KillsItsOwn, OneDaemon, Busy, At, Of
<1>6. \A t : Waiting(t) => Waiting(t)'
  BY <1>1, <1>2, <1>3 DEF Waiting, At
<1>7. \A t \in Services : (Fits(t) => Fits(t)') /\ (Working(t) => Working(t)')
  BY <1>1, <1>3 DEF Fits, Of, Working, Busy
<1>8. NothingForgotten'
  BY <1>6, <1>7 DEF NothingForgotten
<1>9. WorkKnown'
  BY <1>1, <1>3, <1>6 DEF WorkKnown, Busy
<1> QED
  BY <1>0, <1>4, <1>5, <1>8, <1>9

LEMMA GetEnableKeeps ==
    ASSUME InductiveInvariant, NEW r \in Runs, GetEnable(r)
    PROVE  InductiveInvariant'
<1> USE DEF InductiveInvariant
<1>0. TypeOK'
  BY TypeStep DEF Next, Goes
<1>1. PICK s \in run[r].todo :
          run' = [run EXCEPT ![r].pc = "ps", ![r].serv = s, ![r].wanted = enabled[s],
                             ![r].todo = @ \ {s}]
  BY DEF GetEnable
<1>2. /\ run[r].pc = "next" /\ s \in Services
      /\ process' = process /\ fallen' = fallen /\ enabled' = enabled /\ lock' = lock
      /\ unasked' = unasked
  BY <1>1 DEF GetEnable, At, TypeOK, RunType
<1>3. /\ run'[r].pc = "ps" /\ run'[r].serv = s /\ run'[r].wanted = enabled[s]
      /\ run'[r].todo = run[r].todo \ {s}
      /\ \A q \in Runs \ {r} : run'[q] = run[q]
  BY <1>1 DEF TypeOK, RunType
<1>4. Active(r) /\ \A q \in Runs \ {r} : ~Active(q)
  BY <1>2 DEF OneActive, Active, At
<1>5. \A q \in Runs : Active(q)' <=> Active(q)
  BY <1>2, <1>3 DEF Active, At
<1>6. OneActive'
  BY <1>2, <1>5 DEF OneActive, Runs
<1>7. ListHolds' /\ KillsItsOwn' /\ OneDaemon'
  <2>1. ListHolds'
    BY <1>2, <1>3 DEF ListHolds, Busy, At, Of
  <2>2. KillsItsOwn'
    BY <1>2, <1>3 DEF KillsItsOwn, At
  <2>3. OneDaemon'
    BY <1>2 DEF OneDaemon
  <2> QED
    BY <2>1, <2>2, <2>3
<1>8. \A t \in Services \ {s} : Waiting(t) => Waiting(t)'
  BY <1>1, <1>2, <1>3 DEF Waiting, At
<1>9. \A t \in Services : (Fits(t) => Fits(t)') /\ (Working(t) => Working(t)')
  BY <1>2, <1>3 DEF Fits, Of, Working, Busy
<1>10. Working(s)'
  BY <1>2, <1>3 DEF Working, Busy
<1>11. NothingForgotten'
  BY <1>8, <1>9, <1>10 DEF NothingForgotten
<1>12. WorkKnown'
  BY <1>2, <1>3, <1>4 DEF WorkKnown, Busy, Active
<1> QED
  BY <1>0, <1>6, <1>7, <1>11, <1>12

LEMMA ListProcessesKeeps ==
    ASSUME InductiveInvariant, NEW r \in Runs, ListProcesses(r)
    PROVE  InductiveInvariant'
<1> USE DEF InductiveInvariant
<1>0. TypeOK'
  BY TypeStep DEF Next, Goes
<1>1. /\ run[r].pc = "ps"
      /\ process' = process /\ fallen' = fallen /\ enabled' = enabled /\ lock' = lock
      /\ unasked' = unasked
  BY DEF ListProcesses, At
<1>2. /\ run'[r].pc = "kill" /\ run'[r].found = Of(run[r].serv)
      /\ run'[r].serv = run[r].serv /\ run'[r].wanted = run[r].wanted
      /\ run'[r].todo = run[r].todo
      /\ \A q \in Runs \ {r} : run'[q] = run[q]
  BY DEF ListProcesses, TypeOK, RunType
<1>3. OneActive'
  BY <1>1, <1>2 DEF OneActive, Active, At, Runs
<1>4. ListHolds' /\ KillsItsOwn' /\ OneDaemon'
  <2>1. run[r].serv \in Services
    BY <1>1 DEF ListHolds, Busy
  <2>2. \A p, q \in Of(run[r].serv) : p = q
    BY <2>1, ReloadAssumption DEF OneDaemon, Of
  <2>3. ListHolds'
    BY <1>1, <1>2, <2>1, <2>2 DEF ListHolds, Busy, At, Of
  <2>4. KillsItsOwn' /\ OneDaemon'
    BY <1>1, <1>2 DEF KillsItsOwn, OneDaemon, At, Of
  <2> QED
    BY <2>3, <2>4
<1>5. \A t : Waiting(t) => Waiting(t)'
  BY <1>1, <1>2 DEF Waiting, At
<1>6. \A t \in Services : (Fits(t) => Fits(t)') /\ (Working(t) => Working(t)')
  BY <1>1, <1>2 DEF Fits, Of, Working, Busy
<1>7. NothingForgotten' /\ WorkKnown'
  BY <1>1, <1>2, <1>5, <1>6 DEF NothingForgotten, WorkKnown, Busy
<1> QED
  BY <1>0, <1>3, <1>4, <1>7

(* A service whose daemon the run takes away stays on somebody's mind.     *)
LEMMA KillFoundKeeps ==
    ASSUME InductiveInvariant, NEW r \in Runs, KillFound(r)
    PROVE  InductiveInvariant'
<1> USE DEF InductiveInvariant
<1>0. TypeOK'
  BY TypeStep DEF Next, Goes
<1> PICK s : s = run[r].serv
  OBVIOUS
<1>1. /\ run[r].pc = "kill" /\ s \in Services
      /\ fallen' = fallen /\ enabled' = enabled /\ lock' = lock
      /\ process' = [p \in Pids |-> IF run[r].found = {p} THEN None ELSE process[p]]
      /\ unasked' = unasked
  BY DEF KillFound, At, ListHolds, Busy
<1>2. /\ run'[r].pc = "start" /\ run'[r].found = {}
      /\ run'[r].serv = s /\ run'[r].wanted = run[r].wanted
      /\ run'[r].todo = run[r].todo
      /\ \A q \in Runs \ {r} : run'[q] = run[q]
  BY DEF KillFound, TypeOK, RunType
<1>3. \A p \in Pids : process[p] = s => run[r].found = {p}
  BY <1>1 DEF ListHolds, At, Of
<1>4. \A p \in run[r].found : process[p] \in {s, None}
  BY <1>1 DEF KillsItsOwn, At
<1>5. Of(s)' = {}
  BY <1>1, <1>3, ReloadAssumption DEF Of
<1>6. \A t \in Services \ {s} : Of(t)' = Of(t)
  BY <1>1, <1>4, ReloadAssumption DEF Of
<1>7. \A q \in Runs \ {r} : ~Active(q) /\ ~Active(q)'
  BY <1>1, <1>2 DEF OneActive, Active, At
<1>8. OneActive'
  BY <1>1, <1>2 DEF OneActive, Active, At, Runs
<1>9. ListHolds'
  BY <1>1, <1>2, <1>5, <1>7 DEF ListHolds, Busy, At, Active
<1>10. KillsItsOwn'
  BY <1>2, <1>7 DEF KillsItsOwn, At, Active
<1>11. OneDaemon'
  BY <1>1 DEF OneDaemon
<1>12. \A t : Waiting(t) => Waiting(t)'
  BY <1>1, <1>2 DEF Waiting, At
<1>13. \A t \in Services : Working(t) => Working(t)'
  BY <1>1, <1>2 DEF Working, Busy
<1>14. Waiting(s)' \/ Working(s)'
  BY <1>1, <1>2, <1>12 DEF WorkKnown, Busy, Working
<1>15. \A t \in Services \ {s} : Fits(t) => Fits(t)'
  BY <1>1, <1>6 DEF Fits
<1>16. NothingForgotten'
  BY <1>12, <1>13, <1>14, <1>15 DEF NothingForgotten
<1>17. WorkKnown'
  BY <1>1, <1>2, <1>7, <1>12 DEF WorkKnown, Busy, Active, At
<1> QED
  BY <1>0, <1>8, <1>9, <1>10, <1>11, <1>16, <1>17

(* A service that has been handled runs exactly if it is wanted, or is on  *)
(* the list of a run again.                                                *)
LEMMA StartServiceKeeps ==
    ASSUME InductiveInvariant, NEW r \in Runs, StartService(r)
    PROVE  InductiveInvariant'
<1> USE DEF InductiveInvariant
<1>0. TypeOK'
  BY TypeStep DEF Next, Goes
<1> PICK s : s = run[r].serv
  OBVIOUS
<1>1. /\ run[r].pc = "start" /\ s \in Services /\ Of(s) = {}
      /\ enabled' = enabled /\ lock' = lock /\ unasked' = unasked
  BY DEF StartService, At, ListHolds, Busy
<1>2. /\ run'[r].pc = "next" /\ run'[r].todo = run[r].todo
      /\ \A q \in Runs \ {r} : run'[q] = run[q]
  BY DEF StartService, TypeOK, RunType
<1>3. \/ /\ run[r].wanted
         /\ \E p \in Pids : /\ process[p] = None
                            /\ process' = [process EXCEPT ![p] = s]
         /\ fallen' = fallen \ {s}
      \/ ~run[r].wanted /\ process' = process /\ fallen' = fallen
  BY DEF StartService
<1>4. \A t \in Services \ {s} : Of(t)' = Of(t) /\ (t \in fallen' <=> t \in fallen)
  BY <1>3, ReloadAssumption DEF Of, TypeOK
<1>5. /\ run[r].wanted => Of(s)' # {}
      /\ ~run[r].wanted => Of(s)' = {}
  BY <1>1, <1>3 DEF Of, TypeOK
<1>6. \A q \in Runs \ {r} : ~Active(q) /\ ~Active(q)'
  BY <1>1, <1>2 DEF OneActive, Active, At
<1>7. OneActive'
  BY <1>1, <1>2 DEF OneActive, Active, At, Runs
<1>8. ListHolds' /\ KillsItsOwn'
  BY <1>2, <1>6 DEF ListHolds, KillsItsOwn, Busy, At, Active
<1>9. OneDaemon'
  BY <1>1, <1>3 DEF OneDaemon, Of, TypeOK
<1>10. \A t : Waiting(t) => Waiting(t)'
  BY <1>1, <1>2 DEF Waiting, At
<1>11. \A t \in Services \ {s} : (Fits(t) => Fits(t)') /\ ~Working(t)
  BY <1>1, <1>4, <1>6 DEF Fits, Working, Busy, Active, At
<1>12. Fits(s)' \/ Waiting(s)'
  <2>1. CASE run[r].wanted = enabled[s]
    BY <1>1, <1>5, <2>1 DEF Fits, TypeOK
  <2>2. CASE run[r].wanted # enabled[s]
    BY <1>1, <1>10, <2>2 DEF WorkKnown, Busy
  <2> QED
    BY <2>1, <2>2
<1>13. NothingForgotten'
  BY <1>10, <1>11, <1>12 DEF NothingForgotten
<1>14. WorkKnown'
  BY <1>2, <1>6 DEF WorkKnown, Busy, Active, At
<1> QED
  BY <1>0, <1>7, <1>8, <1>9, <1>13, <1>14

LEMMA DoneKeeps ==
    ASSUME InductiveInvariant, NEW r \in Runs, Done(r)
    PROVE  InductiveInvariant'
<1> USE DEF InductiveInvariant
<1>0. TypeOK'
  BY TypeStep DEF Next, Goes
<1>1. /\ run[r].pc = "next" /\ run[r].todo = {}
      /\ process' = process /\ fallen' = fallen /\ enabled' = enabled
      /\ unasked' = unasked
      /\ lock' = IF r \in Reloads THEN None ELSE lock
  BY DEF Done, At
<1>2. /\ run'[r].pc = "idle" /\ run'[r].todo = {}
      /\ \A q \in Runs \ {r} : run'[q] = run[q]
  BY DEF Done, TypeOK, Idle
<1>3. \A q \in Runs \ {r} : ~Active(q) /\ ~Active(q)'
  BY <1>1, <1>2 DEF OneActive, Active, At
<1>4. ~Active(r)'
  BY <1>2 DEF Active, At
<1>5. OneActive'
  BY <1>1, <1>3, <1>4, ReloadAssumption DEF OneActive, Runs
<1>6. ListHolds' /\ KillsItsOwn' /\ OneDaemon'
  BY <1>1, <1>2, <1>3 DEF ListHolds, KillsItsOwn, OneDaemon, Busy, At, Active
<1>7. \A t : Waiting(t) => Waiting(t)'
  BY <1>1, <1>2 DEF Waiting, At
<1>8. \A t \in Services : (Fits(t) => Fits(t)') /\ ~Working(t)
  BY <1>1, <1>3 DEF Fits, Of, Working, Busy, Active, At
<1>9. NothingForgotten' /\ WorkKnown'
  BY <1>2, <1>3, <1>7, <1>8 DEF NothingForgotten, WorkKnown, Busy, Active, At
<1> QED
  BY <1>0, <1>5, <1>6, <1>9

LEMMA CrashKeeps ==
    ASSUME InductiveInvariant, NEW p \in Pids, Crash(p)
    PROVE  InductiveInvariant'
<1> USE DEF InductiveInvariant
<1>0. TypeOK'
  BY TypeStep DEF Next
<1> PICK s : s = process[p]
  OBVIOUS
<1>1. /\ s \in Services /\ s # None
      /\ process' = [process EXCEPT ![p] = None] /\ fallen' = fallen \union {s}
      /\ run' = run /\ lock' = lock /\ enabled' = enabled
      /\ unasked' = unasked
  BY DEF Crash, TypeOK
<1>2. \A t \in Services : Of(t)' \subseteq Of(t)
  BY <1>1, ReloadAssumption DEF Of, TypeOK
<1>3. \A t \in Services \ {s} : Of(t)' = Of(t)
  BY <1>1, ReloadAssumption DEF Of, TypeOK
<1>4. OneActive'
  BY <1>1 DEF OneActive, Active, At
<1>5. ListHolds'
  BY <1>1, <1>2 DEF ListHolds, Busy, At
<1>6. KillsItsOwn' /\ OneDaemon'
  BY <1>1 DEF KillsItsOwn, OneDaemon, At, TypeOK, RunType
<1>7. \A t : (Waiting(t) => Waiting(t)') /\ (Working(t) => Working(t)')
  BY <1>1 DEF Waiting, Working, Busy, At
<1>8. \A t \in Services : Fits(t) => Fits(t)'
  BY <1>1, <1>2, <1>3 DEF Fits
<1>9. NothingForgotten'
  BY <1>7, <1>8 DEF NothingForgotten
<1>10. WorkKnown'
  BY <1>1, <1>7 DEF WorkKnown, Busy
<1> QED
  BY <1>0, <1>4, <1>5, <1>6, <1>9, <1>10

LEMMA InvStep == InductiveInvariant /\ [Next /\ InTurn]_vars => InductiveInvariant'
<1> SUFFICES ASSUME InductiveInvariant, [Next /\ InTurn]_vars PROVE InductiveInvariant'
  OBVIOUS
<1>1. CASE UNCHANGED vars
  <2>1. TypeOK'
    BY <1>1, TypeStep DEF InductiveInvariant
  <2> QED
    BY <1>1, <2>1
    DEF vars, InductiveInvariant, OneActive, ListHolds, KillsItsOwn, OneDaemon,
        NothingForgotten, WorkKnown, Fits, Waiting, Working, Active, Busy, At, Of
<1> QED
  BY <1>1, SaveKeeps, TriggerKeeps, LoseRequestKeeps, LockKeeps, StartByHandKeeps, GetEnableKeeps, ListProcessesKeeps,
     KillFoundKeeps, StartServiceKeeps, DoneKeeps, CrashKeeps
  DEF Next, Goes

(* When runs by hand are in turn the inductive invariant holds.            *)
THEOREM InductiveInvariantHolds == SerialSpec => []InductiveInvariant
<1>1. Init => InductiveInvariant
  BY InvInit
<1>2. InductiveInvariant /\ [Next /\ InTurn]_vars => InductiveInvariant'
  BY InvStep
<1> QED
  BY <1>1, <1>2, PTL DEF SerialSpec

(* There are never two daemons of one service, and no run kills a process  *)
(* that is not of the service it is about.                                 *)
THEOREM NeverTwo == SerialSpec => []OneOfEach
<1>1. InductiveInvariant => OneOfEach
  BY DEF InductiveInvariant, OneOfEach
<1> QED
  BY <1>1, InductiveInvariantHolds, PTL

(* When no run is under way, what runs is what the settings say, but for   *)
(* daemons that have ended by themselves and for what a page has changed   *)
(* without asking for a run since.                                         *)
THEOREM SettingsTakeEffect == SerialSpec => []WantedRun
<1>1. InductiveInvariant => WantedRun
  <2> SUFFICES ASSUME InductiveInvariant, \A r \in Runs : At(r, "idle"), NEW s \in Services \ unasked
               PROVE  Fits(s)
    BY DEF WantedRun
  <2>1. ~Waiting(s) /\ ~Working(s)
    BY DEF InductiveInvariant, ListHolds, Waiting, Working, Busy, At
  <2> QED
    BY <2>1 DEF InductiveInvariant, NothingForgotten
<1> QED
  BY <1>1, InductiveInvariantHolds, PTL
=============================================================================
