------------------------------- MODULE VLMProofs -------------------------------
(***************************************************************************)
(* What the vision-language model's two halves guarantee: first the        *)
(* manager of its engine (VLMManager), for any number of callers, timer    *)
(* goroutines, monitors and providers and any restart limit, then the      *)
(* stages of the analysis that use it (VLMStages), for any photos,         *)
(* clusters, runs, instructions, tier and plan.                            *)
(*                                                                         *)
(* The stages' StagesIInv adds to their three properties what a run knows  *)
(* between its steps: an inference in hand was sent with the snapshot its  *)
(* row will claim, and a photo the run is done with has its row already.   *)
(***************************************************************************)
EXTENDS VLMManager, VLMStages, FiniteSetTheorems, TLAPS

-------------------------------------------------------------------------------
(* Type correctness.                                                       *)

LEMMA TypeInit == Init => TypeOK
<1> SUFFICES ASSUME Init PROVE TypeOK
  OBVIOUS
<1> USE DEF Init, ManagerStates, Ops, CallerPCs, TimerPCs, LoopPCs, Threads
<1>1. restartCount \in 0 .. MaxRestarts + 1 /\ autoStarts \in Nat
  BY ConfigTypes
<1>2. /\ pc \in [Threads -> CallerPCs \cup TimerPCs \cup LoopPCs]
      /\ \A c \in Callers : pc[c] \in CallerPCs
      /\ \A t \in Timers : pc[t] \in TimerPCs
      /\ \A l \in Loops : pc[l] \in LoopPCs
  OBVIOUS
<1>3. failures \in [Loops -> 0 .. 2] /\ \A l \in Loops : failures[l] < 2
  OBVIOUS
<1>4. /\ ctxDone \in [Loops -> BOOLEAN]
      /\ up \in [Providers -> BOOLEAN]
      /\ op \in [Callers -> Ops]
      /\ target \in [Threads -> Providers \cup {NoProvider}]
      /\ waitCtx \in [Loops -> Loops \cup {NoLoop}]
  OBVIOUS
<1> QED
  BY <1>1, <1>2, <1>3, <1>4 DEF TypeOK

\* The sets of control points, written out, as every step below needs them.
LEMMA TypeNext == TypeOK /\ [Next]_vars => TypeOK'
<1> SUFFICES ASSUME TypeOK, [Next]_vars PROVE TypeOK'
  OBVIOUS
<1> USE ThreadKindsDisjoint, NilValues, ConfigTypes
    DEF TypeOK, ManagerStates, Ops, CallerPCs, TimerPCs, LoopPCs, StartPCs,
        StopPCs, RecoveryPCs, Threads, Goto, Emit, Release, ResetIdleTimer,
        lifecycle, monitor, channel, locals
<1>1. ASSUME NEW c \in Callers, CallerNext(c) PROVE TypeOK'
  <2>1. ASSUME NEW o \in {"ensure", "infer"}, EnsureReady(c, o) PROVE TypeOK'
    BY <2>1 DEF EnsureReady, MayCall
  <2>2. ASSUME NEW o \in {"ensure", "infer"}, EnsureStart(c, o) PROVE TypeOK'
    BY <2>2 DEF EnsureStart, MayCall, StartLocked
  <2>3. CASE EnsureStarting(c)
    BY <2>3 DEF EnsureStarting, MayCall
  <2>4. CASE InferBegin(c)
    BY <2>4 DEF InferBegin
  <2>5. CASE InferEnd(c)
    BY <2>5 DEF InferEnd
  <2>6. ASSUME NEW o \in {"stop", "shutdown"}, CallStop(c, o) PROVE TypeOK'
    <3>1. pc[c] = "idle" /\ StopLocks(c) /\ op' = [op EXCEPT ![c] = o]
      BY <2>6 DEF CallStop, MayCall
    <3>2. op' \in [Callers -> Ops]
      BY <3>1
    <3>3. /\ pc' \in [Threads -> CallerPCs \cup TimerPCs \cup LoopPCs]
          /\ \A d \in Callers : pc'[d] \in CallerPCs
          /\ \A k \in Timers \cup Loops : pc'[k] = pc[k]
      BY <3>1 DEF StopLocks
    <3>4. target' \in [Threads -> Providers \cup {NoProvider}]
      BY <3>1 DEF StopLocks
    <3>5. ctxDone' \in [Loops -> BOOLEAN]
      BY <3>1 DEF StopLocks, Cancelled
    <3> QED
      BY <3>1, <3>2, <3>3, <3>4, <3>5 DEF StopLocks
  <2>7. CASE ShutdownSkipsStop(c)
    BY <2>7 DEF ShutdownSkipsStop, MayCall
  <2>8. CASE CloseEvents(c)
    BY <2>8 DEF CloseEvents
  <2> QED
    BY <1>1, <2>1, <2>2, <2>3, <2>4, <2>5, <2>6, <2>7, <2>8 DEF CallerNext
<1>2. ASSUME NEW l \in Loops, LoopNext(l) PROVE TypeOK'
  <2>1. CASE LoopExits(l)
    BY <2>1 DEF LoopExits
  <2>2. CASE Tick(l)
    BY <2>2 DEF Tick
  <2>3. CASE ProbeSucceeds(l)
    BY <2>3 DEF ProbeSucceeds
  <2>4. CASE ProbeFails(l)
    BY <2>4 DEF ProbeFails
  <2>5. CASE HandleCrash(l)
    BY <2>5 DEF HandleCrash
  <2>6. CASE GiveUp(l)
    BY <2>6 DEF GiveUp
  <2>7. CASE ReadHealthCtx(l)
    BY <2>7 DEF ReadHealthCtx
  <2>8. CASE BackoffCancelled(l)
    BY <2>8 DEF BackoffCancelled
  <2>9. CASE BackoffElapses(l)
    BY <2>9 DEF BackoffElapses
  <2>10. CASE Restart(l)
    <3>1. CASE state \in {"off", "shutting_down"}
      BY <2>10, <3>1 DEF Restart
    <3>2. CASE state \notin {"off", "shutting_down"}
      <4>1. /\ pc' = [pc EXCEPT ![l] = "start"]
            /\ state' = "starting"
            /\ autoStarts' = autoStarts + 1
            /\ panicked' = (events = "closed")
            /\ UNCHANGED events
            /\ UNCHANGED <<provider, idleTimer, restartCount, monitor,
                           locals, up>>
        BY <2>10, <3>2 DEF Restart, StartLocked
      <4>2. /\ pc' \in [Threads -> CallerPCs \cup TimerPCs \cup LoopPCs]
            /\ \A c \in Callers : pc'[c] \in CallerPCs
            /\ \A k \in Timers : pc'[k] \in TimerPCs
            /\ \A k \in Loops : pc'[k] \in LoopPCs
            /\ \A k \in Loops :
                 pc'[k] \in {"tick", "probe"} => failures[k] < 2
        BY <4>1
      <4> QED
        BY <4>1, <4>2
    <3> QED
      BY <3>1, <3>2
  <2> QED
    BY <1>2, <2>1, <2>2, <2>3, <2>4, <2>5, <2>6, <2>7, <2>8, <2>9, <2>10
       DEF LoopNext
<1>3. ASSUME NEW t \in Timers, TimerFires(t) PROVE TypeOK'
  <2>1. pc' = [pc EXCEPT ![t] = "fired"] /\ idleTimer' = FALSE
    BY <1>3 DEF TimerFires
  <2>2. UNCHANGED <<lifecycle, monitor, channel, locals, up, autoStarts>>
    BY <1>3 DEF TimerFires
  <2>3. /\ pc' \in [Threads -> CallerPCs \cup TimerPCs \cup LoopPCs]
        /\ \A c \in Callers : pc'[c] \in CallerPCs
        /\ \A k \in Timers : pc'[k] \in TimerPCs
        /\ \A k \in Loops : pc'[k] = pc[k]
    BY <2>1
  <2> QED
    BY <2>1, <2>2, <2>3
<1>4. ASSUME NEW t \in Timers, IdleStop(t) PROVE TypeOK'
  <2>1. CASE StopLocks(t) /\ UNCHANGED op
    <3>1. pc[t] = "fired"
      BY <1>4 DEF IdleStop
    <3>2. /\ pc' \in [Threads -> CallerPCs \cup TimerPCs \cup LoopPCs]
          /\ \A k \in Timers : pc'[k] \in TimerPCs
          /\ \A k \in Callers \cup Loops : pc'[k] = pc[k]
      BY <2>1, <3>1 DEF StopLocks
    <3>3. target' \in [Threads -> Providers \cup {NoProvider}]
      BY <2>1 DEF StopLocks
    <3>4. ctxDone' \in [Loops -> BOOLEAN]
      BY <2>1 DEF StopLocks, Cancelled
    <3> QED
      BY <2>1, <3>2, <3>3, <3>4 DEF StopLocks
  <2>2. CASE ~(StopLocks(t) /\ UNCHANGED op)
    BY <1>4, <2>2 DEF IdleStop
  <2> QED
    BY <2>1, <2>2
<1>5. ASSUME NEW t \in Threads, StartNext(t) PROVE TypeOK'
  <2>1. CASE CallProviderStart(t)
    BY <1>5, <2>1 DEF CallProviderStart
  <2>2. CASE ProviderStart(t)
    <3>1. up' \in [Providers -> BOOLEAN]
      BY <2>2 DEF ProviderStart
    <3>2. PICK there \in {"startok", "starterr"} :
            pc' = [pc EXCEPT ![t] = there]
      BY <2>2 DEF ProviderStart
    <3>3. pc[t] = "booting"
      BY <2>2 DEF ProviderStart
    <3>4. /\ pc' \in [Threads -> CallerPCs \cup TimerPCs \cup LoopPCs]
          /\ \A c \in Callers : pc'[c] \in CallerPCs
          /\ \A k \in Timers : pc'[k] \in TimerPCs
          /\ \A k \in Loops : pc'[k] \in LoopPCs
          /\ \A k \in Loops :
               pc'[k] \in {"tick", "probe"} => failures[k] < 2
      BY <1>5, <3>2, <3>3
    <3>5. target' \in [Threads -> Providers \cup {NoProvider}]
      BY <2>2 DEF ProviderStart
    <3> QED
      BY <2>2, <3>1, <3>4, <3>5 DEF ProviderStart
  <2>3. CASE StartSucceeds(t)
    <3> DEFINE there == IF t \in Callers /\ op[t] = "infer"
                        THEN "ensured" ELSE "idle"
    <3>1. PICK l \in Loops : StartHealthMonitor(t, l, there)
      BY <2>3 DEF StartSucceeds
    <3>2. pc[t] = "startok" /\ t \notin Timers
      BY <1>5, <2>3 DEF StartSucceeds
    <3>3. /\ pc' \in [Threads -> CallerPCs \cup TimerPCs \cup LoopPCs]
          /\ \A c \in Callers : pc'[c] \in CallerPCs
          /\ \A k \in Timers : pc'[k] \in TimerPCs
          /\ \A k \in Loops : pc'[k] \in LoopPCs
      BY <1>5, <3>1, <3>2 DEF StartHealthMonitor
    <3>4. /\ failures' \in [Loops -> 0 .. 2]
          /\ \A k \in Loops :
               pc'[k] \in {"tick", "probe"} => failures'[k] < 2
      BY <1>5, <3>1, <3>2 DEF StartHealthMonitor
    <3>5. /\ stopHealth' \in Loops
          /\ healthCtx' \in Loops
          /\ ctxDone' \in [Loops -> BOOLEAN]
      BY <3>1 DEF StartHealthMonitor, Cancelled
    <3>6. op' \in [Callers -> Ops]
      BY <2>3 DEF StartSucceeds
    <3> QED
      BY <2>3, <3>3, <3>4, <3>5, <3>6 DEF StartSucceeds
  <2>4. CASE StartFails(t)
    BY <1>5, <2>4 DEF StartFails
  <2> QED
    BY <1>5, <2>1, <2>2, <2>3, <2>4 DEF StartNext
<1>6. ASSUME NEW t \in Threads, StopNext(t) PROVE TypeOK'
  <2>1. CASE ProviderStop(t)
    BY <1>6, <2>1 DEF ProviderStop
  <2>2. CASE StopReturns(t)
    BY <1>6, <2>2 DEF StopReturns
  <2> QED
    BY <1>6, <2>1, <2>2 DEF StopNext
<1>7. ASSUME NEW p \in Providers, SetProvider(p) PROVE TypeOK'
  BY <1>7 DEF SetProvider
<1>8. ASSUME NEW p \in Providers, ServerDies(p) PROVE TypeOK'
  BY <1>8 DEF ServerDies
<1>9. CASE UNCHANGED vars
  BY <1>9 DEF vars
<1> QED
  BY <1>1, <1>2, <1>3, <1>4, <1>5, <1>6, <1>7, <1>8, <1>9
     DEF Next, ThreadNext

\* Every variable of the manager keeps its type; in particular a goroutine is
\* only ever at a control point of its own kind.
THEOREM TypeCorrect == Spec => []TypeOK
BY TypeInit, TypeNext, PTL DEF Spec

-------------------------------------------------------------------------------
(* Transient states are owned.                                             *)

\* A step of one goroutine that leaves the state alone, and takes the
\* goroutine neither out of a start nor out of a stop, leaves owners owning.
LEMMA OwnersStay ==
  ASSUME TypeOK, TransientStatesOwned, NEW t \in Threads, NEW there,
         pc' = [pc EXCEPT ![t] = there], state' = state,
         Starting(t) => there \in StartPCs,
         Stopping(t) => there \in StopPCs
  PROVE  TransientStatesOwned'
<1>1. \A u \in Threads : pc'[u] = IF u = t THEN there ELSE pc[u]
  BY DEF TypeOK
<1>2. ASSUME state' = "starting" PROVE \E u \in Threads : Starting(u)'
  <2>1. PICK u \in Threads : Starting(u)
    BY <1>2 DEF TransientStatesOwned
  <2>2. Starting(u)'
    BY <1>1, <2>1 DEF Starting
  <2> QED
    BY <2>2
<1>3. ASSUME state' = "shutting_down" PROVE \E u \in Threads : Stopping(u)'
  <2>1. PICK u \in Threads : Stopping(u)
    BY <1>3 DEF TransientStatesOwned
  <2>2. Stopping(u)'
    BY <1>1, <2>1 DEF Stopping
  <2> QED
    BY <2>2
<1> QED
  BY <1>2, <1>3 DEF TransientStatesOwned

LEMMA OwnedNext == TypeOK /\ TransientStatesOwned /\ [Next]_vars
                   => TransientStatesOwned'
<1> SUFFICES ASSUME TypeOK, TransientStatesOwned, [Next]_vars
             PROVE  TransientStatesOwned'
  OBVIOUS
\* A goroutine that begins a start, or a stop, owns the state it sets.
<1>1. ASSUME NEW t \in Threads, StartLocked(t) PROVE TransientStatesOwned'
  <2>1. pc'[t] = "start" /\ state' = "starting"
    BY <1>1 DEF StartLocked, Goto, TypeOK
  <2> QED
    BY <2>1 DEF TransientStatesOwned, Starting, StartPCs
<1>2. ASSUME NEW t \in Threads, StopLocks(t) PROVE TransientStatesOwned'
  <2>1. pc'[t] = "stop" /\ state' = "shutting_down"
    BY <1>2 DEF StopLocks, Goto, TypeOK
  <2> QED
    BY <2>1 DEF TransientStatesOwned, Stopping, StopPCs
\* A step to any other state needs no owner.
<1>3. ASSUME state' \notin {"starting", "shutting_down"}
      PROVE  TransientStatesOwned'
  BY <1>3 DEF TransientStatesOwned
<1> USE DEF Goto, Starting, Stopping, StartPCs, StopPCs, Threads, lifecycle
<1>4. ASSUME NEW c \in Callers, CallerNext(c) PROVE TransientStatesOwned'
  <2>1. ASSUME NEW o \in {"ensure", "infer"}, EnsureReady(c, o)
        PROVE  TransientStatesOwned'
    BY <2>1, <1>3 DEF EnsureReady
  <2>2. ASSUME NEW o \in {"ensure", "infer"}, EnsureStart(c, o)
        PROVE  TransientStatesOwned'
    BY <2>2, <1>1 DEF EnsureStart
  <2>3. CASE EnsureStarting(c)
    BY <2>3, OwnersStay DEF EnsureStarting, MayCall
  <2>4. CASE InferBegin(c)
    BY <2>4, OwnersStay DEF InferBegin
  <2>5. CASE InferEnd(c)
    BY <2>5, OwnersStay DEF InferEnd
  <2>6. ASSUME NEW o \in {"stop", "shutdown"}, CallStop(c, o)
        PROVE  TransientStatesOwned'
    BY <2>6, <1>2 DEF CallStop
  <2>7. CASE ShutdownSkipsStop(c)
    BY <2>7, OwnersStay DEF ShutdownSkipsStop, MayCall
  <2>8. CASE CloseEvents(c)
    BY <2>8, OwnersStay DEF CloseEvents
  <2> QED
    BY <1>4, <2>1, <2>2, <2>3, <2>4, <2>5, <2>6, <2>7, <2>8 DEF CallerNext
<1>5. ASSUME NEW l \in Loops, LoopNext(l) PROVE TransientStatesOwned'
  <2>1. CASE LoopExits(l)
    BY <2>1, OwnersStay DEF LoopExits
  <2>2. CASE Tick(l)
    BY <2>2, OwnersStay DEF Tick
  <2>3. CASE ProbeSucceeds(l)
    BY <2>3, OwnersStay DEF ProbeSucceeds
  <2>4. CASE ProbeFails(l)
    BY <2>4, OwnersStay DEF ProbeFails
  <2>5. CASE HandleCrash(l)
    BY <2>5, <1>3 DEF HandleCrash
  <2>6. CASE GiveUp(l)
    BY <2>6, <1>3 DEF GiveUp
  <2>7. CASE ReadHealthCtx(l)
    BY <2>7, OwnersStay DEF ReadHealthCtx
  <2>8. CASE BackoffCancelled(l)
    BY <2>8, OwnersStay DEF BackoffCancelled
  <2>9. CASE BackoffElapses(l)
    BY <2>9, OwnersStay DEF BackoffElapses
  <2>10. CASE Restart(l)
    BY <2>10, <1>1, OwnersStay DEF Restart
  <2> QED
    BY <1>5, <2>1, <2>2, <2>3, <2>4, <2>5, <2>6, <2>7, <2>8, <2>9, <2>10
       DEF LoopNext
<1>6. ASSUME NEW t \in Timers, TimerFires(t) PROVE TransientStatesOwned'
  BY <1>6, OwnersStay DEF TimerFires
<1>7. ASSUME NEW t \in Timers, IdleStop(t) PROVE TransientStatesOwned'
  BY <1>7, <1>2, OwnersStay DEF IdleStop
<1>8. ASSUME NEW t \in Threads, StartNext(t) PROVE TransientStatesOwned'
  <2>1. CASE CallProviderStart(t)
    BY <2>1, <1>8, OwnersStay DEF CallProviderStart
  <2>2. CASE ProviderStart(t)
    BY <2>2, <1>8, OwnersStay DEF ProviderStart
  <2>3. CASE StartSucceeds(t)
    BY <2>3, <1>3 DEF StartSucceeds
  <2>4. CASE StartFails(t)
    BY <2>4, <1>3 DEF StartFails
  <2> QED
    BY <1>8, <2>1, <2>2, <2>3, <2>4 DEF StartNext
<1>9. ASSUME NEW t \in Threads, StopNext(t) PROVE TransientStatesOwned'
  <2>1. CASE ProviderStop(t)
    BY <2>1, <1>9, OwnersStay DEF ProviderStop
  <2>2. CASE StopReturns(t)
    BY <2>2, <1>3 DEF StopReturns
  <2> QED
    BY <1>9, <2>1, <2>2 DEF StopNext
<1>10. ASSUME pc' = pc, state' = state PROVE TransientStatesOwned'
  BY <1>10 DEF TransientStatesOwned
<1> QED
  BY <1>4, <1>5, <1>6, <1>7, <1>8, <1>9, <1>10
     DEF Next, ThreadNext, SetProvider, ServerDies, vars

\* While the manager says starting or shutting_down, some goroutine is inside
\* startLocked or Stop: no interleaving strands a state in which
\* EnsureRunning turns every caller away.
THEOREM TransientStatesAreOwned == Spec => []TransientStatesOwned
<1>1. Init => TransientStatesOwned
  BY DEF Init, TransientStatesOwned
<1> QED
  BY <1>1, OwnedNext, TypeCorrect, PTL DEF Spec

-------------------------------------------------------------------------------
(* One monitor, and a ready engine has it.                                 *)

MonitorInv == OneLiveMonitor /\ ReadyIsMonitored

\* A step of a goroutine that touches no monitor context, makes the engine
\* ready no more than it was, and ends watching only if the goroutine has
\* reported the crash or its context is cancelled.
LEMMA MonitorStays ==
  ASSUME TypeOK, MonitorInv, NEW t \in Threads, NEW there,
         pc' = [pc EXCEPT ![t] = there],
         UNCHANGED monitor,
         state' = "ready" => state = "ready",
         t \in Loops /\ there \in {"tick", "probe", "crash"} => Monitoring(t),
         t \in Loops /\ Monitoring(t) =>
            \/ there \in {"tick", "probe", "crash"}
            \/ ctxDone[t]
            \/ state' # "ready"
  PROVE  MonitorInv'
<1>1. \A u \in Threads : pc'[u] = IF u = t THEN there ELSE pc[u]
  BY DEF TypeOK
<1>2. Loops \subseteq Threads
  BY DEF Threads
<1>3. stopHealth' = stopHealth /\ healthCtx' = healthCtx /\ ctxDone' = ctxDone
  BY DEF monitor
<1>4. \A l \in Loops : Monitoring(l)' => Monitoring(l)
  BY <1>1, <1>2 DEF Monitoring
<1>5. OneLiveMonitor'
  BY <1>3, <1>4 DEF OneLiveMonitor, MonitorInv
<1>6. ASSUME state' = "ready" PROVE ReadyIsMonitored'
  <2>1. PICK l \in Loops :
          stopHealth = l /\ healthCtx = l /\ ~ctxDone[l] /\ Monitoring(l)
    BY <1>6 DEF MonitorInv, ReadyIsMonitored
  <2>2. Monitoring(l)'
    BY <1>1, <1>2, <1>6, <2>1 DEF Monitoring
  <2> QED
    BY <1>3, <2>1, <2>2 DEF ReadyIsMonitored
<1> QED
  BY <1>5, <1>6 DEF MonitorInv, ReadyIsMonitored

\* A goroutine that is not a loop never disturbs the monitors by moving.
LEMMA MonitorStaysOther ==
  ASSUME TypeOK, MonitorInv, NEW t \in Callers \cup Timers, NEW there,
         pc' = [pc EXCEPT ![t] = there],
         UNCHANGED monitor,
         state' = "ready" => state = "ready"
  PROVE  MonitorInv'
<1>1. t \in Threads /\ t \notin Loops
  BY ThreadKindsDisjoint DEF Threads
<1> QED
  BY <1>1, MonitorStays

\* Stop cancels the one live monitor, and the engine is not ready.
LEMMA MonitorStopped ==
  ASSUME TypeOK, MonitorInv, NEW t \in Callers \cup Timers, StopLocks(t)
  PROVE  MonitorInv'
<1>1. \A l \in Loops : pc'[l] = pc[l]
  BY ThreadKindsDisjoint DEF StopLocks, Goto, Threads, TypeOK
<1>2. \A l \in Loops : ctxDone'[l] <=> ctxDone[l] \/ l = stopHealth
  BY DEF StopLocks, Cancelled
<1>3. OneLiveMonitor'
  BY <1>1, <1>2 DEF OneLiveMonitor, Monitoring, MonitorInv
<1> QED
  BY <1>3 DEF StopLocks, ReadyIsMonitored, MonitorInv

\* A successful start replaces the monitor: the previous one is cancelled.
LEMMA MonitorReplaced ==
  ASSUME TypeOK, MonitorInv, NEW t \in Threads, StartSucceeds(t)
  PROVE  MonitorInv'
<1> DEFINE there == IF t \in Callers /\ op[t] = "infer"
                    THEN "ensured" ELSE "idle"
<1>1. PICK l \in Loops : StartHealthMonitor(t, l, there)
  BY DEF StartSucceeds
<1>2. pc' = [pc EXCEPT ![t] = there, ![l] = "tick"]
  BY <1>1 DEF StartHealthMonitor
<1>3. there \notin {"tick", "probe", "crash"}
  OBVIOUS
<1>4. pc'[l] = "tick" /\ \A k \in Loops : k # l /\ Monitoring(k)' => Monitoring(k)
  BY <1>2, <1>3 DEF Monitoring, Threads, TypeOK
<1>5. /\ stopHealth' = l
      /\ healthCtx' = l
      /\ ~ctxDone'[l]
      /\ \A k \in Loops :
           k # l => (ctxDone'[k] <=> ctxDone[k] \/ k = stopHealth)
  BY <1>1 DEF StartHealthMonitor, Cancelled
<1>6. OneLiveMonitor'
  BY <1>4, <1>5 DEF OneLiveMonitor, MonitorInv
<1>7. ReadyIsMonitored'
  BY <1>4, <1>5 DEF ReadyIsMonitored, Monitoring
<1> QED
  BY <1>6, <1>7 DEF MonitorInv

LEMMA MonitorNext == TypeOK /\ MonitorInv /\ [Next]_vars => MonitorInv'
<1> SUFFICES ASSUME TypeOK, MonitorInv, [Next]_vars PROVE MonitorInv'
  OBVIOUS
<1> USE DEF Goto, lifecycle
<1>1. ASSUME NEW c \in Callers, CallerNext(c) PROVE MonitorInv'
  <2>1. ASSUME NEW o \in {"ensure", "infer"}, EnsureReady(c, o)
        PROVE  MonitorInv'
    BY <2>1, MonitorStaysOther DEF EnsureReady
  <2>2. ASSUME NEW o \in {"ensure", "infer"}, EnsureStart(c, o)
        PROVE  MonitorInv'
    BY <2>2, MonitorStaysOther DEF EnsureStart, StartLocked
  <2>3. CASE EnsureStarting(c)
    BY <2>3, MonitorStaysOther DEF EnsureStarting
  <2>4. CASE InferBegin(c)
    BY <2>4, MonitorStaysOther DEF InferBegin
  <2>5. CASE InferEnd(c)
    BY <2>5, MonitorStaysOther DEF InferEnd
  <2>6. ASSUME NEW o \in {"stop", "shutdown"}, CallStop(c, o)
        PROVE  MonitorInv'
    BY <2>6, MonitorStopped DEF CallStop
  <2>7. CASE ShutdownSkipsStop(c)
    BY <2>7, MonitorStaysOther DEF ShutdownSkipsStop
  <2>8. CASE CloseEvents(c)
    BY <2>8, MonitorStaysOther DEF CloseEvents
  <2> QED
    BY <1>1, <2>1, <2>2, <2>3, <2>4, <2>5, <2>6, <2>7, <2>8 DEF CallerNext
<1>2. ASSUME NEW l \in Loops, LoopNext(l) PROVE MonitorInv'
  <2> USE DEF Monitoring, Threads
  <2>1. CASE LoopExits(l)
    BY <2>1, MonitorStays DEF LoopExits
  <2>2. CASE Tick(l)
    BY <2>2, MonitorStays DEF Tick
  <2>3. CASE ProbeSucceeds(l)
    BY <2>3, MonitorStays DEF ProbeSucceeds
  <2>4. CASE ProbeFails(l)
    BY <2>4, MonitorStays DEF ProbeFails
  <2>5. CASE HandleCrash(l)
    BY <2>5, MonitorStays DEF HandleCrash
  <2>6. CASE GiveUp(l)
    BY <2>6, MonitorStays DEF GiveUp
  <2>7. CASE ReadHealthCtx(l)
    BY <2>7, MonitorStays DEF ReadHealthCtx
  <2>8. CASE BackoffCancelled(l)
    BY <2>8, MonitorStays DEF BackoffCancelled
  <2>9. CASE BackoffElapses(l)
    BY <2>9, MonitorStays DEF BackoffElapses
  <2>10. CASE Restart(l)
    BY <2>10, MonitorStays DEF Restart, StartLocked
  <2> QED
    BY <1>2, <2>1, <2>2, <2>3, <2>4, <2>5, <2>6, <2>7, <2>8, <2>9, <2>10
       DEF LoopNext
<1>3. ASSUME NEW t \in Timers, TimerFires(t) PROVE MonitorInv'
  BY <1>3, MonitorStaysOther DEF TimerFires
<1>4. ASSUME NEW t \in Timers, IdleStop(t) PROVE MonitorInv'
  BY <1>4, MonitorStopped, MonitorStaysOther DEF IdleStop
<1>5. ASSUME NEW t \in Threads, StartNext(t) PROVE MonitorInv'
  <2>1. CASE CallProviderStart(t)
    BY <2>1, MonitorStays DEF CallProviderStart, Monitoring
  <2>2. CASE ProviderStart(t)
    BY <2>2, MonitorStays DEF ProviderStart, Monitoring
  <2>3. CASE StartSucceeds(t)
    BY <2>3, MonitorReplaced
  <2>4. CASE StartFails(t)
    BY <2>4, MonitorStays DEF StartFails, Monitoring
  <2> QED
    BY <1>5, <2>1, <2>2, <2>3, <2>4 DEF StartNext
<1>6. ASSUME NEW t \in Threads, StopNext(t) PROVE MonitorInv'
  <2>1. CASE ProviderStop(t)
    BY <2>1, MonitorStays DEF ProviderStop, Monitoring
  <2>2. CASE StopReturns(t)
    BY <2>2, MonitorStays DEF StopReturns, Monitoring
  <2> QED
    BY <1>6, <2>1, <2>2 DEF StopNext
<1>7. ASSUME UNCHANGED <<pc, state, monitor>> PROVE MonitorInv'
  BY <1>7
     DEF MonitorInv, OneLiveMonitor, ReadyIsMonitored, Monitoring, monitor
<1> QED
  BY <1>1, <1>2, <1>3, <1>4, <1>5, <1>6, <1>7
     DEF Next, ThreadNext, SetProvider, ServerDies, vars, monitor

LEMMA MonitorCorrect == Spec => []MonitorInv
<1>1. Init => MonitorInv
  BY DEF Init, MonitorInv, OneLiveMonitor, ReadyIsMonitored, Monitoring,
         Threads
<1> QED
  BY <1>1, MonitorNext, TypeCorrect, PTL DEF Spec

\* No overlap of starts, stops and recoveries leaves two live monitors, or one
\* that Stop could not cancel.
THEOREM OneMonitor == Spec => []OneLiveMonitor
BY MonitorCorrect, PTL DEF MonitorInv

\* An engine the manager reports as ready is watched by a live monitor.
THEOREM ReadyEngineIsMonitored == Spec => []ReadyIsMonitored
BY MonitorCorrect, PTL DEF MonitorInv

-------------------------------------------------------------------------------
(* A ready engine will be stopped when idle.                               *)

\* The idle stop survives a step that makes the engine ready no more than it
\* was, leaves the timer armed if it was, and takes no timer goroutine from
\* where it is about to call Stop.
LEMMA IdleStopStays ==
  ASSUME ReadyStopsWhenIdle,
         state' = "ready" => state = "ready",
         idleTimer => idleTimer',
         \A t \in Timers : pc[t] = "fired" => pc'[t] = "fired"
  PROVE  ReadyStopsWhenIdle'
BY DEF ReadyStopsWhenIdle

LEMMA IdleStopNext == TypeOK /\ ReadyStopsWhenIdle /\ [Next]_vars
                      => ReadyStopsWhenIdle'
<1> SUFFICES ASSUME TypeOK, ReadyStopsWhenIdle, [Next]_vars
             PROVE  ReadyStopsWhenIdle'
  OBVIOUS
<1>1. ASSUME state' # "ready" PROVE ReadyStopsWhenIdle'
  BY <1>1 DEF ReadyStopsWhenIdle
<1>2. ASSUME ResetIdleTimer PROVE ReadyStopsWhenIdle'
  BY <1>2 DEF ReadyStopsWhenIdle, ResetIdleTimer
\* A goroutine of another kind, which arms or leaves the timer.
<1>3. ASSUME NEW t \in Callers \cup Loops, NEW there,
             pc' = [pc EXCEPT ![t] = there], idleTimer' = idleTimer,
             state' = "ready" => state = "ready"
      PROVE  ReadyStopsWhenIdle'
  <2>1. \A u \in Timers : pc'[u] = pc[u]
    BY <1>3, ThreadKindsDisjoint DEF TypeOK, Threads
  <2> QED
    BY <1>3, <2>1, IdleStopStays
<1> USE DEF Goto, lifecycle
<1>4. ASSUME NEW c \in Callers, CallerNext(c) PROVE ReadyStopsWhenIdle'
  <2>1. ASSUME NEW o \in {"ensure", "infer"}, EnsureReady(c, o)
        PROVE  ReadyStopsWhenIdle'
    BY <2>1, <1>2 DEF EnsureReady
  <2>2. ASSUME NEW o \in {"ensure", "infer"}, EnsureStart(c, o)
        PROVE  ReadyStopsWhenIdle'
    BY <2>2, <1>1 DEF EnsureStart, StartLocked
  <2>3. CASE EnsureStarting(c)
    BY <2>3, <1>3 DEF EnsureStarting
  <2>4. CASE InferBegin(c)
    BY <2>4, <1>3 DEF InferBegin
  <2>5. CASE InferEnd(c)
    BY <2>5, <1>2 DEF InferEnd
  <2>6. ASSUME NEW o \in {"stop", "shutdown"}, CallStop(c, o)
        PROVE  ReadyStopsWhenIdle'
    BY <2>6, <1>1 DEF CallStop, StopLocks
  <2>7. CASE ShutdownSkipsStop(c)
    BY <2>7, <1>3 DEF ShutdownSkipsStop
  <2>8. CASE CloseEvents(c)
    BY <2>8, <1>3 DEF CloseEvents
  <2> QED
    BY <1>4, <2>1, <2>2, <2>3, <2>4, <2>5, <2>6, <2>7, <2>8 DEF CallerNext
<1>5. ASSUME NEW l \in Loops, LoopNext(l) PROVE ReadyStopsWhenIdle'
  <2>1. CASE LoopExits(l)
    BY <2>1, <1>3 DEF LoopExits
  <2>2. CASE Tick(l)
    BY <2>2, <1>3 DEF Tick
  <2>3. CASE ProbeSucceeds(l)
    BY <2>3, <1>3 DEF ProbeSucceeds
  <2>4. CASE ProbeFails(l)
    BY <2>4, <1>3 DEF ProbeFails
  <2>5. CASE HandleCrash(l)
    BY <2>5, <1>1 DEF HandleCrash
  <2>6. CASE GiveUp(l)
    BY <2>6, <1>1 DEF GiveUp
  <2>7. CASE ReadHealthCtx(l)
    BY <2>7, <1>3 DEF ReadHealthCtx
  <2>8. CASE BackoffCancelled(l)
    BY <2>8, <1>3 DEF BackoffCancelled
  <2>9. CASE BackoffElapses(l)
    BY <2>9, <1>3 DEF BackoffElapses
  <2>10. CASE Restart(l)
    BY <2>10, <1>1, <1>3 DEF Restart, StartLocked
  <2> QED
    BY <1>5, <2>1, <2>2, <2>3, <2>4, <2>5, <2>6, <2>7, <2>8, <2>9, <2>10
       DEF LoopNext
\* The timer that runs out hands over to its goroutine ...
<1>6. ASSUME NEW t \in Timers, TimerFires(t) PROVE ReadyStopsWhenIdle'
  <2>1. pc'[t] = "fired"
    BY <1>6 DEF TimerFires, TypeOK, Threads
  <2> QED
    BY <2>1 DEF ReadyStopsWhenIdle
\* ... whose Stop finds the engine ready and takes it down, or not ready.
<1>7. ASSUME NEW t \in Timers, IdleStop(t) PROVE ReadyStopsWhenIdle'
  BY <1>7, <1>1 DEF IdleStop, StopLocks
<1>8. ASSUME NEW t \in Threads, StartNext(t) PROVE ReadyStopsWhenIdle'
  <2>1. pc[t] \in StartPCs => t \in Callers \cup Loops
    BY DEF TypeOK, Threads, TimerPCs, StartPCs, StopPCs
  <2> USE DEF StartPCs
  <2>2. CASE CallProviderStart(t)
    BY <2>1, <2>2, <1>3 DEF CallProviderStart
  <2>3. CASE ProviderStart(t)
    BY <2>1, <2>3, <1>3 DEF ProviderStart
  <2>4. CASE StartSucceeds(t)
    BY <2>4, <1>2 DEF StartSucceeds
  <2>5. CASE StartFails(t)
    BY <2>5, <1>1 DEF StartFails
  <2> QED
    BY <1>8, <2>2, <2>3, <2>4, <2>5 DEF StartNext
<1>9. ASSUME NEW t \in Threads, StopNext(t) PROVE ReadyStopsWhenIdle'
  <2>1. CASE ProviderStop(t)
    <3>1. \A u \in Timers : pc[u] = "fired" => pc'[u] = "fired"
      BY <2>1 DEF ProviderStop, TypeOK, Threads
    <3> QED
      BY <2>1, <3>1, IdleStopStays DEF ProviderStop
  <2>2. CASE StopReturns(t)
    BY <2>2, <1>1 DEF StopReturns
  <2> QED
    BY <1>9, <2>1, <2>2 DEF StopNext
<1>10. ASSUME pc' = pc, state' = state, idleTimer' = idleTimer
       PROVE  ReadyStopsWhenIdle'
  BY <1>10, IdleStopStays
<1> QED
  BY <1>4, <1>5, <1>6, <1>7, <1>8, <1>9, <1>10
     DEF Next, ThreadNext, SetProvider, ServerDies, vars

\* A ready engine that is not kept alive always has its idle stop ahead of it.
THEOREM ReadyEngineStopsWhenIdle == Spec => []ReadyStopsWhenIdle
<1>1. Init => ReadyStopsWhenIdle
  BY DEF Init, ReadyStopsWhenIdle
<1> QED
  BY <1>1, IdleStopNext, TypeCorrect, PTL DEF Spec

-------------------------------------------------------------------------------
(* The restart budget.                                                     *)

\* RestartBudget is not inductive: a recovery that sleeps will start the
\* provider later.  Every such start was paid for by an increment of
\* restartCount, and none is promised once the count exceeds the limit.
Recovering == {l \in Loops : pc[l] \in {"readctx", "backoff", "woken"}}
Promised == autoStarts + Cardinality(Recovering)

BudgetInv ==
    /\ Promised <= restartCount
    /\ restartCount > MaxRestarts => Promised <= MaxRestarts

LEMMA RecoveringFinite == IsFiniteSet(Recovering) /\ Cardinality(Recovering) \in Nat
<1>1. IsFiniteSet(Recovering)
  BY FinitelyManyLoops, FS_Subset DEF Recovering
<1> QED
  BY <1>1, FS_CardinalityType

\* Nothing is spent while the goroutines that recover and the counts stay.
LEMMA BudgetStays ==
  ASSUME BudgetInv, Recovering' = Recovering,
         autoStarts' = autoStarts, restartCount' = restartCount
  PROVE  BudgetInv'
BY DEF BudgetInv, Promised

\* A goroutine that moves outside a recovery leaves the recoveries alone.
LEMMA RecoveringStays ==
  ASSUME TypeOK, NEW t \in Threads, NEW there,
         pc' = [pc EXCEPT ![t] = there],
         t \in Loops => (pc[t] \in {"readctx", "backoff", "woken"}
                           <=> there \in {"readctx", "backoff", "woken"})
  PROVE  Recovering' = Recovering
<1>1. \A l \in Loops : pc'[l] = IF l = t THEN there ELSE pc[l]
  BY DEF TypeOK, Threads
<1> QED
  BY <1>1 DEF Recovering

\* A goroutine that leaves its recovery frees its share of the budget; at
\* most one start is made of it.
LEMMA RecoveryEnds ==
  ASSUME TypeOK, BudgetInv, NEW l \in Recovering, NEW there,
         there \notin {"readctx", "backoff", "woken"},
         pc' = [pc EXCEPT ![l] = there],
         autoStarts' \in {autoStarts, autoStarts + 1},
         restartCount' = restartCount
  PROVE  BudgetInv'
<1>1. \A k \in Loops : pc'[k] = IF k = l THEN there ELSE pc[k]
  BY DEF TypeOK, Threads, Recovering
<1>2. Recovering' = Recovering \ {l}
  BY <1>1 DEF Recovering
<1>3. Cardinality(Recovering') = Cardinality(Recovering) - 1
  BY <1>2, RecoveringFinite, FS_RemoveElement
<1>4. /\ Cardinality(Recovering) \in Nat
      /\ autoStarts \in Nat
      /\ restartCount \in Nat
      /\ MaxRestarts \in Nat
  BY RecoveringFinite, ConfigTypes DEF TypeOK
<1>5. Promised' <= Promised
  BY <1>3, <1>4 DEF Promised
<1>6. Promised \in Nat /\ Promised' \in Int
  BY <1>3, <1>4 DEF Promised
<1> QED
  BY <1>4, <1>5, <1>6 DEF BudgetInv

LEMMA BudgetCrash ==
  ASSUME TypeOK, BudgetInv, NEW l \in Loops, HandleCrash(l)
  PROVE  BudgetInv'
<1> DEFINE there == IF restartCount' > MaxRestarts THEN "giveup" ELSE "readctx"
<1>1. pc[l] = "crash" /\ pc' = [pc EXCEPT ![l] = there]
      /\ autoStarts' = autoStarts
  BY DEF HandleCrash, Goto
<1>2. \A k \in Loops : pc'[k] = IF k = l THEN there ELSE pc[k]
  BY <1>1 DEF TypeOK, Threads
<1>3. /\ Cardinality(Recovering) \in Nat
      /\ autoStarts \in Nat
      /\ restartCount \in 0 .. MaxRestarts + 1
      /\ MaxRestarts \in Nat
  BY RecoveringFinite, ConfigTypes DEF TypeOK
<1>4. restartCount' = IF restartCount > MaxRestarts
                      THEN restartCount ELSE restartCount + 1
  BY DEF HandleCrash
<1>5. CASE restartCount' > MaxRestarts
  <2>1. Recovering' = Recovering
    BY <1>1, <1>2, <1>5 DEF Recovering
  <2>2. Promised' = Promised /\ Promised \in Nat
    BY <2>1, <1>1, <1>3 DEF Promised
  <2> QED
    BY <2>2, <1>3, <1>4, <1>5 DEF BudgetInv
<1>6. CASE ~(restartCount' > MaxRestarts)
  <2>1. Recovering' = Recovering \cup {l} /\ l \notin Recovering
    BY <1>1, <1>2, <1>6 DEF Recovering
  <2>2. Cardinality(Recovering') = Cardinality(Recovering) + 1
    BY <2>1, RecoveringFinite, FS_AddElement
  <2>3. Promised' = Promised + 1 /\ Promised \in Nat
    BY <2>2, <1>1, <1>3 DEF Promised
  <2>4. restartCount' = restartCount + 1
    BY <1>3, <1>4, <1>6
  <2> QED
    BY <2>3, <2>4, <1>3, <1>6 DEF BudgetInv
<1> QED
  BY <1>5, <1>6

LEMMA BudgetNext == TypeOK /\ BudgetInv /\ [Next]_vars => BudgetInv'
<1> SUFFICES ASSUME TypeOK, BudgetInv, [Next]_vars PROVE BudgetInv'
  OBVIOUS
<1> USE DEF Goto, lifecycle
<1>1. ASSUME NEW t \in Callers \cup Timers, NEW there,
             pc' = [pc EXCEPT ![t] = there],
             UNCHANGED <<restartCount, autoStarts>>
      PROVE  BudgetInv'
  BY <1>1, RecoveringStays, BudgetStays, ThreadKindsDisjoint DEF Threads
<1>2. ASSUME NEW c \in Callers, CallerNext(c) PROVE BudgetInv'
  BY <1>1, <1>2
     DEF CallerNext, EnsureReady, EnsureStart, StartLocked, EnsureStarting,
         InferBegin, InferEnd, CallStop, StopLocks, ShutdownSkipsStop,
         CloseEvents
<1>3. ASSUME NEW t \in Timers, TimerFires(t) \/ IdleStop(t) PROVE BudgetInv'
  BY <1>1, <1>3 DEF TimerFires, IdleStop, StopLocks
<1>4. ASSUME NEW l \in Loops, LoopNext(l) PROVE BudgetInv'
  <2> USE DEF Threads
  <2>1. CASE LoopExits(l)
    BY <2>1, RecoveringStays, BudgetStays DEF LoopExits
  <2>2. CASE Tick(l)
    BY <2>2, RecoveringStays, BudgetStays DEF Tick
  <2>3. CASE ProbeSucceeds(l)
    BY <2>3, RecoveringStays, BudgetStays DEF ProbeSucceeds
  <2>4. CASE ProbeFails(l)
    BY <2>4, RecoveringStays, BudgetStays DEF ProbeFails
  <2>5. CASE HandleCrash(l)
    BY <2>5, BudgetCrash
  <2>6. CASE GiveUp(l)
    BY <2>6, RecoveringStays, BudgetStays DEF GiveUp
  <2>7. CASE ReadHealthCtx(l)
    <3>1. CASE ctxDone[healthCtx]
      BY <2>7, <3>1, RecoveryEnds DEF ReadHealthCtx, Recovering
    <3>2. CASE ~ctxDone[healthCtx]
      BY <2>7, <3>2, RecoveringStays, BudgetStays DEF ReadHealthCtx
    <3> QED
      BY <3>1, <3>2
  <2>8. CASE BackoffCancelled(l)
    BY <2>8, RecoveryEnds DEF BackoffCancelled, Recovering
  <2>9. CASE BackoffElapses(l)
    BY <2>9, RecoveringStays, BudgetStays DEF BackoffElapses
  <2>10. CASE Restart(l)
    BY <2>10, RecoveryEnds DEF Restart, StartLocked, Recovering
  <2> QED
    BY <1>4, <2>1, <2>2, <2>3, <2>4, <2>5, <2>6, <2>7, <2>8, <2>9, <2>10
       DEF LoopNext
<1>5. ASSUME NEW t \in Threads, StartNext(t) PROVE BudgetInv'
  <2>1. CASE CallProviderStart(t)
    BY <2>1, RecoveringStays, BudgetStays DEF CallProviderStart
  <2>2. CASE ProviderStart(t)
    BY <2>2, RecoveringStays, BudgetStays DEF ProviderStart
  <2>3. CASE StartSucceeds(t)
    <3> DEFINE there == IF t \in Callers /\ op[t] = "infer"
                        THEN "ensured" ELSE "idle"
    <3>1. PICK l \in Loops : StartHealthMonitor(t, l, there)
      BY <2>3 DEF StartSucceeds
    <3>2. /\ pc[t] = "startok"
          /\ pc[l] = "idle" \/ l = t
          /\ pc' = [pc EXCEPT ![t] = there, ![l] = "tick"]
      BY <2>3, <3>1 DEF StartSucceeds, StartHealthMonitor, Free
    <3>3. there \notin {"readctx", "backoff", "woken"}
      OBVIOUS
    <3>4. \A k \in Loops : pc'[k] = IF k = l THEN "tick"
                                   ELSE IF k = t THEN there ELSE pc[k]
      BY <3>2 DEF TypeOK, Threads
    <3>5. ASSUME NEW k \in Loops
          PROVE  pc'[k] \in {"readctx", "backoff", "woken"}
                   <=> pc[k] \in {"readctx", "backoff", "woken"}
      <4>1. CASE k = l
        <5>1. pc'[k] = "tick"
          BY <3>4, <4>1
        <5>2. pc[k] = "idle" \/ pc[k] = "startok"
          BY <3>2, <4>1
        <5> QED
          BY <5>1, <5>2
      <4>2. CASE k # l /\ k = t
        BY <3>2, <3>3, <3>4, <4>2
      <4>3. CASE k # l /\ k # t
        BY <3>4, <4>3
      <4> QED
        BY <4>1, <4>2, <4>3
    <3>6. Recovering' = Recovering
      BY <3>5 DEF Recovering
    <3> QED
      BY <2>3, <3>6, BudgetStays DEF StartSucceeds
  <2>4. CASE StartFails(t)
    BY <2>4, RecoveringStays, BudgetStays DEF StartFails
  <2> QED
    BY <1>5, <2>1, <2>2, <2>3, <2>4 DEF StartNext
<1>6. ASSUME NEW t \in Threads, StopNext(t) PROVE BudgetInv'
  BY <1>6, RecoveringStays, BudgetStays DEF StopNext, ProviderStop, StopReturns
<1>7. ASSUME UNCHANGED <<pc, autoStarts, restartCount>> PROVE BudgetInv'
  BY <1>7, BudgetStays DEF Recovering
<1> QED
  BY <1>2, <1>3, <1>4, <1>5, <1>6, <1>7
     DEF Next, ThreadNext, SetProvider, ServerDies, vars

\* Crash recovery starts the provider at most MaxRestarts times.
THEOREM RestartsAreBounded == Spec => []RestartBudget
<1>1. Init => BudgetInv
  <2> SUFFICES ASSUME Init PROVE BudgetInv
    OBVIOUS
  <2>1. Recovering = {}
    BY DEF Init, Recovering, Threads
  <2>2. Cardinality(Recovering) = 0
    BY <2>1, FS_EmptySet
  <2> QED
    BY <2>2, ConfigTypes DEF Init, BudgetInv, Promised
<1>2. TypeOK /\ BudgetInv => RestartBudget
  BY RecoveringFinite, ConfigTypes
     DEF TypeOK, BudgetInv, Promised, RestartBudget
<1> QED
  BY <1>1, <1>2, BudgetNext, TypeCorrect, PTL DEF Spec

-------------------------------------------------------------------------------
(* The stages.  An invariant of what a run has in hand carries the rest.   *)

\* Every inference under way was sent with the snapshot of its stage, unless
\* the snapshot was empty.
SentAsStamped ==
    \A r \in Runs : step[r] \in {"scoring", "ranking"} /\ mine[r] # Empty =>
        sent[r] = mine[r]

\* What SelectedAreDescribed says when a stage ends, while it is at work: the
\* photos it is done with have their rows.
Described(r) ==
    \A p \in chosen[r] : p \notin excused[r] /\ p \notin todo[r] =>
        scores[p] # NoRow /\ scores[p].hash = mine[r]

DoneAreDescribed ==
    \A r \in Runs :
        /\ step[r] \in {"idle", "prepare"} => chosen[r] = {}
        /\ step[r] \in {"describe", "scoring"} => Described(r)

StagesIInv ==
    /\ StagesTypeOK
    /\ SentAsStamped
    /\ RowsAgree
    /\ RankingsAreWhole
    /\ DoneAreDescribed

-------------------------------------------------------------------------------

\* Nothing is in the tables and nobody is at work.
LEMMA InitStages == StagesInit => StagesIInv
<1> SUFFICES ASSUME StagesInit PROVE StagesIInv
  OBVIOUS
<1> USE DEF StagesInit
<1>1. StagesTypeOK
  <2>1. rankings \in [Labels -> [Photos -> Instructions \cup {NoRow}]]
    OBVIOUS
  <2>2. /\ clusters \in [Labels -> SUBSET Photos]
        /\ scores \in [Photos -> Row \cup {NoRow}]
        /\ groups \in [Labels -> GroupRow \cup {NoRow}]
    OBVIOUS
  <2>3. /\ step \in [Runs -> Steps] /\ mine \in [Runs -> Instructions]
        /\ todo \in [Runs -> SUBSET Photos]
        /\ hand \in [Runs -> Photos \cup Labels \cup {NoRow}]
        /\ sent \in [Runs -> Instructions]
        /\ pending \in [Runs -> SUBSET Labels]
        /\ cached \in [Runs -> SUBSET Labels]
        /\ chosen \in [Runs -> SUBSET Photos]
        /\ excused \in [Runs -> SUBSET Photos]
    BY EmptyIsOne DEF Steps
  <2>4. /\ disturbances \in 0 .. MaxDisturbances
        /\ instructions \in Instructions
        /\ \A r \in Runs : step[r] = "idle"
    BY Numbers, EmptyIsOne
  <2>5. cut \in BOOLEAN
    BY Zenon
  <2> QED
    BY <2>1, <2>2, <2>3, <2>4, <2>5 DEF StagesTypeOK
<1>2. SentAsStamped /\ DoneAreDescribed
  BY DEF SentAsStamped, DoneAreDescribed
<1>3. RowsAgree /\ RankingsAreWhole
  BY DEF RowsAgree, RankingsAreWhole
<1>4. QED
  BY <1>1, <1>2, <1>3 DEF StagesIInv

-------------------------------------------------------------------------------

\* The types survive every step.
LEMMA StepsTyped ==
    ASSUME StagesTypeOK, [StagesNext]_stagesVars
    PROVE  StagesTypeOK'
<1> USE DEF StagesTypeOK, tables, context, stage4, stage5
<1>1. ASSUME NEW r \in Runs, Analyze(r) PROVE StagesTypeOK'
  BY <1>1, Numbers DEF Analyze, StepTo, Steps, Disturb
<1>2. ASSUME CancelAIAnalysis PROVE StagesTypeOK'
  BY <1>2, Numbers DEF CancelAIAnalysis, Disturb
<1>3. ASSUME NEW r \in Runs, EndOf(r)
      PROVE  /\ step' \in [Runs -> Steps] /\ cancelled' \subseteq Runs
             /\ mine' \in [Runs -> Instructions]
             /\ todo' \in [Runs -> SUBSET Photos]
             /\ hand' \in [Runs -> Photos \cup Labels \cup {NoRow}]
             /\ \A q \in Runs : step'[q] = "scoring" => hand'[q] \in todo'[q]
             /\ \A q \in Runs : step'[q] = "ranking" => hand'[q] \in pending'[q]
             /\ sent' \in [Runs -> Instructions]
             /\ pending' \in [Runs -> SUBSET Labels]
             /\ cached' \in [Runs -> SUBSET Labels]
             /\ ranks' \subseteq Runs
             /\ chosen' \in [Runs -> SUBSET Photos]
             /\ excused' \in [Runs -> SUBSET Photos]
  BY <1>3, EmptyIsOne DEF EndOf, StepTo, Steps
<1>4. ASSUME NEW with \in SUBSET Photos, NEW c \in Clusterings(with)
      PROVE  c \in [Labels -> SUBSET Photos]
  BY <1>4 DEF Clusterings
<1>5. ASSUME NEW r \in Runs PROVE Replaces(r) \subseteq Runs
  BY DEF Replaces
<1>6. ASSUME NEW r \in Runs, NothingToScore(r) PROVE StagesTypeOK'
  <2>1. clusters' \in [Labels -> SUBSET Photos]
    BY <1>6, <1>4 DEF NothingToScore
  <2>2. replaced' \subseteq Runs /\ analysisCancel' \in Runs \cup {NoRun}
    BY <1>6, <1>5 DEF NothingToScore
  <2> QED
    BY <1>6, <1>3, <2>1, <2>2 DEF NothingToScore
<1>7. ASSUME NEW r \in Runs, NEW s \in SUBSET Photos, Prepare(r, s)
      PROVE  StagesTypeOK'
  <2>1. known' \subseteq Photos /\ dated' \subseteq known'
    BY <1>7 DEF Prepare
  <2>2. clusters' \in [Labels -> SUBSET Photos]
    BY <1>7, <1>4, <2>1 DEF Prepare
  <2>3. /\ todo' \in [Runs -> SUBSET Photos]
        /\ chosen' \in [Runs -> SUBSET Photos]
    <3>1. CASE VLMEnabled
      <4>1. PICK t \in Selections(Photos \ dated, Cardinality(s)) :
               /\ todo' = [todo EXCEPT ![r] = t]
               /\ chosen' = [chosen EXCEPT ![r] = t]
        BY <1>7, <3>1 DEF Prepare
      <4>2. t \in SUBSET Photos
        BY <4>1 DEF Selections
      <4> QED
        BY <4>1, <4>2
    <3>2. CASE ~VLMEnabled
      BY <1>7, <3>2 DEF Prepare
    <3> QED
      BY <3>1, <3>2
  <2>4. /\ replaced' \subseteq Runs /\ ranks' \subseteq Runs
        /\ disturbances' \in 0 .. MaxDisturbances
    BY <1>7, <1>5, Numbers DEF Prepare, Disturb
  <2>5. /\ step' = [step EXCEPT ![r] = "describe"]
        /\ mine' \in [Runs -> Instructions]
        /\ UNCHANGED <<instructions, scores, groups, rankings, context, hand,
                       sent, pending, cached, excused, cut>>
    BY <1>7 DEF Prepare, StepTo
  <2>6. \A q \in Runs : step'[q] = "scoring" => q # r /\ todo'[q] = todo[q]
    BY <1>7, <2>5 DEF Prepare
  <2> QED
    BY <2>1, <2>2, <2>3, <2>4, <2>5, <2>6 DEF Steps
<1>8. ASSUME NEW r \in Runs, Leave(r) PROVE StagesTypeOK'
  BY <1>8, <1>3 DEF Leave
<1>9. ASSUME NEW r \in Runs, NEW p \in Photos, Hit(r, p) PROVE StagesTypeOK'
  BY <1>9 DEF Hit
<1>10. ASSUME NEW r \in Runs
       PROVE Stamped(r) \in Instructions
  BY DEF Stamped
<1>11. ASSUME NEW r \in Runs, NEW p \in Photos, CallScorePhoto(r, p)
       PROVE  StagesTypeOK'
  BY <1>11, <1>10 DEF CallScorePhoto, StepTo, Steps, ToDescribe
<1>12. ASSUME NEW runs, NEW photos \in SUBSET Photos, Excuse(runs, photos)
       PROVE  excused' \in [Runs -> SUBSET Photos]
  BY <1>12 DEF Excuse
<1>13. ASSUME NEW r \in Runs, SaveVLMScore(r) PROVE StagesTypeOK'
  <2>1. hand[r] \in Photos
    BY <1>13 DEF SaveVLMScore
  <2>2. scores' \in [Photos -> Row \cup {NoRow}]
    BY <1>13, <2>1 DEF SaveVLMScore, Row, Claimed
  <2>3. excused' \in [Runs -> SUBSET Photos]
    BY <1>13, <1>12, <2>1 DEF SaveVLMScore
  <2> QED
    <3>1. /\ step[r] = "scoring" /\ step' = [step EXCEPT ![r] = "describe"]
          /\ todo' = [todo EXCEPT ![r] = todo[r] \ {hand[r]}]
          /\ hand' = [hand EXCEPT ![r] = NoRow]
          /\ UNCHANGED <<disturbances, instructions, known, dated, clusters, groups,
                         rankings, context, mine, sent, stage5, chosen, cut>>
      BY <1>13 DEF SaveVLMScore, StepTo
    <3>2. "describe" \in Steps
      BY DEF Steps
    <3>3. /\ step' \in [Runs -> Steps] /\ todo' \in [Runs -> SUBSET Photos]
          /\ hand' \in [Runs -> Photos \cup Labels \cup {NoRow}]
      BY <3>1, <3>2
    <3>4. \A q \in Runs : /\ step'[q] = "scoring" => hand'[q] \in todo'[q]
                          /\ step'[q] = "ranking" => hand'[q] \in pending'[q]
      BY <3>1
    <3> QED
      BY <2>2, <2>3, <3>1, <3>3, <3>4
<1>14. ASSUME NEW r \in Runs, ScoreFails(r) PROVE StagesTypeOK'
  <2>1. hand[r] \in Photos
    BY <1>14 DEF ScoreFails
  <2>2. excused' \in [Runs -> SUBSET Photos]
    BY <1>14, <1>12, <2>1 DEF ScoreFails
  <2>3. disturbances' \in 0 .. MaxDisturbances
    BY <1>14, Numbers DEF ScoreFails, Disturb
  <2> QED
    BY <1>14, <2>2, <2>3 DEF ScoreFails, StepTo, Steps
<1>15. ASSUME NEW r \in Runs, BeginRanking(r) PROVE StagesTypeOK'
  <2>1. CachedRankings \in SUBSET Labels
    BY DEF CachedRankings
  <2> QED
    BY <1>15, <2>1 DEF BeginRanking, StepTo, Steps
<1>16. ASSUME NEW r \in Runs, NEW l \in Labels, SkipCluster(r, l)
       PROVE  StagesTypeOK'
  BY <1>16 DEF SkipCluster
<1>17. ASSUME NEW r \in Runs, NEW l \in Labels, CallRankPhotos(r, l)
       PROVE  StagesTypeOK'
  BY <1>17, <1>10 DEF CallRankPhotos, StepTo, Steps
<1>18. ASSUME NEW r \in Runs, NEW s \in SUBSET Photos, SaveVLMRanking(r, s)
       PROVE  StagesTypeOK'
  <2>1. hand[r] \in Labels
    BY <1>18 DEF SaveVLMRanking
  <2>2. groups' \in [Labels -> GroupRow \cup {NoRow}]
    BY <1>18, <2>1 DEF SaveVLMRanking, GroupRow, Claimed
  <2>3. Ranked(hand[r], s, Claimed(r)) \in [Photos -> Instructions \cup {NoRow}]
    BY <2>1 DEF Ranked, Claimed
  <2>4. rankings' \in [Labels -> [Photos -> Instructions \cup {NoRow}]]
    BY <1>18, <2>1, <2>3 DEF SaveVLMRanking
  <2> QED
    BY <1>18, <2>2, <2>4 DEF SaveVLMRanking, StepTo, Steps
<1>19. ASSUME NEW r \in Runs, RankFails(r) PROVE StagesTypeOK'
  BY <1>19, Numbers DEF RankFails, StepTo, Steps, Disturb
<1>20. ASSUME NEW r \in Runs, Complete(r) PROVE StagesTypeOK'
  BY <1>20, <1>3 DEF Complete
<1>21. ASSUME NEW i \in Instructions, SetVLMCustomInstructions(i)
       PROVE  StagesTypeOK'
  BY <1>21, Numbers DEF SetVLMCustomInstructions, Disturb
<1>22. ASSUME NEW p \in Photos, Edit(p) PROVE StagesTypeOK'
  BY <1>22, Numbers DEF Edit, Disturb
<1>23. ASSUME ClearVLMData PROVE StagesTypeOK'
  BY <1>23, <1>12, Numbers DEF ClearVLMData, ClearedVLMData, Disturb
<1>24. ASSUME ClearAIData PROVE StagesTypeOK'
  BY <1>24, <1>12, Numbers DEF ClearAIData, ClearedVLMData, Disturb
<1>25. ASSUME NEW last \in 1 .. 3, ClearAllVLMData(last) PROVE StagesTypeOK'
  BY <1>25, <1>12, Numbers DEF ClearAllVLMData, Disturb
<1>26. ASSUME Crash PROVE StagesTypeOK'
  BY <1>26, Numbers, EmptyIsOne DEF Crash, Disturb, Steps
<1>27. CASE UNCHANGED stagesVars
  BY <1>27 DEF stagesVars
<1> QED
  BY <1>1, <1>2, <1>6, <1>7, <1>8, <1>9, <1>11, <1>13, <1>14, <1>15, <1>16,
     <1>17, <1>18, <1>19, <1>20, <1>21, <1>22, <1>23, <1>24, <1>25, <1>26, <1>27
     DEF StagesNext, RunNext

-------------------------------------------------------------------------------

\* The inference under way keeps its stamp: a snapshot changes only when its
\* run has no inference in hand.
LEMMA StepsStamped ==
    ASSUME StagesTypeOK, SentAsStamped, [StagesNext]_stagesVars
    PROVE  SentAsStamped'
<1> USE DEF StagesTypeOK, SentAsStamped
<1>1. ASSUME NEW r \in Runs, NEW p \in Photos, CallScorePhoto(r, p)
      PROVE  SentAsStamped'
  BY <1>1 DEF CallScorePhoto, Stamped, StepTo
<1>2. ASSUME NEW r \in Runs, NEW l \in Labels, CallRankPhotos(r, l)
      PROVE  SentAsStamped'
  BY <1>2 DEF CallRankPhotos, Stamped, StepTo
<1>3. ASSUME NEW r \in Runs, NEW there \in {"idle", "prepare", "describe", "rank"},
             StepTo(r, there),
             \A q \in Runs \ {r} : mine'[q] = mine[q] /\ sent'[q] = sent[q]
      PROVE  SentAsStamped'
  BY <1>3 DEF StepTo
<1>4. ASSUME UNCHANGED <<step, mine, sent>> PROVE SentAsStamped'
  BY <1>4
<1>5. ASSUME NEW r \in Runs, EndOf(r) PROVE SentAsStamped'
  BY <1>5, <1>3 DEF EndOf
<1>6. ASSUME NEW r \in Runs, RunNext(r) PROVE SentAsStamped'
  <2>1. CASE Analyze(r)
    BY <2>1, <1>3 DEF Analyze
  <2>2. CASE NothingToScore(r) \/ Leave(r) \/ Complete(r)
    BY <2>2, <1>5 DEF NothingToScore, Leave, Complete
  <2>3. ASSUME NEW s \in SUBSET Photos, Prepare(r, s) \/ SaveVLMRanking(r, s)
        PROVE  SentAsStamped'
    BY <2>3, <1>3 DEF Prepare, SaveVLMRanking
  <2>4. ASSUME NEW p \in Photos, Hit(r, p) PROVE SentAsStamped'
    BY <2>4, <1>4 DEF Hit
  <2>5. CASE SaveVLMScore(r) \/ ScoreFails(r) \/ BeginRanking(r) \/ RankFails(r)
    BY <2>5, <1>3 DEF SaveVLMScore, ScoreFails, BeginRanking, RankFails
  <2>6. ASSUME NEW l \in Labels, SkipCluster(r, l) PROVE SentAsStamped'
    BY <2>6, <1>4 DEF SkipCluster
  <2> QED
    BY <1>1, <1>2, <1>6, <2>1, <2>2, <2>3, <2>4, <2>5, <2>6 DEF RunNext
<1>7. CASE Crash
  BY <1>7 DEF Crash
<1>8. CASE \/ CancelAIAnalysis \/ ClearVLMData \/ ClearAIData
           \/ \E i \in Instructions : SetVLMCustomInstructions(i)
           \/ \E p \in Photos : Edit(p)
           \/ \E last \in 1 .. 3 : ClearAllVLMData(last)
           \/ UNCHANGED stagesVars
  BY <1>8, <1>4 DEF CancelAIAnalysis, ClearVLMData, ClearAIData, Edit,
     SetVLMCustomInstructions, ClearAllVLMData, stagesVars
<1> QED
  BY <1>6, <1>7, <1>8 DEF StagesNext

-------------------------------------------------------------------------------

\* Which steps touch the rows of the model's tables.
LEMMA WhoWrites ==
    ASSUME [StagesNext]_stagesVars
    PROVE  \/ UNCHANGED <<scores, groups, rankings, cut>>
           \/ \E r \in Runs : SaveVLMScore(r)
           \/ \E r \in Runs, s \in SUBSET Photos : SaveVLMRanking(r, s)
           \/ ClearVLMData \/ ClearAIData
           \/ \E last \in 1 .. 3 : ClearAllVLMData(last)
<1> USE DEF tables
<1>1. ASSUME NEW r \in Runs, RunNext(r)
      PROVE  \/ UNCHANGED <<scores, groups, rankings, cut>>
             \/ SaveVLMScore(r)
             \/ \E s \in SUBSET Photos : SaveVLMRanking(r, s)
  BY <1>1 DEF RunNext, Analyze, NothingToScore, Leave, Complete, Prepare, Hit,
     CallScorePhoto, ScoreFails, BeginRanking, SkipCluster, CallRankPhotos,
     RankFails
<1>2. CASE \/ CancelAIAnalysis \/ Crash
           \/ \E i \in Instructions : SetVLMCustomInstructions(i)
           \/ \E p \in Photos : Edit(p)
           \/ UNCHANGED stagesVars
  BY <1>2 DEF CancelAIAnalysis, Crash, SetVLMCustomInstructions, Edit, stagesVars
<1> QED
  BY <1>1, <1>2 DEF StagesNext

\* A row that names instructions was made with them: it is written with what
\* was sent and claims the snapshot.
LEMMA StepsAgree ==
    ASSUME StagesTypeOK, SentAsStamped, RowsAgree, [StagesNext]_stagesVars
    PROVE  RowsAgree'
<1> USE DEF RowsAgree
<1>1. ASSUME NEW r \in Runs, SaveVLMScore(r) PROVE RowsAgree'
  <2>1. mine[r] # Empty => sent[r] = mine[r]
    BY <1>1 DEF SentAsStamped, SaveVLMScore
  <2>2. scores' = [scores EXCEPT ![hand[r]] = [with |-> sent[r], hash |-> mine[r]]]
        /\ UNCHANGED groups
    BY <1>1 DEF SaveVLMScore, Claimed
  <2> QED
    BY <2>1, <2>2 DEF StagesTypeOK
<1>2. ASSUME NEW r \in Runs, NEW s \in SUBSET Photos, SaveVLMRanking(r, s)
      PROVE  RowsAgree'
  <2>1. mine[r] # Empty => sent[r] = mine[r]
    BY <1>2 DEF SentAsStamped, SaveVLMRanking
  <2>2. groups' = [groups EXCEPT ![hand[r]] = [with |-> sent[r], hash |-> mine[r],
                                               photos |-> s]]
        /\ UNCHANGED scores
    BY <1>2 DEF SaveVLMRanking, Claimed
  <2> QED
    BY <2>1, <2>2 DEF StagesTypeOK
<1>3. CASE ClearVLMData \/ ClearAIData
  BY <1>3 DEF ClearVLMData, ClearAIData, ClearedVLMData
<1>4. ASSUME NEW last \in 1 .. 3, ClearAllVLMData(last) PROVE RowsAgree'
  BY <1>4 DEF ClearAllVLMData
<1>5. CASE UNCHANGED <<scores, groups, rankings, cut>>
  BY <1>5
<1> QED
  BY <1>1, <1>2, <1>3, <1>4, <1>5, WhoWrites

\* A ranking enters and leaves the tables whole.
LEMMA StepsWhole ==
    ASSUME StagesTypeOK, RankingsAreWhole, [StagesNext]_stagesVars
    PROVE  RankingsAreWhole'
<1> USE DEF RankingsAreWhole
<1>1. ASSUME NEW r \in Runs, SaveVLMScore(r) PROVE RankingsAreWhole'
  BY <1>1 DEF SaveVLMScore
<1>2. ASSUME NEW r \in Runs, NEW s \in SUBSET Photos, SaveVLMRanking(r, s)
      PROVE  RankingsAreWhole'
  <2> DEFINE l == hand[r]
             row == [with |-> sent[r], hash |-> mine[r], photos |-> s]
  <2>1. l \in Labels /\ mine[r] \in Instructions /\ row \in GroupRow
    BY <1>2 DEF SaveVLMRanking, StagesTypeOK, GroupRow
  <2>2. row # NoRow
    BY <2>1, NoRowIsNone
  <2>3. /\ groups' = [groups EXCEPT ![l] = row]
        /\ rankings' = [rankings EXCEPT ![l] = Ranked(l, s, mine[r])]
        /\ UNCHANGED cut
    BY <1>2 DEF SaveVLMRanking, Claimed
  <2>4. \A p \in s : Ranked(l, s, mine[r])[p] = mine[r]
    BY DEF Ranked
  <2>5. /\ groups'[l] = row /\ row.photos = s /\ row.hash = mine[r]
        /\ rankings'[l] = Ranked(l, s, mine[r])
    BY <2>1, <2>3 DEF StagesTypeOK
  <2>6. \A m \in Labels \ {l} : groups'[m] = groups[m] /\ rankings'[m] = rankings[m]
    BY <2>3 DEF StagesTypeOK
  <2> HIDE DEF l, row
  <2>7. ASSUME NEW m \in Labels
        PROVE  /\ groups'[m] # NoRow /\ ~cut' =>
                     \A p \in groups'[m].photos : rankings'[m][p] = groups'[m].hash
               /\ groups'[m] = NoRow => \A p \in Photos : rankings'[m][p] = NoRow
    <3>1. CASE m = l
      BY <3>1, <2>2, <2>4, <2>5
    <3>2. CASE m # l
      BY <3>2, <2>3, <2>6
    <3> QED
      BY <3>1, <3>2
  <2> QED
    BY <2>7
<1>3. CASE ClearVLMData \/ ClearAIData
  BY <1>3 DEF ClearVLMData, ClearAIData, ClearedVLMData
<1>4. ASSUME NEW last \in 1 .. 3, ClearAllVLMData(last) PROVE RankingsAreWhole'
  <2>1. cut' = (cut \/ last < 3)
    BY <1>4 DEF ClearAllVLMData
  <2>2. CASE last = 3
    <3>1. groups' = [m \in Labels |-> NoRow]
      BY <1>4, <2>2 DEF ClearAllVLMData
    <3>2. rankings' = [m \in Labels |-> [p \in Photos |-> NoRow]]
      BY <1>4, <2>2 DEF ClearAllVLMData
    <3> QED
      BY <3>1, <3>2
  <2>3. CASE last < 3
    <3>1. cut'
      BY <2>1, <2>3, Zenon
    <3>2. groups' = groups
      BY <1>4, <2>3 DEF ClearAllVLMData
    <3>3. \/ rankings' = rankings
          \/ rankings' = [m \in Labels |-> [p \in Photos |-> NoRow]]
      BY <1>4 DEF ClearAllVLMData
    <3> QED
      BY <3>1, <3>2, <3>3
  <2> QED
    BY <2>2, <2>3
<1>5. CASE UNCHANGED <<scores, groups, rankings, cut>>
  BY <1>5
<1> QED
  BY <1>1, <1>2, <1>3, <1>4, <1>5, WhoWrites

-------------------------------------------------------------------------------

\* Nothing that Described speaks of changes, but for photos that are excused.
LEMMA DescribedKept ==
    ASSUME NEW r \in Runs, chosen'[r] = chosen[r], mine'[r] = mine[r],
           todo'[r] = todo[r], excused[r] \subseteq excused'[r],
           \A p \in chosen[r] : p \notin excused'[r] => scores'[p] = scores[p],
           Described(r)
    PROVE  Described(r)'
BY DEF Described

\* What Excuse does to a run.
LEMMA Excused ==
    ASSUME NEW runs, NEW photos, Excuse(runs, photos), NEW q \in Runs,
           excused \in [Runs -> SUBSET Photos]
    PROVE  /\ excused[q] \subseteq excused'[q]
           /\ q \in runs /\ step[q] # "idle" => photos \subseteq excused'[q]
           /\ q \notin runs => excused'[q] = excused[q]
BY DEF Excuse

\* A photo leaves stage 4 with its row, or excused.
LEMMA StepsDescribe ==
    ASSUME StagesTypeOK, DoneAreDescribed, [StagesNext]_stagesVars
    PROVE  DoneAreDescribed'
<1> USE DEF DoneAreDescribed, tables, context, stage4, stage5
\* The run that takes the step, and the others, for which only the scores and
\* what is excused may change.
<1>1. ASSUME NEW r \in Runs, UNCHANGED <<scores, excused>>,
             \A q \in Runs \ {r} :
                /\ chosen'[q] = chosen[q] /\ todo'[q] = todo[q]
                /\ mine'[q] = mine[q] /\ step'[q] = step[q],
             /\ step'[r] \in {"idle", "prepare"} => chosen'[r] = {}
             /\ step'[r] \in {"describe", "scoring"} => Described(r)'
      PROVE  DoneAreDescribed'
  BY <1>1, DescribedKept
<1>2. ASSUME UNCHANGED <<step, chosen, todo, mine>>,
             \A q \in Runs :
                /\ excused[q] \subseteq excused'[q]
                /\ step[q] # "idle" =>
                      \A p \in chosen[q] : p \notin excused'[q] => scores'[p] = scores[p]
      PROVE  DoneAreDescribed'
  BY <1>2, DescribedKept
<1>3. ASSUME NEW r \in Runs, EndOf(r), UNCHANGED scores PROVE DoneAreDescribed'
  <2>1. \A q \in Runs \ {r} :
           /\ chosen'[q] = chosen[q] /\ todo'[q] = todo[q] /\ mine'[q] = mine[q]
           /\ step'[q] = step[q] /\ excused'[q] = excused[q]
    BY <1>3 DEF EndOf, StepTo, StagesTypeOK
  <2>2. step'[r] = "idle" /\ chosen'[r] = {}
    BY <1>3 DEF EndOf, StepTo, StagesTypeOK
  <2> QED
    BY <1>3, <2>1, <2>2, DescribedKept
<1>4. ASSUME NEW r \in Runs, RunNext(r) PROVE DoneAreDescribed'
  <2> USE DEF StagesTypeOK, StepTo
  <2>1. CASE Analyze(r)
    BY <2>1, <1>1 DEF Analyze
  <2>2. CASE NothingToScore(r) \/ Leave(r) \/ Complete(r)
    BY <2>2, <1>3 DEF NothingToScore, Leave, Complete
  <2>3. ASSUME NEW s \in SUBSET Photos, Prepare(r, s) PROVE DoneAreDescribed'
    <3>1. \A p \in chosen'[r] : p \in todo'[r]
      <4>1. CASE VLMEnabled
        BY <2>3, <4>1 DEF Prepare
      <4>2. CASE ~VLMEnabled
        BY <2>3, <4>2 DEF Prepare
      <4> QED
        BY <4>1, <4>2
    <3>2. \A q \in Runs \ {r} :
             /\ chosen'[q] = chosen[q] /\ todo'[q] = todo[q]
             /\ mine'[q] = mine[q] /\ step'[q] = step[q]
      <4>1. CASE VLMEnabled
        BY <2>3, <4>1 DEF Prepare
      <4>2. CASE ~VLMEnabled
        BY <2>3, <4>2 DEF Prepare
      <4> QED
        BY <4>1, <4>2
    <3>3. step'[r] = "describe" /\ UNCHANGED <<scores, excused>>
      BY <2>3 DEF Prepare
    <3> QED
      BY <1>1, <3>1, <3>2, <3>3 DEF Described
  <2>4. ASSUME NEW s \in SUBSET Photos, SaveVLMRanking(r, s)
        PROVE  DoneAreDescribed'
    BY <2>4, <1>1 DEF SaveVLMRanking
  <2>5. ASSUME NEW p \in Photos, Hit(r, p) PROVE DoneAreDescribed'
    <3>1. Described(r)
      BY <2>5 DEF Hit
    <3>2. Described(r)'
      BY <2>5, <3>1 DEF Hit, IsHit, Described
    <3> QED
      BY <2>5, <1>1, <3>2 DEF Hit
  <2>6. ASSUME NEW p \in Photos, CallScorePhoto(r, p) PROVE DoneAreDescribed'
    <3>1. Described(r)'
      BY <2>6 DEF CallScorePhoto, Described
    <3> QED
      BY <2>6, <1>1, <3>1 DEF CallScorePhoto
  <2>7. CASE SaveVLMScore(r)
    <3> DEFINE p == hand[r]
               row == [with |-> sent[r], hash |-> mine[r]]
    <3>1. p \in todo[r] /\ p \in Photos /\ row \in Row /\ row.hash = mine[r]
      BY <2>7 DEF SaveVLMScore, Row
    <3>2. /\ scores' = [scores EXCEPT ![p] = row]
          /\ todo' = [todo EXCEPT ![r] = todo[r] \ {p}]
          /\ Excuse(Runs \ {r}, {p})
          /\ UNCHANGED <<mine, chosen>>
          /\ step[r] = "scoring" /\ step' = [step EXCEPT ![r] = "describe"]
      BY <2>7 DEF SaveVLMScore, Claimed
    <3>3. scores'[p] = row /\ \A x \in Photos \ {p} : scores'[x] = scores[x]
      BY <3>1, <3>2
    <3>4. row # NoRow
      BY <3>1, NoRowIsNone
    <3>5. excused'[r] = excused[r]
      BY <3>2, Excused
    <3> HIDE DEF p, row
    <3>6. Described(r)'
      BY <3>1, <3>2, <3>3, <3>4, <3>5 DEF Described
    <3>7. ASSUME NEW q \in Runs \ {r}
          PROVE  /\ step'[q] \in {"idle", "prepare"} => chosen'[q] = {}
                 /\ step'[q] \in {"describe", "scoring"} => Described(q)'
      <4>1. step'[q] = step[q] /\ todo'[q] = todo[q] /\ mine'[q] = mine[q]
            /\ chosen'[q] = chosen[q] /\ chosen[q] \subseteq Photos
        BY <3>2
      <4>2. /\ excused[q] \subseteq excused'[q]
            /\ step[q] # "idle" => p \in excused'[q]
        BY <3>2, Excused, SMTT(20)
      <4>3. CASE step[q] \in {"describe", "scoring"}
        <5>1. \A x \in chosen[q] : x \notin excused'[q] => scores'[x] = scores[x]
          BY <3>3, <4>1, <4>2, <4>3
        <5> QED
          BY <4>1, <4>2, <4>3, <5>1, DescribedKept
      <4> QED
        BY <4>1, <4>3
    <3>8. step'[r] = "describe"
      BY <3>2
    <3> QED
      BY <3>6, <3>7, <3>8
  <2>8. CASE ScoreFails(r)
    <3> DEFINE p == hand[r]
    <3>1. /\ todo' = [todo EXCEPT ![r] = todo[r] \ {p}]
          /\ Excuse({r}, {p})
          /\ UNCHANGED <<mine, chosen, scores>>
          /\ step[r] = "scoring" /\ step' = [step EXCEPT ![r] = "describe"]
      BY <2>8 DEF ScoreFails
    <3>2. excused[r] \subseteq excused'[r] /\ p \in excused'[r]
      BY <3>1, Excused, SMTT(20)
    <3> HIDE DEF p
    <3>3. Described(r)'
      BY <3>1, <3>2 DEF Described
    <3>4. \A q \in Runs \ {r} : excused'[q] = excused[q] /\ step'[q] = step[q]
                                /\ todo'[q] = todo[q]
      BY <3>1, Excused
    <3> QED
      BY <3>1, <3>3, <3>4, DescribedKept
  <2>9. CASE BeginRanking(r)
    BY <2>9, <1>1 DEF BeginRanking
  <2>10. ASSUME NEW l \in Labels, SkipCluster(r, l) PROVE DoneAreDescribed'
    BY <2>10, <1>2 DEF SkipCluster
  <2>11. ASSUME NEW l \in Labels, CallRankPhotos(r, l) PROVE DoneAreDescribed'
    BY <2>11, <1>1 DEF CallRankPhotos
  <2>12. CASE RankFails(r)
    BY <2>12, <1>1 DEF RankFails
  <2> QED
    BY <1>4, <2>1, <2>2, <2>3, <2>4, <2>5, <2>6, <2>7, <2>8, <2>9, <2>10, <2>11,
       <2>12 DEF RunNext
<1>5. CASE ClearVLMData \/ ClearAIData \/ \E last \in 1 .. 3 : ClearAllVLMData(last)
  <2>1. Excuse(Runs, Photos) /\ UNCHANGED <<step, chosen, todo, mine>>
    BY <1>5 DEF ClearVLMData, ClearAIData, ClearAllVLMData
  <2>2. ASSUME NEW q \in Runs
        PROVE  /\ excused[q] \subseteq excused'[q]
               /\ step[q] # "idle" =>
                     \A p \in chosen[q] : p \notin excused'[q] => scores'[p] = scores[p]
    BY <2>1, Excused DEF StagesTypeOK
  <2> QED
    BY <1>2, <2>1, <2>2
<1>6. CASE Crash
  BY <1>6 DEF Crash
<1>7. CASE \/ CancelAIAnalysis
           \/ \E i \in Instructions : SetVLMCustomInstructions(i)
           \/ \E p \in Photos : Edit(p)
           \/ UNCHANGED stagesVars
  BY <1>7, <1>2 DEF CancelAIAnalysis, SetVLMCustomInstructions, Edit, stagesVars
<1> QED
  BY <1>4, <1>5, <1>6, <1>7 DEF StagesNext

-------------------------------------------------------------------------------

\* Init and every step establish the invariant of the stages.
LEMMA StagesSafe == StagesSpec => []StagesIInv
<1>1. StagesIInv /\ [StagesNext]_stagesVars => StagesIInv'
  BY StepsTyped, StepsStamped, StepsAgree, StepsWhole, StepsDescribe DEF StagesIInv
<1> QED
  BY InitStages, <1>1, PTL DEF StagesSpec

\* The type invariant of the stages.
THEOREM StagesTypeCorrect == StagesSpec => []StagesTypeOK
<1>1. StagesIInv => StagesTypeOK
  BY DEF StagesIInv
<1> QED
  BY StagesSafe, <1>1, PTL

\* A row that names custom instructions was made with them, whenever the user
\* changes them (runVLMStage4 and runVLMStage5 hold one snapshot for the key,
\* the request and the row).
THEOREM RowsTellTheTruth == StagesSpec => []RowsAgree
<1>1. StagesIInv => RowsAgree
  BY DEF StagesIInv
<1> QED
  BY StagesSafe, <1>1, PTL

\* No ranking is ever half in the tables, but for a ClearAllVLMData cut off
\* (SaveVLMRankings and ClearVLMData are transactions).
THEOREM RankingsWhole == StagesSpec => []RankingsAreWhole
<1>1. StagesIInv => RankingsAreWhole
  BY DEF StagesIInv
<1> QED
  BY StagesSafe, <1>1, PTL

\* Stage 4 ends with every selected photo described under its snapshot, but
\* for the failed and those another call cleared or wrote meanwhile.
THEOREM SelectedDescribed == StagesSpec => SelectedAreDescribed
<1>1. ASSUME StagesIInv, NEW r \in Runs, BeginRanking(r)
      PROVE  \A p \in chosen[r] \ excused[r] :
                scores[p] # NoRow /\ scores[p].hash = mine[r]
  BY <1>1 DEF StagesIInv, DoneAreDescribed, Described, BeginRanking
<1>2. StagesIInv /\ [StagesNext]_stagesVars =>
         [\A r \in Runs : BeginRanking(r) =>
             \A p \in chosen[r] \ excused[r] :
                scores[p] # NoRow /\ scores[p].hash = mine[r]]_stagesVars
  BY <1>1
<1> QED
  BY StagesSafe, <1>2, PTL DEF StagesSpec, SelectedAreDescribed

================================================================================
