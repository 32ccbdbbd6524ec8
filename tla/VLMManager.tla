------------------------------ MODULE VLMManager ------------------------------
(***************************************************************************)
(* The lifecycle manager of the local vision-language model:               *)
(* src/internal/vlm/manager.go, driven by the callers in internal/app.     *)
(*                                                                         *)
(* One action is one critical section of Manager.mu, or one effect of a    *)
(* provider call made with the mutex released.  Four kinds of goroutine    *)
(* interleave:                                                             *)
(*   Callers  API and pipeline goroutines: StartVLMEngine, StopVLMEngine,  *)
(*            Shutdown, the ScorePhoto / RankPhotos inference path         *)
(*   Timers   goroutines of time.AfterFunc that run the idle Stop          *)
(*   Loops    healthLoop goroutines; one that has found the provider dead  *)
(*            goes on as handleCrash.  A loop's identity is also the       *)
(*            identity of the context it was started with                  *)
(*   the provider process itself, which may die at any moment              *)
(* Busy and Idle are states the code declares and never assigns; they are  *)
(* left out.  lastInfer, inferCount, startedAt and lastCrash only feed     *)
(* Status() and are left out as well.                                      *)
(***************************************************************************)
EXTENDS Naturals, FiniteSets

CONSTANTS
    Callers,        \* API and analysis-pipeline goroutines
    Timers,         \* bound: idle-timer goroutines alive at the same time
    Loops,          \* bound: health-monitor goroutines alive at the same time
    Providers,      \* the provider objects DownloadVLMModel can install
    NoProvider,     \* a nil VLMProvider
    NoLoop,         \* a nil context / cancel function
    KeepAlive,      \* ManagerConfig.KeepAlive
    MaxRestarts     \* ManagerConfig.MaxRestarts

Threads == Callers \cup Timers \cup Loops

ASSUME ThreadKindsDisjoint ==
    /\ Callers \cap Timers = {}
    /\ Callers \cap Loops = {}
    /\ Timers \cap Loops = {}
ASSUME NilValues == NoProvider \notin Providers /\ NoLoop \notin Loops
ASSUME FinitelyManyLoops == IsFiniteSet(Loops)
ASSUME ConfigTypes == KeepAlive \in BOOLEAN /\ MaxRestarts \in Nat

VARIABLES
    state,          \* Manager.state
    provider,       \* Manager.provider
    idleTimer,      \* Manager.idleTimer is armed (a fired timer is not)
    restartCount,   \* Manager.restartCount, saturated at MaxRestarts + 1
    stopHealth,     \* Manager.stopHealth: the context it cancels
    healthCtx,      \* Manager.healthCtx, never set back to nil
    ctxDone,        \* for every monitor context: cancelled
    events,         \* the events channel: open, or closed by App.Shutdown
    panicked,       \* a goroutine has sent on the closed channel
    pc,             \* where every goroutine is
    op,             \* the API operation a caller is in
    target,         \* the provider a goroutine has read and is calling
    failures,       \* healthLoop's local: consecutive failed probes
    waitCtx,        \* handleCrash's local ctx
    up,             \* for every provider: the server it keeps track of is alive
    autoStarts      \* history: starts made by crash recovery

ManagerStates ==
    {"off", "starting", "ready", "shutting_down", "crashed", "error"}
Ops == {"none", "ensure", "infer", "stop", "shutdown"}
StartPCs == {"start", "booting", "startok", "starterr"}
StopPCs == {"stop", "stopped"}
CallerPCs == {"idle", "ensured", "infer", "close"} \cup StartPCs \cup StopPCs
TimerPCs == {"idle", "fired"} \cup StopPCs
RecoveryPCs == {"crash", "giveup", "readctx", "backoff", "woken"}
LoopPCs == {"idle", "tick", "probe"} \cup RecoveryPCs \cup StartPCs

lifecycle == <<state, provider, restartCount>>
monitor == <<stopHealth, healthCtx, ctxDone>>
channel == <<events, panicked>>
locals == <<op, target, failures, waitCtx>>
vars == <<state, provider, idleTimer, restartCount, stopHealth, healthCtx,
          ctxDone, events, panicked, pc, op, target, failures, waitCtx, up,
          autoStarts>>

TypeOK ==
    /\ state \in ManagerStates
    /\ provider \in Providers \cup {NoProvider}
    /\ idleTimer \in BOOLEAN
    /\ restartCount \in 0 .. MaxRestarts + 1
    /\ stopHealth \in Loops \cup {NoLoop}
    /\ healthCtx \in Loops \cup {NoLoop}
    /\ ctxDone \in [Loops -> BOOLEAN]
    /\ events \in {"open", "closed"}
    /\ panicked \in BOOLEAN
    /\ pc \in [Threads -> CallerPCs \cup TimerPCs \cup LoopPCs]
    /\ \A c \in Callers : pc[c] \in CallerPCs
    /\ \A t \in Timers : pc[t] \in TimerPCs
    /\ \A l \in Loops : pc[l] \in LoopPCs
    /\ op \in [Callers -> Ops]
    /\ target \in [Threads -> Providers \cup {NoProvider}]
    /\ failures \in [Loops -> 0 .. 2]
    /\ \A l \in Loops : pc[l] \in {"tick", "probe"} => failures[l] < 2
    /\ waitCtx \in [Loops -> Loops \cup {NoLoop}]
    /\ up \in [Providers -> BOOLEAN]
    /\ autoStarts \in Nat

Init ==
    /\ state = "off"
    /\ provider = NoProvider
    /\ idleTimer = FALSE
    /\ restartCount = 0
    /\ stopHealth = NoLoop
    /\ healthCtx = NoLoop
    /\ ctxDone = [l \in Loops |-> FALSE]
    /\ events = "open"
    /\ panicked = FALSE
    /\ pc = [t \in Threads |-> "idle"]
    /\ op = [c \in Callers |-> "none"]
    /\ target = [t \in Threads |-> NoProvider]
    /\ failures = [l \in Loops |-> 0]
    /\ waitCtx = [l \in Loops |-> NoLoop]
    /\ up = [p \in Providers |-> FALSE]
    /\ autoStarts = 0

-------------------------------------------------------------------------------
(* Helpers: the ...Locked methods and the pieces actions share.            *)

Goto(t, there) == pc' = [pc EXCEPT ![t] = there]

\* The provider call is over: the goroutine's reference is dead.
Release(t) == target' = [target EXCEPT ![t] = NoProvider]

\* emitLocked never blocks and drops an event when the buffer is full, but
\* the send panics, and takes the program down, once the channel is closed.
Emit == panicked' = (events = "closed") /\ UNCHANGED events

\* resetIdleTimerLocked: cancel, then arm unless the engine is kept alive.
ResetIdleTimer == idleTimer' = ~KeepAlive

\* The contexts that are cancelled once cancelHealthMonitorLocked has run.
Cancelled ==
    [l \in Loops |-> ctxDone[l] \/ l = stopHealth]

\* A goroutine identity can be given to a new monitor when its last owner is
\* gone, or is the goroutine t that ends by starting it, and no crash
\* recovery still waits on the context of that owner.
Free(l, t) ==
    /\ pc[l] = "idle" \/ l = t
    /\ \A k \in Loops : waitCtx[k] # l

\* startLocked up to the unlock; without a provider it fails at once and
\* changes nothing.
StartLocked(t) ==
    /\ provider # NoProvider
    /\ state' = "starting"
    /\ Emit
    /\ Goto(t, "start")

\* A caller may begin o: the frontend, gone once App.Shutdown has run, makes
\* every call but the inferences of a pipeline, which nobody waits for.
MayCall(c, o) == pc[c] = "idle" /\ (o = "infer" \/ events = "open")

-------------------------------------------------------------------------------
(* EnsureRunning and the start it leads to.                                *)

\* Mutant of EnsureReady: the timer is cancelled and not armed again.
EnsureReadyDisarms(c, o) ==
    /\ MayCall(c, o)
    /\ state = "ready"
    /\ idleTimer' = FALSE
    /\ op' = [op EXCEPT ![c] = IF o = "infer" THEN o ELSE "none"]
    /\ Goto(c, IF o = "infer" THEN "ensured" ELSE "idle")
    /\ UNCHANGED <<lifecycle, monitor, channel, target, failures, waitCtx,
                   up, autoStarts>>

\* EnsureRunning on a running engine.  o is the operation it is called for:
\* StartVLMEngine is then done, an inference goes on.
EnsureReady(c, o) ==
    /\ MayCall(c, o)
    /\ state = "ready"
    /\ ResetIdleTimer
    /\ op' = [op EXCEPT ![c] = IF o = "infer" THEN o ELSE "none"]
    /\ Goto(c, IF o = "infer" THEN "ensured" ELSE "idle")
    /\ UNCHANGED <<lifecycle, monitor, channel, target, failures, waitCtx,
                   up, autoStarts>>

\* EnsureRunning while another goroutine starts the engine: it returns nil,
\* so an inference goes on at once.  (For StartVLMEngine, and in state
\* shutting_down where it returns an error, nothing changes at all.)
EnsureStarting(c) ==
    /\ MayCall(c, "infer")
    /\ state = "starting"
    /\ op' = [op EXCEPT ![c] = "infer"]
    /\ Goto(c, "ensured")
    /\ UNCHANGED <<lifecycle, idleTimer, monitor, channel, target, failures,
                   waitCtx, up, autoStarts>>

\* EnsureRunning from off, crashed or error: start the provider.
EnsureStart(c, o) ==
    /\ MayCall(c, o)
    /\ state \in {"off", "crashed", "error"}
    /\ StartLocked(c)
    /\ op' = [op EXCEPT ![c] = o]
    /\ UNCHANGED <<provider, idleTimer, restartCount, monitor, target,
                   failures, waitCtx, up, autoStarts>>

\* startLocked evaluates m.provider.Start after it has released the mutex.
CallProviderStart(t) ==
    /\ pc[t] = "start"
    /\ target' = [target EXCEPT ![t] = provider]
    /\ Goto(t, "booting")
    /\ UNCHANGED <<lifecycle, idleTimer, monitor, channel, op, failures,
                   waitCtx, up, autoStarts>>

\* provider.Start takes effect: the server is up, or the start has failed.
\* A failure before the launch (no binary, no port, cancelled context) leaves
\* a server that was up alone; one after it (boot timeout, early exit) kills
\* and forgets what it launched.  Backends hold their own mutex throughout,
\* so it is one step.
ProviderStart(t) ==
    /\ pc[t] = "booting"
    /\ \/ /\ up' = [up EXCEPT ![target[t]] = TRUE]
          /\ Goto(t, "startok")
       \/ /\ up' \in {up, [up EXCEPT ![target[t]] = FALSE]}
          /\ Goto(t, "starterr")
    /\ Release(t)
    /\ UNCHANGED <<lifecycle, idleTimer, monitor, channel, op, failures,
                   waitCtx, autoStarts>>

\* Mutant of StartHealthMonitor: the previous monitor is not cancelled.
StartSecondMonitor(t, l, there) ==
    /\ Free(l, t)
    /\ ctxDone' = [ctxDone EXCEPT ![l] = FALSE]
    /\ stopHealth' = l
    /\ healthCtx' = l
    /\ failures' = [failures EXCEPT ![l] = 0]
    /\ pc' = [pc EXCEPT ![t] = there, ![l] = "tick"]

\* startHealthMonitorLocked: cancel the previous monitor, start a new one;
\* the starter t moves on to where startLocked returns to.
StartHealthMonitor(t, l, there) ==
    /\ Free(l, t)
    /\ ctxDone' = [Cancelled EXCEPT ![l] = FALSE]
    /\ stopHealth' = l
    /\ healthCtx' = l
    /\ failures' = [failures EXCEPT ![l] = 0]
    /\ pc' = [pc EXCEPT ![t] = there, ![l] = "tick"]

\* The rest of startLocked after a successful provider.Start.  The state is
\* not looked at again: whatever happened meanwhile, it becomes ready.
StartSucceeds(t) ==
    /\ pc[t] = "startok"
    /\ state' = "ready"
    /\ ResetIdleTimer
    /\ Emit
    /\ \E l \in Loops :
         StartHealthMonitor(t, l,
             IF t \in Callers /\ op[t] = "infer" THEN "ensured" ELSE "idle")
    /\ op' = [c \in Callers |->
                IF c = t /\ op[c] = "ensure" THEN "none" ELSE op[c]]
    /\ UNCHANGED <<provider, restartCount, target, waitCtx, up, autoStarts>>

\* Mutant of StartFails: the error is returned, the state left as it was.
StartFailsSilently(t) ==
    /\ pc[t] = "starterr"
    /\ Emit
    /\ Goto(t, "idle")
    /\ op' = [c \in Callers |-> IF c = t THEN "none" ELSE op[c]]
    /\ UNCHANGED <<lifecycle, idleTimer, monitor, target, failures, waitCtx,
                   up, autoStarts>>

\* The rest of startLocked after a failed provider.Start.
StartFails(t) ==
    /\ pc[t] = "starterr"
    /\ state' = "error"
    /\ Emit
    /\ Goto(t, "idle")
    /\ op' = [c \in Callers |-> IF c = t THEN "none" ELSE op[c]]
    /\ UNCHANGED <<provider, idleTimer, restartCount, monitor, target,
                   failures, waitCtx, up, autoStarts>>

-------------------------------------------------------------------------------
(* ScorePhoto and RankPhotos, after their EnsureRunning has returned nil.  *)

InferBegin(c) ==
    /\ pc[c] = "ensured"
    /\ target' = [target EXCEPT ![c] = provider]
    /\ Goto(c, "infer")
    /\ UNCHANGED <<lifecycle, idleTimer, monitor, channel, op, failures,
                   waitCtx, up, autoStarts>>

\* The provider call has returned, with or without an error: the idle timer
\* is armed again whatever the state is by now.
InferEnd(c) ==
    /\ pc[c] = "infer"
    /\ ResetIdleTimer
    /\ op' = [op EXCEPT ![c] = "none"]
    /\ Release(c)
    /\ Goto(c, "idle")
    /\ UNCHANGED <<lifecycle, monitor, channel, failures, waitCtx, up,
                   autoStarts>>

-------------------------------------------------------------------------------
(* Stop, called by StopVLMEngine, DeleteVLMModel, Shutdown and idle timers. *)

\* The first critical section of Stop when there is something to stop.
StopLocks(t) ==
    /\ state \notin {"off", "shutting_down"}
    /\ state' = "shutting_down"
    /\ idleTimer' = FALSE
    /\ ctxDone' = Cancelled
    /\ stopHealth' = NoLoop
    /\ Emit
    /\ target' = [target EXCEPT ![t] = provider]
    /\ Goto(t, "stop")
    /\ UNCHANGED <<provider, restartCount, healthCtx, failures, waitCtx, up,
                   autoStarts>>

\* StopVLMEngine and DeleteVLMModel (o = "stop"), or Shutdown, which runs
\* once.  (On an engine that is off or shutting down Stop changes nothing.)
CallStop(c, o) ==
    /\ MayCall(c, o)
    /\ o = "shutdown" => \A d \in Callers : op[d] # o
    /\ op' = [op EXCEPT ![c] = o]
    /\ StopLocks(c)

\* Shutdown whose Stop returns at once: the engine is off, or another
\* goroutine is still stopping it.
ShutdownSkipsStop(c) ==
    /\ MayCall(c, "shutdown")
    /\ \A d \in Callers : op[d] # "shutdown"
    /\ state \in {"off", "shutting_down"}
    /\ op' = [op EXCEPT ![c] = "shutdown"]
    /\ Goto(c, "close")
    /\ UNCHANGED <<lifecycle, idleTimer, monitor, channel, target, failures,
                   waitCtx, up, autoStarts>>

\* The idle timer runs out and its goroutine starts.
TimerFires(t) ==
    /\ idleTimer
    /\ pc[t] = "idle"
    /\ idleTimer' = FALSE
    /\ Goto(t, "fired")
    /\ UNCHANGED <<lifecycle, monitor, channel, locals, up, autoStarts>>

\* The timer's goroutine calls Stop.
IdleStop(t) ==
    /\ pc[t] = "fired"
    /\ \/ StopLocks(t) /\ UNCHANGED op
       \/ /\ state \in {"off", "shutting_down"}
          /\ Goto(t, "idle")
          /\ UNCHANGED <<lifecycle, idleTimer, monitor, channel, locals, up,
                         autoStarts>>

\* provider.Stop: the server process has exited.
ProviderStop(t) ==
    /\ pc[t] = "stop"
    /\ up' = [up EXCEPT ![target[t]] = FALSE]
    /\ Release(t)
    /\ Goto(t, "stopped")
    /\ UNCHANGED <<lifecycle, idleTimer, monitor, channel, op, failures,
                   waitCtx, autoStarts>>

\* The last critical section of Stop, again without a look at the state.
StopReturns(t) ==
    /\ pc[t] = "stopped"
    /\ state' = "off"
    /\ Emit
    /\ LET closing == t \in Callers /\ op[t] = "shutdown" IN
         /\ Goto(t, IF closing THEN "close" ELSE "idle")
         /\ op' = [c \in Callers |->
                     IF c = t /\ ~closing THEN "none" ELSE op[c]]
    /\ UNCHANGED <<provider, idleTimer, restartCount, monitor, target,
                   failures, waitCtx, up, autoStarts>>

\* Shutdown closes the events channel.
CloseEvents(c) ==
    /\ pc[c] = "close"
    /\ events' = "closed"
    /\ op' = [op EXCEPT ![c] = "none"]
    /\ Goto(c, "idle")
    /\ UNCHANGED <<lifecycle, idleTimer, monitor, panicked, target, failures,
                   waitCtx, up, autoStarts>>

-------------------------------------------------------------------------------
(* healthLoop.                                                             *)

LoopExits(l) ==
    /\ pc[l] = "tick"
    /\ ctxDone[l]
    /\ Goto(l, "idle")
    /\ UNCHANGED <<lifecycle, idleTimer, monitor, channel, locals, up,
                   autoStarts>>

\* A tick on a running engine.  (In any other state the tick is skipped.)
\* The select may take the tick although the context is cancelled.
Tick(l) ==
    /\ pc[l] = "tick"
    /\ state = "ready"
    /\ provider # NoProvider
    /\ target' = [target EXCEPT ![l] = provider]
    /\ Goto(l, "probe")
    /\ UNCHANGED <<lifecycle, idleTimer, monitor, channel, op, failures,
                   waitCtx, up, autoStarts>>

ProbeSucceeds(l) ==
    /\ pc[l] = "probe"
    /\ up[target[l]]
    /\ failures' = [failures EXCEPT ![l] = 0]
    /\ Release(l)
    /\ Goto(l, "tick")
    /\ UNCHANGED <<lifecycle, idleTimer, monitor, channel, op, waitCtx, up,
                   autoStarts>>

\* Mutant of ProbeFails: the third failure in a row is reported, not the second.
ProbeFailsLate(l) ==
    /\ pc[l] = "probe"
    /\ failures' = [failures EXCEPT ![l] = @ + 1]
    /\ Release(l)
    /\ Goto(l, IF failures[l] + 1 > 2 THEN "crash" ELSE "tick")
    /\ UNCHANGED <<lifecycle, idleTimer, monitor, channel, op, waitCtx, up,
                   autoStarts>>

\* Mutant of ProbeFails: failures are counted in a variable of the iteration.
ProbeFailsForgets(l) ==
    /\ pc[l] = "probe"
    /\ Release(l)
    /\ Goto(l, "tick")
    /\ UNCHANGED <<lifecycle, idleTimer, monitor, channel, op, failures,
                   waitCtx, up, autoStarts>>

\* Health fails: the server is gone, does not answer in five seconds, or the
\* probe's context was cancelled with the monitor's.
ProbeFails(l) ==
    /\ pc[l] = "probe"
    /\ failures' = [failures EXCEPT ![l] = @ + 1]
    /\ Release(l)
    /\ Goto(l, IF failures[l] + 1 >= 2 THEN "crash" ELSE "tick")
    /\ UNCHANGED <<lifecycle, idleTimer, monitor, channel, op, waitCtx, up,
                   autoStarts>>

-------------------------------------------------------------------------------
(* handleCrash, run by the loop's goroutine.                               *)

\* Mutant of HandleCrash: the crash is counted, the state stays ready.
CountCrashOnly(l) ==
    /\ pc[l] = "crash"
    /\ restartCount' = IF restartCount > MaxRestarts
                       THEN restartCount ELSE restartCount + 1
    /\ Goto(l, IF restartCount' > MaxRestarts THEN "giveup" ELSE "readctx")
    /\ Emit
    /\ UNCHANGED <<state, provider, idleTimer, monitor, locals, up,
                   autoStarts>>

\* Mutant of HandleCrash: the limit is compared with the count before it is
\* incremented.
HandleCrashOffByOne(l) ==
    /\ pc[l] = "crash"
    /\ state' = "crashed"
    /\ restartCount' = IF restartCount > MaxRestarts
                       THEN restartCount ELSE restartCount + 1
    /\ Goto(l, IF restartCount > MaxRestarts THEN "giveup" ELSE "readctx")
    /\ Emit
    /\ UNCHANGED <<provider, idleTimer, monitor, locals, up, autoStarts>>

\* The first critical section: the crash is recorded, whatever the state is
\* by now, and counted.
HandleCrash(l) ==
    /\ pc[l] = "crash"
    /\ state' = "crashed"
    /\ restartCount' = IF restartCount > MaxRestarts
                       THEN restartCount ELSE restartCount + 1
    /\ Goto(l, IF restartCount' > MaxRestarts THEN "giveup" ELSE "readctx")
    /\ Emit
    /\ UNCHANGED <<provider, idleTimer, monitor, locals, up, autoStarts>>

GiveUp(l) ==
    /\ pc[l] = "giveup"
    /\ state' = "error"
    /\ Emit
    /\ Goto(l, "idle")
    /\ UNCHANGED <<provider, idleTimer, restartCount, monitor, locals, up,
                   autoStarts>>

\* The context the backoff listens to is the one that is current now, which
\* need not be the one this goroutine was started with.  If it is cancelled
\* by now, select returns before the backoff begins.
ReadHealthCtx(l) ==
    /\ pc[l] = "readctx"
    /\ IF ctxDone[healthCtx]
       THEN Goto(l, "idle") /\ UNCHANGED waitCtx
       ELSE /\ waitCtx' = [waitCtx EXCEPT ![l] = healthCtx]
            /\ Goto(l, "backoff")
    /\ UNCHANGED <<lifecycle, idleTimer, monitor, channel, op, target,
                   failures, up, autoStarts>>

BackoffCancelled(l) ==
    /\ pc[l] = "backoff"
    /\ ctxDone[waitCtx[l]]
    /\ waitCtx' = [waitCtx EXCEPT ![l] = NoLoop]
    /\ Goto(l, "idle")
    /\ UNCHANGED <<lifecycle, idleTimer, monitor, channel, op, target,
                   failures, up, autoStarts>>

\* The backoff runs out first.  (Of a timer and a cancellation that are both
\* ready select takes either: taking the timer is its running out first.)
BackoffElapses(l) ==
    /\ pc[l] = "backoff"
    /\ ~ctxDone[waitCtx[l]]
    /\ waitCtx' = [waitCtx EXCEPT ![l] = NoLoop]
    /\ Goto(l, "woken")
    /\ UNCHANGED <<lifecycle, idleTimer, monitor, channel, op, target,
                   failures, up, autoStarts>>

\* After the sleep only off and shutting_down keep it from starting.
Restart(l) ==
    /\ pc[l] = "woken"
    /\ \/ /\ state \in {"off", "shutting_down"}
          /\ Goto(l, "idle")
          /\ UNCHANGED <<state, channel, autoStarts>>
       \/ /\ state \notin {"off", "shutting_down"}
          /\ StartLocked(l)
          /\ autoStarts' = autoStarts + 1
    /\ UNCHANGED <<provider, idleTimer, restartCount, monitor, locals, up>>

-------------------------------------------------------------------------------
(* The provider.                                                           *)

\* DownloadVLMModel installs a new provider object.
SetProvider(p) ==
    /\ provider # p
    /\ provider' = p
    /\ UNCHANGED <<state, idleTimer, restartCount, monitor, channel, pc,
                   locals, up, autoStarts>>

\* The server process dies on its own.
ServerDies(p) ==
    /\ up[p]
    /\ up' = [up EXCEPT ![p] = FALSE]
    /\ UNCHANGED <<lifecycle, idleTimer, monitor, channel, pc, locals,
                   autoStarts>>

-------------------------------------------------------------------------------

CallerNext(c) ==
    \/ \E o \in {"ensure", "infer"} : EnsureReady(c, o) \/ EnsureStart(c, o)
    \/ EnsureStarting(c)
    \/ InferBegin(c)
    \/ InferEnd(c)
    \/ \E o \in {"stop", "shutdown"} : CallStop(c, o)
    \/ ShutdownSkipsStop(c)
    \/ CloseEvents(c)

LoopNext(l) ==
    \/ LoopExits(l)
    \/ Tick(l)
    \/ ProbeSucceeds(l)
    \/ ProbeFails(l)
    \/ HandleCrash(l)
    \/ GiveUp(l)
    \/ ReadHealthCtx(l)
    \/ BackoffCancelled(l)
    \/ BackoffElapses(l)
    \/ Restart(l)

\* The steps of a start or a stop, whichever goroutine makes it.
StartNext(t) ==
    \/ CallProviderStart(t)
    \/ ProviderStart(t)
    \/ StartSucceeds(t)
    \/ StartFails(t)

StopNext(t) == ProviderStop(t) \/ StopReturns(t)

ThreadNext ==
    \/ \E c \in Callers : CallerNext(c)
    \/ \E l \in Loops : LoopNext(l)
    \/ \E t \in Timers : TimerFires(t) \/ IdleStop(t)
    \/ \E t \in Threads : StartNext(t) \/ StopNext(t)

\* A panic ends the program.
Next ==
    /\ ~panicked
    /\ \/ ThreadNext
       \/ \E p \in Providers : SetProvider(p) \/ ServerDies(p)

Spec == Init /\ [][Next]_vars

\* What the Go runtime guarantees: a runnable goroutine runs, a ticker ticks,
\* a timer fires, a provider call returns (every call has a deadline).  New
\* API calls, crashes and provider changes need not happen.
Fairness ==
    /\ \A t \in Threads :
         WF_vars(~panicked /\ (StartNext(t) \/ StopNext(t)))
    /\ \A l \in Loops : WF_vars(~panicked /\ LoopNext(l))
    /\ \A t \in Timers : WF_vars(~panicked /\ IdleStop(t))
    /\ \A c \in Callers :
         WF_vars(~panicked /\ (InferBegin(c) \/ InferEnd(c) \/ CloseEvents(c)))

FairSpec == Spec /\ Fairness
-------------------------------------------------------------------------------
(* What holds.                                                             *)

Starting(t) == pc[t] \in StartPCs
Stopping(t) == pc[t] \in StopPCs
\* The loop still watches, or is about to report what it has found.
Monitoring(l) == pc[l] \in {"tick", "probe", "crash"}

\* The transient states are owned: while the manager says starting (or
\* shutting_down) some goroutine is inside startLocked (or Stop) and will
\* replace the state.  EnsureRunning trusts this: it turns callers away in
\* both states, so a state left behind by nobody would be forever.
TransientStatesOwned ==
    /\ state = "starting" => \E t \in Threads : Starting(t)
    /\ state = "shutting_down" => \E t \in Threads : Stopping(t)

\* At most one health monitor has a live context, and it is the one Stop can
\* cancel: overlapping starts, stops and crash recoveries never leave a
\* second monitor that would report the same crash twice.
OneLiveMonitor ==
    \A l \in Loops : Monitoring(l) /\ ~ctxDone[l] => l = stopHealth

\* An engine reported ready is watched: whoever made it ready started a
\* monitor, and nobody who later cancelled it left the state at ready.
ReadyIsMonitored ==
    state = "ready" =>
        \E l \in Loops :
            stopHealth = l /\ healthCtx = l /\ ~ctxDone[l] /\ Monitoring(l)

\* A ready engine that is not kept alive will be stopped when idle: its
\* timer is armed, or the timer's goroutine is already on its way to Stop.
ReadyStopsWhenIdle ==
    state = "ready" /\ ~KeepAlive =>
        idleTimer \/ \E t \in Timers : pc[t] = "fired"

\* Crash recovery starts the provider at most MaxRestarts times in the life
\* of the manager, however crashes, stops and manual starts interleave.
RestartBudget == autoStarts <= MaxRestarts

\* A server that has died under a ready engine is found out: in the end the
\* engine is no longer ready, or a server is up again (or the program has
\* ended).
DeadServerNoticed ==
    \A p \in Providers :
        (state = "ready" /\ provider = p /\ ~up[p])
            ~> (state # "ready" \/ provider # p \/ up[p] \/ panicked)

\* Neither transient state lasts.
TransientStatesEnd ==
    /\ state = "starting" ~> state # "starting" \/ panicked
    /\ state = "shutting_down" ~> state # "shutting_down" \/ panicked

-------------------------------------------------------------------------------
(* What the comments and tests say, and the code does not do.              *)

\* "If MaxRestarts is exceeded it sets StateError permanently."
ErrorIsPermanent ==
    [][state = "error" /\ restartCount > MaxRestarts => state' = "error"]_vars

\* "StateOff: provider not running", once no start or stop is in progress.
OffMeansStopped ==
    (state = "off" /\ \A t \in Threads : ~Starting(t) /\ ~Stopping(t))
        => \A p \in Providers : ~up[p]

\* "Use context-aware sleep so shutdown cancels the backoff wait": no crash
\* recovery sits its backoff out once the monitor that began it is cancelled.
ShutdownCancelsBackoff ==
    [][\A l \in Loops :
         pc[l] = "backoff" /\ pc'[l] = "woken" => ~ctxDone[l]]_vars

\* "StateBusy: inference in flight; StateIdle: running but idle timer
\* counting down": the idle timer does not stop the engine under an inference.
IdleStopSparesInference ==
    [][\A t \in Timers :
         pc[t] = "fired" /\ pc'[t] = "stop"
             => \A c \in Callers : pc[c] # "infer"]_vars

\* "SetProvider ... Must be called before EnsureRunning": a server that runs
\* belongs to the provider the manager can stop.
RunningServerIsManaged == \A p \in Providers : up[p] => provider = p

\* "EnsureRunning guarantees the provider is running": an inference that
\* EnsureRunning lets through finds the engine ready.
EnsuredMeansReady ==
    [][\A c \in Callers :
         pc[c] # "ensured" /\ pc'[c] = "ensured" => state' = "ready"]_vars

\* "emitLocked sends a ManagerEvent ... without blocking": it never sends on
\* the channel Shutdown has closed.
NoSendOnClosedChannel == ~panicked
===============================================================================
