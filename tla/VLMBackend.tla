------------------------------ MODULE VLMBackend ------------------------------
(***************************************************************************)
(* One backend object of the vision-language model and the server          *)
(* processes it starts: LlamaCppBackend (internal/vlm/llamacpp_backend.go) *)
(* or MLXBackend (mlx_backend.go).  The two have the same shape; where     *)
(* they differ, an action says so by `kind`.                               *)
(*                                                                         *)
(* A launch stands for everything one attempt creates: the process, its    *)
(* port, its session token and the client for that address.  Start holds   *)
(* b.mu over all its attempts; Stop holds it only while it takes the       *)
(* fields; the other calls only while they read one.  The manager          *)
(* (VLMManager) calls Start with its own mutex released, and again over a  *)
(* live server when it recovers from failed health checks, so no order of  *)
(* the calls is assumed here.                                              *)
(*                                                                         *)
(* Left out: the two stderr goroutines and the text of errors, prompts and *)
(* replies.                                                                *)
(***************************************************************************)
EXTENDS Naturals, FiniteSets

CONSTANTS
    Callers,        \* goroutines that call the backend
    Launches,       \* bound: identities for server launches
    NoCaller,       \* b.mu is free
    NoLaunch,       \* a nil cmd or client, port 0
    MaxAttempts,    \* llamaCppMaxStartRetries, mlxMaxStartRetries
    MaxCalls        \* bound: calls made in all

ASSUME NilIsNone == NoCaller \notin Callers /\ NoLaunch \notin Launches
ASSUME BoundsAreNats == MaxAttempts \in Nat \ {0} /\ MaxCalls \in Nat

VARIABLES
    kind,           \* which of the two backends this is
    mu,             \* the goroutine that holds b.mu
    cmd,            \* b.cmd, with b.procDone and the stderr fields
    port,           \* b.port, with b.token
    client,         \* b.client
    proc,           \* the process of every launch
    signal,         \* the strongest signal it was sent
    taken,          \* launches whose port another program bound first
    pc,             \* where every goroutine is
    hand,           \* the launch a goroutine works on, in a local
    attempts,       \* Start's loop counter
    cancelled,      \* the context of the call is done
    calls,          \* calls made so far
    orphans,        \* history: live commands a Start has overwritten
    ready           \* history: launches whose address answered the poll

Kinds == {"llamacpp", "mlx"}
Live == {"booting", "serving", "hung"}
LockPCs == {"start", "stop", "score", "health"}
StartPCs == {"attempt", "polling", "reap"}
StopPCs == {"stopping", "killing"}
PCs == {"idle", "request", "probe"} \cup LockPCs \cup StartPCs \cup StopPCs

fields == <<cmd, port, client>>
processes == <<proc, signal, taken>>
history == <<orphans, ready>>
vars == <<kind, mu, cmd, port, client, proc, signal, taken, pc, hand,
          attempts, cancelled, calls, orphans, ready>>

TypeOK ==
    /\ kind \in Kinds
    /\ mu \in Callers \cup {NoCaller}
    /\ cmd \in Launches \cup {NoLaunch}
    /\ port \in Launches \cup {NoLaunch}
    /\ client \in Launches \cup {NoLaunch}
    /\ proc \in [Launches -> Live \cup {"none", "dead"}]
    /\ signal \in [Launches -> {"none", "int", "kill"}]
    /\ taken \in SUBSET Launches
    /\ pc \in [Callers -> PCs]
    /\ hand \in [Callers -> Launches \cup {NoLaunch}]
    /\ attempts \in [Callers -> 0 .. MaxAttempts]
    /\ cancelled \in SUBSET Callers
    /\ calls \in 0 .. MaxCalls
    /\ orphans \in SUBSET Launches
    /\ ready \in SUBSET Launches

Init ==
    /\ kind \in Kinds
    /\ mu = NoCaller
    /\ cmd = NoLaunch
    /\ port = NoLaunch
    /\ client = NoLaunch
    /\ proc = [p \in Launches |-> "none"]
    /\ signal = [p \in Launches |-> "none"]
    /\ taken = {}
    /\ pc = [t \in Callers |-> "idle"]
    /\ hand = [t \in Callers |-> NoLaunch]
    /\ attempts = [t \in Callers |-> 0]
    /\ cancelled = {}
    /\ calls = 0
    /\ orphans = {}
    /\ ready = {}

Goto(t, there) == pc' = [pc EXCEPT ![t] = there]

\* The call returns; what it held in a local is forgotten.
Return(t) ==
    /\ Goto(t, "idle")
    /\ hand' = [hand EXCEPT ![t] = NoLaunch]
    /\ cancelled' = cancelled \ {t}

Work(t, there, p) ==
    /\ Goto(t, there)
    /\ hand' = [hand EXCEPT ![t] = p]
    /\ UNCHANGED cancelled

\* Identities are taken in a fixed order: which one it is makes no difference.
Unused == {p \in Launches : proc[p] = "none"}
Fresh == CHOOSE p \in Unused : TRUE
Alive(p) == p \in Launches /\ proc[p] \in Live

-------------------------------------------------------------------------------
(* The manager and the inference path call; contexts end.                  *)

Call(t, operation) ==
    /\ pc[t] = "idle"
    /\ calls < MaxCalls
    /\ calls' = calls + 1
    /\ attempts' = [attempts EXCEPT ![t] = 0]
    /\ Goto(t, operation)
    /\ UNCHANGED <<kind, mu, fields, processes, hand, cancelled, history>>

Cancel(t) ==
    /\ pc[t] # "idle"
    /\ t \notin cancelled
    /\ cancelled' = cancelled \cup {t}
    /\ UNCHANGED <<kind, mu, fields, processes, pc, hand, attempts, calls,
                   history>>

-------------------------------------------------------------------------------
(* Start: the lock, the two files, and up to MaxAttempts launches.         *)

StartBegins(t) ==
    /\ pc[t] = "start"
    /\ mu = NoCaller
    /\ \/ \* the binary (or the venv) and the model are there
          /\ mu' = t
          /\ Goto(t, "attempt")
          /\ UNCHANGED <<hand, cancelled>>
       \/ /\ Return(t)
          /\ UNCHANGED mu
    /\ UNCHANGED <<kind, fields, processes, attempts, calls, history>>

MayAttempt(t) == t \notin cancelled /\ attempts[t] < MaxAttempts

GivesUp(t) ==
    /\ pc[t] = "attempt"
    /\ ~MayAttempt(t)
    /\ Return(t)
    /\ mu' = NoCaller
    /\ UNCHANGED <<kind, fields, processes, attempts, calls, history>>

\* b.cmd is set whatever it held.  MLX has set the client before the launch.
\* Another program may bind the port between findFreePort and the server.
Launch(t, p) ==
    /\ pc[t] = "attempt"
    /\ MayAttempt(t)
    /\ p \in Unused /\ p = Fresh
    /\ attempts' = [attempts EXCEPT ![t] = @ + 1]
    /\ proc' = [proc EXCEPT ![p] = "booting"]
    /\ taken' \in {taken, taken \cup {p}}
    /\ orphans' = IF Alive(cmd) THEN orphans \cup {cmd} ELSE orphans
    /\ cmd' = p
    /\ port' = p
    /\ client' = IF kind = "mlx" THEN p ELSE client
    /\ Work(t, "polling", p)
    /\ UNCHANGED <<kind, mu, signal, calls, ready>>

\* No port, no token, no pipe or no process: not retried.  MLX may have set
\* the port and the client already, of a server that will never exist.
LaunchFails(t) ==
    /\ pc[t] = "attempt"
    /\ MayAttempt(t)
    /\ \/ UNCHANGED <<port, client, proc>>
       \/ /\ kind = "mlx"
          /\ Unused # {}
          /\ port' = Fresh
          /\ client' = Fresh
          /\ proc' = [proc EXCEPT ![Fresh] = "dead"]
    /\ Return(t)
    /\ mu' = NoCaller
    /\ UNCHANGED <<kind, cmd, signal, taken, attempts, calls, history>>

\* waitForReady: 200 from whoever listens on the port.
PollAnswers(t) ==
    /\ pc[t] = "polling"
    /\ proc[hand[t]] = "serving" \/ hand[t] \in taken
    /\ client' = hand[t]
    /\ ready' = ready \cup {hand[t]}
    /\ Return(t)
    /\ mu' = NoCaller
    /\ UNCHANGED <<kind, cmd, port, processes, attempts, calls, orphans>>

\* Mutant: the failed attempt is left to end by itself.
PollFailsGently(t) ==
    /\ pc[t] = "polling"
    /\ Goto(t, "reap")
    /\ UNCHANGED <<kind, mu, fields, processes, hand, attempts, cancelled,
                   calls, history>>

\* waitForReady: the deadline, the context or the exit of the process.
PollFails(t) ==
    /\ pc[t] = "polling"
    /\ signal' = [signal EXCEPT ![hand[t]] = "kill"]
    /\ Goto(t, "reap")
    /\ UNCHANGED <<kind, mu, fields, proc, taken, hand, attempts, cancelled,
                   calls, history>>

\* Mutant: the fields are cleared without waiting for procDone.
ReapedAtOnce(t) ==
    /\ pc[t] = "reap"
    /\ cmd' = NoLaunch
    /\ IF t \in cancelled
         THEN Return(t) /\ mu' = NoCaller
         ELSE Work(t, "attempt", NoLaunch) /\ UNCHANGED mu
    /\ UNCHANGED <<kind, port, client, processes, attempts, calls, history>>

\* procDone is awaited before the fields are cleared; port and client stay.
Reaped(t) ==
    /\ pc[t] = "reap"
    /\ proc[hand[t]] = "dead"
    /\ cmd' = NoLaunch
    /\ IF t \in cancelled
         THEN Return(t) /\ mu' = NoCaller
         ELSE Work(t, "attempt", NoLaunch) /\ UNCHANGED mu
    /\ UNCHANGED <<kind, port, client, processes, attempts, calls, history>>

-------------------------------------------------------------------------------
(* Stop: take the fields, interrupt, wait, kill.  A signal to a process    *)
(* that is gone already fails and changes nothing.                         *)

\* Mutant: the client is forgotten only when nothing runs.
StopKeepsClient(t) ==
    /\ pc[t] = "stop"
    /\ mu = NoCaller
    /\ \/ /\ cmd = NoLaunch
          /\ client' = NoLaunch
          /\ Return(t)
          /\ UNCHANGED <<cmd, signal>>
       \/ /\ cmd # NoLaunch
          /\ cmd' = NoLaunch
          /\ signal' = [signal EXCEPT ![cmd] = "int"]
          /\ Work(t, "stopping", cmd)
          /\ UNCHANGED client
    /\ UNCHANGED <<kind, mu, port, proc, taken, attempts, calls, history>>

StopBegins(t) ==
    /\ pc[t] = "stop"
    /\ mu = NoCaller
    /\ \/ /\ cmd = NoLaunch
          /\ client' = IF kind = "llamacpp" THEN NoLaunch ELSE client
          /\ Return(t)
          /\ UNCHANGED <<cmd, signal>>
       \/ /\ cmd # NoLaunch
          /\ cmd' = NoLaunch
          /\ client' = NoLaunch
          /\ signal' = [signal EXCEPT ![cmd] = "int"]
          /\ Work(t, "stopping", cmd)
    /\ UNCHANGED <<kind, mu, port, proc, taken, attempts, calls, history>>

\* The grace period is over; llama.cpp does not wait for it once ctx is done.
StopKills(t) ==
    /\ pc[t] = "stopping"
    /\ Alive(hand[t])
    /\ signal' = [signal EXCEPT ![hand[t]] = "kill"]
    /\ Goto(t, "killing")
    /\ UNCHANGED <<kind, mu, fields, proc, taken, hand, attempts, cancelled,
                   calls, history>>

StopEnds(t) ==
    /\ pc[t] \in StopPCs
    /\ proc[hand[t]] = "dead"
    /\ Return(t)
    /\ UNCHANGED <<kind, mu, fields, processes, attempts, calls, history>>

-------------------------------------------------------------------------------
(* ScorePhoto, RankPhotos and Health read one field under the lock and     *)
(* send their request without it.                                          *)

ScoreBegins(t) ==
    /\ pc[t] = "score"
    /\ mu = NoCaller
    /\ IF client = NoLaunch THEN Return(t) ELSE Work(t, "request", client)
    /\ UNCHANGED <<kind, mu, fields, processes, attempts, calls, history>>

HealthBegins(t) ==
    /\ pc[t] = "health"
    /\ mu = NoCaller
    /\ IF (IF kind = "mlx" THEN client ELSE port) = NoLaunch
         THEN Return(t)
         ELSE Work(t, "probe", port)
    /\ UNCHANGED <<kind, mu, fields, processes, attempts, calls, history>>

\* A score or a ranking, or the error of a dead, hung or cancelled request
\* or of an unusable reply: the client gives up after 120 s.
InferenceEnds(t) ==
    /\ pc[t] = "request"
    /\ Return(t)
    /\ UNCHANGED <<kind, mu, fields, processes, attempts, calls, history>>

\* A verdict on whoever listens on the port, after 5 s at the latest.
HealthEnds(t) ==
    /\ pc[t] = "probe"
    /\ Return(t)
    /\ UNCHANGED <<kind, mu, fields, processes, attempts, calls, history>>

-------------------------------------------------------------------------------
(* The server processes.                                                   *)

Becomes(p, from, to) ==
    /\ proc[p] \in from
    /\ proc' = [proc EXCEPT ![p] = to]
    /\ UNCHANGED <<kind, mu, fields, signal, taken, pc, hand, attempts,
                   cancelled, calls, history>>

Serves(p) == p \notin taken /\ Becomes(p, {"booting"}, "serving")
Hangs(p) == Becomes(p, {"booting", "serving"}, "hung")
Dies(p) == Becomes(p, Live, "dead")
Killed(p) == signal[p] = "kill" /\ Dies(p)

Locking(t) ==
    StartBegins(t) \/ StopBegins(t) \/ ScoreBegins(t) \/ HealthBegins(t)

Proceed(t) ==
    \/ GivesUp(t)
    \/ \E p \in Launches : Launch(t, p)
    \/ LaunchFails(t)
    \/ PollAnswers(t)
    \/ PollFails(t)
    \/ Reaped(t)
    \/ StopKills(t)
    \/ StopEnds(t)
    \/ InferenceEnds(t)
    \/ HealthEnds(t)

Next ==
    \/ \E t \in Callers :
          \/ \E operation \in LockPCs : Call(t, operation)
          \/ Cancel(t)
          \/ Locking(t)
          \/ Proceed(t)
    \/ \E p \in Launches : Serves(p) \/ Hangs(p) \/ Dies(p)

Spec == Init /\ [][Next]_vars

\* Goroutines run, the timers of the polls, the grace period and the requests
\* fire, a sync.Mutex starves nobody, and SIGKILL ends a process.
Fairness ==
    /\ \A t \in Callers : SF_vars(Locking(t)) /\ WF_vars(Proceed(t))
    /\ \A p \in Launches : WF_vars(Killed(p))

FairSpec == Spec /\ Fairness

-------------------------------------------------------------------------------
(* Properties.                                                             *)

\* Every server process alive is the backend's current command, is being
\* ended by a Stop that has taken it, or was overwritten by a Start over a
\* live server: neither a failed attempt nor a Stop that returned (b.cmd is
\* cleared long before the process ends) leaves a process behind.
ServersAreManaged ==
    \A p \in Launches : Alive(p) =>
        \/ p = cmd
        \/ p \in orphans
        \/ \E t \in Callers : pc[t] \in StopPCs /\ hand[t] = p

\* Seen with the lock free, llama.cpp's command, port and client are those of
\* one launch, and MLX's client and port name one address, whatever attempts
\* failed before; and no client is left for a server that is being stopped,
\* so no photo is sent to one.
FieldsAgree ==
    /\ mu = NoCaller /\ kind = "llamacpp" /\ cmd # NoLaunch =>
          client = cmd /\ port = cmd
    /\ kind = "mlx" /\ client # NoLaunch => port = client
    /\ \A t \in Callers : pc[t] \in StopPCs => hand[t] # client

\* llama.cpp sends photos only to an address that has answered the health
\* poll: not to a server still loading, nor to one of a failed attempt.
RequestsAreReady ==
    kind = "llamacpp" =>
        \A t \in Callers : pc[t] = "request" => hand[t] \in ready

\* Every call returns, whatever the server does: the polls, the grace period
\* and the requests are bounded, a process is killed before it is awaited.
CallsReturn ==
    \A t \in Callers : pc[t] # "idle" ~> pc[t] = "idle"

\* "its lifetime is managed by Stop()" (llamacpp_backend.go:180): with no call
\* in progress and no current command, no server runs.  Refuted: a Start
\* over a live server overwrites b.cmd.
LifetimeManagedByStop ==
    (cmd = NoLaunch /\ \A t \in Callers : pc[t] = "idle") =>
        \A p \in Launches : ~Alive(p)

===============================================================================
