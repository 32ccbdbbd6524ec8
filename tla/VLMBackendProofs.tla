--------------------------- MODULE VLMBackendProofs ---------------------------
(***************************************************************************)
(* Proofs about VLMBackend, for any number of callers, launches, attempts  *)
(* and calls.  The invariant Inv adds to the properties who holds the lock *)
(* (exactly the goroutine inside Start), what the locals of Start and Stop *)
(* point to, and that nothing points to a launch not made yet.             *)
(***************************************************************************)
EXTENDS VLMBackend, TLAPS

LockInv == \A t \in Callers : mu = t <=> pc[t] \in StartPCs

\* Start works on the current command; Stop on one that nothing names now.
HandInv ==
    \A t \in Callers :
        /\ pc[t] \in {"polling", "reap"} =>
              hand[t] = cmd /\ port = cmd /\ cmd \in Launches
        /\ pc[t] \in StopPCs =>
              /\ hand[t] \in Launches
              /\ hand[t] # cmd
              /\ hand[t] # client
              /\ proc[hand[t]] # "none"

KnownInv ==
    /\ cmd \in Launches => proc[cmd] # "none"
    /\ client \in Launches => proc[client] # "none"

Settled == \A t \in Callers : pc[t] \notin {"polling", "reap"}

FieldInv ==
    /\ kind = "llamacpp" /\ cmd # NoLaunch /\ Settled =>
          client = cmd /\ port = cmd
    /\ kind = "mlx" /\ client # NoLaunch => port = client

ReadyInv ==
    kind = "llamacpp" =>
        /\ client # NoLaunch => client \in ready
        /\ \A t \in Callers : pc[t] = "request" => hand[t] \in ready

Inv == LockInv /\ HandInv /\ KnownInv /\ FieldInv /\ ReadyInv /\ ServersAreManaged

-------------------------------------------------------------------------------

LEMMA FreshIsUnused == Unused # {} => Fresh \in Unused
  BY DEF Fresh

\* Everything starts nil, free and idle.
LEMMA InitInv == Init => TypeOK /\ Inv
<1> SUFFICES ASSUME Init PROVE TypeOK /\ Inv
  OBVIOUS
<1> USE NilIsNone, BoundsAreNats DEF Init, Alive, Live, PCs, LockPCs, StartPCs, StopPCs
<1>1. TypeOK
  BY DEF TypeOK, Kinds
<1>2. LockInv /\ HandInv /\ KnownInv
  BY DEF LockInv, HandInv, KnownInv
<1>3. FieldInv /\ ReadyInv /\ ServersAreManaged
  BY DEF FieldInv, ReadyInv, ServersAreManaged
<1>4. QED
  BY <1>1, <1>2, <1>3 DEF Inv

\* A step keeps every variable in its type.
LEMMA TypeStep ==
    ASSUME TypeOK, HandInv, Next
    PROVE  TypeOK'
<1> USE DEF TypeOK, HandInv, Kinds, Live, PCs, LockPCs, StartPCs, StopPCs, fields, processes, history,
            Goto, Return, Work, MayAttempt, Unused
<1>1. ASSUME NEW t \in Callers,
             \/ \E operation \in LockPCs : Call(t, operation)
             \/ Cancel(t)
      PROVE  TypeOK'
  <2>1. CASE \E operation \in LockPCs : Call(t, operation)
    BY NilIsNone, BoundsAreNats, FreshIsUnused, <2>1 DEF Call
  <2>2. CASE Cancel(t)
    BY NilIsNone, BoundsAreNats, FreshIsUnused, <2>2 DEF Cancel
  <2>3. QED
    BY <1>1, <2>1, <2>2
<1>2. ASSUME NEW t \in Callers, Locking(t)
      PROVE  TypeOK'
  <2>1. CASE StartBegins(t)
    <3>1. CASE mu' = t
      BY NilIsNone, BoundsAreNats, FreshIsUnused, <2>1, <3>1 DEF StartBegins
    <3>2. CASE mu' # t
      BY NilIsNone, BoundsAreNats, FreshIsUnused, <2>1, <3>2 DEF StartBegins
    <3>3. QED
      BY <2>1, <3>1, <3>2 DEF StartBegins
  <2>2. CASE StopBegins(t)
    <3>1. CASE cmd = NoLaunch
      BY NilIsNone, BoundsAreNats, FreshIsUnused, <2>2, <3>1 DEF StopBegins
    <3>2. CASE cmd # NoLaunch
      BY NilIsNone, BoundsAreNats, FreshIsUnused, <2>2, <3>2 DEF StopBegins
    <3>3. QED
      BY <2>2, <3>1, <3>2 DEF StopBegins
  <2>3. CASE ScoreBegins(t)
    <3>1. CASE client = NoLaunch
      BY NilIsNone, BoundsAreNats, FreshIsUnused, <2>3, <3>1 DEF ScoreBegins
    <3>2. CASE client # NoLaunch
      BY NilIsNone, BoundsAreNats, FreshIsUnused, <2>3, <3>2 DEF ScoreBegins
    <3>3. QED
      BY <2>3, <3>1, <3>2 DEF ScoreBegins
  <2>4. CASE HealthBegins(t)
    <3>1. CASE (IF kind = "mlx" THEN client ELSE port) = NoLaunch
      BY NilIsNone, BoundsAreNats, FreshIsUnused, <2>4, <3>1 DEF HealthBegins
    <3>2. CASE (IF kind = "mlx" THEN client ELSE port) # NoLaunch
      BY NilIsNone, BoundsAreNats, FreshIsUnused, <2>4, <3>2 DEF HealthBegins
    <3>3. QED
      BY <2>4, <3>1, <3>2 DEF HealthBegins
  <2>5. QED
    BY <1>2, <2>1, <2>2, <2>3, <2>4 DEF Locking
<1>3. ASSUME NEW t \in Callers, Proceed(t)
      PROVE  TypeOK'
  <2>1. CASE GivesUp(t)
    BY NilIsNone, BoundsAreNats, FreshIsUnused, <2>1 DEF GivesUp
  <2>2. CASE \E p \in Launches : Launch(t, p)
    <3>1. PICK p \in Launches : Launch(t, p)
      BY <2>2
    <3>2. attempts' \in [Callers -> 0 .. MaxAttempts]
      BY BoundsAreNats, <3>1 DEF Launch
    <3>3. taken' \in SUBSET Launches /\ orphans' \in SUBSET Launches
      BY <3>1 DEF Launch, Alive
    <3>4. proc' \in [Launches -> Live \cup {"none", "dead"}]
      BY <3>1 DEF Launch
    <3>5. cmd' \in Launches /\ port' \in Launches /\ client' \in Launches \cup {NoLaunch}
      BY <3>1 DEF Launch
    <3>6. pc' \in [Callers -> PCs] /\ hand' \in [Callers -> Launches \cup {NoLaunch}]
      BY <3>1 DEF Launch
    <3>7. QED
      BY <3>1, <3>2, <3>3, <3>4, <3>5, <3>6 DEF Launch
  <2>3. CASE LaunchFails(t)
    <3>1. CASE UNCHANGED <<port, client, proc>>
      BY NilIsNone, BoundsAreNats, FreshIsUnused, <2>3, <3>1 DEF LaunchFails
    <3>2. CASE kind = "mlx" /\ Unused # {} /\ port' = Fresh /\ client' = Fresh /\ proc' = [proc EXCEPT ![Fresh] = "dead"]
      BY NilIsNone, BoundsAreNats, FreshIsUnused, <2>3, <3>2 DEF LaunchFails
    <3>3. QED
      BY <2>3, <3>1, <3>2 DEF LaunchFails
  <2>4. CASE PollAnswers(t)
    BY NilIsNone, BoundsAreNats, FreshIsUnused, <2>4 DEF PollAnswers
  <2>5. CASE PollFails(t)
    BY NilIsNone, BoundsAreNats, FreshIsUnused, <2>5 DEF PollFails
  <2>6. CASE Reaped(t)
    <3>1. CASE t \in cancelled
      BY NilIsNone, BoundsAreNats, FreshIsUnused, <2>6, <3>1 DEF Reaped
    <3>2. CASE t \notin cancelled
      BY NilIsNone, BoundsAreNats, FreshIsUnused, <2>6, <3>2 DEF Reaped
    <3>3. QED
      BY <2>6, <3>1, <3>2 DEF Reaped
  <2>7. CASE StopKills(t)
    BY NilIsNone, BoundsAreNats, FreshIsUnused, <2>7 DEF StopKills
  <2>8. CASE StopEnds(t)
    BY NilIsNone, BoundsAreNats, FreshIsUnused, <2>8 DEF StopEnds
  <2>9. CASE InferenceEnds(t)
    BY NilIsNone, BoundsAreNats, FreshIsUnused, <2>9 DEF InferenceEnds
  <2>10. CASE HealthEnds(t)
    BY NilIsNone, BoundsAreNats, FreshIsUnused, <2>10 DEF HealthEnds
  <2>11. QED
    BY <1>3, <2>1, <2>2, <2>3, <2>4, <2>5, <2>6, <2>7, <2>8, <2>9, <2>10 DEF Proceed
<1>4. ASSUME NEW p \in Launches, Serves(p) \/ Hangs(p) \/ Dies(p)
      PROVE  TypeOK'
    BY NilIsNone, BoundsAreNats, FreshIsUnused, <1>4 DEF Serves, Hangs, Dies, Becomes
<1>5. QED
  BY <1>1, <1>2, <1>3, <1>4 DEF Next

\* The lock is held by the goroutine inside Start, and by nobody else.
LEMMA LockStep ==
    ASSUME TypeOK, LockInv, Next
    PROVE  LockInv'
<1> USE DEF TypeOK, LockInv, PCs, LockPCs, StartPCs, StopPCs, fields, processes, history, Goto, Return, Work
<1>1. ASSUME NEW t \in Callers,
             \/ \E operation \in LockPCs : Call(t, operation)
             \/ Cancel(t)
      PROVE  LockInv'
  <2>1. CASE \E operation \in LockPCs : Call(t, operation)
    BY NilIsNone, <2>1 DEF Call
  <2>2. CASE Cancel(t)
    BY NilIsNone, <2>2 DEF Cancel
  <2>3. QED
    BY <1>1, <2>1, <2>2
<1>2. ASSUME NEW t \in Callers, Locking(t)
      PROVE  LockInv'
  <2>1. CASE StartBegins(t)
    <3>1. CASE mu' = t
      BY NilIsNone, <2>1, <3>1 DEF StartBegins
    <3>2. CASE mu' # t
      BY NilIsNone, <2>1, <3>2 DEF StartBegins
    <3>3. QED
      BY <2>1, <3>1, <3>2 DEF StartBegins
  <2>2. CASE StopBegins(t)
    <3>1. CASE cmd = NoLaunch
      BY NilIsNone, <2>2, <3>1 DEF StopBegins
    <3>2. CASE cmd # NoLaunch
      BY NilIsNone, <2>2, <3>2 DEF StopBegins
    <3>3. QED
      BY <2>2, <3>1, <3>2 DEF StopBegins
  <2>3. CASE ScoreBegins(t)
    <3>1. CASE client = NoLaunch
      BY NilIsNone, <2>3, <3>1 DEF ScoreBegins
    <3>2. CASE client # NoLaunch
      BY NilIsNone, <2>3, <3>2 DEF ScoreBegins
    <3>3. QED
      BY <2>3, <3>1, <3>2 DEF ScoreBegins
  <2>4. CASE HealthBegins(t)
    <3>1. CASE (IF kind = "mlx" THEN client ELSE port) = NoLaunch
      BY NilIsNone, <2>4, <3>1 DEF HealthBegins
    <3>2. CASE (IF kind = "mlx" THEN client ELSE port) # NoLaunch
      BY NilIsNone, <2>4, <3>2 DEF HealthBegins
    <3>3. QED
      BY <2>4, <3>1, <3>2 DEF HealthBegins
  <2>5. QED
    BY <1>2, <2>1, <2>2, <2>3, <2>4 DEF Locking
<1>3. ASSUME NEW t \in Callers, Proceed(t)
      PROVE  LockInv'
  <2>1. CASE GivesUp(t)
    BY NilIsNone, <2>1 DEF GivesUp
  <2>2. CASE \E p \in Launches : Launch(t, p)
    BY NilIsNone, <2>2 DEF Launch
  <2>3. CASE LaunchFails(t)
    <3>1. CASE UNCHANGED <<port, client, proc>>
      BY NilIsNone, <2>3, <3>1 DEF LaunchFails
    <3>2. CASE kind = "mlx" /\ Unused # {} /\ port' = Fresh /\ client' = Fresh /\ proc' = [proc EXCEPT ![Fresh] = "dead"]
      BY NilIsNone, <2>3, <3>2 DEF LaunchFails
    <3>3. QED
      BY <2>3, <3>1, <3>2 DEF LaunchFails
  <2>4. CASE PollAnswers(t)
    BY NilIsNone, <2>4 DEF PollAnswers
  <2>5. CASE PollFails(t)
    BY NilIsNone, <2>5 DEF PollFails
  <2>6. CASE Reaped(t)
    <3>1. CASE t \in cancelled
      BY NilIsNone, <2>6, <3>1 DEF Reaped
    <3>2. CASE t \notin cancelled
      BY NilIsNone, <2>6, <3>2 DEF Reaped
    <3>3. QED
      BY <2>6, <3>1, <3>2 DEF Reaped
  <2>7. CASE StopKills(t)
    BY NilIsNone, <2>7 DEF StopKills
  <2>8. CASE StopEnds(t)
    BY NilIsNone, <2>8 DEF StopEnds
  <2>9. CASE InferenceEnds(t)
    BY NilIsNone, <2>9 DEF InferenceEnds
  <2>10. CASE HealthEnds(t)
    BY NilIsNone, <2>10 DEF HealthEnds
  <2>11. QED
    BY <1>3, <2>1, <2>2, <2>3, <2>4, <2>5, <2>6, <2>7, <2>8, <2>9, <2>10 DEF Proceed
<1>4. ASSUME NEW p \in Launches, Serves(p) \/ Hangs(p) \/ Dies(p)
      PROVE  LockInv'
    BY NilIsNone, <1>4 DEF Serves, Hangs, Dies, Becomes
<1>5. QED
  BY <1>1, <1>2, <1>3, <1>4 DEF Next

\* Start holds the lock while its command is the current one; a command taken
\* by Stop is named by no field again.
LEMMA HandStep ==
    ASSUME TypeOK, LockInv, HandInv, KnownInv, Next
    PROVE  HandInv'
<1> USE DEF TypeOK, LockInv, HandInv, KnownInv, PCs, LockPCs, StartPCs, StopPCs, fields, processes, history, Goto, Return, Work, Live, Unused
<1>1. ASSUME NEW t \in Callers,
             \/ \E operation \in LockPCs : Call(t, operation)
             \/ Cancel(t)
      PROVE  HandInv'
  <2>1. CASE \E operation \in LockPCs : Call(t, operation)
    BY NilIsNone, FreshIsUnused, <2>1 DEF Call
  <2>2. CASE Cancel(t)
    BY NilIsNone, FreshIsUnused, <2>2 DEF Cancel
  <2>3. QED
    BY <1>1, <2>1, <2>2
<1>2. ASSUME NEW t \in Callers, Locking(t)
      PROVE  HandInv'
  <2>1. CASE StartBegins(t)
    <3>1. CASE mu' = t
      BY NilIsNone, FreshIsUnused, <2>1, <3>1 DEF StartBegins
    <3>2. CASE mu' # t
      BY NilIsNone, FreshIsUnused, <2>1, <3>2 DEF StartBegins
    <3>3. QED
      BY <2>1, <3>1, <3>2 DEF StartBegins
  <2>2. CASE StopBegins(t)
    <3>1. CASE cmd = NoLaunch
      BY NilIsNone, FreshIsUnused, <2>2, <3>1 DEF StopBegins
    <3>2. CASE cmd # NoLaunch
      BY NilIsNone, FreshIsUnused, <2>2, <3>2 DEF StopBegins
    <3>3. QED
      BY <2>2, <3>1, <3>2 DEF StopBegins
  <2>3. CASE ScoreBegins(t)
    <3>1. CASE client = NoLaunch
      BY NilIsNone, FreshIsUnused, <2>3, <3>1 DEF ScoreBegins
    <3>2. CASE client # NoLaunch
      BY NilIsNone, FreshIsUnused, <2>3, <3>2 DEF ScoreBegins
    <3>3. QED
      BY <2>3, <3>1, <3>2 DEF ScoreBegins
  <2>4. CASE HealthBegins(t)
    <3>1. CASE (IF kind = "mlx" THEN client ELSE port) = NoLaunch
      BY NilIsNone, FreshIsUnused, <2>4, <3>1 DEF HealthBegins
    <3>2. CASE (IF kind = "mlx" THEN client ELSE port) # NoLaunch
      BY NilIsNone, FreshIsUnused, <2>4, <3>2 DEF HealthBegins
    <3>3. QED
      BY <2>4, <3>1, <3>2 DEF HealthBegins
  <2>5. QED
    BY <1>2, <2>1, <2>2, <2>3, <2>4 DEF Locking
<1>3. ASSUME NEW t \in Callers, Proceed(t)
      PROVE  HandInv'
  <2>1. CASE GivesUp(t)
    BY NilIsNone, FreshIsUnused, <2>1 DEF GivesUp
  <2>2. CASE \E p \in Launches : Launch(t, p)
    BY NilIsNone, FreshIsUnused, <2>2 DEF Launch
  <2>3. CASE LaunchFails(t)
    <3>1. CASE UNCHANGED <<port, client, proc>>
      BY NilIsNone, FreshIsUnused, <2>3, <3>1 DEF LaunchFails
    <3>2. CASE kind = "mlx" /\ Unused # {} /\ port' = Fresh /\ client' = Fresh /\ proc' = [proc EXCEPT ![Fresh] = "dead"]
      BY NilIsNone, FreshIsUnused, <2>3, <3>2 DEF LaunchFails
    <3>3. QED
      BY <2>3, <3>1, <3>2 DEF LaunchFails
  <2>4. CASE PollAnswers(t)
    BY NilIsNone, FreshIsUnused, <2>4 DEF PollAnswers
  <2>5. CASE PollFails(t)
    BY NilIsNone, FreshIsUnused, <2>5 DEF PollFails
  <2>6. CASE Reaped(t)
    <3>1. CASE t \in cancelled
      BY NilIsNone, FreshIsUnused, <2>6, <3>1 DEF Reaped
    <3>2. CASE t \notin cancelled
      BY NilIsNone, FreshIsUnused, <2>6, <3>2 DEF Reaped
    <3>3. QED
      BY <2>6, <3>1, <3>2 DEF Reaped
  <2>7. CASE StopKills(t)
    BY NilIsNone, FreshIsUnused, <2>7 DEF StopKills
  <2>8. CASE StopEnds(t)
    BY NilIsNone, FreshIsUnused, <2>8 DEF StopEnds
  <2>9. CASE InferenceEnds(t)
    BY NilIsNone, FreshIsUnused, <2>9 DEF InferenceEnds
  <2>10. CASE HealthEnds(t)
    BY NilIsNone, FreshIsUnused, <2>10 DEF HealthEnds
  <2>11. QED
    BY <1>3, <2>1, <2>2, <2>3, <2>4, <2>5, <2>6, <2>7, <2>8, <2>9, <2>10 DEF Proceed
<1>4. ASSUME NEW p \in Launches, Serves(p) \/ Hangs(p) \/ Dies(p)
      PROVE  HandInv'
    BY NilIsNone, FreshIsUnused, <1>4 DEF Serves, Hangs, Dies, Becomes
<1>5. QED
  BY <1>1, <1>2, <1>3, <1>4 DEF Next

\* The fields name launches that were made.
LEMMA KnownStep ==
    ASSUME TypeOK, HandInv, KnownInv, Next
    PROVE  KnownInv'
<1> USE DEF TypeOK, HandInv, KnownInv, PCs, LockPCs, StartPCs, StopPCs, fields, processes, history, Goto, Return, Work, Live, Unused
<1>1. ASSUME NEW t \in Callers,
             \/ \E operation \in LockPCs : Call(t, operation)
             \/ Cancel(t)
      PROVE  KnownInv'
  <2>1. CASE \E operation \in LockPCs : Call(t, operation)
    BY NilIsNone, FreshIsUnused, <2>1 DEF Call
  <2>2. CASE Cancel(t)
    BY NilIsNone, FreshIsUnused, <2>2 DEF Cancel
  <2>3. QED
    BY <1>1, <2>1, <2>2
<1>2. ASSUME NEW t \in Callers, Locking(t)
      PROVE  KnownInv'
  <2>1. CASE StartBegins(t)
    <3>1. CASE mu' = t
      BY NilIsNone, FreshIsUnused, <2>1, <3>1 DEF StartBegins
    <3>2. CASE mu' # t
      BY NilIsNone, FreshIsUnused, <2>1, <3>2 DEF StartBegins
    <3>3. QED
      BY <2>1, <3>1, <3>2 DEF StartBegins
  <2>2. CASE StopBegins(t)
    <3>1. CASE cmd = NoLaunch
      BY NilIsNone, FreshIsUnused, <2>2, <3>1 DEF StopBegins
    <3>2. CASE cmd # NoLaunch
      BY NilIsNone, FreshIsUnused, <2>2, <3>2 DEF StopBegins
    <3>3. QED
      BY <2>2, <3>1, <3>2 DEF StopBegins
  <2>3. CASE ScoreBegins(t)
    <3>1. CASE client = NoLaunch
      BY NilIsNone, FreshIsUnused, <2>3, <3>1 DEF ScoreBegins
    <3>2. CASE client # NoLaunch
      BY NilIsNone, FreshIsUnused, <2>3, <3>2 DEF ScoreBegins
    <3>3. QED
      BY <2>3, <3>1, <3>2 DEF ScoreBegins
  <2>4. CASE HealthBegins(t)
    <3>1. CASE (IF kind = "mlx" THEN client ELSE port) = NoLaunch
      BY NilIsNone, FreshIsUnused, <2>4, <3>1 DEF HealthBegins
    <3>2. CASE (IF kind = "mlx" THEN client ELSE port) # NoLaunch
      BY NilIsNone, FreshIsUnused, <2>4, <3>2 DEF HealthBegins
    <3>3. QED
      BY <2>4, <3>1, <3>2 DEF HealthBegins
  <2>5. QED
    BY <1>2, <2>1, <2>2, <2>3, <2>4 DEF Locking
<1>3. ASSUME NEW t \in Callers, Proceed(t)
      PROVE  KnownInv'
  <2>1. CASE GivesUp(t)
    BY NilIsNone, FreshIsUnused, <2>1 DEF GivesUp
  <2>2. CASE \E p \in Launches : Launch(t, p)
    BY NilIsNone, FreshIsUnused, <2>2 DEF Launch
  <2>3. CASE LaunchFails(t)
    <3>1. CASE UNCHANGED <<port, client, proc>>
      BY NilIsNone, FreshIsUnused, <2>3, <3>1 DEF LaunchFails
    <3>2. CASE kind = "mlx" /\ Unused # {} /\ port' = Fresh /\ client' = Fresh /\ proc' = [proc EXCEPT ![Fresh] = "dead"]
      BY NilIsNone, FreshIsUnused, <2>3, <3>2 DEF LaunchFails
    <3>3. QED
      BY <2>3, <3>1, <3>2 DEF LaunchFails
  <2>4. CASE PollAnswers(t)
    BY NilIsNone, FreshIsUnused, <2>4 DEF PollAnswers
  <2>5. CASE PollFails(t)
    BY NilIsNone, FreshIsUnused, <2>5 DEF PollFails
  <2>6. CASE Reaped(t)
    <3>1. CASE t \in cancelled
      BY NilIsNone, FreshIsUnused, <2>6, <3>1 DEF Reaped
    <3>2. CASE t \notin cancelled
      BY NilIsNone, FreshIsUnused, <2>6, <3>2 DEF Reaped
    <3>3. QED
      BY <2>6, <3>1, <3>2 DEF Reaped
  <2>7. CASE StopKills(t)
    BY NilIsNone, FreshIsUnused, <2>7 DEF StopKills
  <2>8. CASE StopEnds(t)
    BY NilIsNone, FreshIsUnused, <2>8 DEF StopEnds
  <2>9. CASE InferenceEnds(t)
    BY NilIsNone, FreshIsUnused, <2>9 DEF InferenceEnds
  <2>10. CASE HealthEnds(t)
    BY NilIsNone, FreshIsUnused, <2>10 DEF HealthEnds
  <2>11. QED
    BY <1>3, <2>1, <2>2, <2>3, <2>4, <2>5, <2>6, <2>7, <2>8, <2>9, <2>10 DEF Proceed
<1>4. ASSUME NEW p \in Launches, Serves(p) \/ Hangs(p) \/ Dies(p)
      PROVE  KnownInv'
    BY NilIsNone, FreshIsUnused, <1>4 DEF Serves, Hangs, Dies, Becomes
<1>5. QED
  BY <1>1, <1>2, <1>3, <1>4 DEF Next

\* Outside an attempt the fields describe one launch.
LEMMA FieldStep ==
    ASSUME TypeOK, LockInv, HandInv, FieldInv, Next
    PROVE  FieldInv'
<1> USE DEF TypeOK, LockInv, HandInv, FieldInv, Settled, PCs, LockPCs, StartPCs, StopPCs, fields, processes, history, Goto, Return, Work, Unused, Kinds
<1>1. ASSUME NEW t \in Callers,
             \/ \E operation \in LockPCs : Call(t, operation)
             \/ Cancel(t)
      PROVE  FieldInv'
  <2>1. CASE \E operation \in LockPCs : Call(t, operation)
    BY NilIsNone, FreshIsUnused, <2>1 DEF Call
  <2>2. CASE Cancel(t)
    BY NilIsNone, FreshIsUnused, <2>2 DEF Cancel
  <2>3. QED
    BY <1>1, <2>1, <2>2
<1>2. ASSUME NEW t \in Callers, Locking(t)
      PROVE  FieldInv'
  <2>1. CASE StartBegins(t)
    <3>1. CASE mu' = t
      BY NilIsNone, FreshIsUnused, <2>1, <3>1 DEF StartBegins
    <3>2. CASE mu' # t
      BY NilIsNone, FreshIsUnused, <2>1, <3>2 DEF StartBegins
    <3>3. QED
      BY <2>1, <3>1, <3>2 DEF StartBegins
  <2>2. CASE StopBegins(t)
    <3>1. CASE cmd = NoLaunch
      BY NilIsNone, FreshIsUnused, <2>2, <3>1 DEF StopBegins
    <3>2. CASE cmd # NoLaunch
      BY NilIsNone, FreshIsUnused, <2>2, <3>2 DEF StopBegins
    <3>3. QED
      BY <2>2, <3>1, <3>2 DEF StopBegins
  <2>3. CASE ScoreBegins(t)
    <3>1. CASE client = NoLaunch
      BY NilIsNone, FreshIsUnused, <2>3, <3>1 DEF ScoreBegins
    <3>2. CASE client # NoLaunch
      BY NilIsNone, FreshIsUnused, <2>3, <3>2 DEF ScoreBegins
    <3>3. QED
      BY <2>3, <3>1, <3>2 DEF ScoreBegins
  <2>4. CASE HealthBegins(t)
    <3>1. CASE (IF kind = "mlx" THEN client ELSE port) = NoLaunch
      BY NilIsNone, FreshIsUnused, <2>4, <3>1 DEF HealthBegins
    <3>2. CASE (IF kind = "mlx" THEN client ELSE port) # NoLaunch
      BY NilIsNone, FreshIsUnused, <2>4, <3>2 DEF HealthBegins
    <3>3. QED
      BY <2>4, <3>1, <3>2 DEF HealthBegins
  <2>5. QED
    BY <1>2, <2>1, <2>2, <2>3, <2>4 DEF Locking
<1>3. ASSUME NEW t \in Callers, Proceed(t)
      PROVE  FieldInv'
  <2>1. CASE GivesUp(t)
    BY NilIsNone, FreshIsUnused, <2>1 DEF GivesUp
  <2>2. CASE \E p \in Launches : Launch(t, p)
    BY NilIsNone, FreshIsUnused, <2>2 DEF Launch
  <2>3. CASE LaunchFails(t)
    <3>1. CASE UNCHANGED <<port, client, proc>>
      BY NilIsNone, FreshIsUnused, <2>3, <3>1 DEF LaunchFails
    <3>2. CASE kind = "mlx" /\ Unused # {} /\ port' = Fresh /\ client' = Fresh /\ proc' = [proc EXCEPT ![Fresh] = "dead"]
      BY NilIsNone, FreshIsUnused, <2>3, <3>2 DEF LaunchFails
    <3>3. QED
      BY <2>3, <3>1, <3>2 DEF LaunchFails
  <2>4. CASE PollAnswers(t)
    BY NilIsNone, FreshIsUnused, <2>4 DEF PollAnswers
  <2>5. CASE PollFails(t)
    BY NilIsNone, FreshIsUnused, <2>5 DEF PollFails
  <2>6. CASE Reaped(t)
    <3>1. CASE t \in cancelled
      BY NilIsNone, FreshIsUnused, <2>6, <3>1 DEF Reaped
    <3>2. CASE t \notin cancelled
      BY NilIsNone, FreshIsUnused, <2>6, <3>2 DEF Reaped
    <3>3. QED
      BY <2>6, <3>1, <3>2 DEF Reaped
  <2>7. CASE StopKills(t)
    BY NilIsNone, FreshIsUnused, <2>7 DEF StopKills
  <2>8. CASE StopEnds(t)
    BY NilIsNone, FreshIsUnused, <2>8 DEF StopEnds
  <2>9. CASE InferenceEnds(t)
    BY NilIsNone, FreshIsUnused, <2>9 DEF InferenceEnds
  <2>10. CASE HealthEnds(t)
    BY NilIsNone, FreshIsUnused, <2>10 DEF HealthEnds
  <2>11. QED
    BY <1>3, <2>1, <2>2, <2>3, <2>4, <2>5, <2>6, <2>7, <2>8, <2>9, <2>10 DEF Proceed
<1>4. ASSUME NEW p \in Launches, Serves(p) \/ Hangs(p) \/ Dies(p)
      PROVE  FieldInv'
    BY NilIsNone, FreshIsUnused, <1>4 DEF Serves, Hangs, Dies, Becomes
<1>5. QED
  BY <1>1, <1>2, <1>3, <1>4 DEF Next

\* A llama.cpp client is created when its server has answered.
LEMMA ReadyStep ==
    ASSUME TypeOK, ReadyInv, Next
    PROVE  ReadyInv'
<1> USE DEF TypeOK, ReadyInv, PCs, LockPCs, StartPCs, StopPCs, fields, processes, history, Goto, Return, Work, Kinds
<1>1. ASSUME NEW t \in Callers,
             \/ \E operation \in LockPCs : Call(t, operation)
             \/ Cancel(t)
      PROVE  ReadyInv'
  <2>1. CASE \E operation \in LockPCs : Call(t, operation)
    BY NilIsNone, <2>1 DEF Call
  <2>2. CASE Cancel(t)
    BY NilIsNone, <2>2 DEF Cancel
  <2>3. QED
    BY <1>1, <2>1, <2>2
<1>2. ASSUME NEW t \in Callers, Locking(t)
      PROVE  ReadyInv'
  <2>1. CASE StartBegins(t)
    <3>1. CASE mu' = t
      BY NilIsNone, <2>1, <3>1 DEF StartBegins
    <3>2. CASE mu' # t
      BY NilIsNone, <2>1, <3>2 DEF StartBegins
    <3>3. QED
      BY <2>1, <3>1, <3>2 DEF StartBegins
  <2>2. CASE StopBegins(t)
    <3>1. CASE cmd = NoLaunch
      BY NilIsNone, <2>2, <3>1 DEF StopBegins
    <3>2. CASE cmd # NoLaunch
      BY NilIsNone, <2>2, <3>2 DEF StopBegins
    <3>3. QED
      BY <2>2, <3>1, <3>2 DEF StopBegins
  <2>3. CASE ScoreBegins(t)
    <3>1. CASE client = NoLaunch
      BY NilIsNone, <2>3, <3>1 DEF ScoreBegins
    <3>2. CASE client # NoLaunch
      BY NilIsNone, <2>3, <3>2 DEF ScoreBegins
    <3>3. QED
      BY <2>3, <3>1, <3>2 DEF ScoreBegins
  <2>4. CASE HealthBegins(t)
    <3>1. CASE (IF kind = "mlx" THEN client ELSE port) = NoLaunch
      BY NilIsNone, <2>4, <3>1 DEF HealthBegins
    <3>2. CASE (IF kind = "mlx" THEN client ELSE port) # NoLaunch
      BY NilIsNone, <2>4, <3>2 DEF HealthBegins
    <3>3. QED
      BY <2>4, <3>1, <3>2 DEF HealthBegins
  <2>5. QED
    BY <1>2, <2>1, <2>2, <2>3, <2>4 DEF Locking
<1>3. ASSUME NEW t \in Callers, Proceed(t)
      PROVE  ReadyInv'
  <2>1. CASE GivesUp(t)
    BY NilIsNone, <2>1 DEF GivesUp
  <2>2. CASE \E p \in Launches : Launch(t, p)
    BY NilIsNone, <2>2 DEF Launch
  <2>3. CASE LaunchFails(t)
    <3>1. CASE UNCHANGED <<port, client, proc>>
      BY NilIsNone, <2>3, <3>1 DEF LaunchFails
    <3>2. CASE kind = "mlx" /\ Unused # {} /\ port' = Fresh /\ client' = Fresh /\ proc' = [proc EXCEPT ![Fresh] = "dead"]
      BY NilIsNone, <2>3, <3>2 DEF LaunchFails
    <3>3. QED
      BY <2>3, <3>1, <3>2 DEF LaunchFails
  <2>4. CASE PollAnswers(t)
    BY NilIsNone, <2>4 DEF PollAnswers
  <2>5. CASE PollFails(t)
    BY NilIsNone, <2>5 DEF PollFails
  <2>6. CASE Reaped(t)
    <3>1. CASE t \in cancelled
      BY NilIsNone, <2>6, <3>1 DEF Reaped
    <3>2. CASE t \notin cancelled
      BY NilIsNone, <2>6, <3>2 DEF Reaped
    <3>3. QED
      BY <2>6, <3>1, <3>2 DEF Reaped
  <2>7. CASE StopKills(t)
    BY NilIsNone, <2>7 DEF StopKills
  <2>8. CASE StopEnds(t)
    BY NilIsNone, <2>8 DEF StopEnds
  <2>9. CASE InferenceEnds(t)
    BY NilIsNone, <2>9 DEF InferenceEnds
  <2>10. CASE HealthEnds(t)
    BY NilIsNone, <2>10 DEF HealthEnds
  <2>11. QED
    BY <1>3, <2>1, <2>2, <2>3, <2>4, <2>5, <2>6, <2>7, <2>8, <2>9, <2>10 DEF Proceed
<1>4. ASSUME NEW p \in Launches, Serves(p) \/ Hangs(p) \/ Dies(p)
      PROVE  ReadyInv'
    BY NilIsNone, <1>4 DEF Serves, Hangs, Dies, Becomes
<1>5. QED
  BY <1>1, <1>2, <1>3, <1>4 DEF Next

\* A process that loses its command is dead, taken by a Stop or overwritten.
LEMMA ManagedStep ==
    ASSUME TypeOK, LockInv, HandInv, ServersAreManaged, Next
    PROVE  ServersAreManaged'
<1> USE DEF TypeOK, LockInv, HandInv, ServersAreManaged, PCs, LockPCs, StartPCs, StopPCs, fields, processes, history, Goto, Return, Work, Alive, Live, Unused
<1>1. ASSUME NEW t \in Callers,
             \/ \E operation \in LockPCs : Call(t, operation)
             \/ Cancel(t)
      PROVE  ServersAreManaged'
  <2>1. CASE \E operation \in LockPCs : Call(t, operation)
    BY NilIsNone, FreshIsUnused, <2>1 DEF Call
  <2>2. CASE Cancel(t)
    BY NilIsNone, FreshIsUnused, <2>2 DEF Cancel
  <2>3. QED
    BY <1>1, <2>1, <2>2
<1>2. ASSUME NEW t \in Callers, Locking(t)
      PROVE  ServersAreManaged'
  <2>1. CASE StartBegins(t)
    <3>1. CASE mu' = t
      BY NilIsNone, FreshIsUnused, <2>1, <3>1 DEF StartBegins
    <3>2. CASE mu' # t
      BY NilIsNone, FreshIsUnused, <2>1, <3>2 DEF StartBegins
    <3>3. QED
      BY <2>1, <3>1, <3>2 DEF StartBegins
  <2>2. CASE StopBegins(t)
    <3>1. CASE cmd = NoLaunch
      BY NilIsNone, FreshIsUnused, <2>2, <3>1 DEF StopBegins
    <3>2. CASE cmd # NoLaunch
      BY NilIsNone, FreshIsUnused, <2>2, <3>2 DEF StopBegins
    <3>3. QED
      BY <2>2, <3>1, <3>2 DEF StopBegins
  <2>3. CASE ScoreBegins(t)
    <3>1. CASE client = NoLaunch
      BY NilIsNone, FreshIsUnused, <2>3, <3>1 DEF ScoreBegins
    <3>2. CASE client # NoLaunch
      BY NilIsNone, FreshIsUnused, <2>3, <3>2 DEF ScoreBegins
    <3>3. QED
      BY <2>3, <3>1, <3>2 DEF ScoreBegins
  <2>4. CASE HealthBegins(t)
    <3>1. CASE (IF kind = "mlx" THEN client ELSE port) = NoLaunch
      BY NilIsNone, FreshIsUnused, <2>4, <3>1 DEF HealthBegins
    <3>2. CASE (IF kind = "mlx" THEN client ELSE port) # NoLaunch
      BY NilIsNone, FreshIsUnused, <2>4, <3>2 DEF HealthBegins
    <3>3. QED
      BY <2>4, <3>1, <3>2 DEF HealthBegins
  <2>5. QED
    BY <1>2, <2>1, <2>2, <2>3, <2>4 DEF Locking
<1>3. ASSUME NEW t \in Callers, Proceed(t)
      PROVE  ServersAreManaged'
  <2>1. CASE GivesUp(t)
    BY NilIsNone, FreshIsUnused, <2>1 DEF GivesUp
  <2>2. CASE \E p \in Launches : Launch(t, p)
    BY NilIsNone, FreshIsUnused, <2>2 DEF Launch
  <2>3. CASE LaunchFails(t)
    <3>1. CASE UNCHANGED <<port, client, proc>>
      BY NilIsNone, FreshIsUnused, <2>3, <3>1 DEF LaunchFails
    <3>2. CASE kind = "mlx" /\ Unused # {} /\ port' = Fresh /\ client' = Fresh /\ proc' = [proc EXCEPT ![Fresh] = "dead"]
      BY NilIsNone, FreshIsUnused, <2>3, <3>2 DEF LaunchFails
    <3>3. QED
      BY <2>3, <3>1, <3>2 DEF LaunchFails
  <2>4. CASE PollAnswers(t)
    BY NilIsNone, FreshIsUnused, <2>4 DEF PollAnswers
  <2>5. CASE PollFails(t)
    BY NilIsNone, FreshIsUnused, <2>5 DEF PollFails
  <2>6. CASE Reaped(t)
    <3>1. CASE t \in cancelled
      BY NilIsNone, FreshIsUnused, <2>6, <3>1 DEF Reaped
    <3>2. CASE t \notin cancelled
      BY NilIsNone, FreshIsUnused, <2>6, <3>2 DEF Reaped
    <3>3. QED
      BY <2>6, <3>1, <3>2 DEF Reaped
  <2>7. CASE StopKills(t)
    BY NilIsNone, FreshIsUnused, <2>7 DEF StopKills
  <2>8. CASE StopEnds(t)
    BY NilIsNone, FreshIsUnused, <2>8 DEF StopEnds
  <2>9. CASE InferenceEnds(t)
    BY NilIsNone, FreshIsUnused, <2>9 DEF InferenceEnds
  <2>10. CASE HealthEnds(t)
    BY NilIsNone, FreshIsUnused, <2>10 DEF HealthEnds
  <2>11. QED
    BY <1>3, <2>1, <2>2, <2>3, <2>4, <2>5, <2>6, <2>7, <2>8, <2>9, <2>10 DEF Proceed
<1>4. ASSUME NEW p \in Launches, Serves(p) \/ Hangs(p) \/ Dies(p)
      PROVE  ServersAreManaged'
    BY NilIsNone, FreshIsUnused, <1>4 DEF Serves, Hangs, Dies, Becomes
<1>5. QED
  BY <1>1, <1>2, <1>3, <1>4 DEF Next

-------------------------------------------------------------------------------

LEMMA NextInv == TypeOK /\ Inv /\ [Next]_vars => (TypeOK /\ Inv)'
<1> SUFFICES ASSUME TypeOK, Inv, [Next]_vars PROVE (TypeOK /\ Inv)'
  OBVIOUS
<1>1. CASE Next
  <2>1. TypeOK' /\ LockInv' /\ HandInv' /\ KnownInv'
    BY <1>1, TypeStep, LockStep, HandStep, KnownStep DEF Inv
  <2>2. FieldInv' /\ ReadyInv' /\ ServersAreManaged'
    BY <1>1, FieldStep, ReadyStep, ManagedStep DEF Inv
  <2>3. QED
    BY <2>1, <2>2 DEF Inv
<1>2. CASE UNCHANGED vars
  <2> USE <1>2 DEF vars
  <2>1. TypeOK'
    BY DEF TypeOK
  <2>2. LockInv' /\ HandInv' /\ KnownInv'
    BY DEF Inv, LockInv, HandInv, KnownInv
  <2>3. FieldInv' /\ ReadyInv' /\ ServersAreManaged'
    BY DEF Inv, FieldInv, ReadyInv, ServersAreManaged, Settled, Alive
  <2>4. QED
    BY <2>1, <2>2, <2>3 DEF Inv
<1>3. QED
  BY <1>1, <1>2

LEMMA InvHolds == Spec => [](TypeOK /\ Inv)
  BY InitInv, NextInv, PTL DEF Spec

\* The variables keep their types: no attempt after the last, no second
\* holder of the lock.
THEOREM TypeCorrect == Spec => []TypeOK
  BY InvHolds, PTL

\* No failed start and no completed Stop leaves a server process behind that
\* a Start has not overwritten.
THEOREM Managed == Spec => []ServersAreManaged
<1>1. Inv => ServersAreManaged
  BY DEF Inv
<1>2. QED
  BY <1>1, InvHolds, PTL

\* The command, the port and the client agree whenever the lock is free, and
\* no client is left for a server being stopped.
THEOREM Agreement == Spec => []FieldsAgree
<1>1. TypeOK /\ Inv => FieldsAgree
  <2> SUFFICES ASSUME TypeOK, Inv PROVE FieldsAgree
    OBVIOUS
  <2>1. mu = NoCaller => Settled
    BY NilIsNone DEF TypeOK, Inv, LockInv, Settled, StartPCs
  <2>2. \A t \in Callers : pc[t] \in StopPCs => hand[t] # client
    BY DEF Inv, HandInv
  <2>3. QED
    BY <2>1, <2>2 DEF Inv, FieldInv, FieldsAgree
<1>2. QED
  BY <1>1, InvHolds, PTL

\* Photos go only to servers that have answered the health poll.
THEOREM OnlyReadyServers == Spec => []RequestsAreReady
<1>1. Inv => RequestsAreReady
  BY DEF Inv, ReadyInv, RequestsAreReady
<1>2. QED
  BY <1>1, InvHolds, PTL

===============================================================================
