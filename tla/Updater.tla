------------------------------- MODULE Updater -------------------------------
(***************************************************************************)
(* The self-updater, src/internal/updater/updater.go, and the two dialogs  *)
(* that listen to its events, UpdateToast.tsx and AboutModal.tsx.          *)
(*                                                                         *)
(* One action is one critical section of Updater.mu, the return of a       *)
(* go-selfupdate call made with the mutex released, or the emission of an  *)
(* event.  check() runs in the background loop and in a goroutine per      *)
(* CheckNow, download() in a goroutine per DownloadUpdate and, in auto     *)
(* mode, at the end of a check.  All of them write Updater.state; only the *)
(* two entry guards consult canTransitionTo, every later write is          *)
(* unconditional.                                                          *)
(***************************************************************************)
EXTENDS Naturals, FiniteSets

CONSTANTS
    Loop,       \* the backgroundLoop goroutine
    Workers     \* bound: goroutines of CheckNow and DownloadUpdate alive at once

ASSUME LoopIsNoWorker == Loop \notin Workers

Threads == Workers \cup {Loop}

VARIABLES
    mode,       \* Updater.mode; "off" stands for a dev build too
    isHomebrew, \* Updater.isHomebrew
    state,      \* Updater.state
    release,    \* Updater.latestRelease is not nil
    cooling,    \* less than cooldownSec have passed since Updater.lastCheck
    pc,         \* where every goroutine is
    job,        \* what a goroutine was started for
    installed,  \* history: an UpdateTo has replaced the binary
    running,    \* RestartForUpdate has not ended the process
    toast,      \* UpdateToast: what the user sees
    subscribed  \* UpdateToast still listens to update:available, update:error

config == <<mode, isHomebrew>>
ui == <<toast, subscribed>>
updaterVars == <<mode, isHomebrew, state, release, cooling, pc, job,
                 installed, running, toast, subscribed>>

States == {"idle", "checking", "downloading", "ready", "error"}
Toasts == {"none", "available", "downloading", "ready", "error"}
CheckPCs == {"check", "query", "announce", "found"}
DownloadPCs == {"download", "begun", "update", "applied"}
UpdaterPCs == {"none", "failed"} \cup CheckPCs \cup DownloadPCs

UpdaterTypeOK ==
    /\ mode \in {"off", "notify", "auto"}
    /\ isHomebrew \in BOOLEAN
    /\ state \in States
    /\ release \in BOOLEAN
    /\ cooling \in BOOLEAN
    /\ pc \in [Threads -> UpdaterPCs]
    /\ job \in [Threads -> {"none", "check", "download"}]
    /\ installed \in BOOLEAN
    /\ running \in BOOLEAN
    /\ toast \in Toasts
    /\ subscribed \in BOOLEAN

\* NewUpdater and Start: unless checks are off the background loop begins
\* with a check.  The toast is mounted for the life of the frontend.
UpdaterInit ==
    /\ mode \in {"off", "notify", "auto"}
    /\ isHomebrew \in BOOLEAN
    /\ state = "idle"
    /\ release = FALSE
    /\ cooling = FALSE
    /\ LET looping(t) == t = Loop /\ mode # "off" IN
         /\ pc = [t \in Threads |-> IF looping(t) THEN "check" ELSE "none"]
         /\ job = [t \in Threads |-> IF looping(t) THEN "check" ELSE "none"]
    /\ installed = FALSE
    /\ running = TRUE
    /\ toast = "none"
    /\ subscribed = TRUE

-------------------------------------------------------------------------------
(* Helpers.                                                                *)

\* Mutant of CanTransitionTo: an error is final.
CanTransitionStuck(from, to) ==
    to \in CASE from = "idle" -> {"checking", "downloading"}
             [] from = "checking" -> {"idle", "downloading", "error"}
             [] from = "downloading" -> {"ready", "error"}
             [] from = "ready" -> {"idle"}
             [] from = "error" -> {"idle"}

\* canTransitionTo
CanTransitionTo(from, to) ==
    to \in CASE from = "idle" -> {"checking", "downloading"}
             [] from = "checking" -> {"idle", "downloading", "error"}
             [] from = "downloading" -> {"ready", "error"}
             [] from = "ready" -> {"idle"}
             [] from = "error" -> {"idle", "checking"}

MoveTo(t, there) == pc' = [pc EXCEPT ![t] = there]

\* The goroutine is gone; the loop's is back in its select.
Return(t) ==
    /\ MoveTo(t, "none")
    /\ job' = [job EXCEPT ![t] = "none"]

Spawn(t, j, there) ==
    /\ pc[t] = "none"
    /\ job' = [job EXCEPT ![t] = j]
    /\ MoveTo(t, there)

\* An event reaches the toast if the toast still listens to it.
Show(shown, heard) ==
    /\ toast' = IF heard THEN shown ELSE toast
    /\ UNCHANGED subscribed

-------------------------------------------------------------------------------
(* check                                                                   *)

\* A tick of the background loop; it has no cooldown.
LoopTick ==
    /\ mode # "off"
    /\ Spawn(Loop, "check", "check")
    /\ UNCHANGED <<config, state, release, cooling, installed, running, ui>>

\* CheckNow; in the cooldown, or with checks off, it changes nothing.
CheckNow(w) ==
    /\ mode # "off"
    /\ ~cooling
    /\ Spawn(w, "check", "check")
    /\ UNCHANGED <<config, state, release, cooling, installed, running, ui>>

CooldownEnds ==
    /\ cooling
    /\ cooling' = FALSE
    /\ UNCHANGED <<config, state, release, pc, job, installed, running, ui>>

\* The guarded entry of check.
CheckBegins(t) ==
    /\ pc[t] = "check"
    /\ \/ /\ CanTransitionTo(state, "checking")
          /\ state' = "checking"
          /\ cooling' = TRUE
          /\ MoveTo(t, "query")
          /\ UNCHANGED job
       \/ /\ ~CanTransitionTo(state, "checking")
          /\ Return(t)
          /\ UNCHANGED <<state, cooling>>
    /\ UNCHANGED <<config, release, installed, running, ui>>

\* Mutant of NothingNewer: the early return leaves the state as it is.
NothingNewerForgets(t) ==
    /\ pc[t] = "query"
    /\ Return(t)
    /\ UNCHANGED <<config, state, release, cooling, installed, running, ui>>

\* No release found, or none newer than the running version.
NothingNewer(t) ==
    /\ pc[t] = "query"
    /\ state' = "idle"
    /\ Return(t)
    /\ UNCHANGED <<config, release, cooling, installed, running, ui>>

\* A newer release is remembered.
FoundNewer(t) ==
    /\ pc[t] = "query"
    /\ release' = TRUE
    /\ MoveTo(t, "announce")
    /\ UNCHANGED <<config, state, cooling, job, installed, running, ui>>

\* update:available; auto mode goes on to download in the same goroutine.
Announce(t) ==
    /\ pc[t] = "announce"
    /\ Show("available", subscribed)
    /\ MoveTo(t, IF mode = "auto" /\ ~isHomebrew THEN "download" ELSE "found")
    /\ UNCHANGED <<config, state, release, cooling, job, installed, running>>

\* Otherwise the check ends.
CheckEnds(t) ==
    /\ pc[t] = "found"
    /\ state' = "idle"
    /\ Return(t)
    /\ UNCHANGED <<config, release, cooling, installed, running, ui>>

\* Mutant of HandleError: it stores a state canTransitionTo does not know.
\* handleError, of a check or of a download.
HandleError(t) ==
    /\ pc[t] \in {"query", "update"}
    /\ state' = "error"
    /\ MoveTo(t, "failed")
    /\ UNCHANGED <<config, release, cooling, job, installed, running, ui>>

\* update:error
ReportError(t) ==
    /\ pc[t] = "failed"
    /\ Show("error", subscribed)
    /\ Return(t)
    /\ UNCHANGED <<config, state, release, cooling, installed, running>>

-------------------------------------------------------------------------------
(* download                                                                *)

\* DownloadUpdate, when it does not return an error.  The button is there
\* while the toast says available on an install that is not Homebrew's.
DownloadUpdate(w) ==
    /\ toast = "available"
    /\ ~isHomebrew
    /\ release
    /\ Spawn(w, "download", "download")
    /\ UNCHANGED <<config, state, release, cooling, installed, running, ui>>

\* The guarded entry of download.
DownloadBegins(t) ==
    /\ pc[t] = "download"
    /\ \/ /\ CanTransitionTo(state, "downloading")
          /\ state' = "downloading"
          /\ MoveTo(t, "begun")
          /\ UNCHANGED job
       \/ /\ ~CanTransitionTo(state, "downloading")
          /\ Return(t)
          /\ UNCHANGED state
    /\ UNCHANGED <<config, release, cooling, installed, running, ui>>

\* update:downloading, then UpdateTo.
ReportDownloading(t) ==
    /\ pc[t] = "begun"
    /\ Show("downloading", TRUE)
    /\ MoveTo(t, "update")
    /\ UNCHANGED <<config, state, release, cooling, job, installed, running>>

\* Mutant of UpdateApplied: ready is declared before the binary is replaced.
UpdateAppliedEarly(t) ==
    /\ pc[t] = "update"
    /\ state' = "ready"
    /\ MoveTo(t, "applied")
    /\ UNCHANGED <<config, release, cooling, job, installed, running, ui>>

\* UpdateTo has replaced the binary.
UpdateApplied(t) ==
    /\ pc[t] = "update"
    /\ installed' = TRUE
    /\ state' = "ready"
    /\ MoveTo(t, "applied")
    /\ UNCHANGED <<config, release, cooling, job, running, ui>>

\* update:ready
ReportReady(t) ==
    /\ pc[t] = "applied"
    /\ Show("ready", TRUE)
    /\ Return(t)
    /\ UNCHANGED <<config, state, release, cooling, installed, running>>

-------------------------------------------------------------------------------
(* The user.                                                               *)

\* RestartForUpdate looks at no state; its button is there while the toast
\* says ready.
RestartForUpdate ==
    /\ toast = "ready"
    /\ running' = FALSE
    /\ UNCHANGED <<config, state, release, cooling, pc, job, installed, ui>>

\* AboutModal: when it closes, when its check has been answered or has timed
\* out, it calls EventsOff, which drops every listener of the event.
AboutEventsOff ==
    /\ subscribed
    /\ subscribed' = FALSE
    /\ UNCHANGED <<config, state, release, cooling, pc, job, installed,
                   running, toast>>

-------------------------------------------------------------------------------

CheckNext(t) ==
    \/ CheckBegins(t)
    \/ NothingNewer(t)
    \/ FoundNewer(t)
    \/ Announce(t)
    \/ CheckEnds(t)

DownloadNext(t) ==
    \/ DownloadBegins(t)
    \/ ReportDownloading(t)
    \/ UpdateApplied(t)
    \/ ReportReady(t)

ErrorNext(t) == HandleError(t) \/ ReportError(t)

ThreadNext(t) == CheckNext(t) \/ DownloadNext(t) \/ ErrorNext(t)

UpdaterNext ==
    /\ running
    /\ \/ \E t \in Threads : ThreadNext(t)
       \/ LoopTick
       \/ \E w \in Workers : CheckNow(w) \/ DownloadUpdate(w)
       \/ CooldownEnds
       \/ RestartForUpdate
       \/ AboutEventsOff

UpdaterSpec == UpdaterInit /\ [][UpdaterNext]_updaterVars

\* Goroutines run and the ticker ticks.  Of the network it is assumed that
\* the calls to GitHub return, if only with an error: the code sets them no
\* deadline of its own.  Users need not do anything.
Fairness ==
    /\ \A t \in Threads : WF_updaterVars(running /\ ThreadNext(t))
    /\ WF_updaterVars(running /\ LoopTick)

UpdaterFairSpec == UpdaterSpec /\ Fairness

-------------------------------------------------------------------------------
(* What holds.                                                             *)

Querying(t) == pc[t] \in {"query", "announce", "found", "download"}
Updating(t) == pc[t] \in {"begun", "update"}

\* While the state is checking or downloading a goroutine is in that work
\* and will write the next state, however checks and downloads overwrite each
\* other: canTransitionTo lets no new check begin from either state, so a
\* state nobody owns would end updates until the application is restarted.
TransientStatesOwned ==
    /\ state = "checking" => \E t \in Threads : Querying(t)
    /\ state = "downloading" => \E t \in Threads : Updating(t)

\* The binary is replaced only where it may be: never on a Homebrew install,
\* and unless the user has asked for it only in auto mode.  No UpdateTo is
\* started without a release to install.
UpdatesOnlyWhenAllowed ==
    \A t \in Threads :
        pc[t] \in DownloadPCs =>
            ~isHomebrew /\ release /\ (mode = "auto" \/ job[t] = "download")

\* RestartForUpdate, which checks nothing itself, is only ever offered once
\* an update is in place.
RestartsIntoUpdate == [][running' # running => installed]_updaterVars

\* A check or a download that is under way ends (or the process does).
TransientStatesEnd ==
    /\ state = "checking" ~> state # "checking" \/ ~running
    /\ state = "downloading" ~> state # "downloading" \/ ~running

\* An error is not final: the background loop's next check clears it.
ErrorsAreRetried == state = "error" ~> state # "error" \/ ~running

-------------------------------------------------------------------------------
(* What the comments and tests say, and the code does not do.              *)

\* canTransitionTo: "whether the state machine permits a transition".
StateMachineObeyed ==
    [][state' # state => CanTransitionTo(state, state')]_updaterVars

\* "Set to downloading, can't download again".
OneDownload ==
    \A t, u \in Threads : pc[t] = "update" /\ pc[u] = "update" => t = u

\* "Toast will handle it": an announced update is shown to the user.
AnnouncementsShown ==
    [][\A t \in Threads :
         pc[t] = "announce" /\ pc'[t] # "announce" => toast' = "available"]_updaterVars
===============================================================================
