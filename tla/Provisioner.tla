----------------------------- MODULE Provisioner -----------------------------
(***************************************************************************)
(* Setting up the VLM: DownloadVLMModel, provisionLlamaServer and          *)
(* DeleteVLMModel of src/internal/app/ai_methods.go, with the resumable    *)
(* download of src/internal/vlm/provisioner.go and the extraction of       *)
(* src/internal/vlm/extract.go.                                            *)
(*                                                                         *)
(* One action is one change of the disk, one exchange with the server or   *)
(* one change of the configuration.  The disk and the database survive     *)
(* Crash.  AIOnboardingModal covers the window and disables its buttons    *)
(* while it downloads, so there is one download at a time; a deletion that *)
(* was begun before, in the dialog of the settings, may run beside it.     *)
(***************************************************************************)
EXTENDS Naturals, FiniteSets

CONSTANTS
    Models,         \* the models with a llama.cpp entry in the registry
    Zip,            \* the llama.cpp release
    Server,         \* its member llama-server
    Libs,           \* its other members that are kept
    CoreLib,        \* the library LlamaServerRuntimeReady looks for
    Size,           \* bound: chunks of a file
    None,           \* no model
    MaxDisturbances \* bound: failures, crashes, upgrades and deletions

ASSUME ZipIsNoModel == Zip \notin Models
ASSUME ServerIsNoLib == Server \notin Libs
ASSUME CoreLibIsKept == CoreLib \in Libs
ASSUME SizePositive == Size \in Nat \ {0}
ASSUME NoneIsNoModel == None \notin Models
ASSUME DisturbancesNat == MaxDisturbances \in Nat

Files == Models \cup {Zip}
Members == Libs \cup {Server}

VARIABLES
    ranges,       \* the servers honour Range headers
    dest,         \* what is under the final name of every file
    part,         \* its .partial: how many chunks, and of which bytes
    server,       \* what is at LlamaServerBinaryPath
    libs,         \* the other members on disk
    executable,   \* llama-server may be executed
    at,           \* where DownloadVLMModel is
    model,        \* its modelName
    item,         \* the file it is downloading
    left,         \* the members it has yet to extract
    deleting,     \* where DeleteVLMModel is
    provider,     \* the model of Manager.provider
    saved,        \* the model of the persisted setup
    disturbances, \* how many disturbances there have been
    interrupted,  \* history: the last extraction was cut off
    spoiled,      \* history: a call was cut off with a complete .partial
    wiped         \* history: a deletion has removed files under the call

store == <<dest, part>>
runtime == <<server, libs, executable>>
call == <<at, model, item, left>>
engine == <<provider, saved>>
history == <<interrupted, spoiled, wiped>>
vars == <<ranges, dest, part, server, libs, executable, at, model, item, left,
          deleting, provider, saved, disturbances, interrupted, spoiled, wiped>>

Empty == [size |-> 0, bytes |-> "right"]

FetchPCs == {"check", "discard", "request", "write", "verify", "rename"}
PCs == {"idle", "runtime", "extract", "chmod", "cleanup",
        "configure", "persist"} \cup FetchPCs

TypeOK ==
    /\ ranges \in BOOLEAN
    /\ dest \in [Files -> {"absent", "stale", "torn", "whole"}]
    /\ part \in [Files -> [size : 0 .. Size, bytes : {"right", "wrong"}]]
    /\ server \in {"absent", "zip", "binary"}
    /\ libs \in SUBSET Libs
    /\ executable \in BOOLEAN
    /\ at \in PCs
    /\ model \in Models \cup {None}
    /\ item \in Files
    /\ left \in SUBSET Members
    /\ deleting \in {"none", "models", "runtime", "config"}
    /\ provider \in Models \cup {None}
    /\ saved \in Models \cup {None}
    /\ disturbances \in 0 .. MaxDisturbances
    /\ interrupted \in BOOLEAN
    /\ spoiled \in BOOLEAN
    /\ wiped \in BOOLEAN

\* A new installation, or one of the version that saved the zip as the binary.
Init ==
    /\ ranges \in BOOLEAN
    /\ dest = [f \in Files |-> "absent"]
    /\ part = [f \in Files |-> Empty]
    /\ server \in {"absent", "zip"}
    /\ libs = {}
    /\ executable = FALSE
    /\ at = "idle"
    /\ model = None
    /\ item = Zip
    /\ left = {}
    /\ deleting = "none"
    /\ provider = None
    /\ saved = None
    /\ disturbances = 0
    /\ interrupted = FALSE
    /\ spoiled = FALSE
    /\ wiped = FALSE

-------------------------------------------------------------------------------
(* Helpers.                                                                *)

Goto(there) ==
    /\ at' = there
    /\ UNCHANGED <<model, item, left>>

Disturb ==
    /\ disturbances < MaxDisturbances
    /\ disturbances' = disturbances + 1

Complete(f) == part[f].size = Size

\* DownloadFileResumable returns: the model's caller goes on to the runtime,
\* provisionLlamaServer to the extraction.
Fetched(f) ==
    IF f = Zip
    THEN at' = "extract" /\ left' = Members /\ UNCHANGED <<model, item>>
    ELSE Goto("runtime")

\* LlamaServerRuntimeReady
RuntimeReady == server = "binary" /\ CoreLib \in libs

\* What llama-server needs to run.
Usable == server = "binary" /\ libs = Libs /\ executable

-------------------------------------------------------------------------------
(* DownloadFileResumable                                                   *)

\* DownloadVLMModel is called, and finds an entry and enough free space.
Download(m) ==
    /\ at = "idle"
    /\ at' = "check"
    /\ model' = m
    /\ item' = m
    /\ wiped' = (deleting # "none")
    /\ UNCHANGED <<ranges, store, runtime, left, deleting, engine, disturbances,
                   interrupted, spoiled>>

\* Mutant of CheckPresent: a file that is there is trusted.
CheckTrusts ==
    /\ at = "check"
    /\ dest[item] # "absent"
    /\ Fetched(item)
    /\ UNCHANGED <<ranges, store, runtime, deleting, engine, disturbances, history>>

\* A file under the final name with the right hash is taken as it is, any
\* other is removed.
CheckPresent ==
    /\ at = "check"
    /\ \/ /\ dest[item] = "whole"
          /\ Fetched(item)
          /\ UNCHANGED dest
       \/ /\ dest[item] \notin {"absent", "whole"}
          /\ dest' = [dest EXCEPT ![item] = "absent"]
          /\ Goto("discard")
    /\ UNCHANGED <<ranges, part, runtime, deleting, engine, disturbances, history>>

CheckAbsent ==
    /\ at = "check"
    /\ dest[item] = "absent"
    /\ Goto("request")
    /\ UNCHANGED <<ranges, store, runtime, deleting, engine, disturbances, history>>

\* The partial file of a stale one goes as well.
DiscardPartial ==
    /\ at = "discard"
    /\ part' = [part EXCEPT ![item] = Empty]
    /\ Goto("request")
    /\ UNCHANGED <<ranges, dest, runtime, deleting, engine, disturbances, history>>

\* The server answers.  A server that ignores Range answers 200, and the
\* download begins anew.
Request ==
    /\ at = "request"
    /\ \/ ranges /\ ~Complete(item) /\ UNCHANGED part
       \/ ~ranges /\ part' = [part EXCEPT ![item] = Empty]
    /\ Goto("write")
    /\ UNCHANGED <<ranges, dest, runtime, deleting, engine, disturbances, history>>

\* Mutant of Refused: the request is made again.
RefusedRetries ==
    /\ at = "request"
    /\ ranges
    /\ Complete(item)
    /\ Goto("check")
    /\ UNCHANGED <<ranges, store, runtime, deleting, engine, disturbances, history>>

\* There is nothing after a complete .partial: 416, an error like any other.
Refused ==
    /\ at = "request"
    /\ ranges
    /\ Complete(item)
    /\ Goto("idle")
    /\ UNCHANGED <<ranges, store, runtime, deleting, engine, disturbances, history>>

\* A chunk is written; it may have been damaged on the way.
WriteChunk ==
    /\ at = "write"
    /\ ~Complete(item)
    /\ \/ /\ part' = [part EXCEPT ![item].size = @ + 1]
          /\ UNCHANGED disturbances
       \/ /\ part' = [part EXCEPT ![item] = [size |-> @.size + 1, bytes |-> "wrong"]]
          /\ Disturb
    /\ UNCHANGED <<ranges, dest, runtime, call, deleting, engine, history>>

\* io.EOF, and the file is closed.
EndOfBody ==
    /\ at = "write"
    /\ Complete(item)
    /\ Goto("verify")
    /\ UNCHANGED <<ranges, store, runtime, deleting, engine, disturbances, history>>

\* Mutant of Verify: the hash is not looked at.
VerifyNothing ==
    /\ at = "verify"
    /\ Goto("rename")
    /\ UNCHANGED <<ranges, store, runtime, deleting, engine, disturbances, history>>

\* Mutant of Verify: a .partial with the wrong hash is kept.
VerifyKeeps ==
    /\ at = "verify"
    /\ Goto(IF part[item].bytes = "right" THEN "rename" ELSE "idle")
    /\ UNCHANGED <<ranges, store, runtime, deleting, engine, disturbances, history>>

\* The hash; a .partial with the wrong one is removed.
Verify ==
    /\ at = "verify"
    /\ \/ part[item].bytes = "right" /\ Goto("rename") /\ UNCHANGED part
       \/ part[item].bytes = "wrong" /\ Goto("idle") /\ part' = [part EXCEPT ![item] = Empty]
    /\ UNCHANGED <<ranges, dest, runtime, deleting, engine, disturbances, history>>

Rename ==
    /\ at = "rename"
    /\ dest' = [dest EXCEPT ![item] =
                   IF part[item].bytes = "right" /\ Complete(item) THEN "whole" ELSE "torn"]
    /\ part' = [part EXCEPT ![item] = Empty]
    /\ Fetched(item)
    /\ UNCHANGED <<ranges, runtime, deleting, engine, disturbances, history>>

-------------------------------------------------------------------------------
(* provisionLlamaServer, ExtractLlamaServerZip                             *)

RuntimePresent ==
    /\ at = "runtime"
    /\ RuntimeReady
    /\ Goto("configure")
    /\ UNCHANGED <<ranges, store, runtime, deleting, engine, disturbances, history>>

\* A zip at the binary's path is removed, and the release downloaded.
RuntimeMissing ==
    /\ at = "runtime"
    /\ ~RuntimeReady
    /\ server' = IF server = "zip" THEN "absent" ELSE server
    /\ at' = "check"
    /\ item' = Zip
    /\ UNCHANGED <<ranges, store, libs, executable, model, left, deleting, engine,
                   disturbances, history>>

\* writeZipEntry renames one member into place.  The zip may have lost the
\* mode of the binary.
Extract(m) ==
    /\ at = "extract"
    /\ m \in left
    /\ left' = left \ {m}
    /\ \/ /\ m = Server
          /\ server' = "binary"
          /\ executable' \in BOOLEAN
          /\ UNCHANGED libs
       \/ /\ m # Server
          /\ libs' = libs \cup {m}
          /\ UNCHANGED <<server, executable>>
    /\ at' = IF left = {m} THEN "chmod" ELSE "extract"
    /\ UNCHANGED <<ranges, store, model, item, deleting, engine, disturbances,
                   history>>

\* An error if the binary has been deleted meanwhile.
Chmod ==
    /\ at = "chmod"
    /\ \/ server # "absent" /\ executable' = TRUE /\ Goto("cleanup")
       \/ server = "absent" /\ Goto("idle") /\ UNCHANGED executable
    /\ interrupted' = FALSE
    /\ UNCHANGED <<ranges, store, server, libs, deleting, engine, disturbances,
                   spoiled, wiped>>

\* The zip is removed, if possible, and the binary looked for.
Cleanup ==
    /\ at = "cleanup"
    /\ \/ dest' = [dest EXCEPT ![Zip] = "absent"] /\ UNCHANGED disturbances
       \/ UNCHANGED dest /\ Disturb
    /\ Goto(IF server = "absent" THEN "idle" ELSE "configure")
    /\ UNCHANGED <<ranges, part, runtime, deleting, engine, history>>

-------------------------------------------------------------------------------
(* The configuration.                                                      *)

\* UpdateConfig and SetProvider
Configure ==
    /\ at = "configure"
    /\ provider' = model
    /\ Goto("persist")
    /\ UNCHANGED <<ranges, store, runtime, deleting, saved, disturbances, history>>

\* The four SetConfig, which nothing reads in between; the call returns nil.
Persist ==
    /\ at = "persist"
    /\ saved' = model
    /\ Goto("idle")
    /\ UNCHANGED <<ranges, store, runtime, deleting, provider, disturbances, history>>

-------------------------------------------------------------------------------
(* DeleteVLMModel                                                          *)

\* Its button is there while the manager has a provider, which a deletion
\* does not take away, and not under AIOnboardingModal.
Delete ==
    /\ deleting = "none"
    /\ at = "idle"
    /\ provider # None
    /\ Disturb
    /\ deleting' = "models"
    /\ UNCHANGED <<ranges, store, runtime, call, engine, history>>

\* Every .gguf; a .gguf.partial has another extension.
DeleteModels ==
    /\ deleting = "models"
    /\ dest' = [f \in Files |-> IF f \in Models THEN "absent" ELSE dest[f]]
    /\ wiped' = TRUE
    /\ deleting' = "runtime"
    /\ UNCHANGED <<ranges, part, runtime, call, engine, disturbances, interrupted,
                   spoiled>>

\* The binary; its libraries stay.
DeleteRuntime ==
    /\ deleting = "runtime"
    /\ server' = "absent"
    /\ executable' = FALSE
    /\ wiped' = TRUE
    /\ deleting' = "config"
    /\ UNCHANGED <<ranges, store, libs, call, engine, disturbances, interrupted,
                   spoiled>>

ClearConfig ==
    /\ deleting = "config"
    /\ saved' = None
    /\ deleting' = "none"
    /\ UNCHANGED <<ranges, store, runtime, call, provider, disturbances, history>>

-------------------------------------------------------------------------------
(* The environment.                                                        *)

\* A call is cut off: what it leaves that its repetition may not repair.
CutOff ==
    /\ interrupted' = (interrupted \/ at \in {"extract", "chmod"})
    /\ spoiled' = (spoiled \/ (at \in FetchPCs /\ ranges /\ Complete(item)))

\* An error of the disk or the network, or a cancellation: it is returned.
Fail ==
    /\ at \in FetchPCs \cup {"runtime", "extract", "chmod"}
    /\ Disturb
    /\ CutOff
    /\ Goto("idle")
    /\ UNCHANGED <<ranges, store, runtime, deleting, engine, wiped>>

\* The application quits or crashes; it comes up without a provider.
Crash ==
    /\ Disturb
    /\ CutOff
    /\ at' = "idle"
    /\ model' = None
    /\ item' = Zip
    /\ left' = {}
    /\ deleting' = "none"
    /\ provider' = None
    /\ wiped' = FALSE
    /\ UNCHANGED <<ranges, store, runtime, saved>>

\* The application is restarted as a version that expects other files S.
Upgrade(S) ==
    /\ at = "idle"
    /\ deleting = "none"
    /\ Disturb
    /\ dest' = [f \in Files |-> IF f \in S /\ dest[f] = "whole" THEN "stale" ELSE dest[f]]
    /\ part' = [f \in Files |-> IF f \in S /\ part[f].size > 0
                                THEN [part[f] EXCEPT !.bytes = "wrong"] ELSE part[f]]
    /\ provider' = None
    /\ UNCHANGED <<ranges, runtime, call, deleting, saved, history>>

-------------------------------------------------------------------------------

FetchNext ==
    \/ CheckPresent \/ CheckAbsent \/ DiscardPartial
    \/ Request \/ Refused
    \/ WriteChunk \/ EndOfBody \/ Verify \/ Rename

RuntimeNext ==
    \/ RuntimePresent \/ RuntimeMissing
    \/ \E m \in Members : Extract(m)
    \/ Chmod \/ Cleanup

CallNext == FetchNext \/ RuntimeNext \/ Configure \/ Persist

DeleteNext == DeleteModels \/ DeleteRuntime \/ ClearConfig

EnvNext ==
    \/ Delete \/ Fail \/ Crash
    \/ \E S \in SUBSET Files : Upgrade(S)

Next ==
    \/ CallNext \/ DeleteNext \/ EnvNext
    \/ \E m \in Models : Download(m)

Spec == Init /\ [][Next]_vars

\* A call runs on.  Of the network it is assumed that reads return: the code
\* sets them no deadline.
CallFairness == WF_vars(CallNext) /\ WF_vars(DeleteNext)

FairSpec == Spec /\ CallFairness

\* A user who wants the model presses Download again after an error.
RetrySpec == FairSpec /\ WF_vars(\E m \in Models : Download(m))

-------------------------------------------------------------------------------
(* What holds.                                                             *)

\* DownloadFileResumable implements the promise of ModelStore, whatever fails,
\* crashes, is upgraded or deleted, and whatever a .partial was left with.
Store == INSTANCE ModelStore WITH Files <- Files, dest <- dest
InstallsAtomically == Store!Spec

\* The runtime that LlamaServerRuntimeReady accepts without looking at all of
\* it can run, unless an extraction was cut off.  (During one, nobody asks.)
ReadyIsUsable ==
    RuntimeReady /\ at \notin {"extract", "chmod"} => Usable \/ interrupted

\* The manager is configured with a model only after the model is there,
\* verified, and a runtime as good as ReadyIsUsable makes it, unless a
\* deletion has come in between.
ConfiguredIsInstalled ==
    at \in {"configure", "persist"} =>
        wiped \/ (dest[model] = "whole" /\ (Usable \/ interrupted))

\* Every call returns.
CallsEnd == at # "idle" ~> at = "idle"

Installed ==
    /\ provider # None
    /\ dest[provider] = "whole"
    /\ Usable \/ interrupted

\* When the disturbances are over a user who tries again and again ends up
\* with an installed model: stale files, mixtures of old and new chunks, and
\* servers without ranges are dealt with.  Not so a complete .partial.
RetriesInstall == <>[](spoiled \/ Installed)

-------------------------------------------------------------------------------
(* What the comments say, and the code does not do.                        *)

\* DownloadFileResumable: "resuming from a .partial file if present"
PartialsAreResumed == <>[]Installed

\* provisionLlamaServer: "if the on-disk state is not already usable"
ReadyMeansUsable ==
    RuntimeReady /\ at \notin {"extract", "chmod"} => Usable

\* A DownloadVLMModel that returns nil has installed the model, a deletion
\* that runs beside it or not.
SuccessIsInstalled ==
    at = "persist" => dest[model] = "whole" /\ RuntimeReady
===============================================================================
