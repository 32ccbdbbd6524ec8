---------------------------- MODULE ScoringEngine ----------------------------
(***************************************************************************)
(* The ONNX engine of the scoring plugins: the runtime library and the     *)
(* models on disk (scoring/runtime_provisioner.go, model_manager.go), the  *)
(* face plugins that load them (face_detector.go, face_embedder.go,        *)
(* registry.go), and the two callers that bring them together, App.Startup *)
(* and App.DownloadAIModels.                                               *)
(*                                                                         *)
(* One action is one exchange with a server, one change of the disk or one *)
(* plugin initialised.  The library is extracted in place and trusted      *)
(* wherever it exists; a model is downloaded under a temporary name of its *)
(* own, verified and renamed.                                              *)
(***************************************************************************)
CONSTANTS
    Startup,    \* the goroutine that runs App.Startup
    Requests,   \* bound: those that call DownloadAIModels
    Detectors,  \* the plugins of category Detection
    Embedders,  \* those of category Recognition; SharpnessPlugin has no model
    Sourced,    \* those whose model has a URL and a hash in its ModelSpec
    LibChunks   \* the runtime library is written chunk by chunk

Setups == Requests \ {Startup}
Callers == Setups \cup {Startup}
Plugins == Detectors \cup Embedders

VARIABLES
    libThere,   \* a file is at libPath
    libData,    \* its chunks that are as in the archive
    modelFile,  \* what is under the final name of every plugin's model
    session,    \* of a plugin: closed, or what became of it in Init
    phase,      \* where every caller is
    toDo,       \* plugins DownloadAll or InitAll has not come to
    wrote,      \* chunks of the library a call has written
    fetched,    \* what a call has in its temporary file, and for which plugin
    cut         \* history: an extraction was cut off

disk == <<libThere, libData, modelFile>>
engineVars == <<libThere, libData, modelFile, session, phase, toDo,
                wrote, fetched, cut>>

\* A plugin is initialised unless closed.  Its session is loaded, or nil
\* because there was no model (empty) or because loading failed (broken).
SessionStates == {"closed", "loaded", "empty", "broken"}
Ended == {"idle", "ok", "failed", "missing"}
Working == {"provision", "fetch", "extract", "models", "verify", "rename",
            "init"}
NoFile == [plugin |-> Startup, right |-> FALSE]

EngineTypeOK ==
    /\ libThere \in BOOLEAN
    /\ libData \subseteq LibChunks
    /\ modelFile \in [Plugins -> {"absent", "torn", "whole"}]
    /\ session \in [Plugins -> SessionStates]
    /\ phase \in [Callers -> Ended \cup Working]
    /\ toDo \in [Callers -> SUBSET Plugins]
    /\ wrote \in [Setups -> SUBSET LibChunks]
    /\ fetched \in [Setups -> [plugin : Plugins \cup {Startup}, right : BOOLEAN]]
    /\ cut \in BOOLEAN

-------------------------------------------------------------------------------
(* Helpers.                                                                *)

LibWhole == libThere /\ libData = LibChunks

Goes(c, there) == phase' = [phase EXCEPT ![c] = there]

\* ModelManager.IsDownloaded: a Stat.
Downloaded(p) == modelFile[p] # "absent"

\* FaceDetectorPlugin.Available, FaceEmbedderPlugin.Available
Available(p) == session[p] # "closed" /\ Downloaded(p)

\* Registry.Available: the guard of RunAIAnalysis.  SharpnessPlugin is the
\* quality plugin it asks for besides, and always available.
RegistryAvailable == \E p \in Detectors : Available(p)

\* Startup with what is on disk: InitAll if there is a library.
Booted ==
    /\ phase' = [c \in Callers |-> IF c = Startup /\ libThere THEN "init"
                                                              ELSE "idle"]
    /\ toDo' = [c \in Callers |-> IF c = Startup /\ libThere THEN Plugins
                                                             ELSE {}]

-------------------------------------------------------------------------------
(* ProvisionONNXRuntime                                                    *)

\* DownloadAIModels.  The button is disabled for as long as its dialog lives;
\* a dialog opened again starts another call.
DownloadAIModels(s) ==
    /\ phase[Startup] # "init"
    /\ phase[s] \in Ended
    /\ Goes(s, "provision")
    /\ UNCHANGED <<disk, session, toDo, wrote, fetched, cut>>

\* DownloadAll begins with every registered model.
BeginModels(s) ==
    /\ Goes(s, "models")
    /\ toDo' = [toDo EXCEPT ![s] = Plugins]

AlreadyProvisioned(s) ==
    /\ phase[s] = "provision"
    /\ libThere
    /\ BeginModels(s)
    /\ UNCHANGED <<disk, session, wrote, fetched, cut>>

NotProvisioned(s) ==
    /\ phase[s] = "provision"
    /\ ~libThere
    /\ Goes(s, "fetch")
    /\ UNCHANGED <<disk, session, toDo, wrote, fetched, cut>>

\* extractLibFromTgz has found the library: the file is created or truncated.
OpenLib(s) ==
    /\ phase[s] = "fetch"
    /\ libThere' = TRUE
    /\ libData' = {}
    /\ wrote' = [wrote EXCEPT ![s] = {}]
    /\ Goes(s, "extract")
    /\ UNCHANGED <<modelFile, session, toDo, fetched, cut>>

\* io.CopyN, each call at its own offset, so another's truncation costs it
\* what it has written.  The order of the chunks makes no difference here.
WriteLib(s) ==
    /\ phase[s] = "extract"
    /\ \E k \in LibChunks \ wrote[s] :
         /\ libData' = libData \cup {k}
         /\ wrote' = [wrote EXCEPT ![s] = @ \cup {k}]
    /\ UNCHANGED <<libThere, modelFile, session, phase, toDo, fetched, cut>>

\* The end of the archive's member; libPath exists.
LibExtracted(s) ==
    /\ phase[s] = "extract"
    /\ wrote[s] = LibChunks
    /\ BeginModels(s)
    /\ UNCHANGED <<disk, session, wrote, fetched, cut>>

-------------------------------------------------------------------------------
(* ModelManager.DownloadAll and the check after it                         *)

\* A model that is there, or has no URL, is passed over.
SkipModel(s, p) ==
    /\ phase[s] = "models"
    /\ p \in toDo[s]
    /\ Downloaded(p) \/ p \notin Sourced
    /\ toDo' = [toDo EXCEPT ![s] = @ \ {p}]
    /\ UNCHANGED <<disk, session, phase, wrote, fetched, cut>>

\* Download, up to the end of the body: the temporary file may hold anything.
GetModel(s, p) ==
    /\ phase[s] = "models"
    /\ p \in toDo[s]
    /\ ~Downloaded(p) /\ p \in Sourced
    /\ \E good \in BOOLEAN :
         fetched' = [fetched EXCEPT ![s] = [plugin |-> p, right |-> good]]
    /\ toDo' = [toDo EXCEPT ![s] = @ \ {p}]
    /\ Goes(s, "verify")
    /\ UNCHANGED <<disk, session, wrote, cut>>

\* verifyHash; a temporary file with another hash is removed.
VerifyModel(s) ==
    /\ phase[s] = "verify"
    /\ Goes(s, IF fetched[s].right THEN "rename" ELSE "failed")
    /\ UNCHANGED <<disk, session, toDo, wrote, fetched, cut>>

RenameModel(s) ==
    /\ phase[s] = "rename"
    /\ modelFile' = [modelFile EXCEPT ![fetched[s].plugin] =
                        IF fetched[s].right THEN "whole" ELSE "torn"]
    /\ Goes(s, "models")
    /\ UNCHANGED <<libThere, libData, session, toDo, wrote, fetched, cut>>

\* "Verify every model file exists before proceeding to init."  Nothing
\* removes a model, so looking at one file after the other is one step.
CheckModels(s) ==
    /\ phase[s] = "models"
    /\ toDo[s] = {}
    /\ IF \A p \in Plugins : Downloaded(p)
         THEN Goes(s, "init") /\ toDo' = [toDo EXCEPT ![s] = Plugins]
         ELSE Goes(s, "missing") /\ UNCHANGED toDo
    /\ UNCHANGED <<disk, session, wrote, fetched, cut>>

-------------------------------------------------------------------------------
(* Registry.InitAll, called by Startup and by DownloadAIModels: the plugins  *)
(* in any order, Init of each under its own mutex.                           *)

InitDone(c, p) == toDo' = [toDo EXCEPT ![c] = @ \ {p}] /\ UNCHANGED phase

\* An error of a recognition plugin is skipped, any other ends InitAll.
InitRefused(c, p) ==
    IF p \in Detectors THEN Goes(c, "failed") /\ UNCHANGED toDo
                       ELSE InitDone(c, p)

\* Init returns nil at once when the plugin is initialised, whatever has
\* become of its session.
InitAgain(c, p) ==
    /\ phase[c] = "init"
    /\ p \in toDo[c]
    /\ session[p] # "closed"
    /\ InitDone(c, p)
    /\ UNCHANGED <<disk, session, wrote, fetched, cut>>

\* The library is loaded, which takes a whole one, and then the session, if
\* there is a model to load.
InitPlugin(c, p) ==
    /\ phase[c] = "init"
    /\ p \in toDo[c]
    /\ session[p] = "closed"
    /\ LibWhole
    /\ session' = [session EXCEPT ![p] =
                      IF Downloaded(p) THEN "loaded" ELSE "empty"]
    /\ InitDone(c, p)
    /\ UNCHANGED <<disk, wrote, fetched, cut>>

\* loadSessionLocked fails: Init returns its error and leaves initialized set.
LoadFails(c, p) ==
    /\ phase[c] = "init"
    /\ p \in toDo[c]
    /\ session[p] = "closed"
    /\ LibWhole
    /\ Downloaded(p)
    /\ session' = [session EXCEPT ![p] = "broken"]
    /\ InitRefused(c, p)
    /\ UNCHANGED <<disk, wrote, fetched, cut>>

\* NewRuntime or NewEnv fails; of a torn library it does.
RuntimeFails(c, p) ==
    /\ phase[c] = "init"
    /\ p \in toDo[c]
    /\ session[p] = "closed"
    /\ InitRefused(c, p)
    /\ UNCHANGED <<disk, session, wrote, fetched, cut>>

InitEnds(c) ==
    /\ phase[c] = "init"
    /\ toDo[c] = {}
    /\ Goes(c, "ok")
    /\ UNCHANGED <<disk, session, toDo, wrote, fetched, cut>>

-------------------------------------------------------------------------------
(* Failures and the environment.                                           *)

Cutting(S) == cut \/ \E s \in S : phase[s] = "extract"

\* An exchange with a server, or a write, fails or exceeds its five minutes:
\* the call ends with the error.  What has been extracted stays.
SetupFails(s) ==
    /\ phase[s] \in {"fetch", "extract", "models", "verify", "rename"}
    /\ cut' = Cutting({s})
    /\ Goes(s, "failed")
    /\ UNCHANGED <<disk, session, toDo, wrote, fetched>>

\* The application ends, in whatever it is doing, and is started again.
Restart ==
    /\ cut' = Cutting(Setups)
    /\ session' = [p \in Plugins |-> "closed"]
    /\ Booted
    /\ wrote' = [s \in Setups |-> {}]
    /\ fetched' = [s \in Setups |-> NoFile]
    /\ UNCHANGED disk

\* The user puts a model there that the program has no URL for: README.md
\* names where both models come from.
PlaceModel(p) ==
    /\ p \notin Sourced
    /\ ~Downloaded(p)
    /\ modelFile' = [modelFile EXCEPT ![p] = "whole"]
    /\ UNCHANGED <<libThere, libData, session, phase, toDo, wrote, fetched,
                   cut>>

-------------------------------------------------------------------------------

\* A new installation.
EngineInit ==
    /\ libThere = FALSE
    /\ libData = {}
    /\ modelFile = [p \in Plugins |-> "absent"]
    /\ session = [p \in Plugins |-> "closed"]
    /\ phase = [c \in Callers |-> "idle"]
    /\ toDo = [c \in Callers |-> {}]
    /\ wrote = [s \in Setups |-> {}]
    /\ fetched = [s \in Setups |-> NoFile]
    /\ cut = FALSE

LibNext(s) ==
    \/ AlreadyProvisioned(s)
    \/ NotProvisioned(s)
    \/ OpenLib(s)
    \/ WriteLib(s)
    \/ LibExtracted(s)

ModelNext(s) ==
    \/ \E p \in Plugins : SkipModel(s, p) \/ GetModel(s, p)
    \/ VerifyModel(s)
    \/ RenameModel(s)
    \/ CheckModels(s)

InitNext(c) ==
    \/ \E p \in Plugins :
         InitAgain(c, p) \/ InitPlugin(c, p) \/ LoadFails(c, p) \/ RuntimeFails(c, p)
    \/ InitEnds(c)

SetupNext(s) == LibNext(s) \/ ModelNext(s) \/ InitNext(s) \/ SetupFails(s)

EngineNext ==
    \/ \E s \in Setups : DownloadAIModels(s) \/ SetupNext(s)
    \/ InitNext(Startup)
    \/ Restart
    \/ \E p \in Plugins : PlaceModel(p)

EngineSpec == EngineInit /\ [][EngineNext]_engineVars

\* Goroutines run; every exchange of a call ends, by its timeout at the
\* latest.
EngineFairSpec ==
    /\ EngineSpec
    /\ \A s \in Setups : WF_engineVars(SetupNext(s))
    /\ WF_engineVars(InitNext(Startup))

-------------------------------------------------------------------------------
(* What holds.                                                             *)

\* Calls that overlap, fail at any point or are cut off by the end of the
\* application install the models as ModelStore promises: a final name never
\* holds anything but a whole, verified file (Download).
EngineStore == INSTANCE ModelStore WITH Files <- Plugins, dest <- modelFile
ModelsInstallAtomically == EngineStore!Spec

\* Two calls that both found no library truncate and write the same file.
\* When no extraction is left under way the library is whole, unless one of
\* them was cut off.
SettledLibraryIsWhole ==
    libThere /\ ~cut /\ (\A s \in Setups : phase[s] # "extract") => LibWhole

\* A call that succeeded has brought AI scoring to life: RunAIAnalysis, which
\* tells the user to download the models otherwise, accepts from then on.
SuccessMeansAvailable ==
    \A s \in Setups : phase[s] = "ok" =>
        /\ \A p \in Plugins : modelFile[p] = "whole"
        /\ \A p \in Detectors : Available(p)

\* Only Startup initialises a plugin without its model: DownloadAIModels
\* comes to InitAll when all models are there, whatever other calls do.
SetupsLeaveNoneEmpty ==
    [][\A p \in Plugins :
         session[p] = "closed" /\ session'[p] = "empty"
             => phase[Startup] = "init"]_engineVars

\* Every call of DownloadAIModels ends.
SetupsEnd == \A s \in Setups : phase[s] \in Working ~> phase[s] \in Ended

-------------------------------------------------------------------------------
(* What the comments say, and the code does not do.                        *)

\* "These models are downloaded automatically when you click Download
\* Models": a call whose exchanges all succeeded finds no model missing.
AllModelsAreDownloaded == \A s \in Setups : phase[s] # "missing"

\* "Available reports whether all required models are present and ready":
\* the detector RunAIAnalysis finds available has its session, unless loading
\* it failed.  But a detector that Startup initialised without its model never
\* loads the one downloaded later, and Process fails on every photo.
AvailableMeansReady ==
    \A p \in Detectors : Available(p) => session[p] \in {"loaded", "broken"}

\* "Check if already provisioned": what is taken for the library is one.
ProvisionedIsWhole ==
    \A s \in Setups :
        phase[s] = "models" /\ (\A t \in Setups : phase[t] # "extract") => LibWhole

\* The library under initialised plugins is not written to.
LoadedLibraryIsIntact == (\E p \in Plugins : session[p] # "closed") => LibWhole
===============================================================================
