# TLA+ models of CullSnap

CullSnap is a desktop application (Go backend, React frontend, joined by Wails)
that helps photographers cull a folder of pictures: it scans and deduplicates
folders, scores photos with ONNX models and a local vision-language model (VLM),
mirrors cloud albums, imports from devices and updates itself. This directory
holds formal models of the parts where goroutines, timers, downloads, crashes
and user actions interleave. `PROJECT.json` maps every definition to the lines it
models and lists runs, mutants, hazards and theorems.

## 1. Inventory

For each component: the state it keeps (S), its operations (O), what it interacts
with (I), what is hard about it (H) and what makes it correct (C).

| Component | Source | |
|---|---|---|
| **VLM manager** | `vlm/manager.go` | S: lifecycle state, provider, idle timer, restart count, health-monitor context. O: EnsureRunning, Stop, SetProvider, healthLoop, handleCrash, idle stop. I: called by the AI pipeline, the settings and Shutdown; calls the provider with the mutex released; emits into `App.vlmEvents`. H: overlapping starts and stops, stale contexts, timers that have fired, a channel that gets closed. C: transient states end, one monitor, a watched and idle-limited ready engine, a bounded number of restarts. |
| **VLM backends** | `vlm/llamacpp_backend.go`, `mlx_backend.go` | S: process, port, token, client. O: Start (retries), Stop (grace period), Health, ScorePhoto, RankPhotos. H: a process that exits or hangs at any time; Start without Stop. C: at most one server process, none left behind. |
| **VLM provisioning** | `vlm/provisioner.go`, `extract.go`, `app/ai_methods.go` | S: `.partial` and final files, members of the runtime, the manager's provider. O: DownloadVLMModel, provisionLlamaServer, DeleteVLMModel. I: sets the manager's provider; called by the onboarding modal and the settings. H: resume after a crash or an upgrade, servers that ignore ranges, extractions cut off, deletions beside a download. C: a final file is whole and has the expected hash, what is configured is installed, retries succeed. |
| **AI analysis** | `app/ai_methods.go` | S: `analysisCancel`, scores, faces, clusters, rankings. O: RunAIAnalysis, CancelAIAnalysis, ClearAIData, cluster edits. H: runs that overlap and are cancelled late, data cleared under a run. C: results belong to the folder and the photo's current content. |
| **Scoring, clustering** | `scoring/*.go` | S: the runtime library and the models on disk, the sessions of the plugins, the registry; for a photo its faces, metrics and embeddings. O: EnsureRuntime, DownloadAll, InitAll, Execute (two phases), ProcessRegions, mergeResults, ClusterFacesAgglomerative. I: DownloadAIModels and Startup set it up, the workers of an analysis call Execute, its clustering the last. H: set-ups that overlap, an extraction cut off, plugins that fail or are stopped in goroutines of their own, results matched by position. C: a set-up that succeeded means a usable engine, only a cancellation costs a photo its score, every face has its own embedding and one cluster. |
| **Database** | `storage/*.go` | S: SQLite tables under one RW mutex. O: single statements and a few transactions. |
| **Cloud mirror and cache** | `cloudsource/mirror.go`, `cache.go`, `app/cloud.go` | S: mirrored files, metadata, mirror records, cancel functions, cache limit. O: MirrorCloudAlbum, CancelMirror, deletions, LRU eviction. I: providers, database, settings. H: files written in place, deletions and evictions under a download, edits during a mirror, crashes. C: a skipped or reported file is whole and current, the cache fits its limit, mirrors end. |
| **Cloud providers, OAuth** | `cloudsource/providers`, `oauth.go`, `token_store.go` | S: token and client under a mutex, the one OAuth configuration, the token in the keychain and in a file. O: list, download, loopback authorization with timeout, IsAuthenticated, Disconnect. I: the mirrors' contexts, the browser. H: authorizations, disconnections and first uses that overlap with the mutex released around the store, a keychain that stops answering, a callback loaded more than once. C: the client is the account's, what was last done lasts, authorizations end. |
| **Self-updater** | `updater/updater.go`, `UpdateToast.tsx`, `AboutModal.tsx` | S: state, mode, latest release. O: background loop, CheckNow, DownloadUpdate, RestartForUpdate. H: checks and downloads that overwrite each other's state; listeners removed by name. C: no state is left in transit for ever, only permitted updates, a restart only into an installed update. |
| **Duplicates** | `dedupe/*.go`, `app/app.go` | S: the folder's files, groups of a search. O: ScanAndDeduplicate (walk, hash, group, choose the best), MoveDuplicate with its fallback copy, CancelDeduplicate. H: every file operation can fail or be cut off; a search meets the `duplicates/` of an earlier one. C: no picture is lost, a group keeps a photo, the result says where photos are. |
| **Export** | `export/copier.go`, `Sidebar.tsx` | S: copies, selections and export marks. O: ExportPhotos, uniquePath. H: the first error ends it; a search moves photos under it; equal names. C: a mark means a whole copy. |
| **Thumbnails and formats** | `image`, `raw`, `heic`, `video`, `main.go` | S: cache files under keys made of path and modification time. O: GenerateBatch, the media server's previews and conversions, singleflight and slots. H: generations of one file at once, edits between stat and read, crashes between write and rename. C: a cached picture is whole and current. |
| **Scan and grid** | `scanner`, `app/app.go`, `App.tsx` | S: the rows of the grid, listeners known by event names, the measuring of videos. O: loadDirectory, ScanDirectory, PreloadThumbnailsForPhotos. H: nothing keeps a load from overtaking another. C: the grid shows the folder the window names. |
| **Devices** | `device/*.go`, `app/device.go`, `DeviceImportModal.tsx` | S: connected devices, the dialog's list, the import cache. O: poll in tiers, reconcile, import, clear. H: callbacks after the unlock, answers out of order, unplugging in mid-copy. C: the frontend is told once each, an import leaves whole copies. |
| **Shell, frontend** | `main.go`, `app/app.go`, `frontend/src` | S: configuration, recent folders. I: starts and stops everything else. |

Components meet in three ways: the shell calls them from Wails goroutines (any
number at a time, in any order), they call back through events, and several
share the database. The models treat the frontend as an environment that may
call whatever the code lets it call.

## 2. Plan

The order was by how much goes wrong when a component is wrong and how little a
test can reach. Everything named here is done unless it says otherwise.

1. `VLMManager`: safety, liveness, proofs.
2. `Updater`: safety, liveness, proofs.
3. `CloudMirror`: safety, the end of mirrors, proofs. Open: the iCloud provider as
   a second instance.
4. `AIAnalysis`: overlapping analyses over the score, face and cluster tables, with
   ClearAIData; safety, proofs. `VLMStages`: the two VLM stages with their caches
   and custom instructions; safety, an action property, proofs.
5. `VLMBackend`: both backends and their server processes; safety, the end of every
   call, proofs.
6. `Provisioner`: resumable downloads over a server that may ignore ranges, the
   runtime and deletions; refines `ModelStore`, an atomic, verified installation of
   files; safety, liveness, proofs.
7. `DeviceImport`: detection, the dialog and imports; safety, liveness, proofs.
8. `MediaCache` and `FolderView`, which composes it with the loads of folders; safety,
   proofs.
9. `FolderFiles`: duplicates and export on one folder; safety, proofs.
10. `ScoringEngine`: library, models and sessions of the scoring plugins; refines
    `ModelStore` too; safety, liveness, proofs.
11. `CloudAccount`: the authorization, the token and its two stores; safety, the end of
    authorizations, proofs.
12. `ScoringPipeline`: the scoring of one photo; safety, its end, proofs.
13. `FaceClustering`: the clustering algorithm; safety, its end, proofs.
14. Open: RAW+JPEG pairing and the arithmetic of scores against reference definitions.

## 3. Modules

| Module | Models |
|---|---|
| `VLMManager` | The VLM manager. One action per critical section of `Manager.mu` or per effect of a provider call made with the mutex released. `pc` says where every caller, idle timer and health loop is; a health loop that has found the provider dead goes on as `handleCrash`. |
| `MCVLMManager` | Symmetry sets for TLC. |
| `Updater` | The updater and the listeners of the two update dialogs. One action per critical section, return of a go-selfupdate call, or event. |
| `MCUpdater` | Symmetry. |
| `CloudMirror` | Mirrors, cache and deletions. One action per database statement, directory removal, or begin and end of a download; files and tables survive `Crash`, everything else is lost. |
| `CloudAccount` | The account of the Google Drive provider. One action per step of StartOAuthFlow, callback of the browser, critical section of `Provider.mu` or access to the token store; the store survives `Relaunch`. |
| `MCCloudMirror`, `MCCloudAccount`, `CloudMirrorProofs` | The instances; the theorems about both. |
| `AIAnalysis` | The analysis of one folder. One action per database statement (a transaction is one), per photo filtered, opened or failed, and per event the frontend acts on. Scores, faces and clusters survive `Crash`. A run is one call of `runAIAnalysisPipeline`; the workers of a run are its photos in `hand` and `saved`. |
| `MCAIAnalysis`, `AIAnalysisProofs` | The people on the photos and symmetry; theorems. |
| `VLMStages` | Stages 4 and 5 of the analysis. One action per photo claimed, described, saved or failed, per group ranked and saved, per clearing statement or transaction. Everything before them is the step `Prepare`. The tables survive `Crash`. |
| `MCVLMStages` | The persons on the photos; symmetry. |
| `VLMProofs` | The theorems about `VLMManager` and `VLMStages`, which it extends. |
| `ScoringPipeline` | Execute and ProcessRegions for one photo, and the rows scoreAndSavePhoto writes. One action per report or failure of a plugin, per face embedded or skipped, per row. `part` is the goroutine of every plugin of the first phase. |
| `FaceClustering` | ClusterFacesAgglomerative. One action per round of its loop; the similarity of two centroids is an input. |
| `MCScoringPipeline`, `MCFaceClustering` | TLC; faces as points of the plane. Their theorems are in `AIAnalysisProofs`, which extends them beside `AIAnalysis`. |
| `ModelStore` | The abstract specification: a file is under its final name whole, out of date, or not at all. |
| `Provisioner` | Setting up and deleting models and runtime. One action per change of the disk, exchange with the server, or change of the configuration. `at` and `item` say where DownloadVLMModel is and which file it fetches, `deleting` where DeleteVLMModel is; the disk and the database survive `Crash`. |
| `MCProvisioner` | TLC. |
| `ScoringEngine` | Library, models and plugins. One action per exchange with a server, chunk of the library written, change of the disk, or plugin initialised. `phase` is where every DownloadAIModels and Startup are; the disk survives `Restart`. |
| `InstallProofs` | The theorems about `Provisioner`, `Updater` and `ScoringEngine`, which it extends. |
| `VLMBackend` | One backend and the server processes it starts. One action per critical section of `b.mu`, per attempt, poll, signal and request; `kind` is the backend, and a launch is a process with its port, token and client. |
| `MCVLMBackend`, `VLMBackendProofs` | TLC; theorems. |
| `DeviceImport` | The detector's poll by tier, the callbacks it fires after the unlock, the dialog's questions and answers, imports file by file and by tool. Cards and cache survive `Crash`. |
| `MCDeviceImport`, `DeviceImportProofs` | The devices, their serials and cards; theorems. |
| `MediaCache` | Thumbnails, previews and conversions: one action per system call on a file (create, write a chunk, rename, remove) and per step of singleflight and of a slot. A thread with an open file follows it through a rename and writes to nowhere once it is replaced. |
| `FolderView` | Extends `MediaCache` with the loads that start its batches: the streaming scan, the events, the grid, the measuring of videos. |
| `MCFolderView`, `FolderViewProofs` | Folders, photos and workers, symmetry; theorems. |
| `FolderFiles` | One search for duplicates and one export at a time on one folder. One action per file operation, database statement and phase of the search. A path is a name and the number of `duplicates/` it is under. Files, selections and marks survive `Crash`. |
| `MCFolderFiles`, `FolderFilesProofs` | Pictures and the order of the walk; theorems. |

Definitions carry the names of the functions they model where TLA+ allows it. A module
whose theorems share a proof module with another's has its initial and next-state
predicates, type invariant and specification named after it (`StagesSpec`,
`UpdaterNext`, `UpdaterTypeOK`).
A mutant of a definition stands right before it and is used by no specification.

### What the models leave out, and why that is safe

- `VLMManager`: fields that only feed `Status()`; the states busy and idle, which
  the code declares and never assigns; the number of failed probes is kept up to
  the threshold, the restart count saturates one above the limit.
- `Updater`: version comparison and signature checks (go-selfupdate); a cooldown
  is a Boolean that ends at some time.
- `CloudMirror`: sizes are one per file (the limit and the demand are numbers of
  files); an album's items do not come and go; a file's content is the time of the
  version it was read from; RemoveAll of a directory is one step, and events are
  left out. The Google Drive provider is modelled; the iCloud provider, whose Download
  and dates differ, is not (section 7).
- `AIAnalysis`: a score is the version of the photo it was made from; every photo
  shows one face, and faces are clustered exactly by person (the algorithm is a
  part of the plan of its own); labels, representatives, weights and progress
  events are left out; the reads of a clustering, which only other runs' writes
  could come between, are one step; ids that no row and no run knows are taken
  again, which AUTOINCREMENT does not do and nobody can tell; the VLM stages delay
  `Complete`, which the model does anyway.
- `ScoringEngine`: the plugin without a model (sharpness is always available); names
  of temporary files, which are unique; Close, which no production code calls; whether
  a library that is not whole loads is left open (`LoadFails`). A model without a
  URL gets there by the user's hand, whole.
- `CloudAccount`: encryption and its key file, the refresh of tokens, the registry of
  providers (one provider; a mirror is its context).
- `ScoringPipeline`: values of scores, the choice of the best face, thumbnails; that
  photos are scored side by side and the application ends in between is in
  `AIAnalysis`.
- `FaceClustering`: the arithmetic of vectors. `Similarities` is any set of symmetric
  functions on sets of faces, so a centroid is known by its faces: that holds for
  embeddings of one length, and CosineSim of two lengths is 0, below the threshold.
- `Provisioner`: a `.partial` is a number of chunks, all right or not (a chunk damaged
  on the way, or a prefix of an older version's file, makes it wrong); a server
  honours ranges always or never, and sends every file in the length expected of it;
  the MLX entries, which the registry marks unavailable, the query of the disk's free
  space and progress events are left out; the four SetConfig of a set-up, which
  nothing reads in between, are one step.
- `VLMBackend`: what the processes print, the text of errors, prompts and replies;
  identities of launches are taken in a fixed order.
- `VLMStages`: values of scores, token counts, calibration, and the model and prompt
  versions in the cache key, which no call changes.
- `DeviceImport`: what lsusb, system_profiler and PowerShell print, the checks of
  paths, statistics; the three platforms are one model with the union of what they do.
- `MediaCache`, `FolderView`: sizes, formats and decoding (a file put together from two
  pictures does not decode), HTTP headers, the folders the media server may read;
  selections, ratings and marks a load reads (they are in `FolderFiles`).
- `FolderFiles`: hashes and quality scores (two pictures are near or not; the best
  photo of a group is any that can be loaded, or its first); dates, RAW+JPEG pairs and
  what else a result tells of a photo; trimmed clips; other subfolders.

## 4. Runs

| Run | Instance | Shows |
|---|---|---|
| `vlm_manager` | 1 caller, 1 timer, 2 loops, 1 provider, 1 restart; 549k states | `ReadyIsMonitored`, `ReadyStopsWhenIdle`, `RestartBudget`, `DeadServerNoticed` and `TransientStatesEnd`. The timer's stop and the recovery's start overlap the caller's calls; two loops are a monitor and its successor, or a recovery beside a new monitor. `VLMManagerSafety.cfg` has the invariants with two callers, and the theorems have any number. |
| `updater` | loop and 2 workers, every mode and install; 148k states | `RestartsIntoUpdate`, `TransientStatesEnd`. |
| `cloud_mirror` | 2 mirrors with 2 workers, 2 albums, 3 files, limit 2, 2 disturbances; 690k states | `SkipsAreSound`, `SuccessIsReal`, `CacheFits`, `MirrorsEnd`. Two mirrors may be of two albums or of one, begun beside the other. The limit holds one album but not both, so evictions, the sparing of the own album and the error for lack of space all happen. A disturbance is a failure, a cancellation, a deletion, an edit, a new limit, a crash, or a mirror begun beside another; mirrors themselves are not bounded, so their effects are met by any number of later mirrors. |
| `ai_analysis` | 2 runs with 1 worker, 2 photos of 2 people, 2 versions, 6 detections, 6 clusters, 2 disturbances; 829k states | Safety of the analysis. Two runs are enough for a run beside the one it cancelled, and two disturbances for a request during a run with an edit, failure or crash in it; analyses one after the other are not bounded. A photo analysed again leaves a second detection, so clusters of several faces occur. With 6 detections and clusters no save ever waits for an id. |
| `vlm_stages` | 2 runs, 3 photos of 2 persons, 2 instructions, groups of 2 and more, 3 disturbances; 1.26M states | `RowsAgree`, `RankingsAreWhole`, `SelectedAreDescribed`. Three photos make one group that is ranked and one photo that is not; three disturbances allow an edit of the instructions, a clearing and a failure or crash in one run. |
| `scoring_pipeline` | 2 detectors with up to 2 faces each, 1 quality plugin, 2 recognizers; 520k states | `OnlyCancellationFails`, `ScoresAreComplete`, `UnskippedVectorsMatch`. Two detectors and a third plugin append side by side; the second recognizer appends to what the first left, or to nothing. |
| `cloud_account` | 2 authorizations, 1 mirror, 2 callbacks; 860k states | `SettledAccountLasts`, `FlowsEndUnlessHeld`. Two authorizations are an account and its successor, or two at once; disconnections, first uses, relaunches and failures of the keychain are not bounded. |
| `provisioner` | 2 models, 2 libraries, files of 2 chunks, 3 disturbances; 278k states | Safety and liveness of the set-up, and that it refines `ModelStore` (`Store == INSTANCE ModelStore WITH ...`, `InstallsAtomically`). Two chunks make a `.partial` empty, in progress or complete; two libraries an extraction that passes for ready without being complete. A disturbance is a failure, a damaged chunk, a crash, an upgrade or a deletion; three allow an old prefix to be resumed, fail and be cut off again. Downloads are not bounded. |
| `vlm_backend` | 2 callers, 3 launches, 2 attempts, 3 calls, both kinds; 282k states | `ServersAreManaged`, `FieldsAgree`, `CallsReturn`. Three launches are two attempts of one Start and one of another. |
| `device` | a mounted and an unmounted device, 2 names, 3 photos, 2 imports, 2 disturbances; 193k states | `ToldOnceEach`, `ListIsCurrent`, `ImportsAreComplete`, `DevicesAreNoticed`. Photos of one and of two chunks: a torn copy differs from a whole one in size, an edited photo need not. |
| `folder_view` | a folder of two photos or of one RAW, HEIC or video file, an empty folder, 2 loads with a worker each, 2 requests, 2 versions, 4 calls, 1 disturbance; 1.16M states, symmetry | `QuietCachesAreWhole`, `ThumbsAreCurrent`, `FlightsAreLed`, `GridIsCurrent`. Two loads of one folder are two generations of one thumbnail; two requests are a leader and a follower. |
| `folder_files` | 2 names, 3 pictures of which one is like the two others, 2 searches, 1 export, 2 disturbances; 1.87M states | `PicturesSurvive`, `GroupsKeepOne`, `ResultsAreComplete`, `ExportedMeansCopied`. The second search finds what the first moved; two disturbances are a failed rename and a failure or crash in the fallback. With two exports (10.7M states, too long for a run of the list) the same holds. |

`CHECK_DEADLOCK FALSE` stands where the system really may stop: the manager's
program may panic, the updater's process is replaced, after an analysis
cancelled while it filters the Analyze button stays disabled, the scoring of a photo
and a clustering are done, and where every call counted by a bound has been made.

Every property of a run has a mutant of the code that violates it; `PROJECT.json`
lists them. The type invariants are in no run: those of the modules with proofs are
theorems, and `TypeOK` can be added to the configuration of any module.

The runs are the ones worth repeating with every change. Kept beside them, to be run by
hand:

- `ScoringEngine.cfg` (module `ScoringEngine`): two set-ups beside Startup, a detector with
  a URL, a recognizer without one, a library of two chunks; 541k states.
  `SettledLibraryIsWhole`, `SuccessMeansAvailable`, `SetupsLeaveNoneEmpty`, that it refines
  `ModelStore` (`ModelsInstallAtomically`), and `SetupsEnd`. All but the last are theorems.
- `FaceClustering.cfg` (module `MCFaceClustering`): 4 faces of 5, at 5 points of the plane;
  882 states. `FacesAreSplit` and `ClustersAreApart`, which are theorems, and
  `ClusteringEnds`. All 625 placements, ties included; four faces are up to three merges, of
  clusters that have been merged themselves.
- `VLMManagerSafety.cfg`, and the configurations that section 6 names.

Seven properties stand in no configuration of a run, and hold in them when they are added:
`TransientStatesOwned` of the manager and of the updater, `RequestsAreReady`,
`ReadyIsUsable` and `ClientIsCurrent`, which are theorems; `PhotosEnd` (with
`PipelineFairSpec`) and `RunsNeverStick`, which TLC alone can check.

### Fairness

`AIAnalysis` states none: `RunsNeverStick` (not in the run's configuration) says that a run at work has a step it can
take, in every reachable state, and each of its steps takes something from a finite
amount of work; that it ends then only needs the scheduler. Symmetry is sound for
such an invariant and not for liveness.

`VLMStages`, `FolderView` and `FolderFiles` state none either: their properties are of
safety, and fairness of the many goroutines of `FolderView` is beyond TLC. The run of
`ScoringPipeline` needs none; `PipelineFairSpec` states it for `PhotosEnd`.

For the others, weak fairness of goroutines: the Go scheduler runs what can run, tickers tick and
timers fire. Provider calls of the VLM return because every one has a deadline. In
`VLMBackend` the lock has strong fairness, because a sync.Mutex starves nobody, and so
has the death of a process after SIGKILL. In `DeviceImport` the detector, the dialog's
calls and the copies are fair, and tools end because they are killed otherwise.
Downloads of the scoring models and of the runtime have timeouts, and so has the wait for a
callback; the program that opens the browser returns, the mutex of the cloud provider has strong
fairness. Inference returns. The updater's calls to GitHub and Drive's downloads have no deadline in the code; that
they end, if with an error, is an assumption on the network, and so it is for the
model downloads. Users, edits,
deletions and crashes are never forced to happen, with one exception that is stated
with the property: `RetriesInstall` is about a user who presses Download again
(`RetrySpec`).

## 5. Proofs

All theorems hold for every number of goroutines, albums, files and photos.

- `VLMProofs`, `VLMManager`. `TypeCorrect` is inductive. `TransientStatesAreOwned` needs
  only types: each action that writes a transient state leaves its goroutine in
  that work. `OneMonitor` and `ReadyEngineIsMonitored` are proved together
  (`MonitorInv`): the monitor that watches a ready engine is the one whose context
  `stopHealth` holds, so a new monitor cancels exactly that one.
  `RestartsAreBounded` needs a count of promises (`BudgetInv`): starts made by
  recovery plus recoveries on their way never exceed the restart count, capped.
- `VLMProofs`, `VLMStages`. The invariant (`StagesIInv`) adds to the properties what a
  run knows between its steps: an inference in hand was sent with the snapshot its row
  will claim, unless that is empty (`SentAsStamped`), and a selected photo the run is
  done with has its row (`DoneAreDescribed`). `RowsTellTheTruth` and `RankingsWhole` are
  part of it; `SelectedDescribed`, an action property, follows from it for the step
  that ends stage 4.
- `CloudMirrorProofs`. `TypeCorrect` needs that a deletion under way has an album
  to delete and a running mirror one to mirror (`TypeInv`). `SkipsSound` and
  `SuccessReal` share `IInv`: no date of the metadata,
  of a listing or of a file is later than the cloud's (`DatesAreOld`); a mirror
  works on listed items of its own album only (`WorkIsOwned`), and a file two mirrors
  of the album write at the same time is among the `mixed` ones (`SharedIsMixed`), of
  which nothing is claimed until a download alone has begun them anew (`Doubtful`); what lies under a download is no older
  than the listing whose date will be saved (`DownloadsAreNew`); and the metadata
  of a torn file is behind the cloud and behind every listing in use
  (`TornIsStale`), which is why the filter takes it up again. `DoneIsWhole` and
  `ReportIsDone` carry that to the report, but for the files other calls deleted or began
  to write since the listing (`touched`). `CacheIsWithinLimit` has an invariant of its own:
  from the eviction on, the recorded albums and the space the mirror's own album needs fit
  the limit (`RoomIsLeft`), the album whose record an eviction is about to drop counted
  until then; the proof counts finite sets.
- `CloudMirrorProofs`, `CloudAccount`. `SettledAccountLasts` speaks of the end of a change
  and needs its middle: a save or a removal that nothing interfered with is the only one
  under way (`SaversAreAlone`, `LeaversAreAlone`), IsAuthenticated asks the store only
  without a token (`ProbesHaveNoToken`), and one that looks into the file after it found
  nothing in the keychain finds the latest there or has seen a change disturbed
  (`ProbesFindTheLatest`). What a change stored is in the place the keychain's answer chose
  (`ChangeIsStored`), so it is found whenever the keychain answers as it did (`AsChanged`).
  `ClientsAreCurrent` is a conjunct of the same invariant.
- `AIAnalysisProofs`, `AIAnalysis`. `TypeCorrect`, `OneLive` and `ShownEnds` are inductive;
  `RunSteps` sums up what a step of a run does to contexts and frontend. `Thorough`
  needs `ThoroughInv`: what a worker has in hand is the present content unless it
  was edited in hand (`HandsAreCurrent`), so the photos the filter skips are scored
  (`DatedAreCurrent`), so every photo of a run is to do, in hand, excused or scored
  (`AllCovered`), and past the scoring only the last two remain. Cancelled runs
  lose photos, and never get past it. `ExactClusters` needs that only a clustering that
  saves has faces in hand (`HandsOnlySaving`), that no face waits for a cluster or has
  one whose photo has no score, because an id a run knows is not given away
  (`FacesAreScored`), and, while nothing disturbs it, that every loaded face waits or is
  assigned, that every cluster counts its own and those about to join it, and that the
  groups and the clusters are each all the faces of one person (`Exact`, `OfOnePerson`).
- `AIAnalysisProofs`, `ScoringPipeline`. `OnlyCancellations` needs that a plugin is stopped
  only by the analysis' context, since no goroutine returns any other error
  (`StopsHaveCause`); `CompleteScores` that reports are appended once and as a whole
  (`ReportsAreKept`) and that stage 1 is over from its end on (`Stage1IsOver`);
  `UnskippedVectors` that, as long as none was skipped, the embeddings in hand are those
  of the first faces (`BatchIsPrefix`), that what recognizers have appended begins with a
  complete copy or is empty (`VectorsAreCopies`), and that rows are written in order (`StoredInOrder`).
- `AIAnalysisProofs`, `FaceClustering`. `ApartClusters` needs that the centroid of an active
  cluster is the mean of the faces it has by now (`CentroidsAreCurrent`) and that
  similarity is symmetric, as the loops compare each pair once; `SplitFaces` that the
  later of two clusters goes into the earlier.
- `InstallProofs`, `Provisioner`. `TypeCorrect` is inductive. The other three share `IInv`, which
  follows a call: a download writes only where no file is and renames only what it
  has verified (`FetchInv`); past it the model is there (`ModelInv`); every member
  not left to extract is on disk (`ExtractInv`), so the extraction leaves a usable
  runtime (`CleanupInv`). `ReadyIsUsable` and `ConfiguredIsInstalled` follow, and
  `FetchInv` gives the refinement, `AtomicInstallation`: Rename is ModelStore's
  Install because nothing is under the final name and the bytes are right.
- `InstallProofs`, `Updater`. `UpdaterInv` adds two facts about the past: what is announced is
  known, and ready or its toast mean that an update was installed; the second
  is what makes `RestartsIntoUpdate` inductive.
- `InstallProofs`, `ScoringEngine`. `EngineInv` says that a chunk missing in the library has
  a writer who has still to come to it, unless an extraction was cut off
  (`HolesHaveWriters`): so a second truncation leaves a promise and not a hole, and with no
  extraction under way the library is whole. Only verified files are about to be renamed
  (`ModelsAreVerified`), which gives the refinement `AtomicModels`; a call in InitAll has
  seen every model in place and has the closed detectors before it (`InitFollowsModels`),
  which gives `SuccessIsAvailable` and `SetupsInitialiseLast`.
- `VLMBackendProofs`. The invariant says who holds the lock (`LockInv`: exactly the
  goroutine inside Start), what the locals of Start and Stop point to (`HandInv`: Start
  works on the current command, Stop on one that no field names any more), that
  pointers are to launches made (`KnownInv`), that the fields are those of one launch
  when no Start is between two attempts (`FieldInv`), and that a client of llama.cpp has
  answered (`ReadyInv`). `Managed`, `Agreement` and `OnlyReadyServers` follow.
- `FolderFilesProofs`. `TypeCorrect` needs that a file is under at most as many
  `duplicates/` as there were searches (`DepthInv`). `NoPictureIsLost` needs what a
  fallback copy has read and written by now (`HeldInv`): until the original is removed
  it still is what was read, and afterwards the copy is. `EveryGroupKeepsOne` needs that
  photos to stay are neither moved nor written over (`GroupInv`), `ResultsComplete` that
  the places the search keeps are where the pictures are, a photo overwritten before it
  was moved included (`PlaceInv`), `MarksMeanCopies` which file is whose copy
  (`ExportInv`).
- `FolderViewProofs`. `IInv` has five parts. `FileInv` says of every file nobody has
  spoiled that all its writers have the same picture, and that every chunk which is not
  that picture's has a writer who will still come to it (`Sound`): so a rename under the
  hands of another generation, or a second creation of the file, leaves a promise and
  not a hole, and once there are no writers the file is whole (`CachesWhole`). The other
  half (`Fresh`) is that neither a chunk nor a writer of a thumbnail, temporary or not,
  is older than the version in its name (`CurrentThumbs`). Both are proved once for
  each of the four things a step does to files (`TruncateStep`, `AppendStep`, `RenameStep`,
  `ShrinkStep`), which all steps of all threads then cite. `ThreadInv` says what a
  thread has in hand at each step, `RowsInv` that loads hand out versions that have
  been, `GridInv` which rows an undisturbed load still has to collect (`CurrentGrid`);
  `FlightsAreLed` is inductive beside them (`LedFlights`).
- `DeviceImportProofs`. `CallbacksLoseNothing` needs that what the frontend was told
  differs from the detector's map by exactly the callbacks to fire, no two about one
  serial (`TellInv`), `DialogIsCurrent` that the answer of the youngest call in flight
  is the one that counts (`DialogInv`). `ImportsLeaveCopies` needs that one import at a
  time writes in a directory, in order (`WriterInv`), from a photo that is still on the
  card or was replaced (`SourceInv`); so a file is a beginning of its photo (`DiskInv`),
  and one of the photo's size is the photo. `CleanInv` adds what an undisturbed import
  has done so far. Devices may share a directory, as the code does not see to it that
  they have one each: the property judges an import whose directory holds no files of
  another device (`OwnDirectory`, with the history `origin`); section 6 has the others.

Assumptions on the constants are the named ASSUMEs of the modules: kinds of
goroutines are disjoint, nil values are no goroutines, rows or file names
(`NoRowIsNone`, `NoneIsNoFile`), the sets whose elements are counted are finite. TLC
evaluates them in every run. `ScoringEngine` and `FaceClustering` assume nothing: the
set-ups are the goroutines that are not Startup, the clusterings begin with any symmetric
similarity (CosineSim is a product).

Every safety and action property of a run is a theorem. Model-checked only: the liveness
properties and `RunsNeverStick` (fairness and ENABLED are beyond the prover). The properties of section 6 are false of the code and have
nothing to prove. Before it was proved, each inductive invariant was checked by TLC as
an invariant of the run of its module.

## 6. Known divergences

What a comment, a test, a document or the structure of the code promises and TLC
finds broken. Each is a definition of its module, and a copy of the named
configuration with the definition as its only property shows the trace (as a PROPERTY
where it is a temporal or an action formula, as an INVARIANT otherwise).

| Property | Configuration | What happens |
|---|---|---|
| `OffMeansStopped` | `VLMOffMeansStopped.cfg` | A Stop that overlaps a Start leaves off over a running server. |
| `NoSendOnClosedChannel` | `VLMManager.cfg` | Shutdown closes the event channel under senders. |
| `ErrorIsPermanent` | `VLMManager.cfg` | A Stop or a start that was in flight overwrites the "permanent" error state. |
| `ShutdownCancelsBackoff` | `VLMOffMeansStopped.cfg` | The recovery waits on the context of a later monitor. |
| `IdleStopSparesInference` | `VLMManager.cfg` | The idle timer stops the engine under an inference. |
| `RunningServerIsManaged` | `VLMManager.cfg`, two providers | SetProvider while a server runs loses it. |
| `EnsuredMeansReady` | `VLMOffMeansStopped.cfg` | EnsureRunning returns nil while the engine is starting. |
| `LifetimeManagedByStop` | `VLMBackend.cfg` | A Start over a live server overwrites its command; nobody ends that process (llamacpp_backend.go:180, "its lifetime is managed by Stop()"). |
| `OneDownload` | `Updater.cfg` | A check resets downloading to idle; a second download begins. |
| `StateMachineObeyed` | `Updater.cfg` | Writes after the entry guards ignore canTransitionTo. |
| `AnnouncementsShown` | `Updater.cfg` | EventsOff in the About dialog takes the toast's listeners away. |
| `MirroredFilesAreWhole` | `CloudTornFile.cfg` | When a file is missing although its metadata is up to date, MirrorAlbum downloads it over that metadata, and Drive's Download truncates the file at its path: a download that breaks off leaves a torn file which the next mirror counts as "already mirrored, up to date, and file exists on disk" (mirror.go:127). |
| `MirroredAlbumsAreRecorded` | `CloudTornFile.cfg` | With nothing to download MirrorAlbum returns before SaveCloudMirror (mirror.go:139-144): a mirror record lost in a crash after the last download is never made up for, and neither the usage, the eviction nor ClearAll sees the album. |
| `MirrorsWriteApart` | `CloudMirror.cfg` | Two mirrors of one album write a missing file at the same time; the end of one saves the metadata, and what the other leaves torn passes for "already mirrored, up to date, and file exists on disk" (mirror.go:127). |
| `CancelReaches` | `CloudMirror.cfg` | After a cancellation the dialog lets the user start the album again while the first call winds down; the first call's end deletes the second's cancel function. |
| `SkippedScoresAreCurrent` | `AIAnalysis.cfg` | The filter compares the photo's modification time with the time of the save: an edit between opening and saving a photo is never scored. |
| `ReanalysisIsFull` | `AIAnalysis.cfg` | A run in progress goes on saving scores after ClearAIData, and the re-analysis skips them. |
| `ClustersDoNotAccumulate` | `AIAnalysis.cfg` | Re-analyze during a clustering: nothing cancels it, and both clusterings leave their clusters. |
| `RunningMeansShown` | `AIAnalysis.cfg` | The late ai:error of the cancelled run resets isAnalyzing under its successor. |
| `InstructionsTakeEffect` | `VLMStages.cfg` | Edited instructions leave every row stale while all photos are scored: a run without photos to score ends before any stage looks at the instructions (ai_methods.go:1402 promises that the next run re-scores). |
| `SelectionIsLimited` | `VLMStages.cfg` | "only send top N photos to VLM": a count of zero means no limit. |
| `RankingsAreOfTheGroup` | `VLMStages.cfg` | Labels are given anew by every clustering: rows of photos that left a group stay under its label. |
| `PartialsAreResumed` | `ProvisionerStuck.cfg` | When a call ends while it verifies or renames a complete `.partial`, the next one asks for the bytes after its end; a server that honours ranges answers 416, an error that keeps the `.partial`: "resuming from a .partial file if present" (provisioner.go:112) fails the same way in every retry, and DeleteVLMModel does not remove it. |
| `ReadyMeansUsable` | `ProvisionerStuck.cfg` | An extraction cut off after the binary and libllama leaves a runtime that every later set-up accepts, although members are missing. |
| `SuccessIsInstalled` | `ProvisionerStuck.cfg` | While a deletion waits for the engine to stop, Change Model finds the model present and configures it; then the deletion removes it. |
| `SkippedFilesAreCurrent` | `DeviceImport.cfg` | "Skip existing" compares sizes: another photo of the same name and size is skipped. |
| `CardsAreKeptApart` | `DeviceImport.cfg` with both devices mounted, one serial, photos of one size and name, and 3 disturbances | A serial is the name of a volume (detector_linux.go:246): two cards of one name share a directory, and photos of the second are skipped for those of the first. |
| `ToolCopiesTheDevice` | `DeviceImport.cfg` | The tool picks the device itself; with two connected it may copy the other one. |
| `ThumbnailsAreWhole` | `FolderView.cfg` | Two generations share one `.tmp` (thumbcache.go:183): one renames what the other has just truncated. The spoiled thumbnail is written to the end, so it is whole when both are done. |
| `MeasuringIsHeard` | `FolderView.cfg` | The end of an earlier enrichment removes the listeners of a later one, by the names of their events (App.tsx:499). |
| `AllModelsAreDownloaded` | `ScoringEngine.cfg` | DownloadAll passes over models without a URL (model_manager.go:184), and the embedder's URL is a placeholder (face_embedder.go:18); DownloadAIModels then returns "model file missing after download" and never comes to InitAll. README.md:124 says that the models are downloaded automatically. |
| `AvailableMeansReady` | `ScoringEngine.cfg` | A detector Startup initialised without its model never loads the one downloaded later, because Init returns early (face_detector.go:87). Available says "present and ready" (provider.go:59), and Process fails on every photo, which is scored without faces. |
| `ProvisionedIsWhole` | `ScoringEngine.cfg` | An extraction cut off leaves a torn library, which Stat takes for provisioned for ever (runtime_provisioner.go). |
| `LoadedLibraryIsIntact` | `ScoringEngine.cfg` | A second call that saw no library truncates the one the first has loaded by now. |
| `CancellationStops` | `ScoringPipeline.cfg` | Cancelled while the last recognizer works, ProcessRegions returns the context's error, which Execute takes for a failed plugin: the photo is saved without embeddings and passed over by the next analysis, while "context cancellation stops the pipeline immediately" (pipeline.go:54). |
| `VectorsMatchFaces` | `ScoringPipeline.cfg` | ProcessRegions leaves a face out of its result when inference fails for it (face_embedder.go:204), and embedding i is saved with face i (ai_methods.go:539): the faces behind get their successors' embeddings, although the "outer slice index matches Faces index" (provider.go:132). |
| `FlowsEnd` | `CloudAccount.cfg` with three callbacks | Shutdown without a deadline waits for handlers (oauth.go:130), and a handler waits for room in a channel nobody reads any more: with the callback page requested three times, or twice before a timeout, Authenticate never returns. |
| `DisconnectRemovesAuth` | `CloudAccount.cfg` | Disconnect clears the token under the mutex and deletes it from the store afterwards (provider.go:187); an IsAuthenticated in between loads it again, and the provider stays connected until the application ends, while Disconnect "removes auth for a provider" (app/cloud.go:41). |
| `ExchangesItsRedirect` | `CloudAccount.cfg` | Every authorization writes its address into the one configuration: of two at once, the first exchanges its code for the second's address, which Google refuses. |
| `ClientOutlivesMirrors` | `CloudAccount.cfg` | The client is made in the context of the call that needs it first; when that is a mirror, every refresh fails once it was cancelled. |
| `ChangesOutlastOutages` | `CloudAccount.cfg` | Save writes the keychain or, when it does not answer, the file, and leaves the older token in the other place; when the keychain answers otherwise than at the change, Load finds that one, although it "retrieves a previously-saved OAuth2 token" (token_store.go:52) after the last one was saved. |
| `DisconnectedIsGone` | `CloudAccount.cfg` | The error of a keychain that does not answer is dropped; its token is back when it answers again. |
| `DurationsStay` | `FolderView.cfg` | The rows of PreloadThumbnailsForPhotos have no durations and replace those measured meanwhile (app.go:770). |
| `DuplicatesAreDetected` | `FolderFiles.cfg` | README.md:208: a second search moves photos of `duplicates/` into `duplicates/duplicates/`, which neither the scan nor CheckDedupStatus looks into. |
| `SameNamesAreKept` | `FolderFiles.cfg` | os.Rename replaces a different photo of the same name that an earlier search put into `duplicates/`. |
| `ExportsAreMarked` | `FolderFiles.cfg` | README.md:51: errors of MarkExported and SaveSelection are dropped; exported photos stay selected and unmarked. |

Seen while modelling, without a property: the rows of an overtaken load replace the
grid of the folder opened after it, and batch events of its scan join that folder's
rows (App.tsx:547-557; `GridIsCurrent` excepts them); a HEIC conversion is keyed by
its path without the modification time and is not made again after an edit; a preview
is stored under the key of a second stat; a VLM row is found again for a photo whose
content has changed; the message after an export counts selections that are not in the
folder (Sidebar.tsx:103); an export that fails marks nothing, so a retry copies the
first photos again under new names; "and clears its mirrors" (app/cloud.go:41) is done
by no code; the comment of the clustering says that a similarity exceeds the threshold
(clustering.go:22), and one equal to it suffices; faces beyond 2000 are in no cluster; a cancelled search tells nothing of the photos it
has moved; moved duplicates lose the date and the RAW data the search had of them.

`provisioner` therefore excepts a `.partial` that was complete when its call was cut
off (`spoiled`), a runtime whose extraction was (`interrupted`), and calls under
which a deletion removed files (`wiped`). What is persisted of a set-up (`saved`) is
read by no code that sets the provider: after every start the model has to be set up
again, which finds the files present.

`ai_analysis` therefore excepts photos edited in a worker's hand (`raced`), judges
clusterings that nothing touched (`tidy`), and lets a run that is cancelled while
it filters end without an event (`silent`).

`cloud_mirror` therefore excepts downloads begun over up-to-date metadata
(`rewriting`), files that two mirrors of an album have written at the same time
(`mixed`) and, of a report, those another call has deleted or begun to write since the
listing (`touched`).

`SettledLibraryIsWhole` therefore excepts a library whose extraction was cut off (`cut`) and
judges it when no extraction is under way. `scoring_pipeline` excepts photos with a
skipped face (`skipped`). `cloud_account` judges changes that nothing interfered with,
until a token was looked up while the keychain answered otherwise (`settled`), by what is
found while it answers as it did then (`AsChanged`), and authorizations whose shutdown is not held (`Held`).

`vlm_stages` judges the rows that name custom instructions: the manager replaces an
empty snapshot by the instructions of the moment. `device` excepts answers that arrive
after a younger one, files skipped over another photo, and directories two imports
write to at once or that hold files of another device. `folder_view` judges caches that nobody writes to, and grids no load
was overtaken for. `folder_files` excepts photos that a photo of the same name has
replaced.

## 7. Not modelled

- The VLM client, prompts and the parsing of replies: one HTTP request and pure
  parsing; that a request fails or is cut off is in `VLMBackend` and `VLMStages`.
- ONNX inference, hashes, sharpness, histograms, the arithmetic of scores and of
  embeddings: numerics on images. What decides control (a photo failed, a group, a best photo) is a choice of
  the models.
- The iCloud provider: AppleScript. `CloudMirror` does not cover it: it lists no dates,
  so that metadata never goes out of date, exports into a directory of its own and never
  writes over a file, and it retries with back-off.
- The encryption of the token file, the registry of providers.
- Startup, configuration, recent folders, system metrics, logging, data types: single
  statements or pure input and output. RAW containers and EXIF: pure reading.
- Trimmed clips in an export, RAW+JPEG pairing, ratings.
- Renaming, merging and hiding clusters: ai:complete carries the number of clusters,
  App.tsx puts that number where the panel maps over a list, and the buttons that
  would call them are never drawn.
