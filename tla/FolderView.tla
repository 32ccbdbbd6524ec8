------------------------------- MODULE FolderView -------------------------------
(***************************************************************************)
(* Opening a folder: App.tsx loadDirectory, the scan that streams the      *)
(* photos in batches, the background measuring of the videos' lengths and  *)
(* the batch of thumbnails (app/app.go), over the caches of MediaCache.    *)
(* Nothing keeps the user from opening the next folder while a load of the *)
(* last one goes on; all loads write to one grid, and the listeners are    *)
(* known by the names of their events.                                     *)
(*                                                                         *)
(* The frontend handles an event when the backend emits it, and a call's   *)
(* result some time after the call has ended.  A photo listed twice is one *)
(* row.  Crash restarts the program with an empty grid.                    *)
(*                                                                         *)
(* Left out: progress events, the drawing of the grid once per frame, what *)
(* else a load reads (selections, ratings, the exported and the duplicate  *)
(* photos).                                                                *)
(***************************************************************************)
EXTENDS MediaCache

CONSTANTS
    Folders,
    FolderOf,           \* the folder of a photo
    Loads,              \* bound: loads of a folder at a time
    WorkersOf,          \* cfg.ThumbnailWorkers threads for the batch of a load
    ScannerWorkers,     \* cfg.ScannerWorkers: videos measured at a time
    BatchSize,          \* scanBatchSize
    MaxCalls            \* bound: loads, which count for two, and requests in a behaviour

ASSUME FoldersTyped == FolderOf \in [Photos -> Folders] /\ None \notin Folders \cup Loads
ASSUME WorkersTyped == WorkersOf \in [Loads -> SUBSET Workers]
ASSUME ViewBounds == ScannerWorkers \in Nat \ {0} /\ BatchSize \in Nat \ {0} /\ MaxCalls \in Nat

VARIABLES
    calls,          \* how many of them there have been
    currentDir,     \* the folder the window names
    ref,            \* scanPhotosRef: the rows the loads have collected
    photos,         \* the rows the grid shows
    listening,      \* there is a listener for measured videos
    load,           \* where every load is
    enrichment,     \* the measuring of the videos that a load has begun
    enrichCancel,   \* the load whose enrichment the next one cancels
    overlapped      \* history: a load began while another went on, or has
                    \* failed, since the last time a load began alone

view == <<calls, currentDir, ref, photos, listening, load, enrichment, enrichCancel, overlapped>>
vars == <<media, view>>

Rows == [photo : Photos, version : Versions, thumb : BOOLEAN, duration : BOOLEAN]
NoLoad == [phase |-> "none", folder |-> None, left |-> {}, first |-> {},
           items |-> {}, queue |-> {}, thumbs |-> {}]
NoEnrichment == [on |-> FALSE, left |-> {}]

TypeOK ==
    /\ MediaTypeOK
    /\ calls \in 0 .. MaxCalls
    /\ currentDir \in Folders \cup {None}
    /\ ref \subseteq Rows /\ photos \subseteq Rows
    /\ listening \in BOOLEAN /\ overlapped \in BOOLEAN
    /\ load \in [Loads -> [phase : {"none", "scan", "scanned", "meta", "preload"},
                           folder : Folders \cup {None}, left : SUBSET Photos,
                           first : SUBSET Rows, items : SUBSET Rows,
                           queue : SUBSET Rows, thumbs : SUBSET Photos]]
    /\ enrichment \in [Loads -> [on : BOOLEAN, left : SUBSET Photos]]
    /\ enrichCancel \in Loads \cup {None}

Init ==
    /\ MediaInit
    /\ calls = 0 /\ currentDir = None /\ ref = {} /\ photos = {} /\ listening = FALSE
    /\ load = [c \in Loads |-> NoLoad]
    /\ enrichment = [c \in Loads |-> NoEnrichment]
    /\ enrichCancel = None /\ overlapped = FALSE

Photos0(d) == {p \in DOMAIN kind : FolderOf[p] = d}
In(c, phase) == load[c].phase = phase
Loading == {c \in Loads : load[c].phase # "none"}
Calls(n) == calls + n <= MaxCalls /\ calls' = calls + n
enriching == <<enrichment, enrichCancel>>

-----------------------------------------------------------------------------
(* loadDirectory and what it awaits.                                         *)
\* Mutant: the rows collected for the last folder are not thrown away.
LoadDirectoryKeepsRef(c, d) ==
    /\ In(c, "none") /\ ~enrichment[c].on /\ Calls(2)
    /\ load' = [load EXCEPT ![c] = [NoLoad EXCEPT !.phase = "scan", !.folder = d,
                                                  !.left = Photos0(d)]]
    /\ currentDir' = d /\ listening' = FALSE
    /\ overlapped' = (Loading # {})
    /\ UNCHANGED <<media, ref, photos, enriching>>

\* The listeners of the last load go; the grid keeps its rows for now.
LoadDirectory(c, d) ==
    /\ In(c, "none") /\ ~enrichment[c].on /\ Calls(2)
    /\ load' = [load EXCEPT ![c] = [NoLoad EXCEPT !.phase = "scan", !.folder = d,
                                                  !.left = Photos0(d)]]
    /\ currentDir' = d /\ ref' = {} /\ listening' = FALSE
    /\ overlapped' = (Loading # {})
    /\ UNCHANGED <<media, photos, enriching>>

\* ScanDirectoryStream: the first batch is the call's result, the others are
\* events, for whichever load listens.
ScanFile(c) ==
    /\ In(c, "scan")
    /\ \E p \in load[c].left :
         LET row == [photo |-> p, version |-> version[p], thumb |-> FALSE, duration |-> FALSE]
         IN IF Cardinality(load[c].first) < BatchSize
            THEN /\ load' = [load EXCEPT ![c].left = @ \ {p}, ![c].first = @ \cup {row}]
                 /\ UNCHANGED <<ref, photos>>
            ELSE /\ load' = [load EXCEPT ![c].left = @ \ {p}]
                 /\ ref' = ref \cup {row} /\ photos' = ref'
    /\ UNCHANGED <<media, calls, currentDir, listening, enriching, overlapped>>

\* startEnrichment cancels the enrichment that runs and takes its place.  The
\* one that is cancelled still measures what its workers have taken up.
StartEnrichment(c, videos) ==
    LET old == IF enrichCancel = None THEN NoEnrichment ELSE enrichment[enrichCancel]
    IN /\ \E taken \in SUBSET old.left :
            /\ Cardinality(taken) <= ScannerWorkers
            /\ enrichment' = [e \in Loads |->
                    IF e = c THEN [on |-> TRUE, left |-> videos]
                    ELSE IF e = enrichCancel THEN [old EXCEPT !.left = taken]
                    ELSE enrichment[e]]
       /\ enrichCancel' = c

ScanReturns(c) ==
    /\ In(c, "scan") /\ load[c].left = {}
    /\ load' = [load EXCEPT ![c].phase = "scanned"]
    /\ LET videos == {p \in Photos0(load[c].folder) : kind[p] = "video"}
       IN IF videos = {} THEN UNCHANGED enriching ELSE StartEnrichment(c, videos)
    /\ UNCHANGED <<media, calls, currentDir, ref, photos, listening, overlapped>>

\* The folder cannot be read, or the database cannot say what was exported.
LoadFails(c) ==
    /\ In(c, "scan") \/ In(c, "meta")
    /\ Disturb
    /\ load' = [load EXCEPT ![c] = NoLoad]
    /\ overlapped' = TRUE
    /\ UNCHANGED <<kind, version, files, job, leader, calls, currentDir, ref, photos, listening, enriching>>

Scanned(c) ==
    /\ In(c, "scanned")
    /\ ref' = ref \cup load[c].first /\ photos' = ref'
    /\ listening' = TRUE
    /\ load' = [load EXCEPT ![c].phase = "meta", ![c].first = {}]
    /\ UNCHANGED <<media, calls, currentDir, enriching, overlapped>>

\* PreloadThumbnailsForPhotos is called with the rows collected by now.
Preload(c) ==
    /\ In(c, "meta") /\ \A t \in WorkersOf[c] : At(t, "idle")
    /\ IF ref = {} THEN load' = [load EXCEPT ![c] = NoLoad] /\ UNCHANGED job
       ELSE /\ load' = [load EXCEPT ![c].phase = "preload", ![c].items = ref, ![c].queue = ref]
            /\ job' = [t \in Threads |->
                         IF t \in WorkersOf[c] THEN [Idle EXCEPT !.pc = "take"] ELSE job[t]]
    /\ UNCHANGED <<disturbances, kind, version, files, leader, calls, currentDir, ref, photos,
                   listening, enriching, overlapped>>

\* A worker notes its result and receives the next item, or finds the closed
\* channel empty.
Take(c, t) ==
    /\ job[t].pc \in {"take", "made", "failed"}
    /\ LET done == IF At(t, "made") THEN {job[t].item} ELSE {}
       IN IF load[c].queue = {}
          THEN /\ job' = [job EXCEPT ![t] = Idle]
               /\ load' = [load EXCEPT ![c].thumbs = @ \cup done]
          ELSE \E row \in load[c].queue :
                 /\ job' = [job EXCEPT ![t] = [Idle EXCEPT !.pc = "check", !.item = row.photo,
                                                           !.key = row.version]]
                 /\ load' = [load EXCEPT ![c].queue = @ \ {row},
                                         ![c].thumbs = @ \cup done]
    /\ UNCHANGED <<disturbances, kind, version, files, leader, calls, currentDir, ref, photos,
                   listening, enriching, overlapped>>

\* wg.Wait has returned: the rows come back as they were sent, with their
\* thumbnails, and replace whatever the grid shows.
PreloadReturns(c) ==
    /\ In(c, "preload") /\ \A t \in WorkersOf[c] : At(t, "idle")
    /\ ref' = {[row EXCEPT !.thumb = row.photo \in load[c].thumbs] : row \in load[c].items}
    /\ photos' = ref'
    /\ load' = [load EXCEPT ![c] = NoLoad]
    /\ UNCHANGED <<media, calls, currentDir, listening, enriching, overlapped>>

-----------------------------------------------------------------------------
(* enrichVideoDurations.                                                     *)

Measured(rows, p) ==
    {IF row.photo = p THEN [row EXCEPT !.duration = TRUE] ELSE row : row \in rows}

\* A length is told although the enrichment was cancelled meanwhile; ffprobe
\* may fail.
GetDuration(c, p) ==
    /\ p \in enrichment[c].left
    /\ enrichment' = [enrichment EXCEPT ![c].left = @ \ {p}]
    /\ \/ /\ IF listening THEN ref' = Measured(ref, p) /\ photos' = Measured(photos, p)
                          ELSE UNCHANGED <<ref, photos>>
          /\ Calm
       \/ UNCHANGED <<ref, photos>> /\ Disturb
    /\ UNCHANGED <<kind, version, files, job, leader, calls, currentDir, listening, load,
                   enrichCancel, overlapped>>

\* All workers have returned: video-duration-complete removes the listeners,
\* cancelled or not.
EnrichmentEnds(c) ==
    /\ enrichment[c].on /\ enrichment[c].left = {}
    /\ enrichment' = [enrichment EXCEPT ![c] = NoEnrichment]
    /\ listening' = FALSE
    /\ UNCHANGED <<media, calls, currentDir, ref, photos, load, enrichCancel, overlapped>>

-----------------------------------------------------------------------------

Generate(t) == GenerateThumbnail(t) /\ UNCHANGED view
Serve(r) == ServeHTTP(r) /\ UNCHANGED view
Ask(r, p) ==
    /\ FolderOf[p] = currentDir /\ Calls(1) /\ Request(r, p)
    /\ UNCHANGED <<currentDir, ref, photos, listening, load, enriching, overlapped>>
Modify(p) == Edit(p) /\ UNCHANGED view
Crash ==
    /\ MediaCrash /\ UNCHANGED calls
    /\ currentDir' = None /\ ref' = {} /\ photos' = {} /\ listening' = FALSE
    /\ load' = [c \in Loads |-> NoLoad]
    /\ enrichment' = [c \in Loads |-> NoEnrichment]
    /\ enrichCancel' = None /\ overlapped' = FALSE

LoadSteps(c) ==
    \/ ScanFile(c) \/ ScanReturns(c) \/ Scanned(c) \/ Preload(c) \/ PreloadReturns(c)
    \/ \E t \in WorkersOf[c] : Take(c, t)
EnrichmentSteps(c) ==
    EnrichmentEnds(c) \/ \E p \in Photos : GetDuration(c, p)

Next ==
    \/ \E c \in Loads, d \in Folders : LoadDirectory(c, d)
    \/ \E c \in Loads : LoadSteps(c) \/ LoadFails(c) \/ EnrichmentSteps(c)
    \/ \E t \in Workers : Generate(t)
    \/ \E r \in Requests : Serve(r) \/ \E p \in DOMAIN kind : Ask(r, p)
    \/ \E p \in DOMAIN kind : Modify(p)
    \/ Crash

Spec == Init /\ [][Next]_vars

-----------------------------------------------------------------------------

\* Once the loads have ended, the grid shows the photos of the folder the window
\* names and no others, unless a load was overtaken by another: then the rows
\* of the overtaken one may be the last to be shown.
GridIsCurrent ==
    (Loading = {} /\ ~overlapped /\ currentDir # None) =>
        {row.photo : row \in photos} = Photos0(currentDir)

\* A later load's enrichment may take the place of an earlier one's at any time:
\* while it measures, the listener its load has registered stays.
MeasuringIsHeard ==
    [][(/\ listening /\ currentDir' = currentDir
        /\ \E c \in Loads : c = enrichCancel /\ enrichment'[c].left # {})
         => listening']_vars

\* The scan has begun the measuring, so the batch of thumbnails need not: a
\* length known for a row of the folder stays known.
DurationsStay ==
    [][\A p \in Photos :
         (/\ \E row \in ref : row.photo = p /\ row.duration
          /\ \E row \in ref' : row.photo = p)
            => \E row \in ref' : row.photo = p /\ row.duration]_vars
=============================================================================
