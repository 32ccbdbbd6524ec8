------------------------------ MODULE AIAnalysis ------------------------------
(***************************************************************************)
(* The AI analysis of a folder: RunAIAnalysis and its pipeline, the        *)
(* scoring workers, the clustering of faces, CancelAIAnalysis and          *)
(* ClearAIData of app/ai_methods.go over the tables ai_scores,             *)
(* face_detections and face_clusters, with the buttons of the frontend     *)
(* that call them.                                                         *)
(*                                                                         *)
(* An analysis in progress is a run.  The Analyze button is disabled while *)
(* one is shown, the Re-analyze button of the banner about outdated scores *)
(* is not, so a run can begin while its predecessor winds down.  The       *)
(* tables survive a crash, everything else is lost.                        *)
(*                                                                         *)
(* The content of a photo is the number of its last edit.  Every photo     *)
(* shows one person's face, and faces are of one cluster exactly when they *)
(* are the same person's.  Scores, weights, progress events and the VLM    *)
(* stages, which write other tables, are left out; the reads of a          *)
(* clustering, which follow one another, are one step.                     *)
(***************************************************************************)
EXTENDS Integers, FiniteSets

CONSTANTS
    Photos,         \* the photos of the folder
    PersonOf,       \* whom a photo shows
    Runs,           \* bound: runs at the same time
    NoRun,          \* no cancel function
    NoPhoto,        \* the photo of an unused row of face_detections
    Workers,        \* workerCount
    MaxVersion,     \* bound: the last edit of a photo
    MaxDetections,  \* bound: ids of face detections in use
    MaxClusters,    \* bound: ids of face clusters in use
    MaxDisturbances \* bound: edits, failures, cancellations, crashes and
                    \* requests during a run in a behaviour

ASSUME Names == NoRun \notin Runs /\ NoPhoto \notin Photos
ASSUME BoundsAreNumbers ==
    /\ Workers \in Nat \ {0} /\ MaxVersion \in Nat \ {0}
    /\ MaxDetections \in Nat /\ MaxClusters \in Nat
    /\ MaxDisturbances \in Nat
ASSUME FinitelyManyPhotos == IsFiniteSet(Photos)

Versions == 1 .. MaxVersion
Detections == 1 .. MaxDetections
Clusters == 1 .. MaxClusters

\* A NULL cluster_id.
Null == 0

VARIABLES
    disturbances,   \* how many of them there have been
    version,        \* the content of every photo
    score,          \* ai_scores: the version a photo's row was made from, or 0
    dated,          \* the photos not modified after scored_at of their row
    photoOf,        \* face_detections: photo_path
    clusterOf,      \* face_detections: cluster_id
    photoCount,     \* face_clusters: photo_count, 0 if there is no row
    request,        \* what the frontend waits for: "run", "clear" and then
                    \* "rerun", or "none"
    isAnalyzing,    \* App.tsx: isAnalyzing
    analysisCancel, \* App.analysisCancel: the run it cancels
    pc,             \* where every run is
    cancelled,      \* its context
    todo,           \* the photos it still has to filter, or to score
    toScore,        \* what the filter has kept so far
    hand,           \* the version of a photo a worker of the run scores, or 0
    saved,          \* the photos whose score is saved and whose face is not
    groups,         \* clustering: the clusters still to save
    faces,          \* the detections still to assign to the last one saved
    cluster,        \* its id
    excused,        \* history: the photos edited, failed or cleared under a run
    raced,          \* history: the photos edited while in hand
    tidy,           \* history: nobody but the run has touched the faces since
                    \* it deleted the clusters, and it has not failed there
    silent          \* history: a run ended without an event

rows == <<photoOf, clusterOf, photoCount>>
tables == <<score, dated, rows>>
front == <<request, isAnalyzing>>
context == <<analysisCancel, cancelled>>
scoring == <<todo, toScore, hand, saved>>
clustering == <<groups, faces, cluster>>
history == <<excused, raced, tidy, silent>>
world == <<disturbances, version>>
vars == <<world, tables, front, context, pc, scoring, clustering, history>>

Steps == {"idle", "scanning", "filtering", "scoring", "deleting", "loading",
          "saving"}

TypeOK ==
    /\ disturbances \in 0 .. MaxDisturbances
    /\ version \in [Photos -> Versions]
    /\ score \in [Photos -> Versions \cup {0}]
    /\ dated \in SUBSET {p \in Photos : score[p] > 0}
    /\ photoOf \in [Detections -> Photos \cup {NoPhoto}]
    /\ clusterOf \in [Detections -> Clusters \cup {Null}]
    /\ \A d \in Detections : photoOf[d] = NoPhoto => clusterOf[d] = Null
    /\ photoCount \in [Clusters -> 0 .. MaxDetections]
    /\ request \in {"none", "run", "clear", "rerun"}
    /\ isAnalyzing \in BOOLEAN
    /\ analysisCancel \in Runs \cup {NoRun}
    /\ pc \in [Runs -> Steps]
    /\ cancelled \in [Runs -> BOOLEAN]
    /\ todo \in [Runs -> SUBSET Photos]
    /\ toScore \in [Runs -> SUBSET Photos]
    /\ saved \in [Runs -> SUBSET Photos]
    /\ excused \in [Runs -> SUBSET Photos]
    /\ hand \in [Runs -> [Photos -> Versions \cup {0}]]
    /\ groups \in [Runs -> SUBSET SUBSET Detections]
    /\ faces \in [Runs -> SUBSET Detections]
    /\ cluster \in [Runs -> Clusters \cup {Null}]
    /\ raced \in SUBSET Photos
    /\ tidy \in [Runs -> BOOLEAN]
    /\ silent \in BOOLEAN

Running(r) == pc[r] # "idle"
InHand(r) == {p \in Photos : hand[r][p] > 0}
AtWork(r) == InHand(r) \cup saved[r]
NothingInHand == [p \in Photos |-> 0]
Nothing == [r \in Runs |-> {}]

Init ==
    /\ disturbances = 0
    /\ version = [p \in Photos |-> 1]
    /\ score = [p \in Photos |-> 0]
    /\ dated = {}
    /\ photoOf = [d \in Detections |-> NoPhoto]
    /\ clusterOf = [d \in Detections |-> Null]
    /\ photoCount = [c \in Clusters |-> 0]
    /\ request = "none" /\ isAnalyzing = FALSE
    /\ analysisCancel = NoRun
    /\ pc = [r \in Runs |-> "idle"]
    /\ cancelled = [r \in Runs |-> FALSE]
    /\ todo = Nothing /\ toScore = Nothing /\ saved = Nothing
    /\ hand = [r \in Runs |-> NothingInHand]
    /\ groups = Nothing /\ faces = Nothing
    /\ cluster = [r \in Runs |-> Null]
    /\ excused = Nothing /\ raced = {}
    /\ tidy = [r \in Runs |-> FALSE]
    /\ silent = FALSE

Goto(r, s) == pc' = [pc EXCEPT ![r] = s]

Disturb ==
    /\ disturbances < MaxDisturbances
    /\ disturbances' = disturbances + 1

\* The faces change under every other run.
Untidy(r) == tidy' = [q \in Runs |-> q = r /\ tidy[q]]

\* The goroutine of a run ends; its deferred cancel has nothing left to stop.
End(r) ==
    /\ Goto(r, "idle")
    /\ cancelled' = [cancelled EXCEPT ![r] = FALSE]
    /\ todo' = [todo EXCEPT ![r] = {}]
    /\ toScore' = [toScore EXCEPT ![r] = {}]
    /\ excused' = [excused EXCEPT ![r] = {}]
    /\ tidy' = [tidy EXCEPT ![r] = FALSE]

-----------------------------------------------------------------------------
(* The frontend and the methods it calls.                                   *)

\* A request made while a run is in progress counts as a disturbance.
Requested ==
    IF \E r \in Runs : Running(r) THEN Disturb ELSE UNCHANGED disturbances

\* onAnalyze: the button is disabled while isAnalyzing.
Analyze ==
    /\ ~isAnalyzing /\ request = "none"
    /\ Requested
    /\ request' = "run" /\ isAnalyzing' = TRUE
    /\ silent' = FALSE
    /\ UNCHANGED <<version, tables, context, pc, scoring, clustering, excused,
                   raced, tidy>>

\* handleReanalyze, from the banner of the AI panel, at any time.
Reanalyze ==
    /\ request = "none"
    /\ Requested
    /\ request' = "clear" /\ isAnalyzing' = TRUE
    /\ silent' = FALSE
    /\ UNCHANGED <<version, tables, context, pc, scoring, clustering, excused,
                   raced, tidy>>

\* DeleteAIDataForFolder, in one transaction.
ClearAIData ==
    /\ request = "clear"
    /\ score' = [p \in Photos |-> 0] /\ dated' = {}
    /\ photoOf' = [d \in Detections |-> NoPhoto]
    /\ clusterOf' = [d \in Detections |-> Null]
    /\ photoCount' = [c \in Clusters |-> 0]
    /\ request' = "rerun"
    /\ excused' = [r \in Runs |-> IF Running(r) THEN Photos ELSE {}]
    /\ tidy' = [r \in Runs |-> FALSE]
    /\ UNCHANGED <<world, isAnalyzing, context, pc, scoring, clustering, raced,
                   silent>>

\* The transaction fails, or there are no plugins: the catch of the promise.
RequestFails ==
    /\ Disturb
    /\ request # "none"
    /\ request' = "none" /\ isAnalyzing' = FALSE
    /\ UNCHANGED <<version, tables, context, pc, scoring, clustering, history>>

\* Whether a run's context is cancelled once analysisCancel has been called.
CancelledNow(r) == cancelled[r] \/ (r = analysisCancel /\ Running(r))

\* Mutant of RunAIAnalysis: the run in progress is not cancelled.
RunBesideAnother(r) ==
    /\ request \in {"run", "rerun"} /\ ~Running(r)
    /\ request' = "none"
    /\ cancelled' = [cancelled EXCEPT ![r] = FALSE]
    /\ analysisCancel' = r
    /\ Goto(r, "scanning")
    /\ UNCHANGED <<world, tables, isAnalyzing, scoring, clustering, history>>

\* The critical section of analysisMu, and go.
RunAIAnalysis(r) ==
    /\ request \in {"run", "rerun"} /\ ~Running(r)
    /\ request' = "none"
    /\ cancelled' = [q \in Runs |-> q # r /\ CancelledNow(q)]
    /\ analysisCancel' = r
    /\ Goto(r, "scanning")
    /\ UNCHANGED <<world, tables, isAnalyzing, scoring, clustering, history>>

CancelAIAnalysis ==
    /\ Disturb
    /\ analysisCancel # NoRun
    /\ cancelled' = [q \in Runs |-> CancelledNow(q)]
    /\ analysisCancel' = NoRun
    /\ UNCHANGED <<version, tables, front, pc, scoring, clustering, history>>

-----------------------------------------------------------------------------
(* The pipeline: scan, filter, score.                                       *)

Scan(r) ==
    /\ pc[r] = "scanning"
    /\ Goto(r, "filtering")
    /\ todo' = [todo EXCEPT ![r] = Photos]
    /\ UNCHANGED <<world, tables, front, context, toScore, hand, saved,
                   clustering, history>>

\* The directory cannot be read: ai:error.
ScanFails(r) ==
    /\ Disturb
    /\ pc[r] = "scanning"
    /\ End(r)
    /\ isAnalyzing' = FALSE
    /\ UNCHANGED <<version, tables, request, analysisCancel, hand, saved,
                   clustering, raced, silent>>

\* Photos that go on to the scoring; without any the clustering follows at once.
Filtered(r, p, keep) ==
    LET left == todo[r] \ {p}
        kept == IF keep THEN toScore[r] \cup {p} ELSE toScore[r]
    IN  /\ toScore' = [toScore EXCEPT ![r] = IF left = {} THEN {} ELSE kept]
        /\ todo' = [todo EXCEPT ![r] = IF left = {} THEN kept ELSE left]
        /\ Goto(r, IF left # {} THEN "filtering"
                   ELSE IF kept = {} THEN "deleting" ELSE "scoring")

\* Mutant of FilterPhoto: whoever has a row is skipped.
FilterByRow(r, p) ==
    /\ pc[r] = "filtering" /\ p \in todo[r] /\ ~cancelled[r]
    /\ Filtered(r, p, score[p] = 0)
    /\ UNCHANGED <<world, tables, front, context, hand, saved, clustering,
                   history>>

\* A photo with a row is skipped if it was not modified after scored_at.
FilterPhoto(r, p) ==
    /\ pc[r] = "filtering" /\ p \in todo[r] /\ ~cancelled[r]
    /\ Filtered(r, p, score[p] = 0 \/ p \notin dated)
    /\ UNCHANGED <<world, tables, front, context, hand, saved, clustering,
                   history>>

\* The row or the file cannot be read: the photo is scored again.
FilterFails(r, p) ==
    /\ Disturb
    /\ pc[r] = "filtering" /\ p \in todo[r] /\ ~cancelled[r]
    /\ Filtered(r, p, TRUE)
    /\ UNCHANGED <<version, tables, front, context, hand, saved, clustering,
                   history>>

\* The filter of a cancelled run returns, and tells nobody.
FilterStops(r) ==
    /\ pc[r] = "filtering" /\ cancelled[r]
    /\ End(r)
    /\ silent' = (silent \/ (request = "none"
                               /\ \A q \in Runs \ {r} : ~Running(q)))
    /\ UNCHANGED <<world, tables, front, analysisCancel, hand, saved,
                   clustering, raced>>

\* A worker of a run that is not cancelled opens the next photo.
TakePhoto(r, p) ==
    /\ pc[r] = "scoring" /\ p \in todo[r] /\ ~cancelled[r]
    /\ Cardinality(AtWork(r)) < Workers
    /\ todo' = [todo EXCEPT ![r] = @ \ {p}]
    /\ hand' = [hand EXCEPT ![r][p] = version[p]]
    /\ UNCHANGED <<world, tables, front, context, pc, toScore, saved,
                   clustering, history>>

\* Opening, decoding or the plugins fail; they do when the run is cancelled.
PhotoFails(r, p) ==
    /\ p \in InHand(r)
    /\ \/ cancelled[r] /\ UNCHANGED <<disturbances, excused>>
       \/ /\ ~cancelled[r] /\ Disturb
          /\ excused' = [excused EXCEPT ![r] = @ \cup {p}]
    /\ hand' = [hand EXCEPT ![r][p] = 0]
    /\ UNCHANGED <<version, tables, front, context, pc, todo, toScore, saved,
                   clustering, raced, tidy, silent>>

\* The worker goes on to the face of the photo.
ToFaces(r, p) ==
    /\ hand' = [hand EXCEPT ![r][p] = 0]
    /\ saved' = [saved EXCEPT ![r] = @ \cup {p}]

\* The pipeline has ended without an error; scored_at is now.
SaveAIScore(r, p) ==
    /\ p \in InHand(r)
    /\ score' = [score EXCEPT ![p] = hand[r][p]]
    /\ dated' = dated \cup {p}
    /\ ToFaces(r, p)
    /\ tidy' = [q \in Runs |-> FALSE]
    /\ UNCHANGED <<world, rows, front, context, pc, todo, toScore,
                   clustering, excused, raced, silent>>

\* A failure is logged, and the faces are saved all the same.
SaveAIScoreFails(r, p) ==
    /\ Disturb
    /\ p \in InHand(r)
    /\ ToFaces(r, p)
    /\ excused' = [excused EXCEPT ![r] = @ \cup {p}]
    /\ UNCHANGED <<version, tables, front, context, pc, todo, toScore,
                   clustering, raced, tidy, silent>>

\* One of the free ids, which AUTOINCREMENT never gives out twice: no row and
\* no run knows it.
FreeDetections ==
    {d \in Detections : photoOf[d] = NoPhoto
       /\ \A r \in Runs : d \notin (UNION groups[r]) \cup faces[r]}
FreeClusters ==
    {c \in Clusters : /\ photoCount[c] = 0
                      /\ \A d \in Detections : clusterOf[d] # c
                      /\ \A r \in Runs : cluster[r] # c}
IsNext(i, ids) == i \in ids /\ \A j \in ids : i <= j

SaveFaceDetection(r, p) ==
    /\ p \in saved[r]
    /\ \E d \in Detections :
         /\ IsNext(d, FreeDetections)
         /\ photoOf' = [photoOf EXCEPT ![d] = p]
    /\ saved' = [saved EXCEPT ![r] = @ \ {p}]
    /\ tidy' = [q \in Runs |-> FALSE]
    /\ UNCHANGED <<world, score, dated, clusterOf, photoCount, front, context,
                   pc, todo, toScore, hand, clustering, excused, raced, silent>>

SaveFaceDetectionFails(r, p) ==
    /\ Disturb
    /\ p \in saved[r]
    /\ saved' = [saved EXCEPT ![r] = @ \ {p}]
    /\ UNCHANGED <<version, tables, front, context, pc, todo, toScore, hand,
                   clustering, history>>

\* wg.Wait returns after the last photo.
ScoringEnds(r) ==
    /\ pc[r] = "scoring" /\ AtWork(r) = {} /\ todo[r] = {}
    /\ ~cancelled[r]
    /\ Goto(r, "deleting")
    /\ UNCHANGED <<world, tables, front, context, scoring, clustering, history>>

\* Mutant of ScoringIsCancelled: the frontend is not told.
ScoringIsDropped(r) ==
    /\ pc[r] = "scoring" /\ AtWork(r) = {}
    /\ cancelled[r]
    /\ End(r)
    /\ UNCHANGED <<world, tables, front, analysisCancel, hand, saved,
                   clustering, raced, silent>>

\* The workers have seen the cancellation: ai:error, "Analysis cancelled".
ScoringIsCancelled(r) ==
    /\ pc[r] = "scoring" /\ AtWork(r) = {}
    /\ cancelled[r]
    /\ End(r)
    /\ isAnalyzing' = FALSE
    /\ UNCHANGED <<world, tables, request, analysisCancel, hand, saved,
                   clustering, raced, silent>>

-----------------------------------------------------------------------------
(* The clustering, which no cancellation stops.                             *)

\* Mutant of DeleteFaceClusters: the old clusters stay.
DeleteFaceClustersNot(r) ==
    /\ pc[r] = "deleting"
    /\ clusterOf' = [d \in Detections |-> Null]
    /\ tidy' = [q \in Runs |-> q = r]
    /\ Goto(r, "loading")
    /\ UNCHANGED <<world, score, dated, photoOf, photoCount, front, context,
                   scoring, clustering, excused, raced, silent>>

\* DeleteFaceClustersForFolder, in one transaction.
DeleteFaceClusters(r) ==
    /\ pc[r] = "deleting"
    /\ clusterOf' = [d \in Detections |->
                       IF clusterOf[d] # Null /\ photoCount[clusterOf[d]] > 0
                       THEN Null ELSE clusterOf[d]]
    /\ photoCount' = [c \in Clusters |-> 0]
    /\ tidy' = [q \in Runs |-> q = r]
    /\ Goto(r, "loading")
    /\ UNCHANGED <<world, score, dated, photoOf, front, context, scoring,
                   clustering, excused, raced, silent>>

DeleteFaceClustersFails(r) ==
    /\ Disturb
    /\ pc[r] = "deleting"
    /\ Goto(r, "loading")
    /\ UNCHANGED <<version, tables, front, context, scoring, clustering,
                   history>>

\* The detections of the photos with a score, one cluster for every person.
ClustersOf(known) ==
    LET loaded == {d \in Detections : photoOf[d] \in known /\ score[photoOf[d]] > 0}
        Same(d) == {e \in loaded : PersonOf[photoOf[e]] = PersonOf[photoOf[d]]}
    IN  {Same(d) : d \in loaded}

LoadAndCluster(r) ==
    /\ pc[r] = "loading"
    /\ groups' = [groups EXCEPT ![r] = ClustersOf(Photos)]
    /\ Goto(r, "saving")
    /\ UNCHANGED <<world, tables, front, context, scoring, faces, cluster,
                   history>>

\* The faces of some photos, or all scores, cannot be read.
LoadFails(r) ==
    /\ Disturb
    /\ pc[r] = "loading"
    /\ \E known \in SUBSET Photos :
         groups' = [groups EXCEPT ![r] = ClustersOf(known)]
    /\ Goto(r, "saving")
    /\ tidy' = [tidy EXCEPT ![r] = FALSE]
    /\ UNCHANGED <<version, tables, front, context, scoring, faces, cluster,
                   excused, raced, silent>>

SaveFaceCluster(r, g) ==
    /\ pc[r] = "saving" /\ faces[r] = {} /\ g \in groups[r]
    /\ \E c \in Clusters :
         /\ IsNext(c, FreeClusters)
         /\ cluster' = [cluster EXCEPT ![r] = c]
         /\ photoCount' = [photoCount EXCEPT ![c] = Cardinality(g)]
    /\ groups' = [groups EXCEPT ![r] = @ \ {g}]
    /\ faces' = [faces EXCEPT ![r] = g]
    /\ Untidy(r)
    /\ UNCHANGED <<world, score, dated, photoOf, clusterOf, front, context, pc,
                   scoring, excused, raced, silent>>

SaveFaceClusterFails(r, g) ==
    /\ Disturb
    /\ pc[r] = "saving" /\ faces[r] = {} /\ g \in groups[r]
    /\ groups' = [groups EXCEPT ![r] = @ \ {g}]
    /\ tidy' = [tidy EXCEPT ![r] = FALSE]
    /\ UNCHANGED <<version, tables, front, context, pc, scoring, faces, cluster,
                   excused, raced, silent>>

\* The row may be gone.  The foreign key is enforced on one connection of the
\* pool only, so a cluster that is gone may be assigned or not.
AssignFaceToCluster(r, d) ==
    /\ d \in faces[r]
    /\ faces' = [faces EXCEPT ![r] = @ \ {d}]
    /\ \/ /\ photoOf[d] # NoPhoto
          /\ clusterOf' = [clusterOf EXCEPT ![d] = cluster[r]]
       \/ /\ photoOf[d] = NoPhoto \/ photoCount[cluster[r]] = 0
          /\ UNCHANGED clusterOf
    /\ Untidy(r)
    /\ UNCHANGED <<world, score, dated, photoOf, photoCount, front, context, pc,
                   scoring, groups, cluster, excused, raced, silent>>

AssignFails(r, d) ==
    /\ Disturb
    /\ d \in faces[r]
    /\ faces' = [faces EXCEPT ![r] = @ \ {d}]
    /\ tidy' = [tidy EXCEPT ![r] = FALSE]
    /\ UNCHANGED <<version, tables, front, context, pc, scoring, groups,
                   cluster, excused, raced, silent>>

Clustered(r) == pc[r] = "saving" /\ faces[r] = {} /\ groups[r] = {}

\* The VLM stages, if there was anything to score, and ai:complete.
Complete(r) ==
    /\ Clustered(r)
    /\ End(r)
    /\ isAnalyzing' = FALSE
    /\ cluster' = [cluster EXCEPT ![r] = Null]
    /\ UNCHANGED <<world, tables, request, analysisCancel, hand, saved, groups,
                   faces, raced, silent>>

-----------------------------------------------------------------------------
(* The user and the machine.                                                *)

\* Another program writes the file: its modification time is now.
Edit(p) ==
    /\ Disturb
    /\ version[p] < MaxVersion
    /\ version' = [version EXCEPT ![p] = @ + 1]
    /\ dated' = dated \ {p}
    /\ excused' = [r \in Runs |-> IF Running(r) THEN excused[r] \cup {p} ELSE {}]
    /\ raced' = IF \E r \in Runs : p \in InHand(r)
                THEN raced \cup {p} ELSE raced \ {p}
    /\ UNCHANGED <<score, rows, front, context, pc, scoring, clustering, tidy,
                   silent>>

Crash ==
    /\ Disturb
    /\ request' = "none" /\ isAnalyzing' = FALSE
    /\ analysisCancel' = NoRun
    /\ pc' = [r \in Runs |-> "idle"]
    /\ cancelled' = [r \in Runs |-> FALSE]
    /\ todo' = Nothing /\ toScore' = Nothing /\ saved' = Nothing
    /\ hand' = [r \in Runs |-> NothingInHand]
    /\ groups' = Nothing /\ faces' = Nothing
    /\ cluster' = [r \in Runs |-> Null]
    /\ excused' = Nothing
    /\ tidy' = [r \in Runs |-> FALSE]
    /\ silent' = FALSE
    /\ UNCHANGED <<version, tables, raced>>

Filter(r) ==
    \/ \E p \in Photos : FilterPhoto(r, p) \/ FilterFails(r, p)
    \/ FilterStops(r)

Work(r, p) ==
    \/ TakePhoto(r, p) \/ PhotoFails(r, p)
    \/ SaveAIScore(r, p) \/ SaveAIScoreFails(r, p)
    \/ SaveFaceDetection(r, p) \/ SaveFaceDetectionFails(r, p)

Score(r) ==
    \/ \E p \in Photos : Work(r, p)
    \/ ScoringEnds(r) \/ ScoringIsCancelled(r)

RunFaceClustering(r) ==
    \/ DeleteFaceClusters(r) \/ DeleteFaceClustersFails(r)
    \/ LoadAndCluster(r) \/ LoadFails(r)
    \/ \E g \in SUBSET Detections :
         SaveFaceCluster(r, g) \/ SaveFaceClusterFails(r, g)
    \/ \E d \in Detections : AssignFaceToCluster(r, d) \/ AssignFails(r, d)

RunStep(r) ==
    \/ Scan(r) \/ ScanFails(r)
    \/ Filter(r) \/ Score(r) \/ RunFaceClustering(r) \/ Complete(r)

Next ==
    \/ Analyze \/ Reanalyze \/ ClearAIData \/ RequestFails
    \/ \E r \in Runs : RunAIAnalysis(r) \/ RunStep(r)
    \/ CancelAIAnalysis
    \/ \E p \in Photos : Edit(p)
    \/ Crash

Spec == Init /\ [][Next]_vars

-----------------------------------------------------------------------------
(* Properties.                                                              *)

\* RunAIAnalysis cancels the run before it, under analysisMu: of two runs at
\* work one is cancelled, and analysisCancel reaches the other, so Cancel does.
OneLiveRun ==
    \A r \in Runs : Running(r) /\ ~cancelled[r] => analysisCancel = r

\* A run that has got past its scoring has left no photo of the folder without
\* a score of its present content, whatever runs it overtook; but for photos
\* edited, failed or cleared meanwhile, and those edited while a worker of any
\* run had them in hand (see SkippedScoresAreCurrent).
Scored(r) == pc[r] \in {"deleting", "loading", "saving"}
ScoredRunsAreThorough ==
    \A r \in Runs : Scored(r) =>
      \A p \in Photos \ (excused[r] \cup raced) : score[p] = version[p]

ScoredFaces == {d \in Detections : photoOf[d] # NoPhoto /\ score[photoOf[d]] > 0}
FacesOf(c) == {d \in Detections : photoOf[d] # NoPhoto /\ clusterOf[d] = c}

\* A clustering nobody disturbed leaves one cluster for every person of the
\* scored photos, with all the person's faces and their right number, whatever
\* an earlier run or a crash had left in the tables.
ClustersAreExact ==
    \A r \in Runs : Clustered(r) /\ tidy[r] =>
      /\ \A c \in Clusters : photoCount[c] = Cardinality(FacesOf(c))
      /\ \A d \in ScoredFaces : clusterOf[d] # Null
      /\ \A d, e \in ScoredFaces :
           clusterOf[d] = clusterOf[e] <=> PersonOf[photoOf[d]] = PersonOf[photoOf[e]]

\* The frontend shows an analysis only while a request or a run is on its way
\* to an event that ends it; but for the run cancelled while it filters, after
\* which the Analyze button stays disabled.
ShownMeansRunning ==
    isAnalyzing => request # "none" \/ silent \/ \E r \in Runs : Running(r)

\* A run at work can always take its next step, and each step brings it nearer
\* to its end: a cancellation, a failure or another run never leaves wg.Wait, or
\* the loops over clusters and faces, waiting.
RunsNeverStick == \A r \in Runs : Running(r) => ENABLED RunStep(r)

\* ai_methods.go:354: "Already scored and file hasn't changed -- skip."  Not so
\* for the photo edited after a worker opened it and before its score was saved:
\* scored_at is the time of the save.
SkippedScoresAreCurrent ==
    \A p \in dated : score[p] > 0 => score[p] = version[p]

\* ai_methods.go:172: "so the next RunAIAnalysis re-processes every photo".  Not
\* so when a run is in progress, which goes on saving scores after the deletion.
ReanalysisIsFull ==
    [][\A r \in Runs : request = "rerun" /\ ~Running(r) /\ Running(r)' =>
         \A p \in Photos : score[p] = 0]_vars

\* ai_methods.go:1096: "Delete existing clusters for this folder so they don't
\* accumulate on re-run".  Not so when a clustering that nothing cancels is still
\* in progress.
ClustersDoNotAccumulate ==
    (\A r \in Runs : ~Running(r)) =>
      Cardinality({c \in Clusters : photoCount[c] > 0})
        <= Cardinality({PersonOf[p] : p \in Photos})

\* Sidebar.tsx:169: the button is disabled while an analysis is in progress.  Not
\* so when the run before it ends later and takes isAnalyzing back.
RunningMeansShown ==
    \A r \in Runs : Running(r) /\ ~cancelled[r] => isAnalyzing
=============================================================================
