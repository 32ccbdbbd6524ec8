--------------------------- MODULE AIAnalysisProofs ---------------------------
(***************************************************************************)
(* What AIAnalysis guarantees for every number of photos, runs, workers    *)
(* and rows: the types always, that at most one run is live and Cancel     *)
(* reaches it (OneLiveRun), that the frontend shows an analysis only while *)
(* something will end it (ShownMeansRunning), that a run leaves no photo   *)
(* behind (ScoredRunsAreThorough), and that a clustering nothing disturbs  *)
(* splits the faces exactly (ClustersAreExact).                            *)
(*                                                                         *)
(* And what ScoringPipeline guarantees for one photo, for every number of  *)
(* plugins and faces: only a cancellation leaves it without a score        *)
(* (OnlyCancellationFails), a score is made from all that was reported     *)
(* (ScoresAreComplete), and faces get their own embeddings as long as none *)
(* was skipped (UnskippedVectorsMatch).                                    *)
(*                                                                         *)
(* And what FaceClustering guarantees for any number of faces and any      *)
(* similarity: the clusters split the faces (FacesAreSplit), and no two of *)
(* those that are returned should have been merged (ClustersAreApart).     *)
(***************************************************************************)
EXTENDS AIAnalysis, ScoringPipeline, FaceClustering, FiniteSetTheorems, SequenceTheorems,
        TLAPS

\* What a cluster counts fits the column.
LEMMA CountType ==
    ASSUME NEW g \in SUBSET Detections
    PROVE  Cardinality(g) \in 0 .. MaxDetections
<1>1. /\ IsFiniteSet(Detections)
      /\ Cardinality(Detections) = MaxDetections
  <2>1. MaxDetections \in Nat
    BY BoundsAreNumbers
  <2> QED
    BY <2>1, FS_Interval DEF Detections
<1>2. /\ IsFiniteSet(g)
      /\ Cardinality(g) <= Cardinality(Detections)
  BY <1>1, FS_Subset
<1>3. Cardinality(g) \in Nat
  BY <1>2, FS_CardinalityType
<1> QED
  BY <1>1, <1>2, <1>3, BoundsAreNumbers

LEMMA InitTypeOK == Init => TypeOK
<1> SUFFICES ASSUME Init PROVE TypeOK
  OBVIOUS
<1>1. /\ 1 \in Versions /\ MaxDetections \in Nat /\ MaxDisturbances \in Nat
  BY BoundsAreNumbers DEF Versions
<1>2. isAnalyzing \in BOOLEAN /\ silent \in BOOLEAN
  BY DEF Init
<1>3. /\ version \in [Photos -> Versions] /\ score \in [Photos -> Versions \cup {0}]
      /\ hand \in [Runs -> [Photos -> Versions \cup {0}]]
  BY <1>1 DEF Init, NothingInHand
<1>4. /\ photoOf \in [Detections -> Photos \cup {NoPhoto}]
      /\ clusterOf \in [Detections -> Clusters \cup {Null}]
      /\ \A d \in Detections : photoOf[d] = NoPhoto => clusterOf[d] = Null
      /\ photoCount \in [Clusters -> 0 .. MaxDetections]
  BY <1>1 DEF Init
<1>5. /\ groups \in [Runs -> SUBSET SUBSET Detections]
      /\ faces \in [Runs -> SUBSET Detections]
      /\ cluster \in [Runs -> Clusters \cup {Null}]
  BY DEF Init, Nothing
<1> QED
  BY <1>1, <1>2, <1>3, <1>4, <1>5 DEF Init, TypeOK, Nothing, Steps

-------------------------------------------------------------------------------
(* The types, one lemma for each part of the next-state relation.            *)

LEMMA EndTypes ==
    ASSUME TypeOK, NEW r \in Runs, End(r)
    PROVE  /\ pc' \in [Runs -> Steps] /\ cancelled' \in [Runs -> BOOLEAN]
           /\ todo' \in [Runs -> SUBSET Photos]
           /\ toScore' \in [Runs -> SUBSET Photos]
           /\ excused' \in [Runs -> SUBSET Photos]
           /\ tidy' \in [Runs -> BOOLEAN]
BY DEF TypeOK, End, Goto, Steps

\* The buttons and the methods they call.
LEMMA RequestTypes ==
    ASSUME TypeOK,
           \/ Analyze \/ Reanalyze \/ ClearAIData \/ RequestFails
           \/ CancelAIAnalysis \/ \E r \in Runs : RunAIAnalysis(r)
    PROVE  TypeOK'
<1> USE BoundsAreNumbers DEF TypeOK, Steps, Goto, world, tables, rows, front,
        context, scoring, clustering, history
<1>1. CASE Analyze
  <2>1. isAnalyzing' \in BOOLEAN /\ silent' \in BOOLEAN
    BY <1>1 DEF Analyze
  <2>2. disturbances' \in 0 .. MaxDisturbances
    BY <1>1 DEF Analyze, Requested, Disturb
  <2> QED
    BY <1>1, <2>1, <2>2 DEF Analyze
<1>2. CASE Reanalyze
  <2>1. isAnalyzing' \in BOOLEAN /\ silent' \in BOOLEAN
    BY <1>2 DEF Reanalyze
  <2>2. disturbances' \in 0 .. MaxDisturbances
    BY <1>2 DEF Reanalyze, Requested, Disturb
  <2> QED
    BY <1>2, <2>1, <2>2 DEF Reanalyze
<1>3. CASE ClearAIData
  BY <1>3 DEF ClearAIData, Null
<1>4. CASE RequestFails
  <2>1. isAnalyzing' \in BOOLEAN
    BY <1>4 DEF RequestFails
  <2>2. disturbances' \in 0 .. MaxDisturbances
    BY <1>4 DEF RequestFails, Disturb
  <2> QED
    BY <1>4, <2>1, <2>2 DEF RequestFails
<1>5. CASE CancelAIAnalysis
  BY <1>5 DEF CancelAIAnalysis, Disturb, CancelledNow, Running
<1>6. ASSUME NEW r \in Runs, RunAIAnalysis(r) PROVE TypeOK'
  BY <1>6 DEF RunAIAnalysis, CancelledNow, Running
<1> QED
  BY <1>1, <1>2, <1>3, <1>4, <1>5, <1>6

\* A run up to its clustering.
LEMMA ScoreTypes ==
    ASSUME TypeOK, NEW r \in Runs, Scan(r) \/ ScanFails(r) \/ Filter(r) \/ Score(r)
    PROVE  TypeOK'
<1> USE BoundsAreNumbers DEF TypeOK, Steps, Goto, world, tables, rows, front,
        context, scoring, clustering, history
<1>1. CASE Scan(r)
  BY <1>1 DEF Scan
<1>2. CASE ScanFails(r)
  <2>1. isAnalyzing' \in BOOLEAN
    BY <1>2 DEF ScanFails
  <2>2. disturbances' \in 0 .. MaxDisturbances
    BY <1>2 DEF ScanFails, Disturb
  <2> QED
    BY <1>2, <2>1, <2>2, EndTypes DEF ScanFails
<1>3. ASSUME NEW p \in Photos, FilterPhoto(r, p) \/ FilterFails(r, p) PROVE TypeOK'
  <2>1. ASSUME NEW keep, Filtered(r, p, keep)
        PROVE  /\ todo' \in [Runs -> SUBSET Photos]
               /\ toScore' \in [Runs -> SUBSET Photos]
               /\ pc' \in [Runs -> Steps]
    BY <2>1 DEF Filtered
  <2>2. CASE FilterPhoto(r, p)
    <3>1. Filtered(r, p, score[p] = 0 \/ p \notin dated)
      BY <2>2 DEF FilterPhoto
    <3> QED
      BY <2>1, <2>2, <3>1 DEF FilterPhoto
  <2>3. CASE FilterFails(r, p)
    <3>1. /\ todo' \in [Runs -> SUBSET Photos]
          /\ toScore' \in [Runs -> SUBSET Photos]
          /\ pc' \in [Runs -> Steps]
      BY <2>1, <2>3 DEF FilterFails
    <3>2. disturbances' \in 0 .. MaxDisturbances
      BY <2>3 DEF FilterFails, Disturb
    <3> QED
      BY <2>3, <3>1, <3>2 DEF FilterFails
  <2> QED
    BY <1>3, <2>2, <2>3
<1>4. CASE FilterStops(r)
  BY <1>4, EndTypes DEF FilterStops, Running
<1>5. ASSUME NEW p \in Photos, Work(r, p) PROVE TypeOK'
  <2>1. CASE TakePhoto(r, p)
    BY <2>1, <1>5 DEF TakePhoto
  <2>2. CASE PhotoFails(r, p)
    <3>1. disturbances' \in 0 .. MaxDisturbances
      BY <2>2 DEF PhotoFails, Disturb
    <3>2. excused' \in [Runs -> SUBSET Photos]
      <4>1. CASE UNCHANGED excused
        BY <4>1
      <4>2. CASE excused' = [excused EXCEPT ![r] = @ \cup {p}]
        BY <4>2, <1>5
      <4> QED
        BY <2>2, <4>1, <4>2 DEF PhotoFails
    <3> QED
      BY <2>2, <3>1, <3>2 DEF PhotoFails
  <2>3. CASE SaveAIScore(r, p)
    <3>1. hand[r][p] \in Versions /\ hand[r][p] > 0
      BY <2>3, <1>5 DEF SaveAIScore, InHand, Versions
    <3>2. /\ score' \in [Photos -> Versions \cup {0}]
          /\ dated' \in SUBSET {x \in Photos : score'[x] > 0}
      BY <2>3, <1>5, <3>1 DEF SaveAIScore
    <3> QED
      BY <2>3, <1>5, <3>2 DEF SaveAIScore, ToFaces
  <2>4. CASE SaveAIScoreFails(r, p)
    BY <2>4, <1>5 DEF SaveAIScoreFails, Disturb, ToFaces
  <2>5. CASE SaveFaceDetection(r, p)
    <3>1. photoOf' \in [Detections -> Photos \cup {NoPhoto}]
      BY <2>5, <1>5 DEF SaveFaceDetection
    <3>2. \A d \in Detections : photoOf'[d] = NoPhoto => clusterOf[d] = Null
      BY <2>5, <1>5, Names DEF SaveFaceDetection, IsNext, FreeDetections
    <3> QED
      BY <2>5, <3>1, <3>2 DEF SaveFaceDetection
  <2>6. CASE SaveFaceDetectionFails(r, p)
    BY <2>6 DEF SaveFaceDetectionFails, Disturb
  <2> QED
    BY <1>5, <2>1, <2>2, <2>3, <2>4, <2>5, <2>6 DEF Work
<1>6. CASE ScoringEnds(r)
  BY <1>6 DEF ScoringEnds
<1>7. CASE ScoringIsCancelled(r)
  BY <1>7, EndTypes DEF ScoringIsCancelled
<1> QED
  BY <1>1, <1>2, <1>3, <1>4, <1>5, <1>6, <1>7 DEF Filter, Score

\* The clustering and the end of a run.
LEMMA ClusteringTypes ==
    ASSUME TypeOK, NEW r \in Runs, RunFaceClustering(r) \/ Complete(r)
    PROVE  TypeOK'
<1> USE BoundsAreNumbers DEF TypeOK, Steps, Goto, world, tables, rows, front,
        context, scoring, clustering, history
<1>1. CASE DeleteFaceClusters(r)
  <2>1. clusterOf' \in [Detections -> Clusters \cup {Null}]
    BY <1>1 DEF DeleteFaceClusters
  <2>2. \A d \in Detections : photoOf'[d] = NoPhoto => clusterOf'[d] = Null
    BY <1>1 DEF DeleteFaceClusters
  <2> QED
    BY <1>1, <2>1, <2>2 DEF DeleteFaceClusters
<1>2. CASE DeleteFaceClustersFails(r)
  BY <1>2 DEF DeleteFaceClustersFails, Disturb
<1>3. CASE LoadAndCluster(r) \/ LoadFails(r)
  <2>1. \A known : ClustersOf(known) \in SUBSET SUBSET Detections
    BY DEF ClustersOf
  <2>2. ASSUME NEW known, groups' = [groups EXCEPT ![r] = ClustersOf(known)]
        PROVE  groups' \in [Runs -> SUBSET SUBSET Detections]
    BY <2>1, <2>2
  <2>3. CASE LoadAndCluster(r)
    BY <2>2, <2>3 DEF LoadAndCluster
  <2>4. CASE LoadFails(r)
    <3>1. groups' \in [Runs -> SUBSET SUBSET Detections]
      BY <2>2, <2>4 DEF LoadFails
    <3>2. disturbances' \in 0 .. MaxDisturbances
      BY <2>4 DEF LoadFails, Disturb
    <3>3. tidy' \in [Runs -> BOOLEAN]
      BY <2>4 DEF LoadFails
    <3> QED
      BY <2>4, <3>1, <3>2, <3>3 DEF LoadFails
  <2> QED
    BY <1>3, <2>3, <2>4
<1>4. ASSUME NEW g \in SUBSET Detections, SaveFaceCluster(r, g) PROVE TypeOK'
  <2>1. PICK c \in Clusters :
          /\ cluster' = [cluster EXCEPT ![r] = c]
          /\ photoCount' = [photoCount EXCEPT ![c] = Cardinality(g)]
    BY <1>4 DEF SaveFaceCluster
  <2>2. photoCount' \in [Clusters -> 0 .. MaxDetections]
    BY <2>1, CountType
  <2>3. tidy' \in [Runs -> BOOLEAN]
    BY <1>4 DEF SaveFaceCluster, Untidy
  <2> QED
    BY <1>4, <2>1, <2>2, <2>3 DEF SaveFaceCluster
<1>5. ASSUME NEW g \in SUBSET Detections, SaveFaceClusterFails(r, g) PROVE TypeOK'
  BY <1>5 DEF SaveFaceClusterFails, Disturb
<1>6. ASSUME NEW d \in Detections, AssignFaceToCluster(r, d) PROVE TypeOK'
  <2>1. tidy' \in [Runs -> BOOLEAN]
    BY <1>6 DEF AssignFaceToCluster, Untidy
  <2>2. /\ clusterOf' \in [Detections -> Clusters \cup {Null}]
        /\ \A e \in Detections : photoOf[e] = NoPhoto => clusterOf'[e] = Null
    <3>1. CASE /\ photoOf[d] # NoPhoto
               /\ clusterOf' = [clusterOf EXCEPT ![d] = cluster[r]]
      BY <3>1
    <3>2. CASE UNCHANGED clusterOf
      BY <3>2
    <3> QED
      BY <1>6, <3>1, <3>2 DEF AssignFaceToCluster
  <2> QED
    BY <1>6, <2>1, <2>2 DEF AssignFaceToCluster
<1>7. ASSUME NEW d \in Detections, AssignFails(r, d) PROVE TypeOK'
  BY <1>7 DEF AssignFails, Disturb
<1>8. CASE Complete(r)
  BY <1>8, EndTypes DEF Complete
<1> QED
  BY <1>1, <1>2, <1>3, <1>4, <1>5, <1>6, <1>7, <1>8 DEF RunFaceClustering

LEMMA WorldTypes ==
    ASSUME TypeOK, Crash \/ \E p \in Photos : Edit(p)
    PROVE  TypeOK'
<1> USE BoundsAreNumbers DEF TypeOK, Steps, world, tables, rows, front,
        context, scoring, clustering, history
<1>1. CASE Crash
  <2>1. isAnalyzing' \in BOOLEAN /\ silent' \in BOOLEAN
    BY <1>1 DEF Crash
  <2>2. disturbances' \in 0 .. MaxDisturbances
    BY <1>1 DEF Crash, Disturb
  <2>3. hand' \in [Runs -> [Photos -> Versions \cup {0}]]
    BY <1>1 DEF Crash, NothingInHand
  <2>4. /\ groups' \in [Runs -> SUBSET SUBSET Detections]
        /\ faces' \in [Runs -> SUBSET Detections]
        /\ cluster' \in [Runs -> Clusters \cup {Null}]
    BY <1>1 DEF Crash, Nothing
  <2> QED
    BY <1>1, <2>1, <2>2, <2>3, <2>4 DEF Crash, Nothing
<1>2. ASSUME NEW p \in Photos, Edit(p) PROVE TypeOK'
  <2>1. version' \in [Photos -> Versions]
    BY <1>2 DEF Edit, Versions
  <2>2. excused' \in [Runs -> SUBSET Photos] /\ raced' \in SUBSET Photos
    BY <1>2 DEF Edit
  <2> QED
    BY <1>2, <2>1, <2>2 DEF Edit, Disturb
<1> QED
  BY <1>1, <1>2

\* Every variable keeps its type, whatever the frontend, the runs, the workers
\* and the disk do, and the photos with a date have a score.
THEOREM TypeCorrect == Spec => []TypeOK
<1>1. TypeOK /\ [Next]_vars => TypeOK'
  <2> SUFFICES ASSUME TypeOK, [Next]_vars PROVE TypeOK'
    OBVIOUS
  <2>1. CASE Next
    BY <2>1, RequestTypes, ScoreTypes, ClusteringTypes, WorldTypes
       DEF Next, RunStep
  <2>2. CASE UNCHANGED vars
    BY <2>2 DEF TypeOK, vars, world, tables, rows, front, context, scoring,
                clustering, history
  <2> QED
    BY <2>1, <2>2
<1> QED
  BY <1>1, InitTypeOK, PTL DEF Spec

-------------------------------------------------------------------------------
(* The one live run.                                                         *)

\* A step of a run ends it and, but for the filter of a cancelled run, clears
\* isAnalyzing; or it leaves the run at work and contexts and frontend alone.
LEMMA RunSteps ==
    ASSUME NEW r \in Runs, RunStep(r)
    PROVE  \/ /\ End(r) /\ UNCHANGED analysisCancel
              /\ isAnalyzing' = FALSE \/ FilterStops(r)
           \/ /\ UNCHANGED <<context, front, silent>>
              /\ \/ UNCHANGED pc
                 \/ pc[r] # "idle" /\ \E s \in Steps \ {"idle"} : Goto(r, s)
<1> USE DEF context, front, history, Steps
<1>1. CASE Scan(r)
  BY <1>1 DEF Scan
<1>2. CASE ScanFails(r)
  BY <1>2 DEF ScanFails
<1>3. CASE Filter(r)
  <2>1. CASE FilterStops(r)
    BY <2>1 DEF FilterStops
  <2>2. ASSUME NEW p \in Photos, FilterPhoto(r, p) \/ FilterFails(r, p)
        PROVE  /\ UNCHANGED <<context, front, silent>> /\ pc[r] # "idle"
               /\ \E s \in Steps \ {"idle"} : Goto(r, s)
    BY <2>2 DEF FilterPhoto, FilterFails, Filtered
  <2> QED
    BY <1>3, <2>1, <2>2 DEF Filter
<1>4. CASE Score(r)
  <2>1. ASSUME NEW p \in Photos, Work(r, p)
        PROVE  UNCHANGED <<context, front, silent, pc>>
    BY <2>1 DEF Work, TakePhoto, PhotoFails, SaveAIScore, SaveAIScoreFails,
                SaveFaceDetection, SaveFaceDetectionFails
  <2>2. CASE ScoringEnds(r)
    BY <2>2 DEF ScoringEnds
  <2>3. CASE ScoringIsCancelled(r)
    BY <2>3 DEF ScoringIsCancelled
  <2> QED
    BY <1>4, <2>1, <2>2, <2>3 DEF Score
<1>5. CASE RunFaceClustering(r)
  <2>1. CASE DeleteFaceClusters(r) \/ DeleteFaceClustersFails(r)
             \/ LoadAndCluster(r) \/ LoadFails(r)
    BY <2>1 DEF DeleteFaceClusters, DeleteFaceClustersFails, LoadAndCluster,
                LoadFails
  <2>2. ASSUME NEW g \in SUBSET Detections,
               SaveFaceCluster(r, g) \/ SaveFaceClusterFails(r, g)
        PROVE  UNCHANGED <<context, front, silent, pc>>
    BY <2>2 DEF SaveFaceCluster, SaveFaceClusterFails
  <2>3. ASSUME NEW d \in Detections, AssignFaceToCluster(r, d) \/ AssignFails(r, d)
        PROVE  UNCHANGED <<context, front, silent, pc>>
    BY <2>3 DEF AssignFaceToCluster, AssignFails
  <2> QED
    BY <1>5, <2>1, <2>2, <2>3 DEF RunFaceClustering
<1>6. CASE Complete(r)
  BY <1>6 DEF Complete
<1> QED
  BY <1>1, <1>2, <1>3, <1>4, <1>5, <1>6 DEF RunStep

\* analysisCancel is the cancel function of the last run: RunAIAnalysis calls
\* it before it stores its own, both under analysisMu, so of the runs at work
\* at most one is not cancelled and CancelAIAnalysis reaches it.
THEOREM OneLive == Spec => []OneLiveRun
<1>1. Init => OneLiveRun
  BY DEF Init, OneLiveRun, Running
<1>2. TypeOK /\ OneLiveRun /\ [Next]_vars => OneLiveRun'
  <2> SUFFICES ASSUME TypeOK, OneLiveRun, [Next]_vars PROVE OneLiveRun'
    OBVIOUS
  <2> USE DEF OneLiveRun, Running
  <2>1. ASSUME NEW r \in Runs, RunAIAnalysis(r) PROVE OneLiveRun'
    <3>1. SUFFICES ASSUME NEW q \in Runs, q # r, pc[q] # "idle"
                   PROVE  cancelled'[q]
      BY <2>1 DEF RunAIAnalysis, Goto, TypeOK
    <3>2. CancelledNow(q)
      BY <3>1 DEF CancelledNow
    <3> QED
      BY <2>1, <3>1, <3>2 DEF RunAIAnalysis
  <2>2. CASE CancelAIAnalysis
    <3>1. SUFFICES ASSUME NEW q \in Runs, pc[q] # "idle"
                   PROVE  cancelled'[q]
      BY <2>2 DEF CancelAIAnalysis
    <3>2. CancelledNow(q)
      BY <3>1 DEF CancelledNow
    <3> QED
      BY <2>2, <3>2 DEF CancelAIAnalysis
  <2>3. ASSUME UNCHANGED <<context, pc>> PROVE OneLiveRun'
    BY <2>3 DEF context
  <2>4. ASSUME NEW r \in Runs, RunStep(r) PROVE OneLiveRun'
    <3>1. CASE End(r) /\ UNCHANGED analysisCancel
      BY <3>1 DEF End, Goto, TypeOK
    <3>2. ASSUME UNCHANGED context, pc[r] # "idle",
                 NEW s \in Steps \ {"idle"}, Goto(r, s)
          PROVE  OneLiveRun'
      BY <3>2 DEF Goto, TypeOK, context
    <3> QED
      BY <2>3, <2>4, <3>1, <3>2, RunSteps
  <2>5. CASE Crash
    BY <2>5 DEF Crash
  <2>6. CASE Analyze \/ Reanalyze \/ ClearAIData \/ RequestFails
             \/ \E p \in Photos : Edit(p)
    BY <2>6, <2>3 DEF Analyze, Reanalyze, ClearAIData, RequestFails, Edit
  <2>7. CASE UNCHANGED vars
    BY <2>7, <2>3 DEF vars
  <2> QED
    BY <2>1, <2>2, <2>4, <2>5, <2>6, <2>7 DEF Next
<1> QED
  BY <1>1, <1>2, TypeCorrect, PTL DEF Spec

\* The frontend shows an analysis only while a request is on its way, a run is
\* at work, or a run has ended without an event: every other end of a run sends
\* ai:complete or ai:error, whichever of its steps fails.
THEOREM ShownEnds == Spec => []ShownMeansRunning
<1>1. Init => ShownMeansRunning
  BY DEF Init, ShownMeansRunning
<1>2. TypeOK /\ ShownMeansRunning /\ [Next]_vars => ShownMeansRunning'
  <2> SUFFICES ASSUME TypeOK, ShownMeansRunning, [Next]_vars
               PROVE  ShownMeansRunning'
    OBVIOUS
  <2> USE DEF ShownMeansRunning, Running
  <2>1. CASE Analyze \/ Reanalyze
    BY <2>1 DEF Analyze, Reanalyze
  <2>2. CASE ClearAIData
    BY <2>2 DEF ClearAIData
  <2>3. CASE RequestFails \/ Crash
    BY <2>3 DEF RequestFails, Crash
  <2>4. ASSUME NEW r \in Runs, RunAIAnalysis(r) PROVE ShownMeansRunning'
    BY <2>4 DEF RunAIAnalysis, Goto, TypeOK
  <2>5. ASSUME NEW r \in Runs, RunStep(r) PROVE ShownMeansRunning'
    <3>1. CASE isAnalyzing' = FALSE
      BY <3>1
    <3>2. CASE FilterStops(r)
      <4>1. CASE request = "none" /\ \A q \in Runs \ {r} : pc[q] = "idle"
        BY <3>2, <4>1 DEF FilterStops
      <4>2. CASE request # "none"
        BY <3>2, <4>2 DEF FilterStops, front
      <4>3. CASE \E q \in Runs \ {r} : pc[q] # "idle"
        BY <3>2, <4>3 DEF FilterStops, End, Goto, TypeOK
      <4> QED
        BY <4>1, <4>2, <4>3
    <3>3. CASE UNCHANGED <<front, silent, pc>>
      BY <3>3 DEF front
    <3>4. ASSUME UNCHANGED <<front, silent>>, NEW s \in Steps \ {"idle"}, Goto(r, s)
          PROVE  ShownMeansRunning'
      BY <3>4 DEF front, Goto, TypeOK
    <3> QED
      BY <2>5, <3>1, <3>2, <3>3, <3>4, RunSteps
  <2>6. CASE CancelAIAnalysis \/ \E p \in Photos : Edit(p)
    BY <2>6 DEF CancelAIAnalysis, Edit, front, history
  <2>7. CASE UNCHANGED vars
    BY <2>7 DEF vars, front, history
  <2> QED
    BY <2>1, <2>2, <2>3, <2>4, <2>5, <2>6, <2>7 DEF Next
<1> QED
  BY <1>1, <1>2, TypeCorrect, PTL DEF Spec

-------------------------------------------------------------------------------
(* The thorough run.                                                         *)

Current(p) == p \in raced \/ score[p] = version[p]

\* What a worker has in hand is the present content, unless the photo was edited
\* in hand.
HandsAreCurrent ==
    \A r \in Runs : \A p \in Photos :
      hand[r][p] > 0 => p \in raced \/ hand[r][p] = version[p]

\* What the filter skips is scored.
DatedAreCurrent == \A p \in dated : Current(p)

\* A photo the run has lost sight of is scored, or excused.
Covered(r, p) ==
    \/ Current(p) \/ p \in excused[r]
    \/ pc[r] \in {"idle", "scanning"}
    \/ pc[r] = "filtering" /\ p \in todo[r] \cup toScore[r]
    \/ pc[r] = "scoring" /\ (cancelled[r] \/ p \in todo[r] \/ hand[r][p] > 0)

AllCovered == \A r \in Runs : \A p \in Photos : Covered(r, p)

ThoroughInv == HandsAreCurrent /\ DatedAreCurrent /\ AllCovered

\* A step changes what the photos, their scores and the hands are, or leaves
\* all of it alone.
LEMMA ContentSteps ==
    ASSUME [Next]_vars
    PROVE  \/ UNCHANGED <<version, score, dated, raced, hand>>
           \/ \E r \in Runs : \E p \in Photos :
                TakePhoto(r, p) \/ PhotoFails(r, p) \/ SaveAIScore(r, p)
                  \/ SaveAIScoreFails(r, p)
           \/ \E p \in Photos : Edit(p)
           \/ ClearAIData \/ Crash
<1> USE DEF world, tables, scoring, history
<1>1. CASE UNCHANGED vars
  BY <1>1 DEF vars
<1>2. CASE Analyze \/ Reanalyze \/ RequestFails \/ CancelAIAnalysis
           \/ \E r \in Runs : RunAIAnalysis(r)
  BY <1>2 DEF Analyze, Reanalyze, RequestFails, CancelAIAnalysis, RunAIAnalysis
<1>3. ASSUME NEW r \in Runs, Scan(r) \/ ScanFails(r) \/ Filter(r)
      PROVE  UNCHANGED <<version, score, dated, raced, hand>>
  BY <1>3 DEF Scan, ScanFails, Filter, FilterPhoto, FilterFails, FilterStops
<1>4. ASSUME NEW r \in Runs, NEW p \in Photos,
             SaveFaceDetection(r, p) \/ SaveFaceDetectionFails(r, p)
      PROVE  UNCHANGED <<version, score, dated, raced, hand>>
  BY <1>4 DEF SaveFaceDetection, SaveFaceDetectionFails
<1>5. ASSUME NEW r \in Runs, ScoringEnds(r) \/ ScoringIsCancelled(r)
      PROVE  UNCHANGED <<version, score, dated, raced, hand>>
  BY <1>5 DEF ScoringEnds, ScoringIsCancelled
<1>6. ASSUME NEW r \in Runs, RunFaceClustering(r) \/ Complete(r)
      PROVE  UNCHANGED <<version, score, dated, raced, hand>>
  BY <1>6 DEF RunFaceClustering, DeleteFaceClusters, DeleteFaceClustersFails,
              LoadAndCluster, LoadFails, SaveFaceCluster, SaveFaceClusterFails,
              AssignFaceToCluster, AssignFails, Complete
<1> QED
  BY <1>1, <1>2, <1>3, <1>4, <1>5, <1>6 DEF Next, RunStep, Score, Work

LEMMA HandsStep ==
    ASSUME TypeOK, HandsAreCurrent, [Next]_vars
    PROVE  HandsAreCurrent'
<1> USE DEF HandsAreCurrent, TypeOK
<1>1. CASE UNCHANGED <<version, score, dated, raced, hand>>
  BY <1>1
<1>2. ASSUME NEW r \in Runs, NEW p \in Photos, TakePhoto(r, p)
      PROVE  HandsAreCurrent'
  BY <1>2 DEF TakePhoto, world, history
<1>3. ASSUME NEW r \in Runs, NEW p \in Photos,
             PhotoFails(r, p) \/ SaveAIScore(r, p) \/ SaveAIScoreFails(r, p)
      PROVE  HandsAreCurrent'
  <2>1. hand' = [hand EXCEPT ![r][p] = 0] /\ UNCHANGED <<version, raced>>
    BY <1>3 DEF PhotoFails, SaveAIScore, SaveAIScoreFails, ToFaces, world
  <2> QED
    BY <2>1
<1>4. ASSUME NEW p \in Photos, Edit(p) PROVE HandsAreCurrent'
  <2>1. SUFFICES ASSUME NEW r \in Runs, NEW q \in Photos, hand[r][q] > 0
                 PROVE  q \in raced' \/ hand[r][q] = version'[q]
    BY <1>4 DEF Edit, scoring
  <2>2. CASE q = p
    BY <1>4, <2>1, <2>2 DEF Edit, InHand
  <2>3. CASE q # p
    BY <1>4, <2>1, <2>3 DEF Edit
  <2> QED
    BY <2>2, <2>3
<1>5. CASE ClearAIData
  BY <1>5 DEF ClearAIData, world, scoring
<1>6. CASE Crash
  BY <1>6 DEF Crash, NothingInHand
<1> QED
  BY <1>1, <1>2, <1>3, <1>4, <1>5, <1>6, ContentSteps

\* What is scored stays so: a save brings the present content, or what was
\* edited in hand; edits and deletions are the exceptions.
LEMMA CurrentSteps ==
    ASSUME TypeOK, HandsAreCurrent, [Next]_vars,
           NEW p \in Photos, Current(p), ~Edit(p), ~ClearAIData
    PROVE  Current(p)'
<1> USE DEF Current, TypeOK
<1>1. CASE UNCHANGED <<version, score, dated, raced, hand>>
  BY <1>1
<1>2. ASSUME NEW r \in Runs, NEW q \in Photos,
             TakePhoto(r, q) \/ PhotoFails(r, q) \/ SaveAIScoreFails(r, q)
      PROVE  Current(p)'
  BY <1>2 DEF TakePhoto, PhotoFails, SaveAIScoreFails, world, tables, history
<1>3. ASSUME NEW r \in Runs, NEW q \in Photos, SaveAIScore(r, q)
      PROVE  Current(p)'
  BY <1>3 DEF SaveAIScore, InHand, HandsAreCurrent, world
<1>4. ASSUME NEW q \in Photos, Edit(q) PROVE Current(p)'
  <2>1. q # p
    BY <1>4
  <2> QED
    BY <1>4, <2>1 DEF Edit
<1>5. CASE Crash
  BY <1>5 DEF Crash, tables
<1> QED
  BY <1>1, <1>2, <1>3, <1>4, <1>5, ContentSteps

LEMMA DatedStep ==
    ASSUME TypeOK, HandsAreCurrent, DatedAreCurrent, [Next]_vars
    PROVE  DatedAreCurrent'
<1>1. CASE ClearAIData
  BY <1>1 DEF ClearAIData, DatedAreCurrent
<1>2. SUFFICES ASSUME ~ClearAIData, NEW p \in dated' PROVE Current(p)'
  BY <1>1 DEF DatedAreCurrent
<1>3. dated \subseteq Photos
  BY DEF TypeOK
<1>4. CASE p \in dated
  <2>1. ~Edit(p)
    BY <1>2 DEF Edit
  <2> QED
    BY <1>2, <1>3, <1>4, <2>1, CurrentSteps DEF DatedAreCurrent
<1>5. CASE p \notin dated
  <2>1. PICK r \in Runs : p \in Photos /\ SaveAIScore(r, p)
    BY <1>2, <1>5, ContentSteps
       DEF TakePhoto, PhotoFails, SaveAIScore, SaveAIScoreFails, Edit, Crash,
           tables
  <2> QED
    BY <2>1 DEF SaveAIScore, InHand, HandsAreCurrent, Current, TypeOK, world
<1> QED
  BY <1>4, <1>5

\* A step of another run, or of the frontend, takes no cover away.
LEMMA StillCovered ==
    ASSUME TypeOK, NEW q \in Runs, NEW p \in Photos, Covered(q, p),
           Current(p) => Current(p)',
           p \in excused[q] => p \in excused'[q],
           pc'[q] = pc[q], todo'[q] = todo[q], toScore'[q] = toScore[q],
           hand'[q] = hand[q], cancelled[q] => cancelled'[q]
    PROVE  Covered(q, p)'
BY DEF Covered

\* The steps of a run, for the run itself.
LEMMA RunCovers ==
    ASSUME TypeOK, DatedAreCurrent, HandsAreCurrent, AllCovered,
           NEW r \in Runs, RunStep(r), NEW p \in Photos, Current(p) => Current(p)'
    PROVE  Covered(r, p)'
<1> USE DEF TypeOK, Covered, Goto, context, scoring, history
<1>1. Covered(r, p)
  BY DEF AllCovered
<1>2. CASE Scan(r)
  BY <1>2 DEF Scan
<1>3. CASE End(r)
  BY <1>3 DEF End
<1>4. ASSUME NEW x \in Photos, FilterPhoto(r, x) \/ FilterFails(r, x)
      PROVE  Covered(r, p)'
  <2>1. CASE FilterPhoto(r, x) /\ p = x /\ ~(score[x] = 0 \/ x \notin dated)
    <3>1. Current(p)
      BY <2>1 DEF DatedAreCurrent
    <3> QED
      BY <3>1
  <2>2. CASE FilterPhoto(r, x) /\ (p # x \/ score[x] = 0 \/ x \notin dated)
    BY <1>1, <2>2 DEF FilterPhoto, Filtered
  <2>3. CASE FilterFails(r, x)
    BY <1>1, <2>3 DEF FilterFails, Filtered
  <2> QED
    BY <1>4, <2>1, <2>2, <2>3
<1>5. ASSUME NEW x \in Photos, TakePhoto(r, x) PROVE Covered(r, p)'
  <2>1. CASE p = x
    BY <1>5, <2>1 DEF TakePhoto, Versions
  <2>2. CASE p # x
    BY <1>1, <1>5, <2>2 DEF TakePhoto
  <2> QED
    BY <2>1, <2>2
<1>6. ASSUME NEW x \in Photos, PhotoFails(r, x) PROVE Covered(r, p)'
  <2>1. hand'[r] = [hand[r] EXCEPT ![x] = 0]
    BY <1>6 DEF PhotoFails
  <2>2. CASE cancelled[r] /\ UNCHANGED excused
    BY <1>1, <1>6, <2>1, <2>2 DEF PhotoFails
  <2>3. CASE excused' = [excused EXCEPT ![r] = @ \cup {x}]
    BY <1>1, <1>6, <2>1, <2>3 DEF PhotoFails
  <2> QED
    BY <1>6, <2>2, <2>3 DEF PhotoFails
<1>7. ASSUME NEW x \in Photos, SaveAIScore(r, x) PROVE Covered(r, p)'
  <2>1. CASE p = x
    <3>1. Current(p)'
      BY <1>7, <2>1 DEF SaveAIScore, InHand, HandsAreCurrent, Current, world
    <3> QED
      BY <3>1
  <2>2. CASE p # x
    <3>1. hand'[r][p] = hand[r][p]
      BY <1>7, <2>2 DEF SaveAIScore, ToFaces
    <3> QED
      BY <1>1, <1>7, <3>1 DEF SaveAIScore
  <2> QED
    BY <2>1, <2>2
<1>8. ASSUME NEW x \in Photos, SaveAIScoreFails(r, x) PROVE Covered(r, p)'
  <2>1. CASE p = x
    BY <1>8, <2>1 DEF SaveAIScoreFails
  <2>2. CASE p # x
    <3>1. hand'[r][p] = hand[r][p]
      BY <1>8, <2>2 DEF SaveAIScoreFails, ToFaces
    <3> QED
      BY <1>1, <1>8, <3>1 DEF SaveAIScoreFails
  <2> QED
    BY <2>1, <2>2
<1>9. ASSUME NEW x \in Photos, SaveFaceDetection(r, x) \/ SaveFaceDetectionFails(r, x)
      PROVE  Covered(r, p)'
  BY <1>1, <1>9 DEF SaveFaceDetection, SaveFaceDetectionFails
<1>10. CASE ScoringEnds(r)
  BY <1>1, <1>10 DEF ScoringEnds, AtWork, InHand
<1>11. CASE RunFaceClustering(r)
  <2>1. CASE DeleteFaceClusters(r) \/ DeleteFaceClustersFails(r)
             \/ LoadAndCluster(r) \/ LoadFails(r)
    BY <1>1, <2>1 DEF DeleteFaceClusters, DeleteFaceClustersFails,
                      LoadAndCluster, LoadFails
  <2>2. ASSUME UNCHANGED <<pc, context, scoring, excused>>
        PROVE  Covered(r, p)'
    BY <1>1, <2>2
  <2>3. ASSUME NEW g \in SUBSET Detections,
               SaveFaceCluster(r, g) \/ SaveFaceClusterFails(r, g)
        PROVE  Covered(r, p)'
    BY <2>2, <2>3 DEF SaveFaceCluster, SaveFaceClusterFails
  <2>4. ASSUME NEW d \in Detections, AssignFaceToCluster(r, d) \/ AssignFails(r, d)
        PROVE  Covered(r, p)'
    BY <2>2, <2>4 DEF AssignFaceToCluster, AssignFails
  <2> QED
    BY <1>11, <2>1, <2>3, <2>4 DEF RunFaceClustering
<1> QED
  BY <1>2, <1>3, <1>4, <1>5, <1>6, <1>7, <1>8, <1>9, <1>10, <1>11
     DEF RunStep, ScanFails, Filter, FilterStops, Score, Work,
         ScoringIsCancelled, Complete

\* What a step of a run leaves of another run.
LEMMA RunElsewhere ==
    ASSUME TypeOK, NEW r \in Runs, RunStep(r), NEW q \in Runs \ {r}
    PROVE  /\ pc'[q] = pc[q] /\ todo'[q] = todo[q] /\ toScore'[q] = toScore[q]
           /\ hand'[q] = hand[q] /\ cancelled'[q] = cancelled[q]
           /\ excused'[q] = excused[q]
<1> USE DEF TypeOK, Goto, context, scoring, history
<1>1. CASE Scan(r) \/ Filter(r)
  BY <1>1 DEF Scan, Filter, FilterPhoto, FilterFails, Filtered, FilterStops, End
<1>2. CASE ScanFails(r) \/ ScoringIsCancelled(r) \/ Complete(r)
  BY <1>2 DEF ScanFails, ScoringIsCancelled, Complete, End
<1>3. ASSUME NEW p \in Photos, Work(r, p)
      PROVE  /\ pc'[q] = pc[q] /\ todo'[q] = todo[q] /\ toScore'[q] = toScore[q]
             /\ hand'[q] = hand[q] /\ cancelled'[q] = cancelled[q]
             /\ excused'[q] = excused[q]
  BY <1>3 DEF Work, TakePhoto, PhotoFails, SaveAIScore, SaveAIScoreFails,
              ToFaces, SaveFaceDetection, SaveFaceDetectionFails
<1>4. CASE ScoringEnds(r)
  BY <1>4 DEF ScoringEnds
<1>5. CASE RunFaceClustering(r)
  BY <1>5 DEF RunFaceClustering, DeleteFaceClusters, DeleteFaceClustersFails,
              LoadAndCluster, LoadFails, SaveFaceCluster, SaveFaceClusterFails,
              AssignFaceToCluster, AssignFails
<1> QED
  BY <1>1, <1>2, <1>3, <1>4, <1>5 DEF RunStep, Score

LEMMA CoveredStep ==
    ASSUME TypeOK, ThoroughInv, [Next]_vars
    PROVE  AllCovered'
<1> USE DEF ThoroughInv, AllCovered
<1>1. SUFFICES ASSUME NEW q \in Runs, NEW p \in Photos PROVE Covered(q, p)'
  OBVIOUS
<1>2. Covered(q, p)
  OBVIOUS
<1>3. CASE Running(q) /\ (Edit(p) \/ ClearAIData)
  BY <1>3 DEF Edit, ClearAIData, Covered, Running, TypeOK
<1>4. CASE ~Running(q) /\ (Edit(p) \/ ClearAIData)
  BY <1>4 DEF Edit, ClearAIData, Covered, Running
<1>5. CASE ~Edit(p) /\ ~ClearAIData
  <2>1. Current(p) => Current(p)'
    BY <1>5, CurrentSteps
  <2>2. ASSUME NEW r \in Runs, RunStep(r) PROVE Covered(q, p)'
    BY <1>2, <2>1, <2>2, RunCovers, RunElsewhere, StillCovered
  <2>3. ASSUME NEW r \in Runs, RunAIAnalysis(r) PROVE Covered(q, p)'
    <3>1. CASE q = r
      BY <2>3, <3>1 DEF RunAIAnalysis, Goto, Covered, TypeOK
    <3>2. CASE q # r
      BY <1>2, <2>1, <2>3, <3>2, StillCovered
         DEF RunAIAnalysis, Goto, CancelledNow, scoring, history, TypeOK
    <3> QED
      BY <3>1, <3>2
  <2>4. CASE CancelAIAnalysis
    BY <1>2, <2>1, <2>4, StillCovered
       DEF CancelAIAnalysis, CancelledNow, scoring, history
  <2>5. CASE Analyze \/ Reanalyze \/ RequestFails \/ UNCHANGED vars
    BY <1>2, <2>1, <2>5, StillCovered
       DEF Analyze, Reanalyze, RequestFails, vars, context, scoring, history
  <2>6. ASSUME NEW x \in Photos, Edit(x) PROVE Covered(q, p)'
    <3>1. CASE Running(q)
      BY <1>2, <2>1, <2>6, <3>1, StillCovered DEF Edit, context, scoring
    <3>2. CASE ~Running(q)
      BY <2>6, <3>2 DEF Edit, Covered, Running
    <3> QED
      BY <3>1, <3>2
  <2>7. CASE Crash
    BY <2>7 DEF Crash, Covered
  <2> QED
    BY <1>5, <2>2, <2>3, <2>4, <2>5, <2>6, <2>7 DEF Next
<1> QED
  BY <1>3, <1>4, <1>5

\* A run past its scoring has left no photo without a score of its present
\* content, however many runs, cancellations, failures and edits there were.
\* Its own photos are at every moment to do, in hand, scored or excused; the
\* photos it skipped are dated, and a dated photo's score is of its present
\* content because what a worker has in hand is.
THEOREM Thorough == Spec => []ScoredRunsAreThorough
<1>1. Init => ThoroughInv
  BY DEF Init, ThoroughInv, HandsAreCurrent, DatedAreCurrent, AllCovered, Covered,
         NothingInHand
<1>2. TypeOK /\ ThoroughInv /\ [Next]_vars => ThoroughInv'
  BY HandsStep, DatedStep, CoveredStep DEF ThoroughInv
<1>3. ThoroughInv => ScoredRunsAreThorough
  BY DEF ThoroughInv, AllCovered, Covered, Current, ScoredRunsAreThorough, Scored
<1> QED
  BY <1>1, <1>2, <1>3, TypeCorrect, PTL DEF Spec

-------------------------------------------------------------------------------
(* The clusters.                                                            *)

\* The faces a clustering run has still to assign.
Waiting(r) == (UNION groups[r]) \cup faces[r]

Loaded(d) == photoOf[d] # NoPhoto /\ score[photoOf[d]] > 0

\* The faces of a cluster in a clustering in progress: those it has assigned,
\* and those it is about to assign to the cluster saved last.
Own(r, c) ==
    {d \in Detections : /\ photoOf[d] # NoPhoto /\ clusterOf[d] = c
                        /\ d \notin Waiting(r)}
    \cup {d \in faces[r] : c = cluster[r]}

\* A clustering has something in hand only while it saves.
HandsOnlySaving ==
    \A r \in Runs : /\ pc[r] # "saving" => groups[r] = {} /\ faces[r] = {}
                    /\ faces[r] # {} => cluster[r] \in Clusters

\* No face waits for a cluster, or has one, whose photo has no score: a face
\* whose id a run knows is never given to another photo.
FacesAreScored ==
    /\ \A r \in Runs : \A d \in Waiting(r) : photoOf[d] # NoPhoto => Loaded(d)
    /\ \A d \in Detections : clusterOf[d] # Null => Loaded(d)

\* The faces with a score of the persons on a set of faces are in the set, and
\* there is one person at most.
OfOnePerson(S) ==
    \A d \in S, e \in Detections :
        Loaded(e) => (e \in S <=> PersonOf[photoOf[d]] = PersonOf[photoOf[e]])

\* A clustering nobody disturbs: every face with a score waits or is assigned,
\* every cluster counts what is assigned to it or about to be, and both the
\* groups to save and the clusters are a person's faces.
Exact(r) ==
    /\ \A g, h \in groups[r] : g # h => g \cap h = {}
    /\ \A g \in groups[r] : g \cap faces[r] = {}
    /\ \A d \in Waiting(r) : photoOf[d] # NoPhoto
    /\ \A c \in Clusters : photoCount[c] = Cardinality(Own(r, c))
    /\ \A d \in Detections : Loaded(d) => d \in Waiting(r) \/ clusterOf[d] # Null
    /\ \A g \in groups[r] : OfOnePerson(g)
    /\ \A c \in Clusters : OfOnePerson(Own(r, c))

Tidied(r) ==
    \/ pc[r] = "loading" /\ \A c \in Clusters : photoCount[c] = 0
    \/ pc[r] = "saving" /\ Exact(r)

ClustersInv ==
    /\ HandsOnlySaving
    /\ FacesAreScored
    /\ \A r \in Runs : tidy[r] => Tidied(r)

LEMMA WaitingAreDetections ==
    ASSUME TypeOK, NEW r \in Runs
    PROVE  Waiting(r) \subseteq Detections
<1>1. groups[r] \subseteq SUBSET Detections /\ faces[r] \subseteq Detections
  BY DEF TypeOK
<1> QED
  BY <1>1 DEF Waiting

LEMMA WaitingShrinks ==
    ASSUME NEW r, groups'[r] \subseteq groups[r],
           \/ faces'[r] \subseteq faces[r]
           \/ faces'[r] \in groups[r]
    PROVE  Waiting(r)' \subseteq Waiting(r)
BY DEF Waiting

\* The clusters of a clustering split the faces it has loaded.
LEMMA ClustersSplit ==
    ASSUME TypeOK, NEW known
    PROVE  /\ ClustersOf(known) \in SUBSET SUBSET Detections
           /\ UNION ClustersOf(known)
                = {d \in Detections : photoOf[d] \in known /\ score[photoOf[d]] > 0}
           /\ \A g, h \in ClustersOf(known) : g # h => g \cap h = {}
           /\ Photos \subseteq known => \A g \in ClustersOf(known) : OfOnePerson(g)
<1> DEFINE loaded == {d \in Detections : photoOf[d] \in known /\ score[photoOf[d]] > 0}
           Same(d) == {e \in loaded : PersonOf[photoOf[e]] = PersonOf[photoOf[d]]}
<1>1. ClustersOf(known) = {Same(d) : d \in loaded}
  BY DEF ClustersOf
<1>2. \A d \in loaded : d \in Same(d) /\ Same(d) \subseteq loaded
  OBVIOUS
<1>3. loaded \subseteq Detections
  OBVIOUS
<1>4. ASSUME NEW d \in loaded, NEW e \in loaded, Same(d) \cap Same(e) # {}
      PROVE  Same(d) = Same(e)
  <2>1. PICK x \in loaded : x \in Same(d) /\ x \in Same(e)
    BY <1>4
  <2>2. PersonOf[photoOf[d]] = PersonOf[photoOf[e]]
    BY <2>1
  <2> QED
    BY <2>2
<1>8. ASSUME Photos \subseteq known, NEW x \in loaded PROVE OfOnePerson(Same(x))
  <2>0. photoOf \in [Detections -> Photos \cup {NoPhoto}]
    BY DEF TypeOK
  <2>1. \A e \in Detections : Loaded(e) => e \in loaded
    BY <1>8, <2>0 DEF Loaded
  <2> HIDE DEF loaded
  <2> QED
    BY <2>1 DEF OfOnePerson
<1> HIDE DEF loaded, Same
<1>5. \A g, h \in ClustersOf(known) : g # h => g \cap h = {}
  BY <1>1, <1>4
<1>6. UNION ClustersOf(known) = loaded
  BY <1>1, <1>2
<1>7. ClustersOf(known) \in SUBSET SUBSET Detections
  BY <1>1, <1>2, <1>3
<1>9. Photos \subseteq known => \A g \in ClustersOf(known) : OfOnePerson(g)
  BY <1>1, <1>8
<1> QED
  BY <1>5, <1>6, <1>7, <1>9 DEF loaded

\* The faces of a cluster are finitely many.
LEMMA OwnAreFinite ==
    ASSUME TypeOK, NEW r \in Runs, NEW c
    PROVE  IsFiniteSet(Own(r, c)) /\ Own(r, c) \subseteq Detections
<1>1. IsFiniteSet(Detections)
  BY BoundsAreNumbers, FS_Interval DEF Detections
<1>2. Own(r, c) \subseteq Detections
  BY DEF Own, TypeOK
<1> QED
  BY <1>1, <1>2, FS_Subset

\* What most steps do of the clusters: nothing, and no run gets near them.
Quiet == /\ UNCHANGED <<score, photoOf, clusterOf, photoCount, groups, faces,
                        cluster>>
         /\ \A q \in Runs :
               /\ tidy'[q] => tidy[q]
               /\ \/ pc'[q] = pc[q]
                  \/ /\ pc[q] \notin {"loading", "saving"}
                     /\ pc'[q] \notin {"loading", "saving"}

\* The steps that matter to the clusters.
LEMMA ClusterSteps ==
    ASSUME TypeOK, [Next]_vars
    PROVE  \/ Quiet
           \/ \E r \in Runs, p \in Photos : SaveAIScore(r, p) \/ SaveFaceDetection(r, p)
           \/ \E r \in Runs : RunFaceClustering(r) \/ Complete(r)
           \/ ClearAIData
           \/ Crash
<1> USE DEF TypeOK, Quiet, Goto, world, tables, rows, front, context, scoring,
        clustering, history
<1>1. CASE \/ Analyze \/ Reanalyze \/ RequestFails \/ CancelAIAnalysis
           \/ UNCHANGED vars \/ \E p \in Photos : Edit(p)
  BY <1>1 DEF Analyze, Reanalyze, RequestFails, CancelAIAnalysis, vars, Edit
<1>2. ASSUME NEW r \in Runs, RunAIAnalysis(r) PROVE Quiet
  BY <1>2 DEF RunAIAnalysis, Running
<1>3. ASSUME NEW r \in Runs, Scan(r) \/ ScanFails(r) \/ FilterStops(r) PROVE Quiet
  BY <1>3 DEF Scan, ScanFails, FilterStops, End
<1>4. ASSUME NEW r \in Runs, NEW p \in Photos, FilterPhoto(r, p) \/ FilterFails(r, p)
      PROVE  Quiet
  <2>1. /\ pc[r] = "filtering"
        /\ \/ pc' = [pc EXCEPT ![r] = "filtering"]
           \/ pc' = [pc EXCEPT ![r] = "deleting"]
           \/ pc' = [pc EXCEPT ![r] = "scoring"]
    BY <1>4 DEF FilterPhoto, FilterFails, Filtered
  <2>2. UNCHANGED <<score, photoOf, clusterOf, photoCount, groups, faces, cluster,
                    tidy>>
    BY <1>4 DEF FilterPhoto, FilterFails
  <2> QED
    BY <2>1, <2>2
<1>5. ASSUME NEW r \in Runs, NEW p \in Photos,
             \/ TakePhoto(r, p) \/ PhotoFails(r, p) \/ SaveAIScoreFails(r, p)
             \/ SaveFaceDetectionFails(r, p)
      PROVE  Quiet
  BY <1>5 DEF TakePhoto, PhotoFails, SaveAIScoreFails, SaveFaceDetectionFails
<1>6. ASSUME NEW r \in Runs, ScoringEnds(r) \/ ScoringIsCancelled(r) PROVE Quiet
  BY <1>6 DEF ScoringEnds, ScoringIsCancelled, End
<1> QED
  BY <1>1, <1>2, <1>3, <1>4, <1>5, <1>6
     DEF Next, RunStep, Filter, Score, Work

-------------------------------------------------------------------------------

\* A clustering run picks up its faces when it starts to save and has none left
\* when it stops.
LEMMA HandsOnlySavingStep ==
    ASSUME TypeOK, HandsOnlySaving, [Next]_vars
    PROVE  HandsOnlySaving'
<1> USE DEF HandsOnlySaving, TypeOK, Goto, rows, tables, clustering
<1>1. CASE Quiet
  BY <1>1 DEF Quiet
<1>2. ASSUME NEW r \in Runs, NEW p \in Photos,
             SaveAIScore(r, p) \/ SaveFaceDetection(r, p)
      PROVE  HandsOnlySaving'
  BY <1>2 DEF SaveAIScore, SaveFaceDetection
<1>3. ASSUME NEW r \in Runs, Complete(r) PROVE HandsOnlySaving'
  BY <1>3 DEF Complete, Clustered, End
<1>4. ASSUME NEW r \in Runs, RunFaceClustering(r) PROVE HandsOnlySaving'
  <2>1. CASE DeleteFaceClusters(r) \/ DeleteFaceClustersFails(r)
    BY <2>1 DEF DeleteFaceClusters, DeleteFaceClustersFails
  <2>2. CASE LoadAndCluster(r) \/ LoadFails(r)
    BY <2>2 DEF LoadAndCluster, LoadFails
  <2>3. ASSUME NEW g \in SUBSET Detections,
               SaveFaceCluster(r, g) \/ SaveFaceClusterFails(r, g)
        PROVE  HandsOnlySaving'
    <3>1. /\ UNCHANGED pc /\ pc[r] = "saving"
          /\ groups' = [groups EXCEPT ![r] = groups[r] \ {g}]
          /\ \/ /\ faces' = [faces EXCEPT ![r] = g]
                /\ \E c \in Clusters : cluster' = [cluster EXCEPT ![r] = c]
             \/ UNCHANGED <<faces, cluster>>
      BY <2>3 DEF SaveFaceCluster, SaveFaceClusterFails
    <3> QED
      BY <3>1
  <2>4. ASSUME NEW d \in Detections, AssignFaceToCluster(r, d) \/ AssignFails(r, d)
        PROVE  HandsOnlySaving'
    BY <2>4 DEF AssignFaceToCluster, AssignFails
  <2> QED
    BY <1>4, <2>1, <2>2, <2>3, <2>4 DEF RunFaceClustering
<1>5. CASE ClearAIData
  BY <1>5 DEF ClearAIData
<1>6. CASE Crash
  BY <1>6 DEF Crash, Nothing
<1> QED
  BY <1>1, <1>2, <1>3, <1>4, <1>5, <1>6, ClusterSteps

\* No id of a face that a run or a cluster knows gets another photo, and a
\* score is only lost with all the faces.
LEMMA FacesAreScoredStep ==
    ASSUME TypeOK, FacesAreScored, [Next]_vars
    PROVE  FacesAreScored'
<1> USE DEF FacesAreScored, Waiting, Loaded, TypeOK, Goto, rows, tables, clustering
<1>1. CASE Quiet
  BY <1>1 DEF Quiet
<1>2. ASSUME NEW r \in Runs, NEW p \in Photos, SaveAIScore(r, p)
      PROVE  FacesAreScored'
  <2>1. \A x \in Photos : score[x] > 0 => score'[x] > 0
    BY <1>2 DEF SaveAIScore, InHand, Versions
  <2> QED
    BY <1>2, <2>1 DEF SaveAIScore
<1>3. ASSUME NEW r \in Runs, NEW p \in Photos, SaveFaceDetection(r, p)
      PROVE  FacesAreScored'
  <2>1. PICK d \in FreeDetections : photoOf' = [photoOf EXCEPT ![d] = p]
    BY <1>3 DEF SaveFaceDetection, IsNext
  <2>2. /\ clusterOf[d] = Null /\ \A q \in Runs : d \notin Waiting(q)
        /\ UNCHANGED <<score, clusterOf, groups, faces>>
    BY <1>3 DEF SaveFaceDetection, FreeDetections
  <2>3. \A e \in Detections : e # d => photoOf'[e] = photoOf[e]
    BY <2>1
  <2>4. \A q \in Runs : Waiting(q)' = Waiting(q)
    BY <2>2
  <2>5. \A q \in Runs : Waiting(q) \subseteq Detections
    BY WaitingAreDetections
  <2>6. \A e \in Detections : e # d /\ Loaded(e) => Loaded(e)'
    BY <2>2, <2>3
  <2> HIDE DEF Waiting
  <2>7. ASSUME NEW q \in Runs, NEW e \in Waiting(q)', photoOf'[e] # NoPhoto
        PROVE  Loaded(e)'
    <3>1. e \in Waiting(q) /\ e # d /\ e \in Detections
      BY <2>2, <2>4, <2>5, <2>7
    <3>2. photoOf[e] # NoPhoto
      BY <2>3, <2>7, <3>1
    <3> QED
      BY <2>6, <3>1, <3>2
  <2>8. ASSUME NEW e \in Detections, clusterOf'[e] # Null PROVE Loaded(e)'
    BY <2>2, <2>6, <2>8
  <2> QED
    BY <2>7, <2>8
<1>4. ASSUME NEW r \in Runs, Complete(r) PROVE FacesAreScored'
  BY <1>4 DEF Complete
<1>5. ASSUME NEW r \in Runs, RunFaceClustering(r) PROVE FacesAreScored'
  <2>1. CASE DeleteFaceClusters(r) \/ DeleteFaceClustersFails(r)
    BY <2>1 DEF DeleteFaceClusters, DeleteFaceClustersFails
  <2>2. CASE LoadAndCluster(r) \/ LoadFails(r)
    <3>1. PICK known : groups' = [groups EXCEPT ![r] = ClustersOf(known)]
      BY <2>2 DEF LoadAndCluster, LoadFails
    <3>2. UNCHANGED <<score, photoOf, clusterOf, faces>>
      BY <2>2 DEF LoadAndCluster, LoadFails
    <3>3. \A d \in UNION groups'[r] : score[photoOf[d]] > 0
      BY <3>1, ClustersSplit
    <3>4. \A q \in Runs \ {r} : Waiting(q)' = Waiting(q)
      BY <3>1, <3>2
    <3> QED
      BY <3>2, <3>3, <3>4
  <2>3. ASSUME NEW g \in SUBSET Detections,
               SaveFaceCluster(r, g) \/ SaveFaceClusterFails(r, g)
        PROVE  FacesAreScored'
    <3>1. \A q \in Runs : Waiting(q)' \subseteq Waiting(q)
      <4>1. /\ g \in groups[r] /\ groups'[r] = groups[r] \ {g}
            /\ faces'[r] = g \/ faces'[r] = faces[r]
            /\ \A q \in Runs \ {r} : groups'[q] = groups[q] /\ faces'[q] = faces[q]
        BY <2>3 DEF SaveFaceCluster, SaveFaceClusterFails
      <4> QED
        BY <4>1, WaitingShrinks
    <3>2. UNCHANGED <<score, photoOf, clusterOf>>
      BY <2>3 DEF SaveFaceCluster, SaveFaceClusterFails
    <3> QED
      BY <3>1, <3>2
  <2>4. ASSUME NEW d \in Detections, AssignFaceToCluster(r, d) \/ AssignFails(r, d)
        PROVE  FacesAreScored'
    <3>1. \A q \in Runs : Waiting(q)' \subseteq Waiting(q)
      <4>1. /\ groups' = groups /\ faces'[r] = faces[r] \ {d}
            /\ \A q \in Runs \ {r} : faces'[q] = faces[q]
        BY <2>4 DEF AssignFaceToCluster, AssignFails
      <4> QED
        BY <4>1, WaitingShrinks
    <3>2. d \in Waiting(r) /\ UNCHANGED <<score, photoOf>>
      <4>1. d \in faces[r] /\ UNCHANGED <<score, photoOf>>
        BY <2>4 DEF AssignFaceToCluster, AssignFails
      <4> QED
        BY <4>1
    <3>3. \/ clusterOf' = clusterOf
          \/ photoOf[d] # NoPhoto /\ clusterOf' = [clusterOf EXCEPT ![d] = cluster[r]]
      BY <2>4 DEF AssignFaceToCluster, AssignFails
    <3> HIDE DEF Waiting
    <3>4. \A e \in Detections : clusterOf'[e] # Null => Loaded(e)
      <4>1. photoOf[d] # NoPhoto => Loaded(d)
        BY <3>2
      <4>2. \A e \in Detections \ {d} : clusterOf'[e] = clusterOf[e]
        BY <3>3
      <4> QED
        BY <3>3, <4>1, <4>2
    <3> QED
      BY <3>1, <3>2, <3>4
  <2> QED
    BY <1>5, <2>1, <2>2, <2>3, <2>4 DEF RunFaceClustering
<1>6. CASE ClearAIData
  <2>1. /\ \A d \in Detections : photoOf'[d] = NoPhoto /\ clusterOf'[d] = Null
        /\ UNCHANGED <<groups, faces>>
    BY <1>6 DEF ClearAIData
  <2>2. \A q \in Runs : Waiting(q)' = Waiting(q)
    BY <2>1
  <2>3. \A q \in Runs : Waiting(q) \subseteq Detections
    BY WaitingAreDetections
  <2> HIDE DEF Waiting
  <2> QED
    BY <2>1, <2>2, <2>3
<1>7. CASE Crash
  BY <1>7 DEF Crash, Nothing
<1> QED
  BY <1>1, <1>2, <1>3, <1>4, <1>5, <1>6, <1>7, ClusterSteps

-------------------------------------------------------------------------------

\* What a tidy run relies on is untouched.
LEMMA TidiedKept ==
    ASSUME NEW r \in Runs, Tidied(r), pc'[r] = pc[r], groups'[r] = groups[r],
           faces'[r] = faces[r], cluster'[r] = cluster[r],
           UNCHANGED <<score, photoOf, clusterOf, photoCount>>
    PROVE  Tidied(r)'
<1>1. \A c : Own(r, c)' = Own(r, c)
  BY DEF Own, Waiting
<1>2. \A d : Loaded(d)' = Loaded(d) /\ Waiting(r)' = Waiting(r)
  BY DEF Loaded, Waiting
<1> QED
  BY <1>1, <1>2 DEF Tidied, Exact, OfOnePerson

\* The faces are loaded when no cluster is left: every face with a score waits.
LEMMA LoadTidies ==
    ASSUME TypeOK, HandsOnlySaving, FacesAreScored,
           NEW r \in Runs, LoadAndCluster(r), Tidied(r)
    PROVE  Tidied(r)'
<1>1. /\ \A c \in Clusters : photoCount[c] = 0
      /\ faces[r] = {}
  BY DEF LoadAndCluster, Tidied, HandsOnlySaving
<1>2. /\ pc'[r] = "saving" /\ groups'[r] = ClustersOf(Photos) /\ faces'[r] = {}
      /\ UNCHANGED <<score, photoOf, clusterOf, photoCount, cluster>>
  BY <1>1 DEF LoadAndCluster, Goto, TypeOK, tables, rows
<1>3. \A d \in Detections : Loaded(d) => d \in UNION groups'[r]
  BY <1>2, ClustersSplit DEF Loaded, TypeOK
<1>4. \A d \in Waiting(r)' : d \in Detections /\ photoOf'[d] # NoPhoto
  BY <1>2, ClustersSplit, Names DEF Waiting
<1>10. ASSUME NEW c \in Clusters PROVE Own(r, c)' = {}
  <2>1. \A d \in Detections : clusterOf'[d] = c => d \in Waiting(r)'
    BY <1>2, <1>3 DEF FacesAreScored, Clusters, Null, Waiting
  <2> QED
    BY <1>2, <2>1 DEF Own
<1>5. ASSUME NEW c \in Clusters PROVE photoCount'[c] = Cardinality(Own(r, c)')
  BY <1>1, <1>2, <1>10, FS_EmptySet
<1>9. ASSUME NEW c \in Clusters PROVE OfOnePerson(Own(r, c))'
  BY <1>10 DEF OfOnePerson
<1>6. /\ \A g, h \in groups'[r] : g # h => g \cap h = {}
      /\ \A g \in groups'[r] : g \cap faces'[r] = {}
  BY <1>2, ClustersSplit
<1>7. \A d \in Detections : Loaded(d)' => d \in Waiting(r)'
  BY <1>2, <1>3 DEF Loaded, Waiting
<1>8. \A g \in groups'[r] : OfOnePerson(g)'
  <2>1. \A g \in groups'[r] : OfOnePerson(g)
    BY <1>2, ClustersSplit
  <2> QED
    BY <1>2, <2>1 DEF OfOnePerson, Loaded
<1> QED
  BY <1>2, <1>4, <1>5, <1>6, <1>7, <1>8, <1>9 DEF Tidied, Exact

\* A cluster is saved with the count of the faces about to be assigned to it,
\* under an id no face has.
LEMMA SaveTidies ==
    ASSUME TypeOK, NEW r \in Runs, NEW g \in SUBSET Detections,
           SaveFaceCluster(r, g), Exact(r)
    PROVE  Exact(r)'
<1>1. PICK c \in FreeClusters : /\ cluster' = [cluster EXCEPT ![r] = c]
                                /\ photoCount' = [photoCount EXCEPT ![c] = Cardinality(g)]
  BY DEF SaveFaceCluster, IsNext
<1>2. /\ c \in Clusters /\ photoCount[c] = 0 /\ cluster[r] # c
      /\ \A d \in Detections : clusterOf[d] # c
  BY DEF FreeClusters
<1>3. /\ cluster'[r] = c /\ photoCount'[c] = Cardinality(g)
      /\ \A b \in Clusters \ {c} : photoCount'[b] = photoCount[b]
  BY <1>1, <1>2 DEF TypeOK
<1>4. /\ faces[r] = {} /\ g \in groups[r] /\ faces'[r] = g
      /\ groups'[r] = groups[r] \ {g}
      /\ UNCHANGED <<score, photoOf, clusterOf>>
  BY DEF SaveFaceCluster, TypeOK
<1>5. Waiting(r)' = Waiting(r)
  BY <1>4 DEF Waiting
<1>6. Own(r, c)' = g
  BY <1>2, <1>3, <1>4 DEF Own
<1>7. \A b \in Clusters \ {c} : Own(r, b)' = Own(r, b)
  BY <1>3, <1>4, <1>5 DEF Own
<1>8. \A b \in Clusters : photoCount'[b] = Cardinality(Own(r, b)')
  BY <1>3, <1>6, <1>7 DEF Exact
<1>9. /\ \A f, h \in groups'[r] : f # h => f \cap h = {}
      /\ \A f \in groups'[r] : f \cap faces'[r] = {}
  BY <1>4 DEF Exact
<1>10. /\ \A d \in Waiting(r)' : photoOf'[d] # NoPhoto
       /\ \A d \in Detections : Loaded(d)' => d \in Waiting(r)' \/ clusterOf'[d] # Null
  BY <1>4, <1>5 DEF Exact, Loaded
<1>11. \A b \in Clusters : OfOnePerson(Own(r, b))'
  <2>1. \A b \in Clusters : Own(r, b)' = g \/ Own(r, b)' = Own(r, b)
    BY <1>6, <1>7
  <2>2. OfOnePerson(g) /\ \A b \in Clusters : OfOnePerson(Own(r, b))
    BY <1>4 DEF Exact
  <2> QED
    BY <1>4, <2>1, <2>2 DEF OfOnePerson, Loaded
<1>12. \A f \in groups'[r] : OfOnePerson(f)'
  BY <1>4 DEF Exact, OfOnePerson, Loaded
<1> QED
  BY <1>8, <1>9, <1>10, <1>11, <1>12 DEF Exact

\* A face about to be assigned is counted already, so its cluster has its row
\* and the assignment cannot be refused; the count stays that of the faces.
LEMMA AssignTidies ==
    ASSUME TypeOK, HandsOnlySaving, NEW r \in Runs, NEW d \in Detections,
           AssignFaceToCluster(r, d), Exact(r)
    PROVE  Exact(r)'
<1>1. /\ d \in faces[r] /\ faces'[r] = faces[r] \ {d}
      /\ UNCHANGED <<score, photoOf, photoCount, groups, cluster>>
  BY DEF AssignFaceToCluster, TypeOK
<1>2. PICK c \in Clusters : c = cluster[r] /\ photoOf[d] # NoPhoto
  BY <1>1 DEF HandsOnlySaving, Exact, Waiting
<1>3. photoCount[c] # 0
  <2>1. d \in Own(r, c)
    BY <1>1, <1>2 DEF Own
  <2>2. photoCount[c] = Cardinality(Own(r, c)) /\ IsFiniteSet(Own(r, c))
    BY <1>2, OwnAreFinite DEF Exact
  <2> QED
    BY <2>1, <2>2, FS_EmptySet
<1>4. clusterOf' = [clusterOf EXCEPT ![d] = c]
  BY <1>2, <1>3 DEF AssignFaceToCluster
<1>5. clusterOf'[d] = c /\ \A e \in Detections \ {d} : clusterOf'[e] = clusterOf[e]
  BY <1>4 DEF TypeOK
<1>6. Waiting(r)' = Waiting(r) \ {d}
  <2>1. d \notin UNION groups[r]
    BY <1>1 DEF Exact
  <2> QED
    BY <1>1, <2>1 DEF Waiting
<1>7. d \in Waiting(r)
  BY <1>1 DEF Waiting
<1>8. Own(r, c)' = Own(r, c)
  <2>1. Own(r, c) = {e \in Detections : photoOf[e] # NoPhoto /\ clusterOf[e] = c
                                        /\ e \notin Waiting(r)} \cup faces[r]
    BY <1>2 DEF Own
  <2>2. Own(r, c)' = {e \in Detections : photoOf[e] # NoPhoto /\ clusterOf'[e] = c
                                         /\ e \notin Waiting(r)'} \cup faces'[r]
    BY <1>1, <1>2 DEF Own
  <2> QED
    BY <1>1, <1>2, <1>5, <1>6, <1>7, <2>1, <2>2
<1>9. ASSUME NEW b \in Clusters \ {c} PROVE Own(r, b)' = Own(r, b)
  <2>1. Own(r, b) = {e \in Detections : photoOf[e] # NoPhoto /\ clusterOf[e] = b
                                        /\ e \notin Waiting(r)}
    BY <1>2, <1>9 DEF Own
  <2>2. Own(r, b)' = {e \in Detections : photoOf[e] # NoPhoto /\ clusterOf'[e] = b
                                         /\ e \notin Waiting(r)'}
    BY <1>1, <1>2, <1>9 DEF Own
  <2> QED
    BY <1>5, <1>6, <1>7, <1>9, <2>1, <2>2
<1>10. ASSUME NEW b \in Clusters PROVE photoCount'[b] = Cardinality(Own(r, b)')
  <2>1. photoCount'[b] = Cardinality(Own(r, b))
    BY <1>1 DEF Exact
  <2>2. Own(r, b)' = Own(r, b)
    BY <1>8, <1>9
  <2> QED
    BY <2>1, <2>2
<1>11. /\ \A g, h \in groups'[r] : g # h => g \cap h = {}
       /\ \A g \in groups'[r] : g \cap faces'[r] = {}
  BY <1>1 DEF Exact
<1>12. \A e \in Waiting(r)' : photoOf'[e] # NoPhoto
  BY <1>1, <1>6 DEF Exact
<1>13. \A e \in Detections : Loaded(e)' => e \in Waiting(r)' \/ clusterOf'[e] # Null
  BY <1>1, <1>2, <1>5, <1>6 DEF Exact, Loaded, Clusters, Null
<1>14. \A g \in groups'[r] : OfOnePerson(g)'
  BY <1>1 DEF Exact, OfOnePerson, Loaded
<1>15. \A b \in Clusters : OfOnePerson(Own(r, b))'
  <2>1. \A b \in Clusters : Own(r, b)' = Own(r, b)
    BY <1>8, <1>9
  <2> QED
    BY <1>1, <2>1 DEF Exact, OfOnePerson, Loaded
<1> QED
  BY <1>10, <1>11, <1>12, <1>13, <1>14, <1>15 DEF Exact

\* Whoever touches the faces under a run takes its tidiness.
LEMMA TidiedStep ==
    ASSUME TypeOK, ClustersInv, [Next]_vars
    PROVE  \A r \in Runs : tidy'[r] => Tidied(r)'
<1> SUFFICES ASSUME NEW q \in Runs, tidy'[q] PROVE Tidied(q)'
  OBVIOUS
<1> USE DEF ClustersInv, Goto, tables, rows, clustering
<1>1. CASE Quiet
  BY <1>1, TidiedKept DEF Quiet, Tidied
<1>2. ASSUME NEW r \in Runs, NEW p \in Photos,
             SaveAIScore(r, p) \/ SaveFaceDetection(r, p)
      PROVE  FALSE
  BY <1>2 DEF SaveAIScore, SaveFaceDetection
<1>3. ASSUME NEW r \in Runs, Complete(r) PROVE Tidied(q)'
  <2>1. q # r /\ tidy[q] /\ pc'[q] = pc[q] /\ cluster'[q] = cluster[q]
    BY <1>3 DEF Complete, End, TypeOK
  <2>2. UNCHANGED <<score, photoOf, clusterOf, photoCount, groups, faces>>
    BY <1>3 DEF Complete
  <2> QED
    BY <2>1, <2>2, TidiedKept
<1>4. ASSUME NEW r \in Runs, DeleteFaceClusters(r) PROVE Tidied(q)'
  <2>1. q = r /\ pc'[r] = "loading" /\ \A c \in Clusters : photoCount'[c] = 0
    BY <1>4 DEF DeleteFaceClusters, TypeOK
  <2> QED
    BY <2>1 DEF Tidied
<1>5. ASSUME NEW r \in Runs, DeleteFaceClustersFails(r) PROVE Tidied(q)'
  <2>1. tidy[q] /\ pc[r] = "deleting"
    BY <1>5 DEF DeleteFaceClustersFails, history
  <2>2. q # r
    BY <2>1 DEF Tidied
  <2> QED
    BY <1>5, <2>1, <2>2, TidiedKept DEF DeleteFaceClustersFails, TypeOK
<1>6. ASSUME NEW r \in Runs, LoadAndCluster(r) PROVE Tidied(q)'
  <2>1. tidy[q]
    BY <1>6 DEF LoadAndCluster, history
  <2>2. CASE q = r
    BY <1>6, <2>1, <2>2, LoadTidies
  <2>3. CASE q # r
    BY <1>6, <2>1, <2>3, TidiedKept DEF LoadAndCluster, TypeOK
  <2> QED
    BY <2>2, <2>3
<1>7. ASSUME NEW r \in Runs, LoadFails(r) PROVE Tidied(q)'
  <2>1. q # r /\ tidy[q]
    BY <1>7 DEF LoadFails, TypeOK
  <2>2. /\ pc'[q] = pc[q] /\ groups'[q] = groups[q]
        /\ UNCHANGED <<score, photoOf, clusterOf, photoCount, faces, cluster>>
    BY <1>7, <2>1 DEF LoadFails, TypeOK
  <2> QED
    BY <2>1, <2>2, TidiedKept
<1>8. ASSUME NEW r \in Runs, NEW g \in SUBSET Detections, SaveFaceCluster(r, g)
      PROVE  Tidied(q)'
  <2>1. q = r /\ tidy[r] /\ pc[r] = "saving" /\ UNCHANGED pc
    BY <1>8 DEF SaveFaceCluster, Untidy
  <2>2. Exact(r)
    BY <2>1 DEF Tidied
  <2> QED
    BY <1>8, <2>1, <2>2, SaveTidies DEF Tidied
<1>9. ASSUME NEW r \in Runs, NEW g \in SUBSET Detections, SaveFaceClusterFails(r, g)
      PROVE  Tidied(q)'
  <2>1. /\ q # r /\ tidy[q] /\ groups'[q] = groups[q]
        /\ UNCHANGED <<score, photoOf, clusterOf, photoCount, pc, faces, cluster>>
    BY <1>9 DEF SaveFaceClusterFails, TypeOK
  <2> QED
    BY <2>1, TidiedKept
<1>10. ASSUME NEW r \in Runs, NEW d \in Detections, AssignFaceToCluster(r, d)
       PROVE  Tidied(q)'
  <2>1. q = r /\ tidy[r] /\ UNCHANGED pc /\ d \in faces[r]
    BY <1>10 DEF AssignFaceToCluster, Untidy
  <2>2. pc[r] = "saving" /\ Exact(r)
    BY <2>1 DEF Tidied, HandsOnlySaving
  <2> QED
    BY <1>10, <2>1, <2>2, AssignTidies DEF Tidied
<1>11. ASSUME NEW r \in Runs, NEW d \in Detections, AssignFails(r, d)
       PROVE  Tidied(q)'
  <2>1. /\ q # r /\ tidy[q] /\ faces'[q] = faces[q]
        /\ UNCHANGED <<score, photoOf, clusterOf, photoCount, pc, groups, cluster>>
    BY <1>11 DEF AssignFails, TypeOK
  <2> QED
    BY <2>1, TidiedKept
<1>12. CASE ClearAIData \/ Crash
  BY <1>12 DEF ClearAIData, Crash
<1> QED
  BY <1>1, <1>2, <1>3, <1>4, <1>5, <1>6, <1>7, <1>8, <1>9, <1>10, <1>11, <1>12,
     ClusterSteps DEF RunFaceClustering

\* A clustering that nobody disturbed ends with one cluster for every person on
\* the faces with a score, all of them in it and counted right, whatever earlier
\* runs, crashes and dangling assignments had left: a face that has, or waits
\* for, a cluster has a score, so the clustering assigns it anew.
THEOREM ExactClusters == Spec => []ClustersAreExact
<1>1. Init => ClustersInv
  BY DEF Init, ClustersInv, HandsOnlySaving, FacesAreScored, Waiting, Nothing
<1>2. TypeOK /\ ClustersInv /\ [Next]_vars => ClustersInv'
  BY HandsOnlySavingStep, FacesAreScoredStep, TidiedStep DEF ClustersInv
<1>3. ASSUME TypeOK, ClustersInv PROVE ClustersAreExact
  <2> SUFFICES ASSUME NEW r \in Runs, Clustered(r), tidy[r]
               PROVE  /\ \A c \in Clusters : photoCount[c] = Cardinality(FacesOf(c))
                      /\ \A d \in ScoredFaces : clusterOf[d] # Null
                      /\ \A d, e \in ScoredFaces :
                            clusterOf[d] = clusterOf[e] <=>
                               PersonOf[photoOf[d]] = PersonOf[photoOf[e]]
    BY DEF ClustersAreExact
  <2>1. Exact(r)
    BY <1>3 DEF ClustersInv, Tidied, Clustered
  <2>2. Waiting(r) = {} /\ faces[r] = {}
    BY DEF Clustered, Waiting
  <2>3. \A c : Own(r, c) = FacesOf(c)
    BY <2>2 DEF Own, FacesOf
  <2>4. \A d \in ScoredFaces : Loaded(d) /\ d \in Detections /\ clusterOf[d] # Null
    BY <2>1, <2>2 DEF Exact, ScoredFaces, Loaded
  <2>5. ASSUME NEW d \in ScoredFaces, NEW e \in ScoredFaces
        PROVE  clusterOf[d] = clusterOf[e] <=> PersonOf[photoOf[d]] = PersonOf[photoOf[e]]
    <3>1. clusterOf[d] \in Clusters
      BY <1>3, <2>4 DEF TypeOK
    <3>2. d \in FacesOf(clusterOf[d]) /\ (e \in FacesOf(clusterOf[d]) <=> clusterOf[e] = clusterOf[d])
      BY <2>4 DEF FacesOf, Loaded
    <3>3. OfOnePerson(FacesOf(clusterOf[d]))
      BY <2>1, <2>3, <3>1 DEF Exact
    <3> QED
      BY <2>4, <3>2, <3>3 DEF OfOnePerson
  <2> QED
    BY <2>1, <2>3, <2>4, <2>5 DEF Exact
<1> QED
  BY <1>1, <1>2, <1>3, TypeCorrect, PTL DEF Spec

-------------------------------------------------------------------------------
(***************************************************************************)
(* ScoringPipeline: the scoring of a photo, for any number of plugins,     *)
(* faces and recognizers, and a context cancelled at any moment.           *)
(***************************************************************************)

\* The faces of a detector, as a sequence.
LEMMA RegionsType ==
    ASSUME NEW d \in Finders, NEW n \in 0 .. MaxFaces
    PROVE  /\ RegionsOf(d, n) \in Seq(Regions)
           /\ Len(RegionsOf(d, n)) = n
           /\ \A i \in 1 .. n : RegionsOf(d, n)[i] = <<d, i>>
<1>1. n \in Nat /\ \A i \in 1 .. n : <<d, i>> \in Regions
  BY MaxFacesNat DEF Regions
<1>2. RegionsOf(d, n) \in [1 .. n -> Regions]
  BY <1>1 DEF RegionsOf
<1> QED
  BY <1>1, <1>2 DEF RegionsOf

LEMMA ReportTypes ==
    ASSUME PipelineTypeOK, NEW p \in Plugins, PluginNext(p)
    PROVE  PipelineTypeOK'
<1> USE DEF PipelineTypeOK, stage1, stage2, written
<1> DEFINE Parts == {"new", "absent", "running", "done", "failed", "stopped"}
<1>1. CASE Launch(p)
  <2>1. PICK there \in {"running", "absent"} : part' = [part EXCEPT ![p] = there]
    BY <1>1 DEF Launch
  <2>2. part' \in [Plugins -> Parts]
    BY <2>1
  <2>3. UNCHANGED <<phase, ctxDone, regions, metrics, recognizer, face, batch, vectors,
                    scoreRow, stored, found, skipped, interrupted>>
    BY <1>1 DEF Launch
  <2> QED
    BY <2>2, <2>3
<1>2. CASE p \in Finders /\ FinderReports(p)
  <2>1. PICK n \in 0 .. MaxFaces :
          /\ regions' = regions \o RegionsOf(p, n)
          /\ found' = [found EXCEPT ![p] = n]
    BY <1>2 DEF FinderReports
  <2>2. regions' \in Seq(Regions)
    <3>1. RegionsOf(p, n) \in Seq(Regions)
      BY <1>2, RegionsType
    <3> QED
      BY <2>1, <3>1
  <2>3. found' \in [Finders -> 0 .. MaxFaces] /\ part' \in [Plugins -> Parts]
    BY <1>2, <2>1 DEF FinderReports
  <2>4. UNCHANGED <<phase, ctxDone, metrics, recognizer, face, batch, vectors, scoreRow,
                    stored, skipped, interrupted>>
    BY <1>2 DEF FinderReports
  <2> QED
    BY <2>2, <2>3, <2>4
<1>3. CASE p \in Gauges /\ GaugeReports(p)
  <2>1. part' \in [Plugins -> Parts] /\ metrics' \subseteq Gauges
    BY <1>3 DEF GaugeReports
  <2>2. UNCHANGED <<phase, ctxDone, regions, recognizer, face, batch, vectors, scoreRow,
                    stored, found, skipped, interrupted>>
    BY <1>3 DEF GaugeReports
  <2> QED
    BY <2>1, <2>2
<1>4. CASE PluginFails(p)
  <2>1. part' \in [Plugins -> Parts]
    BY <1>4 DEF PluginFails
  <2>2. UNCHANGED <<phase, ctxDone, regions, metrics, recognizer, face, batch, vectors,
                    scoreRow, stored, found, skipped, interrupted>>
    BY <1>4 DEF PluginFails
  <2> QED
    BY <2>1, <2>2
<1> QED
  BY <1>1, <1>2, <1>3, <1>4 DEF PluginNext

LEMMA RowType ==
    ASSUME PipelineTypeOK
    PROVE  Row(face) \in Rows
<1>1. CASE face <= Len(vectors)
  <2>1. vectors[face] \in Nat
    BY <1>1 DEF PipelineTypeOK
  <2> QED
    BY <1>1, <2>1 DEF PipelineTypeOK, Row, Rows
<1>2. CASE ~(face <= Len(vectors))
  BY <1>2 DEF PipelineTypeOK, Row, Rows, None
<1> QED
  BY <1>1, <1>2

LEMMA ExecuteTypes ==
    ASSUME PipelineTypeOK, ExecuteNext
    PROVE  PipelineTypeOK'
<1> USE DEF PipelineTypeOK, stage1, stage2, written, Phases
<1>1. CASE Stage1Ends
  BY <1>1 DEF Stage1Ends
<1>2. CASE RecognitionEnds
  BY <1>2 DEF RecognitionEnds
<1>3. CASE PassOver \/ RecognizerFails \/ Interrupt
  <2>1. recognizer' \in 1 .. Recognizers + 1
    BY <1>3, RecognizersNat DEF PassOver, RecognizerFails, Interrupt, NextRecognizer
  <2> QED
    BY <1>3, <2>1 DEF PassOver, RecognizerFails, Interrupt, NextRecognizer
<1>4. CASE Recognize
  BY <1>4 DEF Recognize
<1>5. CASE EmbedFace
  BY <1>5 DEF EmbedFace
<1>6. CASE SkipFace
  BY <1>6 DEF SkipFace
<1>7. CASE Embedded
  <2>1. recognizer' \in 1 .. Recognizers + 1
    BY <1>7, RecognizersNat DEF Embedded, NextRecognizer
  <2> QED
    BY <1>7, <2>1 DEF Embedded, NextRecognizer
<1>8. CASE WriteScore
  BY <1>8 DEF WriteScore
<1>9. CASE WriteDetection
  <2>1. Row(face) \in Rows /\ stored \in Seq(Rows)
    BY RowType
  <2>2. stored' = stored \/ stored' = Append(stored, Row(face))
    BY <1>9 DEF WriteDetection
  <2>3. stored' \in Seq(Rows)
    <3> HIDE DEF PipelineTypeOK
    <3> QED
      BY <2>1, <2>2, AppendProperties
  <2>4. /\ UNCHANGED <<phase, ctxDone, part, regions, metrics, recognizer, batch,
                       vectors, scoreRow, found, skipped, interrupted>>
        /\ face' = face + 1
    BY <1>9 DEF WriteDetection
  <2> QED
    BY <2>3, <2>4
<1>10. CASE PhotoScored
  BY <1>10 DEF PhotoScored
<1> QED
  BY <1>1, <1>2, <1>3, <1>4, <1>5, <1>6, <1>7, <1>8, <1>9, <1>10
     DEF ExecuteNext, Stage2Next, SaveNext

\* What a detector appends are its faces, and it had appended none before.
LEMMA AppendKeepsReports ==
    ASSUME PipelineTypeOK, ReportsAreKept, NEW d \in Finders, FinderReports(d)
    PROVE  ReportsAreKept'
<1>1. PICK n \in 0 .. MaxFaces :
        /\ regions' = regions \o RegionsOf(d, n)
        /\ found' = [found EXCEPT ![d] = n]
  BY DEF FinderReports
<1> DEFINE own == RegionsOf(d, n)
<1>2. /\ regions \in Seq(Regions) /\ own \in Seq(Regions) /\ Len(own) = n
      /\ \A i \in 1 .. n : own[i] = <<d, i>>
  BY RegionsType DEF PipelineTypeOK
<1>n. n \in Nat /\ n <= MaxFaces
  BY MaxFacesNat
<1>3. found[d] = 0 /\ \A e \in Finders : found'[e] = IF e = d THEN n ELSE found[e]
  BY <1>1 DEF ReportsAreKept, FinderReports, PipelineTypeOK
<1> HIDE DEF own
<1>4. \A x : x \in FacesKept' <=> x \in FacesKept \/ \E i \in 1 .. n : x = <<d, i>>
  <2>1. Len(regions') = Len(regions) + n
    BY <1>1, <1>2, ConcatProperties DEF own
  <2>2. \A i \in 1 .. Len(regions) : regions'[i] = regions[i]
    BY <1>1, <1>2 DEF own
  <2>3. \A i \in 1 .. n : regions'[Len(regions) + i] = <<d, i>>
    BY <1>1, <1>2, <1>n DEF own
  <2>4. \A i \in 1 .. Len(regions') :
          i \in 1 .. Len(regions) \/ \E j \in 1 .. n : i = Len(regions) + j
    <3> SUFFICES ASSUME NEW i \in 1 .. Len(regions'), i \notin 1 .. Len(regions)
                 PROVE  \E j \in 1 .. n : i = Len(regions) + j
      OBVIOUS
    <3>1. i - Len(regions) \in 1 .. n /\ i = Len(regions) + (i - Len(regions))
      BY <1>2, <1>n, <2>1
    <3> QED
      BY <3>1
  <2>5. \A i \in 1 .. Len(regions) : i \in 1 .. Len(regions')
    BY <1>2, <1>n, <2>1
  <2>6. \A i \in 1 .. n : Len(regions) + i \in 1 .. Len(regions')
    BY <1>2, <1>n, <2>1
  <2>7. ASSUME NEW x, x \in FacesKept'
        PROVE  x \in FacesKept \/ \E i \in 1 .. n : x = <<d, i>>
    <3>1. PICK i \in 1 .. Len(regions') : x = regions'[i]
      BY <2>7 DEF FacesKept
    <3>2. CASE i \in 1 .. Len(regions)
      BY <2>2, <3>1, <3>2 DEF FacesKept
    <3>3. CASE \E j \in 1 .. n : i = Len(regions) + j
      BY <2>3, <3>1, <3>3
    <3> QED
      BY <2>4, <3>2, <3>3
  <2>8. ASSUME NEW x, x \in FacesKept PROVE x \in FacesKept'
    BY <2>2, <2>5, <2>8 DEF FacesKept
  <2>9. ASSUME NEW i \in 1 .. n PROVE <<d, i>> \in FacesKept'
    <3>1. regions'[Len(regions) + i] = <<d, i>>
      BY <2>3
    <3>2. Len(regions) + i \in 1 .. Len(regions')
      BY <2>6
    <3> QED
      BY <3>1, <3>2 DEF FacesKept
  <2> QED
    BY <2>7, <2>8, <2>9
<1>5. \A x : x \in FacesReported' <=> x \in FacesReported \/ \E i \in 1 .. n : x = <<d, i>>
  <2>1. ASSUME NEW x, x \in FacesReported'
        PROVE  x \in FacesReported \/ \E i \in 1 .. n : x = <<d, i>>
    <3>1. PICK e \in Finders, i \in 1 .. MaxFaces : x = <<e, i>>
      BY <2>1 DEF FacesReported, Regions
    <3>2. i <= found'[e]
      BY <2>1, <3>1 DEF FacesReported
    <3>3. CASE e = d
      <4>1. i \in 1 .. n
        BY <1>3, <1>n, <3>2, <3>3
      <4> QED
        BY <3>1, <3>3, <4>1
    <3>4. CASE e # d
      BY <1>3, <3>1, <3>2, <3>4 DEF FacesReported, Regions
    <3> QED
      BY <3>3, <3>4
  <2>2. ASSUME NEW x, x \in FacesReported PROVE x \in FacesReported'
    <3>1. PICK e \in Finders, i \in 1 .. MaxFaces : x = <<e, i>>
      BY <2>2 DEF FacesReported, Regions
    <3>2. i <= found[e]
      BY <2>2, <3>1 DEF FacesReported
    <3>3. e # d
      BY <1>3, <3>2
    <3> QED
      BY <1>3, <3>1, <3>2, <3>3 DEF FacesReported, Regions
  <2>3. ASSUME NEW i \in 1 .. n PROVE <<d, i>> \in FacesReported'
    <3>1. i \in 1 .. MaxFaces /\ i <= found'[d]
      BY <1>3, <1>n, MaxFacesNat
    <3> QED
      BY <3>1 DEF FacesReported, Regions
  <2> QED
    BY <2>1, <2>2, <2>3
<1>6. /\ \A e \in Finders : part'[e] # "done" => found'[e] = 0
      /\ metrics' = {q \in Gauges : part'[q] = "done"}
  <2>1. /\ metrics' = metrics
        /\ \A p \in Plugins : part'[p] = IF p = d THEN "done" ELSE part[p]
        /\ d \notin Gauges
    BY FindersAreNoGauges DEF FinderReports, PipelineTypeOK
  <2>2. \A e \in Finders : part'[e] # "done" => found'[e] = 0
    BY <1>3, <2>1 DEF ReportsAreKept, Plugins
  <2>3. \A q \in Gauges : part'[q] = part[q]
    BY <2>1 DEF Plugins
  <2> QED
    BY <2>1, <2>2, <2>3 DEF ReportsAreKept
<1>7. \A x : x \in FacesKept' <=> x \in FacesReported'
  BY <1>4, <1>5 DEF ReportsAreKept
<1>8. FacesKept' = FacesReported'
  BY <1>7 DEF FacesReported
<1> QED
  BY <1>6, <1>8 DEF ReportsAreKept

\* Every other step of a plugin.
LEMMA PluginsKeepReports ==
    ASSUME PipelineTypeOK, ReportsAreKept, NEW p \in Plugins, PluginNext(p)
    PROVE  ReportsAreKept'
<1>1. CASE Launch(p) \/ PluginFails(p)
  <2>1. /\ UNCHANGED <<regions, metrics, found>>
        /\ part[p] \in {"new", "running"} /\ part'[p] # "done"
        /\ \A r \in Plugins : r # p => part'[r] = part[r]
    BY <1>1 DEF Launch, PluginFails, PipelineTypeOK
  <2>2. \A r \in Plugins : part'[r] = "done" <=> part[r] = "done"
    BY <2>1
  <2>3. \A d \in Finders : part'[d] # "done" => found'[d] = 0
    BY <2>1, <2>2 DEF ReportsAreKept, Plugins
  <2>4. metrics' = {q \in Gauges : part'[q] = "done"}
    BY <2>1, <2>2 DEF ReportsAreKept, Plugins
  <2>5. FacesKept' = FacesKept /\ FacesReported' = FacesReported
    BY <2>1 DEF FacesKept, FacesReported
  <2> QED
    BY <2>3, <2>4, <2>5 DEF ReportsAreKept
<1>2. CASE p \in Finders /\ FinderReports(p)
  BY <1>2, AppendKeepsReports
<1>3. CASE p \in Gauges /\ GaugeReports(p)
  <2>1. /\ UNCHANGED <<regions, found>>
        /\ metrics' = metrics \cup {p}
        /\ \A r \in Plugins : part'[r] = IF r = p THEN "done" ELSE part[r]
        /\ p \notin Finders
    BY <1>3, FindersAreNoGauges DEF GaugeReports, PipelineTypeOK
  <2>2. \A d \in Finders : part'[d] # "done" => found'[d] = 0
    BY <2>1 DEF ReportsAreKept, Plugins
  <2>3. metrics' = {q \in Gauges : part'[q] = "done"}
    BY <1>3, <2>1 DEF ReportsAreKept, Plugins
  <2>4. FacesKept' = FacesKept /\ FacesReported' = FacesReported
    BY <2>1 DEF FacesKept, FacesReported
  <2> QED
    BY <2>2, <2>3, <2>4 DEF ReportsAreKept
<1> QED
  BY <1>1, <1>2, <1>3 DEF PluginNext

LEMMA PluginsKeep ==
    ASSUME PipelineInv, NEW p \in Plugins, PluginNext(p)
    PROVE  PipelineInv'
<1>1. PipelineTypeOK' /\ ReportsAreKept'
  BY ReportTypes, PluginsKeepReports DEF PipelineInv
<1>2. /\ UNCHANGED <<phase, ctxDone, face, recognizer, batch, vectors, skipped,
                     interrupted, scoreRow, stored>>
      /\ part[p] \in {"new", "running"}
      /\ \A r \in Plugins : r # p => part'[r] = part[r]
      /\ part'[p] = "stopped" => GroupDone
  BY DEF PluginNext, Launch, FinderReports, GaugeReports, PluginFails, stage2, written,
         PipelineInv, PipelineTypeOK
<1>3. phase = "stage1" /\ vectors = <<>> /\ stored = <<>>
  BY <1>2 DEF PipelineInv, Stage1IsOver, StoredInOrder
<1>4. OnlyCancellationFails' /\ Stage1IsOver' /\ BatchIsPrefix'
        /\ VectorsAreCopies' /\ StoredInOrder'
  BY <1>2, <1>3 DEF OnlyCancellationFails, Stage1IsOver, BatchIsPrefix,
                    VectorsAreCopies, StoredInOrder
<1>5. StopsHaveCause'
  BY <1>2 DEF PipelineInv, StopsHaveCause, GroupDone
<1> QED
  BY <1>1, <1>4, <1>5 DEF PipelineInv

\* After stage 1 its results stay.
LEMMA StageOneStays ==
    ASSUME PipelineInv, UNCHANGED stage1, UNCHANGED ctxDone, phase' # "stage1",
           phase # "stage1", phase # "error",
           interrupted' => interrupted \/ ctxDone,
           phase' = "error" => ctxDone
    PROVE  OnlyCancellationFails' /\ StopsHaveCause' /\ ReportsAreKept' /\ Stage1IsOver'
BY DEF PipelineInv, stage1, OnlyCancellationFails, StopsHaveCause, ReportsAreKept,
       Stage1IsOver, FacesKept, FacesReported

LEMMA StageOneKeeps ==
    ASSUME PipelineInv, Stage1Ends
    PROVE  PipelineInv'
<1>1. PipelineTypeOK'
  BY ExecuteTypes DEF ExecuteNext, PipelineInv
<1>2. /\ UNCHANGED <<part, regions, metrics, found, ctxDone, face, recognizer, batch,
                     vectors, skipped, interrupted, scoreRow, stored>>
      /\ phase = "stage1" /\ phase' \in {"error", "recognize", "merge"}
      /\ \A p \in Plugins : part[p] \notin {"new", "running"}
      /\ phase' = "error" <=> GroupDone
  BY DEF Stage1Ends, stage1, stage2, written
<1>3. GroupDone => ctxDone
  BY DEF GroupDone, PipelineInv, StopsHaveCause
<1>4. stored = <<>> /\ vectors = <<>>
  BY <1>2 DEF PipelineInv, StoredInOrder, Stage1IsOver
<1>5. OnlyCancellationFails' /\ StopsHaveCause' /\ ReportsAreKept'
  BY <1>2, <1>3 DEF PipelineInv, OnlyCancellationFails, StopsHaveCause, ReportsAreKept,
                    FacesKept, FacesReported
<1>6. Stage1IsOver'
  BY <1>2 DEF Stage1IsOver, GroupDone
<1>7. BatchIsPrefix' /\ VectorsAreCopies' /\ StoredInOrder'
  BY <1>2, <1>4 DEF BatchIsPrefix, VectorsAreCopies, StoredInOrder
<1> QED
  BY <1>1, <1>5, <1>6, <1>7 DEF PipelineInv

LEMMA RecognitionKeeps ==
    ASSUME PipelineInv, Stage2Next
    PROVE  PipelineInv'
<1>1. PipelineTypeOK'
  BY ExecuteTypes DEF ExecuteNext, PipelineInv
<1>2. /\ UNCHANGED stage1 /\ UNCHANGED ctxDone /\ UNCHANGED stored
      /\ phase \in {"recognize", "embed"}
      /\ phase' \in {"recognize", "embed", "merge", "error"}
      /\ interrupted' => interrupted \/ ctxDone
      /\ phase' = "error" => ctxDone
      /\ skipped => skipped'
  BY DEF Stage2Next, RecognitionEnds, PassOver, Recognize, RecognizerFails, EmbedFace,
         SkipFace, Interrupt, Embedded, NextRecognizer, stage1, stage2, written
<1>3. OnlyCancellationFails' /\ StopsHaveCause' /\ ReportsAreKept' /\ Stage1IsOver'
  BY <1>2, StageOneStays
<1>4. stored = <<>>
  BY <1>2 DEF PipelineInv, StoredInOrder
<1>5. StoredInOrder'
  BY <1>2, <1>4 DEF StoredInOrder
<1>6. regions' = regions /\ regions \in Seq(Regions) /\ batch \in Seq(Nat)
        /\ vectors \in Seq(Nat) /\ face \in Nat \ {0}
  BY <1>2 DEF stage1, PipelineInv, PipelineTypeOK
<1>7. BatchIsPrefix'
  <2>1. CASE Recognize
    BY <1>6, <2>1 DEF Recognize, BatchIsPrefix
  <2>2. CASE EmbedFace
    <3> SUFFICES ASSUME ~skipped'
                 PROVE  /\ Len(batch') = face' - 1 /\ face' <= Len(regions') + 1
                        /\ \A i \in 1 .. Len(batch') : batch'[i] = i
      BY DEF BatchIsPrefix
    <3>1. /\ Len(batch) = face - 1 /\ face <= Len(regions)
          /\ \A i \in 1 .. Len(batch) : batch[i] = i
          /\ batch' = Append(batch, face) /\ face' = face + 1
      BY <2>2, <1>2 DEF EmbedFace, BatchIsPrefix, PipelineInv
    <3>2. Len(batch') = Len(batch) + 1
      BY <1>6, <3>1
    <3>3. \A i \in 1 .. Len(batch') : batch'[i] = i
      BY <1>6, <3>1, <3>2
    <3> QED
      BY <1>6, <3>1, <3>2, <3>3
  <2>3. CASE SkipFace
    BY <2>3 DEF SkipFace, BatchIsPrefix
  <2>4. CASE RecognitionEnds \/ PassOver \/ RecognizerFails \/ Interrupt \/ Embedded
    BY <2>4 DEF RecognitionEnds, PassOver, RecognizerFails, Interrupt, Embedded,
                NextRecognizer, BatchIsPrefix
  <2> QED
    BY <2>1, <2>2, <2>3, <2>4 DEF Stage2Next
<1>8. VectorsAreCopies'
  <2>1. CASE Embedded
    <3> SUFFICES ASSUME ~skipped, vectors' # <<>>
                 PROVE  /\ Len(vectors') >= Len(regions)
                        /\ \A i \in 1 .. Len(regions) : vectors'[i] = i
      BY <1>2, <1>6 DEF VectorsAreCopies
    <3>1. /\ vectors' = vectors \o batch
          /\ Len(batch) = Len(regions) /\ \A i \in 1 .. Len(regions) : batch[i] = i
      BY <1>6, <2>1 DEF Embedded, BatchIsPrefix, PipelineInv
    <3>2. CASE vectors = <<>>
      BY <1>6, <3>1, <3>2
    <3>3. CASE vectors # <<>>
      <4>1. /\ Len(vectors) >= Len(regions)
            /\ \A i \in 1 .. Len(regions) : vectors[i] = i
        BY <3>3 DEF PipelineInv, VectorsAreCopies
      <4>2. /\ Len(vectors') = Len(vectors) + Len(batch)
            /\ \A i \in 1 .. Len(vectors) : vectors'[i] = vectors[i]
        <5>1. vectors \in Seq(Nat) /\ batch \in Seq(Nat)
          BY <1>6
        <5>2. Len(vectors \o batch) = Len(vectors) + Len(batch)
          BY <5>1, ConcatProperties
        <5>3. \A i \in 1 .. Len(vectors) : (vectors \o batch)[i] = vectors[i]
          BY <5>1
        <5> QED
          BY <3>1, <5>2, <5>3
      <4>3. Len(regions) \in Nat /\ Len(vectors) \in Nat /\ Len(batch) \in Nat
        BY <1>6
      <4>4. \A i \in 1 .. Len(regions) : i \in 1 .. Len(vectors)
        BY <4>1, <4>3
      <4> QED
        BY <4>1, <4>2, <4>3, <4>4
    <3> QED
      BY <3>2, <3>3
  <2>2. CASE ~Embedded
    <3>1. vectors' = vectors
      BY <2>2 DEF Stage2Next, RecognitionEnds, PassOver, Recognize, RecognizerFails,
                  EmbedFace, SkipFace, Interrupt, stage2
    <3> QED
      BY <1>2, <1>6, <3>1 DEF PipelineInv, VectorsAreCopies
  <2> QED
    BY <2>1, <2>2
<1> QED
  BY <1>1, <1>3, <1>5, <1>7, <1>8 DEF PipelineInv

LEMMA SavingKeeps ==
    ASSUME PipelineInv, SaveNext
    PROVE  PipelineInv'
<1>1. PipelineTypeOK'
  BY ExecuteTypes DEF ExecuteNext, PipelineInv
<1>2. /\ UNCHANGED stage1 /\ UNCHANGED ctxDone
      /\ UNCHANGED <<recognizer, batch, vectors, skipped, interrupted>>
      /\ phase \in {"merge", "saving"} /\ phase' \in {"saving", "scored"}
  BY DEF SaveNext, WriteScore, WriteDetection, PhotoScored, stage1, stage2, written
<1>3. OnlyCancellationFails' /\ StopsHaveCause' /\ ReportsAreKept' /\ Stage1IsOver'
  BY <1>2, StageOneStays
<1>4. regions' = regions
  BY <1>2 DEF stage1
<1>5. BatchIsPrefix' /\ VectorsAreCopies'
  BY <1>2, <1>4 DEF PipelineInv, BatchIsPrefix, VectorsAreCopies
<1>6. StoredInOrder'
  <2>1. CASE stored' = stored
    BY <1>2, <1>4, <2>1 DEF PipelineInv, StoredInOrder, Row
  <2>2. CASE stored' # stored
    <3>1. /\ stored' = Append(stored, Row(face)) /\ face <= Len(regions)
      BY <2>2 DEF SaveNext, WriteScore, WriteDetection, PhotoScored, written
    <3>2. stored \in Seq(Rows) /\ face \in 1 .. Len(regions)
      BY <3>1 DEF PipelineInv, PipelineTypeOK
    <3>3. /\ Len(stored') = Len(stored) + 1
          /\ stored'[Len(stored) + 1] = Row(face)
          /\ \A i \in 1 .. Len(stored) : stored'[i] = stored[i]
      BY <3>1, <3>2, RowType DEF PipelineInv
    <3>4. Row(face).region = face
      BY DEF Row
    <3>5. \A i \in 1 .. Len(stored') : i \in 1 .. Len(stored) \/ i = Len(stored) + 1
      BY <3>2, <3>3
    <3>6. \A i \in 1 .. Len(stored') : /\ stored'[i].region \in 1 .. Len(regions)
                                       /\ stored'[i] = Row(stored'[i].region)
      BY <3>2, <3>3, <3>4, <3>5 DEF PipelineInv, StoredInOrder
    <3> QED
      BY <1>2, <1>4, <3>6 DEF StoredInOrder, Row
  <2> QED
    BY <2>1, <2>2
<1> QED
  BY <1>1, <1>3, <1>5, <1>6 DEF PipelineInv

LEMMA InitPipelineInv == PipelineInit => PipelineInv
<1> SUFFICES ASSUME PipelineInit PROVE PipelineInv
  OBVIOUS
<1> USE DEF PipelineInit
<1>1. PipelineTypeOK
  <2>1. /\ <<>> \in Seq(Regions) /\ <<>> \in Seq(Nat) /\ <<>> \in Seq(Rows)
        /\ 1 \in 1 .. Recognizers + 1 /\ 0 \in 0 .. MaxFaces
    BY RecognizersNat, MaxFacesNat
  <2>2. found \in [Finders -> 0 .. MaxFaces]
    BY <2>1
  <2>3. part \in [Plugins -> {"new", "absent", "running", "done", "failed", "stopped"}]
    OBVIOUS
  <2> QED
    <3>1. /\ regions \in Seq(Regions) /\ batch \in Seq(Nat) /\ vectors \in Seq(Nat)
          /\ stored \in Seq(Rows) /\ metrics \subseteq Gauges
          /\ recognizer \in 1 .. Recognizers + 1 /\ face \in Nat \ {0}
      BY <2>1
    <3>2. /\ phase \in Phases /\ phase # "embed" /\ ctxDone \in BOOLEAN
          /\ scoreRow \in BOOLEAN /\ skipped \in BOOLEAN /\ interrupted \in BOOLEAN
      BY DEF Phases
    <3> QED
      BY <2>2, <2>3, <3>1, <3>2 DEF PipelineTypeOK
<1>2. ReportsAreKept
  <2>1. /\ \A d \in Finders : found[d] = 0
        /\ \A p \in Plugins : part[p] # "done"
        /\ Len(regions) = 0
    OBVIOUS
  <2>2. FacesKept = {}
    BY <2>1 DEF FacesKept
  <2>3. FacesReported = {}
    <3>1. \A r \in Regions : r[1] \in Finders /\ r[2] \in 1 .. MaxFaces
      BY DEF Regions
    <3>2. \A r \in Regions : ~(r[2] <= found[r[1]])
      BY <2>1, <3>1, MaxFacesNat
    <3> QED
      BY <3>2 DEF FacesReported
  <2> QED
    BY <2>1, <2>2, <2>3 DEF ReportsAreKept, Plugins
<1> QED
  BY <1>1, <1>2 DEF PipelineInv, OnlyCancellationFails, StopsHaveCause, Stage1IsOver,
                    BatchIsPrefix, VectorsAreCopies, StoredInOrder

LEMMA NextPipelineInv == PipelineInv /\ [PipelineNext]_pipelineVars => PipelineInv'
<1> SUFFICES ASSUME PipelineInv, [PipelineNext]_pipelineVars PROVE PipelineInv'
  OBVIOUS
<1>1. ASSUME NEW p \in Plugins, PluginNext(p) PROVE PipelineInv'
  BY <1>1, PluginsKeep
<1>2. CASE ExecuteNext
  BY <1>2, StageOneKeeps, RecognitionKeeps, SavingKeeps DEF ExecuteNext
<1>3. CASE CancelContext
  <2>1. /\ ctxDone' = TRUE
        /\ UNCHANGED <<phase, part, regions, metrics, recognizer, face, batch, vectors,
                       scoreRow, stored, found, skipped, interrupted>>
    BY <1>3 DEF CancelContext, stage1, stage2, written
  <2>2. PipelineTypeOK'
    BY <2>1 DEF PipelineInv, PipelineTypeOK
  <2> QED
    BY <2>1, <2>2 DEF PipelineInv, OnlyCancellationFails, StopsHaveCause,
                      ReportsAreKept, Stage1IsOver, BatchIsPrefix, VectorsAreCopies,
                      StoredInOrder, Row, FacesKept, FacesReported
<1>4. CASE UNCHANGED pipelineVars
  <2>1. UNCHANGED <<phase, ctxDone, part, regions, metrics, recognizer, face, batch,
                    vectors, scoreRow, stored, found, skipped, interrupted>>
    BY <1>4 DEF pipelineVars
  <2>2. PipelineTypeOK'
    BY <2>1 DEF PipelineInv, PipelineTypeOK
  <2> QED
    BY <2>1, <2>2 DEF PipelineInv, OnlyCancellationFails, StopsHaveCause,
                      ReportsAreKept, Stage1IsOver, BatchIsPrefix, VectorsAreCopies,
                      StoredInOrder, Row, FacesKept, FacesReported
<1> QED
  BY <1>1, <1>2, <1>3, <1>4 DEF PipelineNext

LEMMA PipelineInvariant == PipelineSpec => []PipelineInv
BY InitPipelineInv, NextPipelineInv, PTL DEF PipelineSpec

\* The variables of the pipeline keep their types.
THEOREM PipelineTypes == PipelineSpec => []PipelineTypeOK
<1>1. PipelineInv => PipelineTypeOK
  BY DEF PipelineInv
<1> QED
  BY <1>1, PipelineInvariant, PTL

\* No plugin's failure leaves a photo without a score, only a cancellation
\* does: the errors Execute returns, pipeline.go:150.
THEOREM OnlyCancellations == PipelineSpec => []OnlyCancellationFails
<1>1. PipelineInv => OnlyCancellationFails
  BY DEF PipelineInv
<1> QED
  BY <1>1, PipelineInvariant, PTL

\* A score is made from all that the plugins reported, in whatever order they
\* did: the appends under facesMu and qualMu, and eg.Wait.
THEOREM CompleteScores == PipelineSpec => []ScoresAreComplete
<1>1. PipelineInv => ScoresAreComplete
  <2> SUFFICES ASSUME PipelineInv, phase \notin {"stage1", "error"}
               PROVE  \A p \in Plugins : part[p] \in {"absent", "done", "failed"}
    BY DEF ScoresAreComplete, PipelineInv, ReportsAreKept
  <2> QED
    BY DEF PipelineInv, PipelineTypeOK, Stage1IsOver
<1> QED
  BY <1>1, PipelineInvariant, PTL

\* Without a skipped face every face is saved with its own embedding or with
\* none, for any number of recognizers that fail or are stopped.
THEOREM UnskippedVectors == PipelineSpec => []UnskippedVectorsMatch
<1>1. PipelineInv => UnskippedVectorsMatch
  <2> SUFFICES ASSUME PipelineInv, ~skipped, NEW i \in 1 .. Len(stored)
               PROVE  stored[i].vector \in {None, stored[i].region}
    BY DEF UnskippedVectorsMatch
  <2> DEFINE k == stored[i].region
  <2>1. k \in 1 .. Len(regions) /\ stored[i] = Row(k)
    BY DEF PipelineInv, StoredInOrder
  <2> HIDE DEF k
  <2>2. CASE k <= Len(vectors)
    <3>1. vectors # <<>>
      BY <2>1, <2>2 DEF PipelineInv, PipelineTypeOK
    <3>2. vectors[k] = k
      BY <2>1, <3>1 DEF PipelineInv, VectorsAreCopies
    <3> QED
      BY <2>1, <2>2, <3>2 DEF Row, k
  <2>3. CASE ~(k <= Len(vectors))
    BY <2>1, <2>3 DEF Row
  <2> QED
    BY <2>2, <2>3
<1> QED
  BY <1>1, PipelineInvariant, PTL

-------------------------------------------------------------------------------
(* FaceClustering.                                                         *)

\* Of two active clusters that are merged, the first is the earlier one.
LEMMA MergedPair ==
    ASSUME NEW i, NEW j, Closest(i, j)
    PROVE  i \in active /\ j \in active /\ i < j
BY DEF Closest, Pairs

LEMMA ClusterStart == ClusterInit => ClusterInv
<1> SUFFICES ASSUME ClusterInit PROVE ClusterInv
  OBVIOUS
<1>1. ClusterTypeOK
  BY DEF ClusterInit, ClusterTypeOK, FaceSets
<1>2. FacesAreSplit
  <2>1. \A i \in Taken : members[i] = {i} /\ i \in Int
    BY DEF ClusterInit, Taken
  <2> QED
    BY <2>1 DEF FacesAreSplit, ClusterInit
<1>3. CentroidsAreCurrent
  BY DEF ClusterInit, CentroidsAreCurrent
<1>4. ClustersAreApart
  BY DEF ClusterInit, ClustersAreApart
<1> QED
  BY <1>1, <1>2, <1>3, <1>4 DEF ClusterInv

LEMMA MergeKeepsInv ==
    ASSUME ClusterInv, NEW i \in Taken, NEW j \in Taken, Merge(i, j)
    PROVE  ClusterInv'
<1> USE DEF ClusterInv
<1>1. i \in active /\ j \in active /\ i < j
  BY MergedPair DEF Merge
<1>2. /\ \A k \in Taken : members'[k] = IF k = i THEN members[i] \cup members[j] ELSE members[k]
      /\ \A k \in Taken : centroid'[k] = IF k = i THEN members'[i] ELSE centroid[k]
      /\ active' = active \ {j}
      /\ merging'
  BY DEF Merge, ClusterTypeOK
<1>3. Taken \subseteq Int /\ active \subseteq Taken
  BY DEF Taken, ClusterTypeOK
<1>4. ClusterTypeOK'
  <2>1. members[i] \cup members[j] \in FaceSets
    BY DEF ClusterTypeOK, FaceSets
  <2>2. members' \in [Taken -> FaceSets]
    BY <2>1 DEF Merge, ClusterTypeOK
  <2>3. centroid' \in [Taken -> FaceSets]
    BY <2>1, <2>2 DEF Merge, ClusterTypeOK
  <2> QED
    BY <2>2, <2>3 DEF Merge, ClusterTypeOK
<1>5. FacesAreSplit'
  <2>1. ASSUME NEW f \in Taken
        PROVE  \E k \in active' : f \in members'[k]
    <3>1. PICK k \in active : f \in members[k]
      BY DEF FacesAreSplit
    <3>2. CASE k = j
      BY <1>1, <1>2, <1>3, <3>1, <3>2
    <3>3. CASE k # j
      BY <1>2, <1>3, <3>1, <3>3
    <3> QED
      BY <3>2, <3>3
  <2>2. ASSUME NEW k \in active', NEW l \in active', k # l
        PROVE  members'[k] \cap members'[l] = {}
    <3>1. /\ k \in active /\ k # j /\ k \in Taken
          /\ l \in active /\ l # j /\ l \in Taken
      BY <1>2, <1>3
    <3>2. \A x, y \in active : x # y => members[x] \cap members[y] = {}
      BY DEF FacesAreSplit
    <3> QED
      BY <1>1, <1>2, <2>2, <3>1, <3>2
  <2>3. ASSUME NEW k \in active'
        PROVE  k \in members'[k] /\ \A f \in members'[k] : k <= f
    <3>1. k \in active /\ k # j /\ k \in Taken
      BY <1>2, <1>3
    <3>2. \A x \in active : x \in members[x] /\ \A f \in members[x] : x <= f
      BY DEF FacesAreSplit
    <3>3. members[j] \subseteq Int /\ i \in Int /\ j \in Int
      BY <1>3 DEF ClusterTypeOK, FaceSets
    <3>4. CASE k = i
      BY <1>1, <1>2, <3>1, <3>2, <3>3, <3>4
    <3>5. CASE k # i
      BY <1>2, <3>1, <3>2, <3>5
    <3> QED
      BY <3>4, <3>5
  <2> QED
    BY <2>1, <2>2, <2>3, Zenon DEF FacesAreSplit, Merge
<1>6. CentroidsAreCurrent'
  BY <1>1, <1>2, <1>3 DEF CentroidsAreCurrent
<1>7. ClustersAreApart'
  BY <1>2 DEF ClustersAreApart
<1> QED
  BY <1>4, <1>5, <1>6, <1>7

LEMMA StopKeepsInv ==
    ASSUME ClusterInv, Stop
    PROVE  ClusterInv'
<1>1. /\ ClusterTypeOK'
      /\ FacesAreSplit'
      /\ CentroidsAreCurrent'
  BY DEF ClusterInv, ClusterTypeOK, FacesAreSplit, CentroidsAreCurrent, Stop
<1>2. ASSUME NEW i \in active, NEW j \in active, i # j
      PROVE  SimOf(members[i], members[j]) < Threshold
  <2>1. \A x, y \in active : x < y => Sim(x, y) < Threshold
    <3> SUFFICES ASSUME NEW x \in active, NEW y \in active, x < y
                 PROVE  Sim(x, y) < Threshold
      OBVIOUS
    <3>1. <<x, y>> \in Pairs
      BY DEF Pairs
    <3>2. \A p \in Pairs : Sim(p[1], p[2]) < Threshold
      BY DEF Stop
    <3>3. Sim(<<x, y>>[1], <<x, y>>[2]) < Threshold
      BY <3>1, <3>2, Zenon
    <3> QED
      BY <3>3
  <2>2. \A x \in active : centroid[x] = members[x] /\ members[x] \in FaceSets
    BY DEF ClusterInv, ClusterTypeOK, CentroidsAreCurrent
  <2>3. SimOf(members[i], members[j]) = SimOf(members[j], members[i])
    BY <2>2 DEF ClusterInv, ClusterTypeOK, Symmetric, SimOf
  <2>4. i < j \/ j < i
    <3>1. i \in Int /\ j \in Int
      BY DEF ClusterInv, ClusterTypeOK, Taken
    <3> QED
      BY <1>2, <3>1
  <2> QED
    BY <2>1, <2>2, <2>3, <2>4 DEF Sim
<1>3. ClustersAreApart'
  BY <1>2 DEF ClustersAreApart, SimOf, Stop
<1> QED
  BY <1>1, <1>3 DEF ClusterInv

LEMMA ClusterStep == ClusterInv /\ [ClusterNext]_clusterVars => ClusterInv'
<1> SUFFICES ASSUME ClusterInv, [ClusterNext]_clusterVars PROVE ClusterInv'
  OBVIOUS
<1>1. CASE Stop
  BY <1>1, StopKeepsInv
<1>2. ASSUME NEW i \in Taken, NEW j \in Taken, Merge(i, j) PROVE ClusterInv'
  BY <1>2, MergeKeepsInv
<1>3. CASE UNCHANGED clusterVars
  BY <1>3 DEF clusterVars, ClusterInv, ClusterTypeOK, FacesAreSplit, CentroidsAreCurrent,
              ClustersAreApart, SimOf
<1> QED
  BY <1>1, <1>2, <1>3 DEF ClusterNext

LEMMA ClusterInvariant == ClusterSpec => []ClusterInv
BY ClusterStart, ClusterStep, PTL DEF ClusterSpec

\* The types, for any number of faces and any similarity.
THEOREM ClusterTypes == ClusterSpec => []ClusterTypeOK
<1>1. ClusterInv => ClusterTypeOK
  BY DEF ClusterInv
<1> QED
  BY <1>1, ClusterInvariant, PTL

\* After any number of merges the clusters split the faces.
THEOREM SplitFaces == ClusterSpec => []FacesAreSplit
<1>1. ClusterInv => FacesAreSplit
  BY DEF ClusterInv
<1> QED
  BY <1>1, ClusterInvariant, PTL

\* The clusters that are returned are less similar to each other than the
\* threshold, by what their faces are then.
THEOREM ApartClusters == ClusterSpec => []ClustersAreApart
<1>1. ClusterInv => ClustersAreApart
  BY DEF ClusterInv
<1> QED
  BY <1>1, ClusterInvariant, PTL

=============================================================================
