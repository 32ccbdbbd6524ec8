--------------------------- MODULE ScoringPipeline ---------------------------
(***************************************************************************)
(* The scoring of one photo: Pipeline.Execute (scoring/pipeline.go) with   *)
(* the recognizer's ProcessRegions (scoring/face_embedder.go), and what    *)
(* scoreAndSavePhoto (app/ai_methods.go) writes of its result.             *)
(*                                                                         *)
(* Detectors and quality plugins run in goroutines of their own, the       *)
(* recognizers one after the other.  Any of them may be unavailable or     *)
(* fail, and the context of the analysis may be cancelled at any moment.   *)
(* A face is known by its detector and its number there, an embedding by   *)
(* the position of the face it was computed from; scores are left out.     *)
(***************************************************************************)
EXTENDS Integers, Sequences

CONSTANTS
    Finders,      \* the detection plugins
    Gauges,       \* the quality plugins
    Recognizers,  \* how many recognition plugins there are
    MaxFaces      \* bound: the faces one detector finds

ASSUME FindersAreNoGauges == Finders \cap Gauges = {}
ASSUME RecognizersNat == Recognizers \in Nat
ASSUME MaxFacesNat == MaxFaces \in Nat

VARIABLES
    phase,       \* where Execute, and then scoreAndSavePhoto, is
    ctxDone,     \* the context of the analysis is cancelled
    part,        \* the goroutine of every plugin of stage 1
    regions,     \* faces: what the detectors have found
    metrics,     \* qualityResults: who has reported
    recognizer,  \* the recognizer whose turn it is
    face,        \* the face it, or scoreAndSavePhoto, is at
    batch,       \* the embeddings of this recognizer
    vectors,     \* those of the pipeline
    scoreRow,    \* the row of ai_scores was written
    stored,      \* the rows of face_detections: the face, its embedding or None
    found,       \* history: how many faces every detector reported
    skipped,     \* history: a recognizer got nothing for a face and went on
    interrupted  \* history: ProcessRegions was stopped by the context

stage1 == <<part, regions, metrics, found>>
stage2 == <<recognizer, batch, vectors, skipped, interrupted>>
written == <<scoreRow, stored>>
pipelineVars == <<phase, ctxDone, part, regions, metrics, recognizer, face, batch,
                  vectors, scoreRow, stored, found, skipped, interrupted>>

Plugins == Finders \cup Gauges
Phases == {"stage1", "recognize", "embed", "merge", "saving", "scored", "error"}
None == 0
Regions == Finders \X (1 .. MaxFaces)
Rows == [region : Nat, vector : Nat]

PipelineTypeOK ==
    /\ phase \in Phases
    /\ ctxDone \in BOOLEAN
    /\ part \in [Plugins -> {"new", "absent", "running", "done", "failed", "stopped"}]
    /\ regions \in Seq(Regions)
    /\ metrics \subseteq Gauges
    /\ recognizer \in 1 .. Recognizers + 1
    /\ phase = "embed" => recognizer <= Recognizers
    /\ face \in Nat \ {0}
    /\ batch \in Seq(Nat)
    /\ vectors \in Seq(Nat)
    /\ scoreRow \in BOOLEAN
    /\ stored \in Seq(Rows)
    /\ found \in [Finders -> 0 .. MaxFaces]
    /\ skipped \in BOOLEAN
    /\ interrupted \in BOOLEAN

-------------------------------------------------------------------------------
(* Stage 1                                                                 *)

\* The group's context ends with the analysis', or with the first error.
GroupDone == ctxDone \/ \E p \in Plugins : part[p] = "stopped"

\* Whether the plugin is available is asked as it is started.
Launch(p) ==
    /\ phase = "stage1"
    /\ part[p] = "new"
    /\ \E there \in {"running", "absent"} : part' = [part EXCEPT ![p] = there]
    /\ UNCHANGED <<phase, ctxDone, regions, metrics, found, face, stage2, written>>

RegionsOf(d, n) == [i \in 1 .. n |-> <<d, i>>]

\* Mutant of FinderReports: the append of another detector is lost.
FinderReportsAlone(d) ==
    /\ part[d] = "running"
    /\ part' = [part EXCEPT ![d] = "done"]
    /\ \E n \in 0 .. MaxFaces :
         /\ regions' = RegionsOf(d, n)
         /\ found' = [found EXCEPT ![d] = n]
    /\ UNCHANGED <<phase, ctxDone, metrics, face, stage2, written>>

\* A detector appends its faces to the others', under facesMu.
FinderReports(d) ==
    /\ part[d] = "running"
    /\ part' = [part EXCEPT ![d] = "done"]
    /\ \E n \in 0 .. MaxFaces :
         /\ regions' = regions \o RegionsOf(d, n)
         /\ found' = [found EXCEPT ![d] = n]
    /\ UNCHANGED <<phase, ctxDone, metrics, face, stage2, written>>

GaugeReports(q) ==
    /\ part[q] = "running"
    /\ part' = [part EXCEPT ![q] = "done"]
    /\ metrics' = metrics \cup {q}
    /\ UNCHANGED <<phase, ctxDone, regions, found, face, stage2, written>>

\* Mutant of PluginFails: every failure is returned.
PluginFailsAll(p) ==
    /\ part[p] = "running"
    /\ part' = [part EXCEPT ![p] = "stopped"]
    /\ UNCHANGED <<phase, ctxDone, regions, metrics, found, face, stage2, written>>

\* An error is passed over, or returned when the group's context is done.
PluginFails(p) ==
    /\ part[p] = "running"
    /\ part' = [part EXCEPT ![p] = IF GroupDone THEN "stopped" ELSE "failed"]
    /\ UNCHANGED <<phase, ctxDone, regions, metrics, found, face, stage2, written>>

\* eg.Wait, and the look at the context.
Stage1Ends ==
    /\ phase = "stage1"
    /\ \A p \in Plugins : part[p] \notin {"new", "running"}
    /\ phase' = CASE GroupDone -> "error"
                  [] ~GroupDone /\ regions # <<>> -> "recognize"
                  [] ~GroupDone /\ regions = <<>> -> "merge"
    /\ UNCHANGED <<ctxDone, stage1, face, stage2, written>>

-------------------------------------------------------------------------------
(* Stage 2                                                                 *)

NextRecognizer ==
    /\ recognizer' = recognizer + 1
    /\ phase' = "recognize"

\* There is none left.
RecognitionEnds ==
    /\ phase = "recognize"
    /\ recognizer > Recognizers
    /\ phase' = "merge"
    /\ UNCHANGED <<ctxDone, stage1, face, stage2, written>>

\* It is not available.
PassOver ==
    /\ phase = "recognize"
    /\ recognizer <= Recognizers
    /\ NextRecognizer
    /\ UNCHANGED <<ctxDone, stage1, face, batch, vectors, skipped, interrupted, written>>

\* It is, and the context is looked at; ProcessRegions begins.
Recognize ==
    /\ phase = "recognize"
    /\ recognizer <= Recognizers
    /\ phase' = IF ctxDone THEN "error" ELSE "embed"
    /\ face' = 1
    /\ batch' = <<>>
    /\ UNCHANGED <<ctxDone, stage1, recognizer, vectors, skipped, interrupted, written>>

\* ProcessRegions has no session.
RecognizerFails ==
    /\ phase = "embed"
    /\ face = 1
    /\ NextRecognizer
    /\ UNCHANGED <<ctxDone, stage1, face, batch, vectors, skipped, interrupted, written>>

EmbedFace ==
    /\ phase = "embed"
    /\ face <= Len(regions)
    /\ batch' = Append(batch, face)
    /\ face' = face + 1
    /\ UNCHANGED <<phase, ctxDone, stage1, recognizer, vectors, skipped, interrupted,
                   written>>

\* Inference fails, also because the context is cancelled under it.
SkipFace ==
    /\ phase = "embed"
    /\ face <= Len(regions)
    /\ face' = face + 1
    /\ skipped' = TRUE
    /\ UNCHANGED <<phase, ctxDone, stage1, recognizer, batch, vectors, interrupted,
                   written>>

\* The context is looked at between faces; to Execute that is a failed
\* recognizer like any other.
Interrupt ==
    /\ phase = "embed"
    /\ face <= Len(regions)
    /\ ctxDone
    /\ interrupted' = TRUE
    /\ NextRecognizer
    /\ UNCHANGED <<ctxDone, stage1, face, batch, vectors, skipped, written>>

Embedded ==
    /\ phase = "embed"
    /\ face > Len(regions)
    /\ vectors' = vectors \o batch
    /\ NextRecognizer
    /\ UNCHANGED <<ctxDone, stage1, face, batch, skipped, interrupted, written>>

-------------------------------------------------------------------------------
(* Stage 3, and what scoreAndSavePhoto writes                              *)

\* mergeResults, and SaveAIScore, whose error is logged.
WriteScore ==
    /\ phase = "merge"
    /\ scoreRow' \in BOOLEAN
    /\ phase' = "saving"
    /\ face' = 1
    /\ UNCHANGED <<ctxDone, stage1, stage2, stored>>

\* Mutant of Row: the embeddings are counted from the one after.
RowLate(i) ==
    [region |-> i, vector |-> IF i < Len(vectors) THEN vectors[i + 1] ELSE None]

\* A row of face_detections: the embedding at the index of the face.
Row(i) == [region |-> i, vector |-> IF i <= Len(vectors) THEN vectors[i] ELSE None]

\* SaveFaceDetection for every face; its error is logged.
WriteDetection ==
    /\ phase = "saving"
    /\ face <= Len(regions)
    /\ face' = face + 1
    /\ stored' \in {Append(stored, Row(face)), stored}
    /\ UNCHANGED <<phase, ctxDone, stage1, stage2, scoreRow>>

\* The photo is counted, and the frontend told.
PhotoScored ==
    /\ phase = "saving"
    /\ face > Len(regions)
    /\ phase' = "scored"
    /\ UNCHANGED <<ctxDone, stage1, face, stage2, written>>

\* CancelAIAnalysis, or the next analysis.
CancelContext ==
    /\ ~ctxDone
    /\ ctxDone' = TRUE
    /\ UNCHANGED <<phase, stage1, face, stage2, written>>

-------------------------------------------------------------------------------

PipelineInit ==
    /\ phase = "stage1"
    /\ ctxDone = FALSE
    /\ part = [p \in Plugins |-> "new"]
    /\ regions = <<>>
    /\ metrics = {}
    /\ recognizer = 1
    /\ face = 1
    /\ batch = <<>>
    /\ vectors = <<>>
    /\ scoreRow = FALSE
    /\ stored = <<>>
    /\ found = [d \in Finders |-> 0]
    /\ skipped = FALSE
    /\ interrupted = FALSE

PluginNext(p) ==
    \/ Launch(p)
    \/ p \in Finders /\ FinderReports(p)
    \/ p \in Gauges /\ GaugeReports(p)
    \/ PluginFails(p)

Stage2Next ==
    \/ RecognitionEnds
    \/ PassOver
    \/ Recognize
    \/ RecognizerFails
    \/ EmbedFace
    \/ SkipFace
    \/ Interrupt
    \/ Embedded

SaveNext == WriteScore \/ WriteDetection \/ PhotoScored

ExecuteNext == Stage1Ends \/ Stage2Next \/ SaveNext

\* With the photo scored, or the error logged, this ends.
PipelineNext ==
    \/ \E p \in Plugins : PluginNext(p)
    \/ ExecuteNext
    \/ CancelContext

PipelineSpec == PipelineInit /\ [][PipelineNext]_pipelineVars

\* Goroutines run, and every inference returns.
PipelineFairSpec ==
    /\ PipelineSpec
    /\ \A p \in Plugins : WF_pipelineVars(PluginNext(p))
    /\ WF_pipelineVars(ExecuteNext)

-------------------------------------------------------------------------------
(* What holds.                                                             *)

\* "A plugin failure is non-fatal": a photo stays without a score only because
\* the analysis was cancelled, whatever the plugins do, and however their
\* errors, the group's and the context's overlap.
OnlyCancellationFails == phase = "error" => ctxDone

FacesKept == {regions[i] : i \in 1 .. Len(regions)}
FacesReported == {r \in Regions : r[2] <= found[r[1]]}

\* What a score is made from, after stage 1, is everything that was reported:
\* every face of every detector that succeeded and every metric, with nothing
\* of a plugin that failed, and no plugin stopped half-way by the context.
ScoresAreComplete ==
    phase \notin {"stage1", "error"} =>
        /\ \A p \in Plugins : part[p] \in {"absent", "done", "failed"}
        /\ FacesKept = FacesReported
        /\ \A d \in Finders : part[d] # "done" => found[d] = 0
        /\ metrics = {q \in Gauges : part[q] = "done"}

\* As long as no face was skipped, a face is saved with its own embedding or
\* with none, whichever recognizers failed or were stopped.
UnskippedVectorsMatch ==
    ~skipped => \A i \in 1 .. Len(stored) : stored[i].vector \in {None, stored[i].region}

\* A photo is scored or given up, and the worker goes on to the next.
PhotosEnd == <>(phase \in {"scored", "error"})

(***************************************************************************)
(* Why these hold: the inductive invariant.                                *)
(***************************************************************************)

\* The context comes first: no plugin is stopped, and no recognition, without.
StopsHaveCause ==
    (\E p \in Plugins : part[p] = "stopped") \/ interrupted => ctxDone

\* At every moment the faces and metrics are those of the plugins that are
\* done, and a plugin that is not has reported nothing.
ReportsAreKept ==
    /\ FacesKept = FacesReported
    /\ \A d \in Finders : part[d] # "done" => found[d] = 0
    /\ metrics = {q \in Gauges : part[q] = "done"}

\* After stage 1 no plugin is at work, and before its end no recognizer was.
Stage1IsOver ==
    /\ phase # "stage1" => \A p \in Plugins : part[p] \notin {"new", "running"}
    /\ phase \notin {"stage1", "error"} => \A p \in Plugins : part[p] # "stopped"
    /\ phase = "stage1" => vectors = <<>>

\* A recognizer that skips nothing has embedded the faces up to where it is,
\* and recognizers that did so have added complete copies.
BatchIsPrefix ==
    ~skipped /\ phase = "embed" =>
        /\ Len(batch) = face - 1
        /\ face <= Len(regions) + 1
        /\ \A i \in 1 .. Len(batch) : batch[i] = i

VectorsAreCopies ==
    ~skipped =>
        \/ vectors = <<>>
        \/ /\ Len(vectors) >= Len(regions)
           /\ \A i \in 1 .. Len(regions) : vectors[i] = i

\* What is saved is at its own index, up to the face that is next.
StoredInOrder ==
    /\ \A i \in 1 .. Len(stored) :
         /\ stored[i].region \in 1 .. Len(regions)
         /\ stored[i] = Row(stored[i].region)
    /\ stored # <<>> => phase \in {"saving", "scored"}

PipelineInv ==
    /\ PipelineTypeOK
    /\ OnlyCancellationFails
    /\ StopsHaveCause
    /\ ReportsAreKept
    /\ Stage1IsOver
    /\ BatchIsPrefix
    /\ VectorsAreCopies
    /\ StoredInOrder

-------------------------------------------------------------------------------
(* What the comments say, and the code does not do.                        *)

\* "Context cancellation stops the pipeline immediately": the last recognizer
\* is stopped half-way, and the photo is scored without embeddings.
CancellationStops == interrupted => phase \notin {"saving", "scored"}

\* "Outer slice index matches Faces index": a face that was skipped moves the
\* embeddings of those behind it to their predecessors.
VectorsMatchFaces ==
    \A i \in 1 .. Len(stored) : stored[i].vector \in {None, stored[i].region}
===============================================================================
