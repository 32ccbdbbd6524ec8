------------------------------- MODULE VLMStages -------------------------------
(***************************************************************************)
(* What the vision-language model contributes to the analysis of a folder: *)
(* runVLMStage4 (a description of every photo), runVLMStage5 (a ranking of *)
(* every face cluster), their caches in the tables vlm_scores,             *)
(* vlm_ranking_groups and vlm_rankings, the custom instructions they are   *)
(* made under, and the calls that clear them (app/ai_methods.go,           *)
(* storage/sqlite.go, vlm/manager.go).                                     *)
(*                                                                         *)
(* AIAnalysis models what comes before: here the filter, the ONNX scoring  *)
(* and the clustering of a run are one action, Prepare, that leaves the      *)
(* photos to describe.  The instructions an inference used and the hash    *)
(* its row claims are both kept as the instructions themselves, so a row   *)
(* tells the truth when the two are equal.  The tables survive Crash.      *)
(*                                                                         *)
(* Left out: the values of scores, token counts, calibration, the model    *)
(* and prompt versions, which no call changes, and progress events.        *)
(***************************************************************************)
EXTENDS Naturals, FiniteSets

CONSTANTS
    Photos,         \* the photos of the folder
    PersonOf,       \* whom a photo shows
    Runs,           \* bound: runs of the pipeline at the same time
    NoRun,          \* no cancel function
    Instructions,   \* the custom instructions a user may set
    Empty,          \* the empty ones
    NoRow,          \* no row in a table
    Tier,           \* HardwareProfile.Tier
    GroupSize,      \* BuildExecutionPlan: photos per ranking group, 5
    LargeBatch,     \* BuildExecutionPlan: no ranking above it on TierCapable
    MaxDisturbances \* bound: edits, failures, cancellations, changes of the
                    \* instructions, clearings, crashes in a behaviour

\* Rows of vlm_scores and of vlm_ranking_groups.
Row == [with : Instructions, hash : Instructions]
GroupRow == [with : Instructions, hash : Instructions, photos : SUBSET Photos]

ASSUME Names == NoRun \notin Runs
ASSUME NoRowIsNone == NoRow \notin Instructions \cup Row \cup GroupRow
ASSUME EmptyIsOne == Empty \in Instructions
ASSUME Tiers == Tier \in {"legacy", "basic", "capable", "power"}
ASSUME Numbers ==
    /\ GroupSize \in Nat \ {0} /\ LargeBatch \in Nat
    /\ MaxDisturbances \in Nat

Persons == {PersonOf[p] : p \in Photos}
Labels == 1 .. Cardinality(Persons)     \* "Person 1", "Person 2", ...

VARIABLES
    disturbances,   \* how many of them there have been
    instructions,   \* Manager.customInstructions and the config key
    known,          \* photos with a row in ai_scores
    dated,          \* those whose row is newer than the photo
    clusters,       \* the photos of every face cluster, by label
    scores,         \* vlm_scores: what a photo's row was made with and claims
    groups,         \* vlm_ranking_groups, with the photos that were ranked
    rankings,       \* vlm_rankings: the hash of a label's and photo's row
    analysisCancel, \* App.analysisCancel: the run it cancels
    step,             \* where every run is
    cancelled,      \* the runs whose context is done
    mine,           \* a stage's snapshot of the instructions
    todo,           \* the photos still to describe
    hand,           \* the photo, or label, of the inference in progress
    sent,           \* the instructions it was sent with
    pending,        \* the labels still to rank
    cached,         \* the labels whose group was a hit when stage 5 began
    ranks,          \* the plan of the run includes stage 5
    replaced,       \* the clusters it has loaded are not in the table any more
    chosen,         \* history: the photos stage 4 of the run has to describe
    excused,        \* history: those that failed, or were cleared or described
                    \* by another run meanwhile
    cut             \* history: a ClearAll stopped between its statements

tables == <<known, dated, clusters, scores, groups, rankings>>
context == <<analysisCancel, cancelled>>
stage4 == <<todo, chosen>>
stage5 == <<pending, cached, ranks, replaced>>
stagesVars == <<disturbances, instructions, tables, context, step, mine, stage4,
                hand, sent, stage5, excused, cut>>

Steps == {"idle", "prepare", "describe", "scoring", "rank", "ranking"}

StagesTypeOK ==
    /\ disturbances \in 0 .. MaxDisturbances
    /\ instructions \in Instructions
    /\ known \subseteq Photos /\ dated \subseteq known
    /\ clusters \in [Labels -> SUBSET Photos]
    /\ scores \in [Photos -> Row \cup {NoRow}]
    /\ groups \in [Labels -> GroupRow \cup {NoRow}]
    /\ rankings \in [Labels -> [Photos -> Instructions \cup {NoRow}]]
    /\ analysisCancel \in Runs \cup {NoRun}
    /\ step \in [Runs -> Steps]
    /\ cancelled \subseteq Runs
    /\ mine \in [Runs -> Instructions]
    /\ todo \in [Runs -> SUBSET Photos]
    /\ hand \in [Runs -> Photos \cup Labels \cup {NoRow}]
    /\ \A r \in Runs : step[r] = "scoring" => hand[r] \in todo[r]
    /\ \A r \in Runs : step[r] = "ranking" => hand[r] \in pending[r]
    /\ sent \in [Runs -> Instructions]
    /\ pending \in [Runs -> SUBSET Labels]
    /\ cached \in [Runs -> SUBSET Labels]
    /\ ranks \subseteq Runs /\ replaced \subseteq Runs
    /\ chosen \in [Runs -> SUBSET Photos]
    /\ excused \in [Runs -> SUBSET Photos]
    /\ cut \in BOOLEAN

StagesInit ==
    /\ disturbances = 0
    /\ instructions = Empty
    /\ known = {} /\ dated = {}
    /\ clusters = [l \in Labels |-> {}]
    /\ scores = [p \in Photos |-> NoRow]
    /\ groups = [l \in Labels |-> NoRow]
    /\ rankings = [l \in Labels |-> [p \in Photos |-> NoRow]]
    /\ analysisCancel = NoRun
    /\ step = [r \in Runs |-> "idle"]
    /\ cancelled = {}
    /\ mine = [r \in Runs |-> Empty]
    /\ todo = [r \in Runs |-> {}]
    /\ hand = [r \in Runs |-> NoRow]
    /\ sent = [r \in Runs |-> Empty]
    /\ pending = [r \in Runs |-> {}]
    /\ cached = [r \in Runs |-> {}]
    /\ ranks = {} /\ replaced = {}
    /\ chosen = [r \in Runs |-> {}]
    /\ excused = [r \in Runs |-> {}]
    /\ cut = FALSE

-------------------------------------------------------------------------------
(* The plan and the helpers.                                               *)

VLMEnabled == Tier # "legacy"

Stage5Count(n) ==
    IF Tier = "basic" \/ (Tier = "capable" /\ n > LargeBatch)
      THEN 0
      ELSE n \div GroupSize

\* The adaptive threshold: as many of the photos as were scored, the best by
\* their ONNX score (a photo whose scoring failed may have an older, higher
\* one).  A count of zero or of all of them selects all.
Selections(new, n) ==
    IF n \in {0, Cardinality(new)}
      THEN {new}
      ELSE {s \in SUBSET new : Cardinality(s) = n}

\* A clustering: one cluster per person with a scored photo, numbered in an
\* order that changes with the scores.
Clusterings(with) ==
    {c \in [Labels -> SUBSET with] :
        /\ \A l \in Labels : \A p \in c[l] :
              c[l] = {q \in with : PersonOf[q] = PersonOf[p]}
        /\ UNION {c[l] : l \in Labels} = with
        /\ \A l, m \in Labels : l # m => c[l] \cap c[m] = {}
        /\ \A l \in Labels \ {1} : c[l] # {} => c[l - 1] # {}}

Disturb ==
    /\ disturbances < MaxDisturbances
    /\ disturbances' = disturbances + 1

StepTo(r, there) == step' = [step EXCEPT ![r] = there]

\* The run is over; its locals are dead.
EndOf(r) ==
    /\ StepTo(r, "idle")
    /\ todo' = [todo EXCEPT ![r] = {}]
    /\ chosen' = [chosen EXCEPT ![r] = {}]
    /\ excused' = [excused EXCEPT ![r] = {}]
    /\ pending' = [pending EXCEPT ![r] = {}]
    /\ cached' = [cached EXCEPT ![r] = {}]
    /\ hand' = [hand EXCEPT ![r] = NoRow]
    /\ mine' = [mine EXCEPT ![r] = Empty]
    /\ sent' = [sent EXCEPT ![r] = Empty]
    /\ ranks' = ranks \ {r}
    /\ cancelled' = cancelled \ {r}

\* The rows of face_clusters get new ids: runs that have loaded the old ones
\* find no detections for them.
Replaces(r) ==
    {q \in Runs \ {r} : step[q] \in {"rank", "ranking"}} \cup (replaced \ {r})

\* A photo's row is cleared or replaced under the other runs at work.
Excuse(runs, photos) ==
    excused' = [r \in Runs |->
                   excused[r] \cup (IF r \in runs /\ step[r] # "idle"
                                      THEN photos ELSE {})]

\* The request of an inference: the manager fills in its own instructions
\* when those of the snapshot are empty.
Stamped(r) == IF mine[r] = Empty THEN instructions ELSE mine[r]

-------------------------------------------------------------------------------
(* The run up to stage 4.                                                  *)

\* RunAIAnalysis cancels the run before it.
Analyze(r) ==
    /\ step[r] = "idle"
    /\ IF \A q \in Runs : step[q] = "idle" THEN UNCHANGED disturbances ELSE Disturb
    /\ cancelled' = cancelled \cup ({analysisCancel} \ {NoRun})
    /\ analysisCancel' = r
    /\ StepTo(r, "prepare")
    /\ UNCHANGED <<instructions, tables, mine, stage4, hand, sent, stage5,
                   excused, cut>>

CancelAIAnalysis ==
    /\ analysisCancel # NoRun
    /\ Disturb
    /\ cancelled' = cancelled \cup {analysisCancel}
    /\ analysisCancel' = NoRun
    /\ UNCHANGED <<instructions, tables, step, mine, stage4, hand,
                   sent, stage5, excused, cut>>

\* With every photo scored the run clusters and ends: no stage looks at the
\* instructions.
NothingToScore(r) ==
    /\ step[r] = "prepare"
    /\ Photos = dated
    /\ clusters' \in Clusterings(known)
    /\ EndOf(r)
    /\ replaced' = Replaces(r)
    /\ analysisCancel' = IF analysisCancel = r THEN NoRun ELSE analysisCancel
    /\ UNCHANGED <<disturbances, instructions, known, dated, scores, groups,
                   rankings, cut>>

\* The filter, the scoring of `succeeded`, the clustering, the plan, and
\* stage 4's selection and snapshot of the instructions.
Prepare(r, succeeded) ==
    LET new == Photos \ dated IN
    /\ step[r] = "prepare"
    /\ r \notin cancelled
    /\ new # {}
    /\ succeeded \subseteq new
    /\ IF succeeded = new THEN UNCHANGED disturbances ELSE Disturb
    /\ known' = known \cup succeeded
    /\ dated' = dated \cup succeeded
    /\ clusters' \in Clusterings(known')
    /\ replaced' = Replaces(r)
    /\ IF VLMEnabled
         THEN \E s \in Selections(new, Cardinality(succeeded)) :
                 /\ todo' = [todo EXCEPT ![r] = s]
                 /\ chosen' = [chosen EXCEPT ![r] = s]
         ELSE UNCHANGED stage4
    /\ mine' = [mine EXCEPT ![r] = instructions]
    /\ ranks' = IF Stage5Count(Cardinality(succeeded)) > 0
                  THEN ranks \cup {r} ELSE ranks
    /\ StepTo(r, "describe")
    /\ UNCHANGED <<instructions, scores, groups, rankings, context, hand, sent,
                   pending, cached, excused, cut>>

\* A cancelled run leaves at the next check of its context, which every pass
\* of a loop begins with; a model call under way gets its result or an error
\* first.
Leave(r) ==
    /\ r \in cancelled
    /\ \/ step[r] = "prepare"
       \/ step[r] = "describe" /\ todo[r] # {}
       \/ step[r] = "rank" /\ pending[r] # {}
    /\ EndOf(r)
    /\ replaced' = replaced \ {r}
    /\ analysisCancel' = IF analysisCancel = r THEN NoRun ELSE analysisCancel
    /\ UNCHANGED <<disturbances, instructions, tables, cut>>

-------------------------------------------------------------------------------
(* Stage 4: one photo after the other.                                     *)

\* Mutant: any row is a hit.
IsOldHit(r, p) == scores[p] # NoRow

IsHit(r, p) == scores[p] # NoRow /\ scores[p].hash = mine[r]

\* The photos stage 4 has still to send to the model.
ToDescribe(r) == {p \in todo[r] : ~IsHit(r, p)}

Hit(r, p) ==
    /\ step[r] = "describe"
    /\ r \notin cancelled
    /\ p \in todo[r]
    /\ IsHit(r, p)
    /\ todo' = [todo EXCEPT ![r] = @ \ {p}]
    /\ UNCHANGED <<disturbances, instructions, tables, context, step, mine, hand,
                   sent, stage5, chosen, excused, cut>>

CallScorePhoto(r, p) ==
    /\ step[r] = "describe"
    /\ r \notin cancelled
    /\ p \in ToDescribe(r)
    /\ hand' = [hand EXCEPT ![r] = p]
    /\ sent' = [sent EXCEPT ![r] = Stamped(r)]
    /\ StepTo(r, "scoring")
    /\ UNCHANGED <<disturbances, instructions, tables, context, mine, stage4,
                   stage5, excused, cut>>

\* Mutant: the hash is computed when the row is saved.
ClaimedAtSave(r) == instructions

\* What the row says of its instructions: the hash of the snapshot.
Claimed(r) == mine[r]

SaveVLMScore(r) ==
    LET p == hand[r] IN
    /\ step[r] = "scoring"
    /\ scores' = [scores EXCEPT ![p] = [with |-> sent[r], hash |-> Claimed(r)]]
    /\ todo' = [todo EXCEPT ![r] = @ \ {p}]
    /\ hand' = [hand EXCEPT ![r] = NoRow]
    /\ Excuse(Runs \ {r}, {p})
    /\ StepTo(r, "describe")
    /\ UNCHANGED <<disturbances, instructions, known, dated, clusters, groups,
                   rankings, context, mine, sent, stage5, chosen, cut>>

\* The engine, the reply or the INSERT fails: the photo is left out.
ScoreFails(r) ==
    LET p == hand[r] IN
    /\ step[r] = "scoring"
    /\ IF r \in cancelled THEN UNCHANGED disturbances ELSE Disturb
    /\ todo' = [todo EXCEPT ![r] = @ \ {p}]
    /\ hand' = [hand EXCEPT ![r] = NoRow]
    /\ Excuse({r}, {p})
    /\ StepTo(r, "describe")
    /\ UNCHANGED <<instructions, tables, context, mine, sent, stage5, chosen,
                   cut>>

-------------------------------------------------------------------------------
(* Stage 5: one cluster after the other.                                   *)

\* Groups of two to five photos are ranked.
Rankable(l) == Cardinality(clusters[l]) \in 2 .. 5

\* The labels whose group was ranked under the instructions of now.
CachedRankings == {l \in Labels : groups[l] # NoRow /\ groups[l].hash = instructions}

\* Stage 4 ends; stage 5 takes a snapshot of its own and loads the groups
\* once.  Nothing is pending when there is no stage 5.
BeginRanking(r) ==
    /\ step[r] = "describe"
    /\ todo[r] = {}
    /\ mine' = [mine EXCEPT ![r] = instructions]
    /\ pending' = [pending EXCEPT ![r] =
                      IF r \in ranks THEN {l \in Labels : Rankable(l)} ELSE {}]
    /\ cached' = [cached EXCEPT ![r] = CachedRankings]
    /\ StepTo(r, "rank")
    /\ UNCHANGED <<disturbances, instructions, tables, context, stage4, hand,
                   sent, ranks, replaced, excused, cut>>

\* A hit, or a cluster that another run has replaced meanwhile.
SkipCluster(r, l) ==
    /\ step[r] = "rank"
    /\ r \notin cancelled
    /\ l \in pending[r]
    /\ l \in cached[r] \/ r \in replaced
    /\ pending' = [pending EXCEPT ![r] = @ \ {l}]
    /\ UNCHANGED <<disturbances, instructions, tables, context, step, mine, stage4,
                   hand, sent, cached, ranks, replaced, excused, cut>>

CallRankPhotos(r, l) ==
    /\ step[r] = "rank"
    /\ r \notin cancelled
    /\ l \in pending[r] \ cached[r]
    /\ r \notin replaced
    /\ hand' = [hand EXCEPT ![r] = l]
    /\ sent' = [sent EXCEPT ![r] = Stamped(r)]
    /\ todo' = [todo EXCEPT ![r] = clusters[l]]
    /\ StepTo(r, "ranking")
    /\ UNCHANGED <<disturbances, instructions, tables, context, mine, chosen,
                   stage5, excused, cut>>

\* The rows of a label once the photos were ranked under the instructions.
Ranked(l, photos, hash) ==
    [p \in Photos |-> IF p \in photos THEN hash ELSE rankings[l][p]]

\* One transaction: the group's row and one row for every photo the reply
\* ranks, which need not be all.  Rows of photos ranked before stay.
SaveVLMRanking(r, ranked) ==
    LET l == hand[r] IN
    /\ step[r] = "ranking"
    /\ ranked \subseteq todo[r]
    /\ groups' = [groups EXCEPT ![l] = [with |-> sent[r], hash |-> Claimed(r),
                                        photos |-> ranked]]
    /\ rankings' = [rankings EXCEPT ![l] = Ranked(l, ranked, Claimed(r))]
    /\ pending' = [pending EXCEPT ![r] = @ \ {l}]
    /\ hand' = [hand EXCEPT ![r] = NoRow]
    /\ todo' = [todo EXCEPT ![r] = {}]
    /\ StepTo(r, "rank")
    /\ UNCHANGED <<disturbances, instructions, known, dated, clusters, scores,
                   context, mine, sent, cached, ranks, replaced, chosen,
                   excused, cut>>

RankFails(r) ==
    LET l == hand[r] IN
    /\ step[r] = "ranking"
    /\ IF r \in cancelled THEN UNCHANGED disturbances ELSE Disturb
    /\ pending' = [pending EXCEPT ![r] = @ \ {l}]
    /\ hand' = [hand EXCEPT ![r] = NoRow]
    /\ todo' = [todo EXCEPT ![r] = {}]
    /\ StepTo(r, "rank")
    /\ UNCHANGED <<instructions, tables, context, mine, sent, cached, ranks,
                   replaced, chosen, excused, cut>>

Complete(r) ==
    /\ step[r] = "rank"
    /\ pending[r] = {}
    /\ EndOf(r)
    /\ replaced' = replaced \ {r}
    /\ analysisCancel' = IF analysisCancel = r THEN NoRun ELSE analysisCancel
    /\ UNCHANGED <<disturbances, instructions, tables, cut>>

-------------------------------------------------------------------------------
(* What the user does meanwhile.                                           *)

SetVLMCustomInstructions(i) ==
    /\ i # instructions
    /\ Disturb
    /\ instructions' = i
    /\ UNCHANGED <<tables, context, step, mine, stage4, hand, sent, stage5,
                   excused, cut>>

Edit(p) ==
    /\ p \in dated
    /\ Disturb
    /\ dated' = dated \ {p}
    /\ UNCHANGED <<instructions, known, clusters, scores, groups, rankings,
                   context, step, mine, stage4, hand, sent, stage5, excused, cut>>

\* Mutant: the ranking groups are forgotten.
ClearedButGroups ==
    /\ scores' = [p \in Photos |-> NoRow]
    /\ rankings' = [l \in Labels |-> [p \in Photos |-> NoRow]]
    /\ UNCHANGED groups

ClearedVLMData ==
    /\ scores' = [p \in Photos |-> NoRow]
    /\ groups' = [l \in Labels |-> NoRow]
    /\ rankings' = [l \in Labels |-> [p \in Photos |-> NoRow]]

\* ClearVLMData: one transaction.
ClearVLMData ==
    /\ Disturb
    /\ ClearedVLMData
    /\ Excuse(Runs, Photos)
    /\ UNCHANGED <<instructions, known, dated, clusters, context, step, mine,
                   stage4, hand, sent, stage5, cut>>

\* ClearAIData: the same transaction with the ONNX tables.
ClearAIData ==
    /\ Disturb
    /\ ClearedVLMData
    /\ known' = {} /\ dated' = {}
    /\ clusters' = [l \in Labels |-> {}]
    /\ replaced' = replaced \cup {q \in Runs : step[q] \in {"rank", "ranking"}}
    /\ Excuse(Runs, Photos)
    /\ UNCHANGED <<instructions, context, step, mine, stage4, hand, sent, pending,
                   cached, ranks, cut>>

\* ClearAllVLMData: statements without a transaction.  A failure, or a crash
\* right after, leaves the tables past the last one that was executed.
ClearAllVLMData(last) ==
    /\ Disturb
    /\ scores' = [p \in Photos |-> NoRow]
    /\ rankings' = IF last >= 2 THEN [l \in Labels |-> [p \in Photos |-> NoRow]]
                   ELSE rankings
    /\ groups' = IF last >= 3 THEN [l \in Labels |-> NoRow] ELSE groups
    /\ cut' = (cut \/ last < 3)
    /\ Excuse(Runs, Photos)
    /\ UNCHANGED <<instructions, known, dated, clusters, context, step, mine,
                   stage4, hand, sent, stage5>>

Crash ==
    /\ Disturb
    /\ \E r \in Runs : step[r] # "idle"
    /\ analysisCancel' = NoRun
    /\ step' = [r \in Runs |-> "idle"]
    /\ cancelled' = {}
    /\ mine' = [r \in Runs |-> Empty]
    /\ todo' = [r \in Runs |-> {}]
    /\ hand' = [r \in Runs |-> NoRow]
    /\ sent' = [r \in Runs |-> Empty]
    /\ pending' = [r \in Runs |-> {}]
    /\ cached' = [r \in Runs |-> {}]
    /\ ranks' = {} /\ replaced' = {}
    /\ chosen' = [r \in Runs |-> {}]
    /\ excused' = [r \in Runs |-> {}]
    /\ UNCHANGED <<instructions, tables, cut>>

RunNext(r) ==
    \/ Analyze(r)
    \/ NothingToScore(r)
    \/ \E s \in SUBSET Photos : Prepare(r, s) \/ SaveVLMRanking(r, s)
    \/ Leave(r)
    \/ \E p \in Photos : Hit(r, p) \/ CallScorePhoto(r, p)
    \/ SaveVLMScore(r)
    \/ ScoreFails(r)
    \/ BeginRanking(r)
    \/ \E l \in Labels : SkipCluster(r, l) \/ CallRankPhotos(r, l)
    \/ RankFails(r)
    \/ Complete(r)

StagesNext ==
    \/ \E r \in Runs : RunNext(r)
    \/ CancelAIAnalysis
    \/ \E i \in Instructions : SetVLMCustomInstructions(i)
    \/ \E p \in Photos : Edit(p)
    \/ ClearVLMData
    \/ ClearAIData
    \/ \E last \in 1 .. 3 : ClearAllVLMData(last)
    \/ Crash

StagesSpec == StagesInit /\ [][StagesNext]_stagesVars

-------------------------------------------------------------------------------
(* Properties.                                                             *)

\* A row that names custom instructions was made with them, and so was a
\* ranking: the snapshot keeps "the cache key, the LLM input, and the saved
\* row" together when the user edits the instructions in the middle of a run.
\* (Rows that claim none are excepted: the manager replaces an empty snapshot
\* by the instructions of the moment.)
RowsAgree ==
    /\ \A p \in Photos :
          scores[p] # NoRow /\ scores[p].hash # Empty => scores[p].with = scores[p].hash
    /\ \A l \in Labels :
          groups[l] # NoRow /\ groups[l].hash # Empty => groups[l].with = groups[l].hash

\* A ranking is in the tables whole: every photo a group ranked has its row,
\* made under the group's instructions, and no row is left without its group
\* (a row the LEFT JOIN would never show), whatever was saved, cleared or cut
\* off in between; only a ClearAllVLMData cut off leaves a group of no rows.
RankingsAreWhole ==
    \A l \in Labels :
        /\ groups[l] # NoRow /\ ~cut =>
              \A p \in groups[l].photos : rankings[l][p] = groups[l].hash
        /\ groups[l] = NoRow => \A p \in Photos : rankings[l][p] = NoRow

\* When stage 4 ends every photo it selected has a description under the
\* instructions of its snapshot, from the cache or from the model, unless the
\* inference failed or another call cleared or replaced the row meanwhile.
SelectedAreDescribed ==
    [][\A r \in Runs : BeginRanking(r) =>
          \A p \in chosen[r] \ excused[r] :
              scores[p] # NoRow /\ scores[p].hash = mine[r]]_stagesVars

\* GetStaleVLMFolders: a row was made under other instructions.
IsStale == \E p \in Photos : scores[p] # NoRow /\ scores[p].hash # instructions

\* "The next analysis run will detect a hash mismatch on cached scores and
\* re-score affected photos" (ai_methods.go:1402).  Refuted: a run without
\* photos to score ends before any stage looks at the instructions.
InstructionsTakeEffect ==
    [][\A r \in Runs : NothingToScore(r) => ~IsStale]_stagesVars

\* "only send top N photos to VLM" (ai_methods.go:611), N the photos scored.
\* Refuted: a count of zero means no limit.
SelectionIsLimited ==
    [][\A r \in Runs : step[r] = "prepare" /\ step'[r] = "describe" =>
          Cardinality(chosen'[r]) <= Cardinality(dated' \ dated)]_stagesVars

\* A label's rows are those of its group's ranking.  Refuted: the rows of
\* photos that left the group stay.
RankingsAreOfTheGroup ==
    \A l \in Labels : groups[l] # NoRow =>
        \A p \in Photos : rankings[l][p] # NoRow => p \in groups[l].photos

===============================================================================
