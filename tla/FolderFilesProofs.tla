--------------------------- MODULE FolderFilesProofs ---------------------------
(***************************************************************************)
(* Proofs about FolderFiles, for any folder, any relation Near, any number *)
(* of searches, exports and disturbances.  The type invariant needs how    *)
(* deep a file may be (DepthInv), that no picture is lost what a fallback  *)
(* copy has read and written by now (HeldInv), that groups keep a photo    *)
(* and results are complete what the search still knows of its photos      *)
(* (GroupInv, PlaceInv), and that export marks mean copies which file is   *)
(* whose copy (ExportInv).                                                 *)
(***************************************************************************)
EXTENDS FolderFiles, TLAPS

Moving == {"rename", "create", "copy", "remove"}

\* A file is under as many duplicates/ as there were searches, at most.
DepthInv ==
    /\ \A p \in Paths : Exists(p) => p[2] <= searches
    /\ step = "hash" => \A p \in Paths : Exists(p) => p[2] < searches
    /\ \A p \in Hashed : p[2] < searches
    /\ todo \subseteq Hashed
    /\ step \in {"idle", "hash", "best"} => todo = {}
    /\ step \in Moving => cur \in Hashed

\* What was read of the photo is there and, once written, under duplicates/,
\* but for what was deleted.
HeldInv ==
    /\ step \in {"copy", "remove"} =>
          disk[cur] = held \/ (disk[cur] = None /\ held \notin owed)
    /\ step = "copy" => disk[Under(cur)] = Torn
    /\ step = "remove" =>
          disk[Under(cur)] = held \/ (disk[Under(cur)] = None /\ held \notin owed)

Chosen == {"move", "report"} \cup Moving

\* Photos to stay are not touched; photos to move have not been moved yet.
GroupInv ==
    /\ step = "best" => \A p \in Hashed : disk[p] = hash[p] \/ hash[p] \notin owed
    /\ step \in Chosen =>
          /\ \A g \in Leaders : \E p \in unique : groupOf[p] = g
          /\ unique \subseteq Hashed
          /\ unique \cap todo = {}
          /\ \A p \in unique : disk[p] = hash[p] \/ hash[p] \notin owed
    /\ step \in Moving => cur \in todo
    /\ step = "remove" /\ Under(cur) \in unique => hash[Under(cur)] \notin owed

\* A photo that is still to be moved is where it was, a photo of a picture that
\* is not lost is where its place says.
PlaceInv ==
    /\ step \in {"idle", "hash", "best"} => now = Stay
    /\ \A p \in todo \cup unique : now[p] = p
    /\ step \in {"best"} \cup Chosen =>
          \A p \in Hashed : hash[p] \in owed => \E q \in Hashed : disk[now[q]] = hash[p]

\* The copy of a photo is of its name and not the one that is being written.
ExportInv ==
    /\ \A p \in Paths : copied[p] # None =>
          \E c \in Copies : c[1] = p[1] /\ out[c] = copied[p] /\ (xstep = "write" => c # xto)
    /\ xstep \in {"next", "write"} => \A p \in batch \ left : copied[p] # None
    /\ xstep \in {"mark", "unselect"} => \A p \in batch : copied[p] # None
    /\ \A p \in exported : copied[p] # None
    /\ xstep = "write" =>
          xcur \in left /\ xto \in Copies /\ xto[1] = xcur[1] /\ xheld \in Files

Inv == TypeOK /\ DepthInv /\ HeldInv /\ GroupInv /\ PlaceInv /\ ExportInv /\ PicturesSurvive

-------------------------------------------------------------------------------
(* Types and depths                                                          *)

SearchTypes ==
    /\ searches \in 0 .. Deepest
    /\ disk \in [Paths -> Files \cup {None}] /\ owed \subseteq Pictures
    /\ step \in {"idle", "hash", "best", "move", "report"} \cup Moving
    /\ cancelled \in BOOLEAN
    /\ hash \in [Paths -> Pictures \cup {None}]
    /\ groupOf \in [Paths -> Paths \cup {None}]
    /\ unique \subseteq Paths /\ now \in [Paths -> Paths]
    /\ todo \subseteq Paths /\ cur \in Paths \cup {None}
    /\ step \in Moving => cur \in Paths /\ cur[2] < Deepest
    /\ held \in Files \cup {None}

ExportTypes ==
    /\ exports \in 0 .. MaxExports
    /\ selected \subseteq Paths /\ exported \subseteq Paths
    /\ out \in [Copies -> Files \cup {None}]
    /\ xstep \in {"idle", "next", "write", "mark", "unselect"}
    /\ batch \subseteq Paths /\ left \subseteq batch
    /\ xcur \in Paths \cup {None} /\ xto \in Copies \cup {None}
    /\ xheld \in Files \cup {None}
    /\ copied \in [Paths -> Files \cup {None}]

SharedTypes == disturbances \in 0 .. MaxDisturbances /\ shown \subseteq Paths

LEMMA TypesAgree == TypeOK <=> SearchTypes /\ ExportTypes /\ SharedTypes
  BY DEF TypeOK, SearchTypes, ExportTypes, SharedTypes, Moving

LEMMA TypesAgreeNext == TypeOK' <=> SearchTypes' /\ ExportTypes' /\ SharedTypes'
  BY DEF TypeOK, SearchTypes, ExportTypes, SharedTypes, Moving

LEMMA UnderFacts ==
    ASSUME NEW p \in Paths
    PROVE  /\ p[2] \in 0 .. Deepest
           /\ p[2] < Deepest => /\ Under(p) \in Paths
                                /\ Under(p)[2] = p[2] + 1
                                /\ Under(p) # p
  BY FileBounds DEF Under, Paths

LEMMA FileFacts == None \notin Files /\ Torn \notin Pictures /\ None \notin Paths /\ None \notin Copies
  BY NilValues DEF Files

LEMMA SearchTypesStep ==
    ASSUME TypeOK, DepthInv, SearchSteps
    PROVE  SearchTypes' /\ DepthInv'
<1> USE FileBounds, FileFacts DEF SearchTypes, DepthInv, Moving, Exists, Hashed, counts, search
<1>1. SearchTypes
  BY TypesAgree
<1>2. CASE ScanAndDeduplicate
  <2>1. searches' = searches + 1 /\ searches < Deepest /\ searches \in Nat
    BY <1>1, <1>2 DEF ScanAndDeduplicate
  <2>2. \A p \in Paths : p[2] \in Nat /\ (p[2] <= searches => p[2] < searches')
    BY <2>1, UnderFacts
  <2>3. UNCHANGED <<disk, owed, hash, groupOf, unique, now, todo, cur, held>> /\ step' = "hash" /\ step = "idle"
    BY <1>2 DEF ScanAndDeduplicate
  <2>a. searches' \in 0 .. Deepest
    BY <2>1, FileBounds
  <2>b. cancelled' = FALSE
    BY <1>2 DEF ScanAndDeduplicate
  <2>4. SearchTypes'
    BY <1>1, <2>3, <2>a, <2>b
  <2>5. \A p \in Paths : p[2] < searches => p[2] <= searches
    BY <2>1, UnderFacts
  <2>6. QED
    BY <2>2, <2>3, <2>4, <2>5
<1>3. CASE CancelDeduplicate
  BY <1>1, <1>3 DEF CancelDeduplicate
<1>4. CASE ReturnsCanceled
  BY <1>1, <1>4 DEF ReturnsCanceled, Returns, NoHash, Stay
<1>5. CASE FindDuplicates
  <2>1. PICK failed \in SUBSET Paths :
            hash' = [p \in Paths |-> IF p \in failed \/ disk[p] = Torn THEN None ELSE disk[p]]
    BY <1>5 DEF FindDuplicates
  <2>2. hash' \in [Paths -> Pictures \cup {None}]
    BY <1>1, <2>1 DEF Files
  <2>3. \A p \in Hashed' : disk[p] # None
    BY <1>1, <2>1, <2>2
  <2>4. groupOf' \in [Paths -> Paths \cup {None}]
    BY <1>5 DEF FindDuplicates
  <2>5. UNCHANGED <<searches, disk, owed, cancelled, unique, now, todo, cur, held>> /\ step' = "best"
    BY <1>5 DEF FindDuplicates
  <2>6. todo = {}
    BY <1>5 DEF FindDuplicates
  <2>7. SearchTypes'
    BY <1>1, <2>2, <2>4, <2>5
  <2>8. QED
    BY <1>1, <1>5, <2>3, <2>5, <2>6, <2>7 DEF FindDuplicates
<1>6. CASE FindBestPhotos
  BY <1>1, <1>6 DEF FindBestPhotos
<1>7. CASE NextDuplicate
  BY <1>1, <1>7, UnderFacts DEF NextDuplicate
<1>8. CASE MoveCanceled
  BY <1>1, <1>8 DEF MoveCanceled, Returns, NoHash, Stay, InGroup
<1>9. CASE AllMoved
  BY <1>1, <1>9 DEF AllMoved
<1>10. CASE RenameDuplicate
  BY <1>1, <1>10, UnderFacts DEF RenameDuplicate, Moved, moving, Replaced, Calm
<1>11. CASE RenameFails
  BY <1>1, <1>11, UnderFacts DEF RenameFails, moving
<1>12. CASE CreateCopy
  <2>1. CASE Exists(cur)
    BY <1>1, <1>12, <2>1, UnderFacts DEF CreateCopy, moving, Replaced, Files
  <2>2. CASE ~Exists(cur)
    BY <1>1, <1>12, <2>2 DEF CreateCopy, NotMoved, moving
  <2>3. QED
    BY <2>1, <2>2
<1>13. CASE CopyDuplicate
  BY <1>1, <1>13, UnderFacts DEF CopyDuplicate, moving
<1>14. CASE MoveFails
  BY <1>1, <1>14, UnderFacts DEF MoveFails, NotMoved, moving
<1>15. CASE RemoveOriginal
  BY <1>1, <1>15, UnderFacts DEF RemoveOriginal, Moved, moving
<1>16. CASE RemoveFails
  BY <1>1, <1>16, UnderFacts DEF RemoveFails, NotMoved, moving
<1>17. CASE ReportResult
  BY <1>1, <1>17 DEF ReportResult, Returns, NoHash, Stay
<1>18. QED
  BY <1>2, <1>3, <1>4, <1>5, <1>6, <1>7, <1>8, <1>9, <1>10, <1>11, <1>12, <1>13, <1>14, <1>15, <1>16, <1>17 DEF SearchSteps

-------------------------------------------------------------------------------
(* What the steps leave alone                                                *)

Outside == (\E n \in Names, c \in Pictures : Add(n, c)) \/ \E p \in Paths : Delete(p)

LEMMA SearchKeepsExport ==
    ASSUME SearchSteps \/ Outside
    PROVE  UNCHANGED <<exports, tables, out, export, copied>>
<1>1. CASE Outside
  BY <1>1 DEF Outside, Add, Delete, counts
<1>2. CASE ScanAndDeduplicate \/ CancelDeduplicate \/ ReturnsCanceled \/ FindDuplicates
  BY <1>2 DEF ScanAndDeduplicate, CancelDeduplicate, ReturnsCanceled, FindDuplicates, counts, moving
<1>3. CASE FindBestPhotos \/ NextDuplicate \/ MoveCanceled \/ AllMoved
  BY <1>3 DEF FindBestPhotos, NextDuplicate, MoveCanceled, AllMoved, counts, moving
<1>4. CASE RenameDuplicate \/ RenameFails \/ CreateCopy \/ CopyDuplicate
  BY <1>4 DEF RenameDuplicate, RenameFails, CreateCopy, CopyDuplicate, counts, moving
<1>5. CASE MoveFails \/ RemoveOriginal \/ RemoveFails \/ ReportResult
  BY <1>5 DEF MoveFails, RemoveOriginal, RemoveFails, ReportResult, counts, moving
<1>6. QED
  BY <1>1, <1>2, <1>3, <1>4, <1>5 DEF SearchSteps

LEMMA ExportKeepsSearch ==
    ASSUME ExportSteps
    PROVE  UNCHANGED <<searches, disk, owed, search>>
<1>1. CASE \E p \in Paths : ToggleSelection(p)
  BY <1>1 DEF ToggleSelection, counts
<1>2. CASE LoadDirectory \/ ExportPhotos \/ OpenPhoto \/ OpenFails \/ WritePhoto
  BY <1>2 DEF LoadDirectory, ExportPhotos, OpenPhoto, OpenFails, WritePhoto, counts, exporting
<1>3. CASE WriteFails \/ AllCopied \/ MarkExported \/ SaveSelection \/ ExportEnds
  BY <1>3 DEF WriteFails, AllCopied, MarkExported, SaveSelection, ExportEnds, counts, exporting
<1>4. QED
  BY <1>1, <1>2, <1>3 DEF ExportSteps

\* Disturbances are bounded, and the grid shows paths.
LEMMA SharedTypesStep ==
    ASSUME TypeOK, Next
    PROVE  SharedTypes'
<1> USE FileBounds DEF SharedTypes, Disturb, Calm
<1>1. SharedTypes /\ SearchTypes
  BY TypesAgree
<1>2. ASSUME Disturb PROVE disturbances' \in 0 .. MaxDisturbances
  BY <1>1, <1>2
<1>3. CASE Outside
  BY <1>1, <1>2, <1>3 DEF Outside, Add, Delete
<1>4. CASE Crash
  BY <1>1, <1>2, <1>4 DEF Crash
<1>5. CASE \E p \in Paths : ToggleSelection(p)
  BY <1>1, <1>5 DEF ToggleSelection
<1>6. CASE ScanAndDeduplicate \/ CancelDeduplicate \/ ReturnsCanceled
  BY <1>1, <1>2, <1>6 DEF ScanAndDeduplicate, CancelDeduplicate, ReturnsCanceled, moving, exporting, counts
<1>7. CASE FindDuplicates
  BY <1>1, <1>2, <1>7 DEF FindDuplicates, moving, exporting
<1>8. CASE FindBestPhotos \/ NextDuplicate \/ MoveCanceled \/ AllMoved
  BY <1>1, <1>2, <1>8 DEF FindBestPhotos, NextDuplicate, MoveCanceled, AllMoved, moving, exporting
<1>9. CASE RenameDuplicate \/ RenameFails \/ CreateCopy \/ CopyDuplicate
  BY <1>1, <1>2, <1>9 DEF RenameDuplicate, RenameFails, CreateCopy, CopyDuplicate, moving, exporting
<1>10. CASE MoveFails \/ RemoveOriginal \/ RemoveFails
  BY <1>1, <1>2, <1>10 DEF MoveFails, RemoveOriginal, RemoveFails, moving, exporting
<1>11. CASE ReportResult
  BY <1>1, <1>2, <1>11 DEF ReportResult, moving, exporting, Listed, SearchTypes
<1>12. CASE ExportPhotos \/ OpenPhoto \/ OpenFails \/ WritePhoto \/ WriteFails
  BY <1>1, <1>2, <1>12 DEF ExportPhotos, OpenPhoto, OpenFails, WritePhoto, WriteFails, moving, exporting
<1>13. CASE AllCopied \/ MarkExported \/ SaveSelection
  BY <1>1, <1>2, <1>13 DEF AllCopied, MarkExported, SaveSelection, moving, exporting
<1>14. CASE LoadDirectory \/ ExportEnds
  BY <1>1, <1>2, <1>14 DEF LoadDirectory, ExportEnds, moving, exporting, Listing
<1>15. QED
  BY <1>3, <1>4, <1>5, <1>6, <1>7, <1>8, <1>9, <1>10, <1>11, <1>12, <1>13, <1>14 DEF Next, SearchSteps, ExportSteps, Outside

LEMMA ExportTypesStep ==
    ASSUME TypeOK, ExportSteps
    PROVE  ExportTypes'
<1> USE FileBounds, FileFacts DEF ExportTypes, counts
<1>1. ExportTypes /\ SharedTypes /\ SearchTypes
  BY TypesAgree
<1>2. CASE \E p \in Paths : ToggleSelection(p)
  BY <1>1, <1>2 DEF ToggleSelection, export
<1>3. CASE LoadDirectory
  BY <1>1, <1>3 DEF LoadDirectory, tables, export
<1>4. CASE ExportPhotos
  BY <1>1, <1>4 DEF ExportPhotos, SharedTypes, tables
<1>5. CASE OpenPhoto
  BY <1>1, <1>5 DEF OpenPhoto, exporting, tables, Files, SearchTypes, Exists
<1>6. CASE OpenFails
  BY <1>1, <1>6 DEF OpenFails, exporting, tables, ExportReturns
<1>7. CASE WritePhoto
  BY <1>1, <1>7 DEF WritePhoto, exporting, tables
<1>8. CASE WriteFails
  BY <1>1, <1>8 DEF WriteFails, exporting, tables, ExportReturns
<1>9. CASE AllCopied
  BY <1>1, <1>9 DEF AllCopied, exporting, tables
<1>10. CASE MarkExported
  BY <1>1, <1>10 DEF MarkExported, exporting
<1>11. CASE SaveSelection
  BY <1>1, <1>11 DEF SaveSelection, exporting
<1>12. CASE ExportEnds
  BY <1>1, <1>12 DEF ExportEnds, exporting, tables, ExportReturns
<1>13. QED
  BY <1>2, <1>3, <1>4, <1>5, <1>6, <1>7, <1>8, <1>9, <1>10, <1>11, <1>12 DEF ExportSteps

-------------------------------------------------------------------------------
(* The search                                                                *)

\* The steps that leave the files alone.
LEMMA QuietSearch ==
    ASSUME SearchSteps,
           ~RenameDuplicate, ~CreateCopy, ~CopyDuplicate, ~RemoveOriginal, ~RemoveFails
    PROVE  /\ UNCHANGED <<disk, owed>>
           /\ step' \in {"copy", "remove"} => UNCHANGED <<step, cur, held, unique, hash>>
<1>1. CASE ScanAndDeduplicate \/ CancelDeduplicate \/ ReturnsCanceled \/ FindDuplicates
  BY <1>1 DEF ScanAndDeduplicate, CancelDeduplicate, ReturnsCanceled, FindDuplicates, Returns
<1>2. CASE FindBestPhotos \/ NextDuplicate \/ MoveCanceled \/ AllMoved
  BY <1>2 DEF FindBestPhotos, NextDuplicate, MoveCanceled, AllMoved, Returns
<1>3. CASE RenameFails \/ MoveFails \/ ReportResult
  BY <1>3 DEF RenameFails, MoveFails, ReportResult, Returns, NotMoved
<1>4. QED
  BY <1>1, <1>2, <1>3 DEF SearchSteps

\* What is moved, and to where.
LEMMA MovingFacts ==
    ASSUME TypeOK, DepthInv, step \in Moving
    PROVE  /\ cur \in Paths /\ cur \in Hashed /\ Under(cur) \in Paths /\ Under(cur) # cur
           /\ disk \in [Paths -> Files \cup {None}] /\ owed \subseteq Pictures
           /\ held \in Files \cup {None}
           /\ now \in [Paths -> Paths] /\ hash \in [Paths -> Pictures \cup {None}]
           /\ unique \subseteq Paths /\ todo \subseteq Paths
<1>1. SearchTypes
  BY TypesAgree
<1>2. cur \in Paths /\ cur[2] < Deepest
  BY <1>1 DEF SearchTypes
<1>3. QED
  BY <1>1, <1>2, UnderFacts DEF SearchTypes, DepthInv

LEMMA HeldStep ==
    ASSUME TypeOK, DepthInv, HeldInv, SearchSteps
    PROVE  HeldInv'
<1> USE DEF HeldInv, Under
<1>1. CASE RenameDuplicate
  BY <1>1 DEF RenameDuplicate, Moved
<1>2. CASE CreateCopy
  <2>1. step \in Moving
    BY <1>2 DEF CreateCopy, Moving
  <2>2. CASE step' = "copy"
    BY <1>2, <2>1, <2>2, MovingFacts DEF CreateCopy, NotMoved, moving, Replaced
  <2>3. CASE step' = "move"
    BY <2>3
  <2>4. QED
    BY <1>2, <2>2, <2>3 DEF CreateCopy, NotMoved
<1>3. CASE CopyDuplicate
  <2>1. step \in Moving
    BY <1>3 DEF CopyDuplicate, Moving
  <2>2. QED
    BY <1>3, <2>1, MovingFacts DEF CopyDuplicate, moving
<1>4. CASE RemoveOriginal
  BY <1>4 DEF RemoveOriginal, Moved
<1>5. CASE RemoveFails
  BY <1>5 DEF RemoveFails, NotMoved
<1>6. QED
  BY <1>1, <1>2, <1>3, <1>4, <1>5, QuietSearch

LEMMA SurviveStep ==
    ASSUME TypeOK, DepthInv, HeldInv, PicturesSurvive, SearchSteps
    PROVE  PicturesSurvive'
<1> USE FileFacts DEF PicturesSurvive
<1>1. CASE RenameDuplicate
  <2>1. step \in Moving
    BY <1>1 DEF RenameDuplicate, Moving
  <2>2. SUFFICES ASSUME NEW c \in owed'
                 PROVE  \E p \in Paths : disk'[p] = c
    OBVIOUS
  <2>3. c \in owed /\ c # disk[Under(cur)]
    BY <1>1 DEF RenameDuplicate, Replaced
  <2>4. PICK p \in Paths : disk[p] = c
    BY <2>3
  <2>5. CASE p = cur
    BY <1>1, <2>1, <2>4, <2>5, MovingFacts DEF RenameDuplicate
  <2>6. CASE p # cur
    BY <1>1, <2>1, <2>3, <2>4, <2>6, MovingFacts DEF RenameDuplicate
  <2>7. QED
    BY <2>5, <2>6
<1>2. CASE CreateCopy
  <2>1. step \in Moving
    BY <1>2 DEF CreateCopy, Moving
  <2>2. CASE ~Exists(cur)
    BY <1>2, <2>2 DEF CreateCopy
  <2>3. CASE Exists(cur)
    BY <1>2, <2>1, <2>3, MovingFacts DEF CreateCopy, Replaced
  <2>4. QED
    BY <2>2, <2>3
<1>3. CASE CopyDuplicate
  <2>1. step \in Moving
    BY <1>3 DEF CopyDuplicate, Moving
  <2>2. disk[Under(cur)] = Torn
    BY <1>3 DEF CopyDuplicate, HeldInv
  <2>3. QED
    BY <1>3, <2>1, <2>2, MovingFacts DEF CopyDuplicate, moving
<1>4. CASE RemoveOriginal
  <2>1. step \in Moving
    BY <1>4 DEF RemoveOriginal, Moving
  <2>2. disk[cur] \in owed => disk[Under(cur)] = disk[cur]
    BY <1>4, <2>1, MovingFacts DEF RemoveOriginal, HeldInv, Exists
  <2>3. QED
    BY <1>4, <2>1, <2>2, MovingFacts DEF RemoveOriginal, moving
<1>5. CASE RemoveFails
  <2>1. step \in Moving
    BY <1>5 DEF RemoveFails, Moving
  <2>2. disk[Under(cur)] \in owed => disk[Under(cur)] = disk[cur]
    <3>1. CASE disk[Under(cur)] = None
      BY <2>1, <3>1, MovingFacts DEF Files
    <3>2. CASE disk[Under(cur)] # None
      BY <1>5, <3>2 DEF RemoveFails, HeldInv
    <3>3. QED
      BY <3>1, <3>2
  <2>3. CASE UNCHANGED disk
    BY <1>5, <2>3 DEF RemoveFails, moving
  <2>4. CASE disk' = [disk EXCEPT ![Under(cur)] = None]
    BY <1>5, <2>1, <2>2, <2>4, MovingFacts DEF RemoveFails, moving
  <2>5. QED
    BY <1>5, <2>3, <2>4 DEF RemoveFails
<1>6. QED
  BY <1>1, <1>2, <1>3, <1>4, <1>5, QuietSearch

\* What a search knows of its photos does not change while it moves them.
LEMMA MovingKeeps ==
    ASSUME RenameDuplicate \/ RenameFails \/ CreateCopy \/ CopyDuplicate \/ MoveFails
              \/ RemoveOriginal \/ RemoveFails
    PROVE  /\ step \in Moving /\ step' \in Chosen
           /\ UNCHANGED <<hash, groupOf, unique, cur>>
           /\ Hashed' = Hashed /\ Leaders' = Leaders
           /\ \/ UNCHANGED <<todo, now>> /\ step' # "move"
              \/ todo' = todo \ {cur} /\ UNCHANGED now /\ step' = "move"
              \/ todo' = todo \ {cur} /\ now' = [now EXCEPT ![cur] = Under(cur)] /\ step' = "move"
<1> USE DEF moving, Moving, Chosen, Hashed, Leaders, Moved, NotMoved
<1>1. CASE RenameDuplicate \/ RenameFails
  BY <1>1 DEF RenameDuplicate, RenameFails
<1>2. CASE CreateCopy
  BY <1>2 DEF CreateCopy
<1>3. CASE CopyDuplicate \/ MoveFails
  BY <1>3 DEF CopyDuplicate, MoveFails
<1>4. CASE RemoveOriginal \/ RemoveFails
  BY <1>4 DEF RemoveOriginal, RemoveFails
<1>5. QED
  BY <1>1, <1>2, <1>3, <1>4

\* A photo to stay is there as long as nothing is moved over it.
LEMMA UniqueStay ==
    ASSUME TypeOK, DepthInv, HeldInv, GroupInv, NEW p \in unique,
           RenameDuplicate \/ CreateCopy \/ CopyDuplicate \/ RemoveOriginal \/ RemoveFails
    PROVE  disk'[p] = hash[p] \/ hash[p] \notin owed'
<1>1. step \in Moving
  BY MovingKeeps
<1>2. /\ disk[p] = hash[p] \/ hash[p] \notin owed
      /\ p \in Hashed /\ p \in Paths /\ p # cur
  BY <1>1, MovingFacts DEF GroupInv, Chosen
<1>3. hash[p] # Torn
  BY <1>1, <1>2, MovingFacts, NilValues
<1>4. CASE RenameDuplicate
  BY <1>1, <1>2, <1>4, MovingFacts DEF RenameDuplicate, Replaced
<1>5. CASE CreateCopy
  BY <1>1, <1>2, <1>5, MovingFacts DEF CreateCopy, Replaced
<1>6. CASE CopyDuplicate
  BY <1>1, <1>2, <1>3, <1>6, MovingFacts DEF CopyDuplicate, moving, HeldInv
<1>7. CASE RemoveOriginal
  BY <1>1, <1>2, <1>7, MovingFacts DEF RemoveOriginal, moving
<1>8. CASE RemoveFails
  BY <1>1, <1>2, <1>8, MovingFacts DEF RemoveFails, moving, GroupInv
<1>9. QED
  BY <1>4, <1>5, <1>6, <1>7, <1>8

LEMMA GroupStep ==
    ASSUME TypeOK, DepthInv, HeldInv, GroupInv, SearchSteps
    PROVE  GroupInv'
<1>1. SearchTypes
  BY TypesAgree
<1>2. CASE ScanAndDeduplicate \/ ReturnsCanceled \/ MoveCanceled \/ ReportResult
  BY <1>2 DEF ScanAndDeduplicate, ReturnsCanceled, MoveCanceled, ReportResult, Returns, GroupInv,
              Chosen, Moving
<1>3. CASE CancelDeduplicate
  BY <1>3 DEF CancelDeduplicate, GroupInv, Hashed, Leaders
<1>4. CASE FindDuplicates
  <2>1. \A p \in Hashed' : hash'[p] = disk[p]
    BY <1>4 DEF FindDuplicates, Hashed
  <2>2. step' = "best" /\ UNCHANGED disk
    BY <1>4 DEF FindDuplicates
  <2>3. QED
    BY <2>1, <2>2 DEF GroupInv, Chosen, Moving
<1>5. CASE FindBestPhotos
  <2>1. PICK best \in [Leaders -> Hashed] :
            /\ \A g \in Leaders : groupOf[best[g]] = g
            /\ unique' = {best[g] : g \in Leaders}
    BY <1>5 DEF FindBestPhotos
  <2>2. /\ step = "best" /\ step' = "move" /\ todo' = Hashed \ unique'
        /\ UNCHANGED <<disk, owed, hash, groupOf>>
    BY <1>5 DEF FindBestPhotos
  <2>3. Hashed' = Hashed /\ Leaders' = Leaders
    BY <2>2 DEF Hashed, Leaders
  <2>4. unique' \subseteq Hashed
    BY <2>1
  <2>5. \A g \in Leaders : \E p \in unique' : groupOf[p] = g
    BY <2>1
  <2>6. \A p \in unique' : disk[p] = hash[p] \/ hash[p] \notin owed
    BY <2>2, <2>4 DEF GroupInv
  <2>7. QED
    BY <2>2, <2>3, <2>4, <2>5, <2>6 DEF GroupInv, Moving
<1>6. CASE NextDuplicate
  <2>1. /\ cur' \in todo /\ step = "move" /\ step' = "rename"
        /\ UNCHANGED <<disk, owed, hash, groupOf, unique, todo>>
    BY <1>6 DEF NextDuplicate
  <2>2. QED
    BY <2>1 DEF GroupInv, Chosen, Hashed, Leaders
<1>7. CASE AllMoved
  <2>1. /\ step = "move" /\ step' = "report"
        /\ UNCHANGED <<disk, owed, hash, groupOf, unique, todo, cur>>
    BY <1>7 DEF AllMoved
  <2>2. QED
    BY <2>1 DEF GroupInv, Chosen, Hashed, Leaders, Moving
<1>8. CASE RenameFails \/ MoveFails
  <2>1. UNCHANGED <<disk, owed>> /\ step' \in {"create", "move"}
    BY <1>8 DEF RenameFails, MoveFails, NotMoved
  <2>2. QED
    BY <1>8, <2>1, MovingKeeps DEF GroupInv, Chosen, Moving
<1>9. CASE RenameDuplicate \/ CreateCopy \/ CopyDuplicate \/ RemoveOriginal \/ RemoveFails
  <2>1. \A p \in unique : disk'[p] = hash[p] \/ hash[p] \notin owed'
    BY <1>9, UniqueStay
  <2>2. step' = "remove" /\ Under(cur) \in unique => hash[Under(cur)] \notin owed'
    <3>1. SUFFICES ASSUME step' = "remove", Under(cur) \in unique
                   PROVE  hash[Under(cur)] \notin owed'
      OBVIOUS
    <3>2. step = "copy" /\ UNCHANGED owed
      BY <1>9, <3>1 DEF RenameDuplicate, CreateCopy, CopyDuplicate, RemoveOriginal, RemoveFails,
                        Moved, NotMoved, moving
    <3>3. /\ disk[Under(cur)] = Torn /\ Under(cur) \in Hashed
          /\ disk[Under(cur)] = hash[Under(cur)] \/ hash[Under(cur)] \notin owed
      BY <3>1, <3>2 DEF HeldInv, GroupInv, Chosen, Moving
    <3>4. hash[Under(cur)] # Torn
      BY <3>3, <1>1, NilValues DEF SearchTypes, Hashed
    <3>5. QED
      BY <3>2, <3>3, <3>4
  <2>3. step \in Chosen /\ step' # "best"
    BY <1>9, MovingKeeps DEF Chosen, Moving
  <2>4. Under(cur)' = Under(cur)
    BY <1>9, MovingKeeps DEF Under
  <2>5. QED
    BY <1>9, <2>1, <2>2, <2>3, <2>4, MovingKeeps DEF GroupInv, Moving
<1>10. QED
  BY <1>2, <1>3, <1>4, <1>5, <1>6, <1>7, <1>8, <1>9 DEF SearchSteps

\* No picture of the search is at a place its photo does not have.
LEMMA PlacesStay ==
    ASSUME TypeOK, DepthInv, HeldInv, GroupInv, PlaceInv, NEW p \in Hashed, hash[p] \in owed',
           RenameDuplicate \/ CreateCopy \/ CopyDuplicate \/ RemoveOriginal \/ RemoveFails
    PROVE  \E q \in Hashed : disk'[now'[q]] = hash[p]
<1>1. step \in Moving
  BY MovingKeeps
<1>2. now[cur] = cur
  BY <1>1 DEF GroupInv, PlaceInv
<1>3. owed' \subseteq owed
  BY DEF RenameDuplicate, CreateCopy, CopyDuplicate, RemoveOriginal, RemoveFails, moving, Replaced
<1>4. PICK q \in Hashed : disk[now[q]] = hash[p]
  BY <1>1, <1>3 DEF PlaceInv, Chosen
<1>5. q \in Paths /\ now[q] \in Paths /\ hash[p] \in Pictures /\ hash[p] # Torn
  BY <1>1, MovingFacts, FileFacts DEF Hashed
<1>6. CASE RenameDuplicate
  <2>1. /\ disk' = [disk EXCEPT ![Under(cur)] = disk[cur], ![cur] = None]
        /\ now' = [now EXCEPT ![cur] = Under(cur)]
        /\ owed' = owed \ {disk[Under(cur)]}
    BY <1>6 DEF RenameDuplicate, Replaced, Moved
  <2>2. now[q] # Under(cur)
    BY <1>4, <2>1
  <2>3. CASE now[q] = cur
    <3>1. disk'[now'[cur]] = hash[p]
      BY <1>1, <1>4, <2>1, <2>3, MovingFacts
    <3>2. QED
      BY <1>1, <3>1, MovingFacts
  <2>4. CASE now[q] # cur
    <3>1. q # cur
      BY <1>2, <2>4
    <3>2. disk'[now'[q]] = hash[p]
      BY <1>1, <1>4, <1>5, <2>1, <2>2, <2>4, <3>1, MovingFacts
    <3>3. QED
      BY <3>2
  <2>5. QED
    BY <2>3, <2>4
<1>7. CASE CreateCopy
  <2>1. UNCHANGED now
    BY <1>7 DEF CreateCopy, NotMoved
  <2>2. CASE UNCHANGED disk
    BY <1>4, <2>1, <2>2
  <2>3. CASE disk' = [disk EXCEPT ![Under(cur)] = Torn] /\ owed' = owed \ {disk[Under(cur)]}
    <3>1. now[q] # Under(cur)
      BY <1>4, <2>3
    <3>2. QED
      BY <1>1, <1>4, <1>5, <2>1, <2>3, <3>1, MovingFacts
  <2>4. QED
    BY <1>7, <2>2, <2>3 DEF CreateCopy, Replaced
<1>8. CASE CopyDuplicate
  <2>1. /\ disk' = [disk EXCEPT ![Under(cur)] = held] /\ UNCHANGED now
        /\ disk[Under(cur)] = Torn
    BY <1>8 DEF CopyDuplicate, HeldInv
  <2>2. QED
    BY <1>1, <1>4, <1>5, <2>1, MovingFacts
<1>9. CASE RemoveOriginal
  <2>1. /\ disk' = [disk EXCEPT ![cur] = None] /\ now' = [now EXCEPT ![cur] = Under(cur)]
        /\ UNCHANGED owed
    BY <1>9 DEF RemoveOriginal, Moved, moving
  <2>2. CASE now[q] = cur
    <3>1. disk[Under(cur)] = hash[p]
      BY <1>4, <1>9, <2>1, <2>2 DEF RemoveOriginal, HeldInv, Exists
    <3>2. disk'[now'[cur]] = hash[p]
      BY <1>1, <2>1, <3>1, MovingFacts
    <3>3. QED
      BY <1>1, <3>2, MovingFacts
  <2>3. CASE now[q] # cur
    <3>1. q # cur
      BY <1>2, <2>3
    <3>2. QED
      BY <1>1, <1>4, <1>5, <2>1, <2>3, <3>1, MovingFacts
  <2>4. QED
    BY <2>2, <2>3
<1>10. CASE RemoveFails
  <2>1. UNCHANGED <<now, owed>>
    BY <1>10 DEF RemoveFails, NotMoved
  <2>2. CASE UNCHANGED disk
    BY <1>4, <2>1, <2>2
  <2>3. CASE disk' = [disk EXCEPT ![Under(cur)] = None] /\ now[q] = Under(cur)
    <3>1. disk[Under(cur)] # None
      BY <1>4, <1>5, <2>3, NilValues
    <3>2. disk[cur] = hash[p]
      BY <1>4, <1>10, <2>1, <2>3, <3>1 DEF RemoveFails, HeldInv
    <3>3. QED
      BY <1>1, <1>2, <2>1, <2>3, <3>2, MovingFacts
  <2>4. CASE disk' = [disk EXCEPT ![Under(cur)] = None] /\ now[q] # Under(cur)
    BY <1>1, <1>4, <1>5, <2>1, <2>4, MovingFacts
  <2>5. QED
    BY <1>10, <2>2, <2>3, <2>4 DEF RemoveFails
<1>11. QED
  BY <1>6, <1>7, <1>8, <1>9, <1>10

LEMMA PlaceStep ==
    ASSUME TypeOK, DepthInv, HeldInv, GroupInv, PlaceInv, SearchSteps
    PROVE  PlaceInv'
<1>1. SearchTypes
  BY TypesAgree
<1>2. CASE ScanAndDeduplicate
  BY <1>2 DEF ScanAndDeduplicate, PlaceInv, Chosen, Moving
<1>3. CASE ReturnsCanceled \/ MoveCanceled \/ ReportResult
  BY <1>3 DEF ReturnsCanceled, MoveCanceled, ReportResult, Returns, PlaceInv, Chosen, Moving
<1>4. CASE CancelDeduplicate
  BY <1>4 DEF CancelDeduplicate, PlaceInv, Hashed
<1>5. CASE FindDuplicates
  <2>1. \A p \in Hashed' : hash'[p] = disk[p] /\ p \in Paths
    BY <1>5 DEF FindDuplicates, Hashed
  <2>2. step = "hash" /\ step' = "best" /\ UNCHANGED <<disk, now, todo, unique>>
    BY <1>5 DEF FindDuplicates
  <2>3. \A p \in Paths : now[p] = p
    BY <2>2 DEF PlaceInv, Stay
  <2>4. QED
    BY <2>1, <2>2, <2>3 DEF PlaceInv
<1>6. CASE FindBestPhotos
  <2>1. /\ step = "best" /\ step' = "move" /\ todo' \cup unique' \subseteq Hashed
        /\ UNCHANGED <<disk, owed, hash, now>>
    BY <1>6 DEF FindBestPhotos
  <2>2. \A p \in Hashed : now[p] = p
    BY <2>1 DEF PlaceInv, Stay, Hashed
  <2>3. Hashed' = Hashed
    BY <2>1 DEF Hashed
  <2>4. QED
    BY <2>1, <2>2, <2>3 DEF PlaceInv
<1>7. CASE NextDuplicate \/ AllMoved
  <2>1. /\ step = "move" /\ step' \in {"rename", "report"}
        /\ UNCHANGED <<disk, owed, hash, now, todo, unique>>
    BY <1>7 DEF NextDuplicate, AllMoved
  <2>2. QED
    BY <2>1 DEF PlaceInv, Chosen, Hashed
<1>8. CASE RenameFails \/ MoveFails
  <2>1. UNCHANGED <<disk, owed, now>> /\ todo' \subseteq todo
    BY <1>8 DEF RenameFails, MoveFails, NotMoved
  <2>2. QED
    BY <1>8, <2>1, MovingKeeps DEF PlaceInv, Chosen, Moving
<1>9. CASE RenameDuplicate \/ CreateCopy \/ CopyDuplicate \/ RemoveOriginal \/ RemoveFails
  <2>1. \A p \in Hashed : hash[p] \in owed' => \E q \in Hashed : disk'[now'[q]] = hash[p]
    BY <1>9, PlacesStay
  <2>2. cur \notin unique /\ now \in [Paths -> Paths] /\ todo \cup unique \subseteq Paths
    BY <1>1, <1>9, MovingKeeps DEF GroupInv, SearchTypes, Chosen
  <2>3. \A p \in todo' \cup unique' : now'[p] = p
    BY <1>9, <2>2, MovingKeeps DEF PlaceInv
  <2>4. QED
    BY <1>9, <2>1, <2>3, MovingKeeps DEF PlaceInv, Chosen, Moving
<1>10. QED
  BY <1>2, <1>3, <1>4, <1>5, <1>6, <1>7, <1>8, <1>9 DEF SearchSteps

-------------------------------------------------------------------------------
(* The export                                                                *)

LEMMA ExportStep ==
    ASSUME TypeOK, ExportInv, ExportSteps
    PROVE  ExportInv'
<1> USE FileFacts DEF ExportInv
<1>1. ExportTypes /\ SharedTypes /\ SearchTypes
  BY TypesAgree
<1>2. CASE LoadDirectory \/ \E p \in Paths : ToggleSelection(p)
  BY <1>2 DEF LoadDirectory, ToggleSelection, export, tables
<1>3. CASE ExportPhotos
  BY <1>3 DEF ExportPhotos, tables
<1>4. CASE OpenPhoto
  <2>1. PICK p \in left, c \in Copies :
            /\ Exists(p) /\ UniquePath(p[1], c)
            /\ xcur' = p /\ xheld' = disk[p] /\ xto' = c
            /\ out' = [out EXCEPT ![c] = Torn]
    BY <1>4 DEF OpenPhoto
  <2>2. /\ xstep = "next" /\ xstep' = "write"
        /\ UNCHANGED <<batch, left, copied, exported>>
    BY <1>4 DEF OpenPhoto, tables
  <2>3. out[c] = None /\ c[1] = p[1]
    BY <2>1 DEF UniquePath
  <2>4. ASSUME NEW q \in Paths, copied[q] # None
        PROVE  \E d \in Copies : d[1] = q[1] /\ out'[d] = copied[q] /\ d # c
    <3>1. PICK d \in Copies : d[1] = q[1] /\ out[d] = copied[q]
      BY <2>4
    <3>2. d # c
      BY <2>3, <2>4, <3>1
    <3>3. QED
      BY <1>1, <2>1, <3>1, <3>2 DEF ExportTypes
  <2>5. p \in Paths /\ disk[p] \in Files
    BY <1>1, <2>1 DEF ExportTypes, SearchTypes, Exists
  <2>6. QED
    BY <2>1, <2>2, <2>3, <2>4, <2>5
<1>5. CASE OpenFails \/ WriteFails \/ ExportEnds
  BY <1>5 DEF OpenFails, WriteFails, ExportEnds, ExportReturns, tables
<1>6. CASE WritePhoto
  <2>1. /\ xstep = "write" /\ xstep' = "next"
        /\ out' = [out EXCEPT ![xto] = xheld]
        /\ copied' = [copied EXCEPT ![xcur] = xheld]
        /\ left' = left \ {xcur}
        /\ UNCHANGED <<batch, exported>>
    BY <1>6 DEF WritePhoto, tables
  <2>2. /\ xcur \in left /\ xcur \in Paths /\ xto \in Copies /\ xto[1] = xcur[1]
        /\ xheld \in Files /\ xheld # None
    BY <1>1, <2>1 DEF ExportTypes
  <2>3. ASSUME NEW q \in Paths, copied'[q] # None
        PROVE  \E d \in Copies : d[1] = q[1] /\ out'[d] = copied'[q]
    <3>1. CASE q = xcur
      BY <1>1, <2>1, <2>2, <3>1 DEF ExportTypes
    <3>2. CASE q # xcur
      <4>1. copied'[q] = copied[q]
        BY <1>1, <2>1, <3>2 DEF ExportTypes
      <4>2. PICK d \in Copies : d[1] = q[1] /\ out[d] = copied[q] /\ d # xto
        BY <2>1, <2>3, <4>1
      <4>3. QED
        BY <1>1, <2>1, <4>1, <4>2 DEF ExportTypes
    <3>3. QED
      BY <3>1, <3>2
  <2>4. \A q \in Paths : copied[q] # None \/ q = xcur => copied'[q] # None
    BY <1>1, <2>1, <2>2 DEF ExportTypes
  <2>5. \A q \in batch \ left' : copied'[q] # None
    BY <1>1, <2>1, <2>4 DEF ExportTypes
  <2>6. \A q \in exported : copied'[q] # None
    BY <1>1, <2>4 DEF ExportTypes
  <2>7. QED
    BY <2>1, <2>3, <2>5, <2>6
<1>7. CASE AllCopied
  BY <1>7 DEF AllCopied, tables
<1>8. CASE MarkExported
  <2>1. PICK p \in left : exported' \subseteq exported \cup {p}
    BY <1>8 DEF MarkExported
  <2>2. /\ xstep = "mark" /\ xstep' = "unselect"
        /\ UNCHANGED <<out, batch, copied>>
    BY <1>8 DEF MarkExported
  <2>3. p \in batch
    BY <1>1 DEF ExportTypes
  <2>4. \A q \in exported' : copied[q] # None
    BY <2>1, <2>2, <2>3
  <2>5. QED
    BY <2>2, <2>4
<1>9. CASE SaveSelection
  BY <1>9 DEF SaveSelection
<1>10. QED
  BY <1>2, <1>3, <1>4, <1>5, <1>6, <1>7, <1>8, <1>9 DEF ExportSteps

-------------------------------------------------------------------------------
(* The invariant                                                             *)

\* A folder to begin with holds no torn file and has no duplicates/.
LEMMA InitInv == Init => Inv
<1> SUFFICES ASSUME Init PROVE Inv
  OBVIOUS
<1> USE FileBounds, FileFacts
<1>1. PICK lib \in Libraries :
          /\ disk = [p \in Paths |-> IF p[2] = 0 THEN lib[p[1]] ELSE None]
          /\ owed = {lib[n] : n \in Names} \ {None}
  BY DEF Init
<1>2. lib \in [Names -> Pictures \cup {None}]
  BY LibrariesTyped
<1>3. \A p \in Paths : p[1] \in Names /\ p[2] \in 0 .. Deepest
  BY DEF Paths
<1>4. disk \in [Paths -> Files \cup {None}] /\ owed \subseteq Pictures
  BY <1>1, <1>2, <1>3 DEF Files
<1>5. SearchTypes
  <2>1. searches \in 0 .. Deepest
    BY DEF Init
  <2>2. hash \in [Paths -> Pictures \cup {None}] /\ groupOf \in [Paths -> Paths \cup {None}]
    BY DEF Init, NoHash
  <2>3. now \in [Paths -> Paths]
    BY DEF Init, Stay
  <2>4. step = "idle" /\ cancelled = FALSE /\ unique = {} /\ todo = {} /\ cur = None /\ held = None
    BY DEF Init
  <2>5. QED
    BY <1>4, <2>1, <2>2, <2>3, <2>4 DEF SearchTypes, Moving
<1>6. ExportTypes /\ SharedTypes
  BY DEF Init, ExportTypes, SharedTypes, NoHash
<1>7. DepthInv
  BY <1>1, <1>3 DEF Init, DepthInv, Exists, Hashed, NoHash, Moving
<1>8. HeldInv /\ GroupInv /\ PlaceInv
  BY DEF Init, HeldInv, GroupInv, PlaceInv, Hashed, NoHash, Stay, Chosen, Moving
<1>9. ExportInv
  BY DEF Init, ExportInv, NoHash
<1>10. PicturesSurvive
  <2>1. SUFFICES ASSUME NEW c \in owed PROVE \E p \in Paths : disk[p] = c
    BY DEF PicturesSurvive
  <2>2. PICK n \in Names : c = lib[n]
    BY <1>1
  <2>3. <<n, 0>> \in Paths
    BY DEF Paths
  <2>4. QED
    BY <1>1, <2>2, <2>3
<1>11. QED
  BY <1>5, <1>6, <1>7, <1>8, <1>9, <1>10, TypesAgree DEF Inv

LEMMA SearchInv == ASSUME Inv, SearchSteps PROVE Inv'
<1>1. UNCHANGED <<exports, tables, out, export, copied>>
  BY SearchKeepsExport
<1>2. ExportTypes /\ ExportInv
  BY TypesAgree DEF Inv
<1>3. ExportTypes' /\ ExportInv'
  BY <1>1, <1>2 DEF ExportTypes, ExportInv, tables, export
<1>4. Next
  BY DEF Next
<1>5. SharedTypes'
  BY <1>4, SharedTypesStep DEF Inv
<1>6. SearchTypes' /\ DepthInv'
  BY SearchTypesStep DEF Inv
<1>7. HeldInv' /\ GroupInv' /\ PlaceInv' /\ PicturesSurvive'
  BY HeldStep, GroupStep, PlaceStep, SurviveStep DEF Inv
<1>8. QED
  BY <1>3, <1>5, <1>6, <1>7, TypesAgreeNext DEF Inv

\* Steps that leave the folder and the search alone.
LEMMA SearchUntouched ==
    ASSUME Inv, UNCHANGED <<searches, disk, owed, search>>
    PROVE  SearchTypes' /\ DepthInv' /\ HeldInv' /\ GroupInv' /\ PlaceInv' /\ PicturesSurvive'
<1> USE DEF search, Inv
<1>1. SearchTypes /\ SearchTypes'
  BY TypesAgree DEF SearchTypes
<1>2. DepthInv'
  BY DEF DepthInv, Exists, Hashed
<1>3. HeldInv' /\ PlaceInv' /\ PicturesSurvive'
  BY DEF HeldInv, PlaceInv, PicturesSurvive, Under, Hashed
<1>4. GroupInv'
  BY DEF GroupInv, Under, Hashed, Leaders
<1>5. QED
  BY <1>1, <1>2, <1>3, <1>4

LEMMA ExportKeepsInv == ASSUME Inv, ExportSteps PROVE Inv'
<1>1. UNCHANGED <<searches, disk, owed, search>>
  BY ExportKeepsSearch
<1>2. ExportTypes' /\ ExportInv'
  BY ExportTypesStep, ExportStep DEF Inv
<1>3. Next
  BY DEF Next
<1>4. SharedTypes'
  BY <1>3, SharedTypesStep DEF Inv
<1>5. QED
  BY <1>1, <1>2, <1>4, SearchUntouched, TypesAgreeNext DEF Inv

\* Another program owes what it adds and no longer what it deletes.
LEMMA OutsideInv == ASSUME Inv, Outside PROVE Inv'
<1>1. UNCHANGED <<searches, search>>
  BY DEF Outside, Add, Delete, counts
<1>2. SearchTypes /\ ExportTypes /\ ExportInv
  BY TypesAgree DEF Inv
<1>3. ExportTypes' /\ ExportInv'
  BY <1>2, SearchKeepsExport DEF ExportTypes, ExportInv, tables, export
<1>4. SharedTypes'
  BY SharedTypesStep DEF Inv, Next, Outside
<1>5. SearchTypes' /\ DepthInv' /\ HeldInv' /\ GroupInv' /\ PlaceInv' /\ PicturesSurvive'
  <2>1. CASE \E n \in Names, c \in Pictures : Add(n, c)
    <3>1. PICK n \in Names, c \in Pictures : Add(n, c)
      BY <2>1
    <3>2. /\ step = "idle" /\ disk[<<n, 0>>] = None
          /\ disk' = [disk EXCEPT ![<<n, 0>>] = c] /\ owed' = owed \cup {c}
      BY <3>1 DEF Add, Exists
    <3>3. <<n, 0>> \in Paths /\ <<n, 0>>[2] = 0 /\ searches \in Nat /\ c # None
      BY <1>2, FileBounds, FileFacts DEF Paths, SearchTypes, Files
    <3>4. SearchTypes'
      BY <1>1, <1>2, <3>2, <3>3 DEF SearchTypes, search, Files
    <3>5. DepthInv'
      BY <1>1, <1>2, <3>2, <3>3 DEF Inv, DepthInv, search, Exists, Hashed, SearchTypes
    <3>6. HeldInv' /\ GroupInv' /\ PlaceInv'
      BY <1>1, <3>2 DEF Inv, HeldInv, GroupInv, PlaceInv, search, Chosen, Moving
    <3>7. PicturesSurvive'
      <4>1. \A p \in Paths : disk[p] # None => disk'[p] = disk[p]
        BY <1>2, <3>2 DEF SearchTypes
      <4>2. disk'[<<n, 0>>] = c
        BY <1>2, <3>2, <3>3 DEF SearchTypes
      <4>3. None \notin owed
        BY <1>2, FileFacts DEF SearchTypes, Files
      <4>4. QED
        BY <3>2, <3>3, <4>1, <4>2, <4>3 DEF Inv, PicturesSurvive
    <3>8. QED
      BY <3>4, <3>5, <3>6, <3>7
  <2>2. CASE \E p \in Paths : Delete(p)
    <3>1. PICK p \in Paths : Delete(p)
      BY <2>2
    <3>2. /\ disk[p] \in Pictures
          /\ disk' = [disk EXCEPT ![p] = None] /\ owed' = owed \ {disk[p]}
      BY <3>1 DEF Delete
    <3>3. SearchTypes'
      BY <1>1, <1>2, <3>2 DEF SearchTypes, search
    <3>4. \A q \in Paths : disk'[q] = disk[q] \/ (disk'[q] = None /\ disk[q] \notin owed')
      BY <1>2, <3>2 DEF SearchTypes
    <3>5. owed' \subseteq owed
      BY <3>2
    <3>6. DepthInv'
      BY <1>1, <3>4 DEF Inv, DepthInv, search, Exists, Hashed
    <3>7. step \in Moving => cur \in Paths /\ Under(cur) \in Paths
      BY MovingFacts DEF Inv
    <3>8. step = "copy" => disk'[Under(cur)] = disk[Under(cur)]
      <4>1. step = "copy" => disk[Under(cur)] = Torn
        BY DEF Inv, HeldInv
      <4>2. QED
        BY <1>2, <3>2, <3>7, <4>1, FileFacts DEF SearchTypes, Moving
    <3>9. HeldInv'
      <4>1. Under(cur)' = Under(cur)
        BY <1>1 DEF Under, search
      <4>2. QED
        BY <1>1, <3>4, <3>5, <3>7, <3>8, <4>1 DEF Inv, HeldInv, search, Moving
    <3>10. GroupInv'
      <4>1. Hashed' = Hashed /\ Leaders' = Leaders /\ Under(cur)' = Under(cur)
        BY <1>1 DEF search, Hashed, Leaders, Under
      <4>2. Hashed \subseteq Paths
        BY DEF Hashed
      <4>3. QED
        BY <1>1, <3>4, <3>5, <4>1, <4>2 DEF Inv, GroupInv, search
    <3>11. PlaceInv'
      <4>1. Hashed' = Hashed
        BY <1>1 DEF search, Hashed
      <4>2. \A q \in Hashed : now[q] \in Paths
        BY <1>2 DEF SearchTypes, Hashed
      <4>3. QED
        BY <1>1, <3>4, <3>5, <4>1, <4>2 DEF Inv, PlaceInv, search
    <3>12. PicturesSurvive'
      BY <3>4, <3>5 DEF Inv, PicturesSurvive
    <3>13. QED
      BY <3>3, <3>6, <3>9, <3>10, <3>11, <3>12
  <2>3. QED
    BY <2>1, <2>2 DEF Outside
<1>6. QED
  BY <1>3, <1>4, <1>5, TypesAgreeNext DEF Inv

LEMMA CrashInv == ASSUME Inv, Crash PROVE Inv'
<1>1. SearchTypes /\ ExportTypes
  BY TypesAgree DEF Inv
<1>2. SharedTypes'
  BY SharedTypesStep DEF Inv, Next
<1>3. SearchTypes' /\ ExportTypes'
  BY <1>1, FileFacts DEF SearchTypes, ExportTypes, Crash, Returns, ExportReturns, counts, tables, NoHash,
                        Stay, Moving
<1>4. DepthInv' /\ HeldInv' /\ GroupInv'
  <2>1. UNCHANGED <<searches, disk>> /\ step' = "idle" /\ hash' = NoHash /\ todo' = {}
    BY DEF Crash, Returns, counts
  <2>2. Hashed' = {}
    BY <2>1 DEF Hashed, NoHash
  <2>3. DepthInv'
    BY <2>1, <2>2 DEF Inv, DepthInv, Exists, Moving
  <2>4. HeldInv' /\ GroupInv'
    BY <2>1 DEF HeldInv, GroupInv, Chosen, Moving
  <2>5. QED
    BY <2>3, <2>4
<1>5. PlaceInv' /\ PicturesSurvive'
  BY DEF Inv, PlaceInv, PicturesSurvive, Crash, Returns, Chosen, Moving
<1>6. ExportInv'
  BY DEF Inv, ExportInv, Crash, ExportReturns, tables
<1>7. QED
  BY <1>2, <1>3, <1>4, <1>5, <1>6, TypesAgreeNext DEF Inv

LEMMA StutterInv == ASSUME Inv, UNCHANGED vars PROVE Inv'
<1>1. SearchTypes' /\ DepthInv' /\ HeldInv' /\ GroupInv' /\ PlaceInv' /\ PicturesSurvive'
  BY SearchUntouched DEF vars
<1>2. ExportTypes' /\ SharedTypes' /\ ExportInv'
  BY TypesAgree DEF Inv, ExportTypes, SharedTypes, ExportInv, vars, tables, export
<1>3. QED
  BY <1>1, <1>2, TypesAgreeNext DEF Inv

\* Every step keeps the invariant.
THEOREM Invariance == Spec => []Inv
<1>1. Inv /\ [Next]_vars => Inv'
  BY SearchInv, ExportKeepsInv, OutsideInv, CrashInv, StutterInv DEF Next, Outside
<1>2. QED
  BY <1>1, InitInv, PTL DEF Spec

-------------------------------------------------------------------------------

\* Every variable keeps its type; no file goes deeper than there are searches.
THEOREM TypeCorrect == Spec => []TypeOK
<1>1. Inv => TypeOK
  BY DEF Inv
<1>2. QED
  BY <1>1, Invariance, PTL

\* However often a folder is searched, whatever fails or is cut off in the middle
\* of a move: a picture that nobody deleted or replaced is in some file, whole.
THEOREM NoPictureIsLost == Spec => []PicturesSurvive
<1>1. Inv => PicturesSurvive
  BY DEF Inv
<1>2. QED
  BY <1>1, Invariance, PTL

\* While duplicates are moved, every group has a photo that stays where it is.
THEOREM EveryGroupKeepsOne == Spec => []GroupsKeepOne
<1>1. Inv => GroupsKeepOne
  BY DEF Inv, GroupInv, PlaceInv, GroupsKeepOne, Chosen, Moving
<1>2. QED
  BY <1>1, Invariance, PTL

\* The result of a search shows each picture it has seen, where it is by now.
THEOREM ResultsComplete == Spec => []ResultsAreComplete
<1>1. Inv => ResultsAreComplete
  <2>1. SUFFICES ASSUME Inv, step = "report", NEW p \in Hashed, hash[p] \in owed
                 PROVE  \E q \in Listed(Hashed) : disk[q] = hash[p]
    BY DEF ResultsAreComplete
  <2>2. PICK q \in Hashed : disk[now[q]] = hash[p]
    BY <2>1 DEF Inv, PlaceInv, Chosen
  <2>3. Exists(now[q])
    BY <2>1, <2>2 DEF Exists, Hashed
  <2>4. now[q] \in Listed(Hashed)
    BY <2>2, <2>3 DEF Listed
  <2>5. QED
    BY <2>2, <2>4
<1>2. QED
  BY <1>1, Invariance, PTL

\* Whatever is marked as exported was copied whole to a name of its own.
THEOREM MarksMeanCopies == Spec => []ExportedMeansCopied
<1>1. Inv => ExportedMeansCopied
  <2>1. SUFFICES ASSUME Inv, NEW p \in exported \cup
                            (IF xstep \in {"mark", "unselect"} THEN batch ELSE {})
                 PROVE  copied[p] # None /\ \E c \in Copies : c[1] = p[1] /\ out[c] = copied[p]
    BY DEF ExportedMeansCopied
  <2>2. copied[p] # None
    BY <2>1 DEF Inv, ExportInv
  <2>3. p \in Paths
    BY <2>1, TypesAgree DEF Inv, ExportTypes
  <2>4. QED
    BY <2>1, <2>2, <2>3 DEF Inv, ExportInv
<1>2. QED
  BY <1>1, Invariance, PTL
===============================================================================
