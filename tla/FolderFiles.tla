------------------------------ MODULE FolderFiles ------------------------------
(***************************************************************************)
(* What the program does to the photos of a folder: ScanAndDeduplicate     *)
(* groups similar photos and moves all but the best of a group into        *)
(* duplicates/ (dedupe, app/app.go), ExportPhotos copies the selected ones *)
(* to another folder (export).  One search and one export run at a time;   *)
(* the user may start a search while an export goes on, change the folder  *)
(* from outside, and cancel.  Files, selections and export marks survive   *)
(* Crash.                                                                  *)
(*                                                                         *)
(* A path is a name and the number of duplicates/ it is under: a search    *)
(* walks into duplicates/, and a photo it moves from there goes one deeper.*)
(* A file is read at the moment it is opened.                              *)
(*                                                                         *)
(* Left out: dates, ratings, RAW+JPEG pairs and what else a result tells   *)
(* of a photo, trimming (ffmpeg writes in place of the copy), other        *)
(* subfolders, the name of the export's folder (there is one).             *)
(***************************************************************************)
EXTENDS Naturals, Sequences, FiniteSets

CONSTANTS
    Names,
    Pictures,           \* what a file shows
    None, Torn,         \* no file; a file cut off
    Near,               \* the pairs of pictures within similarityThreshold
    Libraries,          \* the folders to begin with
    Deepest,            \* bound: searches in a behaviour, each one level deeper at most
    Walk,               \* the order in which filepath.WalkDir comes to the paths
    MaxExports,         \* bound: exports in a behaviour
    MaxDisturbances     \* bound: failures, changes from outside and crashes in a behaviour

Paths == Names \X (0 .. Deepest)
Files == Pictures \cup {Torn}
Copies == Names \X (0 .. MaxExports * (Deepest + 1))

ASSUME NilValues == None # Torn /\ {None, Torn} \cap (Pictures \cup Paths \cup Copies) = {}
ASSUME NearTyped == /\ Near \subseteq Pictures \X Pictures
                    /\ \A c \in Pictures : <<c, c>> \in Near
ASSUME WalkTyped == /\ Walk \in [1 .. Len(Walk) -> Paths]
                    /\ \A p \in Paths : \E i \in 1 .. Len(Walk) : Walk[i] = p
                    /\ \A i, j \in 1 .. Len(Walk) : Walk[i] = Walk[j] => i = j
ASSUME LibrariesTyped == Libraries \subseteq [Names -> Pictures \cup {None}]
ASSUME FileBounds == Deepest \in Nat \ {0} /\ MaxExports \in Nat /\ MaxDisturbances \in Nat

VARIABLES
    searches, exports, disturbances,    \* how many there have been
    disk,       \* the folder
    owed,       \* history: pictures of the folder that nobody deleted or replaced
    step,       \* where the search is
    cancelled,  \* its context
    hash,       \* PhotoInfo.Hash: the picture the search saw at a path
    groupOf,    \* PhotoInfo.GroupID: the first photo of its group
    unique,     \* PhotoInfo.IsUnique
    now,        \* PhotoInfo.Path: where the photo is by now
    todo,       \* photos to move
    cur,        \* the photo that is being moved
    held,       \* what copyFile has read of it
    shown,      \* the photos of the grid
    selected, exported,     \* tables of the database
    out,        \* the folder exported to
    xstep,      \* where the export is
    batch,      \* the photos it was given
    left,       \* those still to copy, or to mark
    xcur, xto, xheld,       \* the photo it copies or marks, to where, what it has read
    copied      \* history: the picture last copied from a path in full

search == <<step, cancelled, hash, groupOf, unique, now, todo, cur, held>>
export == <<xstep, batch, left, xcur, xto, xheld>>
tables == <<selected, exported>>
vars == <<searches, exports, disturbances, disk, owed, search, shown, tables, out, export, copied>>

TypeOK ==
    /\ searches \in 0 .. Deepest /\ exports \in 0 .. MaxExports
    /\ disturbances \in 0 .. MaxDisturbances
    /\ disk \in [Paths -> Files \cup {None}] /\ owed \subseteq Pictures
    /\ step \in {"idle", "hash", "best", "move", "rename", "create", "copy", "remove", "report"}
    /\ cancelled \in BOOLEAN
    /\ hash \in [Paths -> Pictures \cup {None}]
    /\ groupOf \in [Paths -> Paths \cup {None}]
    /\ unique \subseteq Paths /\ now \in [Paths -> Paths]
    /\ todo \subseteq Paths /\ cur \in Paths \cup {None}
    /\ step \in {"rename", "create", "copy", "remove"} => cur \in Paths /\ cur[2] < Deepest
    /\ held \in Files \cup {None}
    /\ shown \subseteq Paths /\ selected \subseteq Paths /\ exported \subseteq Paths
    /\ out \in [Copies -> Files \cup {None}]
    /\ xstep \in {"idle", "next", "write", "mark", "unselect"}
    /\ batch \subseteq Paths /\ left \subseteq batch
    /\ xcur \in Paths \cup {None} /\ xto \in Copies \cup {None} /\ xheld \in Files \cup {None}
    /\ copied \in [Paths -> Files \cup {None}]

NoHash == [p \in Paths |-> None]
Stay == [p \in Paths |-> p]

Init ==
    /\ searches = 0 /\ exports = 0 /\ disturbances = 0
    /\ \E lib \in Libraries :
         /\ disk = [p \in Paths |-> IF p[2] = 0 THEN lib[p[1]] ELSE None]
         /\ owed = {lib[n] : n \in Names} \ {None}
    /\ step = "idle" /\ cancelled = FALSE
    /\ hash = NoHash /\ groupOf = NoHash /\ unique = {} /\ now = Stay
    /\ todo = {} /\ cur = None /\ held = None
    /\ shown = {} /\ selected = {} /\ exported = {}
    /\ out = [c \in Copies |-> None]
    /\ xstep = "idle" /\ batch = {} /\ left = {} /\ xcur = None /\ xto = None /\ xheld = None
    /\ copied = NoHash

Exists(p) == disk[p] # None
Listing == {p \in Paths : p[2] = 0 /\ Exists(p)}
Disturb == disturbances < MaxDisturbances /\ disturbances' = disturbances + 1
Calm == UNCHANGED disturbances
counts == <<searches, exports>>

-----------------------------------------------------------------------------
(* ScanAndDeduplicate                                                        *)

ScanAndDeduplicate ==
    /\ step = "idle" /\ searches < Deepest
    /\ searches' = searches + 1
    /\ step' = "hash" /\ cancelled' = FALSE
    /\ UNCHANGED <<exports, disturbances, disk, owed, hash, groupOf, unique, now, todo, cur, held,
                   shown, tables, out, export, copied>>

CancelDeduplicate ==
    /\ step # "idle" /\ ~cancelled
    /\ cancelled' = TRUE
    /\ UNCHANGED <<counts, disturbances, disk, owed, step, hash, groupOf, unique, now, todo, cur,
                   held, shown, tables, out, export, copied>>

\* The call returns; what it worked with is garbage.
Returns ==
    /\ step' = "idle" /\ cancelled' = FALSE
    /\ hash' = NoHash /\ groupOf' = NoHash /\ unique' = {} /\ now' = Stay
    /\ todo' = {} /\ cur' = None /\ held' = None

\* The contexts are looked at before every photo and every group.
ReturnsCanceled ==
    /\ cancelled /\ step \in {"hash", "best"}
    /\ Returns
    /\ UNCHANGED <<counts, disturbances, disk, owed, shown, tables, out, export, copied>>

\* A photo joins the first group whose first photo it is near to.
Before(p, q) == \E i, j \in 1 .. Len(Walk) : Walk[i] = p /\ Walk[j] = q /\ i < j
IsFirst(p, s) == p \in s /\ \A q \in s \ {p} : Before(p, q)
Grouped(g, seen) ==
    \A p \in DOMAIN g :
        LET firsts == {q \in DOMAIN g : g[q] = q /\ Before(q, p) /\ <<seen[p], seen[q]>> \in Near}
        IN IF firsts = {} THEN g[p] = p ELSE IsFirst(g[p], firsts)

\* Files that cannot be read or decoded are left out.
FindDuplicates ==
    /\ step = "hash" /\ ~cancelled
    /\ \E failed \in SUBSET Paths :
         /\ IF failed = {} THEN Calm ELSE Cardinality(failed) = 1 /\ Disturb
         /\ hash' = [p \in Paths |-> IF p \in failed \/ disk[p] = Torn THEN None ELSE disk[p]]
    /\ LET found == {p \in Paths : hash'[p] # None} IN
         \E g \in [found -> found] :
             /\ Grouped(g, hash')
             /\ groupOf' = [p \in Paths |-> IF p \in found THEN g[p] ELSE None]
    /\ step' = "best"
    /\ UNCHANGED <<counts, disk, owed, cancelled, unique, now, todo, cur, held, shown, tables, out,
                   export, copied>>

Leaders == {groupOf[p] : p \in Paths} \ {None}
Hashed == {p \in Paths : hash[p] # None}
\* Mutant: a group none of whose photos can be loaded has no best one.
FindBestPhotosOfLoaded ==
    /\ step = "best" /\ ~cancelled
    /\ \E best \in [Leaders -> Hashed \cup {None}] :
         /\ \A g \in Leaders : best[g] # None => groupOf[best[g]] = g
         /\ unique' = {best[g] : g \in Leaders} \ {None}
    /\ todo' = Hashed \ unique' /\ step' = "move"
    /\ UNCHANGED <<counts, disturbances, disk, owed, cancelled, hash, groupOf, now, cur, held, shown,
                   tables, out, export, copied>>

\* The photo with the best score, or the first if none can be loaded; then the
\* groups are sorted by date.
FindBestPhotos ==
    /\ step = "best" /\ ~cancelled
    /\ \E best \in [Leaders -> Hashed] :
         /\ \A g \in Leaders : groupOf[best[g]] = g
         /\ unique' = {best[g] : g \in Leaders}
    /\ todo' = Hashed \ unique' /\ step' = "move"
    /\ UNCHANGED <<counts, disturbances, disk, owed, cancelled, hash, groupOf, now, cur, held, shown,
                   tables, out, export, copied>>

\* RelocateGroupDuplicates: cur stays the photo last dealt with, its group comes
\* to an end before another begins.
InGroup == {p \in todo : cur # None /\ groupOf[p] = groupOf[cur]}

NextDuplicate ==
    /\ step = "move"
    /\ \E p \in todo :
         /\ \/ InGroup # {} /\ IsFirst(p, InGroup)
            \/ InGroup = {} /\ ~cancelled /\ IsFirst(p, {q \in todo : groupOf[q] = groupOf[p]})
         /\ cur' = p
    /\ step' = "rename"
    /\ UNCHANGED <<counts, disturbances, disk, owed, cancelled, hash, groupOf, unique, now, todo,
                   held, shown, tables, out, export, copied>>

\* Nothing is told of the photos that were moved.
MoveCanceled ==
    /\ step = "move" /\ InGroup = {} /\ cancelled
    /\ Returns
    /\ UNCHANGED <<counts, disturbances, disk, owed, shown, tables, out, export, copied>>

AllMoved ==
    /\ step = "move" /\ todo = {}
    /\ step' = "report"
    /\ UNCHANGED <<counts, disturbances, disk, owed, cancelled, hash, groupOf, unique, now, todo, cur,
                   held, shown, tables, out, export, copied>>

-----------------------------------------------------------------------------
(* MoveDuplicate                                                             *)

Under(p) == <<p[1], p[2] + 1>>
Replaced(p) == owed' = owed \ {disk[p]}
Moved ==
    /\ now' = [now EXCEPT ![cur] = Under(cur)]
    /\ todo' = todo \ {cur} /\ held' = None /\ step' = "move"
\* An error is noted; the search goes on.
NotMoved == todo' = todo \ {cur} /\ held' = None /\ step' = "move" /\ UNCHANGED now
moving == <<counts, cancelled, hash, groupOf, unique, cur, shown, tables, out, export, copied>>

\* os.Rename replaces a file of the same name.
RenameDuplicate ==
    /\ step = "rename" /\ Exists(cur)
    /\ disk' = [disk EXCEPT ![Under(cur)] = disk[cur], ![cur] = None]
    /\ Replaced(Under(cur)) /\ Moved
    /\ Calm /\ UNCHANGED moving

RenameFails ==
    /\ step = "rename"
    /\ IF Exists(cur) THEN Disturb ELSE Calm
    /\ step' = "create"
    /\ UNCHANGED <<moving, disk, owed, now, todo, held>>

CreateCopy ==
    /\ step = "create"
    /\ \/ /\ Exists(cur)
          /\ disk' = [disk EXCEPT ![Under(cur)] = Torn]
          /\ Replaced(Under(cur))
          /\ held' = disk[cur] /\ step' = "copy"
          /\ UNCHANGED <<now, todo>>
       \/ ~Exists(cur) /\ NotMoved /\ UNCHANGED <<disk, owed>>
    /\ Calm /\ UNCHANGED moving

CopyDuplicate ==
    /\ step = "copy"
    /\ disk' = [disk EXCEPT ![Under(cur)] = held]
    /\ step' = "remove"
    /\ Calm /\ UNCHANGED <<moving, owed, now, todo, held>>
\* Mutant: the error of the copy is dropped by its deferred Close.
MoveFailsSilently ==
    /\ step \in {"rename", "create", "copy"} /\ Disturb
    /\ IF step = "copy" THEN step' = "remove" /\ UNCHANGED <<now, todo, held>> ELSE NotMoved
    /\ UNCHANGED <<moving, disk, owed>>

\* No directory of duplicates, neither file opened, or half a copy: what was
\* written stays.
MoveFails ==
    /\ step \in {"rename", "create", "copy"} /\ Disturb /\ NotMoved
    /\ UNCHANGED <<moving, disk, owed>>
\* Mutant: the path of the photo is not updated after a copy.
RemoveOriginalUntold ==
    /\ step = "remove" /\ Exists(cur)
    /\ disk' = [disk EXCEPT ![cur] = None]
    /\ NotMoved
    /\ Calm /\ UNCHANGED <<moving, owed>>

RemoveOriginal ==
    /\ step = "remove" /\ Exists(cur)
    /\ disk' = [disk EXCEPT ![cur] = None]
    /\ Moved
    /\ Calm /\ UNCHANGED <<moving, owed>>

\* The copy goes, or stays as well: the error of its removal is ignored.
RemoveFails ==
    /\ step = "remove"
    /\ \/ /\ disk' = [disk EXCEPT ![Under(cur)] = None]
          /\ IF Exists(cur) THEN Disturb ELSE Calm
       \/ UNCHANGED disk /\ Disturb
    /\ NotMoved
    /\ UNCHANGED <<moving, owed>>

\* Photos that are found no more are left out of the result.
Listed(photos) == {now[p] : p \in {q \in photos : Exists(now[q])}}

ReportResult ==
    /\ step = "report"
    /\ shown' = Listed(unique)
    /\ Returns
    /\ UNCHANGED <<counts, disturbances, disk, owed, tables, out, export, copied>>

-----------------------------------------------------------------------------
(* ExportPhotos                                                              *)

LoadDirectory ==
    /\ step = "idle" /\ shown # Listing
    /\ shown' = Listing
    /\ UNCHANGED <<counts, disturbances, disk, owed, search, tables, out, export, copied>>

ToggleSelection(p) ==
    /\ step = "idle" /\ p \in shown
    /\ selected' = IF p \in selected THEN selected \ {p} ELSE selected \cup {p}
    /\ UNCHANGED <<counts, disturbances, disk, owed, search, shown, exported, out, export, copied>>

ExportPhotos ==
    /\ step = "idle" /\ xstep = "idle" /\ exports < MaxExports
    /\ shown \cap selected # {}
    /\ exports' = exports + 1
    /\ batch' = shown \cap selected /\ left' = batch'
    /\ xstep' = "next"
    /\ UNCHANGED <<searches, disturbances, disk, owed, search, shown, tables, out, xcur, xto, xheld,
                   copied>>

exporting == <<counts, disk, owed, search>>
ExportReturns == xstep' = "idle" /\ batch' = {} /\ left' = {} /\ xcur' = None /\ xto' = None /\ xheld' = None
\* Mutant: a file of the same name is not looked for.
UniquePathPlain(n, c) == c = <<n, 0>>

\* The name, or the name with the first number that no file has.
UniquePath(n, c) ==
    /\ c[1] = n /\ out[c] = None
    /\ \A k \in 0 .. MaxExports * (Deepest + 1) : k < c[2] => out[<<n, k>>] # None

OpenPhoto ==
    /\ xstep = "next"
    /\ \E p \in left, c \in Copies :
         /\ Exists(p) /\ UniquePath(p[1], c)
         /\ xcur' = p /\ xheld' = disk[p] /\ xto' = c
         /\ out' = [out EXCEPT ![c] = Torn]
    /\ xstep' = "write"
    /\ Calm /\ UNCHANGED <<exporting, shown, tables, batch, left, copied>>

\* The export ends with the first error, and nothing is marked.
OpenFails ==
    /\ xstep = "next" /\ \E p \in left : ~Exists(p)
    /\ ExportReturns
    /\ Calm /\ UNCHANGED <<exporting, shown, tables, out, copied>>

WritePhoto ==
    /\ xstep = "write"
    /\ out' = [out EXCEPT ![xto] = xheld]
    /\ copied' = [copied EXCEPT ![xcur] = xheld]
    /\ left' = left \ {xcur}
    /\ xcur' = None /\ xto' = None /\ xheld' = None
    /\ xstep' = "next"
    /\ Calm /\ UNCHANGED <<exporting, shown, tables, batch>>

WriteFails ==
    /\ xstep = "write" /\ Disturb
    /\ ExportReturns
    /\ UNCHANGED <<exporting, shown, tables, out, copied>>

AllCopied ==
    /\ xstep = "next" /\ left = {}
    /\ left' = batch /\ xstep' = "mark"
    /\ Calm /\ UNCHANGED <<exporting, shown, tables, out, batch, xcur, xto, xheld, copied>>

\* An error of the database is ignored, here and below.
MarkExported ==
    /\ xstep = "mark"
    /\ \E p \in left :
         /\ xcur' = p
         /\ \/ exported' = exported \cup {p} /\ Calm
            \/ UNCHANGED exported /\ Disturb
    /\ xstep' = "unselect"
    /\ UNCHANGED <<exporting, shown, selected, out, batch, left, xto, xheld, copied>>

SaveSelection ==
    /\ xstep = "unselect"
    /\ \/ selected' = selected \ {xcur} /\ Calm
       \/ UNCHANGED selected /\ Disturb
    /\ left' = left \ {xcur} /\ xcur' = None /\ xstep' = "mark"
    /\ UNCHANGED <<exporting, shown, exported, out, batch, xto, xheld, copied>>

\* The folder is loaded again.
ExportEnds ==
    /\ xstep = "mark" /\ left = {}
    /\ shown' = Listing
    /\ ExportReturns
    /\ Calm /\ UNCHANGED <<exporting, tables, out, copied>>

-----------------------------------------------------------------------------

\* A file is added while no search runs, or deleted, by another program.
Add(n, c) ==
    /\ step = "idle" /\ ~Exists(<<n, 0>>) /\ Disturb
    /\ disk' = [disk EXCEPT ![<<n, 0>>] = c] /\ owed' = owed \cup {c}
    /\ UNCHANGED <<counts, search, shown, tables, out, export, copied>>

Delete(p) ==
    /\ disk[p] \in Pictures /\ Disturb
    /\ disk' = [disk EXCEPT ![p] = None] /\ owed' = owed \ {disk[p]}
    /\ UNCHANGED <<counts, search, shown, tables, out, export, copied>>

Crash ==
    /\ Disturb
    /\ Returns /\ ExportReturns /\ shown' = {}
    /\ UNCHANGED <<counts, disk, owed, tables, out, copied>>

SearchSteps ==
    \/ ScanAndDeduplicate \/ CancelDeduplicate \/ ReturnsCanceled \/ FindDuplicates
    \/ FindBestPhotos \/ NextDuplicate \/ MoveCanceled \/ AllMoved \/ RenameDuplicate
    \/ RenameFails \/ CreateCopy \/ CopyDuplicate \/ MoveFails \/ RemoveOriginal
    \/ RemoveFails \/ ReportResult

ExportSteps ==
    \/ LoadDirectory \/ ExportPhotos \/ OpenPhoto \/ OpenFails \/ WritePhoto \/ WriteFails
    \/ AllCopied \/ MarkExported \/ SaveSelection \/ ExportEnds
    \/ \E p \in Paths : ToggleSelection(p)

Next ==
    \/ SearchSteps
    \/ ExportSteps
    \/ \E n \in Names, c \in Pictures : Add(n, c)
    \/ \E p \in Paths : Delete(p)
    \/ Crash

Spec == Init /\ [][Next]_vars

-----------------------------------------------------------------------------

\* No picture of the folder is ever lost, whatever fails in the middle of a move
\* and whenever the machine stops, but those the user deletes and those that a
\* photo of the same name replaces in duplicates/.
PicturesSurvive == \A c \in owed : \E p \in Paths : disk[p] = c

\* From the choice of the best photos on, every group has one that stays where
\* it is, unless it is deleted or replaced.
GroupsKeepOne ==
    step \in {"move", "rename", "create", "copy", "remove", "report"} =>
        \A g \in Leaders : \E p \in unique :
            /\ groupOf[p] = g /\ now[p] = p
            /\ disk[p] = hash[p] \/ hash[p] \notin owed

\* The result lists every picture the search has seen, under the path it has by
\* now, whether its photo was moved, copied or could not be moved.
ResultsAreComplete ==
    step = "report" =>
        \A p \in Hashed : hash[p] \in owed =>
            \E q \in Listed(Hashed) : disk[q] = hash[p]

\* A photo is marked as exported, or about to be, only if a whole copy of it was
\* made, and no copy of another photo is written over it.
ExportedMeansCopied ==
    \A p \in exported \cup (IF xstep \in {"mark", "unselect"} THEN batch ELSE {}) :
        copied[p] # None /\ \E c \in Copies : c[1] = p[1] /\ out[c] = copied[p]

\* What README.md promises: folders searched before are detected.  Neither the scan
\* nor CheckDedupStatus looks further down than one duplicates/.
DuplicatesAreDetected == \A p \in Paths : Exists(p) => p[2] <= 1

\* A search moves photos and loses none, those of one name included.
SameNamesAreKept == [][owed \subseteq owed' \/ \E p \in Paths : Delete(p)]_vars

\* After an export the selection is empty of its photos and they are marked.
ExportsAreMarked ==
    [][ExportEnds => batch \subseteq exported /\ batch \cap selected = {}]_vars
=============================================================================
