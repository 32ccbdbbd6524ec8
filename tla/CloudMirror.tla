----------------------------- MODULE CloudMirror -----------------------------
(***************************************************************************)
(* The mirror of cloud albums and its disk cache: cloudsource/mirror.go,   *)
(* cloudsource/cache.go, app/cloud.go and the Download of the Google Drive *)
(* provider.                                                               *)
(*                                                                         *)
(* A mirror is one MirrorCloudAlbum call.  It lists the album, makes room  *)
(* by deleting the least recently synced albums, decides which files to    *)
(* download and downloads them with a pool of workers.  Mirrors, deletions *)
(* from the settings, edits in the cloud and crashes of the application    *)
(* interleave; the files and the database survive a crash.                 *)
(*                                                                         *)
(* A file's content is the version of the remote item it was read from,    *)
(* every file has size one, and an album's items stay the same.  Progress, *)
(* eviction and result events carry counts only and are left out.          *)
(***************************************************************************)
EXTENDS Integers, Sequences, FiniteSets, SequencesExt

CONSTANTS
    Albums,         \* albums of the provider
    Files,          \* media items of all albums, each with its local path
    AlbumOf,        \* the album of every item
    Mirrors,        \* bound: MirrorCloudAlbum calls at the same time
    Janitor,        \* DeleteCachedAlbum and ClearAllCache
    NoMirror,       \* no cancel function
    NoAlbum,        \* the album of no call
    MaxVersion,     \* bound: the time of the last edit in the cloud
    Limits,         \* values MaxCloudCacheMB can be given
    Workers,        \* MirrorManager.workers
    MaxDisturbances,\* bound: failures, cancellations, deletions, edits, new
                    \* limits, crashes and mirrors begun beside another
                    \* in a behaviour
    SamePrefix      \* the albums whose directory begins with an album's path

ASSUME Names ==
    Janitor \notin Mirrors /\ NoMirror \notin Mirrors /\ NoAlbum \notin Albums
ASSUME DataTypes ==
    /\ AlbumOf \in [Files -> Albums]
    /\ MaxVersion \in Nat \ {0}
    /\ Limits \subseteq Nat /\ Limits # {}
    /\ Workers \in Nat \ {0}
    /\ MaxDisturbances \in Nat
ASSUME PrefixOfItself ==
    /\ SamePrefix \in [Albums -> SUBSET Albums]
    /\ \A a \in Albums : a \in SamePrefix[a]
ASSUME FinitelyManyFiles == IsFiniteSet(Files)

Threads == Mirrors \cup {Janitor}
Versions == 0 .. MaxVersion
FilesOf(a) == {f \in Files : AlbumOf[f] = a}

VARIABLES
    disturbances, \* how many of them there have been
    remote,     \* the version of every item in the cloud
    disk,       \* the version a local file was read from, 0 if there is none
    torn,       \* the local files that hold only a part of their version
    meta,       \* cloud_media_meta: remote_updated_at, 0 if there is no row
    records,    \* cloud_mirrors, in the order of synced_at
    limit,      \* CacheManager.maxCacheMB
    pc,         \* where every call is
    album,      \* the album a call mirrors
    listing,    \* the versions ListMediaInAlbum has returned to it
    todo,       \* the items in its work channel
    active,     \* the items its workers download
    failed,     \* dlErrors
    cancelled,  \* its context
    cancelOf,   \* App.mirrorCancels: the call an album's entry belongs to
    victims,    \* the albums EvictIfNeeded, or a deletion, still has to delete
    short,      \* EvictIfNeeded will return an error
    alone,      \* history: no other mirror, no new limit since the space check
    touched,    \* history: the files of its album that other calls have deleted
                \* or begun to write since its listing
    rewriting,  \* history: the files whose download was begun over up-to-date
                \* metadata and has not come to its end
    mixed       \* history: the files that a download was begun for beside
                \* another one, and none alone since

store == <<disk, torn, meta, records>>
job == <<album, listing, cancelled, cancelOf>>
work == <<todo, active, failed>>
evicting == <<victims, short>>
history == <<alone, touched, rewriting, mixed>>
world == <<disturbances, remote>>
vars == <<world, store, limit, pc, job, work, evicting, history>>

Steps == {"idle", "list", "space", "wipe", "unrecord", "forget", "filter",
          "work", "report", "error"}

TypeOK ==
    /\ disturbances \in 0 .. MaxDisturbances
    /\ remote \in [Files -> Versions \ {0}]
    /\ disk \in [Files -> Versions]
    /\ torn \in SUBSET {f \in Files : disk[f] > 0}
    /\ meta \in [Files -> Versions]
    /\ records \in Seq(Albums)
    /\ limit \in Limits
    /\ pc \in [Threads -> Steps]
    /\ album \in [Mirrors -> Albums \cup {NoAlbum}]
    /\ listing \in [Mirrors -> [Files -> Versions]]
    /\ \A w \in {todo, active, failed} :
         w \in [Mirrors -> SUBSET Files]
    /\ cancelled \in [Mirrors -> BOOLEAN]
    /\ cancelOf \in [Albums -> Mirrors \cup {NoMirror}]
    /\ victims \in [Threads -> Seq(Albums)]
    /\ short \in [Mirrors -> BOOLEAN]
    /\ alone \in [Mirrors -> BOOLEAN]
    /\ touched \in [Mirrors -> SUBSET Files]
    /\ rewriting \in SUBSET Files
    /\ mixed \in SUBSET Files

Running(r) == pc[r] # "idle"
NoWork == [r \in Mirrors |-> {}]
NothingListed == [f \in Files |-> 0]
NoCall == [r \in Mirrors |-> FALSE]

Init ==
    /\ disturbances = 0
    /\ remote = [f \in Files |-> 1]
    /\ disk = [f \in Files |-> 0]
    /\ torn = {}
    /\ meta = NothingListed
    /\ records = <<>>
    /\ limit \in Limits
    /\ pc = [t \in Threads |-> "idle"]
    /\ album = [r \in Mirrors |-> NoAlbum]
    /\ listing = [r \in Mirrors |-> NothingListed]
    /\ todo = NoWork /\ active = NoWork /\ failed = NoWork
    /\ cancelled = NoCall
    /\ cancelOf = [a \in Albums |-> NoMirror]
    /\ victims = [t \in Threads |-> <<>>]
    /\ short = NoCall
    /\ alone = NoCall /\ touched = NoWork
    /\ rewriting = {} /\ mixed = {}

Goto(t, s) == pc' = [pc EXCEPT ![t] = s]

Disturb ==
    /\ disturbances < MaxDisturbances
    /\ disturbances' = disturbances + 1

\* A request ends in an error: its context is cancelled, or the network fails.
RequestFails(r) ==
    \/ cancelled[r] /\ UNCHANGED disturbances
    \/ ~cancelled[r] /\ Disturb

-----------------------------------------------------------------------------
(* The beginning of a mirror.                                               *)

\* MirrorCloudAlbum: the entry of mirrorCancels is set, over that of another
\* mirror of the album.
BeginMirror(r, a) ==
    /\ ~Running(r)
    /\ IF \E q \in Mirrors : Running(q) THEN Disturb ELSE UNCHANGED disturbances
    /\ Goto(r, "list")
    /\ album' = [album EXCEPT ![r] = a]
    /\ cancelled' = [cancelled EXCEPT ![r] = FALSE]
    /\ cancelOf' = [cancelOf EXCEPT ![a] = r]
    /\ alone' = [q \in Mirrors |-> FALSE]
    /\ UNCHANGED <<remote, store, limit, listing, work, evicting, touched,
                   rewriting, mixed>>

ListMedia(r) ==
    /\ pc[r] = "list" /\ ~cancelled[r]
    /\ Goto(r, "space")
    /\ listing' = [listing EXCEPT ![r] =
                     [f \in Files |-> IF AlbumOf[f] = album[r] THEN remote[f]
                                      ELSE 0]]
    /\ touched' = [touched EXCEPT ![r] = {}]
    /\ UNCHANGED <<world, store, limit, album, cancelled, cancelOf, work,
                   evicting, alone, rewriting, mixed>>

ListFails(r) ==
    /\ RequestFails(r)
    /\ pc[r] = "list"
    /\ Goto(r, "error")
    /\ UNCHANGED <<remote, store, limit, job, work, evicting, history>>

-----------------------------------------------------------------------------
(* The cache: EvictIfNeeded and DeleteAlbum.                                *)

UsageOf(as) == Cardinality({f \in Files : AlbumOf[f] \in as /\ disk[f] > 0})
Usage == UsageOf(Range(records))

\* An album has at most one record.
Without(s, a) ==
    IF a \in Range(s)
    THEN RemoveAt(s, CHOOSE i \in 1 .. Len(s) : s[i] = a)
    ELSE s

\* Mutant of CheckSpace: the eviction stops when one file is still too many.
CheckSpaceShort(r) ==
    /\ pc[r] = "space"
    /\ LET others == Without(records, album[r])
           Enough(n) == Usage - UsageOf(Range(SubSeq(others, 1, n)))
                          + Cardinality(FilesOf(album[r])) <= limit + 1
       IN  \E n \in 0 .. Len(others) :
             /\ Enough(n) \/ n = Len(others)
             /\ \A m \in 0 .. n - 1 : ~Enough(m)
             /\ victims' = [victims EXCEPT ![r] = SubSeq(others, 1, n)]
             /\ short' = [short EXCEPT ![r] = ~Enough(n)]
    /\ Goto(r, "wipe")
    /\ alone' = [alone EXCEPT ![r] = \A q \in Mirrors \ {r} : ~Running(q)]
    /\ UNCHANGED <<world, store, limit, job, work, touched, rewriting,
                   mixed>>

\* The oldest albums but the mirror's own, until enough is freed; all of them
\* when that is not enough.  The sizes are those of one look at the disk.
CheckSpace(r) ==
    /\ pc[r] = "space"
    /\ LET others == Without(records, album[r])
           Enough(n) == Usage - UsageOf(Range(SubSeq(others, 1, n)))
                          + Cardinality(FilesOf(album[r])) <= limit
       IN  \E n \in 0 .. Len(others) :
             /\ Enough(n) \/ n = Len(others)
             /\ \A m \in 0 .. n - 1 : ~Enough(m)
             /\ victims' = [victims EXCEPT ![r] = SubSeq(others, 1, n)]
             /\ short' = [short EXCEPT ![r] = ~Enough(n)]
    /\ Goto(r, "wipe")
    /\ alone' = [alone EXCEPT ![r] = \A q \in Mirrors \ {r} : ~Running(q)]
    /\ UNCHANGED <<world, store, limit, job, work, touched, rewriting,
                   mixed>>

\* Mutant of SpaceFreed: without enough space the check is repeated.
SpaceFreedRetries(r) ==
    /\ pc[r] = "wipe" /\ victims[r] = <<>>
    /\ Goto(r, IF short[r] THEN "space" ELSE "filter")
    /\ UNCHANGED <<world, store, limit, job, work, evicting, history>>

\* Nothing (more) to delete: the mirror goes on or gives up.
SpaceFreed(r) ==
    /\ pc[r] = "wipe" /\ victims[r] = <<>>
    /\ Goto(r, IF short[r] THEN "error" ELSE "filter")
    /\ UNCHANGED <<world, store, limit, job, work, evicting, history>>

DeletionsDone ==
    /\ pc[Janitor] = "wipe" /\ victims[Janitor] = <<>>
    /\ Goto(Janitor, "idle")
    /\ UNCHANGED <<world, store, limit, job, work, evicting, history>>

\* os.RemoveAll of the album's directory.
Wipe(t) ==
    /\ pc[t] = "wipe" /\ victims[t] # <<>>
    /\ LET gone == FilesOf(Head(victims[t])) IN
         /\ disk' = [f \in Files |-> IF f \in gone THEN 0 ELSE disk[f]]
         /\ torn' = torn \ gone
         /\ rewriting' = rewriting \ gone
         /\ mixed' = mixed \ gone
         /\ touched' = [r \in Mirrors |->
                          IF album[r] = Head(victims[t]) THEN gone ELSE touched[r]]
    /\ Goto(t, "unrecord")
    /\ UNCHANGED <<world, meta, records, limit, job, work, evicting, alone>>

Unrecord(t) ==
    /\ pc[t] = "unrecord"
    /\ records' = Without(records, Head(victims[t]))
    /\ Goto(t, "forget")
    /\ UNCHANGED <<world, disk, torn, meta, limit, job, work, evicting,
                   history>>

\* The metadata of every path that begins with the directory's; a failure is
\* only logged.
Forget(t) ==
    /\ pc[t] = "forget"
    /\ \/ /\ meta' = [f \in Files |->
                       IF AlbumOf[f] \in SamePrefix[Head(victims[t])]
                       THEN 0 ELSE meta[f]]
          /\ UNCHANGED disturbances
       \/ Disturb /\ UNCHANGED meta
    /\ victims' = [victims EXCEPT ![t] = Tail(@)]
    /\ Goto(t, "wipe")
    /\ UNCHANGED <<remote, disk, torn, records, limit, job, work, short,
                   history>>

\* An error of RemoveAll or of DeleteCloudMirror: EvictIfNeeded returns it,
\* ClearAll goes on with the next album.
DeleteFails(t) ==
    /\ Disturb
    /\ pc[t] \in {"wipe", "unrecord"} /\ victims[t] # <<>>
    /\ IF t = Janitor
       THEN /\ victims' = [victims EXCEPT ![t] = Tail(@)]
            /\ Goto(t, "wipe")
       ELSE /\ victims' = [victims EXCEPT ![t] = <<>>]
            /\ Goto(t, "error")
    /\ UNCHANGED <<remote, store, limit, job, work, short, history>>

\* DeleteCachedAlbum(a), recorded or not, or ClearAllCache, newest first.
JanitorBegins ==
    /\ Disturb
    /\ pc[Janitor] = "idle"
    /\ \E as \in {<<a>> : a \in Albums} \cup {Reverse(records)} :
         victims' = [victims EXCEPT ![Janitor] = as]
    /\ Goto(Janitor, "wipe")
    /\ UNCHANGED <<remote, store, limit, job, work, short, history>>

-----------------------------------------------------------------------------
(* The downloads.                                                           *)

UpToDate(r, f) == meta[f] > 0 /\ meta[f] >= listing[r][f]

\* The items not yet mirrored.  With none, MirrorAlbum returns at once and
\* saves no mirror record.
Filter(r) ==
    /\ pc[r] = "filter"
    /\ LET stale == {f \in FilesOf(album[r]) :
                       ~(UpToDate(r, f) /\ disk[f] > 0)}
       IN  /\ todo' = [todo EXCEPT ![r] = stale]
           /\ Goto(r, IF stale = {} THEN "report" ELSE "work")
    /\ UNCHANGED <<world, store, limit, job, active, failed,
                   evicting, history>>

\* Another mirror of the album is writing the file.
Shared(r, f) == \E q \in Mirrors \ {r} : f \in active[q]

\* A worker takes an item and Download truncates the file and asks for it.
Take(r, f) ==
    /\ pc[r] = "work" /\ f \in todo[r] /\ ~cancelled[r]
    /\ Cardinality(active[r]) < Workers
    /\ todo' = [todo EXCEPT ![r] = @ \ {f}]
    /\ active' = [active EXCEPT ![r] = @ \cup {f}]
    /\ disk' = [disk EXCEPT ![f] = remote[f]]
    /\ torn' = torn \cup {f}
    /\ rewriting' = IF UpToDate(r, f) THEN rewriting \cup {f} ELSE rewriting
    /\ mixed' = IF Shared(r, f) THEN mixed \cup {f} ELSE mixed \ {f}
    /\ touched' = [q \in Mirrors |->
                     IF q # r /\ album[q] = AlbumOf[f]
                     THEN touched[q] \cup {f} ELSE touched[q]]
    /\ UNCHANGED <<world, meta, records, limit, pc, job, failed,
                   evicting, alone>>

\* Download fails before it opens the file.
TakeFails(r, f) ==
    /\ Disturb
    /\ pc[r] = "work" /\ f \in todo[r] /\ ~cancelled[r]
    /\ Cardinality(active[r]) < Workers
    /\ todo' = [todo EXCEPT ![r] = @ \ {f}]
    /\ failed' = [failed EXCEPT ![r] = @ \cup {f}]
    /\ UNCHANGED <<remote, store, limit, pc, job, active, evicting,
                   history>>

\* The file is whole when this download alone has written it; what two of them
\* have written at the same time is whole or not.
WrittenToItsEnd(r, f) ==
    IF Shared(r, f) \/ f \in mixed
    THEN torn' \in {torn, torn \ {f}} /\ UNCHANGED rewriting
    ELSE torn' = torn \ {f} /\ rewriting' = rewriting \ {f}

\* Mutant of Finish: the metadata is dated by the download and not by the listing.
FinishDatedNow(r, f) ==
    /\ pc[r] = "work" /\ f \in active[r]
    /\ WrittenToItsEnd(r, f)
    /\ meta' = [meta EXCEPT ![f] = remote[f]]
    /\ active' = [active EXCEPT ![r] = @ \ {f}]
    /\ UNCHANGED <<world, disk, records, limit, pc, job, todo, failed,
                   evicting, alone, touched, mixed>>

\* io.Copy reaches the end of the item and the item's UpdatedAt from the
\* listing is saved, an error ignored.  The file may have been deleted, or
\* truncated by another mirror that is still writing it.
Finish(r, f) ==
    /\ pc[r] = "work" /\ f \in active[r]
    /\ WrittenToItsEnd(r, f)
    /\ \/ meta' = [meta EXCEPT ![f] = listing[r][f]] /\ UNCHANGED disturbances
       \/ Disturb /\ UNCHANGED meta
    /\ active' = [active EXCEPT ![r] = @ \ {f}]
    /\ UNCHANGED <<remote, disk, records, limit, pc, job, todo, failed,
                   evicting, alone, touched, mixed>>

\* Mutant of Fail: a failed download is logged but not appended to dlErrors.
FailUnreported(r, f) ==
    /\ RequestFails(r)
    /\ pc[r] = "work" /\ f \in active[r]
    /\ active' = [active EXCEPT ![r] = @ \ {f}]
    /\ UNCHANGED <<remote, store, limit, pc, job, todo, failed,
                   evicting, history>>

\* A network error or the cancelled context; what was written stays.
Fail(r, f) ==
    /\ RequestFails(r)
    /\ pc[r] = "work" /\ f \in active[r]
    /\ active' = [active EXCEPT ![r] = @ \ {f}]
    /\ failed' = [failed EXCEPT ![r] = @ \cup {f}]
    /\ UNCHANGED <<remote, store, limit, pc, job, todo, evicting,
                   history>>

\* INSERT OR REPLACE: the album's record becomes the newest.
Recorded(a) == Append(Without(records, a), a)

\* wg.Wait returns: the channel is empty or the workers saw the cancellation.
FinishMirror(r) ==
    /\ pc[r] = "work"
    /\ todo[r] = {} \/ cancelled[r]
    /\ active[r] = {}
    /\ \/ /\ records' = Recorded(album[r])
          /\ UNCHANGED disturbances
       \/ Disturb /\ UNCHANGED records
    /\ Goto(r, "report")
    /\ UNCHANGED <<remote, disk, torn, meta, limit, job, work, evicting,
                   history>>

\* The deferred function deletes the album's entry, whoever's it is.
Return(r) ==
    /\ pc[r] \in {"report", "error"}
    /\ Goto(r, "idle")
    /\ todo' = [todo EXCEPT ![r] = {}]
    /\ failed' = [failed EXCEPT ![r] = {}]
    /\ cancelled' = [cancelled EXCEPT ![r] = FALSE]
    /\ cancelOf' = [cancelOf EXCEPT ![album[r]] = NoMirror]
    /\ short' = [short EXCEPT ![r] = FALSE]
    /\ album' = [album EXCEPT ![r] = NoAlbum]
    /\ listing' = [listing EXCEPT ![r] = NothingListed]
    /\ alone' = [alone EXCEPT ![r] = FALSE]
    /\ touched' = [touched EXCEPT ![r] = {}]
    /\ UNCHANGED <<world, store, limit, active, victims, rewriting, mixed>>

-----------------------------------------------------------------------------
(* The user, the cloud and the machine.                                     *)

CancelMirror(a) ==
    /\ Disturb
    /\ cancelOf[a] # NoMirror
    /\ cancelled' = [cancelled EXCEPT ![cancelOf[a]] = TRUE]
    /\ UNCHANGED <<remote, store, limit, pc, album, listing, cancelOf, work,
                   evicting, history>>

SetMaxCacheMB(mb) ==
    /\ Disturb
    /\ limit' = mb
    /\ alone' = NoCall
    /\ UNCHANGED <<remote, store, pc, job, work, evicting, touched, rewriting,
                   mixed>>

\* The item's UpdatedAt becomes the time of the edit.
Edit(f, now) ==
    /\ Disturb
    /\ \A g \in Files : remote[g] < now
    /\ remote' = [remote EXCEPT ![f] = now]
    /\ UNCHANGED <<store, limit, pc, job, work, evicting, history>>

Crash ==
    /\ Disturb
    /\ pc' = [t \in Threads |-> "idle"]
    /\ todo' = NoWork /\ active' = NoWork
    /\ failed' = NoWork
    /\ cancelled' = NoCall
    /\ cancelOf' = [a \in Albums |-> NoMirror]
    /\ victims' = [t \in Threads |-> <<>>]
    /\ short' = NoCall
    /\ album' = [r \in Mirrors |-> NoAlbum]
    /\ listing' = [r \in Mirrors |-> NothingListed]
    /\ alone' = NoCall /\ touched' = NoWork
    /\ UNCHANGED <<remote, store, limit, rewriting, mixed>>

Delete(t) == Wipe(t) \/ Unrecord(t) \/ Forget(t) \/ DeleteFails(t)

Download(r) ==
    \E f \in Files :
      \/ Take(r, f) \/ TakeFails(r, f)
      \/ Finish(r, f) \/ Fail(r, f)

MirrorStep(r) ==
    \/ ListMedia(r) \/ ListFails(r)
    \/ CheckSpace(r) \/ Delete(r) \/ SpaceFreed(r)
    \/ Filter(r) \/ Download(r) \/ FinishMirror(r) \/ Return(r)

Next ==
    \/ \E r \in Mirrors, a \in Albums : BeginMirror(r, a)
    \/ \E r \in Mirrors : MirrorStep(r)
    \/ JanitorBegins \/ Delete(Janitor) \/ DeletionsDone
    \/ \E a \in Albums : CancelMirror(a)
    \/ \E mb \in Limits : SetMaxCacheMB(mb)
    \/ \E f \in Files, now \in Versions : Edit(f, now)
    \/ Crash

Spec == Init /\ [][Next]_vars

\* Every goroutine runs on, and the provider ends every request.
FairSpec == Spec /\ \A r \in Mirrors : WF_vars(MirrorStep(r))
-----------------------------------------------------------------------------
(* Properties.                                                              *)

\* The filter skips a file only if it is the item's current version, whole.
\* Crashes, failed downloads, edits during a mirror, deletions and other mirrors
\* of the album never make the metadata vouch for a file it should not, but for
\* a download begun over up-to-date metadata because the file was missing (see
\* MirroredFilesAreWhole) and for a file two mirrors have written at the same
\* time (see MirrorsWriteApart).
SkipsAreSound ==
    \A f \in Files \ (rewriting \cup mixed) :
      meta[f] = remote[f] /\ disk[f] > 0 => disk[f] = remote[f] /\ f \notin torn

\* A mirror reported without failures and not cancelled has every listed
\* version, or a later one, whole on the disk, whatever the other mirrors did,
\* those of the album included; but for the files that another call has deleted
\* or begun to write since its listing, and the two kinds of file above.
SuccessIsReal ==
    \A r \in Mirrors :
      pc[r] = "report" /\ failed[r] = {} /\ ~cancelled[r] =>
        \A f \in FilesOf(album[r]) \ (touched[r] \cup rewriting \cup mixed) :
          disk[f] >= listing[r][f] /\ f \notin torn

\* A mirror that ran alone under one limit leaves the recorded albums within
\* the limit, whatever it found on the disk and whatever was deleted meanwhile.
CacheFits ==
    \A r \in Mirrors : pc[r] = "report" /\ alone[r] => Usage <= limit

\* Every mirror comes to an end: a cancellation, a failure or an eviction never
\* leaves wg.Wait waiting.
MirrorsEnd == \A r \in Mirrors : Running(r) ~> ~Running(r)

\* mirror.go:127: "Already mirrored, up to date, and file exists on disk".  Not
\* so: after a download over up-to-date metadata is broken off, the torn file
\* passes for mirrored.
MirroredFilesAreWhole ==
    \A f \in Files :
      meta[f] = remote[f] /\ disk[f] > 0
      /\ (\A r \in Mirrors : f \notin active[r]) => f \notin torn

\* mirror.go:127 again: a file that passes for mirrored and that nobody is still
\* rewriting is whole, when no download was begun over up-to-date metadata.  Not so
\* once two mirrors of the album write the file: the end of one saves the
\* metadata that vouches for what the other leaves torn.
MirrorsWriteApart ==
    \A f \in Files \ rewriting :
      meta[f] = remote[f] /\ disk[f] > 0
      /\ (\A r \in Mirrors : f \notin active[r]) => f \notin torn

\* mirror.go:212: "Save mirror record (even on partial success)", the record
\* ClearAll and the eviction go by.  Not so for the mirror that finds every file
\* in place: it reports the album as mirrored and the album stays unrecorded.
MirroredAlbumsAreRecorded ==
    [][\A r \in Mirrors : pc[r] = "filter" /\ pc'[r] = "report" =>
         album[r] \in Range(records)]_vars

\* cloud.go:205: "CancelMirror cancels an in-progress mirror download".  Not so
\* once a second mirror of the album has begun.
CancelReaches ==
    \A r \in Mirrors : Running(r) /\ ~cancelled[r] => cancelOf[album[r]] = r
=============================================================================
