------------------------------- MODULE MediaCache -------------------------------
(***************************************************************************)
(* The pictures the program derives from photos and keeps on disk: the     *)
(* thumbnails the workers of a batch generate (image/thumbcache.go), the   *)
(* JPEG previews of RAW files (raw/previewcache.go) and the conversions of *)
(* HEIC files (heic, main.go) that the media server makes on request.      *)
(* Several threads may work on one picture at once: two batches, two       *)
(* requests.  FolderView composes this module with the loads that start    *)
(* the batches.                                                            *)
(*                                                                         *)
(* A file is the sequence of its chunks, each the version of the photo it  *)
(* was made from, 0 for a hole.  A thread with an open file follows it     *)
(* through a rename, and writes to nowhere once it is unlinked or          *)
(* replaced, as on a POSIX file system.  Files survive Crash.              *)
(*                                                                         *)
(* Left out: sizes, formats and decoding (a file put together from two     *)
(* pictures does not decode), HTTP headers and ranges, the list of folders *)
(* the media server may read, requests for files served as they are.       *)
(***************************************************************************)
EXTENDS Naturals, Sequences, FiniteSets, Functions

CONSTANTS
    Photos,
    Libraries,      \* the photos there may be, and what kind of file each is
    Workers,        \* threads of GenerateBatch
    Requests,       \* bound: requests to the media server at a time
    MaxConnections, \* the capacity of FileLoader.sem
    Chunks,         \* bound: the size of a picture
    None,           \* no photo, file or request
    MaxVersion,     \* bound: versions of a photo, one per modification time
    MaxDisturbances \* bound: edits, failures and crashes in a behaviour

Kinds == {"photo", "raw", "heic", "video"}
Versions == 1 .. MaxVersion
Threads == Workers \cup Requests

ASSUME LibrariesTyped == Libraries \subseteq UNION {[P -> Kinds] : P \in SUBSET Photos}
ASSUME NoneIsNone == None \notin Photos \cup Threads
ASSUME ThreadsDiffer == Workers \cap Requests = {}
ASSUME MediaBounds ==
    /\ MaxConnections \in Nat \ {0} /\ Chunks \in Nat \ {0}
    /\ MaxVersion \in Nat \ {0} /\ MaxDisturbances \in Nat

VARIABLES
    disturbances,   \* how many of them there have been
    kind,           \* the photos that exist, and what each is
    version,        \* its modification time; its content is as new
    disk,           \* the derived files that exist
    spoiled,        \* history: files left by a failure or a crash, or made from
                    \* two versions at once
    job,            \* what every thread does
    fd,             \* the file it has open for writing
    leader          \* heicGroup: the request that converts a photo

media == <<disturbances, kind, version, disk, spoiled, job, fd, leader>>

\* cacheKey(path, modTime), previewCachePath(path) and their .tmp files; a HEIC
\* file's conversions are named after its path alone.
Thumb(p, v) == <<"thumb", p, v>>
ThumbTmp(p, v) == <<"thumb.tmp", p, v>>
Preview(p, v) == <<"preview", p, v>>
PreviewTmp(p, v) == <<"preview.tmp", p, v>>
HeicTemp(p) == <<"heic_temp", p>>
Heic(p) == <<"heic", p>>

Names == {Thumb(p, v) : p \in Photos, v \in Versions}
         \cup {ThumbTmp(p, v) : p \in Photos, v \in Versions}
         \cup {Preview(p, v) : p \in Photos, v \in Versions}
         \cup {PreviewTmp(p, v) : p \in Photos, v \in Versions}
         \cup {HeicTemp(p) : p \in Photos} \cup {Heic(p) : p \in Photos}

ASSUME NoneIsNoFile == None \notin Names

Idle == [pc |-> "idle", item |-> None, key |-> 0, from |-> 0, at |-> 0]

MediaTypeOK ==
    /\ disturbances \in 0 .. MaxDisturbances
    /\ kind \in Libraries
    /\ version \in [Photos -> Versions]
    /\ DOMAIN disk \subseteq Names
    /\ \A n \in DOMAIN disk : disk[n] \in Seq(0 .. MaxVersion) /\ Len(disk[n]) <= Chunks
    /\ spoiled \subseteq DOMAIN disk
    /\ job \in [Threads -> [pc : {"idle", "take", "check", "convert", "converting",
                                  "decode", "read", "create", "write", "rename",
                                  "unlink", "dropMade", "dropFailed", "made", "failed",
                                  "queued", "lookup", "extract", "cache", "store",
                                  "publish", "stat", "join", "wait", "start", "serve"},
                            item : Photos \cup {None}, key : 0 .. MaxVersion,
                            from : 0 .. MaxVersion, at : 0 .. Chunks]]
    /\ fd \in [Threads -> Names \cup {None}]
    /\ \A t \in Threads : fd[t] # None => fd[t] \in DOMAIN disk
    /\ leader \in [Photos -> Requests \cup {None}]

MediaInit ==
    /\ disturbances = 0
    /\ kind \in Libraries
    /\ version = [p \in Photos |-> 1]
    /\ disk = <<>> /\ spoiled = {}
    /\ job = [t \in Threads |-> Idle]
    /\ fd = [t \in Threads |-> None]
    /\ leader = [p \in Photos |-> None]

At(t, here) == job[t].pc = here
Goto(t, there) == job' = [job EXCEPT ![t].pc = there]
Disturb == disturbances < MaxDisturbances /\ disturbances' = disturbances + 1
Calm == UNCHANGED disturbances

-----------------------------------------------------------------------------
(* Files.  A thread has one file open at most; at counts the chunks it has   *)
(* written there.                                                            *)

Exists(n) == n \in DOMAIN disk
Whole(c) == Len(c) = Chunks /\ c[1] # 0 /\ \A i \in 1 .. Chunks : c[i] = c[1]

\* os.Create, O_TRUNC, ffmpeg -y: an existing file keeps its writers.
Truncate(t, n, v) ==
    /\ disk' = [m \in (DOMAIN disk) \cup {n} |-> IF m = n THEN <<>> ELSE disk[m]]
    /\ fd' = [fd EXCEPT ![t] = n]
    /\ LET others == {u \in Threads \ {t} : fd[u] = n}
       IN spoiled' = IF others = {} THEN spoiled \ {n}
                     ELSE IF \E u \in others : job[u].from # v THEN spoiled \cup {n}
                     ELSE spoiled

\* The next chunk goes to the thread's own offset, after the last one it closes.
Append1(t, done) ==
    LET n == fd[t]
        i == job[t].at + 1
        c == disk[n]
    IN /\ disk' = IF n = None THEN disk
                  ELSE [disk EXCEPT ![n] = [j \in 1 .. (IF Len(c) < i THEN i ELSE Len(c)) |->
                            IF j = i THEN job[t].from ELSE IF j <= Len(c) THEN c[j] ELSE 0]]
       /\ job' = [job EXCEPT ![t].at = IF i = Chunks THEN 0 ELSE i,
                             ![t].pc = IF i = Chunks THEN done ELSE @]
       /\ fd' = IF i = Chunks THEN [fd EXCEPT ![t] = None] ELSE fd
       /\ UNCHANGED spoiled

\* The files without n; its writers write to nowhere.
Remove(n) ==
    /\ disk' = Restrict(disk, (DOMAIN disk) \ {n})
    /\ fd' = [u \in Threads |-> IF fd[u] = n THEN None ELSE fd[u]]
    /\ spoiled' = spoiled \ {n}

Rename(a, b) ==
    /\ disk' = [m \in ((DOMAIN disk) \ {a}) \cup {b} |-> IF m = b THEN disk[a] ELSE disk[m]]
    /\ fd' = [u \in Threads |-> IF fd[u] = b THEN None ELSE IF fd[u] = a THEN b ELSE fd[u]]
    /\ spoiled' = (spoiled \ {a, b}) \cup (IF a \in spoiled THEN {b} ELSE {})

\* The write fails or the tool is killed: what was written stays.
Abandon(t) ==
    /\ fd' = [fd EXCEPT ![t] = None]
    /\ spoiled' = spoiled \cup ({fd[t]} \ {None})
    /\ UNCHANGED disk

files == <<disk, spoiled, fd>>

-----------------------------------------------------------------------------
(* ThumbCache.GenerateThumbnail, for a worker with an item and the           *)
(* modification time the scan found.                                         *)

\* The thumbnail is returned; a HEIC file's temporary JPEG is removed first.
Ends(t, result) ==
    LET heic == kind[job[t].item] = "heic"
    IN IF result = "made" THEN IF heic THEN "dropMade" ELSE "made"
       ELSE IF heic THEN "dropFailed" ELSE "failed"

GetCachedPath(t) ==
    /\ At(t, "check")
    /\ Goto(t, IF Exists(Thumb(job[t].item, job[t].key)) THEN "made"
               ELSE CASE kind[job[t].item] = "heic" -> "convert"
                      [] kind[job[t].item] = "video" -> "create"
                      [] OTHER -> "read")
    /\ Calm /\ UNCHANGED <<kind, version, files, leader>>

\* GetThumbnail or ExtractPreview, into memory.
ReadSource(t) ==
    /\ At(t, "read")
    /\ \/ job' = [job EXCEPT ![t].pc = "create", ![t].from = version[job[t].item]] /\ Calm
       \/ Goto(t, "failed") /\ Disturb
    /\ UNCHANGED <<kind, version, files, leader>>

\* heic.ConvertToJPEG into a file every conversion of this photo uses.
ConvertHeic(t) ==
    /\ At(t, "convert")
    /\ LET v == version[job[t].item]
       IN /\ Truncate(t, HeicTemp(job[t].item), v)
          /\ job' = [job EXCEPT ![t].pc = "converting", ![t].from = v, ![t].at = 0]
    /\ Calm /\ UNCHANGED <<kind, version, leader>>

ConvertedHeic(t) ==
    /\ At(t, "converting") /\ Append1(t, "decode")
    /\ Calm /\ UNCHANGED <<kind, version, leader>>

\* sips gives up and ffmpeg has a try, or both have failed.
ConvertHeicFails(t) ==
    /\ At(t, "converting") /\ Abandon(t) /\ Disturb
    /\ \E next \in {"convert", "dropFailed"} : Goto(t, next)
    /\ UNCHANGED <<kind, version, leader>>

\* imaging.Open, of whatever the file holds by now.
DecodeHeic(t) ==
    /\ At(t, "decode")
    /\ LET n == HeicTemp(job[t].item)
       IN \/ /\ Exists(n) /\ Whole(disk[n])
             /\ job' = [job EXCEPT ![t].pc = "create", ![t].from = disk[n][1]]
          \/ /\ ~(Exists(n) /\ Whole(disk[n])) /\ Goto(t, "dropFailed")
    /\ Calm /\ UNCHANGED <<kind, version, files, leader>>
\* Mutant: the key is made from the modification time of the moment.
CreateTmpRestat(t) ==
    /\ At(t, "create")
    /\ LET v == version[job[t].item]
       IN /\ Truncate(t, ThumbTmp(job[t].item, v), job[t].from)
          /\ job' = [job EXCEPT ![t].pc = "write", ![t].key = v, ![t].at = 0]
    /\ Calm /\ UNCHANGED <<kind, version, leader>>

\* ffmpeg opens the video and the file it writes to.
CreateTmp(t) ==
    /\ At(t, "create")
    /\ LET v == IF kind[job[t].item] = "video" THEN version[job[t].item] ELSE job[t].from
       IN /\ Truncate(t, ThumbTmp(job[t].item, job[t].key), v)
          /\ job' = [job EXCEPT ![t].pc = "write", ![t].from = v, ![t].at = 0]
    /\ Calm /\ UNCHANGED <<kind, version, leader>>
\* Mutant: the file is closed before the encoder's last buffer is flushed.
WriteTmpUnflushed(t) ==
    /\ At(t, "write") /\ Goto(t, "rename")
    /\ disk' = IF fd[t] = None THEN disk ELSE [disk EXCEPT ![fd[t]] = <<job[t].from>>]
    /\ fd' = [fd EXCEPT ![t] = None]
    /\ UNCHANGED spoiled
    /\ Calm /\ UNCHANGED <<kind, version, leader>>

WriteTmp(t) ==
    /\ At(t, "write") /\ Append1(t, "rename")
    /\ Calm /\ UNCHANGED <<kind, version, leader>>

\* A failed encoding removes the file; ffmpeg has a second try at a video.
WriteTmpFails(t) ==
    /\ At(t, "write") /\ Disturb
    /\ \/ /\ LET n == ThumbTmp(job[t].item, job[t].key)
             IN /\ disk' = Restrict(disk, (DOMAIN disk) \ {n})
                /\ fd' = [u \in Threads |-> IF u = t \/ fd[u] = n THEN None ELSE fd[u]]
                /\ spoiled' = (spoiled \cup {fd[t]}) \ {None, n}
          /\ Goto(t, Ends(t, "failed"))
       \/ kind[job[t].item] = "video" /\ Abandon(t) /\ Goto(t, "create")
    /\ UNCHANGED <<kind, version, leader>>

\* Another generation of this thumbnail may have taken the file away.
RenameTmp(t) ==
    /\ At(t, "rename")
    /\ LET n == ThumbTmp(job[t].item, job[t].key)
       IN \/ /\ Exists(n) /\ Rename(n, Thumb(job[t].item, job[t].key))
             /\ Goto(t, Ends(t, "made"))
          \/ ~Exists(n) /\ Goto(t, "unlink") /\ UNCHANGED files
    /\ Calm /\ UNCHANGED <<kind, version, leader>>

UnlinkTmp(t) ==
    /\ At(t, "unlink") /\ Remove(ThumbTmp(job[t].item, job[t].key))
    /\ Goto(t, Ends(t, "failed"))
    /\ Calm /\ UNCHANGED <<kind, version, leader>>

DropHeic(t) ==
    /\ \/ At(t, "dropMade") /\ Goto(t, "made")
       \/ At(t, "dropFailed") /\ Goto(t, "failed")
    /\ Remove(HeicTemp(job[t].item))
    /\ Calm /\ UNCHANGED <<kind, version, leader>>

GenerateThumbnail(t) ==
    \/ GetCachedPath(t) \/ ReadSource(t) \/ ConvertHeic(t) \/ ConvertedHeic(t)
    \/ ConvertHeicFails(t) \/ DecodeHeic(t) \/ CreateTmp(t) \/ WriteTmp(t)
    \/ WriteTmpFails(t) \/ RenameTmp(t) \/ UnlinkTmp(t) \/ DropHeic(t)

-----------------------------------------------------------------------------
(* FileLoader.ServeHTTP, for a request that needs a picture made.            *)

Return(r) == job' = [job EXCEPT ![r] = Idle]
Serving == {r \in Requests : job[r].pc \notin {"idle", "queued"}}

Request(r, p) ==
    /\ At(r, "idle") /\ kind[p] \in {"raw", "heic"}
    /\ job' = [job EXCEPT ![r].pc = "queued", ![r].item = p]
    /\ Calm /\ UNCHANGED <<kind, version, files, leader>>

AcquireSlot(r) ==
    /\ At(r, "queued") /\ Cardinality(Serving) < MaxConnections
    /\ Goto(r, IF kind[job[r].item] = "raw" THEN "lookup" ELSE "stat")
    /\ Calm /\ UNCHANGED <<kind, version, files, leader>>

GetCachedPreview(r) ==
    /\ At(r, "lookup")
    /\ IF Exists(Preview(job[r].item, version[job[r].item])) THEN Return(r)
       ELSE Goto(r, "extract")
    /\ Calm /\ UNCHANGED <<kind, version, files, leader>>

ExtractPreview(r) ==
    /\ At(r, "extract")
    /\ \/ job' = [job EXCEPT ![r].pc = "cache", ![r].from = version[job[r].item]] /\ Calm
       \/ Return(r) /\ Disturb
    /\ UNCHANGED <<kind, version, files, leader>>

\* CachePreview looks at the modification time again.
CachePreview(r) ==
    /\ At(r, "cache")
    /\ LET v == version[job[r].item]
       IN /\ Truncate(r, PreviewTmp(job[r].item, v), job[r].from)
          /\ job' = [job EXCEPT ![r].pc = "store", ![r].key = v, ![r].at = 0]
    /\ Calm /\ UNCHANGED <<kind, version, leader>>

StorePreview(r) ==
    /\ At(r, "store") /\ Append1(r, "publish")
    /\ Calm /\ UNCHANGED <<kind, version, leader>>

StorePreviewFails(r) ==
    /\ At(r, "store") /\ Abandon(r) /\ Return(r) /\ Disturb
    /\ UNCHANGED <<kind, version, leader>>

\* The preview is served whether or not it could be cached.
PublishPreview(r) ==
    /\ At(r, "publish")
    /\ LET n == PreviewTmp(job[r].item, job[r].key)
       IN IF Exists(n) THEN Rename(n, Preview(job[r].item, job[r].key))
          ELSE UNCHANGED files
    /\ Return(r)
    /\ Calm /\ UNCHANGED <<kind, version, leader>>

\* os.Stat: a file that exists is served, written in full or not.
StatHeic(r) ==
    /\ At(r, "stat")
    /\ IF Exists(Heic(job[r].item)) THEN Return(r) ELSE Goto(r, "join")
    /\ Calm /\ UNCHANGED <<kind, version, files, leader>>
\* Mutant: without the singleflight group every request converts.
JoinFlightAlone(r) ==
    /\ At(r, "join")
    /\ leader' = [leader EXCEPT ![job[r].item] = r] /\ Goto(r, "start")
    /\ Calm /\ UNCHANGED <<kind, version, files>>

\* heicGroup.Do: the first one converts, the others wait for it.
JoinFlight(r) ==
    /\ At(r, "join")
    /\ \/ /\ leader[job[r].item] = None
          /\ leader' = [leader EXCEPT ![job[r].item] = r] /\ Goto(r, "start")
       \/ /\ leader[job[r].item] # None
          /\ Goto(r, "wait") /\ UNCHANGED leader
    /\ Calm /\ UNCHANGED <<kind, version, files>>

StartConversion(r) ==
    /\ At(r, "start")
    /\ LET v == version[job[r].item]
       IN /\ Truncate(r, Heic(job[r].item), v)
          /\ job' = [job EXCEPT ![r].pc = "converting", ![r].from = v, ![r].at = 0]
    /\ Calm /\ UNCHANGED <<kind, version, leader>>

Conversion(r) ==
    /\ At(r, "converting") /\ Append1(r, "serve")
    /\ Calm /\ UNCHANGED <<kind, version, leader>>

\* Killed at its timeout, ffmpeg leaves what it has written; a result that is
\* empty is removed; after sips ffmpeg has a try.
ConversionFails(r) ==
    /\ At(r, "converting") /\ Disturb
    /\ \/ Abandon(r) /\ \E next \in {"start", "serve"} : Goto(r, next)
       \/ /\ disk[fd[r]] = <<>> /\ Remove(fd[r]) /\ Goto(r, "serve")
    /\ UNCHANGED <<kind, version, leader>>

\* The flight ends for all: they serve the file, or the error.
EndFlight(r) ==
    /\ At(r, "serve")
    /\ job' = [u \in Threads |->
                 IF u = r \/ (job[u].pc = "wait" /\ job[u].item = job[r].item) THEN Idle
                 ELSE job[u]]
    /\ leader' = [leader EXCEPT ![job[r].item] = None]
    /\ Calm /\ UNCHANGED <<kind, version, files>>

ServeHTTP(r) ==
    \/ AcquireSlot(r) \/ GetCachedPreview(r) \/ ExtractPreview(r) \/ CachePreview(r)
    \/ StorePreview(r) \/ StorePreviewFails(r) \/ PublishPreview(r) \/ StatHeic(r)
    \/ JoinFlight(r) \/ StartConversion(r) \/ Conversion(r) \/ ConversionFails(r)
    \/ EndFlight(r)

-----------------------------------------------------------------------------

\* A photo is written to by another program.
Edit(p) ==
    /\ version[p] < MaxVersion /\ Disturb
    /\ version' = [version EXCEPT ![p] = @ + 1]
    /\ UNCHANGED <<kind, files, job, leader>>

\* The machine stops, and the tools with it.
MediaCrash ==
    /\ Disturb
    /\ spoiled' = spoiled \cup ({fd[t] : t \in Threads} \ {None})
    /\ fd' = [t \in Threads |-> None]
    /\ job' = [t \in Threads |-> Idle]
    /\ leader' = [p \in Photos |-> None]
    /\ UNCHANGED <<kind, version, disk>>

\* A picture in a cache that nobody writes to and no failure, crash or edit has
\* spoiled is whole, although two generations share one temporary file and one
\* may rename it under the other's hands.
QuietCachesAreWhole ==
    \A n \in DOMAIN disk :
        /\ n[1] \in {"thumb", "preview", "heic"}
        /\ n \notin spoiled
        /\ \A t \in Threads : fd[t] # n
        => Whole(disk[n])

\* The thumbnail of a version is never made from an older one, edits during the
\* scan and the generation included.  HEIC files are left out: their shared
\* temporary JPEG may hold the picture of an earlier version's conversion.
ThumbsAreCurrent ==
    \A p \in DOMAIN kind, v \in Versions :
        (kind[p] # "heic" /\ Exists(Thumb(p, v))) =>
            \A i \in 1 .. Len(disk[Thumb(p, v)]) :
                disk[Thumb(p, v)][i] = 0 \/ disk[Thumb(p, v)][i] >= v

\* No request waits for a conversion nobody makes, and no two requests of one
\* time write the same file: the leader of a flight is at work until it ends.
FlightsAreLed ==
    \A r \in Requests :
        /\ At(r, "wait") => leader[job[r].item] # None
        /\ job[r].pc \in {"start", "converting", "serve"} => leader[job[r].item] = r
        /\ \A p \in Photos : leader[p] = r =>
               job[r].item = p /\ job[r].pc \in {"start", "converting", "serve"}

\* What the comments call the atomicity of the write to a temporary file: no
\* thumbnail is visible before it is written in full.
ThumbnailsAreWhole ==
    \A p \in Photos, v \in Versions :
        Exists(Thumb(p, v)) => Whole(disk[Thumb(p, v)])
=============================================================================
