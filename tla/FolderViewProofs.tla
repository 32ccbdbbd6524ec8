--------------------------- MODULE FolderViewProofs ---------------------------
(***************************************************************************)
(* What FolderView and the caches of MediaCache under it guarantee, for    *)
(* every number of folders, photos, loads, workers, requests and           *)
(* disturbances.                                                           *)
(*                                                                         *)
(* A step of a thread changes the derived files in one of four ways: it    *)
(* creates a file, writes a chunk, renames a file, or lets go of files     *)
(* (ShrinkStep, which covers failures and crashes as well).  Each keeps    *)
(* what FileInv says of every file: nobody has broken off what is missing  *)
(* in it, and a thumbnail is no older than its name.                       *)
(***************************************************************************)
EXTENDS FolderView, SequenceTheorems, TLAPS

Opening == {"write", "converting", "store"}

\* The files, as far as their types go.
FilesOK ==
    /\ DOMAIN disk \subseteq Names
    /\ \A n \in DOMAIN disk : disk[n] \in Seq(0 .. MaxVersion) /\ Len(disk[n]) <= Chunks
    /\ spoiled \subseteq DOMAIN disk
    /\ fd \in [Threads -> Names \cup {None}]
    /\ \A t \in Threads : fd[t] # None => fd[t] \in DOMAIN disk

Writes(t, n) == fd[t] = n

\* All writers of the file have the same picture, and every chunk that is not
\* that picture's has a writer who will come to it.
Sound(n) ==
    \E v \in Versions :
        /\ \A t \in Threads : Writes(t, n) => job[t].from = v
        /\ \A i \in 1 .. Chunks :
              \/ i \in 1 .. Len(disk[n]) /\ disk[n][i] = v
              \/ \E t \in Threads : Writes(t, n) /\ job[t].at < i

\* The oldest version a thumbnail may show, written in full or not.
Due(n) ==
    IF n[1] \in {"thumb", "thumb.tmp"} /\ kind[n[2]] # "heic" THEN n[3] ELSE 0

Fresh(n) ==
    /\ \A i \in 1 .. Len(disk[n]) : disk[n][i] = 0 \/ disk[n][i] >= Due(n)
    /\ \A t \in Threads : Writes(t, n) => job[t].from >= Due(n)

FileInv ==
    /\ FilesOK
    /\ \A n \in (DOMAIN disk) \ spoiled : Sound(n)
    /\ \A n \in DOMAIN disk : Fresh(n)

\* A thread at work has a photo, and a file open only while it writes there.
ThreadOK(t) ==
    /\ job[t].pc \notin {"idle", "take"} => job[t].item \in DOMAIN kind
    /\ fd[t] # None => job[t].pc \in Opening
    /\ job[t].pc \in Opening => job[t].at < Chunks
    /\ job[t].pc \in Opening \cup {"cache"} => job[t].from \in Versions
    /\ job[t].pc \in {"store", "publish"} => job[t].key \in Versions

\* A worker makes the thumbnail of a version that has been, from that version
\* or a later one.
WorkerOK(t) ==
    LET p == job[t].item
    IN /\ job[t].pc \notin {"idle", "take"} => job[t].key \in 1 .. version[p]
       /\ job[t].pc \in {"convert", "converting", "decode"} => kind[p] = "heic"
       /\ job[t].pc = "create" /\ kind[p] # "video" => job[t].from \in Versions
       /\ job[t].pc = "create" /\ kind[p] \notin {"video", "heic"} =>
             job[t].from >= job[t].key

ThreadInv ==
    /\ \A t \in Threads : ThreadOK(t)
    /\ \A t \in Workers : WorkerOK(t)

\* The rows a load has collected are of photos and versions that have been.
RowOK(row) == row.photo \in DOMAIN kind /\ row.version <= version[row.photo]
RowsInv ==
    /\ \A row \in ref : RowOK(row)
    /\ \A c \in Loads :
          /\ load[c].left \subseteq DOMAIN kind
          /\ \A row \in load[c].first \cup load[c].items \cup load[c].queue : RowOK(row)

PhotosOf(rows) == {row.photo : row \in rows}

\* Where the load of the folder the window names is, if no other disturbs it.
OnItsWay(c) ==
    LET all == Photos0(currentDir)
    IN /\ Loading = {c} /\ load[c].folder = currentDir
       /\ In(c, "scan") =>
             PhotosOf(ref) \cup PhotosOf(load[c].first) \cup load[c].left = all
       /\ In(c, "scanned") => PhotosOf(ref) \cup PhotosOf(load[c].first) = all
       /\ In(c, "meta") => PhotosOf(ref) = all /\ photos = ref
       /\ In(c, "preload") => PhotosOf(load[c].items) = all

GridInv ==
    ~overlapped =>
        /\ \A c \in Loading : OnItsWay(c)
        /\ Loading = {} /\ currentDir # None => PhotosOf(photos) = Photos0(currentDir)

Jobs == [pc : {"idle", "take", "check", "convert", "converting",
               "decode", "read", "create", "write", "rename",
               "unlink", "dropMade", "dropFailed", "made", "failed",
               "queued", "lookup", "extract", "cache", "store",
               "publish", "stat", "join", "wait", "start", "serve"},
         item : Photos \cup {None}, key : 0 .. MaxVersion,
         from : 0 .. MaxVersion, at : 0 .. Chunks]

\* What the caches and their threads keep among themselves.
MediaInv ==
    /\ disturbances \in 0 .. MaxDisturbances
    /\ kind \in Libraries
    /\ version \in [Photos -> Versions]
    /\ job \in [Threads -> Jobs]
    /\ leader \in [Photos -> Requests \cup {None}]
    /\ FileInv /\ ThreadInv /\ FlightsAreLed

LoadStates == [phase : {"none", "scan", "scanned", "meta", "preload"},
               folder : Folders \cup {None}, left : SUBSET Photos,
               first : SUBSET Rows, items : SUBSET Rows,
               queue : SUBSET Rows, thumbs : SUBSET Photos]
EnrichmentStates == [on : BOOLEAN, left : SUBSET Photos]

\* The types of what the window and its loads keep.
ViewOK ==
    /\ calls \in 0 .. MaxCalls
    /\ currentDir \in Folders \cup {None}
    /\ ref \subseteq Rows /\ photos \subseteq Rows
    /\ listening \in BOOLEAN /\ overlapped \in BOOLEAN
    /\ load \in [Loads -> LoadStates]
    /\ enrichment \in [Loads -> EnrichmentStates]
    /\ enrichCancel \in Loads \cup {None}

IInv == MediaInv /\ ViewOK /\ RowsInv /\ GridInv

-------------------------------------------------------------------------------
(* The derived files.                                                        *)

\* What the threads with an open file write stays what it was.
Undisturbed ==
    \A t \in Threads : fd'[t] # None =>
        job'[t].from = job[t].from /\ job'[t].at = job[t].at

\* Files and writers only go away, and a file a writer lets go of is spoiled.
LEMMA ShrinkStep ==
    ASSUME FileInv, kind' = kind, Undisturbed,
           (DOMAIN disk') \subseteq DOMAIN disk,
           \A n \in DOMAIN disk' : disk'[n] = disk[n],
           spoiled' \subseteq DOMAIN disk',
           \A n \in DOMAIN disk' : n \in spoiled => n \in spoiled',
           fd' \in [Threads -> Names \cup {None}],
           \A t \in Threads : fd'[t] # None => fd'[t] = fd[t] /\ fd[t] \in DOMAIN disk',
           \A t \in Threads : fd'[t] = None /\ fd[t] # None =>
               fd[t] \in spoiled' \/ fd[t] \notin DOMAIN disk'
    PROVE  FileInv'
<1>1. FilesOK'
  BY DEF FileInv, FilesOK
<1>2. ASSUME NEW n \in (DOMAIN disk') \ spoiled' PROVE Sound(n)'
  <2>1. n \in (DOMAIN disk) \ spoiled /\ disk'[n] = disk[n] /\ n # None
    BY NoneIsNoFile DEF FileInv, FilesOK
  <2>2. \A t \in Threads : Writes(t, n)' <=> Writes(t, n)
    BY <2>1 DEF Writes
  <2>3. \A t \in Threads : Writes(t, n)' =>
            job'[t].from = job[t].from /\ job'[t].at = job[t].at
    BY <2>1 DEF Undisturbed, Writes
  <2>4. PICK v \in Versions :
           /\ \A t \in Threads : Writes(t, n) => job[t].from = v
           /\ \A i \in 1 .. Chunks :
                 \/ i \in 1 .. Len(disk[n]) /\ disk[n][i] = v
                 \/ \E t \in Threads : Writes(t, n) /\ job[t].at < i
    BY <2>1 DEF FileInv, Sound
  <2>5. \A t \in Threads : Writes(t, n)' => job'[t].from = v
    BY <2>2, <2>3, <2>4
  <2>6. ASSUME NEW i \in 1 .. Chunks
        PROVE  \/ i \in 1 .. Len(disk'[n]) /\ disk'[n][i] = v
               \/ \E t \in Threads : Writes(t, n)' /\ job'[t].at < i
    <3>1. CASE i \in 1 .. Len(disk[n]) /\ disk[n][i] = v
      BY <2>1, <3>1
    <3>2. CASE \E t \in Threads : Writes(t, n) /\ job[t].at < i
      BY <2>2, <2>3, <3>2
    <3> QED
      BY <2>4, <3>1, <3>2
  <2> QED
    BY <2>5, <2>6 DEF Sound
<1>3. ASSUME NEW n \in DOMAIN disk' PROVE Fresh(n)'
  <2>1. n \in DOMAIN disk /\ disk'[n] = disk[n] /\ n # None /\ Due(n)' = Due(n)
    BY NoneIsNoFile DEF FileInv, FilesOK, Due
  <2>2. \A t \in Threads : Writes(t, n)' => Writes(t, n) /\ job'[t].from = job[t].from
    BY <2>1 DEF Undisturbed, Writes
  <2> QED
    BY <2>1, <2>2 DEF FileInv, Fresh
<1> QED
  BY <1>1, <1>2, <1>3 DEF FileInv

\* A step that leaves the files alone.
LEMMA FilesSame ==
    ASSUME FileInv, kind' = kind, UNCHANGED files, Undisturbed
    PROVE  FileInv'
<1>1. disk' = disk /\ spoiled' = spoiled /\ fd' = fd
  BY DEF files
<1> QED
  BY <1>1, ShrinkStep DEF FileInv, FilesOK

\* An empty file has a new writer.
LEMMA TruncateStep ==
    ASSUME FileInv, kind' = kind, NEW t \in Threads, NEW n \in Names, NEW v \in Versions,
           Truncate(t, n, v), fd[t] = None, v >= Due(n),
           job'[t].from = v, job'[t].at = 0,
           \A u \in Threads \ {t} : job'[u] = job[u]
    PROVE  FileInv'
<1> USE DEF FileInv, FilesOK
<1> DEFINE others == {u \in Threads \ {t} : fd[u] = n}
<1>1. /\ disk' = [m \in (DOMAIN disk) \cup {n} |-> IF m = n THEN <<>> ELSE disk[m]]
      /\ fd' = [fd EXCEPT ![t] = n]
      /\ spoiled' = IF others = {} THEN spoiled \ {n}
                    ELSE IF \E u \in others : job[u].from # v THEN spoiled \cup {n}
                    ELSE spoiled
  BY DEF Truncate
<1>2. /\ (DOMAIN disk') = (DOMAIN disk) \cup {n}
      /\ disk'[n] = <<>>
      /\ \A m \in (DOMAIN disk) \ {n} : disk'[m] = disk[m]
      /\ fd'[t] = n /\ \A u \in Threads \ {t} : fd'[u] = fd[u]
      /\ fd' \in [Threads -> Names \cup {None}]
      /\ n # None
  BY <1>1, NoneIsNoFile
<1>3. FilesOK'
  <2>1. spoiled' \subseteq DOMAIN disk'
    BY <1>1, <1>2
  <2>2. \A m \in DOMAIN disk' : disk'[m] \in Seq(0 .. MaxVersion) /\ Len(disk'[m]) <= Chunks
    <3>1. disk'[n] \in Seq(0 .. MaxVersion) /\ Len(disk'[n]) <= Chunks
      BY <1>2, MediaBounds
    <3>2. \A m \in (DOMAIN disk) \ {n} :
             disk'[m] \in Seq(0 .. MaxVersion) /\ Len(disk'[m]) <= Chunks
      BY <1>2
    <3> QED
      BY <1>2, <3>1, <3>2, Zenon
  <2> QED
    BY <1>2, <2>1, <2>2
<1>4. ASSUME NEW m \in (DOMAIN disk') \ spoiled' PROVE Sound(m)'
  <2>1. CASE m = n
    <3>1. \A u \in others : job[u].from = v
      BY <1>1, <2>1
    <3>2. \A u \in Threads : Writes(u, m)' => job'[u].from = v
      BY <1>2, <2>1, <3>1 DEF Writes
    <3>3. \A i \in 1 .. Chunks : Writes(t, m)' /\ job'[t].at < i
      BY <1>2, <2>1 DEF Writes
    <3> QED
      BY <3>2, <3>3 DEF Sound
  <2>2. CASE m # n
    <3>1. m \in (DOMAIN disk) \ spoiled /\ disk'[m] = disk[m]
      BY <1>1, <1>2, <2>2
    <3>2. m # None
      BY <3>1, NoneIsNoFile
    <3>3. \A u \in Threads : /\ Writes(u, m)' <=> Writes(u, m)
                             /\ Writes(u, m) => job'[u] = job[u]
      BY <1>2, <2>2, <3>2 DEF Writes
    <3> QED
      BY <3>1, <3>3 DEF Sound
  <2> QED
    BY <2>1, <2>2
<1>5. ASSUME NEW m \in DOMAIN disk' PROVE Fresh(m)'
  <2>1. m \in Names /\ Due(m)' = Due(m)
    BY <1>3 DEF Due
  <2>2. CASE m = n
    <3>1. \A u \in Threads \ {t} : Writes(u, m)' => Writes(u, m) /\ n \in DOMAIN disk
      BY <1>2, <2>2 DEF Writes
    <3>2. \A u \in Threads : Writes(u, m)' => job'[u].from >= Due(m)
      BY <2>2, <3>1 DEF Fresh
    <3> QED
      BY <1>2, <2>1, <2>2, <3>2 DEF Fresh
  <2>3. CASE m # n
    <3>1. m \in DOMAIN disk /\ disk'[m] = disk[m] /\ m # None
      BY <1>2, <2>1, <2>3, NoneIsNoFile
    <3>2. \A u \in Threads : Writes(u, m)' => Writes(u, m) /\ job'[u] = job[u]
      BY <1>2, <2>3, <3>1 DEF Writes
    <3> QED
      BY <2>1, <3>1, <3>2 DEF Fresh
  <2> QED
    BY <2>2, <2>3
<1> QED
  BY <1>3, <1>4, <1>5

\* A chunk more, and the file is closed after the last.
LEMMA AppendStep ==
    ASSUME FileInv, kind' = kind, NEW t \in Threads, NEW done,
           job \in [Threads -> Jobs],
           job[t].at < Chunks, job[t].from \in Versions, Append1(t, done)
    PROVE  FileInv'
<1> USE DEF FileInv, FilesOK
<1> DEFINE n == fd[t]
           i == job[t].at + 1
           c == disk[n]
           L == IF Len(c) < i THEN i ELSE Len(c)
<1>1. /\ disk' = IF n = None THEN disk
                 ELSE [disk EXCEPT ![n] = [j \in 1 .. L |->
                          IF j = i THEN job[t].from ELSE IF j <= Len(c) THEN c[j] ELSE 0]]
      /\ job' = [job EXCEPT ![t].at = IF i = Chunks THEN 0 ELSE i,
                            ![t].pc = IF i = Chunks THEN done ELSE @]
      /\ fd' = IF i = Chunks THEN [fd EXCEPT ![t] = None] ELSE fd
      /\ spoiled' = spoiled
  BY DEF Append1
<1>2. /\ job'[t].from = job[t].from
      /\ i # Chunks => job'[t].at = i
      /\ \A u \in Threads \ {t} : job'[u] = job[u]
      /\ i \in 1 .. Chunks /\ Chunks \in Nat
  BY <1>1, MediaBounds DEF Jobs
<1>3. /\ fd' \in [Threads -> Names \cup {None}]
      /\ fd'[t] = IF i = Chunks THEN None ELSE n
      /\ \A u \in Threads \ {t} : fd'[u] = fd[u]
  BY <1>1
<1>4. CASE n = None
  <2>1. disk' = disk
    BY <1>1, <1>4
  <2>2. Undisturbed
    BY <1>2, <1>3, <1>4 DEF Undisturbed
  <2>3. \A u \in Threads : fd'[u] = fd[u]
    BY <1>3, <1>4
  <2> QED
    BY <1>1, <1>3, <2>1, <2>2, <2>3, ShrinkStep
<1>5. CASE n # None
  <2>1. n \in DOMAIN disk /\ c \in Seq(0 .. MaxVersion) /\ Len(c) \in Nat /\ Len(c) <= Chunks
    BY <1>5
  <2> DEFINE new == [j \in 1 .. L |->
                 IF j = i THEN job[t].from ELSE IF j <= Len(c) THEN c[j] ELSE 0]
  <2>2. /\ L \in 1 .. Chunks /\ i <= L /\ Len(c) <= L
        /\ 0 \in 0 .. MaxVersion /\ job[t].from \in 0 .. MaxVersion
    BY <1>2, <2>1, MediaBounds DEF Versions
  <2>3. /\ new \in Seq(0 .. MaxVersion) /\ Len(new) = L
        /\ new[i] = job[t].from
        /\ \A j \in 1 .. Len(c) : j # i => new[j] = c[j]
        /\ \A j \in 1 .. L : j # i => new[j] = 0 \/ (j \in 1 .. Len(c) /\ new[j] = c[j])
    <3> HIDE DEF L, i, c
    <3>1. ASSUME NEW j \in 1 .. L PROVE new[j] \in 0 .. MaxVersion
      <4>1. CASE j = i
        BY <2>2, <4>1
      <4>2. CASE j # i /\ j <= Len(c)
        <5>1. j \in 1 .. Len(c)
          BY <1>2, <2>1, <2>2, <4>2
        <5>2. c[j] \in 0 .. MaxVersion
          BY <2>1, <5>1, ElementOfSeq
        <5> QED
          BY <4>2, <5>2
      <4>3. CASE j # i /\ ~(j <= Len(c))
        BY <2>2, <4>3
      <4> QED
        BY <4>1, <4>2, <4>3
    <3>2. new \in Seq(0 .. MaxVersion) /\ Len(new) = L
      BY <2>2, <3>1
    <3>3. new[i] = job[t].from
      BY <1>2, <2>2
    <3>4. \A j \in 1 .. Len(c) : j # i => new[j] = c[j]
      BY <2>1, <2>2
    <3>5. \A j \in 1 .. L : j # i => new[j] = 0 \/ (j \in 1 .. Len(c) /\ new[j] = c[j])
      BY <2>1, <2>2
    <3> QED
      BY <3>2, <3>3, <3>4, <3>5
  <2>4. /\ (DOMAIN disk') = DOMAIN disk
        /\ disk'[n] = new
        /\ \A m \in (DOMAIN disk) \ {n} : disk'[m] = disk[m]
    BY <1>1, <1>5, <2>1
  <2> HIDE DEF new, L, c, i
  <2>5. FilesOK'
    <3>1. \A m \in DOMAIN disk' : disk'[m] \in Seq(0 .. MaxVersion) /\ Len(disk'[m]) <= Chunks
      BY <2>2, <2>3, <2>4
    <3>2. \A u \in Threads : fd'[u] # None => fd'[u] \in DOMAIN disk'
      BY <1>3, <2>4
    <3> QED
      BY <1>1, <1>3, <2>4, <3>1, <3>2
  <2>6. ASSUME NEW m \in (DOMAIN disk') \ spoiled' PROVE Sound(m)'
    <3>1. m \in (DOMAIN disk) \ spoiled
      BY <1>1, <2>4, <2>6
    <3>2. PICK v \in Versions :
             /\ \A u \in Threads : Writes(u, m) => job[u].from = v
             /\ \A j \in 1 .. Chunks :
                   \/ j \in 1 .. Len(disk[m]) /\ disk[m][j] = v
                   \/ \E u \in Threads : Writes(u, m) /\ job[u].at < j
      BY <3>1 DEF Sound
    <3>3. \A u \in Threads : Writes(u, m)' => Writes(u, m)
      BY <1>3, <3>1, NoneIsNoFile DEF Writes
    <3>4. \A u \in Threads : Writes(u, m)' => job'[u].from = v
      BY <1>2, <3>2, <3>3
    <3>5. CASE m # n
      <4>1. \A u \in Threads : Writes(u, m) => Writes(u, m)' /\ job'[u] = job[u]
        BY <1>2, <1>3, <3>5 DEF Writes
      <4> QED
        BY <2>4, <3>1, <3>2, <3>4, <3>5, <4>1 DEF Sound
    <3>6. CASE m = n
      <4>1. job[t].from = v
        BY <3>2, <3>6 DEF Writes
      <4>2. ASSUME NEW j \in 1 .. Chunks
            PROVE  \/ j \in 1 .. Len(disk'[m]) /\ disk'[m][j] = v
                   \/ \E u \in Threads : Writes(u, m)' /\ job'[u].at < j
        <5>1. CASE j = i
          BY <1>2, <2>2, <2>3, <2>4, <3>6, <4>1, <5>1
        <5>2. CASE j # i /\ j \in 1 .. Len(c) /\ c[j] = v
          BY <2>1, <2>2, <2>3, <2>4, <3>6, <5>2
        <5>3. CASE \E u \in Threads \ {t} : Writes(u, m) /\ job[u].at < j
          BY <1>2, <1>3, <5>3 DEF Writes
        <5>4. CASE j # i /\ job[t].at < j
          <6>1. i < j /\ i # Chunks
            BY <1>2, <5>4 DEF i, Jobs
          <6> QED
            BY <1>2, <1>3, <3>6, <6>1 DEF Writes
        <5> QED
          BY <3>2, <3>6, <5>1, <5>2, <5>3, <5>4 DEF c
      <4> QED
        BY <3>4, <4>2 DEF Sound
    <3> QED
      BY <3>5, <3>6
  <2>7. ASSUME NEW m \in DOMAIN disk' PROVE Fresh(m)'
    <3>1. m \in DOMAIN disk /\ m # None /\ Due(m)' = Due(m)
      BY <2>4, NoneIsNoFile DEF Due
    <3>2. \A u \in Threads : Writes(u, m)' => Writes(u, m) /\ job'[u].from = job[u].from
      BY <1>2, <1>3, <3>1 DEF Writes
    <3>3. ASSUME NEW j \in 1 .. Len(disk'[m])
          PROVE  disk'[m][j] = 0 \/ disk'[m][j] >= Due(m)
      <4>1. CASE m # n
        BY <2>4, <3>1, <3>3, <4>1 DEF Fresh
      <4>2. CASE m = n /\ j = i
        BY <2>3, <2>4, <3>1, <4>2 DEF Fresh, Writes
      <4>3. CASE m = n /\ j # i
        <5>1. new[j] = 0 \/ (j \in 1 .. Len(disk[n]) /\ new[j] = disk[n][j])
          BY <2>2, <2>3, <2>4, <3>3, <4>3 DEF c
        <5> QED
          BY <2>4, <3>1, <4>3, <5>1 DEF Fresh
      <4> QED
        BY <4>1, <4>2, <4>3
    <3> QED
      BY <3>1, <3>2, <3>3 DEF Fresh
  <2> QED
    BY <2>5, <2>6, <2>7
<1> QED
  BY <1>4, <1>5

\* The file a is from now on the file b, for its writers as well.
LEMMA RenameStep ==
    ASSUME FileInv, kind' = kind, NEW a \in DOMAIN disk, NEW b \in Names, a # b,
           Rename(a, b), Due(b) = Due(a), Undisturbed
    PROVE  FileInv'
<1> USE DEF FileInv, FilesOK
<1>1. /\ disk' = [m \in ((DOMAIN disk) \ {a}) \cup {b} |->
                    IF m = b THEN disk[a] ELSE disk[m]]
      /\ fd' = [u \in Threads |-> IF fd[u] = b THEN None ELSE IF fd[u] = a THEN b ELSE fd[u]]
      /\ spoiled' = (spoiled \ {a, b}) \cup (IF a \in spoiled THEN {b} ELSE {})
  BY DEF Rename
<1>2. /\ (DOMAIN disk') = ((DOMAIN disk) \ {a}) \cup {b}
      /\ disk'[b] = disk[a]
      /\ \A m \in (DOMAIN disk) \ {a, b} : disk'[m] = disk[m]
      /\ a \in Names /\ a # None /\ b # None
  BY <1>1, NoneIsNoFile
<1>3. /\ \A u \in Threads : Writes(u, b)' <=> Writes(u, a)
      /\ \A m \in (DOMAIN disk) \ {a, b} : \A u \in Threads : Writes(u, m)' <=> Writes(u, m)
  <2>1. \A u \in Threads : Writes(u, b)' <=> Writes(u, a)
    BY <1>1, <1>2 DEF Writes
  <2>2. \A m \in (DOMAIN disk) \ {a, b} : \A u \in Threads : Writes(u, m)' <=> Writes(u, m)
    BY <1>1, <1>2, NoneIsNoFile DEF Writes
  <2> QED
    BY <2>1, <2>2
<1>4. FilesOK'
  <2>1. spoiled' \subseteq DOMAIN disk'
    BY <1>1, <1>2
  <2>2. /\ fd' \in [Threads -> Names \cup {None}]
        /\ \A u \in Threads : fd'[u] # None => fd'[u] \in DOMAIN disk'
    BY <1>1, <1>2
  <2>3. \A m \in DOMAIN disk' : disk'[m] \in Seq(0 .. MaxVersion) /\ Len(disk'[m]) <= Chunks
    BY <1>2
  <2> QED
    BY <1>2, <2>1, <2>2, <2>3
<1>5. ASSUME NEW m \in DOMAIN disk', NEW o \in DOMAIN disk,
             disk'[m] = disk[o], Due(m) = Due(o),
             \A u \in Threads : Writes(u, m)' <=> Writes(u, o)
      PROVE  Fresh(m)' /\ (Sound(o) => Sound(m)')
  <2>1. \A u \in Threads : Writes(u, m)' =>
            job'[u].from = job[u].from /\ job'[u].at = job[u].at
    BY <1>2, <1>5, NoneIsNoFile DEF Undisturbed, Writes
  <2>2. Due(m)' = Due(m) /\ Fresh(o)
    BY DEF Due
  <2>3. Fresh(m)'
    BY <1>5, <2>1, <2>2 DEF Fresh
  <2>4. ASSUME Sound(o) PROVE Sound(m)'
    <3>1. PICK v \in Versions :
             /\ \A u \in Threads : Writes(u, o) => job[u].from = v
             /\ \A j \in 1 .. Chunks :
                   \/ j \in 1 .. Len(disk[o]) /\ disk[o][j] = v
                   \/ \E u \in Threads : Writes(u, o) /\ job[u].at < j
      BY <2>4 DEF Sound
    <3>2. \A u \in Threads : Writes(u, m)' => job'[u].from = v
      BY <1>5, <2>1, <3>1
    <3>3. ASSUME NEW j \in 1 .. Chunks
          PROVE  \/ j \in 1 .. Len(disk'[m]) /\ disk'[m][j] = v
                 \/ \E u \in Threads : Writes(u, m)' /\ job'[u].at < j
      <4>1. CASE j \in 1 .. Len(disk[o]) /\ disk[o][j] = v
        BY <1>5, <4>1
      <4>2. CASE \E u \in Threads : Writes(u, o) /\ job[u].at < j
        BY <1>5, <2>1, <4>2
      <4> QED
        BY <3>1, <4>1, <4>2
    <3> QED
      BY <3>2, <3>3 DEF Sound
  <2> QED
    BY <2>3, <2>4
<1>6. ASSUME NEW m \in DOMAIN disk' PROVE Fresh(m)' /\ (m \notin spoiled' => Sound(m)')
  <2>1. CASE m = b
    BY <1>1, <1>2, <1>3, <1>5, <2>1
  <2>2. CASE m # b
    <3>1. m \in (DOMAIN disk) \ {a, b} /\ (m \notin spoiled' => m \notin spoiled)
      BY <1>1, <1>2, <2>2
    <3> QED
      BY <1>2, <1>3, <1>5, <3>1
  <2> QED
    BY <2>1, <2>2
<1> QED
  BY <1>4, <1>6

-------------------------------------------------------------------------------
(* The threads.                                                              *)

\* The names of the files differ, and Due is what they say.
LEMMA FileNames ==
    ASSUME NEW p \in Photos, NEW v \in Versions
    PROVE  /\ Thumb(p, v) \in Names /\ ThumbTmp(p, v) \in Names
           /\ Preview(p, v) \in Names /\ PreviewTmp(p, v) \in Names
           /\ HeicTemp(p) \in Names /\ Heic(p) \in Names
           /\ Thumb(p, v) # ThumbTmp(p, v) /\ Preview(p, v) # PreviewTmp(p, v)
           /\ Due(ThumbTmp(p, v)) = IF kind[p] = "heic" THEN 0 ELSE v
           /\ Due(Thumb(p, v)) = Due(ThumbTmp(p, v))
           /\ Due(Preview(p, v)) = 0 /\ Due(PreviewTmp(p, v)) = 0
           /\ Due(HeicTemp(p)) = 0 /\ Due(Heic(p)) = 0
<1>1. /\ Thumb(p, v) \in Names /\ ThumbTmp(p, v) \in Names
      /\ Preview(p, v) \in Names /\ PreviewTmp(p, v) \in Names
      /\ HeicTemp(p) \in Names /\ Heic(p) \in Names
  BY DEF Names
<1>2. Thumb(p, v) # ThumbTmp(p, v) /\ Preview(p, v) # PreviewTmp(p, v)
  BY DEF Thumb, ThumbTmp, Preview, PreviewTmp
<1>3. /\ Due(ThumbTmp(p, v)) = IF kind[p] = "heic" THEN 0 ELSE v
      /\ Due(Thumb(p, v)) = Due(ThumbTmp(p, v))
  BY DEF Due, Thumb, ThumbTmp
<1>4. /\ Due(Preview(p, v)) = 0 /\ Due(PreviewTmp(p, v)) = 0
      /\ Due(HeicTemp(p)) = 0 /\ Due(Heic(p)) = 0
  BY DEF Due, Preview, PreviewTmp, HeicTemp, Heic
<1> QED
  BY <1>1, <1>2, <1>3, <1>4

\* The photos there are.
LEMMA KindType ==
    ASSUME kind \in Libraries
    PROVE  DOMAIN kind \subseteq Photos
BY LibrariesTyped

\* A step of one thread: the others keep their jobs, and no file is opened for
\* them.
Alone(t) ==
    /\ \A u \in Threads \ {t} :
          /\ job'[u] = job[u]
          /\ fd'[u] # None => fd[u] # None
    /\ UNCHANGED <<kind, version>>

LEMMA OneThread ==
    ASSUME ThreadInv, NEW t \in Threads, Alone(t), ThreadOK(t)',
           t \in Workers => WorkerOK(t)'
    PROVE  ThreadInv'
<1>1. \A u \in Threads \ {t} : ThreadOK(u)'
  BY DEF ThreadInv, ThreadOK, Alone
<1>2. \A u \in Workers \ {t} : WorkerOK(u)'
  BY DEF ThreadInv, WorkerOK, Alone, Threads
<1> QED
  BY <1>1, <1>2 DEF ThreadInv

\* What the file operations do to the files of the other threads.
LEMMA OthersFiles ==
    ASSUME FileInv, NEW t \in Threads,
           \/ UNCHANGED files
           \/ \E n \in Names, v \in Versions : Truncate(t, n, v)
           \/ \E done : Append1(t, done)
           \/ \E n \in Names : Remove(n)
           \/ \E a \in DOMAIN disk, b \in Names : a # b /\ Rename(a, b)
           \/ Abandon(t)
    PROVE  \A u \in Threads \ {t} : fd'[u] # None => fd[u] # None
<1> USE DEF FileInv, FilesOK
<1>1. CASE UNCHANGED files
  BY <1>1 DEF files
<1>2. CASE \E n \in Names, v \in Versions : Truncate(t, n, v)
  BY <1>2 DEF Truncate
<1>3. CASE \E done : Append1(t, done)
  BY <1>3 DEF Append1
<1>4. CASE \E n \in Names : Remove(n)
  BY <1>4 DEF Remove
<1>5. CASE \E a \in DOMAIN disk, b \in Names : a # b /\ Rename(a, b)
  <2>1. PICK a \in DOMAIN disk, b \in Names :
           fd' = [u \in Threads |-> IF fd[u] = b THEN None ELSE IF fd[u] = a THEN b ELSE fd[u]]
    BY <1>5 DEF Rename
  <2>2. a # None
    BY NoneIsNoFile
  <2> QED
    BY <2>1, <2>2
<1>6. CASE Abandon(t)
  BY <1>6 DEF Abandon
<1> QED
  BY <1>1, <1>2, <1>3, <1>4, <1>5, <1>6

\* Letting go of files.
LEMMA RemoveStep ==
    ASSUME FileInv, kind' = kind, NEW n \in Names, Remove(n), Undisturbed
    PROVE  FileInv'
<1>1. /\ disk' = Restrict(disk, (DOMAIN disk) \ {n})
      /\ fd' = [u \in Threads |-> IF fd[u] = n THEN None ELSE fd[u]]
      /\ spoiled' = spoiled \ {n}
  BY DEF Remove
<1>2. /\ (DOMAIN disk') = (DOMAIN disk) \ {n}
      /\ \A m \in DOMAIN disk' : disk'[m] = disk[m]
  BY <1>1 DEF Restrict
<1> QED
  BY <1>1, <1>2, ShrinkStep DEF FileInv, FilesOK

LEMMA AbandonStep ==
    ASSUME FileInv, kind' = kind, NEW t \in Threads, Abandon(t), Undisturbed
    PROVE  FileInv'
<1>1. /\ disk' = disk
      /\ fd' = [fd EXCEPT ![t] = None]
      /\ spoiled' = spoiled \cup ({fd[t]} \ {None})
  BY DEF Abandon
<1> QED
  BY <1>1, ShrinkStep DEF FileInv, FilesOK

\* The generation of a thumbnail.
LEMMA GenerateFrame ==
    ASSUME job \in [Threads -> Jobs], NEW t \in Workers, GenerateThumbnail(t)
    PROVE  /\ UNCHANGED <<kind, version, leader>>
           /\ \A u \in Threads \ {t} : job'[u] = job[u]
<1> USE DEF GenerateThumbnail, GetCachedPath, ReadSource, ConvertHeic, ConvertedHeic,
        ConvertHeicFails, DecodeHeic, CreateTmp, WriteTmp, WriteTmpFails, RenameTmp,
        UnlinkTmp, DropHeic, Goto, Append1, Threads
<1>1. UNCHANGED <<kind, version, leader>>
  OBVIOUS
<1>2. \A u \in Threads \ {t} : job'[u] = job[u]
  OBVIOUS
<1> QED
  BY <1>1, <1>2

\* A worker looks for the thumbnail, or reads its photo.
LEMMA ReadStep ==
    ASSUME MediaInv, NEW t \in Workers,
           GetCachedPath(t) \/ ReadSource(t) \/ DecodeHeic(t)
    PROVE  FileInv' /\ ThreadInv' /\ job' \in [Threads -> Jobs]
<1> USE DEF MediaInv
<1>1. /\ UNCHANGED <<kind, version>> /\ UNCHANGED files
      /\ \A u \in Threads \ {t} : job'[u] = job[u]
  BY GenerateFrame DEF GenerateThumbnail, GetCachedPath, ReadSource, DecodeHeic
<1>2. t \in Threads /\ ThreadOK(t) /\ WorkerOK(t) /\ job[t] \in Jobs
  BY DEF Threads, ThreadInv
<1>3. job[t].item \in Photos /\ version[job[t].item] \in Versions /\ fd[t] = None
      /\ job[t].item \in DOMAIN kind /\ job[t].key \in 1 .. version[job[t].item]
  BY <1>2, KindType DEF ThreadOK, WorkerOK, Opening, GetCachedPath, ReadSource,
                        DecodeHeic, At
<1>4. CASE GetCachedPath(t)
  <2>1. PICK there \in {"made", "convert", "create", "read"} :
           /\ job' = [job EXCEPT ![t].pc = there]
           /\ there = "create" => kind[job[t].item] = "video"
           /\ there = "convert" => kind[job[t].item] = "heic"
    BY <1>4 DEF GetCachedPath, Goto
  <2> QED
    BY <1>1, <1>2, <1>3, <2>1, FilesSame, OneThread
       DEF Jobs, ThreadOK, WorkerOK, Opening, Alone, files, Undisturbed
<1>5. CASE ReadSource(t)
  <2>1. \/ job' = [job EXCEPT ![t].pc = "create", ![t].from = version[job[t].item]]
        \/ job' = [job EXCEPT ![t].pc = "failed"]
    BY <1>5 DEF ReadSource, Goto
  <2>2. job' \in [Threads -> Jobs] /\ job'[t].item = job[t].item /\ job'[t].key = job[t].key
        /\ \/ job'[t].pc = "create" /\ job'[t].from = version[job[t].item]
           \/ job'[t].pc = "failed"
    BY <1>2, <1>3, <2>1 DEF Jobs, Versions
  <2>3. ThreadOK(t)' /\ WorkerOK(t)'
    BY <1>1, <1>3, <2>2, MediaBounds DEF ThreadOK, WorkerOK, Opening, files, Versions
  <2>4. Undisturbed
    BY <1>1, <1>3 DEF Undisturbed, files
  <2> QED
    BY <1>1, <1>2, <2>2, <2>3, <2>4, FilesSame, OneThread DEF Alone, files
<1>6. CASE DecodeHeic(t)
  <2> DEFINE n == HeicTemp(job[t].item)
  <2>1. \/ /\ Exists(n) /\ Whole(disk[n])
           /\ job' = [job EXCEPT ![t].pc = "create", ![t].from = disk[n][1]]
        \/ job' = [job EXCEPT ![t].pc = "dropFailed"]
    BY <1>6 DEF DecodeHeic, Goto
  <2>2. Exists(n) /\ Whole(disk[n]) => disk[n][1] \in Versions
    BY MediaBounds DEF FileInv, FilesOK, Exists, Whole, Versions
  <2> HIDE DEF n
  <2>3. job' \in [Threads -> Jobs] /\ job'[t].item = job[t].item /\ job'[t].key = job[t].key
        /\ \/ job'[t].pc = "create" /\ job'[t].from \in Versions
           \/ job'[t].pc = "dropFailed"
    BY <1>2, <1>3, <2>1, <2>2 DEF Jobs, Versions
  <2>4. kind[job[t].item] = "heic"
    BY <1>2, <1>6 DEF WorkerOK, DecodeHeic, At
  <2>5. ThreadOK(t)' /\ WorkerOK(t)'
    BY <1>1, <1>3, <2>3, <2>4, MediaBounds DEF ThreadOK, WorkerOK, Opening, files, Versions
  <2>6. Undisturbed
    BY <1>1, <1>3 DEF Undisturbed, files
  <2> QED
    BY <1>1, <1>2, <2>3, <2>5, <2>6, FilesSame, OneThread DEF Alone, files
<1> QED
  BY <1>4, <1>5, <1>6

\* It writes a file: the temporary JPEG or the thumbnail's temporary file.
LEMMA CreateStep ==
    ASSUME MediaInv, NEW t \in Workers, ConvertHeic(t) \/ CreateTmp(t)
    PROVE  FileInv' /\ ThreadInv' /\ job' \in [Threads -> Jobs]
<1> USE DEF MediaInv
<1>1. /\ UNCHANGED <<kind, version>>
      /\ \A u \in Threads \ {t} : job'[u] = job[u]
  BY GenerateFrame DEF GenerateThumbnail
<1>2. t \in Threads /\ ThreadOK(t) /\ WorkerOK(t) /\ job[t] \in Jobs
  BY DEF Threads, ThreadInv
<1> DEFINE p == job[t].item
           k == job[t].key
<1>3. /\ p \in Photos /\ version[p] \in Versions /\ fd[t] = None
      /\ p \in DOMAIN kind /\ k \in 1 .. version[p] /\ k \in Versions
  <2>1. job[t].pc \notin {"idle", "take"} \cup Opening
    BY DEF ConvertHeic, CreateTmp, At, Opening
  <2>2. p \in DOMAIN kind /\ k \in 1 .. version[p]
    BY <1>2, <2>1 DEF ThreadOK, WorkerOK
  <2>3. p \in Photos /\ version[p] \in Versions
    BY <2>2, KindType
  <2> QED
    BY <1>2, <2>1, <2>2, <2>3, MediaBounds DEF ThreadOK, Versions
<1>4. PICK n \in Names, v \in Versions, there \in {"converting", "write"} :
         /\ Truncate(t, n, v)
         /\ job' = [job EXCEPT ![t].pc = there, ![t].from = v, ![t].at = 0]
         /\ v >= Due(n)
         /\ there = "converting" => kind[p] = "heic"
  <2>1. CASE ConvertHeic(t)
    <3>1. /\ Truncate(t, HeicTemp(p), version[p])
          /\ job' = [job EXCEPT ![t].pc = "converting", ![t].from = version[p], ![t].at = 0]
          /\ kind[p] = "heic"
      BY <1>2, <2>1 DEF ConvertHeic, WorkerOK, At
    <3>2. HeicTemp(p) \in Names /\ version[p] >= Due(HeicTemp(p))
      BY <1>3, FileNames, MediaBounds DEF Versions
    <3> QED
      BY <1>3, <3>1, <3>2
  <2>2. CASE CreateTmp(t)
    <3> DEFINE v == IF kind[p] = "video" THEN version[p] ELSE job[t].from
    <3>1. /\ Truncate(t, ThumbTmp(p, k), v)
          /\ job' = [job EXCEPT ![t].pc = "write", ![t].from = v, ![t].at = 0]
      BY <2>2 DEF CreateTmp
    <3>2. v \in Versions /\ (kind[p] # "heic" => v >= k)
      BY <1>2, <1>3, <2>2, MediaBounds DEF CreateTmp, WorkerOK, At, Versions
    <3>3. v >= Due(ThumbTmp(p, k))
      BY <1>3, <3>2, FileNames, MediaBounds DEF Versions
    <3> QED
      BY <1>3, <3>1, <3>2, <3>3, FileNames
  <2> QED
    BY <2>1, <2>2
<1>5. /\ job' \in [Threads -> Jobs]
      /\ job'[t].from = v /\ job'[t].at = 0 /\ job'[t].pc = there
      /\ job'[t].item = p /\ job'[t].key = k
  <2>1. v \in 0 .. MaxVersion /\ 0 \in 0 .. Chunks
    BY <1>4, MediaBounds DEF Versions
  <2> QED
    BY <1>2, <1>4, <2>1 DEF Jobs
<1>6. FileInv'
  BY <1>1, <1>2, <1>3, <1>4, <1>5, TruncateStep
<1>7. Alone(t)
  BY <1>1, <1>2, <1>4, OthersFiles DEF Alone
<1>8. ThreadOK(t)' /\ WorkerOK(t)'
  BY <1>1, <1>3, <1>4, <1>5, MediaBounds DEF ThreadOK, WorkerOK, Opening
<1> QED
  BY <1>2, <1>5, <1>6, <1>7, <1>8, OneThread

LEMMA WriteStep ==
    ASSUME MediaInv, NEW t \in Workers, ConvertedHeic(t) \/ WriteTmp(t)
    PROVE  FileInv' /\ ThreadInv' /\ job' \in [Threads -> Jobs]
<1> USE DEF MediaInv
<1>1. /\ UNCHANGED <<kind, version>>
      /\ \A u \in Threads \ {t} : job'[u] = job[u]
  BY GenerateFrame DEF GenerateThumbnail
<1>2. t \in Threads /\ ThreadOK(t) /\ WorkerOK(t) /\ job[t] \in Jobs
  BY DEF Threads, ThreadInv
<1>3. PICK done \in {"decode", "rename"} :
         /\ Append1(t, done)
         /\ done = "decode" => At(t, "converting")
         /\ done = "rename" => At(t, "write")
  BY DEF ConvertedHeic, WriteTmp
<1>4. /\ job[t].pc \in {"converting", "write"}
      /\ job[t].at < Chunks /\ job[t].from \in Versions /\ job[t].item \in DOMAIN kind
      /\ job[t].at \in Nat
  BY <1>2, <1>3 DEF ThreadOK, Opening, At, Jobs
<1>5. /\ job' \in [Threads -> Jobs]
      /\ job'[t].from = job[t].from /\ job'[t].item = job[t].item
      /\ job'[t].key = job[t].key
      /\ \/ /\ job'[t].pc = job[t].pc /\ job'[t].at < Chunks
         \/ /\ job'[t].pc = done /\ fd'[t] = None
  <2> DEFINE i == job[t].at + 1
  <2>1. job' = [job EXCEPT ![t].at = IF i = Chunks THEN 0 ELSE i,
                           ![t].pc = IF i = Chunks THEN done ELSE @]
    BY <1>3 DEF Append1
  <2>2. fd' = IF i = Chunks THEN [fd EXCEPT ![t] = None] ELSE fd
    BY <1>3 DEF Append1
  <2>3. i \in 1 .. Chunks
    BY <1>4, MediaBounds
  <2>4. CASE i = Chunks
    <3>1. job' = [job EXCEPT ![t].at = 0, ![t].pc = done] /\ 0 \in 0 .. Chunks
      BY <2>1, <2>4, MediaBounds
    <3>2. fd'[t] = None
      BY <1>2, <2>2, <2>4 DEF FileInv, FilesOK
    <3> QED
      BY <1>2, <3>1, <3>2 DEF Jobs
  <2>5. CASE i # Chunks
    <3>1. i \in 0 .. Chunks /\ i < Chunks
      BY <2>3, <2>5, MediaBounds
    <3> HIDE DEF i
    <3>2. job' = [job EXCEPT ![t].at = i, ![t].pc = @]
      BY <2>1, <2>5
    <3> QED
      BY <1>2, <3>1, <3>2 DEF Jobs
  <2> QED
    BY <2>4, <2>5
<1>6. FileInv'
  BY <1>1, <1>2, <1>3, <1>4, AppendStep
<1>7. Alone(t)
  BY <1>1, <1>2, <1>3, OthersFiles DEF Alone
<1>8. ThreadOK(t)' /\ WorkerOK(t)'
  BY <1>1, <1>2, <1>3, <1>4, <1>5 DEF ThreadOK, WorkerOK, Opening, At
<1> QED
  BY <1>2, <1>5, <1>6, <1>7, <1>8, OneThread

\* It ends: the file is renamed or goes, or is left as it is.
LEMMA RenameTmpStep ==
    ASSUME MediaInv, NEW t \in Workers, RenameTmp(t) \/ UnlinkTmp(t) \/ DropHeic(t)
    PROVE  FileInv' /\ ThreadInv' /\ job' \in [Threads -> Jobs]
<1> USE DEF MediaInv
<1>1. /\ UNCHANGED <<kind, version>>
      /\ \A u \in Threads \ {t} : job'[u] = job[u]
  BY GenerateFrame DEF GenerateThumbnail
<1>2. t \in Threads /\ ThreadOK(t) /\ WorkerOK(t) /\ job[t] \in Jobs
  BY DEF Threads, ThreadInv
<1> DEFINE p == job[t].item
           k == job[t].key
<1>3. /\ p \in Photos /\ fd[t] = None
      /\ p \in DOMAIN kind /\ k \in 1 .. version[p] /\ k \in Versions
  <2>1. job[t].pc \notin {"idle", "take"} \cup Opening
    BY DEF RenameTmp, UnlinkTmp, DropHeic, At, Opening
  <2>2. p \in DOMAIN kind /\ k \in 1 .. version[p]
    BY <1>2, <2>1 DEF ThreadOK, WorkerOK
  <2>3. p \in Photos /\ version[p] \in Versions
    BY <2>2, KindType
  <2> QED
    BY <1>2, <2>1, <2>2, <2>3, MediaBounds DEF ThreadOK, Versions
<1>4. PICK there \in {"dropMade", "made", "dropFailed", "failed", "unlink"} :
         job' = [job EXCEPT ![t].pc = there]
  BY DEF RenameTmp, UnlinkTmp, DropHeic, Ends, Goto
<1>5. /\ job' \in [Threads -> Jobs]
      /\ job'[t].pc = there /\ job'[t].item = p /\ job'[t].key = k
      /\ \A u \in Threads : job'[u].from = job[u].from /\ job'[u].at = job[u].at
  BY <1>2, <1>4 DEF Jobs
<1>6. \/ UNCHANGED files
      \/ \E n \in Names : Remove(n)
      \/ Rename(ThumbTmp(p, k), Thumb(p, k)) /\ Exists(ThumbTmp(p, k))
  BY <1>3, FileNames DEF RenameTmp, UnlinkTmp, DropHeic
<1>7. Undisturbed
  BY <1>5 DEF Undisturbed
<1>8. FileInv' /\ Alone(t)
  <2>1. CASE UNCHANGED files
    BY <1>1, <1>2, <1>7, <2>1, FilesSame, OthersFiles DEF Alone
  <2>2. CASE \E n \in Names : Remove(n)
    BY <1>1, <1>2, <1>7, <2>2, RemoveStep, OthersFiles DEF Alone
  <2>3. CASE Rename(ThumbTmp(p, k), Thumb(p, k)) /\ Exists(ThumbTmp(p, k))
    <3>1. /\ ThumbTmp(p, k) \in DOMAIN disk /\ Thumb(p, k) \in Names
          /\ ThumbTmp(p, k) # Thumb(p, k)
          /\ Due(Thumb(p, k)) = Due(ThumbTmp(p, k))
      BY <1>3, <2>3, FileNames DEF Exists
    <3> QED
      BY <1>1, <1>2, <1>7, <2>3, <3>1, RenameStep, OthersFiles DEF Alone
  <2> QED
    BY <1>6, <2>1, <2>2, <2>3
<1>9. fd'[t] = None
  <2>1. CASE UNCHANGED files
    BY <1>3, <2>1 DEF files
  <2>2. CASE \E n \in Names : Remove(n)
    BY <1>2, <1>3, <2>2 DEF Remove
  <2>3. CASE Rename(ThumbTmp(p, k), Thumb(p, k)) /\ Exists(ThumbTmp(p, k))
    BY <1>2, <1>3, <2>3, FileNames, NoneIsNoFile DEF Rename
  <2> QED
    BY <1>6, <2>1, <2>2, <2>3
<1>10. ThreadOK(t)' /\ WorkerOK(t)'
  BY <1>1, <1>3, <1>4, <1>5, <1>9 DEF ThreadOK, WorkerOK, Opening
<1> QED
  BY <1>2, <1>5, <1>8, <1>10, OneThread

\* It fails.
LEMMA FailStep ==
    ASSUME MediaInv, NEW t \in Workers, ConvertHeicFails(t) \/ WriteTmpFails(t)
    PROVE  FileInv' /\ ThreadInv' /\ job' \in [Threads -> Jobs]
<1> USE DEF MediaInv
<1>1. /\ UNCHANGED <<kind, version>>
      /\ \A u \in Threads \ {t} : job'[u] = job[u]
  BY GenerateFrame DEF GenerateThumbnail
<1>2. t \in Threads /\ ThreadOK(t) /\ WorkerOK(t) /\ job[t] \in Jobs
  BY DEF Threads, ThreadInv
<1> DEFINE p == job[t].item
           k == job[t].key
           n == ThumbTmp(p, k)
<1>3. /\ p \in Photos /\ p \in DOMAIN kind /\ k \in 1 .. version[p] /\ k \in Versions
  <2>1. job[t].pc \notin {"idle", "take"}
    BY DEF ConvertHeicFails, WriteTmpFails, At
  <2>2. p \in DOMAIN kind /\ k \in 1 .. version[p]
    BY <1>2, <2>1 DEF ThreadOK, WorkerOK
  <2>3. p \in Photos /\ version[p] \in Versions
    BY <2>2, KindType
  <2> QED
    BY <1>2, <2>1, <2>2, <2>3, MediaBounds DEF ThreadOK, Versions
<1>4. PICK there \in {"convert", "dropFailed", "failed", "create"} :
         /\ job' = [job EXCEPT ![t].pc = there]
         /\ there = "convert" => kind[p] = "heic"
         /\ there = "create" => kind[p] = "video"
  BY <1>2 DEF ConvertHeicFails, WriteTmpFails, Ends, Goto, WorkerOK, At
<1>5. /\ job' \in [Threads -> Jobs]
      /\ job'[t].pc = there /\ job'[t].item = p /\ job'[t].key = k
      /\ \A u \in Threads : job'[u].from = job[u].from /\ job'[u].at = job[u].at
  BY <1>2, <1>4 DEF Jobs
<1>6. \/ Abandon(t)
      \/ /\ disk' = Restrict(disk, (DOMAIN disk) \ {n})
         /\ fd' = [u \in Threads |-> IF u = t \/ fd[u] = n THEN None ELSE fd[u]]
         /\ spoiled' = (spoiled \cup {fd[t]}) \ {None, n}
  BY DEF ConvertHeicFails, WriteTmpFails
<1>7. Undisturbed
  BY <1>5 DEF Undisturbed
<1>8. FileInv' /\ Alone(t) /\ fd'[t] = None
  <2>1. CASE Abandon(t)
    <3>1. fd'[t] = None
      BY <1>2, <2>1 DEF Abandon, FileInv, FilesOK
    <3> QED
      BY <1>1, <1>2, <1>7, <2>1, <3>1, AbandonStep, OthersFiles DEF Alone
  <2>2. CASE /\ disk' = Restrict(disk, (DOMAIN disk) \ {n})
             /\ fd' = [u \in Threads |-> IF u = t \/ fd[u] = n THEN None ELSE fd[u]]
             /\ spoiled' = (spoiled \cup {fd[t]}) \ {None, n}
    <3> HIDE DEF n
    <3>1. /\ (DOMAIN disk') = (DOMAIN disk) \ {n}
          /\ \A m \in DOMAIN disk' : disk'[m] = disk[m]
      BY <2>2 DEF Restrict
    <3>2. fd'[t] = None /\ \A u \in Threads \ {t} : fd'[u] # None => fd[u] # None
      BY <1>2, <2>2
    <3>3. FileInv'
      BY <1>1, <1>2, <1>7, <2>2, <3>1, NoneIsNoFile, ShrinkStep DEF FileInv, FilesOK
    <3> QED
      BY <1>1, <3>2, <3>3 DEF Alone
  <2> QED
    BY <1>6, <2>1, <2>2
<1>9. ThreadOK(t)' /\ WorkerOK(t)'
  BY <1>1, <1>3, <1>4, <1>5, <1>8 DEF ThreadOK, WorkerOK, Opening
<1> QED
  BY <1>2, <1>5, <1>8, <1>9, OneThread

Flying == {"start", "converting", "serve"}

\* What neither begins nor ends a flight.
LEMMA FlightKept ==
    ASSUME FlightsAreLed, leader' = leader,
           \A r \in Requests :
              /\ At(r, "wait")' => At(r, "wait") /\ job'[r].item = job[r].item
              /\ job'[r].pc \in Flying <=> job[r].pc \in Flying
              /\ job[r].pc \in Flying => job'[r].item = job[r].item
    PROVE  FlightsAreLed'
BY DEF FlightsAreLed, Flying, At

LEMMA GenerateStep ==
    ASSUME MediaInv, NEW t \in Workers, GenerateThumbnail(t),
           disturbances' \in 0 .. MaxDisturbances
    PROVE  MediaInv'
<1>1. FileInv' /\ ThreadInv' /\ job' \in [Threads -> Jobs]
  BY ReadStep, CreateStep, WriteStep, RenameTmpStep, FailStep DEF GenerateThumbnail
<1>2. /\ UNCHANGED <<kind, version, leader>>
      /\ \A u \in Threads \ {t} : job'[u] = job[u]
  BY GenerateFrame DEF MediaInv
<1>3. \A r \in Requests : job'[r] = job[r]
  BY <1>2, ThreadsDiffer DEF Threads
<1>4. FlightsAreLed'
  BY <1>2, <1>3, FlightKept DEF MediaInv, At
<1> QED
  BY <1>1, <1>2, <1>4 DEF MediaInv

-------------------------------------------------------------------------------
(* The requests.                                                             *)

\* A step of a request that keeps the flights, once its files are settled.
LEMMA OneRequest ==
    ASSUME MediaInv, NEW r \in Requests, FileInv',
           \A u \in Threads \ {r} : fd'[u] # None => fd[u] # None,
           UNCHANGED <<kind, version, leader>>,
           disturbances' \in 0 .. MaxDisturbances,
           \E j \in Jobs :
              /\ job' = [job EXCEPT ![r] = j]
              /\ j.pc \notin {"idle", "take"} => j.item \in DOMAIN kind
              /\ fd'[r] # None => j.pc \in Opening
              /\ j.pc \in Opening => j.at < Chunks
              /\ j.pc \in Opening \cup {"cache"} => j.from \in Versions
              /\ j.pc \in {"store", "publish"} => j.key \in Versions
              /\ j.pc # "wait"
              /\ j.pc \in Flying <=> job[r].pc \in Flying
              /\ job[r].pc \in Flying => j.item = job[r].item
    PROVE  MediaInv'
<1> USE DEF MediaInv
<1>1. PICK j \in Jobs :
         /\ job' = [job EXCEPT ![r] = j]
         /\ j.pc \notin {"idle", "take"} => j.item \in DOMAIN kind
         /\ fd'[r] # None => j.pc \in Opening
         /\ j.pc \in Opening => j.at < Chunks
         /\ j.pc \in Opening \cup {"cache"} => j.from \in Versions
         /\ j.pc \in {"store", "publish"} => j.key \in Versions
         /\ j.pc # "wait"
         /\ j.pc \in Flying <=> job[r].pc \in Flying
         /\ job[r].pc \in Flying => j.item = job[r].item
  OBVIOUS
<1>2. /\ job' \in [Threads -> Jobs] /\ job'[r] = j
      /\ \A u \in Threads \ {r} : job'[u] = job[u]
      /\ r \in Threads /\ r \notin Workers
  BY <1>1, ThreadsDiffer DEF Threads
<1>3. ThreadOK(r)'
  BY <1>1, <1>2 DEF ThreadOK
<1>4. ThreadInv'
  BY <1>2, <1>3, OneThread DEF Alone
<1>5. FlightsAreLed'
  <2>1. \A q \in Requests :
           /\ At(q, "wait")' => At(q, "wait") /\ job'[q].item = job[q].item
           /\ job'[q].pc \in Flying <=> job[q].pc \in Flying
           /\ job[q].pc \in Flying => job'[q].item = job[q].item
    BY <1>1, <1>2 DEF At, Threads
  <2> QED
    BY <2>1, FlightKept
<1> QED
  BY <1>2, <1>4, <1>5

LEMMA IdleJob == Idle \in Jobs /\ Idle.pc = "idle"
BY MediaBounds DEF Idle, Jobs

\* The values a job's fields are given.
LEMMA FieldTypes ==
    /\ 0 \in 0 .. Chunks
    /\ \A v \in Versions : v \in 0 .. MaxVersion /\ v >= 0
BY MediaBounds DEF Versions

LEMMA CountType ==
    ASSUME disturbances \in 0 .. MaxDisturbances, Calm \/ Disturb
    PROVE  disturbances' \in 0 .. MaxDisturbances
BY MediaBounds DEF Calm, Disturb

\* The slot, the preview that is there or is made in memory, and the stat.
LEMMA LookupStep ==
    ASSUME MediaInv, NEW r \in Requests,
           \/ \E p \in DOMAIN kind : Request(r, p)
           \/ AcquireSlot(r) \/ GetCachedPreview(r) \/ ExtractPreview(r) \/ StatHeic(r)
    PROVE  MediaInv'
<1> USE DEF MediaInv
<1>1. /\ UNCHANGED <<kind, version, leader>> /\ UNCHANGED files
      /\ disturbances' \in 0 .. MaxDisturbances
  <2>1. UNCHANGED <<kind, version, leader>> /\ UNCHANGED files
    BY DEF Request, AcquireSlot, GetCachedPreview, ExtractPreview, StatHeic
  <2>2. Calm \/ Disturb
    BY DEF Request, AcquireSlot, GetCachedPreview, ExtractPreview, StatHeic
  <2> QED
    BY <2>1, <2>2, CountType
<1>2. r \in Threads /\ ThreadOK(r) /\ job[r] \in Jobs
  BY DEF Threads, ThreadInv
<1>3. job[r].pc \in {"idle", "queued", "lookup", "extract", "stat"}
  BY DEF Request, AcquireSlot, GetCachedPreview, ExtractPreview, StatHeic, At
<1>4. fd[r] = None
  BY <1>2, <1>3 DEF ThreadOK, Opening
<1>5. \E j \in Jobs :
         /\ job' = [job EXCEPT ![r] = j]
         /\ j.pc \in {"idle", "queued", "lookup", "stat", "extract", "cache", "join"}
         /\ j.pc # "idle" => j.item \in DOMAIN kind
         /\ j.pc = "cache" => j.from \in Versions
  <2>1. CASE \E p \in DOMAIN kind : Request(r, p)
    <3>1. PICK p \in DOMAIN kind : job' = [job EXCEPT ![r].pc = "queued", ![r].item = p]
      BY <2>1 DEF Request
    <3> DEFINE j == [job[r] EXCEPT !.pc = "queued", !.item = p]
    <3>2. j \in Jobs /\ job' = [job EXCEPT ![r] = j] /\ j.pc = "queued" /\ j.item = p
      BY <1>2, <3>1, KindType DEF Jobs
    <3> QED
      BY <3>2
  <2>2. CASE AcquireSlot(r) \/ GetCachedPreview(r) \/ StatHeic(r)
    <3>1. \/ job' = [job EXCEPT ![r] = Idle]
          \/ \E there \in {"lookup", "stat", "extract", "join"} :
                job' = [job EXCEPT ![r].pc = there]
      BY <2>2 DEF AcquireSlot, GetCachedPreview, StatHeic, Return, Goto
    <3>2. job[r].item \in DOMAIN kind
      BY <1>2, <2>2 DEF AcquireSlot, GetCachedPreview, StatHeic, At, ThreadOK
    <3>3. ASSUME NEW there \in {"lookup", "stat", "extract", "join"},
                 job' = [job EXCEPT ![r].pc = there]
          PROVE  LET j == [job[r] EXCEPT !.pc = there]
                 IN j \in Jobs /\ job' = [job EXCEPT ![r] = j] /\ j.pc = there
                    /\ j.item = job[r].item
      BY <1>2, <3>3 DEF Jobs
    <3> QED
      BY <3>1, <3>2, <3>3, IdleJob
  <2>3. CASE ExtractPreview(r)
    <3>1. \/ job' = [job EXCEPT ![r].pc = "cache", ![r].from = version[job[r].item]]
          \/ job' = [job EXCEPT ![r] = Idle]
      BY <2>3 DEF ExtractPreview, Return
    <3>2. job[r].item \in DOMAIN kind /\ version[job[r].item] \in Versions
      BY <1>2, <2>3, KindType DEF ExtractPreview, At, ThreadOK
    <3> DEFINE j == [job[r] EXCEPT !.pc = "cache", !.from = version[job[r].item]]
    <3>3. j \in Jobs /\ j.pc = "cache" /\ j.item = job[r].item /\ j.from \in Versions
      <4>1. version[job[r].item] \in 0 .. MaxVersion
        BY <3>2, FieldTypes
      <4> QED
        BY <1>2, <3>2, <4>1 DEF Jobs
    <3>4. [job EXCEPT ![r].pc = "cache", ![r].from = version[job[r].item]]
            = [job EXCEPT ![r] = j]
      BY <1>2
    <3> HIDE DEF j
    <3> QED
      BY <3>1, <3>2, <3>3, <3>4, IdleJob
  <2> QED
    BY <2>1, <2>2, <2>3
<1>6. Undisturbed
  <2>1. \A u \in Threads \ {r} : job'[u] = job[u]
    BY <1>5
  <2> QED
    BY <1>1, <1>4, <2>1 DEF Undisturbed, files
<1>7. FileInv'
  BY <1>1, <1>6, FilesSame
<1> QED
  BY <1>1, <1>3, <1>4, <1>5, <1>7, OneRequest DEF files, Opening, Flying

\* A request writes a preview or a conversion.
LEMMA ConvertStep ==
    ASSUME MediaInv, NEW r \in Requests, CachePreview(r) \/ StartConversion(r)
    PROVE  MediaInv'
<1> USE DEF MediaInv
<1>1. /\ UNCHANGED <<kind, version, leader, disturbances>>
  BY DEF CachePreview, StartConversion, Calm
<1>2. r \in Threads /\ ThreadOK(r) /\ job[r] \in Jobs
  BY DEF Threads, ThreadInv
<1> DEFINE p == job[r].item
<1>3. /\ p \in DOMAIN kind /\ p \in Photos /\ version[p] \in Versions /\ fd[r] = None
      /\ job[r].pc = "cache" => job[r].from \in Versions
  BY <1>2, KindType DEF ThreadOK, Opening, CachePreview, StartConversion, At
<1>4. PICK n \in Names, v \in Versions, j \in Jobs :
         /\ Truncate(r, n, v) /\ Due(n) = 0
         /\ job' = [job EXCEPT ![r] = j]
         /\ j.item = p /\ j.at = 0 /\ j.from = v
         /\ \/ j.pc = "store" /\ j.key \in Versions /\ job[r].pc = "cache"
            \/ j.pc = "converting" /\ job[r].pc = "start"
  <2>1. CASE CachePreview(r)
    <3> DEFINE j == [job[r] EXCEPT !.pc = "store", !.key = version[p], !.at = 0]
    <3>1. /\ Truncate(r, PreviewTmp(p, version[p]), job[r].from) /\ job[r].pc = "cache"
          /\ job' = [job EXCEPT ![r] = j]
      BY <1>2, <2>1 DEF CachePreview, At
    <3>2. /\ j \in Jobs /\ j.item = p /\ j.at = 0 /\ j.from = job[r].from
          /\ j.pc = "store" /\ j.key = version[p]
      <4>1. version[p] \in 0 .. MaxVersion /\ 0 \in 0 .. Chunks
        BY <1>3, FieldTypes
      <4> QED
        BY <1>2, <1>3, <4>1 DEF Jobs
    <3>3. PreviewTmp(p, version[p]) \in Names /\ Due(PreviewTmp(p, version[p])) = 0
      BY <1>3, FileNames
    <3>4. job[r].from \in Versions
      BY <1>3, <3>1
    <3> HIDE DEF j, p
    <3> QED
      BY <1>3, <3>1, <3>2, <3>3, <3>4
  <2>2. CASE StartConversion(r)
    <3> DEFINE v == version[p]
               j == [job[r] EXCEPT !.pc = "converting", !.from = v, !.at = 0]
    <3>1. /\ Truncate(r, Heic(p), v) /\ job[r].pc = "start"
          /\ job' = [job EXCEPT ![r] = j]
      BY <1>2, <2>2 DEF StartConversion, At
    <3>2. /\ j \in Jobs /\ j.item = p /\ j.at = 0 /\ j.from = v /\ j.pc = "converting"
      <4>1. v \in 0 .. MaxVersion /\ 0 \in 0 .. Chunks
        BY <1>3, FieldTypes
      <4> QED
        BY <1>2, <1>3, <4>1 DEF Jobs
    <3>3. Heic(p) \in Names /\ Due(Heic(p)) = 0
      BY <1>3, FileNames
    <3> HIDE DEF j, p
    <3> QED
      BY <1>3, <3>1, <3>2, <3>3
  <2> QED
    BY <2>1, <2>2
<1>5. /\ job'[r].from = v /\ job'[r].at = 0
      /\ \A u \in Threads \ {r} : job'[u] = job[u]
  BY <1>2, <1>4
<1>6. FileInv'
  <2>1. v >= Due(n)
    BY <1>4, MediaBounds DEF Versions
  <2> QED
    BY <1>1, <1>2, <1>3, <1>4, <1>5, <2>1, TruncateStep
<1>7. \A u \in Threads \ {r} : fd'[u] # None => fd[u] # None
  BY <1>2, <1>4, OthersFiles
<1>8. j.at < Chunks /\ j.from \in Versions
  BY <1>4, MediaBounds
<1> QED
  BY <1>1, <1>3, <1>4, <1>6, <1>7, <1>8, OneRequest DEF Opening, Flying

LEMMA StoreStep ==
    ASSUME MediaInv, NEW r \in Requests, StorePreview(r) \/ Conversion(r)
    PROVE  MediaInv'
<1> USE DEF MediaInv
<1>1. /\ UNCHANGED <<kind, version, leader, disturbances>>
  BY DEF StorePreview, Conversion, Calm
<1>2. r \in Threads /\ ThreadOK(r) /\ job[r] \in Jobs
  BY DEF Threads, ThreadInv
<1>3. PICK done \in {"publish", "serve"} :
         /\ Append1(r, done)
         /\ done = "publish" => job[r].pc = "store"
         /\ done = "serve" => job[r].pc = "converting"
  BY DEF StorePreview, Conversion, At
<1>4. /\ job[r].at < Chunks /\ job[r].from \in Versions /\ job[r].item \in DOMAIN kind
      /\ job[r].at \in Nat /\ (done = "publish" => job[r].key \in Versions)
  BY <1>2, <1>3 DEF ThreadOK, Opening, Jobs
<1>5. \E j \in Jobs :
         /\ job' = [job EXCEPT ![r] = j]
         /\ j.from = job[r].from /\ j.item = job[r].item /\ j.key = job[r].key
         /\ \/ j.pc = job[r].pc /\ j.at < Chunks
            \/ j.pc = done /\ fd'[r] = None
  <2> DEFINE i == job[r].at + 1
  <2>1. job' = [job EXCEPT ![r].at = IF i = Chunks THEN 0 ELSE i,
                           ![r].pc = IF i = Chunks THEN done ELSE @]
    BY <1>3 DEF Append1
  <2>2. fd' = IF i = Chunks THEN [fd EXCEPT ![r] = None] ELSE fd
    BY <1>3 DEF Append1
  <2>3. i \in 1 .. Chunks
    BY <1>4, MediaBounds
  <2>4. CASE i = Chunks
    <3> DEFINE j == [job[r] EXCEPT !.at = 0, !.pc = done]
    <3>1. fd'[r] = None
      BY <1>2, <2>2, <2>4 DEF FileInv, FilesOK
    <3>2. /\ j \in Jobs /\ j.pc = done
          /\ j.from = job[r].from /\ j.item = job[r].item /\ j.key = job[r].key
      BY <1>2, FieldTypes DEF Jobs
    <3>3. job' = [job EXCEPT ![r] = j]
      BY <1>2, <2>1, <2>4
    <3> HIDE DEF j
    <3> QED
      BY <3>1, <3>2, <3>3
  <2>5. CASE i # Chunks
    <3> DEFINE j == [job[r] EXCEPT !.at = i]
    <3>1. i \in 0 .. Chunks /\ i < Chunks
      BY <2>3, <2>5, MediaBounds
    <3> HIDE DEF i
    <3>2. /\ j \in Jobs /\ job' = [job EXCEPT ![r] = j] /\ j.pc = job[r].pc /\ j.at = i
          /\ j.from = job[r].from /\ j.item = job[r].item /\ j.key = job[r].key
      BY <1>2, <2>1, <2>5, <3>1 DEF Jobs
    <3> HIDE DEF j
    <3> QED
      BY <3>1, <3>2
  <2> QED
    BY <2>4, <2>5
<1>6. FileInv'
  BY <1>1, <1>2, <1>3, <1>4, AppendStep
<1>7. \A u \in Threads \ {r} : fd'[u] # None => fd[u] # None
  BY <1>2, <1>3, OthersFiles
<1> QED
  BY <1>1, <1>2, <1>3, <1>4, <1>5, <1>6, <1>7, OneRequest DEF Opening, Flying

\* It ends: the preview is renamed, or something fails.
LEMMA PublishStep ==
    ASSUME MediaInv, NEW r \in Requests,
           StorePreviewFails(r) \/ PublishPreview(r) \/ ConversionFails(r)
    PROVE  MediaInv'
<1> USE DEF MediaInv
<1>1. /\ UNCHANGED <<kind, version, leader>>
      /\ disturbances' \in 0 .. MaxDisturbances
  <2>1. UNCHANGED <<kind, version, leader>> /\ (Calm \/ Disturb)
    BY DEF StorePreviewFails, PublishPreview, ConversionFails
  <2> QED
    BY <2>1, CountType
<1>2. r \in Threads /\ ThreadOK(r) /\ job[r] \in Jobs
  BY DEF Threads, ThreadInv
<1> DEFINE p == job[r].item
           k == job[r].key
<1>3. /\ job[r].pc \in {"store", "publish", "converting"}
      /\ job[r].pc = "publish" => fd[r] = None
  BY <1>2 DEF StorePreviewFails, PublishPreview, ConversionFails, At, ThreadOK, Opening
<1>4. p \in DOMAIN kind /\ p \in Photos /\ (job[r].pc \in {"store", "publish"} => k \in Versions)
  BY <1>2, <1>3, KindType DEF ThreadOK
<1>5. \E j \in Jobs :
         /\ job' = [job EXCEPT ![r] = j]
         /\ \/ j.pc = "idle" /\ job[r].pc \in {"store", "publish"}
            \/ j.pc \in {"start", "serve"} /\ job[r].pc = "converting" /\ j.item = p
  <2>1. CASE StorePreviewFails(r) \/ PublishPreview(r)
    BY <2>1, IdleJob DEF StorePreviewFails, PublishPreview, Return, At
  <2>2. CASE ConversionFails(r)
    <3>1. PICK there \in {"start", "serve"} : job' = [job EXCEPT ![r].pc = there]
      BY <2>2 DEF ConversionFails, Goto
    <3>2. LET j == [job[r] EXCEPT !.pc = there]
          IN j \in Jobs /\ job' = [job EXCEPT ![r] = j] /\ j.pc = there /\ j.item = p
      BY <1>2, <3>1 DEF Jobs
    <3> QED
      BY <2>2, <3>2 DEF ConversionFails, At
  <2> QED
    BY <2>1, <2>2
<1>6. \/ Abandon(r)
      \/ job[r].pc = "publish" /\ UNCHANGED files
      \/ /\ job[r].pc = "publish" /\ Exists(PreviewTmp(p, k))
         /\ Rename(PreviewTmp(p, k), Preview(p, k))
      \/ job[r].pc = "converting" /\ Remove(fd[r])
  BY DEF StorePreviewFails, PublishPreview, ConversionFails, At
<1>7. \A u \in Threads \ {r} : job'[u] = job[u]
  BY <1>5
<1>8. /\ FileInv' /\ fd'[r] = None
      /\ \A u \in Threads \ {r} : fd'[u] # None => fd[u] # None
  <2>1. CASE Abandon(r)
    <3>1. fd'[r] = None
      BY <1>2, <2>1 DEF Abandon, FileInv, FilesOK
    <3>2. Undisturbed
      BY <1>7, <3>1 DEF Undisturbed
    <3> QED
      BY <1>1, <1>2, <2>1, <3>1, <3>2, AbandonStep, OthersFiles
  <2>2. CASE job[r].pc = "publish" /\ UNCHANGED files
    <3>1. fd'[r] = None
      BY <1>3, <2>2 DEF files
    <3>2. Undisturbed
      BY <1>7, <3>1 DEF Undisturbed
    <3> QED
      BY <1>1, <1>2, <2>2, <3>1, <3>2, FilesSame, OthersFiles
  <2>3. CASE /\ job[r].pc = "publish" /\ Exists(PreviewTmp(p, k))
             /\ Rename(PreviewTmp(p, k), Preview(p, k))
    <3>1. /\ PreviewTmp(p, k) \in DOMAIN disk /\ Preview(p, k) \in Names
          /\ PreviewTmp(p, k) # Preview(p, k)
          /\ Due(Preview(p, k)) = Due(PreviewTmp(p, k))
      BY <1>4, <2>3, FileNames DEF Exists
    <3>2. fd'[r] = None
      BY <1>2, <1>3, <1>4, <2>3, FileNames, NoneIsNoFile DEF Rename
    <3>3. Undisturbed
      BY <1>7, <3>2 DEF Undisturbed
    <3> QED
      BY <1>1, <1>2, <2>3, <3>1, <3>2, <3>3, RenameStep, OthersFiles
  <2>4. CASE job[r].pc = "converting" /\ Remove(fd[r])
    <3>1. fd'[r] = None
      BY <1>2, <2>4 DEF Remove
    <3>2. Undisturbed
      BY <1>7, <3>1 DEF Undisturbed
    <3>3. CASE fd[r] \in Names
      BY <1>1, <1>2, <2>4, <3>1, <3>2, <3>3, RemoveStep, OthersFiles
    <3>4. CASE fd[r] \notin Names
      <4>1. fd[r] = None /\ None \notin DOMAIN disk
        BY <1>2, <3>4, NoneIsNoFile DEF FileInv, FilesOK
      <4>2. /\ disk' = Restrict(disk, (DOMAIN disk) \ {None})
            /\ fd' = [u \in Threads |-> IF fd[u] = None THEN None ELSE fd[u]]
            /\ spoiled' = spoiled \ {None}
        BY <2>4, <4>1 DEF Remove
      <4>3. (DOMAIN disk') = DOMAIN disk /\ \A n \in DOMAIN disk : disk'[n] = disk[n]
        BY <4>1, <4>2 DEF Restrict
      <4>4. \A u \in Threads : fd'[u] = fd[u]
        BY <4>2
      <4>5. fd' \in [Threads -> Names \cup {None}]
        BY <4>2 DEF FileInv, FilesOK
      <4>6. FileInv'
        BY <1>1, <3>2, <4>1, <4>2, <4>3, <4>4, <4>5, ShrinkStep DEF FileInv, FilesOK
      <4> QED
        BY <3>1, <4>4, <4>6
    <3> QED
      BY <3>3, <3>4
  <2> QED
    BY <1>6, <2>1, <2>2, <2>3, <2>4
<1> QED
  BY <1>1, <1>3, <1>4, <1>5, <1>8, OneRequest DEF Opening, Flying

\* A request makes itself the leader of the flight, or waits for the one there is.
LEMMA JoinStep ==
    ASSUME MediaInv, NEW r \in Requests, JoinFlight(r)
    PROVE  MediaInv'
<1> USE DEF MediaInv
<1> DEFINE p == job[r].item
<1>1. /\ UNCHANGED <<kind, version, disturbances>> /\ UNCHANGED files
      /\ job[r].pc = "join"
  BY DEF JoinFlight, Calm, At
<1>2. r \in Threads /\ r \notin Workers /\ ThreadOK(r) /\ job[r] \in Jobs /\ r # None
  BY ThreadsDiffer, NoneIsNone DEF Threads, ThreadInv
<1>3. p \in DOMAIN kind /\ p \in Photos /\ fd[r] = None
  BY <1>1, <1>2, KindType DEF ThreadOK, Opening
<1>4. PICK there \in {"start", "wait"} :
         /\ job' = [job EXCEPT ![r].pc = there]
         /\ there = "start" => leader[p] = None /\ leader' = [leader EXCEPT ![p] = r]
         /\ there = "wait" => leader[p] # None /\ leader' = leader
  BY DEF JoinFlight, Goto
<1>5. /\ job' \in [Threads -> Jobs]
      /\ job'[r].pc = there /\ job'[r].item = p
      /\ \A u \in Threads \ {r} : job'[u] = job[u]
  BY <1>2, <1>4 DEF Jobs
<1>6. FileInv' /\ ThreadInv' /\ leader' \in [Photos -> Requests \cup {None}]
  <2>1. Undisturbed /\ fd' = fd
    BY <1>1, <1>3, <1>5 DEF Undisturbed, files
  <2>2. ThreadOK(r)'
    BY <1>1, <1>3, <1>4, <1>5, <2>1 DEF ThreadOK, Opening
  <2>3. Alone(r)
    BY <1>1, <1>5, <2>1 DEF Alone
  <2>4. leader' \in [Photos -> Requests \cup {None}]
    BY <1>4
  <2> QED
    BY <1>1, <1>2, <2>1, <2>2, <2>3, <2>4, FilesSame, OneThread
<1>7. ASSUME NEW q \in Requests
      PROVE  /\ At(q, "wait")' => leader'[job'[q].item] # None
             /\ job'[q].pc \in Flying => leader'[job'[q].item] = q
             /\ \A x \in Photos : leader'[x] = q =>
                    job'[q].item = x /\ job'[q].pc \in Flying
  <2>1. /\ At(q, "wait") => leader[job[q].item] # None
        /\ job[q].pc \in Flying => leader[job[q].item] = q
        /\ \A x \in Photos : leader[x] = q => job[q].item = x /\ job[q].pc \in Flying
    BY DEF FlightsAreLed, Flying
  <2>2. q \in Threads /\ q # None /\ ThreadOK(q)
    BY NoneIsNone DEF Threads, ThreadInv
  <2>3. q # r => job'[q] = job[q]
    BY <1>5, <2>2
  <2>4. (At(q, "wait") \/ job[q].pc \in Flying) => job[q].item \in Photos
    BY <2>2, KindType DEF ThreadOK, At, Flying
  <2>5. \A x \in Photos : leader'[x] = IF there = "start" /\ x = p THEN r ELSE leader[x]
    BY <1>3, <1>4
  <2>6. CASE q = r
    BY <1>1, <1>3, <1>4, <1>5, <2>1, <2>5, <2>6, <1>2 DEF At, Flying
  <2>7. CASE q # r
    BY <1>2, <1>4, <2>1, <2>2, <2>3, <2>4, <2>5, <2>7 DEF At
  <2> QED
    BY <2>6, <2>7
<1>8. FlightsAreLed'
  BY <1>7 DEF FlightsAreLed, Flying
<1> QED
  BY <1>1, <1>5, <1>6, <1>8

\* The leader's flight ends, and all who wait for it are served.
LEMMA EndStep ==
    ASSUME MediaInv, NEW r \in Requests, EndFlight(r)
    PROVE  MediaInv'
<1> USE DEF MediaInv
<1> DEFINE p == job[r].item
           Served(u) == u = r \/ (job[u].pc = "wait" /\ job[u].item = p)
<1>1. /\ UNCHANGED <<kind, version, disturbances>> /\ UNCHANGED files
      /\ job[r].pc = "serve"
      /\ job' = [u \in Threads |-> IF Served(u) THEN Idle ELSE job[u]]
      /\ leader' = [leader EXCEPT ![p] = None]
  BY DEF EndFlight, Calm, At
<1>2. r \in Threads /\ ThreadOK(r)
  BY DEF Threads, ThreadInv
<1>3. p \in Photos /\ leader[p] = r
  BY <1>1, <1>2, KindType DEF ThreadOK, FlightsAreLed
<1>4. \A u \in Threads : /\ Served(u) => job'[u] = Idle
                         /\ ~Served(u) => job'[u] = job[u]
  BY <1>1
<1>5. job' \in [Threads -> Jobs] /\ leader' \in [Photos -> Requests \cup {None}]
  BY <1>1, IdleJob
<1>6. fd' = fd /\ \A u \in Threads : Served(u) => fd[u] = None
  BY <1>1, <1>2 DEF files, ThreadInv, ThreadOK, Opening
<1> HIDE DEF Served
<1>7. FileInv'
  <2>1. Undisturbed
    BY <1>4, <1>6 DEF Undisturbed
  <2> QED
    BY <1>1, <2>1, FilesSame
<1>8. ThreadInv'
  <2>1. \A u \in Threads : ThreadOK(u)'
    BY <1>1, <1>4, <1>6, IdleJob DEF ThreadInv, ThreadOK, Opening
  <2>2. \A u \in Workers : WorkerOK(u)'
    BY <1>1, <1>4, IdleJob DEF ThreadInv, WorkerOK, Threads
  <2> QED
    BY <2>1, <2>2 DEF ThreadInv
<1>9. ASSUME NEW q \in Requests
      PROVE  /\ At(q, "wait")' => leader'[job'[q].item] # None
             /\ job'[q].pc \in Flying => leader'[job'[q].item] = q
             /\ \A x \in Photos : leader'[x] = q =>
                    job'[q].item = x /\ job'[q].pc \in Flying
  <2>1. /\ At(q, "wait") => leader[job[q].item] # None
        /\ job[q].pc \in Flying => leader[job[q].item] = q
        /\ \A x \in Photos : leader[x] = q => job[q].item = x /\ job[q].pc \in Flying
    BY DEF FlightsAreLed, Flying
  <2>2. q \in Threads /\ q # None /\ ThreadOK(q)
    BY NoneIsNone DEF Threads, ThreadInv
  <2>3. (At(q, "wait") \/ job[q].pc \in Flying) => job[q].item \in Photos
    BY <2>2, KindType DEF ThreadOK, At, Flying
  <2>4. \A x \in Photos : leader'[x] = IF x = p THEN None ELSE leader[x]
    BY <1>1
  <2>5. CASE Served(q)
    <3>1. job'[q].pc = "idle"
      BY <1>4, <2>2, <2>5, IdleJob
    <3>2. \A x \in Photos : leader'[x] # q
      BY <1>3, <2>1, <2>2, <2>4, <2>5 DEF Served, Flying
    <3> QED
      BY <3>1, <3>2 DEF At, Flying
  <2>6. CASE ~Served(q)
    <3>1. job'[q] = job[q] /\ q # r
      BY <1>4, <2>2, <2>6 DEF Served
    <3>2. At(q, "wait") => job[q].item # p
      BY <2>6 DEF Served, At
    <3> QED
      BY <1>3, <2>1, <2>2, <2>3, <2>4, <3>1, <3>2 DEF At
  <2> QED
    BY <2>5, <2>6
<1>10. FlightsAreLed'
  BY <1>9 DEF FlightsAreLed, Flying
<1> QED
  BY <1>1, <1>5, <1>7, <1>8, <1>10

LEMMA ServeStep ==
    ASSUME MediaInv, NEW r \in Requests, ServeHTTP(r)
    PROVE  MediaInv'
BY LookupStep, ConvertStep, StoreStep, PublishStep, JoinStep, EndStep DEF ServeHTTP

-------------------------------------------------------------------------------
(* All threads at once.                                                      *)

\* A photo is written to.
LEMMA EditStep ==
    ASSUME MediaInv, NEW p \in Photos, Edit(p)
    PROVE  MediaInv' /\ \A q \in Photos : version[q] <= version'[q]
<1> USE DEF MediaInv
<1>1. /\ UNCHANGED <<kind, job, leader>> /\ UNCHANGED files
      /\ version' = [version EXCEPT ![p] = @ + 1]
      /\ version[p] < MaxVersion
      /\ disturbances' \in 0 .. MaxDisturbances
  BY CountType DEF Edit
<1>2. /\ version' \in [Photos -> Versions]
      /\ \A q \in Photos : version[q] <= version'[q]
      /\ \A q \in Photos : version[q] \in Nat /\ version'[q] \in Nat
  <2>1. version[p] + 1 \in Versions /\ \A q \in Photos : version[q] \in Nat
    BY <1>1, MediaBounds DEF Versions
  <2> QED
    BY <1>1, <2>1, MediaBounds DEF Versions
<1>3. FileInv'
  BY <1>1, FilesSame DEF Undisturbed
<1>4. \A t \in Threads : ThreadOK(t)'
  BY <1>1 DEF ThreadInv, ThreadOK, files
<1>5. ASSUME NEW t \in Workers PROVE WorkerOK(t)'
  <2>1. t \in Threads /\ WorkerOK(t) /\ ThreadOK(t)
    BY DEF ThreadInv, Threads
  <2>2. job[t].pc \notin {"idle", "take"} =>
           job[t].item \in Photos /\ job[t].key \in 1 .. version'[job[t].item]
    BY <1>2, <2>1, KindType DEF WorkerOK, ThreadOK
  <2> QED
    BY <1>1, <2>1, <2>2 DEF WorkerOK
<1>6. FlightsAreLed'
  BY <1>1 DEF FlightsAreLed, At
<1> QED
  BY <1>1, <1>2, <1>3, <1>4, <1>5, <1>6 DEF ThreadInv

\* The machine stops: what was being written is spoiled.
LEMMA CrashStep ==
    ASSUME MediaInv, MediaCrash
    PROVE  MediaInv'
<1> USE DEF MediaInv
<1>1. /\ UNCHANGED <<kind, version, disk>>
      /\ spoiled' = spoiled \cup ({fd[t] : t \in Threads} \ {None})
      /\ fd' = [t \in Threads |-> None]
      /\ job' = [t \in Threads |-> Idle]
      /\ leader' = [p \in Photos |-> None]
      /\ disturbances' \in 0 .. MaxDisturbances
  BY CountType DEF MediaCrash
<1>2. FileInv'
  <2>1. Undisturbed
    BY <1>1 DEF Undisturbed
  <2>2. spoiled' \subseteq DOMAIN disk'
    BY <1>1 DEF FileInv, FilesOK
  <2> QED
    BY <1>1, <2>1, <2>2, ShrinkStep
<1>3. ThreadInv'
  BY <1>1, IdleJob DEF ThreadInv, ThreadOK, WorkerOK, Opening, Threads
<1>4. FlightsAreLed'
  BY <1>1, IdleJob, NoneIsNone DEF FlightsAreLed, At, Threads
<1> QED
  BY <1>1, <1>2, <1>3, <1>4, IdleJob

\* Workers without an open file are given another job.
LEMMA TakenStep ==
    ASSUME MediaInv, UNCHANGED <<disturbances, kind, version, leader>>, UNCHANGED files,
           job' \in [Threads -> Jobs],
           \A u \in Threads : \/ job'[u] = job[u]
                              \/ u \in Workers /\ fd[u] = None /\ ThreadOK(u)' /\ WorkerOK(u)'
    PROVE  MediaInv'
<1> USE DEF MediaInv
<1>1. Undisturbed
  BY DEF Undisturbed, files
<1>2. FileInv'
  BY <1>1, FilesSame
<1>3. ThreadInv'
  BY DEF ThreadInv, ThreadOK, WorkerOK, files, Threads
<1>4. \A r \in Requests : job'[r] = job[r]
  BY ThreadsDiffer DEF Threads
<1>5. FlightsAreLed'
  BY <1>4, FlightKept DEF At
<1> QED
  BY <1>2, <1>3, <1>5

\* Nothing happens to the caches and their threads but a failure elsewhere.
LEMMA MediaSame ==
    ASSUME MediaInv, UNCHANGED <<kind, version, files, job, leader>>,
           disturbances' \in 0 .. MaxDisturbances
    PROVE  MediaInv'
<1> USE DEF MediaInv
<1>1. FileInv'
  BY FilesSame DEF Undisturbed
<1>2. ThreadInv'
  BY DEF ThreadInv, ThreadOK, WorkerOK, files
<1>3. FlightsAreLed'
  BY DEF FlightsAreLed, At
<1> QED
  BY <1>1, <1>2, <1>3

-------------------------------------------------------------------------------
(* The window and its loads.                                                 *)

LEMMA InvTypes == IInv => TypeOK
BY DEF IInv, MediaInv, FileInv, FilesOK, ViewOK, TypeOK, MediaTypeOK, Jobs, LoadStates,
       EnrichmentStates

\* A step of the caches alone, or a failure: the window keeps what it has.
LEMMA ViewSame ==
    ASSUME IInv, UNCHANGED view, kind' = kind, MediaInv',
           \A p \in Photos : version[p] <= version'[p]
    PROVE  IInv'
<1> USE DEF IInv
<1>1. ViewOK'
  BY DEF view, ViewOK
<1>2. RowsInv'
  <2>1. ASSUME NEW row \in Rows, RowOK(row) PROVE RowOK(row)'
    <3>1. row.photo \in Photos /\ row.version \in Nat
      BY DEF Rows, Versions
    <3>2. version[row.photo] \in Nat /\ version'[row.photo] \in Nat
      BY <3>1 DEF MediaInv, Versions
    <3> QED
      BY <2>1, <3>1, <3>2 DEF RowOK
  <2>2. /\ ref \subseteq Rows
        /\ \A c \in Loads : load[c].first \cup load[c].items \cup load[c].queue \subseteq Rows
    BY DEF ViewOK, LoadStates
  <2>3. /\ \A row \in ref : RowOK(row)'
        /\ \A c \in Loads :
              \A row \in load[c].first \cup load[c].items \cup load[c].queue : RowOK(row)'
    BY <2>1, <2>2 DEF RowsInv
  <2> QED
    BY <2>3 DEF RowsInv, view
<1>3. GridInv'
  BY DEF GridInv, OnItsWay, PhotosOf, Photos0, Loading, In, view
<1> QED
  BY <1>1, <1>2, <1>3

\* What loads keep when only one of them steps.
LEMMA LoadChange ==
    ASSUME ViewOK, NEW c \in Loads, NEW l \in LoadStates, load' = [load EXCEPT ![c] = l]
    PROVE  /\ load' \in [Loads -> LoadStates]
           /\ load'[c] = l
           /\ \A e \in Loads \ {c} : load'[e] = load[e]
           /\ Loading' = IF l.phase = "none" THEN Loading \ {c} ELSE Loading \cup {c}
BY DEF ViewOK, Loading

LEMMA NoLoadType == NoLoad \in LoadStates /\ NoLoad.phase = "none" /\ NoLoad.left = {}
                    /\ NoLoad.first = {} /\ NoLoad.items = {} /\ NoLoad.queue = {}
BY DEF NoLoad, LoadStates

LEMMA MediaStays ==
    ASSUME MediaInv, UNCHANGED media
    PROVE  MediaInv' /\ UNCHANGED <<kind, version>>
BY MediaSame DEF media, MediaInv, files

\* The rows of a step that changes no version.
LEMMA RowsStay ==
    ASSUME RowsInv, NEW c \in Loads, UNCHANGED <<kind, version>>,
           \A row \in ref' : RowOK(row),
           \A e \in Loads \ {c} : load'[e] = load[e],
           load'[c].left \subseteq DOMAIN kind,
           \A row \in load'[c].first \cup load'[c].items \cup load'[c].queue : RowOK(row)
    PROVE  RowsInv'
<1>1. \A row : RowOK(row)' <=> RowOK(row)
  BY DEF RowOK
<1> QED
  BY <1>1 DEF RowsInv

\* A folder is opened: a load begins alone, or is marked as overlapping.
LEMMA OpenStep ==
    ASSUME IInv, NEW c \in Loads, NEW d \in Folders, LoadDirectory(c, d)
    PROVE  IInv'
<1> USE DEF IInv
<1> DEFINE l == [NoLoad EXCEPT !.phase = "scan", !.folder = d, !.left = Photos0(d)]
<1>1. /\ In(c, "none") /\ Calls(2)
      /\ load' = [load EXCEPT ![c] = l]
      /\ currentDir' = d /\ ref' = {} /\ listening' = FALSE
      /\ overlapped' = (Loading # {})
      /\ UNCHANGED <<media, photos, enriching>>
  BY DEF LoadDirectory
<1>2. /\ l \in LoadStates /\ l.phase = "scan" /\ l.folder = d /\ l.left = Photos0(d)
      /\ l.first = {} /\ l.items = {} /\ l.queue = {}
      /\ Photos0(d) \subseteq DOMAIN kind
  BY KindType DEF NoLoad, LoadStates, Photos0, MediaInv
<1> HIDE DEF l
<1>3. MediaInv' /\ UNCHANGED <<kind, version>>
  BY <1>1, MediaStays
<1>4. /\ load' \in [Loads -> LoadStates] /\ load'[c] = l
      /\ \A e \in Loads \ {c} : load'[e] = load[e]
      /\ Loading' = Loading \cup {c}
  BY <1>1, <1>2, LoadChange
<1>5. ViewOK'
  <2>1. calls' \in 0 .. MaxCalls
    BY <1>1, ViewBounds DEF Calls, ViewOK
  <2> QED
    BY <1>1, <1>4, <2>1 DEF ViewOK, enriching
<1>6. RowsInv'
  BY <1>1, <1>2, <1>3, <1>4, RowsStay
<1>7. GridInv'
  <2>1. CASE Loading # {}
    BY <1>1, <2>1 DEF GridInv
  <2>2. CASE Loading = {}
    <3>1. Loading' = {c} /\ Photos0(currentDir)' = Photos0(d)
      BY <1>1, <1>3, <1>4, <2>2 DEF Photos0
    <3>2. OnItsWay(c)'
      BY <1>1, <1>2, <1>4, <3>1 DEF OnItsWay, In, PhotosOf
    <3> QED
      BY <3>1, <3>2 DEF GridInv
  <2> QED
    BY <2>1, <2>2
<1> QED
  BY <1>3, <1>5, <1>6, <1>7

\* The scan finds a photo: it is in the first batch, or a row of the window.
LEMMA ScanStep ==
    ASSUME IInv, NEW c \in Loads, ScanFile(c)
    PROVE  IInv'
<1> USE DEF IInv
<1>1. MediaInv' /\ UNCHANGED <<kind, version>>
  BY MediaStays DEF ScanFile
<1>2. load[c] \in LoadStates /\ load[c].phase = "scan"
  BY DEF ScanFile, ViewOK, In
<1>3. PICK p \in load[c].left :
         LET row == [photo |-> p, version |-> version[p], thumb |-> FALSE, duration |-> FALSE]
         IN \/ /\ load' = [load EXCEPT ![c].left = @ \ {p}, ![c].first = @ \cup {row}]
               /\ UNCHANGED <<ref, photos>>
            \/ /\ load' = [load EXCEPT ![c].left = @ \ {p}]
               /\ ref' = ref \cup {row} /\ photos' = ref'
  BY DEF ScanFile
<1> DEFINE row == [photo |-> p, version |-> version[p], thumb |-> FALSE, duration |-> FALSE]
<1>4. /\ p \in DOMAIN kind /\ row \in Rows /\ row.photo = p
      /\ RowOK(row)
  <2>1. p \in DOMAIN kind /\ p \in Photos
    BY KindType DEF RowsInv, MediaInv
  <2>2. version[p] \in Versions /\ version[p] <= version[p]
    BY <2>1 DEF MediaInv, Versions
  <2> QED
    BY <2>1, <2>2 DEF Rows, RowOK
<1> HIDE DEF row
<1>5. PICK l \in LoadStates :
         /\ load' = [load EXCEPT ![c] = l]
         /\ l.phase = "scan" /\ l.folder = load[c].folder /\ l.left = load[c].left \ {p}
         /\ l.items = load[c].items /\ l.queue = load[c].queue
         /\ \/ l.first = load[c].first \cup {row} /\ UNCHANGED <<ref, photos>>
            \/ l.first = load[c].first /\ ref' = ref \cup {row} /\ photos' = ref'
  <2>1. CASE /\ load' = [load EXCEPT ![c].left = @ \ {p}, ![c].first = @ \cup {row}]
             /\ UNCHANGED <<ref, photos>>
    <3> DEFINE l == [load[c] EXCEPT !.left = @ \ {p}, !.first = @ \cup {row}]
    <3>1. /\ l \in LoadStates /\ l.phase = "scan" /\ l.folder = load[c].folder
          /\ l.left = load[c].left \ {p} /\ l.items = load[c].items
          /\ l.queue = load[c].queue /\ l.first = load[c].first \cup {row}
      BY <1>2, <1>4 DEF LoadStates
    <3>2. load' = [load EXCEPT ![c] = l]
      BY <1>2, <2>1 DEF ViewOK
    <3> HIDE DEF l
    <3> QED
      BY <2>1, <3>1, <3>2
  <2>2. CASE /\ load' = [load EXCEPT ![c].left = @ \ {p}]
             /\ ref' = ref \cup {row} /\ photos' = ref'
    <3> DEFINE l == [load[c] EXCEPT !.left = @ \ {p}]
    <3>1. /\ l \in LoadStates /\ l.phase = "scan" /\ l.folder = load[c].folder
          /\ l.left = load[c].left \ {p} /\ l.items = load[c].items
          /\ l.queue = load[c].queue /\ l.first = load[c].first
      BY <1>2, <1>4 DEF LoadStates
    <3>2. load' = [load EXCEPT ![c] = l]
      BY <1>2, <2>2 DEF ViewOK
    <3> HIDE DEF l
    <3> QED
      BY <2>2, <3>1, <3>2
  <2> QED
    BY <1>3, <2>1, <2>2 DEF row
<1>6. /\ load' \in [Loads -> LoadStates] /\ load'[c] = l
      /\ \A e \in Loads \ {c} : load'[e] = load[e]
      /\ Loading' = Loading \cup {c}
  BY <1>5, LoadChange
<1>7. /\ UNCHANGED <<calls, currentDir, listening, overlapped, enrichment, enrichCancel>>
      /\ c \in Loading
  BY <1>2 DEF ScanFile, enriching, Loading
<1>8. ViewOK'
  BY <1>4, <1>5, <1>6, <1>7 DEF ViewOK
<1>9. RowsInv'
  <2>1. /\ load[c].left \subseteq DOMAIN kind /\ \A x \in ref : RowOK(x)
        /\ \A x \in load[c].first \cup load[c].items \cup load[c].queue : RowOK(x)
    BY DEF RowsInv
  <2>2. \A x \in ref' : RowOK(x)
    BY <1>4, <1>5, <2>1
  <2>3. \A x \in l.first \cup l.items \cup l.queue : RowOK(x)
    BY <1>4, <1>5, <2>1
  <2> QED
    BY <1>1, <1>5, <1>6, <2>1, <2>2, <2>3, RowsStay
<1>10. GridInv'
  <2>1. ASSUME ~overlapped, Loading = {c}, load[c].folder = currentDir,
               PhotosOf(ref) \cup PhotosOf(load[c].first) \cup load[c].left
                 = Photos0(currentDir)
        PROVE  PhotosOf(ref') \cup PhotosOf(l.first) \cup l.left = Photos0(currentDir)
    <3>1. PhotosOf({row} \cup ref) = {p} \cup PhotosOf(ref)
          /\ PhotosOf({row} \cup load[c].first) = {p} \cup PhotosOf(load[c].first)
      BY <1>4 DEF PhotosOf
    <3>2. PhotosOf(ref') \cup PhotosOf(l.first)
            = PhotosOf(ref) \cup PhotosOf(load[c].first) \cup {p}
      BY <1>5, <3>1
    <3> QED
      BY <1>5, <2>1, <3>2
  <2>2. ASSUME ~overlapped PROVE OnItsWay(c)' /\ Loading' = {c}
    <3>1. OnItsWay(c)
      BY <1>7, <2>2 DEF GridInv
    <3>2. PhotosOf(ref') \cup PhotosOf(l.first) \cup l.left = Photos0(currentDir)
      BY <1>2, <2>1, <2>2, <3>1 DEF OnItsWay, In
    <3>3. Photos0(currentDir)' = Photos0(currentDir)
      BY <1>1, <1>7 DEF Photos0
    <3> QED
      BY <1>5, <1>6, <1>7, <3>1, <3>2, <3>3 DEF OnItsWay, In, PhotosOf
  <2> QED
    BY <1>7, <2>2 DEF GridInv
<1> QED
  BY <1>1, <1>8, <1>9, <1>10

\* The measuring of a load's videos takes the place of the one that goes on.
LEMMA StartType ==
    ASSUME ViewOK, NEW c \in Loads, NEW videos \in SUBSET Photos,
           StartEnrichment(c, videos)
    PROVE  enrichment' \in [Loads -> EnrichmentStates] /\ enrichCancel' = c
<1> DEFINE old == IF enrichCancel = None THEN NoEnrichment ELSE enrichment[enrichCancel]
<1>1. old \in EnrichmentStates
  BY DEF ViewOK, NoEnrichment, EnrichmentStates
<1>2. PICK taken \in SUBSET old.left :
         enrichment' = [e \in Loads |->
             IF e = c THEN [on |-> TRUE, left |-> videos]
             ELSE IF e = enrichCancel THEN [old EXCEPT !.left = taken]
             ELSE enrichment[e]]
  BY DEF StartEnrichment
<1>3. [old EXCEPT !.left = taken] \in EnrichmentStates
      /\ [on |-> TRUE, left |-> videos] \in EnrichmentStates
  BY <1>1 DEF EnrichmentStates
<1> HIDE DEF old
<1>4. enrichCancel' = c
  BY DEF StartEnrichment
<1> QED
  BY <1>2, <1>3, <1>4 DEF ViewOK

\* The scan is over.
LEMMA ReturnStep ==
    ASSUME IInv, NEW c \in Loads, ScanReturns(c)
    PROVE  IInv'
<1> USE DEF IInv
<1> DEFINE l == [load[c] EXCEPT !.phase = "scanned"]
<1>1. /\ In(c, "scan") /\ load[c].left = {}
      /\ load' = [load EXCEPT ![c].phase = "scanned"]
      /\ UNCHANGED <<media, calls, currentDir, ref, photos, listening, overlapped>>
  BY DEF ScanReturns
<1>2. MediaInv' /\ UNCHANGED <<kind, version>>
  BY <1>1, MediaStays
<1>3. /\ l \in LoadStates /\ l.phase = "scanned" /\ l.folder = load[c].folder
      /\ l.left = load[c].left /\ l.first = load[c].first /\ l.items = load[c].items
      /\ l.queue = load[c].queue
  BY DEF ViewOK, LoadStates
<1>4. load' = [load EXCEPT ![c] = l]
  BY <1>1 DEF ViewOK
<1> HIDE DEF l
<1>5. /\ load' \in [Loads -> LoadStates] /\ load'[c] = l
      /\ \A e \in Loads \ {c} : load'[e] = load[e]
      /\ Loading' = Loading \cup {c}
  BY <1>3, <1>4, LoadChange
<1>6. c \in Loading
  BY <1>1 DEF In, Loading
<1>7. enrichment' \in [Loads -> EnrichmentStates] /\ enrichCancel' \in Loads \cup {None}
  <2> DEFINE videos == {p \in Photos0(load[c].folder) : kind[p] = "video"}
  <2>1. videos \in SUBSET Photos
    BY KindType DEF Photos0, MediaInv
  <2>2. UNCHANGED enriching \/ StartEnrichment(c, videos)
    BY DEF ScanReturns
  <2> HIDE DEF videos
  <2> QED
    BY <2>1, <2>2, StartType DEF enriching, ViewOK
<1>8. ViewOK'
  BY <1>1, <1>5, <1>7 DEF ViewOK
<1>9. RowsInv'
  BY <1>1, <1>2, <1>3, <1>5, RowsStay DEF RowsInv
<1>10. GridInv'
  BY <1>1, <1>2, <1>3, <1>5, <1>6 DEF GridInv, OnItsWay, In, Photos0, PhotosOf
<1> QED
  BY <1>2, <1>8, <1>9, <1>10

\* The load gives up.
LEMMA GiveUpStep ==
    ASSUME IInv, NEW c \in Loads, LoadFails(c)
    PROVE  IInv'
<1> USE DEF IInv
<1>1. /\ load' = [load EXCEPT ![c] = NoLoad] /\ overlapped' = TRUE
      /\ UNCHANGED <<kind, version, files, job, leader, calls, currentDir, ref, photos,
                     listening, enriching>>
      /\ Calm \/ Disturb
  BY DEF LoadFails
<1>2. MediaInv'
  BY <1>1, CountType, MediaSame DEF MediaInv
<1>3. /\ load' \in [Loads -> LoadStates] /\ load'[c] = NoLoad
      /\ \A e \in Loads \ {c} : load'[e] = load[e]
  BY <1>1, NoLoadType, LoadChange
<1>4. ViewOK'
  BY <1>1, <1>3 DEF ViewOK, enriching
<1>5. RowsInv'
  BY <1>1, <1>3, NoLoadType, RowsStay DEF RowsInv
<1>6. GridInv'
  BY <1>1 DEF GridInv
<1> QED
  BY <1>2, <1>4, <1>5, <1>6

\* The first batch joins the rows.
LEMMA ScannedStep ==
    ASSUME IInv, NEW c \in Loads, Scanned(c)
    PROVE  IInv'
<1> USE DEF IInv
<1> DEFINE l == [load[c] EXCEPT !.phase = "meta", !.first = {}]
<1>1. /\ In(c, "scanned")
      /\ ref' = ref \cup load[c].first /\ photos' = ref'
      /\ listening' = TRUE
      /\ load' = [load EXCEPT ![c].phase = "meta", ![c].first = {}]
      /\ UNCHANGED <<media, calls, currentDir, enriching, overlapped>>
  BY DEF Scanned
<1>2. MediaInv' /\ UNCHANGED <<kind, version>>
  BY <1>1, MediaStays
<1>3. /\ l \in LoadStates /\ l.phase = "meta" /\ l.folder = load[c].folder
      /\ l.left = load[c].left /\ l.first = {} /\ l.items = load[c].items
      /\ l.queue = load[c].queue
  BY DEF ViewOK, LoadStates
<1>4. load' = [load EXCEPT ![c] = l]
  BY <1>1 DEF ViewOK
<1> HIDE DEF l
<1>5. /\ load' \in [Loads -> LoadStates] /\ load'[c] = l
      /\ \A e \in Loads \ {c} : load'[e] = load[e]
      /\ Loading' = Loading \cup {c}
  BY <1>3, <1>4, LoadChange
<1>6. c \in Loading
  BY <1>1 DEF In, Loading
<1>7. ViewOK'
  <2>1. load[c].first \subseteq Rows
    BY DEF ViewOK, LoadStates
  <2> QED
    BY <1>1, <1>5, <2>1 DEF ViewOK, enriching
<1>8. RowsInv'
  BY <1>1, <1>2, <1>3, <1>5, RowsStay DEF RowsInv
<1>9. GridInv'
  <2>1. PhotosOf(ref') = PhotosOf(ref) \cup PhotosOf(load[c].first)
    BY <1>1 DEF PhotosOf
  <2> QED
    BY <1>1, <1>2, <1>3, <1>5, <1>6, <2>1 DEF GridInv, OnItsWay, In, Photos0, PhotosOf
<1> QED
  BY <1>2, <1>7, <1>8, <1>9

\* The batch of thumbnails starts with the rows collected by now.
LEMMA PreloadStep ==
    ASSUME IInv, NEW c \in Loads, Preload(c)
    PROVE  IInv'
<1> USE DEF IInv
<1> DEFINE all == [load[c] EXCEPT !.phase = "preload", !.items = ref, !.queue = ref]
           begin == [Idle EXCEPT !.pc = "take"]
<1>1. /\ In(c, "meta") /\ \A t \in WorkersOf[c] : At(t, "idle")
      /\ UNCHANGED <<disturbances, kind, version, files, leader, calls, currentDir, ref,
                     photos, listening, enriching, overlapped>>
      /\ \/ ref = {} /\ load' = [load EXCEPT ![c] = NoLoad] /\ UNCHANGED job
         \/ /\ load' = [load EXCEPT ![c].phase = "preload", ![c].items = ref, ![c].queue = ref]
            /\ job' = [t \in Threads |-> IF t \in WorkersOf[c] THEN begin ELSE job[t]]
  BY DEF Preload
<1>2. /\ all \in LoadStates /\ all.phase = "preload" /\ all.folder = load[c].folder
      /\ all.left = load[c].left /\ all.first = load[c].first
      /\ all.items = ref /\ all.queue = ref
  BY DEF ViewOK, LoadStates
<1>3. begin \in Jobs /\ begin.pc = "take"
  BY IdleJob DEF Jobs
<1>4. WorkersOf[c] \subseteq Workers
  BY WorkersTyped
<1> HIDE DEF begin
<1>5. MediaInv'
  <2>1. CASE job' = job
    <3>1. disturbances' \in 0 .. MaxDisturbances
      BY <1>1 DEF MediaInv
    <3> QED
      BY <1>1, <2>1, <3>1, MediaSame
  <2>2. CASE job' = [t \in Threads |-> IF t \in WorkersOf[c] THEN begin ELSE job[t]]
    <3>1. job' \in [Threads -> Jobs]
      BY <1>3, <2>2 DEF MediaInv
    <3>2. ASSUME NEW u \in WorkersOf[c]
          PROVE  u \in Workers /\ fd[u] = None /\ ThreadOK(u)' /\ WorkerOK(u)'
      <4>1. u \in Workers /\ u \in Threads /\ fd[u] = None
        BY <1>1, <1>4 DEF Threads, MediaInv, ThreadInv, ThreadOK, Opening, At
      <4>2. job'[u] = begin /\ fd'[u] = None
        BY <1>1, <2>2, <4>1 DEF files
      <4> QED
        BY <1>3, <4>1, <4>2 DEF ThreadOK, WorkerOK, Opening
    <3>3. \A u \in Threads \ WorkersOf[c] : job'[u] = job[u]
      BY <2>2
    <3> QED
      BY <1>1, <3>1, <3>2, <3>3, TakenStep
  <2> QED
    BY <1>1, <2>1, <2>2
<1>6. PICK l \in LoadStates :
         /\ load' = [load EXCEPT ![c] = l]
         /\ \/ l = NoLoad /\ ref = {}
            \/ l = all
  <2>1. [load EXCEPT ![c].phase = "preload", ![c].items = ref, ![c].queue = ref]
          = [load EXCEPT ![c] = all]
    BY DEF ViewOK
  <2> HIDE DEF all
  <2> QED
    BY <1>1, <1>2, <2>1, NoLoadType
<1> HIDE DEF all
<1>7. /\ load' \in [Loads -> LoadStates] /\ load'[c] = l
      /\ \A e \in Loads \ {c} : load'[e] = load[e]
      /\ Loading' = IF l.phase = "none" THEN Loading \ {c} ELSE Loading \cup {c}
  BY <1>6, LoadChange
<1>8. c \in Loading
  BY <1>1 DEF In, Loading
<1>9. ViewOK'
  BY <1>1, <1>7 DEF ViewOK, enriching
<1>10. RowsInv'
  BY <1>1, <1>2, <1>6, <1>7, NoLoadType, RowsStay DEF RowsInv
<1>11. GridInv'
  <2>1. ASSUME ~overlapped
        PROVE  /\ Loading = {c} /\ load[c].folder = currentDir
               /\ PhotosOf(ref) = Photos0(currentDir) /\ photos = ref
    BY <1>1, <1>8, <2>1 DEF GridInv, OnItsWay, In
  <2>2. Photos0(currentDir)' = Photos0(currentDir)
    BY <1>1 DEF Photos0
  <2>3. CASE l = NoLoad
    <3>1. ~overlapped => Loading' = {}
      BY <1>7, <2>1, <2>3, NoLoadType
    <3> QED
      BY <1>1, <2>1, <2>2, <3>1 DEF GridInv, PhotosOf
  <2>4. CASE l = all
    <3>1. ~overlapped => Loading' = {c}
      BY <1>2, <1>7, <2>1, <2>4
    <3> QED
      BY <1>1, <1>2, <1>7, <2>1, <2>2, <2>4, <3>1 DEF GridInv, OnItsWay, In, PhotosOf
  <2> QED
    BY <1>6, <2>3, <2>4
<1> QED
  BY <1>5, <1>9, <1>10, <1>11

\* A worker is done with its item and takes the next.
LEMMA TakeStep ==
    ASSUME IInv, NEW c \in Loads, NEW t \in WorkersOf[c], Take(c, t)
    PROVE  IInv'
<1> USE DEF IInv
<1> DEFINE done == IF At(t, "made") THEN {job[t].item} ELSE {}
           next(row) == [Idle EXCEPT !.pc = "check", !.item = row.photo, !.key = row.version]
<1>1. /\ job[t].pc \in {"take", "made", "failed"}
      /\ UNCHANGED <<disturbances, kind, version, files, leader, calls, currentDir, ref,
                     photos, listening, enriching, overlapped>>
      /\ \/ /\ job' = [job EXCEPT ![t] = Idle]
            /\ load' = [load EXCEPT ![c].thumbs = @ \cup done]
         \/ \E row \in load[c].queue :
               /\ job' = [job EXCEPT ![t] = next(row)]
               /\ load' = [load EXCEPT ![c].queue = @ \ {row}, ![c].thumbs = @ \cup done]
  BY DEF Take
<1>2. t \in Workers /\ t \in Threads /\ fd[t] = None
  BY <1>1, WorkersTyped DEF Threads, MediaInv, ThreadInv, ThreadOK, Opening
<1>3. done \subseteq Photos
  <2>1. At(t, "made") => job[t].item \in DOMAIN kind
    BY <1>2 DEF MediaInv, ThreadInv, ThreadOK, At
  <2> QED
    BY <2>1, KindType DEF MediaInv
<1>4. load[c] \in LoadStates
  BY DEF ViewOK
<1>5. ASSUME NEW row \in load[c].queue
      PROVE  /\ row.photo \in DOMAIN kind /\ row.photo \in Photos
             /\ row.version \in Versions /\ row.version \in 1 .. version[row.photo]
             /\ next(row) \in Jobs /\ next(row).pc = "check"
             /\ next(row).item = row.photo /\ next(row).key = row.version
  <2>1. row \in Rows /\ RowOK(row)
    BY <1>4, <1>5 DEF RowsInv, LoadStates
  <2>2. /\ row.photo \in DOMAIN kind /\ row.photo \in Photos
        /\ row.version \in Versions /\ version[row.photo] \in Versions
        /\ row.version <= version[row.photo]
    BY <2>1, KindType DEF RowOK, Rows, MediaInv
  <2>3. row.version \in 1 .. version[row.photo] /\ row.version \in 0 .. MaxVersion
    BY <2>2, MediaBounds DEF Versions
  <2>4. /\ next(row) \in Jobs /\ next(row).pc = "check"
        /\ next(row).item = row.photo /\ next(row).key = row.version
    BY <2>2, <2>3, IdleJob DEF Jobs
  <2> QED
    BY <2>2, <2>3, <2>4
<1>6. PICK j \in Jobs :
         /\ job' = [job EXCEPT ![t] = j]
         /\ \/ j.pc = "idle"
            \/ /\ j.pc = "check" /\ j.item \in DOMAIN kind
               /\ j.key \in 1 .. version[j.item]
  <2> HIDE DEF next, done
  <2> QED
    BY <1>1, <1>5, IdleJob
<1>7. PICK l \in LoadStates :
         /\ load' = [load EXCEPT ![c] = l]
         /\ l.phase = load[c].phase /\ l.folder = load[c].folder /\ l.left = load[c].left
         /\ l.first = load[c].first /\ l.items = load[c].items
         /\ l.queue \subseteq load[c].queue
  <2>1. PICK rows \in SUBSET load[c].queue :
           \/ /\ rows = load[c].queue
              /\ load' = [load EXCEPT ![c].thumbs = @ \cup done]
           \/ load' = [load EXCEPT ![c].queue = rows, ![c].thumbs = @ \cup done]
    <3> HIDE DEF done, next
    <3>1. ASSUME NEW row \in load[c].queue,
                 load' = [load EXCEPT ![c].queue = @ \ {row}, ![c].thumbs = @ \cup done]
          PROVE  \E rows \in SUBSET load[c].queue :
                    load' = [load EXCEPT ![c].queue = rows, ![c].thumbs = @ \cup done]
      <4>1. [load EXCEPT ![c].queue = @ \ {row}, ![c].thumbs = @ \cup done]
              = [load EXCEPT ![c].queue = load[c].queue \ {row}, ![c].thumbs = @ \cup done]
        BY DEF ViewOK
      <4> WITNESS load[c].queue \ {row} \in SUBSET load[c].queue
      <4> QED
        BY <3>1, <4>1
    <3> QED
      BY <1>1, <3>1
  <2> HIDE DEF done
  <2> DEFINE l == [load[c] EXCEPT !.queue = rows, !.thumbs = @ \cup done]
  <2>2. /\ l \in LoadStates
        /\ l.phase = load[c].phase /\ l.folder = load[c].folder /\ l.left = load[c].left
        /\ l.first = load[c].first /\ l.items = load[c].items /\ l.queue = rows
    BY <1>3, <1>4, <2>1 DEF LoadStates
  <2>3. load' = [load EXCEPT ![c] = l]
    <3>1. CASE load' = [load EXCEPT ![c].queue = rows, ![c].thumbs = @ \cup done]
      BY <3>1 DEF ViewOK
    <3>2. CASE /\ rows = load[c].queue
               /\ load' = [load EXCEPT ![c].thumbs = @ \cup done]
      <4>1. l = [load[c] EXCEPT !.thumbs = @ \cup done]
        BY <1>4, <3>2 DEF LoadStates
      <4>2. load' = [load EXCEPT ![c] = [load[c] EXCEPT !.thumbs = @ \cup done]]
        BY <3>2 DEF ViewOK
      <4> HIDE DEF l
      <4> QED
        BY <4>1, <4>2
    <3> QED
      BY <2>1, <3>1, <3>2
  <2> HIDE DEF l
  <2> QED
    BY <2>1, <2>2, <2>3
<1> HIDE DEF done, next
<1>8. MediaInv'
  <2>1. job' \in [Threads -> Jobs] /\ job'[t] = j
        /\ \A u \in Threads \ {t} : job'[u] = job[u]
    BY <1>2, <1>6 DEF MediaInv
  <2>2. ThreadOK(t)' /\ WorkerOK(t)'
    BY <1>1, <1>2, <1>6, <2>1 DEF ThreadOK, WorkerOK, Opening, files
  <2> QED
    BY <1>1, <1>2, <2>1, <2>2, TakenStep
<1>9. /\ load' \in [Loads -> LoadStates] /\ load'[c] = l
      /\ \A e \in Loads \ {c} : load'[e] = load[e]
  BY <1>7, LoadChange
<1>10. ViewOK'
  BY <1>1, <1>9 DEF ViewOK, enriching
<1>11. RowsInv'
  BY <1>1, <1>7, <1>9, RowsStay DEF RowsInv
<1>12. GridInv'
  <2>1. Loading' = Loading
    BY <1>7, <1>9 DEF Loading
  <2>2. \A e \in Loads : load'[e].phase = load[e].phase /\ load'[e].folder = load[e].folder
          /\ load'[e].left = load[e].left /\ load'[e].first = load[e].first
          /\ load'[e].items = load[e].items
    BY <1>7, <1>9
  <2>3. Loading \subseteq Loads
    BY DEF Loading
  <2> QED
    BY <1>1, <2>1, <2>2, <2>3 DEF GridInv, OnItsWay, In, Photos0, PhotosOf
<1> QED
  BY <1>8, <1>10, <1>11, <1>12

\* Marking the thumbnails or the lengths of rows leaves their photos and versions.
LEMMA Marked ==
    ASSUME NEW rows \in SUBSET Rows, NEW p, NEW thumbs
    PROVE  /\ Measured(rows, p) \subseteq Rows
           /\ PhotosOf(Measured(rows, p)) = PhotosOf(rows)
           /\ (\A row \in rows : RowOK(row)) => \A row \in Measured(rows, p) : RowOK(row)
           /\ LET shown == {[row EXCEPT !.thumb = row.photo \in thumbs] : row \in rows}
              IN /\ shown \subseteq Rows
                 /\ PhotosOf(shown) = PhotosOf(rows)
                 /\ (\A row \in rows : RowOK(row)) => \A row \in shown : RowOK(row)
<1> DEFINE m(row) == IF row.photo = p THEN [row EXCEPT !.duration = TRUE] ELSE row
           s(row) == [row EXCEPT !.thumb = row.photo \in thumbs]
           shown == {s(row) : row \in rows}
<1>1. ASSUME NEW row \in rows
      PROVE  /\ m(row) \in Rows /\ s(row) \in Rows
             /\ m(row).photo = row.photo /\ s(row).photo = row.photo
             /\ m(row).version = row.version /\ s(row).version = row.version
  <2>1. m(row) \in Rows /\ m(row).photo = row.photo /\ m(row).version = row.version
    BY DEF Rows
  <2>2. (row.photo \in thumbs) \in BOOLEAN
    OBVIOUS
  <2>3. \E shows \in BOOLEAN : s(row) = [row EXCEPT !.thumb = shows]
    <3> WITNESS (row.photo \in thumbs) \in BOOLEAN
    <3> QED
      BY Zenon
  <2>4. PICK shows \in BOOLEAN : s(row) = [row EXCEPT !.thumb = shows]
    BY <2>3, Zenon
  <2> HIDE DEF s
  <2>5. s(row) \in Rows /\ s(row).photo = row.photo /\ s(row).version = row.version
    BY <2>4 DEF Rows
  <2> QED
    BY <2>1, <2>5
<1>2. Measured(rows, p) = {m(row) : row \in rows}
  BY DEF Measured
<1> HIDE DEF m, s
<1>3. Measured(rows, p) \subseteq Rows /\ shown \subseteq Rows
  BY <1>1, <1>2
<1>4. PhotosOf(Measured(rows, p)) = PhotosOf(rows) /\ PhotosOf(shown) = PhotosOf(rows)
  BY <1>1, <1>2 DEF PhotosOf
<1>5. (\A row \in rows : RowOK(row)) =>
         /\ \A row \in Measured(rows, p) : RowOK(row)
         /\ \A row \in shown : RowOK(row)
  BY <1>1, <1>2 DEF RowOK
<1> QED
  BY <1>3, <1>4, <1>5 DEF s

\* The batch is done, and its rows replace what the window shows.
LEMMA ShowStep ==
    ASSUME IInv, NEW c \in Loads, PreloadReturns(c)
    PROVE  IInv'
<1> USE DEF IInv
<1>1. /\ In(c, "preload")
      /\ ref' = {[row EXCEPT !.thumb = row.photo \in load[c].thumbs] : row \in load[c].items}
      /\ photos' = ref'
      /\ load' = [load EXCEPT ![c] = NoLoad]
      /\ UNCHANGED <<media, calls, currentDir, listening, enriching, overlapped>>
  BY DEF PreloadReturns
<1>2. MediaInv' /\ UNCHANGED <<kind, version>>
  BY <1>1, MediaStays
<1>3. /\ load' \in [Loads -> LoadStates] /\ load'[c] = NoLoad
      /\ \A e \in Loads \ {c} : load'[e] = load[e]
      /\ Loading' = Loading \ {c}
  BY <1>1, NoLoadType, LoadChange
<1>4. /\ ref' \subseteq Rows /\ PhotosOf(ref') = PhotosOf(load[c].items)
      /\ \A row \in ref' : RowOK(row)
  <2>1. load[c].items \in SUBSET Rows /\ \A row \in load[c].items : RowOK(row)
    BY DEF ViewOK, LoadStates, RowsInv
  <2> QED
    BY <1>1, <2>1, Marked
<1>5. ViewOK'
  BY <1>1, <1>3, <1>4 DEF ViewOK, enriching
<1>6. RowsInv'
  BY <1>2, <1>3, <1>4, NoLoadType, RowsStay
<1>7. GridInv'
  <2>1. c \in Loading
    BY <1>1 DEF In, Loading
  <2>2. ASSUME ~overlapped
        PROVE Loading' = {} /\ PhotosOf(ref') = Photos0(currentDir)
    BY <1>1, <1>3, <1>4, <2>1, <2>2 DEF GridInv, OnItsWay, In
  <2>3. Photos0(currentDir)' = Photos0(currentDir)
    BY <1>1, <1>2 DEF Photos0
  <2> QED
    BY <1>1, <2>2, <2>3 DEF GridInv, PhotosOf
<1> QED
  BY <1>2, <1>5, <1>6, <1>7

\* A video's length is measured, or cannot be.
LEMMA MeasureStep ==
    ASSUME IInv, NEW c \in Loads, NEW p \in Photos, GetDuration(c, p)
    PROVE  IInv'
<1> USE DEF IInv
<1>1. /\ enrichment' = [enrichment EXCEPT ![c].left = @ \ {p}]
      /\ UNCHANGED <<kind, version, files, job, leader, calls, currentDir, listening, load,
                     enrichCancel, overlapped>>
      /\ \/ ref' = Measured(ref, p) /\ photos' = Measured(photos, p)
         \/ UNCHANGED <<ref, photos>>
      /\ Calm \/ Disturb
  BY DEF GetDuration
<1>2. MediaInv'
  BY <1>1, CountType, MediaSame DEF MediaInv
<1>3. ref \in SUBSET Rows /\ photos \in SUBSET Rows /\ \A row \in ref : RowOK(row)
  BY DEF ViewOK, RowsInv
<1>4. /\ ref' \subseteq Rows /\ photos' \subseteq Rows
      /\ PhotosOf(ref') = PhotosOf(ref) /\ PhotosOf(photos') = PhotosOf(photos)
      /\ \A row \in ref' : RowOK(row)
      /\ photos = ref => photos' = ref'
  BY <1>1, <1>3, Marked
<1>5. ViewOK'
  <2>1. [enrichment[c] EXCEPT !.left = @ \ {p}] \in EnrichmentStates
    BY DEF ViewOK, EnrichmentStates
  <2>2. enrichment' \in [Loads -> EnrichmentStates]
    BY <1>1, <2>1 DEF ViewOK
  <2> QED
    BY <1>1, <1>4, <2>2 DEF ViewOK
<1>6. RowsInv'
  BY <1>1, <1>4, RowsStay DEF RowsInv
<1>7. GridInv'
  <2>1. Loading' = Loading /\ Loading \subseteq Loads /\ UNCHANGED <<overlapped, currentDir>>
    BY <1>1 DEF Loading
  <2>2. Photos0(currentDir)' = Photos0(currentDir)
    BY <1>1 DEF Photos0
  <2>3. PhotosOf(ref)' = PhotosOf(ref) /\ PhotosOf(photos)' = PhotosOf(photos)
    BY <1>4 DEF PhotosOf
  <2>4. \A e \in Loads : PhotosOf(load[e].first)' = PhotosOf(load[e].first)
                         /\ PhotosOf(load[e].items)' = PhotosOf(load[e].items)
    BY <1>1 DEF PhotosOf
  <2>5. \A e \in Loading : OnItsWay(e) => OnItsWay(e)'
    BY <1>1, <1>4, <2>1, <2>2, <2>3, <2>4 DEF OnItsWay, In
  <2> QED
    BY <2>1, <2>2, <2>3, <2>5 DEF GridInv
<1> QED
  BY <1>2, <1>5, <1>6, <1>7

LEMMA MeasuredStep ==
    ASSUME IInv, NEW c \in Loads, EnrichmentEnds(c)
    PROVE  IInv'
<1> USE DEF IInv
<1>1. /\ enrichment' = [enrichment EXCEPT ![c] = NoEnrichment] /\ listening' = FALSE
      /\ UNCHANGED <<media, calls, currentDir, ref, photos, load, enrichCancel, overlapped>>
  BY DEF EnrichmentEnds
<1>2. MediaInv' /\ UNCHANGED <<kind, version>>
  BY <1>1, MediaStays
<1>3. ViewOK'
  BY <1>1 DEF ViewOK, NoEnrichment, EnrichmentStates
<1>4. RowsInv'
  BY <1>1, <1>2, RowsStay DEF RowsInv
<1>5. GridInv'
  BY <1>1, <1>2 DEF GridInv, OnItsWay, In, Loading, Photos0, PhotosOf
<1> QED
  BY <1>2, <1>3, <1>4, <1>5

\* The window asks for a picture.
LEMMA AskStep ==
    ASSUME IInv, NEW r \in Requests, NEW p \in DOMAIN kind, Ask(r, p)
    PROVE  IInv'
<1> USE DEF IInv
<1>1. MediaInv'
  BY LookupStep DEF Ask
<1>2. /\ UNCHANGED <<kind, version>> /\ Calls(1)
      /\ UNCHANGED <<currentDir, ref, photos, listening, load, enriching, overlapped>>
  BY DEF Ask, Request
<1>3. ViewOK'
  <2>1. calls' \in 0 .. MaxCalls
    BY <1>2, ViewBounds DEF Calls, ViewOK
  <2> QED
    BY <1>2, <2>1 DEF ViewOK, enriching
<1>4. RowsInv'
  BY <1>2 DEF RowsInv, RowOK
<1>5. GridInv'
  BY <1>2 DEF GridInv, OnItsWay, In, Loading, Photos0, PhotosOf
<1> QED
  BY <1>1, <1>3, <1>4, <1>5

\* The program starts again with an empty window.
LEMMA RestartStep ==
    ASSUME IInv, Crash
    PROVE  IInv'
<1> USE DEF IInv
<1>1. /\ MediaCrash /\ UNCHANGED calls /\ UNCHANGED <<kind, version>>
      /\ currentDir' = None /\ ref' = {} /\ photos' = {} /\ listening' = FALSE
      /\ load' = [c \in Loads |-> NoLoad]
      /\ enrichment' = [c \in Loads |-> NoEnrichment]
      /\ enrichCancel' = None /\ overlapped' = FALSE
  BY DEF Crash, MediaCrash
<1>2. MediaInv'
  BY <1>1, CrashStep
<1>3. ViewOK'
  BY <1>1, NoLoadType DEF ViewOK, NoEnrichment, EnrichmentStates
<1>4. RowsInv'
  BY <1>1, NoLoadType DEF RowsInv
<1>5. GridInv'
  BY <1>1, NoLoadType DEF GridInv, Loading
<1> QED
  BY <1>2, <1>3, <1>4, <1>5

-------------------------------------------------------------------------------
(* The inductive invariant.                                                  *)

LEMMA InitIInv == Init => IInv
<1> SUFFICES ASSUME Init PROVE IInv
  OBVIOUS
<1> USE DEF Init, MediaInit
<1>1. MediaInv
  <2>1. /\ version \in [Photos -> Versions] /\ disturbances \in 0 .. MaxDisturbances
        /\ job \in [Threads -> Jobs]
        /\ leader \in [Photos -> Requests \cup {None}]
    BY IdleJob, MediaBounds DEF Versions
  <2>2. FileInv
    BY DEF FileInv, FilesOK
  <2>3. ThreadInv
    BY IdleJob DEF ThreadInv, ThreadOK, WorkerOK, Opening, Threads
  <2>4. FlightsAreLed
    BY IdleJob, NoneIsNone DEF FlightsAreLed, At, Threads
  <2> QED
    BY <2>1, <2>2, <2>3, <2>4 DEF MediaInv
<1>2. ViewOK
  <2>1. load \in [Loads -> LoadStates] /\ enrichment \in [Loads -> EnrichmentStates]
    BY NoLoadType DEF NoEnrichment, EnrichmentStates
  <2>2. calls \in 0 .. MaxCalls
    BY ViewBounds
  <2> QED
    BY <2>1, <2>2 DEF ViewOK
<1>3. RowsInv
  BY NoLoadType DEF RowsInv
<1>4. GridInv
  BY NoLoadType DEF GridInv, Loading
<1> QED
  BY <1>1, <1>2, <1>3, <1>4 DEF IInv

LEMMA NextIInv == IInv /\ [Next]_vars => IInv'
<1> SUFFICES ASSUME IInv, [Next]_vars PROVE IInv'
  OBVIOUS
<1>1. MediaInv /\ (DOMAIN kind) \subseteq Photos
  BY KindType DEF IInv, MediaInv
<1>2. \A p \in Photos : version[p] <= version[p]
  BY <1>1 DEF MediaInv, Versions
<1>3. ASSUME NEW c \in Loads, NEW d \in Folders, LoadDirectory(c, d) PROVE IInv'
  BY <1>3, OpenStep
<1>4. ASSUME NEW c \in Loads, LoadSteps(c) \/ LoadFails(c) \/ EnrichmentSteps(c)
      PROVE  IInv'
  BY <1>4, ScanStep, ReturnStep, ScannedStep, PreloadStep, ShowStep, TakeStep,
     GiveUpStep, MeasuredStep, MeasureStep DEF LoadSteps, EnrichmentSteps
<1>5. ASSUME NEW t \in Workers, Generate(t) PROVE IInv'
  <2>1. GenerateThumbnail(t) /\ UNCHANGED view
    BY <1>5 DEF Generate
  <2>2. UNCHANGED <<kind, version>>
    BY <1>1, <2>1, GenerateFrame DEF MediaInv
  <2>3. disturbances' \in 0 .. MaxDisturbances
    <3>1. Calm \/ Disturb
      BY <2>1 DEF GenerateThumbnail, GetCachedPath, ReadSource, ConvertHeic, ConvertedHeic,
                  ConvertHeicFails, DecodeHeic, CreateTmp, WriteTmp, WriteTmpFails,
                  RenameTmp, UnlinkTmp, DropHeic
    <3> QED
      BY <1>1, <3>1, CountType DEF MediaInv
  <2> QED
    BY <1>1, <1>2, <2>1, <2>2, <2>3, GenerateStep, ViewSame
<1>6. ASSUME NEW r \in Requests, Serve(r) PROVE IInv'
  <2>1. ServeHTTP(r) /\ UNCHANGED view
    BY <1>6 DEF Serve
  <2>2. UNCHANGED <<kind, version>>
    BY <2>1 DEF ServeHTTP, AcquireSlot, GetCachedPreview, ExtractPreview, CachePreview,
                StorePreview, StorePreviewFails, PublishPreview, StatHeic, JoinFlight,
                StartConversion, Conversion, ConversionFails, EndFlight
  <2> QED
    BY <1>1, <1>2, <2>1, <2>2, ServeStep, ViewSame
<1>7. ASSUME NEW r \in Requests, NEW p \in DOMAIN kind, Ask(r, p) PROVE IInv'
  BY <1>7, AskStep
<1>8. ASSUME NEW p \in DOMAIN kind, Modify(p) PROVE IInv'
  <2>1. Edit(p) /\ UNCHANGED view /\ kind' = kind /\ p \in Photos
    BY <1>1, <1>8 DEF Modify, Edit
  <2> QED
    BY <1>1, <2>1, EditStep, ViewSame
<1>9. CASE Crash
  BY <1>9, RestartStep
<1>10. CASE UNCHANGED vars
  <2>1. UNCHANGED media /\ UNCHANGED view
    BY <1>10 DEF vars
  <2> QED
    BY <1>1, <1>2, <2>1, MediaStays, ViewSame
<1> QED
  BY <1>3, <1>4, <1>5, <1>6, <1>7, <1>8, <1>9, <1>10 DEF Next

LEMMA AlwaysIInv == Spec => []IInv
BY InitIInv, NextIInv, PTL DEF Spec

\* The types of the caches, their threads, the window and its loads.
THEOREM FolderTypes == Spec => []TypeOK
BY AlwaysIInv, InvTypes, PTL

\* thumbcache.go GenerateThumbnail, previewcache.go CachePreview, heic
\* ConvertToJPEG: a picture in a cache that nobody writes to, and that no
\* failure, crash or edit has spoiled, is whole, whoever else has written to its
\* temporary file.
THEOREM CachesWhole == Spec => []QuietCachesAreWhole
<1>1. IInv => QuietCachesAreWhole
  <2> SUFFICES ASSUME IInv, NEW n \in DOMAIN disk, n \notin spoiled,
                      \A t \in Threads : fd[t] # n
               PROVE  Whole(disk[n])
    BY DEF QuietCachesAreWhole
  <2>1. PICK v \in Versions :
           \A i \in 1 .. Chunks : i \in 1 .. Len(disk[n]) /\ disk[n][i] = v
    BY DEF IInv, MediaInv, FileInv, Sound, Writes
  <2>2. Len(disk[n]) \in Nat /\ Len(disk[n]) <= Chunks /\ Chunks \in Nat \ {0} /\ v # 0
    BY MediaBounds DEF IInv, MediaInv, FileInv, FilesOK, Versions
  <2>3. Len(disk[n]) = Chunks /\ disk[n][1] = v
    <3>1. Chunks \in 1 .. Chunks /\ 1 \in 1 .. Chunks
      BY <2>2
    <3>2. Chunks \in 1 .. Len(disk[n])
      BY <2>1, <3>1
    <3> QED
      BY <2>1, <2>2, <3>1, <3>2
  <2> QED
    BY <2>1, <2>2, <2>3 DEF Whole
<1> QED
  BY <1>1, AlwaysIInv, PTL

\* app.go preloadThumbnails, thumbcache.go GenerateThumbnail: the thumbnail kept
\* for a version shows that version or a later one, edits in between included.
THEOREM CurrentThumbs == Spec => []ThumbsAreCurrent
<1>1. IInv => ThumbsAreCurrent
  <2> SUFFICES ASSUME IInv, NEW p \in DOMAIN kind, NEW v \in Versions,
                      kind[p] # "heic", Exists(Thumb(p, v)),
                      NEW i \in 1 .. Len(disk[Thumb(p, v)])
               PROVE  disk[Thumb(p, v)][i] = 0 \/ disk[Thumb(p, v)][i] >= v
    BY DEF ThumbsAreCurrent
  <2>1. p \in Photos
    BY KindType DEF IInv, MediaInv
  <2>2. Due(Thumb(p, v)) = v
    BY <2>1, FileNames
  <2> QED
    BY <2>2 DEF IInv, MediaInv, FileInv, Fresh, Exists
<1> QED
  BY <1>1, AlwaysIInv, PTL

\* heicGroup.Do: whoever waits for a conversion waits for one somebody makes, and
\* one request at a time converts a photo.
THEOREM LedFlights == Spec => []FlightsAreLed
BY AlwaysIInv, PTL DEF IInv, MediaInv

\* App.tsx loadDirectory: after the loads the grid shows the photos of the folder
\* the window names, unless a load has been overtaken.
THEOREM CurrentGrid == Spec => []GridIsCurrent
<1>1. IInv => GridIsCurrent
  BY DEF IInv, GridInv, GridIsCurrent, PhotosOf
<1> QED
  BY <1>1, AlwaysIInv, PTL

===============================================================================
