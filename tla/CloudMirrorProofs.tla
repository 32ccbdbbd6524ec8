-------------------------- MODULE CloudMirrorProofs --------------------------
(***************************************************************************)
(* What CloudMirror guarantees for every number of mirrors, albums, files  *)
(* and workers, several mirrors of one album included: nothing stale or    *)
(* torn is skipped (SkipsSound), a report without failures is true         *)
(* (SuccessReal), and a mirror that ran alone leaves the cache within its  *)
(* limit (CacheIsWithinLimit).                                             *)
(*                                                                         *)
(* And what CloudAccount guarantees for every number of authorizations,    *)
(* mirrors and callbacks: requests carry the token of the connected        *)
(* account (ClientsAreCurrent), and what a change left in the token store  *)
(* is what is found there (AccountsLast).                                  *)
(***************************************************************************)
EXTENDS CloudMirror, CloudAccount, FiniteSetTheorems, SequenceTheorems, TLAPS

\* A call that deletes an album has one to delete.
HasVictim == \A t \in Threads : pc[t] \in {"unrecord", "forget"} => victims[t] # <<>>

\* A running mirror has an album.
HasAlbum == \A r \in Mirrors : Running(r) => album[r] \in Albums

\* What the types need of a step.
TypeInv == TypeOK /\ HasVictim /\ HasAlbum

\* Taking an album's record out leaves a sequence of what was there.
LEMMA WithoutType ==
    ASSUME NEW S, NEW s \in Seq(S), NEW a
    PROVE  Without(s, a) \in Seq(S)
<1>1. CASE a \in Range(s)
  <2> DEFINE i == CHOOSE j \in 1 .. Len(s) : s[j] = a
  <2>1. \E j \in 1 .. Len(s) : s[j] = a
    BY <1>1 DEF Range
  <2>2. i \in 1 .. Len(s)
    BY <2>1
  <2> HIDE DEF i
  <2>3. /\ SubSeq(s, 1, i - 1) \in Seq(S)
        /\ SubSeq(s, i + 1, Len(s)) \in Seq(S)
    BY <2>2, SubSeqProperties
  <2>4. SubSeq(s, 1, i - 1) \o SubSeq(s, i + 1, Len(s)) \in Seq(S)
    BY <2>3
  <2> QED
    BY <1>1, <2>4 DEF Without, RemoveAt, i
<1>2. CASE a \notin Range(s)
  BY <1>2 DEF Without
<1> QED
  BY <1>1, <1>2

LEMMA ReverseType ==
    ASSUME NEW s \in Seq(Albums)
    PROVE  Reverse(s) \in Seq(Albums)
<1>1. \A i \in 1 .. Len(s) : s[Len(s) - i + 1] \in Albums
  OBVIOUS
<1>2. Reverse(s) \in [1 .. Len(s) -> Albums]
  BY <1>1 DEF Reverse
<1> QED
  BY <1>2

LEMMA InitTypeInv == Init => TypeInv
<1> SUFFICES ASSUME Init PROVE TypeInv
  OBVIOUS
<1> USE DEF Init, NoWork, NoCall, NothingListed, Steps, Versions
<1>1. TypeOK
  BY DataTypes DEF TypeOK, Threads
<1>2. HasVictim /\ HasAlbum
  BY Names DEF HasVictim, HasAlbum, Running, Threads
<1> QED
  BY <1>1, <1>2 DEF TypeInv

-------------------------------------------------------------------------------
(* The types.                                                                *)

\* The deletion steps, of a mirror's eviction or from the settings.
LEMMA DeleteTypes ==
    ASSUME TypeInv, NEW t \in Threads, Delete(t)
    PROVE  TypeInv'
<1> USE DataTypes, Names DEF TypeInv, TypeOK, HasVictim, HasAlbum, Running,
        Threads, Steps, Goto, world, store, job, work, evicting, history
<1>1. CASE Wipe(t)
  <2>1. disk' \in [Files -> Versions]
    BY <1>1 DEF Wipe, Versions
  <2>2. /\ torn' \subseteq {f \in Files : disk'[f] > 0}
        /\ rewriting' \subseteq Files /\ mixed' \subseteq Files
    BY <1>1 DEF Wipe
  <2>3. touched' \in [Mirrors -> SUBSET Files]
    BY <1>1 DEF Wipe, FilesOf
  <2>4. HasVictim' /\ HasAlbum'
    BY <1>1 DEF Wipe
  <2> QED
    BY <1>1, <2>1, <2>2, <2>3, <2>4 DEF Wipe
<1>2. CASE Unrecord(t)
  <2>1. Head(victims[t]) \in Albums
    BY <1>2, HeadTailProperties DEF Unrecord
  <2>2. records' \in Seq(Albums)
    BY <1>2, <2>1, WithoutType DEF Unrecord
  <2> QED
    BY <1>2, <2>2 DEF Unrecord
<1>3. CASE Forget(t)
  <2>1. Tail(victims[t]) \in Seq(Albums)
    BY <1>3, HeadTailProperties DEF Forget
  <2>2. meta' \in [Files -> Versions]
    <3>1. 0 \in Versions
      BY DEF Versions
    <3>2. CASE UNCHANGED meta
      BY <3>2
    <3>3. CASE meta' = [f \in Files |->
                          IF AlbumOf[f] \in SamePrefix[Head(victims[t])]
                          THEN 0 ELSE meta[f]]
      BY <3>1, <3>3
    <3> QED
      BY <1>3, <3>2, <3>3, Zenon DEF Forget
  <2>3. disturbances' \in 0 .. MaxDisturbances
    BY <1>3 DEF Forget, Disturb
  <2> QED
    BY <1>3, <2>1, <2>2, <2>3 DEF Forget
<1>4. CASE DeleteFails(t)
  <2>1. /\ Tail(victims[t]) \in Seq(Albums)
        /\ <<>> \in Seq(Albums)
    BY <1>4, HeadTailProperties DEF DeleteFails
  <2>2. disturbances' \in 0 .. MaxDisturbances
    BY <1>4 DEF DeleteFails, Disturb
  <2>3. /\ victims' \in [Threads -> Seq(Albums)]
        /\ \A u \in Threads \ {t} : victims'[u] = victims[u]
    <3>1. \E rest \in Seq(Albums) : victims' = [victims EXCEPT ![t] = rest]
      BY <1>4, <2>1 DEF DeleteFails
    <3> QED
      BY <3>1
  <2>4. /\ pc' \in [Threads -> Steps]
        /\ pc'[t] \in {"wipe", "error"}
        /\ \A u \in Threads \ {t} : pc'[u] = pc[u]
    BY <1>4 DEF DeleteFails
  <2>5. HasVictim'
    BY <2>3, <2>4
  <2>6. HasAlbum'
    BY <1>4 DEF DeleteFails
  <2> QED
    BY <1>4, <2>2, <2>3, <2>4, <2>5, <2>6 DEF DeleteFails
<1> QED
  BY <1>1, <1>2, <1>3, <1>4 DEF Delete

\* A mirror's way to its downloads.
LEMMA SpaceTypes ==
    ASSUME TypeInv, NEW r \in Mirrors,
           \/ ListMedia(r) \/ ListFails(r) \/ CheckSpace(r) \/ SpaceFreed(r)
           \/ Filter(r)
    PROVE  TypeInv'
<1> USE DataTypes, Names DEF TypeInv, TypeOK, HasVictim, HasAlbum, Running,
        Threads, Steps, Goto, world, store, job, work, evicting, history
<1>1. CASE ListMedia(r)
  BY <1>1 DEF ListMedia, Versions
<1>2. CASE ListFails(r)
  BY <1>2 DEF ListFails, RequestFails, Disturb
<1>3. CASE CheckSpace(r)
  <2>1. \A n \in 0 .. Len(Without(records, album[r])) :
          SubSeq(Without(records, album[r]), 1, n) \in Seq(Albums)
    BY WithoutType, SubSeqProperties
  <2>2. /\ victims' \in [Threads -> Seq(Albums)]
        /\ \A t \in Threads \ {r} : victims'[t] = victims[t]
    BY <1>3, <2>1 DEF CheckSpace
  <2>3. /\ short' \in [Mirrors -> BOOLEAN]
        /\ alone' \in [Mirrors -> BOOLEAN]
    BY <1>3 DEF CheckSpace
  <2> QED
    BY <1>3, <2>2, <2>3 DEF CheckSpace
<1>4. CASE SpaceFreed(r)
  BY <1>4 DEF SpaceFreed
<1>5. CASE Filter(r)
  BY <1>5 DEF Filter, FilesOf
<1> QED
  BY <1>1, <1>2, <1>3, <1>4, <1>5

\* The downloads of a mirror and its end.
LEMMA DownloadTypes ==
    ASSUME TypeInv, NEW r \in Mirrors,
           Download(r) \/ FinishMirror(r) \/ Return(r)
    PROVE  TypeInv'
<1> USE DataTypes, Names DEF TypeInv, TypeOK, HasVictim, HasAlbum, Running,
        Threads, Steps, Goto, world, store, job, work, evicting, history
<1>1. ASSUME NEW f \in Files, Take(r, f) PROVE TypeInv'
  <2>1. touched' \in [Mirrors -> SUBSET Files]
    BY <1>1 DEF Take
  <2>2. rewriting' \subseteq Files /\ mixed' \subseteq Files
    BY <1>1 DEF Take
  <2>3. disk' \in [Files -> Versions] /\ torn' \subseteq {g \in Files : disk'[g] > 0}
    <3>1. remote[f] \in Versions /\ remote[f] > 0
      BY DEF Versions
    <3> QED
      BY <1>1, <3>1 DEF Take
  <2>4. todo' \in [Mirrors -> SUBSET Files] /\ active' \in [Mirrors -> SUBSET Files]
    BY <1>1 DEF Take
  <2>5. UNCHANGED <<disturbances, remote, meta, records, limit, pc, album, listing,
                    cancelled, cancelOf, failed, victims, short, alone>>
    BY <1>1 DEF Take
  <2> QED
    BY <2>1, <2>2, <2>3, <2>4, <2>5
<1>2. ASSUME NEW f \in Files, TakeFails(r, f) PROVE TypeInv'
  BY <1>2 DEF TakeFails, Disturb
<1>3. ASSUME NEW f \in Files, Finish(r, f) PROVE TypeInv'
  <2>1. disturbances' \in 0 .. MaxDisturbances
    BY <1>3 DEF Finish, Disturb
  <2>2. /\ torn' \subseteq torn
        /\ rewriting' \subseteq rewriting
    BY <1>3 DEF Finish, WrittenToItsEnd
  <2>3. meta' \in [Files -> Versions]
    <3>1. listing[r][f] \in Versions
      OBVIOUS
    <3>2. meta' = [meta EXCEPT ![f] = listing[r][f]] \/ meta' = meta
      BY <1>3 DEF Finish
    <3> QED
      BY <3>1, <3>2
  <2>4. active' \in [Mirrors -> SUBSET Files]
    BY <1>3 DEF Finish
  <2> QED
    BY <1>3, <2>1, <2>2, <2>3, <2>4 DEF Finish
<1>4. ASSUME NEW f \in Files, Fail(r, f) PROVE TypeInv'
  BY <1>4 DEF Fail, RequestFails, Disturb
<1>5. CASE FinishMirror(r)
  <2>1. album[r] \in Albums
    BY <1>5 DEF FinishMirror
  <2>2. Without(records, album[r]) \in Seq(Albums)
    BY WithoutType
  <2>3. Append(Without(records, album[r]), album[r]) \in Seq(Albums)
    BY <2>1, <2>2
  <2>4. records' \in Seq(Albums)
    BY <1>5, <2>3 DEF FinishMirror, Recorded
  <2> QED
    BY <1>5, <2>4 DEF FinishMirror, Disturb
<1>6. CASE Return(r)
  BY <1>6 DEF Return, NothingListed, Versions
<1> QED
  BY <1>1, <1>2, <1>3, <1>4, <1>5, <1>6 DEF Download

\* The user, the cloud and the machine.
LEMMA OutsideTypes ==
    ASSUME TypeInv,
           \/ \E r \in Mirrors, a \in Albums : BeginMirror(r, a)
           \/ JanitorBegins \/ DeletionsDone
           \/ \E a \in Albums : CancelMirror(a)
           \/ \E mb \in Limits : SetMaxCacheMB(mb)
           \/ \E f \in Files, now \in Versions : Edit(f, now)
           \/ Crash
    PROVE  TypeInv'
<1> USE DataTypes, Names DEF TypeInv, TypeOK, HasVictim, HasAlbum, Running,
        Threads, Steps, Goto, Disturb, world, store, job, work, evicting,
        history
<1>1. ASSUME NEW r \in Mirrors, NEW a \in Albums, BeginMirror(r, a)
      PROVE  TypeInv'
  BY <1>1 DEF BeginMirror
<1>2. CASE JanitorBegins
  <2>1. Reverse(records) \in Seq(Albums) /\ \A a \in Albums : <<a>> \in Seq(Albums)
    BY ReverseType
  <2>2. victims' \in [Threads -> Seq(Albums)]
    <3>1. PICK as \in {<<a>> : a \in Albums} \cup {Reverse(records)} :
                 victims' = [victims EXCEPT ![Janitor] = as]
      BY <1>2 DEF JanitorBegins
    <3>2. CASE as = Reverse(records)
      BY <2>1, <3>1, <3>2
    <3>3. ASSUME NEW a \in Albums, as = <<a>> PROVE victims' \in [Threads -> Seq(Albums)]
      BY <2>1, <3>1, <3>3
    <3> QED
      BY <3>1, <3>2, <3>3
  <2>3. \A t \in Mirrors : victims'[t] = victims[t] /\ pc'[t] = pc[t]
    BY <1>2 DEF JanitorBegins
  <2>4. pc'[Janitor] = "wipe" /\ pc' \in [Threads -> Steps]
    BY <1>2 DEF JanitorBegins
  <2>5. HasVictim' /\ HasAlbum'
    <3>1. HasVictim'
      BY <2>3, <2>4
    <3>2. album' = album
      BY <1>2 DEF JanitorBegins
    <3> QED
      BY <2>3, <3>1, <3>2
  <2>6. disturbances' \in 0 .. MaxDisturbances
    BY <1>2 DEF JanitorBegins
  <2>7. UNCHANGED <<remote, disk, torn, meta, records, limit, album, listing,
                    cancelled, cancelOf, todo, active, failed, short, alone,
                    touched, rewriting, mixed>>
    BY <1>2 DEF JanitorBegins
  <2> QED
    BY <2>2, <2>4, <2>5, <2>6, <2>7
<1>3. CASE DeletionsDone
  BY <1>3 DEF DeletionsDone
<1>4. ASSUME NEW a \in Albums, CancelMirror(a) PROVE TypeInv'
  BY <1>4 DEF CancelMirror
<1>5. ASSUME NEW mb \in Limits, SetMaxCacheMB(mb) PROVE TypeInv'
  BY <1>5 DEF SetMaxCacheMB, NoCall
<1>6. ASSUME NEW f \in Files, NEW now \in Versions, Edit(f, now) PROVE TypeInv'
  <2>1. remote' \in [Files -> Versions \ {0}]
    <3>1. remote[f] \in Versions \ {0} /\ remote[f] < now
      BY <1>6 DEF Edit
    <3>2. now \in Versions \ {0}
      BY <3>1 DEF Versions
    <3> QED
      BY <1>6, <3>2 DEF Edit
  <2>2. disturbances' \in 0 .. MaxDisturbances
    BY <1>6 DEF Edit
  <2>3. UNCHANGED <<disk, torn, meta, records, limit, pc, album, listing,
                    cancelled, cancelOf, todo, active, failed, victims, short,
                    alone, touched, rewriting, mixed>>
    BY <1>6 DEF Edit
  <2>4. HasVictim' /\ HasAlbum'
    BY <2>3
  <2> QED
    BY <2>1, <2>2, <2>3, <2>4
<1>7. CASE Crash
  BY <1>7 DEF Crash, NoWork, NoCall, NothingListed, Versions
<1> QED
  BY <1>1, <1>2, <1>3, <1>4, <1>5, <1>6, <1>7

LEMMA NextTypes == TypeInv /\ [Next]_vars => TypeInv'
<1> SUFFICES ASSUME TypeInv, [Next]_vars PROVE TypeInv'
  OBVIOUS
<1>1. ASSUME NEW r \in Mirrors, MirrorStep(r) PROVE TypeInv'
  BY <1>1, DeleteTypes, SpaceTypes, DownloadTypes DEF MirrorStep, Threads
<1>2. CASE Delete(Janitor)
  BY <1>2, DeleteTypes DEF Threads
<1>3. CASE UNCHANGED vars
  BY <1>3 DEF vars, world, store, job, work, evicting, history, TypeInv,
              TypeOK, HasVictim, HasAlbum, Running
<1> QED
  BY <1>1, <1>2, <1>3, OutsideTypes DEF Next

LEMMA SpecTypes == Spec => []TypeInv
  BY InitTypeInv, NextTypes, PTL DEF Spec

\* Every variable of the mirror and its cache keeps its type.
THEOREM TypeCorrect == Spec => []TypeOK
<1>1. TypeInv => TypeOK
  BY DEF TypeInv
<1> QED
  BY <1>1, SpecTypes, PTL

-------------------------------------------------------------------------------
(* The files and their metadata.                                             *)

\* A mirror that has its listing and has not given up.
Listed(r) == pc[r] \in {"space", "wipe", "unrecord", "forget", "filter",
                        "work", "report"}

\* The files that a download over up-to-date metadata, or two downloads at the
\* same time, may have left torn.
Doubtful == rewriting \cup mixed

\* Nothing is dated after the cloud's item.
DatesAreOld ==
    /\ \A f \in Files : meta[f] <= remote[f]
    /\ \A f \in Files : disk[f] > 0 => meta[f] <= disk[f] /\ disk[f] <= remote[f]
    /\ \A r \in Mirrors, f \in Files : listing[r][f] <= remote[f]

\* A mirror works on the items of its album that it has listed.
WorkIsOwned ==
    \A r \in Mirrors :
      /\ Listed(r) => \A f \in FilesOf(album[r]) : listing[r][f] > 0
      /\ active[r] # {} => pc[r] = "work"
      /\ todo[r] # {} => pc[r] \in {"work", "report"}
      /\ active[r] \cup todo[r] \subseteq FilesOf(album[r])
      /\ active[r] \cap todo[r] = {}

\* What is written under a download is no older than the listing.
DownloadsAreNew ==
    \A r \in Mirrors : \A f \in active[r] :
      disk[f] > 0 => disk[f] >= listing[r][f]

\* What two mirrors write at the same time is known to be so written.
SharedIsMixed ==
    \A r \in Mirrors : \A f \in active[r] :
      Shared(r, f) /\ disk[f] > 0 => f \in mixed

\* The metadata of a torn file is behind the cloud, and behind every listing
\* by which a mirror may decide to skip the file, unless it was torn since.
TornIsStale ==
    \A f \in torn \ Doubtful :
      /\ meta[f] < remote[f]
      /\ \A r \in Mirrors :
           Listed(r) /\ AlbumOf[f] = album[r] /\ f \notin touched[r] =>
             meta[f] < listing[r][f]

\* What a mirror has skipped or downloaded, and no other has touched, is there.
DoneIsWhole ==
    \A r \in Mirrors : pc[r] \in {"work", "report"} =>
      \A f \in FilesOf(album[r]) \ (todo[r] \cup failed[r] \cup touched[r]) :
        /\ disk[f] >= listing[r][f]
        /\ f \in active[r] \/ f \notin torn \ Doubtful

\* Only a cancelled mirror leaves items in the channel.
ReportIsDone ==
    \A r \in Mirrors : pc[r] = "report" /\ ~cancelled[r] => todo[r] = {}

IInv ==
    /\ DatesAreOld
    /\ WorkIsOwned
    /\ DownloadsAreNew
    /\ SharedIsMixed
    /\ TornIsStale
    /\ DoneIsWhole
    /\ ReportIsDone

LEMMA InitIInv == Init => IInv
  BY DataTypes DEF Init, NoWork, NoCall, NothingListed, Threads, IInv,
     DatesAreOld, WorkIsOwned, DownloadsAreNew, SharedIsMixed, TornIsStale,
     DoneIsWhole, ReportIsDone, Listed, Running

\* A step that only moves the calls, within the part of a mirror before its
\* downloads or to its end, and may cancel some.
LEMMA QuietStep ==
    ASSUME TypeInv, IInv,
           UNCHANGED <<remote, disk, torn, meta, album, listing, todo, active,
                       failed, touched, rewriting, mixed>>,
           \A r \in Mirrors :
             \/ pc'[r] = pc[r]
             \/ /\ pc[r] \notin {"idle", "work", "report"}
                /\ pc'[r] \notin {"idle", "work", "report"}
                /\ Listed(r)' => Listed(r),
           \A r \in Mirrors : cancelled[r] => cancelled'[r]
    PROVE  IInv'
<1> USE DEF IInv, Running
<1>1. \A r \in Mirrors : /\ Listed(r)' => Listed(r)
                         /\ Running(r)' => Running(r)
  BY DEF Listed
<1>2. \A r \in Mirrors : FilesOf(album[r])' = FilesOf(album[r])
  BY DEF FilesOf
<1>3. SharedIsMixed'
  BY DEF SharedIsMixed, Shared
<1>4. DatesAreOld' /\ DownloadsAreNew'
  BY DEF DatesAreOld, DownloadsAreNew
<1>5. WorkIsOwned'
  BY <1>1, <1>2 DEF WorkIsOwned
<1>6. TornIsStale'
  BY <1>1 DEF TornIsStale, Doubtful
<1>7. DoneIsWhole'
  BY <1>1, <1>2 DEF DoneIsWhole, Doubtful
<1>8. ReportIsDone'
  BY DEF ReportIsDone, TypeInv, TypeOK
<1> QED
  BY <1>3, <1>4, <1>5, <1>6, <1>7, <1>8

\* The dates are numbers and the torn files are files.
LEMMA Dates ==
    ASSUME TypeInv
    PROVE  /\ \A f \in Files :
                /\ remote[f] \in Nat \ {0}
                /\ disk[f] \in Nat
                /\ meta[f] \in Nat
                /\ \A r \in Mirrors : listing[r][f] \in Nat
           /\ torn \subseteq Files
  BY DataTypes DEF TypeInv, TypeOK, Versions

\* The beginning of a mirror and its listing.
LEMMA ListingStep ==
    ASSUME TypeInv, IInv, NEW r \in Mirrors,
           ListMedia(r) \/ \E a \in Albums : BeginMirror(r, a)
    PROVE  IInv'
<1>1. ASSUME NEW a \in Albums, BeginMirror(r, a) PROVE IInv'
  <2>1. /\ \A q \in Mirrors \ {r} : pc'[q] = pc[q] /\ album'[q] = album[q]
        /\ pc[r] = "idle" /\ pc'[r] = "list" /\ album'[r] = a
        /\ \A q \in Mirrors \ {r} : cancelled'[q] = cancelled[q]
        /\ UNCHANGED <<remote, disk, torn, meta, listing, todo, active,
                       failed, touched, rewriting, mixed>>
    BY <1>1 DEF BeginMirror, TypeInv, TypeOK, Threads, Goto, Running, world,
                store, work, evicting
  <2>2. SharedIsMixed'
    BY <2>1 DEF IInv, SharedIsMixed, Shared
  <2>3. DatesAreOld' /\ DownloadsAreNew'
    BY <2>1 DEF IInv, DatesAreOld, DownloadsAreNew
  <2>4. WorkIsOwned'
    BY <2>1 DEF IInv, WorkIsOwned, Listed, FilesOf
  <2>5. TornIsStale'
    BY <2>1 DEF IInv, TornIsStale, Listed, Doubtful
  <2>6. DoneIsWhole' /\ ReportIsDone'
    BY <2>1 DEF IInv, DoneIsWhole, ReportIsDone, FilesOf, Doubtful
  <2> QED
    BY <2>2, <2>3, <2>4, <2>5, <2>6 DEF IInv
<1>2. CASE ListMedia(r)
  <2>1. /\ \A q \in Mirrors \ {r} :
             /\ pc'[q] = pc[q] /\ listing'[q] = listing[q]
             /\ touched'[q] = touched[q]
        /\ pc[r] = "list" /\ pc'[r] = "space"
        /\ \A f \in Files :
             listing'[r][f] = IF AlbumOf[f] = album[r] THEN remote[f] ELSE 0
        /\ UNCHANGED <<remote, disk, torn, meta, album, todo, active, failed,
                       cancelled, rewriting, mixed>>
    BY <1>2 DEF ListMedia, TypeInv, TypeOK, Threads, Goto, world, store, work
  <2>2. active[r] = {} /\ todo[r] = {}
    BY <2>1 DEF IInv, WorkIsOwned
  <2>3. SharedIsMixed'
    BY <2>1 DEF IInv, SharedIsMixed, Shared
  <2>4. DatesAreOld'
    <3>1. ASSUME NEW q \in Mirrors, NEW f \in Files
          PROVE  listing'[q][f] <= remote[f]
      BY <2>1, Dates DEF IInv, DatesAreOld
    <3> QED
      BY <2>1, <3>1 DEF IInv, DatesAreOld
  <2>5. DownloadsAreNew'
    BY <2>1, <2>2 DEF IInv, DownloadsAreNew
  <2>6. WorkIsOwned'
    BY <2>1, <2>2, Dates DEF IInv, WorkIsOwned, Listed, FilesOf
  <2>7. TornIsStale'
    <3>1. ASSUME NEW f \in torn \ Doubtful, NEW q \in Mirrors, Listed(q)',
                 AlbumOf[f] = album[q], f \notin touched'[q]
          PROVE  meta[f] < listing'[q][f]
      BY <2>1, <3>1, Dates DEF IInv, TornIsStale, Listed
    <3> QED
      BY <2>1, <3>1 DEF IInv, TornIsStale, Doubtful
  <2>8. DoneIsWhole' /\ ReportIsDone'
    BY <2>1 DEF IInv, DoneIsWhole, ReportIsDone, FilesOf, Doubtful
  <2> QED
    BY <2>3, <2>4, <2>5, <2>6, <2>7, <2>8 DEF IInv
<1> QED
  BY <1>1, <1>2

\* The steps of a deletion that touch the files or their metadata.
LEMMA DeletionStep ==
    ASSUME TypeInv, IInv, NEW t \in Threads, Wipe(t) \/ Forget(t)
    PROVE  IInv'
<1>1. /\ pc[t] \in {"wipe", "forget"}
      /\ pc'[t] \in {"wipe", "unrecord"}
      /\ \A q \in Threads \ {t} : pc'[q] = pc[q]
      /\ UNCHANGED <<remote, album, listing, todo, active, failed, cancelled>>
  BY DEF Wipe, Forget, Goto, TypeInv, TypeOK, world, job, work
<1>2. \A r \in Mirrors : /\ Listed(r)' => Listed(r)
                         /\ Running(r)' => Running(r)
                         /\ pc'[r] \in {"work", "report"} => pc'[r] = pc[r]
  BY <1>1 DEF Listed, Running, Threads
<1>4. WorkIsOwned'
  BY <1>1, <1>2 DEF IInv, WorkIsOwned, FilesOf, Threads
<1>5. ReportIsDone'
  BY <1>1, <1>2 DEF IInv, ReportIsDone
<1>6. CASE Wipe(t)
  <2> DEFINE gone == FilesOf(Head(victims[t]))
  <2>1. /\ disk' = [f \in Files |-> IF f \in gone THEN 0 ELSE disk[f]]
        /\ torn' = torn \ gone
        /\ Doubtful' = Doubtful \ gone
        /\ mixed' = mixed \ gone
        /\ meta' = meta
        /\ \A q \in Mirrors :
             touched'[q] = IF album[q] = Head(victims[t]) THEN gone ELSE touched[q]
    BY <1>6 DEF Wipe, TypeInv, TypeOK, Doubtful
  <2>2. DatesAreOld' /\ DownloadsAreNew'
    BY <1>1, <2>1 DEF IInv, DatesAreOld, DownloadsAreNew, WorkIsOwned, FilesOf
  <2>3. SharedIsMixed'
    <3>1. \A r \in Mirrors : active[r] \subseteq Files
      BY DEF TypeInv, TypeOK
    <3> QED
      BY <1>1, <2>1, <3>1 DEF IInv, SharedIsMixed, Shared
  <2>4. TornIsStale'
    <3>1. ASSUME NEW f \in torn' \ Doubtful', NEW r \in Mirrors, Listed(r)',
                 AlbumOf[f] = album[r], f \notin touched'[r]
          PROVE  meta[f] < listing[r][f]
      <4>1. f \in torn \ Doubtful /\ f \notin gone
        BY <2>1, <3>1
      <4>2. f \notin touched[r]
        BY <2>1, <3>1, <4>1, Dates DEF FilesOf
      <4> QED
        BY <1>2, <3>1, <4>1, <4>2 DEF IInv, TornIsStale
    <3>2. ASSUME NEW f \in torn' \ Doubtful' PROVE meta[f] < remote[f]
      BY <2>1, <3>2 DEF IInv, TornIsStale
    <3> QED
      BY <1>1, <2>1, <3>1, <3>2 DEF TornIsStale
  <2>5. DoneIsWhole'
    <3>1. ASSUME NEW r \in Mirrors, pc'[r] \in {"work", "report"},
                 NEW f \in FilesOf(album[r]) \ (todo[r] \cup failed[r] \cup touched'[r])
          PROVE  /\ disk'[f] >= listing[r][f]
                 /\ f \in active[r] \/ f \notin torn' \ Doubtful'
      <4>1. f \notin gone /\ f \notin touched[r]
        BY <2>1, <3>1 DEF FilesOf
      <4> QED
        BY <1>2, <2>1, <3>1, <4>1 DEF IInv, DoneIsWhole, FilesOf
    <3> QED
      BY <1>1, <3>1 DEF DoneIsWhole, FilesOf
  <2> QED
    BY <1>4, <1>5, <2>2, <2>3, <2>4, <2>5 DEF IInv
<1>7. CASE Forget(t)
  <2>1. /\ \A f \in Files : meta'[f] = meta[f] \/ meta'[f] = 0
        /\ UNCHANGED <<disk, torn, touched, rewriting, mixed>>
    BY <1>7 DEF Forget, history
  <2>2. \A f \in Files : meta'[f] <= meta[f] /\ meta'[f] \in Nat
    BY <2>1, Dates
  <2>3. DatesAreOld' /\ DownloadsAreNew'
    BY <1>1, <2>1, <2>2, Dates DEF IInv, DatesAreOld, DownloadsAreNew
  <2>4. TornIsStale'
    <3>1. ASSUME NEW f \in torn \ Doubtful PROVE meta'[f] < remote[f]
      BY <2>2, Dates DEF IInv, TornIsStale
    <3>2. ASSUME NEW f \in torn \ Doubtful, NEW r \in Mirrors, Listed(r)',
                 AlbumOf[f] = album[r], f \notin touched[r]
          PROVE  meta'[f] < listing[r][f]
      BY <1>2, <2>2, <3>2, Dates DEF IInv, TornIsStale
    <3> QED
      BY <1>1, <2>1, <3>1, <3>2 DEF TornIsStale, Doubtful
  <2>5. DoneIsWhole' /\ SharedIsMixed'
    BY <1>1, <1>2, <2>1 DEF IInv, DoneIsWhole, SharedIsMixed, Shared, FilesOf,
                            Doubtful
  <2> QED
    BY <1>4, <1>5, <2>3, <2>4, <2>5 DEF IInv
<1> QED
  BY <1>6, <1>7

\* The filter: what it skips is as new as the listing and not torn.
LEMMA FilterStep ==
    ASSUME TypeInv, IInv, NEW r \in Mirrors, Filter(r)
    PROVE  IInv'
<1> DEFINE stale == {f \in FilesOf(album[r]) : ~(UpToDate(r, f) /\ disk[f] > 0)}
<1>1. /\ pc[r] = "filter" /\ pc'[r] \in {"work", "report"}
      /\ pc'[r] = "report" => stale = {}
      /\ todo'[r] = stale
      /\ \A q \in Mirrors \ {r} : pc'[q] = pc[q] /\ todo'[q] = todo[q]
      /\ UNCHANGED <<remote, disk, torn, meta, album, listing, active, failed,
                     cancelled, touched, rewriting, mixed>>
  BY DEF Filter, TypeInv, TypeOK, Threads, Goto, world, store, job, history
<1>2. active[r] = {}
  BY <1>1 DEF IInv, WorkIsOwned
<1>3. \A f \in FilesOf(album[r]) \ (stale \cup touched[r]) :
        disk[f] >= listing[r][f] /\ f \notin torn \ Doubtful
  <2> SUFFICES ASSUME NEW f \in FilesOf(album[r]), f \notin stale,
                      f \notin touched[r]
               PROVE  disk[f] >= listing[r][f] /\ f \notin torn \ Doubtful
    OBVIOUS
  <2>1. /\ f \in Files /\ AlbumOf[f] = album[r]
        /\ meta[f] >= listing[r][f] /\ disk[f] > 0
    BY DEF UpToDate, FilesOf
  <2>2. disk[f] >= meta[f]
    BY <2>1, Dates DEF IInv, DatesAreOld
  <2>3. f \in torn \ Doubtful => meta[f] < listing[r][f]
    BY <1>1, <2>1 DEF IInv, TornIsStale, Listed
  <2> QED
    BY <2>1, <2>2, <2>3, Dates
<1>4. SharedIsMixed'
  BY <1>1 DEF IInv, SharedIsMixed, Shared
<1>5. DatesAreOld' /\ DownloadsAreNew'
  BY <1>1 DEF IInv, DatesAreOld, DownloadsAreNew
<1>6. WorkIsOwned'
  BY <1>1, <1>2 DEF IInv, WorkIsOwned, Listed, FilesOf
<1>7. TornIsStale'
  BY <1>1 DEF IInv, TornIsStale, Listed, Doubtful
<1>8. DoneIsWhole'
  <2> HIDE DEF stale
  <2> QED
    BY <1>1, <1>3 DEF IInv, DoneIsWhole, FilesOf, Doubtful
<1>9. ReportIsDone'
  BY <1>1 DEF IInv, ReportIsDone
<1> QED
  BY <1>4, <1>5, <1>6, <1>7, <1>8, <1>9 DEF IInv

\* A download begins.
LEMMA TakeStep ==
    ASSUME TypeInv, IInv, NEW r \in Mirrors, NEW f \in Files, Take(r, f)
    PROVE  IInv'
<1>1. /\ pc[r] = "work" /\ f \in todo[r]
      /\ todo'[r] = todo[r] \ {f} /\ active'[r] = active[r] \cup {f}
      /\ \A q \in Mirrors \ {r} :
           todo'[q] = todo[q] /\ active'[q] = active[q]
      /\ disk' = [disk EXCEPT ![f] = remote[f]]
      /\ torn' = torn \cup {f}
      /\ rewriting' = IF UpToDate(r, f) THEN rewriting \cup {f} ELSE rewriting
      /\ mixed' = IF Shared(r, f) THEN mixed \cup {f} ELSE mixed \ {f}
      /\ UNCHANGED <<remote, meta, pc, album, listing, failed, cancelled>>
  BY DEF Take, TypeInv, TypeOK, world, job
<1>2. /\ disk'[f] = remote[f]
      /\ \A g \in Files \ {f} : disk'[g] = disk[g]
  BY <1>1 DEF TypeInv, TypeOK
<1>3. Listed(r) /\ f \in FilesOf(album[r])
  BY <1>1 DEF IInv, WorkIsOwned, Listed
<1>4. /\ touched'[r] = touched[r]
      /\ \A q \in Mirrors : touched[q] \subseteq touched'[q]
      /\ \A q \in Mirrors \ {r} : album[q] = AlbumOf[f] => f \in touched'[q]
  BY DEF Take, TypeInv, TypeOK
<1>5. ReportIsDone'
  BY <1>1 DEF IInv, ReportIsDone
<1>6. DatesAreOld'
  BY <1>1, <1>2, Dates DEF IInv, DatesAreOld
<1>7. WorkIsOwned'
  BY <1>1, <1>3 DEF IInv, WorkIsOwned, Listed, FilesOf
<1>8. DownloadsAreNew'
  <2> SUFFICES ASSUME NEW q \in Mirrors, NEW g \in active'[q], disk'[g] > 0
               PROVE  disk'[g] >= listing[q][g]
    BY <1>1 DEF DownloadsAreNew
  <2>1. g \in Files
    BY <1>1, <1>7 DEF WorkIsOwned, FilesOf
  <2>2. CASE g = f
    BY <1>2, <2>2, Dates DEF IInv, DatesAreOld
  <2>3. CASE g # f
    BY <1>1, <1>2, <2>1, <2>3 DEF IInv, DownloadsAreNew
  <2> QED
    BY <2>2, <2>3
<1>9. SharedIsMixed'
  <2> SUFFICES ASSUME NEW q \in Mirrors, NEW g \in active'[q], disk'[g] > 0,
                      NEW p \in Mirrors \ {q}, g \in active'[p]
               PROVE  g \in mixed'
    BY DEF SharedIsMixed, Shared
  <2>1. g \in Files
    BY <1>1, <1>7 DEF WorkIsOwned, FilesOf
  <2>2. CASE g = f /\ (q = r \/ p = r)
    BY <1>1, <2>2 DEF Shared
  <2>3. CASE g = f /\ q # r
    BY <1>1, <2>3 DEF Shared
  <2>4. CASE g # f
    BY <1>1, <1>2, <2>1, <2>4 DEF IInv, SharedIsMixed, Shared
  <2> QED
    BY <2>2, <2>3, <2>4
<1>10. \A g \in Files \ {f} : g \in Doubtful' <=> g \in Doubtful
  BY <1>1 DEF Doubtful
<1>11. TornIsStale'
  <2> SUFFICES ASSUME NEW g \in torn' \ Doubtful'
               PROVE  /\ meta[g] < remote[g]
                      /\ \A q \in Mirrors :
                           Listed(q) /\ AlbumOf[g] = album[q] /\ g \notin touched'[q]
                             => meta[g] < listing[q][g]
    BY <1>1 DEF TornIsStale, Listed
  <2>1. CASE g = f
    <3>1. ~UpToDate(r, f)
      BY <1>1, <2>1 DEF Doubtful
    <3>2. listing[r][f] > 0 /\ listing[r][f] <= remote[f]
      BY <1>3 DEF IInv, WorkIsOwned, DatesAreOld
    <3>3. meta[f] < remote[f] /\ meta[f] < listing[r][f]
      BY <3>1, <3>2, Dates DEF UpToDate
    <3> QED
      BY <1>4, <2>1, <3>3
  <2>2. CASE g # f
    <3>1. g \in torn \ Doubtful
      BY <1>1, <1>10, <2>2, Dates
    <3> QED
      BY <1>4, <3>1 DEF IInv, TornIsStale
  <2> QED
    BY <2>1, <2>2
<1>12. DoneIsWhole'
  <2> SUFFICES ASSUME NEW q \in Mirrors, pc[q] \in {"work", "report"},
                      NEW g \in FilesOf(album[q])
                               \ (todo'[q] \cup failed[q] \cup touched'[q])
               PROVE  /\ disk'[g] >= listing[q][g]
                      /\ g \in active'[q] \/ g \notin torn' \ Doubtful'
    BY <1>1 DEF DoneIsWhole, FilesOf
  <2>1. g \in Files /\ AlbumOf[g] = album[q]
    BY DEF FilesOf
  <2>2. CASE g = f
    <3>1. q = r
      BY <1>4, <2>1, <2>2
    <3> QED
      BY <1>1, <1>2, <2>2, <3>1, Dates DEF IInv, DatesAreOld
  <2>3. CASE g # f
    <3>1. g \notin todo[q] \cup failed[q] \cup touched[q]
      BY <1>1, <1>4, <2>3
    <3> QED
      BY <1>1, <1>2, <1>10, <2>1, <2>3, <3>1 DEF IInv, DoneIsWhole, FilesOf
  <2> QED
    BY <2>2, <2>3
<1> QED
  BY <1>5, <1>6, <1>7, <1>8, <1>9, <1>11, <1>12 DEF IInv

\* An item moves to dlErrors; what was written of it stays.
LEMMA FailStep ==
    ASSUME TypeInv, IInv, NEW r \in Mirrors, NEW f \in Files,
           TakeFails(r, f) \/ Fail(r, f)
    PROVE  IInv'
<1>1. /\ todo'[r] \subseteq todo[r] /\ active'[r] \subseteq active[r]
      /\ failed'[r] = failed[r] \cup {f}
      /\ todo[r] \subseteq todo'[r] \cup {f}
      /\ active[r] \subseteq active'[r] \cup {f}
      /\ \A q \in Mirrors \ {r} : /\ todo'[q] = todo[q]
                                  /\ active'[q] = active[q]
                                  /\ failed'[q] = failed[q]
      /\ UNCHANGED <<remote, disk, torn, meta, pc, album, listing, cancelled,
                     touched, rewriting, mixed>>
  BY DEF TakeFails, Fail, TypeInv, TypeOK, store, job, history
<1>2. SharedIsMixed' /\ DatesAreOld'
  <2>1. \A q \in Mirrors : active'[q] \subseteq active[q]
    BY <1>1
  <2> QED
    BY <1>1, <2>1 DEF IInv, SharedIsMixed, Shared, DatesAreOld
<1>3. WorkIsOwned'
  BY <1>1 DEF IInv, WorkIsOwned, Listed, FilesOf
<1>4. DownloadsAreNew' /\ TornIsStale'
  BY <1>1 DEF IInv, DownloadsAreNew, TornIsStale, Listed, Doubtful
<1>5. DoneIsWhole'
  BY <1>1 DEF IInv, DoneIsWhole, FilesOf, Doubtful
<1>6. ReportIsDone'
  BY <1>1 DEF IInv, ReportIsDone
<1> QED
  BY <1>2, <1>3, <1>4, <1>5, <1>6 DEF IInv

\* A download comes to its end.  Alone it leaves the file whole; written by two
\* the file stays doubtful.
LEMMA FinishStep ==
    ASSUME TypeInv, IInv, NEW r \in Mirrors, NEW f \in Files, Finish(r, f)
    PROVE  IInv'
<1>1. /\ pc[r] = "work" /\ f \in active[r]
      /\ UNCHANGED <<remote, disk, pc, album, listing, todo, failed, cancelled,
                     touched, mixed>>
  BY DEF Finish, job
<1>2. /\ active'[r] = active[r] \ {f}
      /\ \A q \in Mirrors \ {r} : active'[q] = active[q]
      /\ meta'[f] \in {meta[f], listing[r][f]}
      /\ \A g \in Files \ {f} : meta'[g] = meta[g]
  BY DEF Finish, TypeInv, TypeOK
<1>3. torn' \ Doubtful' = (torn \ Doubtful) \ {f}
  <2>1. CASE f \notin mixed /\ ~Shared(r, f)
    <3>1. torn' = torn \ {f} /\ rewriting' = rewriting \ {f}
      BY <2>1 DEF Finish, WrittenToItsEnd
    <3> QED
      BY <1>1, <3>1 DEF Doubtful
  <2>2. CASE f \in mixed \/ Shared(r, f)
    <3>1. torn' \in {torn, torn \ {f}} /\ rewriting' = rewriting
      BY <2>2 DEF Finish, WrittenToItsEnd
    <3>2. f \in torn => f \in Doubtful
      <4>1. f \in torn => disk[f] > 0
        BY DEF TypeInv, TypeOK
      <4> QED
        BY <1>1, <2>2, <4>1 DEF IInv, SharedIsMixed, Doubtful
    <3> QED
      BY <1>1, <3>1, <3>2 DEF Doubtful
  <2> QED
    BY <2>1, <2>2
<1>4. SharedIsMixed' /\ ReportIsDone'
  <2>1. \A q \in Mirrors : active'[q] \subseteq active[q]
    BY <1>2
  <2> QED
    BY <1>1, <2>1 DEF IInv, SharedIsMixed, Shared, ReportIsDone
<1>5. DatesAreOld'
  <2>1. disk[f] > 0 => disk[f] >= listing[r][f]
    BY <1>1 DEF IInv, DownloadsAreNew
  <2>2. /\ meta'[f] <= remote[f]
        /\ disk[f] > 0 => meta'[f] <= disk[f]
    BY <1>2, <2>1 DEF IInv, DatesAreOld
  <2> QED
    BY <1>1, <1>2, <2>2 DEF IInv, DatesAreOld
<1>6. WorkIsOwned' /\ DownloadsAreNew'
  BY <1>1, <1>2 DEF IInv, WorkIsOwned, DownloadsAreNew, Listed, FilesOf
<1>7. TornIsStale'
  <2>1. \A g \in torn' \ Doubtful' : g \in torn \ Doubtful /\ meta'[g] = meta[g]
    BY <1>2, <1>3, Dates
  <2> QED
    BY <1>1, <2>1 DEF IInv, TornIsStale, Listed
<1>8. DoneIsWhole'
  <2> SUFFICES ASSUME NEW q \in Mirrors, pc[q] \in {"work", "report"},
                      NEW g \in FilesOf(album[q])
                               \ (todo[q] \cup failed[q] \cup touched[q])
               PROVE  /\ disk[g] >= listing[q][g]
                      /\ g \in active'[q] \/ g \notin torn' \ Doubtful'
    BY <1>1 DEF DoneIsWhole, FilesOf
  <2>1. /\ disk[g] >= listing[q][g]
        /\ g \in active[q] \/ g \notin torn \ Doubtful
    BY DEF IInv, DoneIsWhole
  <2> QED
    BY <1>2, <1>3, <2>1
<1> QED
  BY <1>4, <1>5, <1>6, <1>7, <1>8 DEF IInv

\* The end of a mirror.
LEMMA EndStep ==
    ASSUME TypeInv, IInv, NEW r \in Mirrors, FinishMirror(r) \/ Return(r)
    PROVE  IInv'
<1>1. CASE FinishMirror(r)
  <2>1. /\ pc[r] = "work" /\ pc'[r] = "report"
        /\ todo[r] = {} \/ cancelled[r]
        /\ active[r] = {}
        /\ \A q \in Mirrors \ {r} : pc'[q] = pc[q]
        /\ UNCHANGED <<remote, disk, torn, meta, album, listing, todo, active,
                       failed, cancelled, touched, rewriting, mixed>>
    BY <1>1 DEF FinishMirror, TypeInv, TypeOK, Threads, Goto, job, work, history
  <2>2. SharedIsMixed' /\ DatesAreOld' /\ DownloadsAreNew'
    BY <2>1 DEF IInv, SharedIsMixed, Shared, DatesAreOld, DownloadsAreNew
  <2>3. WorkIsOwned'
    BY <2>1 DEF IInv, WorkIsOwned, Listed, FilesOf
  <2>4. TornIsStale'
    BY <2>1 DEF IInv, TornIsStale, Listed, Doubtful
  <2>5. DoneIsWhole' /\ ReportIsDone'
    BY <2>1 DEF IInv, DoneIsWhole, ReportIsDone, FilesOf, Doubtful
  <2> QED
    BY <2>2, <2>3, <2>4, <2>5 DEF IInv
<1>2. CASE Return(r)
  <2>1. /\ pc[r] \in {"report", "error"} /\ pc'[r] = "idle"
        /\ todo'[r] = {}
        /\ \A f \in Files : listing'[r][f] = 0
        /\ \A q \in Mirrors \ {r} :
             /\ pc'[q] = pc[q] /\ todo'[q] = todo[q]
             /\ failed'[q] = failed[q] /\ cancelled'[q] = cancelled[q]
             /\ album'[q] = album[q] /\ listing'[q] = listing[q]
             /\ touched'[q] = touched[q]
        /\ UNCHANGED <<remote, disk, torn, meta, active, rewriting, mixed>>
    BY <1>2 DEF Return, NothingListed, TypeInv, TypeOK, Threads, Goto, world,
                store
  <2>2. active[r] = {}
    BY <2>1 DEF IInv, WorkIsOwned
  <2>3. SharedIsMixed'
    BY <2>1 DEF IInv, SharedIsMixed, Shared
  <2>4. DatesAreOld'
    <3>1. ASSUME NEW q \in Mirrors, NEW f \in Files
          PROVE  listing'[q][f] <= remote[f]
      BY <2>1, Dates DEF IInv, DatesAreOld
    <3> QED
      BY <2>1, <3>1 DEF IInv, DatesAreOld
  <2>5. DownloadsAreNew'
    BY <2>1, <2>2 DEF IInv, DownloadsAreNew
  <2>6. WorkIsOwned'
    BY <2>1, <2>2 DEF IInv, WorkIsOwned, Listed, FilesOf
  <2>7. TornIsStale'
    BY <2>1 DEF IInv, TornIsStale, Listed, Doubtful
  <2>8. DoneIsWhole' /\ ReportIsDone'
    BY <2>1 DEF IInv, DoneIsWhole, ReportIsDone, FilesOf, Doubtful
  <2> QED
    BY <2>3, <2>4, <2>5, <2>6, <2>7, <2>8 DEF IInv
<1> QED
  BY <1>1, <1>2

\* An edit in the cloud and a crash.
LEMMA WorldStep ==
    ASSUME TypeInv, IInv,
           Crash \/ \E f \in Files, now \in Versions : Edit(f, now)
    PROVE  IInv'
<1>1. ASSUME NEW f \in Files, NEW now \in Versions, Edit(f, now) PROVE IInv'
  <2>1. /\ remote' = [remote EXCEPT ![f] = now]
        /\ \A g \in Files : remote[g] < now
        /\ UNCHANGED <<disk, torn, meta, pc, album, listing, todo, active,
                       failed, cancelled, touched, rewriting, mixed>>
    BY <1>1 DEF Edit, store, job, work, history
  <2>2. \A g \in Files : remote'[g] \in Nat /\ remote[g] <= remote'[g]
    BY <2>1, Dates, DataTypes DEF TypeInv, TypeOK, Versions
  <2>3. SharedIsMixed' /\ WorkIsOwned' /\ DownloadsAreNew'
    BY <2>1 DEF IInv, SharedIsMixed, Shared, WorkIsOwned, DownloadsAreNew, Listed,
                FilesOf
  <2>4. DatesAreOld'
    <3>1. \A g \in Files : meta[g] <= remote'[g]
      BY <2>2, Dates DEF IInv, DatesAreOld
    <3>2. \A g \in Files : disk[g] > 0 => meta[g] <= disk[g] /\ disk[g] <= remote'[g]
      BY <2>2, Dates DEF IInv, DatesAreOld
    <3>3. \A q \in Mirrors, g \in Files : listing[q][g] <= remote'[g]
      BY <2>2, Dates DEF IInv, DatesAreOld
    <3> QED
      BY <2>1, <3>1, <3>2, <3>3 DEF DatesAreOld
  <2>5. TornIsStale'
    <3>1. \A g \in torn \ Doubtful : meta[g] < remote'[g]
      BY <2>2, Dates DEF IInv, TornIsStale
    <3> QED
      BY <2>1, <3>1 DEF IInv, TornIsStale, Listed, Doubtful
  <2>6. DoneIsWhole' /\ ReportIsDone'
    BY <2>1 DEF IInv, DoneIsWhole, ReportIsDone, FilesOf, Doubtful
  <2> QED
    BY <2>3, <2>4, <2>5, <2>6 DEF IInv
<1>2. CASE Crash
  <2>1. /\ \A r \in Mirrors : /\ pc'[r] = "idle"
                              /\ todo'[r] = {} /\ active'[r] = {}
                              /\ \A f \in Files : listing'[r][f] = 0
        /\ UNCHANGED <<remote, disk, torn, meta, rewriting, mixed>>
    BY <1>2 DEF Crash, Threads, NoWork, NothingListed, store
  <2>2. SharedIsMixed' /\ WorkIsOwned' /\ DownloadsAreNew'
    BY <2>1 DEF SharedIsMixed, WorkIsOwned, DownloadsAreNew, Listed
  <2>3. DatesAreOld'
    BY <2>1, Dates DEF IInv, DatesAreOld
  <2>4. TornIsStale' /\ DoneIsWhole' /\ ReportIsDone'
    BY <2>1 DEF IInv, TornIsStale, DoneIsWhole, ReportIsDone, Listed, Doubtful
  <2> QED
    BY <2>2, <2>3, <2>4 DEF IInv
<1> QED
  BY <1>1, <1>2

LEMMA NextIInv == TypeInv /\ IInv /\ [Next]_vars => IInv'
<1> SUFFICES ASSUME TypeInv, IInv, [Next]_vars PROVE IInv'
  OBVIOUS
<1> DEFINE Moves == /\ UNCHANGED <<remote, disk, torn, meta, album, listing,
                                   todo, active, failed, touched, rewriting,
                                   mixed>>
                    /\ \A r \in Mirrors :
                         \/ pc'[r] = pc[r]
                         \/ /\ pc[r] \notin {"idle", "work", "report"}
                            /\ pc'[r] \notin {"idle", "work", "report"}
                            /\ Listed(r)' => Listed(r)
                    /\ \A r \in Mirrors : cancelled[r] => cancelled'[r]
<1>1. Moves => IInv'
  BY QuietStep
<1>2. ASSUME NEW t \in Threads, Delete(t) PROVE IInv'
  <2>1. CASE Unrecord(t) \/ DeleteFails(t)
    <3>1. Moves
      BY <2>1 DEF Unrecord, DeleteFails, TypeInv, TypeOK, Threads, Listed, Goto,
                  world, store, job, work, history
    <3> QED
      BY <1>1, <3>1
  <2> QED
    BY <1>2, <2>1, DeletionStep DEF Delete
<1>3. ASSUME NEW r \in Mirrors, MirrorStep(r) PROVE IInv'
  <2>1. CASE ListFails(r) \/ CheckSpace(r) \/ SpaceFreed(r)
    <3>1. Moves
      BY <2>1 DEF ListFails, CheckSpace, SpaceFreed, TypeInv, TypeOK, Threads,
                  Listed, Goto, world, store, job, work, history
    <3> QED
      BY <1>1, <3>1
  <2>2. CASE Download(r)
    BY <2>2, TakeStep, FailStep, FinishStep DEF Download
  <2>3. CASE Delete(r)
    BY <2>3, <1>2 DEF Threads
  <2> QED
    BY <1>3, <2>1, <2>2, <2>3, ListingStep, FilterStep, EndStep DEF MirrorStep
<1>4. CASE JanitorBegins \/ DeletionsDone
  <2>1. Moves
    BY <1>4, Names DEF JanitorBegins, DeletionsDone, TypeInv, TypeOK, Threads,
                       Goto, world, store, job, work, history
  <2> QED
    BY <1>1, <2>1
<1>5. CASE \/ \E a \in Albums : CancelMirror(a)
           \/ \E mb \in Limits : SetMaxCacheMB(mb)
           \/ UNCHANGED vars
  <2>1. Moves
    BY <1>5 DEF CancelMirror, SetMaxCacheMB, TypeInv, TypeOK, vars, world,
                store, job, work, history
  <2> QED
    BY <1>1, <2>1
<1>6. Delete(Janitor) => IInv'
  BY <1>2 DEF Threads
<1> HIDE DEF Moves
<1> QED
  BY <1>3, <1>4, <1>5, <1>6, ListingStep, WorldStep DEF Next

LEMMA SpecIInv == Spec => []IInv
  BY InitIInv, NextIInv, SpecTypes, PTL DEF Spec

\* The filter skips no stale and no torn file, whatever fails, crashes, is
\* edited, deleted or mirrored at the same time: mirror.go:127, but for a download
\* begun over up-to-date metadata and a file two mirrors write at the same time.
THEOREM SkipsSound == Spec => []SkipsAreSound
<1>1. TypeInv /\ IInv => SkipsAreSound
  <2> SUFFICES ASSUME TypeInv, IInv, NEW f \in Files \ (rewriting \cup mixed),
                      meta[f] = remote[f], disk[f] > 0
               PROVE  disk[f] = remote[f] /\ f \notin torn
    BY DEF SkipsAreSound
  <2>1. disk[f] = remote[f]
    BY Dates DEF IInv, DatesAreOld
  <2>2. f \notin torn
    BY Dates DEF IInv, TornIsStale, Doubtful
  <2> QED
    BY <2>1, <2>2
<1> QED
  BY <1>1, SpecTypes, SpecIInv, PTL

\* A mirror that reports no failure has every listed item whole on the disk, but
\* for what another call has deleted or begun to write since its listing: the
\* result of mirror.go:226.
THEOREM SuccessReal == Spec => []SuccessIsReal
<1>1. TypeInv /\ IInv => SuccessIsReal
  <2> SUFFICES ASSUME TypeInv, IInv, NEW r \in Mirrors, pc[r] = "report",
                      failed[r] = {}, ~cancelled[r],
                      NEW f \in FilesOf(album[r])
                               \ (touched[r] \cup rewriting \cup mixed)
               PROVE  disk[f] >= listing[r][f] /\ f \notin torn
    BY DEF SuccessIsReal
  <2>1. todo[r] = {} /\ active[r] = {}
    BY DEF IInv, ReportIsDone, WorkIsOwned
  <2> QED
    BY <2>1 DEF IInv, DoneIsWhole, Doubtful
<1> QED
  BY <1>1, SpecTypes, SpecIInv, PTL

-------------------------------------------------------------------------------
(* The cache.                                                               *)

\* The files of the recorded albums that a mirror's eviction leaves in place.
Left(r) ==
    {f \in Files : /\ disk[f] > 0
                   /\ AlbumOf[f] \in Range(records)
                   /\ AlbumOf[f] # album[r]
                   /\ AlbumOf[f] \notin Range(victims[r])}

\* They leave room for the whole album.
Fitting(r) == Cardinality(Left(r)) + Cardinality(FilesOf(album[r])) <= limit

\* Nobody else fills the cache under a mirror that is alone.  Until its eviction
\* is over the victims do not count, and the one being deleted is empty.
RoomIsLeft(r) ==
    /\ \A q \in Mirrors \ {r} : ~Running(q)
    /\ pc[r] \in {"wipe", "unrecord", "forget", "filter", "work", "report", "error"}
    /\ pc[r] \in {"wipe", "unrecord", "forget"} /\ ~short[r] => Fitting(r)
    /\ pc[r] \in {"unrecord", "forget"} =>
          \A f \in FilesOf(Head(victims[r])) : disk[f] = 0
    /\ pc[r] \in {"filter", "work", "report"} => victims[r] = <<>> /\ Fitting(r)

\* A mirror downloads its own album.
WorksOnItsAlbum ==
    \A r \in Mirrors : /\ todo[r] \subseteq FilesOf(album[r])
                       /\ todo[r] # {} => pc[r] \in {"work", "report"}

RoomInv ==
    /\ WorksOnItsAlbum
    /\ \A r \in Mirrors : alone[r] => RoomIsLeft(r)

\* What the sequences hold that the code makes of records and victims.
LEMMA RangeWithout ==
    ASSUME NEW s \in Seq(Albums), NEW a
    PROVE  Range(Without(s, a)) \subseteq Range(s)
<1>1. s \in Seq(Range(s))
  BY SeqOfRange
<1>2. Without(s, a) \in Seq(Range(s))
  BY <1>1, WithoutType
<1> QED
  BY <1>2, RangeOfSeq

LEMMA RangeAppend ==
    ASSUME NEW s \in Seq(Albums), NEW a
    PROVE  Range(Append(s, a)) \subseteq Range(s) \cup {a}
<1> DEFINE T == Range(s) \cup {a}
<1>1. Range(s) \subseteq T /\ a \in T
  OBVIOUS
<1> HIDE DEF T
<1>2. s \in Seq(T)
  BY <1>1, SeqOfRange, SeqMonotonic
<1>3. Append(s, a) \in Seq(T)
  BY <1>1, <1>2, AppendProperties
<1>4. Range(Append(s, a)) \subseteq T
  BY <1>3, RangeOfSeq
<1> QED
  BY <1>4 DEF T

LEMMA RangeTail ==
    ASSUME NEW s \in Seq(Albums), s # <<>>
    PROVE  Range(s) \subseteq {Head(s)} \cup Range(Tail(s))
<1>1. /\ Range(s) = {s[i] : i \in 1 .. Len(s)}
      /\ Tail(s) \in Seq(Albums) /\ Len(Tail(s)) = Len(s) - 1
      /\ \A i \in 1 .. Len(Tail(s)) : Tail(s)[i] = s[i + 1]
      /\ Head(s) = s[1]
  BY HeadTailProperties DEF Range
<1>2. ASSUME NEW i \in 1 .. Len(s), i # 1 PROVE s[i] \in Range(Tail(s))
  <2>1. i - 1 \in 1 .. Len(Tail(s)) /\ Tail(s)[i - 1] = s[i]
    BY <1>1, <1>2
  <2>2. DOMAIN Tail(s) = 1 .. Len(Tail(s))
    BY <1>1
  <2> QED
    BY <2>1, <2>2 DEF Range
<1> QED
  BY <1>1, <1>2

LEMMA RangeSubSeq ==
    ASSUME NEW s \in Seq(Albums), NEW n \in 0 .. Len(s)
    PROVE  Range(SubSeq(s, 1, n)) \subseteq Range(s)
<1>1. s \in Seq(Range(s))
  BY SeqOfRange
<1>2. SubSeq(s, 1, n) \in Seq(Range(s))
  <2>1. \A i \in 1 .. n : s[i] \in Range(s)
    BY <1>1
  <2> QED
    BY <2>1, <1>1, SubSeqProperties
<1> QED
  BY <1>2, RangeOfSeq

\* Sets of files are finite.
LEMMA FewFiles ==
    ASSUME NEW F, F \subseteq Files
    PROVE  IsFiniteSet(F) /\ Cardinality(F) \in Nat
BY FinitelyManyFiles, FS_Subset, FS_CardinalityType

\* Room that was left is left when a step adds no file and no record but the
\* mirror's own, and gives no victim up that still has files.
LEMMA StillFits ==
    ASSUME TypeOK, NEW r \in Mirrors, Fitting(r),
           album'[r] = album[r], limit' = limit,
           Range(records') \subseteq Range(records) \cup {album[r]},
           \A f \in Files : disk'[f] > 0 =>
             /\ disk[f] > 0 \/ AlbumOf[f] = album[r]
             /\ AlbumOf[f] \in Range(victims[r]) => AlbumOf[f] \in Range(victims'[r])
    PROVE  Fitting(r)'
<1>1. Left(r)' \subseteq Left(r)
  BY DEF Left
<1>2. Left(r) \subseteq Files /\ FilesOf(album[r]) \subseteq Files
  BY DEF Left, FilesOf
<1>3. /\ Cardinality(Left(r)') <= Cardinality(Left(r))
      /\ Cardinality(Left(r)') \in Nat /\ Cardinality(Left(r)) \in Nat
  BY <1>1, <1>2, FewFiles, FS_Subset
<1>4. FilesOf(album[r])' = FilesOf(album[r]) /\ Cardinality(FilesOf(album[r])) \in Nat
  BY <1>2, FewFiles DEF FilesOf
<1>5. limit \in Nat
  BY DataTypes DEF TypeOK
<1> QED
  BY <1>3, <1>4, <1>5 DEF Fitting

-------------------------------------------------------------------------------

\* The space check leaves room, or says that it does not.
LEMMA CheckSpaceRoom ==
    ASSUME TypeOK, NEW r \in Mirrors, CheckSpace(r), alone'[r]
    PROVE  RoomIsLeft(r)'
<1> DEFINE others == Without(records, album[r])
           Victims(n) == Range(SubSeq(others, 1, n))
           Enough(n) == Usage - UsageOf(Victims(n))
                          + Cardinality(FilesOf(album[r])) <= limit
<1>1. PICK n \in 0 .. Len(others) :
         /\ victims' = [victims EXCEPT ![r] = SubSeq(others, 1, n)]
         /\ short' = [short EXCEPT ![r] = ~Enough(n)]
  BY DEF CheckSpace
<1>2. /\ pc' = [pc EXCEPT ![r] = "wipe"]
      /\ alone' = [alone EXCEPT ![r] = \A q \in Mirrors \ {r} : ~Running(q)]
      /\ UNCHANGED <<disk, records, album, limit>>
  BY DEF CheckSpace, Goto, store, job
<1>3. victims'[r] = SubSeq(others, 1, n)
  BY <1>1 DEF TypeOK, Threads
<1>4. ~short'[r] => Enough(n)
  <2>1. short'[r] = ~Enough(n)
    BY <1>1 DEF TypeOK
  <2> QED
    BY <2>1, Zenon
<1>5. \A q \in Mirrors \ {r} : ~Running(q)
  <2>1. alone'[r] = \A q \in Mirrors \ {r} : ~Running(q)
    BY <1>2 DEF TypeOK
  <2> QED
    BY <2>1, Zenon
<1>6. /\ \A q \in Mirrors \ {r} : ~Running(q)'
      /\ pc'[r] = "wipe"
  BY <1>2, <1>5 DEF Running, TypeOK, Threads
<1>7. Victims(n) \subseteq Range(records)
  <2>1. others \in Seq(Albums) /\ Range(others) \subseteq Range(records)
    BY WithoutType, RangeWithout DEF TypeOK
  <2> HIDE DEF others
  <2> QED
    BY <2>1, RangeSubSeq
<1> DEFINE V == Victims(n)
           used == {f \in Files : AlbumOf[f] \in Range(records) /\ disk[f] > 0}
           freed == {f \in Files : AlbumOf[f] \in V /\ disk[f] > 0}
<1>8. freed \subseteq used /\ used \subseteq Files
  BY <1>7
<1>9. Left(r)' \subseteq used \ freed
  BY <1>2, <1>3 DEF Left
<1>10. Usage = Cardinality(used) /\ UsageOf(Victims(n)) = Cardinality(freed)
  BY DEF Usage, UsageOf
<1> HIDE DEF used, freed, V, Victims
<1>11. /\ Cardinality(used \ freed) = Cardinality(used) - Cardinality(freed)
       /\ Cardinality(Left(r)') <= Cardinality(used \ freed)
       /\ Cardinality(Left(r)') \in Nat /\ Cardinality(used \ freed) \in Nat
       /\ Cardinality(used) \in Nat /\ Cardinality(freed) \in Nat
  <2>1. IsFiniteSet(used) /\ IsFiniteSet(used \ freed) /\ used \cap freed = freed
    BY <1>8, FewFiles
  <2> QED
    BY <2>1, <1>8, <1>9, FewFiles, FS_Difference, FS_Subset, FS_CardinalityType
<1>12. FilesOf(album[r])' = FilesOf(album[r]) /\ Cardinality(FilesOf(album[r])) \in Nat
  BY <1>2, FewFiles DEF FilesOf
<1>13. limit \in Nat
  BY DataTypes DEF TypeOK
<1>14. ~short'[r] => Fitting(r)'
  BY <1>2, <1>4, <1>10, <1>11, <1>12, <1>13 DEF Fitting
<1> QED
  BY <1>6, <1>14 DEF RoomIsLeft

\* The eviction keeps the room that the check has found.
LEMMA EvictionRoom ==
    ASSUME TypeInv, NEW r \in Mirrors, Delete(r), RoomIsLeft(r)
    PROVE  RoomIsLeft(r)'
<1> USE DEF TypeInv, TypeOK
<1> DEFINE v == victims[r]
<1>1. r # Janitor /\ r \in Threads
  BY Names DEF Threads
<1>2. /\ v # <<>> /\ v \in Seq(Albums)
      /\ \A q \in Mirrors \ {r} : ~Running(q)
      /\ \A q \in Mirrors \ {r} : pc'[q] = pc[q]
      /\ album' = album /\ short' = short /\ limit' = limit
  BY <1>1 DEF Delete, Wipe, Unrecord, Forget, DeleteFails, HasVictim, RoomIsLeft,
              Goto, Threads, store, job, evicting
<1>3. \A q \in Mirrors \ {r} : ~Running(q)'
  BY <1>2 DEF Running
<1>4. CASE Wipe(r)
  <2>1. /\ pc[r] = "wipe" /\ pc'[r] = "unrecord"
        /\ victims' = victims /\ records' = records
        /\ disk' = [f \in Files |-> IF f \in FilesOf(Head(v)) THEN 0 ELSE disk[f]]
    BY <1>1, <1>4 DEF Wipe, Goto, evicting
  <2>2. \A f \in FilesOf(Head(v)) : disk'[f] = 0
    BY <2>1 DEF FilesOf
  <2>3. Fitting(r) => Fitting(r)'
    BY <1>2, <2>1, StillFits
  <2> QED
    BY <1>2, <1>3, <2>1, <2>2, <2>3 DEF RoomIsLeft, FilesOf
<1>5. CASE Unrecord(r)
  <2>1. /\ pc[r] = "unrecord" /\ pc'[r] = "forget"
        /\ victims' = victims /\ disk' = disk
        /\ records' = Without(records, Head(v))
    BY <1>1, <1>5 DEF Unrecord, Goto, evicting
  <2>2. Range(records') \subseteq Range(records)
    BY <2>1, RangeWithout
  <2>3. Fitting(r) => Fitting(r)'
    BY <1>2, <2>1, <2>2, StillFits
  <2> QED
    BY <1>2, <1>3, <2>1, <2>3 DEF RoomIsLeft, FilesOf
<1>6. CASE Forget(r)
  <2>1. /\ pc[r] = "forget" /\ pc'[r] = "wipe"
        /\ victims'[r] = Tail(v) /\ disk' = disk /\ records' = records
    BY <1>1, <1>6 DEF Forget, Goto
  <2>2. Range(v) \subseteq {Head(v)} \cup Range(victims'[r])
    BY <1>2, <2>1, RangeTail
  <2>3. \A f \in Files : disk[f] > 0 => AlbumOf[f] # Head(v)
    BY <2>1 DEF RoomIsLeft, FilesOf
  <2>4. Fitting(r) => Fitting(r)'
    BY <1>2, <2>1, <2>2, <2>3, StillFits
  <2> QED
    BY <1>2, <1>3, <2>1, <2>4 DEF RoomIsLeft
<1>7. CASE DeleteFails(r)
  <2>1. pc'[r] = "error"
    BY <1>1, <1>7 DEF DeleteFails, Goto
  <2> QED
    BY <1>3, <2>1 DEF RoomIsLeft
<1> QED
  BY <1>4, <1>5, <1>6, <1>7 DEF Delete

\* So do the mirror's own downloads and its record.
LEMMA OwnRoom ==
    ASSUME TypeInv, WorksOnItsAlbum, NEW r \in Mirrors, RoomIsLeft(r), alone'[r],
           MirrorStep(r)
    PROVE  RoomIsLeft(r)'
<1> USE DEF TypeInv, TypeOK
<1>1. r # Janitor /\ r \in Threads
  BY Names DEF Threads
<1>2. ~ListMedia(r) /\ ~ListFails(r) /\ ~CheckSpace(r)
  BY DEF ListMedia, ListFails, CheckSpace, RoomIsLeft
<1>3. ~Return(r)
  BY DEF Return
<1>4. \A q \in Mirrors \ {r} : ~Running(q)
  BY DEF RoomIsLeft
<1>5. CASE SpaceFreed(r)
  <2>1. /\ pc[r] = "wipe" /\ victims[r] = <<>>
        /\ pc' = [pc EXCEPT ![r] = IF short[r] THEN "error" ELSE "filter"]
        /\ UNCHANGED <<disk, records, limit, album, victims, short>>
    BY <1>5 DEF SpaceFreed, Goto, store, job, evicting
  <2>2. \A q \in Mirrors \ {r} : ~Running(q)'
    BY <1>4, <2>1 DEF Running, Threads
  <2>3. Fitting(r) => Fitting(r)'
    BY <2>1, StillFits
  <2>4. pc'[r] = IF short[r] THEN "error" ELSE "filter"
    BY <1>1, <2>1
  <2> QED
    BY <2>1, <2>2, <2>3, <2>4 DEF RoomIsLeft
<1>6. CASE Filter(r) \/ Download(r) \/ FinishMirror(r)
  <2>1. /\ pc[r] \in {"filter", "work"} /\ pc'[r] \in {"work", "report"}
        /\ \A q \in Mirrors \ {r} : pc'[q] = pc[q]
        /\ UNCHANGED <<limit, album, victims, short>>
    BY <1>1, <1>6 DEF Filter, Download, Take, TakeFails, Finish, Fail,
                      FinishMirror, Goto, Threads, store, job, evicting
  <2>2. \A q \in Mirrors \ {r} : ~Running(q)'
    BY <1>4, <2>1 DEF Running
  <2>3. \A f \in Files : disk'[f] = disk[f] \/ AlbumOf[f] = album[r]
    <3>1. CASE \E f \in Files : Take(r, f)
      BY <3>1 DEF Take, WorksOnItsAlbum, FilesOf
    <3>2. CASE ~\E f \in Files : Take(r, f)
      BY <1>6, <3>2 DEF Filter, Download, TakeFails, Finish, Fail, FinishMirror,
                        store
    <3> QED
      BY <3>1, <3>2
  <2>4. Range(records') \subseteq Range(records) \cup {album[r]}
    <3>1. CASE records' = Recorded(album[r])
      <4>1. /\ Without(records, album[r]) \in Seq(Albums)
            /\ Range(Without(records, album[r])) \subseteq Range(records)
        BY WithoutType, RangeWithout
      <4> QED
        BY <3>1, <4>1, RangeAppend DEF Recorded
    <3>2. CASE records' = records
      BY <3>2
    <3> QED
      BY <1>6, <3>1, <3>2 DEF Filter, Download, Take, TakeFails, Finish, Fail,
                              FinishMirror, store
  <2>5. Fitting(r) /\ victims[r] = <<>>
    BY <2>1 DEF RoomIsLeft
  <2>6. Fitting(r)'
    BY <2>1, <2>3, <2>4, <2>5, StillFits
  <2> QED
    BY <2>1, <2>2, <2>5, <2>6 DEF RoomIsLeft
<1> QED
  BY <1>2, <1>3, <1>5, <1>6, EvictionRoom DEF MirrorStep

\* What does not touch a mirror at most empties the disk and the records.
LEMMA RoomKept ==
    ASSUME TypeInv, NEW r \in Mirrors, RoomIsLeft(r),
           \A q \in Mirrors : pc'[q] = pc[q],
           album'[r] = album[r], victims'[r] = victims[r], short'[r] = short[r],
           limit' = limit,
           \A f \in Files : disk'[f] \in {0, disk[f]},
           Range(records') \subseteq Range(records)
    PROVE  RoomIsLeft(r)'
<1>1. Fitting(r) => Fitting(r)'
  BY StillFits DEF TypeInv
<1>2. \A q \in Mirrors \ {r} : ~Running(q)'
  BY DEF RoomIsLeft, Running
<1> QED
  BY <1>1, <1>2 DEF RoomIsLeft, FilesOf

\* A deletion from the settings is such a step.
LEMMA JanitorRoom ==
    ASSUME TypeInv, NEW r \in Mirrors, RoomIsLeft(r),
           JanitorBegins \/ Delete(Janitor) \/ DeletionsDone
    PROVE  RoomIsLeft(r)'
<1> USE DEF TypeInv, TypeOK
<1>1. Mirrors \subseteq Threads /\ Janitor \notin Mirrors
  BY Names DEF Threads
<1>2. /\ \A q \in Mirrors : pc'[q] = pc[q] /\ victims'[q] = victims[q]
      /\ UNCHANGED <<album, short, limit>>
  BY <1>1 DEF JanitorBegins, Delete, Wipe, Unrecord, Forget, DeleteFails,
              DeletionsDone, Goto, store, job, evicting
<1>3. \A f \in Files : disk'[f] \in {0, disk[f]}
  BY DEF JanitorBegins, Delete, Wipe, Unrecord, Forget, DeleteFails,
         DeletionsDone, store
<1>4. Range(records') \subseteq Range(records)
  <2>1. CASE Unrecord(Janitor)
    BY <2>1, RangeWithout DEF Unrecord
  <2>2. CASE ~Unrecord(Janitor)
    BY <2>2 DEF JanitorBegins, Delete, Wipe, Forget, DeleteFails, DeletionsDone,
                store
  <2> QED
    BY <2>1, <2>2
<1> QED
  BY <1>2, <1>3, <1>4, RoomKept

\* A mirror's work stays in its album.
LEMMA OwnAlbum ==
    ASSUME TypeInv, WorksOnItsAlbum, [Next]_vars
    PROVE  WorksOnItsAlbum'
<1> USE DEF TypeInv, TypeOK, WorksOnItsAlbum
<1>1. Mirrors \subseteq Threads /\ Janitor \notin Mirrors
  BY Names DEF Threads
<1>2. CASE \E r \in Mirrors, a \in Albums : BeginMirror(r, a)
  BY <1>1, <1>2 DEF BeginMirror, Running, Goto, work
<1>3. ASSUME NEW r \in Mirrors, MirrorStep(r) PROVE WorksOnItsAlbum'
  <2>1. CASE ListMedia(r) \/ ListFails(r) \/ CheckSpace(r) \/ SpaceFreed(r)
    BY <1>1, <2>1 DEF ListMedia, ListFails, CheckSpace, SpaceFreed, Goto, job,
                      work
  <2>2. CASE Delete(r)
    BY <1>1, <2>2 DEF Delete, Wipe, Unrecord, Forget, DeleteFails, Goto, job,
                      work
  <2>3. CASE Filter(r)
    BY <1>1, <2>3 DEF Filter, Goto, job
  <2>4. CASE Download(r)
    <3>1. /\ todo' = todo \/ \E f \in Files : todo' = [todo EXCEPT ![r] = @ \ {f}]
          /\ UNCHANGED <<pc, album>>
      BY <2>4 DEF Download, Take, TakeFails, Finish, Fail, job
    <3>2. \A q \in Mirrors : todo'[q] \subseteq todo[q]
      BY <3>1
    <3> QED
      BY <3>1, <3>2
  <2>5. CASE FinishMirror(r)
    BY <1>1, <2>5 DEF FinishMirror, Goto, job, work
  <2>6. CASE Return(r)
    BY <1>1, <2>6 DEF Return, Goto
  <2> QED
    BY <1>3, <2>1, <2>2, <2>3, <2>4, <2>5, <2>6 DEF MirrorStep
<1>4. CASE JanitorBegins \/ Delete(Janitor) \/ DeletionsDone
  BY <1>1, <1>4 DEF JanitorBegins, Delete, Wipe, Unrecord, Forget, DeleteFails,
                    DeletionsDone, Goto, job, work
<1>5. CASE \/ \E a \in Albums : CancelMirror(a)
           \/ \E mb \in Limits : SetMaxCacheMB(mb)
           \/ \E f \in Files, now \in Versions : Edit(f, now)
           \/ UNCHANGED vars
  BY <1>5 DEF CancelMirror, SetMaxCacheMB, Edit, vars, job, work
<1>6. CASE Crash
  BY <1>1, <1>6 DEF Crash, NoWork
<1> QED
  BY <1>2, <1>3, <1>4, <1>5, <1>6 DEF Next

LEMMA InitRoomInv == Init => RoomInv
<1> SUFFICES ASSUME Init PROVE RoomInv
  OBVIOUS
<1>1. \A r \in Mirrors : todo[r] = {} /\ ~alone[r]
  BY DEF Init, NoWork, NoCall
<1> QED
  BY <1>1 DEF RoomInv, WorksOnItsAlbum

LEMMA NextRoomInv == TypeInv /\ RoomInv /\ [Next]_vars => RoomInv'
<1> SUFFICES ASSUME TypeInv, RoomInv, [Next]_vars, NEW r \in Mirrors, alone'[r]
             PROVE  RoomIsLeft(r)'
  BY OwnAlbum DEF RoomInv
<1>1. alone[r] => RoomIsLeft(r)
  BY DEF RoomInv
<1>2. CASE \/ \E q \in Mirrors, a \in Albums : BeginMirror(q, a)
           \/ \E mb \in Limits : SetMaxCacheMB(mb)
           \/ Crash
  BY <1>2 DEF BeginMirror, SetMaxCacheMB, Crash, NoCall
<1>3. CASE MirrorStep(r)
  <2>1. CASE CheckSpace(r)
    BY <2>1, CheckSpaceRoom DEF TypeInv
  <2>2. CASE ~CheckSpace(r)
    <3>1. alone[r]
      BY <1>3, <2>2 DEF MirrorStep, ListMedia, ListFails, Delete, Wipe, Unrecord,
                        Forget, DeleteFails, SpaceFreed, Filter, Download, Take,
                        TakeFails, Finish, Fail, FinishMirror, Return, TypeInv,
                        TypeOK, history
    <3> QED
      BY <1>1, <1>3, <3>1, OwnRoom DEF RoomInv
  <2> QED
    BY <2>1, <2>2
<1>4. ASSUME NEW q \in Mirrors \ {r}, MirrorStep(q) PROVE RoomIsLeft(r)'
  <2>1. alone[r]
    BY <1>4 DEF MirrorStep, ListMedia, ListFails, CheckSpace, Delete, Wipe,
                Unrecord, Forget, DeleteFails, SpaceFreed, Filter, Download,
                Take, TakeFails, Finish, Fail, FinishMirror, Return, TypeInv,
                TypeOK, history
  <2>2. Running(q)
    BY <1>4 DEF MirrorStep, ListMedia, ListFails, CheckSpace, Delete, Wipe,
                Unrecord, Forget, DeleteFails, SpaceFreed, Filter, Download,
                Take, TakeFails, Finish, Fail, FinishMirror, Return, Running
  <2> QED
    BY <1>1, <2>1, <2>2 DEF RoomIsLeft
<1>5. CASE JanitorBegins \/ Delete(Janitor) \/ DeletionsDone
  <2>1. alone[r]
    BY <1>5 DEF JanitorBegins, Delete, Wipe, Unrecord, Forget, DeleteFails,
                DeletionsDone, history
  <2> QED
    BY <1>1, <1>5, <2>1, JanitorRoom
<1>6. CASE \/ \E a \in Albums : CancelMirror(a)
           \/ \E f \in Files, now \in Versions : Edit(f, now)
           \/ UNCHANGED vars
  <2>1. /\ UNCHANGED <<pc, album, victims, short, limit, disk, records, alone>>
    BY <1>6 DEF CancelMirror, Edit, vars, store, job, evicting, history
  <2> QED
    BY <1>1, <2>1, RoomKept
<1> QED
  BY <1>2, <1>3, <1>4, <1>5, <1>6 DEF Next

\* Whatever its victims, its failures and the state of the disk, a mirror that
\* ran alone under one limit reports with the recorded albums within the limit:
\* EvictIfNeeded has made room for the album, cache.go:182.
THEOREM CacheIsWithinLimit == Spec => []CacheFits
<1>1. TypeInv /\ RoomInv => CacheFits
  <2> SUFFICES ASSUME TypeInv, RoomInv, NEW r \in Mirrors, pc[r] = "report", alone[r]
               PROVE  Usage <= limit
    BY DEF CacheFits
  <2>1. victims[r] = <<>> /\ Fitting(r)
    BY DEF RoomInv, RoomIsLeft
  <2> DEFINE used == {f \in Files : AlbumOf[f] \in Range(records) /\ disk[f] > 0}
             own == FilesOf(album[r])
  <2>2. used \subseteq Left(r) \cup own
    <3>1. Range(victims[r]) = {}
      BY <2>1 DEF Range
    <3> QED
      BY <3>1 DEF Left, FilesOf
  <2>3. Left(r) \subseteq Files /\ own \subseteq Files /\ Left(r) \cap own = {}
    BY DEF Left, FilesOf
  <2>4. Usage = Cardinality(used)
    BY DEF Usage, UsageOf
  <2>5. Cardinality(Left(r)) + Cardinality(own) <= limit
    BY <2>1 DEF Fitting
  <2>6. limit \in Nat
    BY DataTypes DEF TypeInv, TypeOK
  <2> HIDE DEF used, own
  <2>7. Cardinality(Left(r) \cup own) = Cardinality(Left(r)) + Cardinality(own)
    <3>1. Cardinality(Left(r) \cap own) = 0
      BY <2>3, FS_EmptySet
    <3>2. Cardinality(Left(r) \cup own) =
            Cardinality(Left(r)) + Cardinality(own) - Cardinality(Left(r) \cap own)
      BY <2>3, FewFiles, FS_Union
    <3> QED
      BY <3>1, <3>2, <2>3, FewFiles
  <2>8. Cardinality(used) <= Cardinality(Left(r) \cup own)
    BY <2>2, <2>3, FewFiles, FS_Subset
  <2> QED
    BY <2>2, <2>3, <2>4, <2>5, <2>6, <2>7, <2>8, FewFiles
<1> QED
  BY <1>1, InitRoomInv, NextRoomInv, SpecTypes, PTL DEF Spec

-------------------------------------------------------------------------------
(***************************************************************************)
(* CloudAccount: the connected account, for any number of authorizations,  *)
(* mirrors and callbacks and a keychain that comes and goes at any moment. *)
(***************************************************************************)

\* What the loopback and the mirrors do not touch, and which authorizations
\* are between the provider and the store.
Aside ==
    /\ UNCHANGED <<token, client, keychain, file, keychainUp, probe, leaving,
                   undisturbed, settled, latest, answered>>
    /\ \A t \in Attempts : flow'[t] = "save" <=> flow[t] = "save"

LEMMA LoopbackTypes ==
    ASSUME AccountTypeOK, NEW t \in Attempts,
           Listen(t) \/ Callback(t) \/ LoopbackNext(t)
    PROVE  AccountTypeOK' /\ Aside
<1> USE DEF AccountTypeOK, Aside, flows, stored, past, Accounts, Results, FlowEnds,
            FlowSteps, Turns
<1>1. CASE Listen(t)
  <2>1. flow[t] = "new" /\ redirect' \in {redirect, t}
    BY <1>1 DEF Listen
  <2>2. PICK there \in {"listening", "failed"} : flow' = [flow EXCEPT ![t] = there]
    BY <1>1 DEF Listen
  <2>3. flow' \in [Attempts -> FlowEnds \cup FlowSteps]
    BY <2>2
  <2>4. \A u \in Attempts : flow'[u] = "save" <=> flow[u] = "save"
    BY <2>1, <2>2
  <2>5. UNCHANGED <<token, client, page, sent, result, callbacks, keychain, file,
                    keychainUp, probe, leaving, contexts, undisturbed, settled, latest,
                    answered>>
    BY <1>1 DEF Listen
  <2>6. AccountTypeOK'
    <3> HIDE DEF Results, FlowEnds, FlowSteps
    <3> QED
      BY <2>1, <2>3, <2>5
  <2> QED
    BY <2>4, <2>5, <2>6
<1>2. CASE OpenBrowser(t)
  BY <1>2 DEF OpenBrowser
<1>3. CASE BrowserOpened(t)
  BY <1>3 DEF BrowserOpened
<1>4. CASE Callback(t)
  <2>1. page[t] \in Attempts
    BY <1>4 DEF Callback
  <2>2. PICK denied \in BOOLEAN :
          sent' = [sent EXCEPT ![page[t]] = Append(@, [of |-> t, denied |-> denied])]
    BY <1>4 DEF Callback
  <2>3. Append(sent[page[t]], [of |-> t, denied |-> denied]) \in Seq(Results)
    <3>1. [of |-> t, denied |-> denied] \in Results
      OBVIOUS
    <3>2. sent[page[t]] \in Seq(Results)
      BY <2>1
    <3> HIDE DEF Results
    <3> QED
      BY <3>1, <3>2
  <2>4. sent' \in [Attempts -> Seq(Results)]
    BY <2>1, <2>2, <2>3
  <2>5. callbacks' \in 0 .. MaxCallbacks
    BY <1>4, CallbacksNat DEF Callback
  <2>6. UNCHANGED <<token, client, redirect, flow, page, result, keychain, file,
                    keychainUp, probe, leaving, contexts, undisturbed, settled, latest,
                    answered>>
    BY <1>4 DEF Callback
  <2>7. AccountTypeOK'
    <3> HIDE DEF Results, FlowEnds, FlowSteps, Accounts
    <3> QED
      BY <2>4, <2>5, <2>6
  <2> QED
    BY <2>6, <2>7
<1>5. CASE Receive(t)
  <2>1. sent[t] \in Seq(Results) /\ sent[t] # <<>>
    BY <1>5 DEF Receive
  <2>2. Head(sent[t]) \in Results /\ Tail(sent[t]) \in Seq(Results)
    <3> HIDE DEF Results
    <3> QED
      BY <2>1
  <2> QED
    BY <1>5, <2>2 DEF Receive
<1>6. CASE Shutdown(t)
  BY <1>6 DEF Shutdown
<1>7. CASE TimesOut(t)
  BY <1>7 DEF TimesOut
<1>8. CASE Drained(t)
  BY <1>8 DEF Drained
<1>9. CASE Exchange(t)
  <2>1. PICK there \in {"adopt", "failed"} : flow' = [flow EXCEPT ![t] = there]
    BY <1>9 DEF Exchange
  <2>2. flow[t] = "exchange"
    BY <1>9 DEF Exchange
  <2>3. flow' \in [Attempts -> FlowEnds \cup FlowSteps]
    BY <2>1
  <2>4. \A u \in Attempts : flow'[u] = "save" <=> flow[u] = "save"
    BY <2>1, <2>2
  <2>5. UNCHANGED <<token, client, redirect, page, sent, result, callbacks, keychain,
                    file, keychainUp, probe, leaving, contexts, undisturbed, settled,
                    latest, answered>>
    BY <1>9 DEF Exchange
  <2>6. AccountTypeOK'
    <3> HIDE DEF Results, FlowEnds, FlowSteps, Accounts
    <3> QED
      BY <2>3, <2>5
  <2> QED
    BY <2>4, <2>5, <2>6
<1> QED
  BY <1>1, <1>2, <1>3, <1>4, <1>5, <1>6, <1>7, <1>8, <1>9 DEF LoopbackNext

LEMMA ProviderTypes ==
    ASSUME AccountTypeOK
    PROVE  /\ \A t \in Attempts : Adopt(t) \/ Save(t) => AccountTypeOK'
           /\ ProbeKeychain \/ ProbeFile \/ Disconnect => AccountTypeOK'
           /\ DeleteKeychain \/ DeleteFile => AccountTypeOK'
           /\ \A c \in Contexts \cup {AppContext} : GetClient(c) => AccountTypeOK'
<1> USE DEF AccountTypeOK, flows, stored, past, Accounts, FlowEnds, FlowSteps, Turns
<1>1. ASSUME NEW t \in Attempts, Adopt(t) PROVE AccountTypeOK'
  BY <1>1 DEF Adopt, ChangeBegins
<1>2. ASSUME NEW t \in Attempts, Save(t) PROVE AccountTypeOK'
  BY <1>2 DEF Save, ChangeEnds, SavedEncrypted
<1>3. ASSUME ProbeKeychain \/ ProbeFile PROVE AccountTypeOK'
  BY <1>3 DEF ProbeKeychain, ProbeFile, Loads
<1>4. ASSUME Disconnect PROVE AccountTypeOK'
  BY <1>4 DEF Disconnect, ChangeBegins
<1>5. ASSUME DeleteKeychain \/ DeleteFile PROVE AccountTypeOK'
  BY <1>5 DEF DeleteKeychain, DeleteFile, ChangeEnds
<1>6. ASSUME NEW c \in Contexts \cup {AppContext}, GetClient(c) PROVE AccountTypeOK'
  <2>1. token \in Attempts
    BY <1>6 DEF GetClient
  <2>2. client' \in [of : Attempts, ctx : Contexts \cup {AppContext}]
    BY <1>6, <2>1 DEF GetClient
  <2> QED
    BY <1>6, <2>2 DEF GetClient
<1> QED
  BY <1>1, <1>2, <1>3, <1>4, <1>5, <1>6

LEMMA WorldTypes ==
    ASSUME AccountTypeOK
    PROVE  /\ \A c \in Contexts : MirrorBegins(c) \/ MirrorEnds(c) => AccountTypeOK' /\ Aside
           /\ KeychainFlaps \/ Relaunch => AccountTypeOK'
<1> USE DEF AccountTypeOK, flows, stored, past, Accounts
<1>1. ASSUME NEW c \in Contexts, MirrorBegins(c) \/ MirrorEnds(c)
      PROVE  AccountTypeOK' /\ Aside
  BY <1>1 DEF MirrorBegins, MirrorEnds, Aside
<1>2. ASSUME KeychainFlaps PROVE AccountTypeOK'
  BY <1>2 DEF KeychainFlaps
<1>3. ASSUME Relaunch PROVE AccountTypeOK'
  <2>1. sent' \in [Attempts -> Seq(Results)]
    BY <1>3 DEF Relaunch
  <2>2. flow' \in [Attempts -> FlowEnds \cup FlowSteps]
    BY <1>3 DEF Relaunch, FlowEnds, FlowSteps
  <2>3. contexts' \in [Contexts -> {"new", "live", "done"}]
    BY <1>3 DEF Relaunch
  <2> QED
    BY <1>3, <2>1, <2>2, <2>3 DEF Relaunch, SavedEncrypted
<1> QED
  BY <1>1, <1>2, <1>3

\* What a change has stored is found while the keychain answers as it did then.
LEMMA StoredIsFound ==
    ASSUME AccountTypeOK', ChangeIsStored', settled' => token' \in {Nobody, latest'}
    PROVE  SettledAccountLasts'
BY DEF ChangeIsStored, SettledAccountLasts, AsChanged, Loadable, AccountTypeOK

\* Who is aside disturbs nothing.
LEMMA AsideKeeps ==
    ASSUME AccountInv, AccountTypeOK', Aside
    PROVE  AccountInv'
<1>1. ClientIsCurrent' /\ ProbesHaveNoToken'
  BY DEF AccountInv, Aside, ClientIsCurrent, ProbesHaveNoToken
<1>2. SaversAreAlone' /\ LeaversAreAlone'
  BY DEF AccountInv, Aside, SaversAreAlone, LeaversAreAlone
<1>3. Changing' <=> Changing
  BY DEF Aside, Changing
<1>4. ProbesFindTheLatest' /\ ChangeIsStored' /\ SettledIsOver'
  BY <1>3 DEF AccountInv, Aside, ProbesFindTheLatest, ChangeIsStored, SettledIsOver
<1>5. SettledAccountLasts'
  BY DEF AccountInv, Aside, SettledAccountLasts, AsChanged, Loadable
<1> QED
  BY <1>1, <1>2, <1>4, <1>5 DEF AccountInv

LEMMA AdoptKeeps ==
    ASSUME AccountInv, NEW t \in Attempts, Adopt(t)
    PROVE  AccountInv'
<1>1. AccountTypeOK'
  BY ProviderTypes DEF AccountInv
<1>2. /\ token' = t /\ client' = Nobody /\ probe' = FALSE /\ probe = FALSE
      /\ settled' = FALSE /\ undisturbed' = ~Changing /\ leaving' = leaving
      /\ \A u \in Attempts : flow'[u] = IF u = t THEN "save" ELSE flow[u]
  BY DEF Adopt, AccountInv, AccountTypeOK, MutexFree, ChangeBegins, Turns
<1>3. ClientIsCurrent' /\ ProbesHaveNoToken' /\ ProbesFindTheLatest'
        /\ ChangeIsStored' /\ SettledIsOver' /\ SettledAccountLasts'
  BY <1>2 DEF ClientIsCurrent, ProbesHaveNoToken, ProbesFindTheLatest, ChangeIsStored,
              SettledIsOver, SettledAccountLasts
<1>4. SaversAreAlone' /\ LeaversAreAlone'
  BY <1>2 DEF SaversAreAlone, LeaversAreAlone, Changing
<1> QED
  BY <1>1, <1>3, <1>4 DEF AccountInv

LEMMA SaveKeeps ==
    ASSUME AccountInv, NEW t \in Attempts, Save(t)
    PROVE  AccountInv'
<1>1. AccountTypeOK'
  BY ProviderTypes DEF AccountInv
<1>2. /\ UNCHANGED <<token, client, keychainUp, probe, leaving, undisturbed>>
      /\ flow[t] = "save" /\ latest' = t
      /\ \A u \in Attempts : flow'[u] = IF u = t THEN "done" ELSE flow[u]
      /\ settled' => undisturbed
      /\ answered' = keychainUp
  BY DEF Save, ChangeEnds, AccountInv, AccountTypeOK, Turns
<1>3. ClientIsCurrent' /\ ProbesHaveNoToken'
  BY <1>2 DEF AccountInv, ClientIsCurrent, ProbesHaveNoToken
<1>4. SaversAreAlone' /\ LeaversAreAlone'
  BY <1>2 DEF AccountInv, SaversAreAlone, LeaversAreAlone
<1>5. undisturbed => token = t /\ ~Changing'
  BY <1>2 DEF AccountInv, SaversAreAlone, Changing
<1>6. ProbesFindTheLatest'
  BY <1>2, <1>5, NobodyIsNobody DEF AccountInv, ProbesHaveNoToken, ProbesFindTheLatest
<1>7. SettledIsOver'
  BY <1>2, <1>5 DEF SettledIsOver
<1>8. ChangeIsStored'
  <2>1. CASE keychainUp
    BY <1>2, <2>1, NobodyIsNobody DEF Save, SavedEncrypted, ChangeIsStored
  <2>2. CASE ~keychainUp
    BY <1>2, <2>2 DEF Save, ChangeEnds, ChangeIsStored, AccountInv, AccountTypeOK
  <2> QED
    BY <2>1, <2>2
<1>9. SettledAccountLasts'
  BY <1>1, <1>2, <1>5, <1>8, StoredIsFound
<1> QED
  BY <1>1, <1>3, <1>4, <1>6, <1>7, <1>8, <1>9 DEF AccountInv

LEMMA ProbeKeeps ==
    ASSUME AccountInv, ProbeKeychain \/ ProbeFile
    PROVE  AccountInv'
<1>1. AccountTypeOK'
  BY ProviderTypes DEF AccountInv
<1>2. /\ token = Nobody
      /\ UNCHANGED <<client, flow, keychain, file, keychainUp, leaving, latest,
                     answered>>
      /\ undisturbed' => undisturbed
      /\ settled' => settled
      /\ token' # Nobody => ~probe' /\ (Changing => ~undisturbed')
  <2>1. CASE ProbeKeychain
    <3>1. settled' => settled
      BY <2>1 DEF ProbeKeychain
    <3>2. CASE keychainUp /\ keychain # Nobody
      BY <2>1, <3>1, <3>2 DEF ProbeKeychain, Loads, flows, stored, MutexFree
    <3>3. CASE ~(keychainUp /\ keychain # Nobody)
      BY <2>1, <3>1, <3>3 DEF ProbeKeychain, flows, stored
    <3> QED
      BY <3>2, <3>3
  <2>2. CASE ProbeFile
    BY <2>2 DEF ProbeFile, AccountInv, ProbesHaveNoToken, Loads, flows, stored
  <2> QED
    BY <2>1, <2>2
<1>3. Changing' <=> Changing
  BY <1>2 DEF Changing
<1>4. client = Nobody
  BY <1>2, NobodyIsNobody DEF AccountInv, AccountTypeOK, ClientIsCurrent
<1>5. settled' => /\ token' \in {Nobody, latest}
                  /\ probe' => file = latest
  <2>1. CASE ProbeKeychain
    <3>1. settled' => Loadable = latest
      BY <2>1 DEF ProbeKeychain, AccountInv, SettledAccountLasts
    <3> QED
      BY <2>1, <3>1 DEF ProbeKeychain, Loads, Loadable, MutexFree
  <2>2. CASE ProbeFile
    BY <1>2, <2>2 DEF ProbeFile, Loads, AccountInv, ProbesFindTheLatest
  <2> QED
    BY <2>1, <2>2
<1>6. ClientIsCurrent' /\ ProbesHaveNoToken' /\ ProbesFindTheLatest' /\ SettledIsOver'
  BY <1>2, <1>3, <1>4, <1>5 DEF AccountInv, ClientIsCurrent, ProbesHaveNoToken,
                                ProbesFindTheLatest, SettledIsOver
<1>7. SaversAreAlone'
  BY <1>2, NobodyIsNobody DEF AccountInv, SaversAreAlone, Changing
<1>8. LeaversAreAlone'
  BY <1>2 DEF AccountInv, LeaversAreAlone, Changing
<1>9. ChangeIsStored'
  BY <1>2 DEF AccountInv, ChangeIsStored
<1>10. SettledAccountLasts'
  BY <1>1, <1>2, <1>5, <1>9, StoredIsFound
<1> QED
  BY <1>1, <1>6, <1>7, <1>8, <1>9, <1>10 DEF AccountInv

LEMMA DisconnectKeeps ==
    ASSUME AccountInv, Disconnect \/ DeleteKeychain \/ DeleteFile
    PROVE  AccountInv'
<1>1. AccountTypeOK'
  BY ProviderTypes DEF AccountInv
<1>2. CASE Disconnect
  <2>1. /\ token' = Nobody /\ client' = Nobody /\ probe' = FALSE
        /\ settled' = FALSE /\ undisturbed' = ~Changing /\ leaving' = "keychain"
        /\ flow' = flow
    BY <1>2 DEF Disconnect, AccountInv, AccountTypeOK, MutexFree, ChangeBegins, flows
  <2>2. ClientIsCurrent' /\ ProbesHaveNoToken' /\ ProbesFindTheLatest'
          /\ ChangeIsStored' /\ SettledIsOver' /\ SettledAccountLasts'
    BY <2>1 DEF ClientIsCurrent, ProbesHaveNoToken, ProbesFindTheLatest,
                ChangeIsStored, SettledIsOver, SettledAccountLasts
  <2>3. SaversAreAlone' /\ LeaversAreAlone'
    BY <2>1 DEF SaversAreAlone, LeaversAreAlone, Changing
  <2> QED
    BY <1>1, <2>2, <2>3 DEF AccountInv
<1>3. CASE DeleteKeychain
  <2>1. /\ UNCHANGED <<token, client, flow, file, keychainUp, probe, undisturbed,
                       settled, latest>>
        /\ leaving = "keychain" /\ leaving' = "file"
        /\ keychain' \in {keychain, Nobody}
        /\ keychainUp => keychain' = Nobody
    BY <1>3 DEF DeleteKeychain, flows, past
  <2>2. Changing /\ Changing' /\ ~settled
    BY <2>1 DEF Changing, AccountInv, SettledIsOver
  <2>3. ClientIsCurrent' /\ ProbesHaveNoToken' /\ ProbesFindTheLatest'
          /\ ChangeIsStored' /\ SettledIsOver' /\ SettledAccountLasts'
    BY <2>1, <2>2 DEF AccountInv, ClientIsCurrent, ProbesHaveNoToken,
                      ProbesFindTheLatest, ChangeIsStored, SettledIsOver,
                      SettledAccountLasts
  <2>4. SaversAreAlone' /\ LeaversAreAlone'
    BY <2>1 DEF AccountInv, SaversAreAlone, LeaversAreAlone
  <2> QED
    BY <1>1, <2>3, <2>4 DEF AccountInv
<1>4. CASE DeleteFile
  <2>1. /\ UNCHANGED <<token, client, flow, keychain, keychainUp, probe, undisturbed>>
        /\ leaving = "file" /\ leaving' = "no"
        /\ latest' = Nobody /\ answered' = keychainUp
        /\ settled' => undisturbed /\ file' = Nobody
    BY <1>4 DEF DeleteFile, ChangeEnds, flows, AccountInv, AccountTypeOK
  <2>2. undisturbed => /\ token = Nobody
                       /\ \A t \in Attempts : flow[t] # "save"
                       /\ keychainUp => keychain = Nobody
    BY <2>1 DEF AccountInv, LeaversAreAlone
  <2>3. undisturbed => ~Changing'
    BY <2>1, <2>2 DEF Changing
  <2>4. ClientIsCurrent' /\ ProbesHaveNoToken' /\ ProbesFindTheLatest'
          /\ SettledIsOver'
    BY <2>1, <2>2, <2>3 DEF AccountInv, ClientIsCurrent, ProbesHaveNoToken,
                      ProbesFindTheLatest, SettledIsOver
  <2>5. ChangeIsStored'
    BY <2>1, <2>2 DEF ChangeIsStored
  <2>6. SettledAccountLasts'
    BY <1>1, <2>1, <2>2, <2>5, StoredIsFound
  <2>7. SaversAreAlone' /\ LeaversAreAlone'
    BY <2>1, <2>2 DEF AccountInv, SaversAreAlone, LeaversAreAlone
  <2> QED
    BY <1>1, <2>4, <2>5, <2>6, <2>7 DEF AccountInv
<1> QED
  BY <1>2, <1>3, <1>4

LEMMA GetClientKeeps ==
    ASSUME AccountInv, NEW c \in Contexts \cup {AppContext}, GetClient(c)
    PROVE  AccountInv'
<1>1. AccountTypeOK'
  BY ProviderTypes DEF AccountInv
<1>2. /\ client' = [of |-> token, ctx |-> c]
      /\ UNCHANGED <<token, flow, keychain, file, keychainUp, probe, leaving,
                     undisturbed, settled, latest, answered>>
  BY DEF GetClient, flows, stored, past
<1>3. ClientIsCurrent'
  BY <1>2 DEF ClientIsCurrent
<1>4. Changing' <=> Changing
  BY <1>2 DEF Changing
<1>5. ProbesHaveNoToken' /\ ProbesFindTheLatest' /\ ChangeIsStored'
        /\ SettledIsOver' /\ SettledAccountLasts'
  BY <1>2, <1>4 DEF AccountInv, ProbesHaveNoToken, ProbesFindTheLatest,
              ChangeIsStored, SettledIsOver, SettledAccountLasts, AsChanged, Loadable
<1>6. SaversAreAlone' /\ LeaversAreAlone'
  BY <1>2 DEF AccountInv, SaversAreAlone, LeaversAreAlone
<1> QED
  BY <1>1, <1>3, <1>5, <1>6 DEF AccountInv

LEMMA WorldKeeps ==
    ASSUME AccountInv, KeychainFlaps \/ Relaunch
    PROVE  AccountInv'
<1>1. AccountTypeOK'
  BY WorldTypes DEF AccountInv
<1>2. CASE KeychainFlaps
  <2>1. /\ UNCHANGED <<token, client, flow, keychain, file, probe, leaving, settled,
                       latest, answered>>
        /\ undisturbed' => undisturbed /\ ~Changing
    BY <1>2 DEF KeychainFlaps, flows, stored, AccountInv, AccountTypeOK
  <2>2. Changing' <=> Changing
    BY <2>1 DEF Changing
  <2>3. SaversAreAlone' /\ LeaversAreAlone'
    BY <2>1 DEF SaversAreAlone, LeaversAreAlone, Changing
  <2>4. ChangeIsStored' /\ (settled' => token' \in {Nobody, latest'})
    BY <2>1 DEF AccountInv, ChangeIsStored, SettledAccountLasts
  <2>5. SettledAccountLasts'
    BY <1>1, <2>4, StoredIsFound
  <2> QED
    BY <1>1, <2>1, <2>2, <2>3, <2>4, <2>5 DEF AccountInv, ClientIsCurrent,
       ProbesHaveNoToken, ProbesFindTheLatest, SettledIsOver
<1>3. CASE Relaunch
  <2>1. /\ token' = Nobody /\ client' = Nobody /\ probe' = FALSE /\ leaving' = "no"
        /\ \A t \in Attempts : flow'[t] # "save"
        /\ UNCHANGED <<keychain, keychainUp, undisturbed, settled, latest, answered>>
        /\ ~Changing => file' = file
    BY <1>3 DEF Relaunch, FlowEnds, past, Changing
  <2>2. ClientIsCurrent' /\ ProbesHaveNoToken' /\ SaversAreAlone' /\ LeaversAreAlone'
          /\ ProbesFindTheLatest' /\ SettledIsOver'
    BY <2>1 DEF ClientIsCurrent, ProbesHaveNoToken, SaversAreAlone, LeaversAreAlone,
                ProbesFindTheLatest, SettledIsOver, Changing
  <2>3. ChangeIsStored'
    BY <2>1 DEF AccountInv, ChangeIsStored, SettledIsOver
  <2>4. SettledAccountLasts'
    BY <1>1, <2>1, <2>3, StoredIsFound
  <2> QED
    BY <1>1, <2>2, <2>3, <2>4 DEF AccountInv
<1> QED
  BY <1>2, <1>3

LEMMA InitAccountInv == AccountInit => AccountInv
<1> SUFFICES ASSUME AccountInit PROVE AccountInv
  OBVIOUS
<1> USE DEF AccountInit
<1>1. AccountTypeOK
  <2>1. sent \in [Attempts -> Seq(Results)]
    <3>1. <<>> \in Seq(Results)
      OBVIOUS
    <3> QED
      BY <3>1
  <2>2. callbacks \in 0 .. MaxCallbacks
    BY CallbacksNat
  <2>3. flow \in [Attempts -> FlowEnds \cup FlowSteps]
    BY DEF FlowEnds
  <2> QED
    BY <2>1, <2>2, <2>3 DEF AccountTypeOK, Accounts
<1> QED
  BY <1>1 DEF AccountInv, ClientIsCurrent, ProbesHaveNoToken, SaversAreAlone,
              LeaversAreAlone, ProbesFindTheLatest, ChangeIsStored, SettledIsOver,
              SettledAccountLasts, AsChanged, Loadable, Changing

LEMMA NextAccountInv == AccountInv /\ [AccountNext]_accountVars => AccountInv'
<1> SUFFICES ASSUME AccountInv, [AccountNext]_accountVars PROVE AccountInv'
  OBVIOUS
<1>0. AccountTypeOK
  BY DEF AccountInv
<1>1. CASE UNCHANGED accountVars
  <2>1. AccountTypeOK' /\ Aside
    BY <1>0, <1>1 DEF accountVars, Aside, AccountTypeOK
  <2> QED
    BY <2>1, AsideKeeps
<1>2. ASSUME NEW t \in Attempts, Listen(t) \/ Callback(t) \/ FlowNext(t)
      PROVE  AccountInv'
  <2>1. CASE Listen(t) \/ Callback(t) \/ LoopbackNext(t)
    BY <1>0, <2>1, LoopbackTypes, AsideKeeps
  <2> QED
    BY <1>2, <2>1, AdoptKeeps, SaveKeeps DEF FlowNext
<1>3. CASE ProbeKeychain \/ ProbeFile
  BY <1>3, ProbeKeeps
<1>4. ASSUME NEW c \in Contexts \cup {AppContext}, GetClient(c) PROVE AccountInv'
  BY <1>4, GetClientKeeps
<1>5. CASE Disconnect \/ DisconnectNext
  BY <1>5, DisconnectKeeps DEF DisconnectNext
<1>6. ASSUME NEW c \in Contexts, MirrorBegins(c) \/ MirrorEnds(c) PROVE AccountInv'
  BY <1>0, <1>6, WorldTypes, AsideKeeps
<1>7. CASE KeychainFlaps \/ Relaunch
  BY <1>7, WorldKeeps
<1> QED
  BY <1>1, <1>2, <1>3, <1>4, <1>5, <1>6, <1>7 DEF AccountNext

LEMMA AccountInvariant == AccountSpec => []AccountInv
BY InitAccountInv, NextAccountInv, PTL DEF AccountSpec

\* The provider, its authorizations and the two places of its token keep their
\* types, however they overlap.
THEOREM AccountTypes == AccountSpec => []AccountTypeOK
<1>1. AccountInv => AccountTypeOK
  BY DEF AccountInv
<1> QED
  BY <1>1, AccountInvariant, PTL

\* Authorizations, removals, first uses and restarts in any order never leave
\* the provider a client of another account than its token's: provider.go sets
\* both in one critical section, and getClient reads them in one.
THEOREM ClientsAreCurrent == AccountSpec => []ClientIsCurrent
<1>1. AccountInv => ClientIsCurrent
  BY DEF AccountInv
<1> QED
  BY <1>1, AccountInvariant, PTL

\* What Authenticate or Disconnect leaves in the two stores is what the next
\* look finds, also after a restart and after the keychain has stopped and
\* started to answer, when nothing interfered with the change while it was made:
\* Save and Delete run with the mutex released, token_store.go.  A removal that
\* the keychain has answered holds whether it answers later or not.
THEOREM AccountsLast == AccountSpec => []SettledAccountLasts
<1>1. AccountInv => SettledAccountLasts
  BY DEF AccountInv
<1> QED
  BY <1>1, AccountInvariant, PTL

===============================================================================
