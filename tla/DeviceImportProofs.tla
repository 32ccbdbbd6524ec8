-------------------------- MODULE DeviceImportProofs --------------------------
(***************************************************************************)
(* Proofs about DeviceImport, for any devices, serials, cards, number of   *)
(* imports and disturbances.  What the frontend was told follows from how  *)
(* the callbacks to fire differ from the map (TellInv), the dialog's list  *)
(* from the answer of its youngest call (DialogInv).  That an import is    *)
(* complete needs what the files of a directory may be: one import writes  *)
(* at a time, in order (WriterInv), from a photo that is on the card or    *)
(* was replaced (SourceInv), so that a file of the right size is the photo *)
(* (DiskInv), and what an undisturbed import has done so far (CleanInv).   *)
(***************************************************************************)
EXTENDS DeviceImport, FiniteSetTheorems, SequenceTheorems, TLAPS

Loads == [answer : (SUBSET Serials) \cup {None}, read : BOOLEAN, overtaken : BOOLEAN]

Steps == {"idle", "lookup", "enumerate", "walk", "create", "write", "tool"}

\* The record of a serial is of a device with it.
DetectorInv ==
    /\ devices \in [Serials -> Devices \cup {None}]
    /\ \A s \in Serials : devices[s] # None => SerialOf[devices[s]] = s
    /\ poll \in {"wait", "bus", "mounts", "reconcile", "tell"}
    /\ seen \subseteq Devices
    /\ tell \in Seq(Events)
    /\ told \subseteq Serials

\* What the frontend was told differs from the map by the callbacks to fire,
\* and no two of these are about one serial.
TellInv ==
    /\ tell # <<>> => poll = "tell"
    /\ \A j, k \in DOMAIN tell : j # k => SerialOf[tell[j][2]] # SerialOf[tell[k][2]]
    /\ \A k \in DOMAIN tell :
          /\ SerialOf[tell[k][2]] \in Connected <=> tell[k][1] = "connected"
          /\ SerialOf[tell[k][2]] \in told <=> tell[k][1] # "connected"
    /\ \A s \in Serials : (s \in told) # (s \in Connected) =>
          \E k \in DOMAIN tell : SerialOf[tell[k][2]] = s

Youngest == loads[Len(loads)]

\* The answer of the youngest call in flight is the one that counts.
DialogInv ==
    /\ open \in BOOLEAN /\ late \in BOOLEAN
    /\ shown \subseteq Serials
    /\ loads \in Seq(Loads)
    /\ \A j \in DOMAIN loads : loads[j].read => loads[j].answer \subseteq Serials
    /\ open /\ tell = <<>> /\ loads # <<>> =>
          Youngest.overtaken \/ ~Youngest.read \/ Youngest.answer = Connected
    /\ open /\ tell = <<>> /\ loads = <<>> /\ ~late => shown = Connected

\* What an import holds at each of its steps.
StepInv ==
    /\ pc \in [Imports -> Steps]
    /\ serial \in [Imports -> Serials \cup {None}]
    /\ dev \in [Imports -> Devices \cup {None}]
    /\ \A i \in Imports :
          /\ pc[i] # "idle" => serial[i] \in Serials
          /\ pc[i] \in {"enumerate", "walk", "create", "write"} =>
                dev[i] \in Devices /\ SerialOf[dev[i]] = serial[i]
          /\ dev[i] # None => pc[i] # "idle" /\ SerialOf[dev[i]] = serial[i]
          /\ pc[i] \in {"create", "write"} => cur[i] \in todo[i]
          /\ pc[i] = "write" => from[i] \in Contents
          /\ pc[i] # "write" => at[i] = 0 /\ i \notin linked
          /\ pc[i] = "write" => at[i] < SizeOf[from[i]]

\* Of the files and the histories.
FilesInv ==
    /\ plugged \subseteq Devices
    /\ card \in [Devices -> [Names -> Contents \cup {None}]]
    /\ todo \in [Imports -> SUBSET Names]
    /\ cur \in [Imports -> Names \cup {None}]
    /\ from \in [Imports -> Contents \cup {None}]
    /\ at \in [Imports -> Nat]
    /\ linked \subseteq Imports
    /\ disk \in [Dirs -> Files]
    /\ origin \in [Dirs -> Devices \cup {None}]
    /\ \A dir \in Dirs : origin[dir] = None => \A n \in Names : disk[dir][n] = None
    /\ \A i \in linked : disk[Dir(i)][cur[i]] # None
    /\ kept \in [Imports -> SUBSET Names]
    /\ clean \subseteq Imports
    /\ mixed \subseteq Dirs
    /\ replaced \subseteq Dirs \X Names

\* In a directory that is not mixed one import writes at a time, its files are
\* the last, and the one it writes is what it has written so far.
WriterInv ==
    \A i \in Imports : pc[i] # "idle" /\ Dir(i) \notin mixed =>
        /\ \A j \in Imports : pc[j] # "idle" /\ Dir(j) = Dir(i) => j = i
        /\ i \in linked => /\ origin[Dir(i)] = dev[i]
                           /\ disk[Dir(i)][cur[i]] = [k \in 1 .. at[i] |-> from[i]]

\* A file is written from the photo that is on the card now, or from one that
\* was replaced.
SourceInv ==
    \A i \in Imports : pc[i] = "write" =>
        \/ from[i] = card[dev[i]][cur[i]]
        \/ i \notin clean /\ <<Dir(i), cur[i]>> \in replaced

\* A file of a directory that is not mixed is a beginning of its device's photo,
\* if that one was not replaced.
Beginning(file, c) ==
    \E size \in 0 .. SizeOf[c] : file = [k \in 1 .. size |-> c]

DiskInv ==
    \A d \in Devices, n \in Names :
        LET dir == DirOf[SerialOf[d]] IN
        dir \notin mixed /\ origin[dir] = d /\ <<dir, n>> \notin replaced /\ disk[dir][n] # None =>
            card[d][n] # None /\ Beginning(disk[dir][n], card[d][n])

\* What an import that nothing interfered with has done by now.
Thorough(i) ==
    /\ pc[i] # "idle"
    /\ pc[i] = "write" => i \in linked
    /\ pc[i] \in {"walk", "create", "write"} =>
          /\ dev[i] \in plugged
          /\ OwnDirectory(i) =>
                \A n \in OnCard(dev[i]) \ todo[i] :
                    \/ n \in kept[i] /\ <<Dir(i), n>> \in replaced
                    \/ Whole(disk[Dir(i)][n], card[dev[i]][n])

CleanInv == \A i \in clean : Thorough(i)

-------------------------------------------------------------------------------
(* The detector and the dialog.                                            *)

ListState == <<devices, poll, seen, tell, told, open, loads, shown, late>>
ListInv == DetectorInv /\ TellInv /\ DialogInv

\* Conversions of a finite set to a sequence list every element once.
LEMMA SeqsList ==
    ASSUME NEW S, IsFiniteSet(S), NEW q \in SetToSeqs(S)
    PROVE  /\ q \in Seq(S)
           /\ \A j, k \in DOMAIN q : j # k => q[j] # q[k]
           /\ \A x \in S : \E k \in DOMAIN q : q[k] = x
<1> DEFINE D == 1 .. Cardinality(S)
<1>1. Cardinality(S) \in Nat
  BY FS_CardinalityType
<1>2. /\ q \in [D -> S]
      /\ \A j, k \in D : j # k => q[j] # q[k]
  BY DEF SetToSeqs
<1>3. q \in Injection(D, S)
  BY <1>2 DEF Injection, IsInjective
<1>4. IsFiniteSet(D) /\ Cardinality(D) = Cardinality(S)
  BY <1>1, FS_Interval
<1>5. q \in Surjection(D, S)
  BY <1>3, <1>4, FS_Injection
<1>6. \A x \in S : \E k \in D : q[k] = x
  BY <1>5 DEF Surjection
<1>7. q \in Seq(S)
  BY <1>1, <1>2
<1> QED
  BY <1>2, <1>6, <1>7

LEMMA ListFrame ==
    ASSUME ListInv, UNCHANGED ListState
    PROVE  ListInv'
BY DEF ListInv, ListState, DetectorInv, TellInv, DialogInv, Connected, Youngest

\* A poll that is going on fires no callback.
LEMMA PollStep ==
    ASSUME ListInv, plugged \subseteq Devices, Tick \/ PollBus \/ PollMounts \/ PollEnds
    PROVE  ListInv'
<1>1. UNCHANGED <<devices, tell, told, open, loads, shown, late>>
  BY DEF Tick, PollBus, PollMounts, PollEnds, Tier, dialog
<1>2. tell = <<>> /\ poll' \in {"wait", "bus", "mounts", "reconcile"}
  BY DEF Tick, PollBus, PollMounts, PollEnds, Tier, ListInv, TellInv
<1>3. seen' \subseteq Devices
  BY DEF Tick, PollBus, PollMounts, PollEnds, Tier, ListInv, DetectorInv
<1> QED
  BY <1>1, <1>2, <1>3 DEF ListInv, DetectorInv, TellInv, DialogInv, Connected, Youngest


Calls(tag, r, G) == {<<tag, r[s]>> : s \in G}

\* The callbacks of a set of serials, in any order.
LEMMA Callbacks ==
    ASSUME NEW G \in SUBSET Serials, NEW r \in [G -> Devices], NEW tag,
           \A s \in G : SerialOf[r[s]] = s,
           NEW q \in SetToSeqs(Calls(tag, r, G))
    PROVE  /\ q \in Seq({tag} \X Devices)
           /\ \A k \in DOMAIN q : q[k][1] = tag /\ SerialOf[q[k][2]] \in G
           /\ \A j, k \in DOMAIN q : j # k => SerialOf[q[j][2]] # SerialOf[q[k][2]]
           /\ \A s \in G : \E k \in DOMAIN q : SerialOf[q[k][2]] = s
<1> DEFINE S == Calls(tag, r, G)
           f == [e \in S |-> e[2]]
<1>1. f \in Injection(S, Devices)
  BY DEF Injection, IsInjective, Calls
<1>2. IsFiniteSet(S)
  BY <1>1, FS_Injection, DevicesTyped
<1>3. /\ q \in Seq(S)
      /\ \A j, k \in DOMAIN q : j # k => q[j] # q[k]
      /\ \A x \in S : \E k \in DOMAIN q : q[k] = x
  BY <1>2, SeqsList
<1>4. \A k \in DOMAIN q : \E s \in G : q[k] = <<tag, r[s]>>
  BY <1>3 DEF Calls
<1>5. \A k \in DOMAIN q :
         q[k][1] = tag /\ SerialOf[q[k][2]] \in G /\ q[k] = <<tag, r[SerialOf[q[k][2]]]>>
  BY <1>4
<1>6. q \in Seq({tag} \X Devices)
  BY <1>3 DEF Calls
<1>7. \A s \in G : \E k \in DOMAIN q : SerialOf[q[k][2]] = s
  <2> TAKE s \in G
  <2>1. PICK k \in DOMAIN q : q[k] = <<tag, r[s]>>
    BY <1>3 DEF Calls
  <2> QED
    BY <2>1
<1>8. \A j, k \in DOMAIN q : j # k => SerialOf[q[j][2]] # SerialOf[q[k][2]]
  BY <1>3, <1>5
<1> QED
  BY <1>5, <1>6, <1>7, <1>8

LEMMA ReconcileStep ==
    ASSUME ListInv, Reconcile
    PROVE  ListInv'
<1>1. PICK f \in Deduplicated(seen) :
         LET gone == Connected \ DOMAIN f IN
         /\ devices' = [s \in Serials |-> IF s \in gone THEN None
                                          ELSE IF s \in NewSerials(f) THEN f[s]
                                          ELSE devices[s]]
         /\ \E old \in SetToSeqs({<<"disconnected", devices[s]>> : s \in gone}),
               new \in SetToSeqs({<<"connected", f[s]>> : s \in NewSerials(f)}) :
               tell' = old \o new
  BY DEF Reconcile
<1> DEFINE Gone == Connected \ DOMAIN f
           New == NewSerials(f)
           fr == [s \in New |-> f[s]]
           dr == [s \in Gone |-> devices[s]]
<1>2. /\ DOMAIN f \subseteq Serials
      /\ \A s \in DOMAIN f : f[s] \in Devices /\ SerialOf[f[s]] = s
  BY DEF ListInv, DetectorInv, Deduplicated, Serials
<1>3. PICK old \in SetToSeqs(Calls("disconnected", dr, Gone)),
           new \in SetToSeqs(Calls("connected", fr, New)) : tell' = old \o new
  <2>1. Calls("disconnected", dr, Gone) = {<<"disconnected", devices[s]>> : s \in Gone}
    BY DEF Calls
  <2>2. Calls("connected", fr, New) = {<<"connected", f[s]>> : s \in New}
    BY DEF Calls
  <2> QED
    BY <1>1, <2>1, <2>2
<1>4. /\ Gone \subseteq Serials /\ dr \in [Gone -> Devices]
      /\ \A s \in Gone : SerialOf[dr[s]] = s
  BY DEF ListInv, DetectorInv, Connected
<1>5. /\ New \subseteq Serials /\ fr \in [New -> Devices]
      /\ \A s \in New : SerialOf[fr[s]] = s
  BY <1>2 DEF NewSerials
<1>6. /\ old \in Seq({"disconnected"} \X Devices)
      /\ \A k \in DOMAIN old : old[k][1] = "disconnected" /\ SerialOf[old[k][2]] \in Gone
      /\ \A j, k \in DOMAIN old : j # k => SerialOf[old[j][2]] # SerialOf[old[k][2]]
      /\ \A s \in Gone : \E k \in DOMAIN old : SerialOf[old[k][2]] = s
  <2> HIDE DEF Gone, dr
  <2> QED
    BY <1>3, <1>4, Callbacks
<1>7. /\ new \in Seq({"connected"} \X Devices)
      /\ \A k \in DOMAIN new : new[k][1] = "connected" /\ SerialOf[new[k][2]] \in New
      /\ \A j, k \in DOMAIN new : j # k => SerialOf[new[j][2]] # SerialOf[new[k][2]]
      /\ \A s \in New : \E k \in DOMAIN new : SerialOf[new[k][2]] = s
  <2> HIDE DEF New, fr
  <2> QED
    BY <1>3, <1>5, Callbacks
<1>8. Connected' = (Connected \ Gone) \cup New
  BY <1>1, <1>2, NoneIsNone DEF Connected, NewSerials
<1>9. told = Connected /\ tell = <<>> /\ UNCHANGED <<told, open, loads, shown, late>>
  BY DEF ListInv, DetectorInv, TellInv, Reconcile, dialog, Connected
<1>10. /\ old \in Seq(Events) /\ new \in Seq(Events) /\ tell' \in Seq(Events)
       /\ Len(tell') = Len(old) + Len(new)
       /\ \A k \in 1 .. Len(old) : tell'[k] = old[k]
       /\ \A k \in 1 .. Len(new) : tell'[Len(old) + k] = new[k]
       /\ \A k \in DOMAIN tell' : \/ k \in DOMAIN old /\ tell'[k] = old[k]
                                  \/ k - Len(old) \in DOMAIN new /\ tell'[k] = new[k - Len(old)]
  BY <1>3, <1>6, <1>7 DEF Events
<1>11. Gone \cap New = {} /\ Gone \subseteq Connected /\ New \cap Connected = {}
  BY DEF NewSerials
<1> HIDE DEF Gone, New, fr, dr
<1>12. DetectorInv'
  <2>1. devices' \in [Serials -> Devices \cup {None}]
        /\ \A s \in Serials : devices'[s] # None => SerialOf[devices'[s]] = s
    BY <1>1, <1>2 DEF ListInv, DetectorInv, NewSerials
  <2>2. poll' = "tell" /\ seen' = {}
    BY DEF Reconcile
  <2> QED
    BY <1>9, <1>10, <2>1, <2>2 DEF ListInv, DetectorInv
<1>13. TellInv'
  <2>1. poll' = "tell"
    BY DEF Reconcile
  <2>2. \A j, k \in DOMAIN tell' : j # k => SerialOf[tell'[j][2]] # SerialOf[tell'[k][2]]
    BY <1>6, <1>7, <1>10, <1>11, SMTT(20)
  <2>3. \A k \in DOMAIN tell' :
           /\ SerialOf[tell'[k][2]] \in Connected' <=> tell'[k][1] = "connected"
           /\ SerialOf[tell'[k][2]] \in told' <=> tell'[k][1] # "connected"
    BY <1>6, <1>7, <1>8, <1>9, <1>10, <1>11
  <2>4. \A s \in Serials : (s \in told') # (s \in Connected') =>
           \E k \in DOMAIN tell' : SerialOf[tell'[k][2]] = s
    <3> SUFFICES ASSUME NEW s \in Gone \cup New
                 PROVE  \E k \in DOMAIN tell' : SerialOf[tell'[k][2]] = s
      BY <1>8, <1>9
    <3>1. CASE s \in Gone
      <4>1. PICK k \in DOMAIN old : SerialOf[old[k][2]] = s
        BY <1>6, <3>1
      <4>2. k \in DOMAIN tell' /\ tell'[k] = old[k]
        BY <1>10
      <4> QED
        BY <4>1, <4>2
    <3>2. CASE s \in New
      <4>1. PICK k \in DOMAIN new : SerialOf[new[k][2]] = s
        BY <1>7, <3>2
      <4>2. k \in 1 .. Len(new) /\ Len(old) \in Nat /\ Len(new) \in Nat
        BY <1>10
      <4>3. DOMAIN tell' = 1 .. Len(old) + Len(new)
        BY <1>10
      <4>4. tell'[Len(old) + k] = new[k]
        BY <1>10, <4>2
      <4>5. Len(old) + k \in DOMAIN tell'
        BY <4>2, <4>3
      <4> QED
        BY <4>1, <4>4, <4>5
    <3> QED
      BY <3>1, <3>2
  <2> QED
    BY <2>1, <2>2, <2>3, <2>4 DEF TellInv
<1>14. DialogInv'
  <2>1. tell' = <<>> => Connected' = Connected
    <3> SUFFICES ASSUME tell' = <<>> PROVE Gone = {} /\ New = {}
      BY <1>8
    <3>1. old = <<>> /\ new = <<>>
      BY <1>10
    <3> QED
      BY <1>6, <1>7, <3>1
  <2> QED
    BY <1>9, <2>1 DEF ListInv, DialogInv, Youngest
<1> QED
  BY <1>12, <1>13, <1>14 DEF ListInv

\* A call that begins is the youngest one, and not answered.
LEMMA AskedLoads ==
    ASSUME loads \in Seq(Loads)
    PROVE  /\ Asked \in Seq(Loads) /\ Asked # <<>> /\ ~Asked[Len(Asked)].read
           /\ \A j \in DOMAIN Asked : j = Len(Asked) \/ (j \in DOMAIN loads /\ Asked[j] = loads[j])
<1> DEFINE new == [answer |-> None, read |-> FALSE, overtaken |-> FALSE]
<1>1. new \in Loads /\ ~new.read
  <2>1. None \in (SUBSET Serials) \cup {None} /\ FALSE \in BOOLEAN
    OBVIOUS
  <2> QED
    BY <2>1, Zenon DEF Loads
<1>2. Asked = Append(loads, new)
  BY DEF Asked
<1> HIDE DEF new
<1>3. /\ Asked \in Seq(Loads) /\ Asked # <<>> /\ Len(Asked) = Len(loads) + 1
      /\ \A j \in 1 .. Len(loads) : Asked[j] = loads[j]
      /\ Asked[Len(loads) + 1] = new
  BY <1>1, <1>2, AppendProperties
<1>4. /\ Len(loads) \in Nat /\ DOMAIN loads = 1 .. Len(loads)
      /\ DOMAIN Asked = 1 .. Len(loads) + 1
  BY <1>3
<1>5. \A j \in DOMAIN Asked : j = Len(Asked) \/ j \in 1 .. Len(loads)
  BY <1>3, <1>4
<1>6. \A j \in DOMAIN Asked : j = Len(Asked) \/ (j \in DOMAIN loads /\ Asked[j] = loads[j])
  BY <1>3, <1>4, <1>5
<1>7. Asked[Len(Asked)] = new
  BY <1>3
<1> QED
  BY <1>1, <1>3, <1>6, <1>7, Zenon

LEMMA TellStep ==
    ASSUME ListInv, Tell
    PROVE  ListInv'
<1> DEFINE s == SerialOf[Head(tell)[2]]
<1>1. /\ tell # <<>> /\ tell \in Seq(Events)
      /\ tell' = Tail(tell) /\ UNCHANGED <<devices, poll, seen, open, shown, late>>
      /\ told' = IF Head(tell)[1] = "connected" THEN told \cup {s} ELSE told \ {s}
      /\ IF open THEN loads' = Asked ELSE UNCHANGED loads
  BY DEF Tell, ListInv, DetectorInv
<1>2. /\ tell' \in Seq(Events) /\ Len(tell') = Len(tell) - 1
      /\ \A k \in DOMAIN tell' : k + 1 \in DOMAIN tell /\ tell'[k] = tell[k + 1]
      /\ \A k \in DOMAIN tell : k # 1 => k - 1 \in DOMAIN tell' /\ tell'[k - 1] = tell[k]
      /\ 1 \in DOMAIN tell /\ Head(tell) = tell[1] /\ tell[1] \in Events
  BY <1>1
<1>3. s \in Serials
  BY <1>2 DEF Events, Serials
<1>4. Connected' = Connected
  BY <1>1 DEF Connected
<1>5. DetectorInv'
  BY <1>1, <1>2, <1>3 DEF ListInv, DetectorInv
<1>6. TellInv'
  <2>1. \A k \in DOMAIN tell' : SerialOf[tell'[k][2]] # s
    <3> TAKE k \in DOMAIN tell'
    <3>1. k + 1 \in DOMAIN tell /\ k + 1 # 1 /\ tell'[k] = tell[k + 1]
      BY <1>2
    <3> QED
      BY <1>2, <3>1 DEF ListInv, TellInv
  <2>2. \A j, k \in DOMAIN tell' : j # k => SerialOf[tell'[j][2]] # SerialOf[tell'[k][2]]
    <3> TAKE j, k \in DOMAIN tell'
    <3>1. j + 1 # k + 1 <=> j # k
      BY <1>2
    <3> QED
      BY <1>2, <3>1 DEF ListInv, TellInv
  <2>3. \A k \in DOMAIN tell' :
           /\ SerialOf[tell'[k][2]] \in Connected' <=> tell'[k][1] = "connected"
           /\ SerialOf[tell'[k][2]] \in told' <=> tell'[k][1] # "connected"
    BY <1>1, <1>2, <1>4, <2>1 DEF ListInv, TellInv
  <2>4. s \in told' <=> s \in Connected'
    BY <1>1, <1>2, <1>4 DEF ListInv, TellInv
  <2>5. \A x \in Serials : (x \in told') # (x \in Connected') =>
           \E k \in DOMAIN tell' : SerialOf[tell'[k][2]] = x
    <3> SUFFICES ASSUME NEW x \in Serials, (x \in told') # (x \in Connected')
                 PROVE  \E k \in DOMAIN tell' : SerialOf[tell'[k][2]] = x
      OBVIOUS
    <3>1. x # s /\ (x \in told) # (x \in Connected)
      BY <1>1, <1>4, <2>4
    <3>2. PICK k \in DOMAIN tell : SerialOf[tell[k][2]] = x
      BY <3>1 DEF ListInv, TellInv
    <3>3. k # 1
      BY <1>2, <3>1, <3>2
    <3>4. k - 1 \in DOMAIN tell' /\ tell'[k - 1] = tell[k]
      BY <1>2, <3>3
    <3> QED
      BY <3>2, <3>4
  <2> QED
    BY <1>1, <2>2, <2>3, <2>5 DEF ListInv, TellInv
<1>7. DialogInv'
  <2>1. /\ loads' \in Seq(Loads) /\ (open => loads' # <<>> /\ ~loads'[Len(loads')].read)
        /\ \A j \in DOMAIN loads' : loads'[j].read =>
               j \in DOMAIN loads /\ loads'[j] = loads[j]
    BY <1>1, AskedLoads DEF ListInv, DialogInv
  <2> QED
    BY <1>1, <2>1 DEF ListInv, DialogInv, Youngest
<1> QED
  BY <1>5, <1>6, <1>7 DEF ListInv

\* Opening and closing the dialog, and the death of the program.
LEMMA OpenStep ==
    ASSUME ListInv, OpenDialog \/ CloseDialog \/ Crash
    PROVE  ListInv'
<1>1. CASE OpenDialog
  <2>1. UNCHANGED <<devices, poll, seen, tell, told>>
    BY <1>1 DEF OpenDialog, detector
  <2>2. /\ loads' = Asked /\ open' = TRUE /\ UNCHANGED <<shown, late>>
    BY <1>1 DEF OpenDialog
  <2>3. /\ loads' \in Seq(Loads) /\ loads' # <<>> /\ ~loads'[Len(loads')].read
        /\ \A j \in DOMAIN loads' : loads'[j].read =>
               j \in DOMAIN loads /\ loads'[j] = loads[j]
    BY <2>2, AskedLoads DEF ListInv, DialogInv
  <2> QED
    BY <2>1, <2>2, <2>3
    DEF ListInv, DetectorInv, TellInv, DialogInv, Youngest, Connected
<1>2. CASE CloseDialog
  <2>1. UNCHANGED <<devices, poll, seen, tell, told>>
    BY <1>2 DEF CloseDialog, detector
  <2>2. open' = FALSE /\ loads' = <<>> /\ shown' = {} /\ late' = FALSE
    BY <1>2 DEF CloseDialog
  <2>3. DialogInv'
    <3>1. open' \in BOOLEAN /\ late' \in BOOLEAN /\ ~open'
      BY <2>2, Zenon
    <3>2. shown' \subseteq Serials /\ loads' \in Seq(Loads) /\ DOMAIN loads' = {}
      BY <2>2
    <3> QED
      BY <3>1, <3>2 DEF DialogInv
  <2> QED
    BY <2>1, <2>3 DEF ListInv, DetectorInv, TellInv, Connected
<1>3. CASE Crash
  <2>1. /\ devices' = [s \in Serials |-> None]
        /\ poll' = "wait" /\ seen' = {} /\ tell' = <<>> /\ told' = {}
        /\ open' = FALSE /\ loads' = <<>> /\ shown' = {} /\ late' = FALSE
    BY <1>3 DEF Crash
  <2>2. DetectorInv'
    BY <2>1 DEF DetectorInv
  <2>3. TellInv'
    BY <2>1 DEF TellInv, Connected
  <2>4. DialogInv'
    <3>1. open' \in BOOLEAN /\ late' \in BOOLEAN /\ ~open'
      BY <2>1, Zenon
    <3>2. shown' \subseteq Serials /\ loads' \in Seq(Loads) /\ DOMAIN loads' = {}
      BY <2>1
    <3> QED
      BY <3>1, <3>2 DEF DialogInv
  <2> QED
    BY <2>2, <2>3, <2>4 DEF ListInv
<1> QED
  BY <1>1, <1>2, <1>3


LEMMA GetStep ==
    ASSUME ListInv, NEW k \in DOMAIN loads, GetConnectedDevices(k)
    PROVE  ListInv'
<1>1. /\ loads' = [loads EXCEPT ![k].answer = Connected, ![k].read = TRUE]
      /\ UNCHANGED <<devices, poll, seen, tell, told, open, shown, late>>
  BY DEF GetConnectedDevices, detector
<1>2. loads \in Seq(Loads) /\ loads[k] \in Loads
  BY DEF ListInv, DialogInv
<1>3. Connected \subseteq Serials /\ Connected' = Connected
  BY <1>1 DEF Connected
<1>4. loads' = [loads EXCEPT ![k] = [@ EXCEPT !.answer = Connected, !.read = TRUE]]
  BY <1>1, <1>2
<1>5. [loads[k] EXCEPT !.answer = Connected, !.read = TRUE] \in Loads
  BY <1>2, <1>3 DEF Loads
<1>6. loads' \in Seq(Loads) /\ Len(loads') = Len(loads)
  BY <1>2, <1>4, <1>5
<1>7. \A j \in DOMAIN loads : loads'[j].overtaken = loads[j].overtaken
         /\ (j = k => loads'[j].answer = Connected) /\ (j # k => loads'[j] = loads[j])
  BY <1>2, <1>4 DEF Loads
<1>8. loads # <<>> => Len(loads) \in DOMAIN loads
  BY <1>2
<1>9. DialogInv'
  BY <1>1, <1>3, <1>6, <1>7, <1>8 DEF ListInv, DialogInv, Youngest
<1> QED
  BY <1>1, <1>3, <1>9 DEF ListInv, DetectorInv, TellInv

\* The answer of the youngest call is shown, or the youngest call stays.
LEMMA ShowStep ==
    ASSUME ListInv, NEW k \in DOMAIN loads, ShowDevices(k)
    PROVE  ListInv'
<1> DEFINE marked == [j \in DOMAIN loads |->
                         IF j < k THEN [loads[j] EXCEPT !.overtaken = TRUE] ELSE loads[j]]
<1>1. /\ loads[k].read /\ shown' = loads[k].answer /\ late' = loads[k].overtaken
      /\ loads' = RemoveAt(marked, k)
      /\ UNCHANGED <<devices, poll, seen, tell, told, open>>
  BY DEF ShowDevices, detector
<1>2. /\ loads \in Seq(Loads) /\ loads[k] \in Loads /\ Len(loads) \in DOMAIN loads
      /\ k \in 1 .. Len(loads) /\ Len(loads) \in Nat /\ DOMAIN loads = 1 .. Len(loads)
  BY DEF ListInv, DialogInv
<1>3. /\ marked \in Seq(Loads) /\ Len(marked) = Len(loads)
      /\ \A j \in DOMAIN loads : j < k => marked[j].overtaken
      /\ \A j \in DOMAIN loads : j >= k => marked[j] = loads[j]
      /\ \A j \in DOMAIN loads :
            marked[j].read = loads[j].read /\ marked[j].answer = loads[j].answer
  <2>1. \A j \in DOMAIN loads :
           /\ [loads[j] EXCEPT !.overtaken = TRUE] \in Loads
           /\ [loads[j] EXCEPT !.overtaken = TRUE].overtaken
           /\ [loads[j] EXCEPT !.overtaken = TRUE].read = loads[j].read
           /\ [loads[j] EXCEPT !.overtaken = TRUE].answer = loads[j].answer
    <3> TAKE j \in DOMAIN loads
    <3>1. loads[j] \in Loads
      BY <1>2
    <3> QED
      BY <3>1 DEF Loads
  <2>2. \A j \in DOMAIN loads : marked[j] \in Loads
    BY <1>2, <2>1
  <2>3. marked \in Seq(Loads) /\ Len(marked) = Len(loads)
    BY <1>2, <2>2
  <2>4. \A j \in DOMAIN loads : j >= k => marked[j] = loads[j]
    BY <1>2
  <2> QED
    BY <1>2, <2>1, <2>3, <2>4
<1> HIDE DEF marked
<1>4. /\ loads' \in Seq(Loads) /\ Len(loads') = Len(loads) - 1
      /\ \A j \in 1 .. Len(loads) - 1 : loads'[j] = IF j < k THEN marked[j] ELSE marked[j + 1]
  <2> DEFINE left == SubSeq(marked, 1, k - 1)
             right == SubSeq(marked, k + 1, Len(marked))
  <2>1. /\ left \in Seq(Loads) /\ Len(left) = k - 1
        /\ \A j \in 1 .. k - 1 : left[j] = marked[j]
    BY <1>2, <1>3
  <2>2. /\ right \in Seq(Loads) /\ Len(right) = Len(loads) - k
        /\ \A j \in 1 .. Len(loads) - k : right[j] = marked[k + j]
    BY <1>2, <1>3
  <2>3. loads' = left \o right
    BY <1>1 DEF RemoveAt
  <2> HIDE DEF left, right
  <2>4. /\ loads' \in Seq(Loads) /\ Len(loads') = Len(left) + Len(right)
        /\ \A j \in 1 .. Len(left) + Len(right) :
              loads'[j] = IF j <= Len(left) THEN left[j] ELSE right[j - Len(left)]
    BY <2>1, <2>2, <2>3, ConcatProperties
  <2>5. Len(loads') = Len(loads) - 1
    BY <1>2, <2>1, <2>2, <2>4
  <2>6. ASSUME NEW j \in 1 .. Len(loads) - 1
        PROVE  loads'[j] = IF j < k THEN marked[j] ELSE marked[j + 1]
    <3>1. CASE j < k
      BY <1>2, <2>1, <2>2, <2>4, <3>1
    <3>2. CASE j >= k
      <4>1. j - (k - 1) \in 1 .. Len(loads) - k /\ k + (j - (k - 1)) = j + 1
        BY <1>2, <3>2
      <4>2. loads'[j] = right[j - (k - 1)]
        BY <1>2, <2>1, <2>2, <2>4, <3>2
      <4> QED
        BY <1>2, <2>2, <3>2, <4>1, <4>2
    <3> QED
      BY <1>2, <3>1, <3>2
  <2> QED
    BY <2>4, <2>6, <2>5
<1>5. \A j \in DOMAIN loads' : loads'[j].read => loads'[j].answer \subseteq Serials
  <2> TAKE j \in DOMAIN loads'
  <2>1. j \in 1 .. Len(loads) - 1 /\ j \in DOMAIN loads /\ j + 1 \in DOMAIN loads
    BY <1>2, <1>4
  <2> QED
    <3>1. \A m \in DOMAIN loads : marked[m].read => marked[m].answer \subseteq Serials
      BY <1>3 DEF ListInv, DialogInv
    <3> QED
      BY <1>4, <2>1, <3>1
<1>6. shown' \subseteq Serials /\ late' \in BOOLEAN
  BY <1>1, <1>2 DEF ListInv, DialogInv, Loads
<1>7. CASE k < Len(loads)
  <2>1. loads'[Len(loads')] = loads[Len(loads)] /\ loads # <<>> /\ loads' # <<>>
    BY <1>2, <1>3, <1>4, <1>7
  <2> QED
    BY <1>1, <1>4, <1>5, <1>6, <2>1
    DEF ListInv, DialogInv, Youngest, DetectorInv, TellInv, Connected
<1>8. CASE k = Len(loads)
  <2>1. loads' # <<>> => loads'[Len(loads')].overtaken
    BY <1>2, <1>3, <1>4, <1>8
  <2> QED
    BY <1>1, <1>4, <1>5, <1>6, <2>1
    DEF ListInv, DialogInv, Youngest, DetectorInv, TellInv, Connected
<1> QED
  BY <1>2, <1>7, <1>8

-------------------------------------------------------------------------------
(* The imports and their files.                                            *)

ImportState == <<plugged, card, pc, serial, dev, todo, cur, from, at, linked, disk,
                 origin, kept, clean, mixed, replaced>>

LEMMA Typed ==
    /\ \A d \in Devices : SerialOf[d] \in Serials
    /\ \A s \in Serials : DirOf[s] \in Dirs
BY DEF Serials, Dirs

LEMMA ImportFrame ==
    ASSUME StepInv, FilesInv, UNCHANGED ImportState
    PROVE  StepInv' /\ FilesInv'
BY DEF ImportState, StepInv, FilesInv, Dir

\* An import that ends.
LEMMA EndsStep ==
    ASSUME StepInv, FilesInv, NEW i \in Imports, EndOf(i), i \notin linked, at[i] = 0,
           UNCHANGED <<plugged, card, cur, from, at, linked, disk, origin, mixed, replaced>>
    PROVE  StepInv' /\ FilesInv'
<1>1. StepInv'
  BY DEF EndOf, Goto, StepInv, FilesInv, Steps
<1>2. FilesInv'
  BY DEF EndOf, FilesInv, StepInv, Dir
<1> QED
  BY <1>1, <1>2

\* The steps before the first file.
LEMMA BeginsStep ==
    ASSUME ListInv, StepInv, FilesInv, NEW i \in Imports, NEW s \in Serials,
           ImportFromDevice(i, s) \/ LookupFails(i) \/ Lookup(i) \/ Enumerate(i)
    PROVE  StepInv' /\ FilesInv'
<1>1. CASE ImportFromDevice(i, s)
  <2>1. /\ pc[i] = "idle" /\ pc' = [pc EXCEPT ![i] = "lookup"]
        /\ serial' = [serial EXCEPT ![i] = s]
        /\ clean' \subseteq clean \cup {i} /\ mixed' \subseteq mixed \cup {DirOf[s]}
        /\ UNCHANGED <<plugged, card, dev, todo, cur, from, at, linked, disk, origin, kept, replaced>>
    BY <1>1 DEF ImportFromDevice, Goto, copying
  <2>2. StepInv'
    BY <2>1 DEF StepInv, FilesInv, Steps
  <2>3. \A j \in linked : Dir(j)' = Dir(j)
    BY <2>1 DEF StepInv, FilesInv, Dir
  <2>4. FilesInv'
    BY <2>1, <2>3, Typed DEF FilesInv
  <2> QED
    BY <2>2, <2>4
<1>2. CASE LookupFails(i)
  <2>1. CASE EndOf(i)
    BY <1>2, <2>1, EndsStep DEF LookupFails, StepInv
  <2>2. CASE Goto(i, "tool") /\ UNCHANGED <<serial, dev, todo, kept, clean>>
    BY <1>2, <2>2 DEF LookupFails, Goto, StepInv, FilesInv, Steps, Dir
  <2> QED
    BY <1>2, <2>1, <2>2 DEF LookupFails
<1>3. CASE Lookup(i)
  <2>1. devices[serial[i]] \in Devices /\ SerialOf[devices[serial[i]]] = serial[i]
    BY <1>3 DEF Lookup, StepInv, ListInv, DetectorInv
  <2> QED
    BY <1>3, <2>1 DEF Lookup, Goto, StepInv, FilesInv, Steps, Dir, copying
<1>4. CASE Enumerate(i)
  <2>1. CASE EndOf(i)
    BY <1>4, <2>1, EndsStep DEF Enumerate, StepInv
  <2>2. CASE ~EndOf(i)
    <3> DEFINE found == IF dev[i] \in plugged THEN OnCard(dev[i]) ELSE {}
    <3>1. /\ pc[i] = "enumerate" /\ pc' = [pc EXCEPT ![i] = "walk"]
          /\ todo' = [todo EXCEPT ![i] = found] /\ clean' \subseteq clean
          /\ UNCHANGED <<plugged, card, serial, dev, cur, from, at, linked, disk, origin,
                         kept, mixed, replaced>>
      BY <1>4, <2>2 DEF Enumerate, Goto
    <3>2. found \subseteq Names
      BY DEF OnCard
    <3> HIDE DEF found
    <3>3. StepInv'
      BY <3>1, <3>2 DEF StepInv, FilesInv, Steps
    <3>4. FilesInv'
      BY <3>1, <3>2 DEF FilesInv, Dir
    <3> QED
      BY <3>3, <3>4
  <2> QED
    BY <2>1, <2>2
<1> QED
  BY <1>1, <1>2, <1>3, <1>4


\* A directory that gets a file of a device.
LEMMA FillStep ==
    ASSUME FilesInv, NEW dir \in Dirs, NEW d \in Devices, Fill(dir, d),
           \A e \in Dirs : e # dir => disk'[e] = disk[e]
    PROVE  /\ origin' \in [Dirs -> Devices \cup {None}] /\ mixed' \subseteq Dirs
           /\ \A e \in Dirs : origin'[e] = None => \A n \in Names : disk'[e][n] = None
<1>1. /\ origin'[dir] = d /\ d # None
      /\ \A e \in Dirs : e # dir => origin'[e] = origin[e]
  BY NoneIsNone DEF Fill, FilesInv
<1> QED
  BY <1>1 DEF Fill, FilesInv

\* A file that is visited.
LEMMA VisitsStep ==
    ASSUME StepInv, FilesInv, NEW i \in Imports, NEW n \in Names,
           SkipFile(i, n) \/ VisitFile(i, n) \/ CreateFile(i)
    PROVE  StepInv' /\ FilesInv'
<1>1. CASE SkipFile(i, n)
  <2>1. StepInv'
    BY <1>1 DEF SkipFile, StepInv, FilesInv, Steps
  <2>2. FilesInv'
    BY <1>1 DEF SkipFile, FilesInv, Dir
  <2> QED
    BY <2>1, <2>2
<1>2. CASE VisitFile(i, n)
  <2>1. StepInv'
    BY <1>2 DEF VisitFile, Goto, StepInv, FilesInv, Steps
  <2>2. i \notin linked
    BY <1>2 DEF VisitFile, StepInv
  <2>3. FilesInv'
    BY <1>2, <2>2 DEF VisitFile, FilesInv, Dir
  <2> QED
    BY <2>1, <2>3
<1>3. CASE CreateFile(i)
  <2>1. /\ Dir(i) \in Dirs /\ cur[i] \in Names /\ dev[i] \in Devices
        /\ card[dev[i]][cur[i]] \in Contents
    BY <1>3, Typed DEF CreateFile, Readable, StepInv, FilesInv, Dir
  <2>2. StepInv'
    BY <1>3, <2>1, DevicesTyped DEF CreateFile, Goto, StepInv, FilesInv, Steps
  <2>3. <<>> \in Seq(Contents \cup {None}) /\ <<>> # None
    <3>1. <<>> \in Seq(Contents \cup {None})
      OBVIOUS
    <3> QED
      BY <3>1, NoneIsNone, Zenon
  <2>4. disk' \in [Dirs -> Files]
    BY <1>3, <2>1, <2>3 DEF CreateFile, FilesInv, Files
  <2>5. \A j \in linked' : disk'[Dir(j)][cur[j]] # None
    BY <1>3, <2>1, <2>3, NoneIsNone DEF CreateFile, FilesInv, Files
  <2>7. /\ origin' \in [Dirs -> Devices \cup {None}] /\ mixed' \subseteq Dirs
        /\ \A e \in Dirs : origin'[e] = None => \A m \in Names : disk'[e][m] = None
    <3>1. Fill(Dir(i), dev[i]) /\ \A e \in Dirs : e # Dir(i) => disk'[e] = disk[e]
      BY <1>3, <2>1 DEF CreateFile, FilesInv
    <3> QED
      BY <2>1, <3>1, FillStep
  <2>6. FilesInv'
    BY <1>3, <2>1, <2>4, <2>5, <2>7 DEF CreateFile, FilesInv, Dir
  <2> QED
    BY <2>2, <2>6
<1> QED
  BY <1>1, <1>2, <1>3

\* A chunk leaves a file.
LEMMA WrittenFile ==
    ASSUME NEW file \in Seq(Contents \cup {None}), NEW k \in Nat \ {0}, NEW c \in Contents
    PROVE  WrittenAt(file, k, c) \in Seq(Contents \cup {None})
<1> DEFINE long == IF k > Len(file) THEN k ELSE Len(file)
<1>1. long \in Nat
  OBVIOUS
<1>2. \A j \in 1 .. long : (IF j = k THEN c ELSE IF j \in DOMAIN file THEN file[j] ELSE None)
                              \in Contents \cup {None}
  OBVIOUS
<1> QED
  BY <1>1, <1>2 DEF WrittenAt

\* The next chunk, or the next file.
LEMMA CopyStep ==
    ASSUME StepInv, FilesInv, NEW i \in Imports, WriteChunk(i) \/ CopyFails(i)
    PROVE  StepInv' /\ FilesInv'
<1>1. /\ pc[i] \in {"create", "write"} /\ Dir(i) \in Dirs /\ cur[i] \in Names
      /\ dev[i] \in Devices /\ SerialOf[dev[i]] = serial[i]
  BY Typed DEF WriteChunk, CopyFails, StepInv, FilesInv, Dir
<1>2. CASE WriteChunk(i)
  <2>1. /\ pc[i] = "write" /\ at[i] \in Nat /\ from[i] \in Contents
        /\ at[i] < SizeOf[from[i]] /\ SizeOf[from[i]] \in Nat
    BY <1>2, DevicesTyped DEF WriteChunk, StepInv, FilesInv
  <2>2. at[i] + 1 \in Nat \ {0} /\ at[i] + 1 <= SizeOf[from[i]]
    BY <2>1
  <2>3. disk' \in [Dirs -> Files]
    <3>1. CASE i \notin linked
      BY <1>2, <3>1 DEF WriteChunk, FilesInv
    <3>2. CASE i \in linked
      <4>1. disk[Dir(i)][cur[i]] \in Seq(Contents \cup {None})
        BY <1>1, <3>2 DEF FilesInv, Files
      <4>2. WrittenAt(disk[Dir(i)][cur[i]], at[i] + 1, from[i]) \in Seq(Contents \cup {None})
        BY <2>1, <2>2, <4>1, WrittenFile
      <4>3. disk' = [disk EXCEPT ![Dir(i)] =
                        [@ EXCEPT ![cur[i]] =
                            WrittenAt(disk[Dir(i)][cur[i]], at[i] + 1, from[i])]]
        BY <1>1, <1>2, <3>2 DEF WriteChunk, FilesInv
      <4> QED
        BY <1>1, <4>2, <4>3 DEF FilesInv, Files
    <3> QED
      BY <3>1, <3>2
  <2>4. \A d \in Dirs, n \in Names : disk[d][n] # None => disk'[d][n] # None
    <3>1. CASE i \notin linked
      BY <1>2, <3>1 DEF WriteChunk
    <3>2. CASE i \in linked
      <4>1. disk[Dir(i)][cur[i]] \in Seq(Contents \cup {None})
        BY <1>1, <3>2 DEF FilesInv, Files
      <4>2. WrittenAt(disk[Dir(i)][cur[i]], at[i] + 1, from[i]) # None
        <5>1. WrittenAt(disk[Dir(i)][cur[i]], at[i] + 1, from[i]) \in Seq(Contents \cup {None})
          BY <2>1, <2>2, <4>1, WrittenFile
        <5> QED
          BY <5>1, NoneIsNone, Zenon
      <4> QED
        BY <1>1, <1>2, <3>2, <4>2 DEF WriteChunk, FilesInv, Files
    <3> QED
      BY <3>1, <3>2
  <2>7. /\ UNCHANGED origin
        /\ \A e \in Dirs : origin[e] = None => \A n \in Names : disk'[e][n] = None
    <3>1. UNCHANGED origin
      BY <1>2 DEF WriteChunk
    <3>2. i \in linked => origin[Dir(i)] # None
      BY <1>1 DEF FilesInv
    <3>3. \A e \in Dirs : origin[e] = None => disk'[e] = disk[e]
      BY <1>1, <1>2, <3>2 DEF WriteChunk, FilesInv
    <3> QED
      BY <3>1, <3>3 DEF FilesInv
  <2>5. CASE at[i] + 1 = SizeOf[from[i]]
    <3>1. NextFile(i) /\ UNCHANGED <<plugged, card, serial, dev, kept, clean, mixed, replaced>>
      BY <1>2, <2>5 DEF WriteChunk
    <3>2. StepInv'
      BY <3>1, <2>1 DEF NextFile, Goto, StepInv, FilesInv, Steps
    <3>3. \A j \in linked' : Dir(j)' = Dir(j) /\ cur'[j] = cur[j] /\ Dir(j) \in Dirs /\ cur[j] \in Names
      BY <3>1, Typed DEF NextFile, StepInv, FilesInv, Dir
    <3>4. \A j \in linked' : disk'[Dir(j)'][cur'[j]] # None
      BY <2>4, <3>1, <3>3 DEF NextFile, FilesInv
    <3>5. FilesInv'
      BY <2>3, <2>7, <3>1, <3>4 DEF NextFile, FilesInv
    <3> QED
      BY <3>2, <3>5
  <2>6. CASE at[i] + 1 # SizeOf[from[i]]
    <3>1. /\ at' = [at EXCEPT ![i] = at[i] + 1]
          /\ UNCHANGED <<pc, todo, cur, from, linked, plugged, card, serial, dev, kept,
                         clean, mixed, replaced>>
      BY <1>2, <2>6 DEF WriteChunk
    <3>2. at'[i] = at[i] + 1 /\ at[i] + 1 < SizeOf[from[i]]
      BY <3>1, <2>1, <2>6, <2>2 DEF FilesInv
    <3>3. StepInv'
      BY <3>1, <3>2, <2>1 DEF StepInv, FilesInv
    <3>4. \A j \in linked : Dir(j)' = Dir(j) /\ Dir(j) \in Dirs /\ cur[j] \in Names
      BY <3>1, Typed DEF StepInv, FilesInv, Dir
    <3>5. at' \in [Imports -> Nat]
      BY <3>1, <2>1 DEF FilesInv
    <3>6. FilesInv'
      BY <2>3, <2>4, <2>7, <3>1, <3>4, <3>5 DEF FilesInv
    <3> QED
      BY <3>3, <3>6
  <2> QED
    BY <2>5, <2>6
<1>3. CASE CopyFails(i)
  <2>1. /\ NextFile(i) /\ clean' = clean \ {i}
        /\ UNCHANGED <<plugged, card, serial, dev, disk, origin, kept, mixed, replaced>>
    BY <1>3 DEF CopyFails
  <2>2. StepInv'
    BY <1>1, <2>1 DEF NextFile, Goto, StepInv, FilesInv, Steps
  <2>3. FilesInv'
    BY <2>1 DEF NextFile, FilesInv, Dir
  <2> QED
    BY <2>2, <2>3
<1> QED
  BY <1>2, <1>3


LEMMA ToolStep ==
    ASSUME StepInv, FilesInv, NEW i \in Imports, NEW n \in Names, ToolCopies(i, n)
    PROVE  StepInv' /\ FilesInv'
<1>1. PICK d \in plugged \ Mounted :
         /\ card[d][n] # None
         /\ \E size \in 0 .. SizeOf[card[d][n]] :
               disk' = [disk EXCEPT ![Dir(i)][n] = [k \in 1 .. size |-> card[d][n]]]
         /\ Fill(Dir(i), d)
  BY DEF ToolCopies
<1>2. PICK size \in 0 .. SizeOf[card[d][n]] :
         disk' = [disk EXCEPT ![Dir(i)][n] = [k \in 1 .. size |-> card[d][n]]]
  BY <1>1
<1> DEFINE file == [k \in 1 .. size |-> card[d][n]]
<1>3. Dir(i) \in Dirs /\ card[d][n] \in Contents
  BY <1>1, Typed DEF ToolCopies, StepInv, FilesInv, Dir
<1>4. size \in Nat
  BY <1>3, DevicesTyped
<1>5. file \in Seq(Contents \cup {None})
  BY <1>3, <1>4
<1>6. file # None
  BY <1>5, NoneIsNone, Zenon
<1>7. disk' = [disk EXCEPT ![Dir(i)] = [@ EXCEPT ![n] = file]]
  BY <1>2, <1>3 DEF FilesInv
<1> HIDE DEF file
<1>8. disk' \in [Dirs -> Files]
  BY <1>3, <1>5, <1>7 DEF FilesInv, Files
<1>9. \A e \in Dirs, m \in Names : disk[e][m] # None => disk'[e][m] # None
  BY <1>3, <1>6, <1>7 DEF FilesInv, Files
<1>10. UNCHANGED <<plugged, card, pc, serial, dev, todo, cur, from, at, linked, kept,
                   clean, replaced>>
  BY DEF ToolCopies, copying
<1>11. StepInv'
  BY <1>10 DEF StepInv
<1>12. \A j \in linked : Dir(j)' = Dir(j) /\ Dir(j) \in Dirs /\ cur[j] \in Names
  BY <1>10, Typed DEF StepInv, FilesInv, Dir
<1>14. d \in Devices /\ \A e \in Dirs : e # Dir(i) => disk'[e] = disk[e]
  BY <1>1, <1>3, <1>7 DEF FilesInv
<1>15. /\ origin' \in [Dirs -> Devices \cup {None}] /\ mixed' \subseteq Dirs
       /\ \A e \in Dirs : origin'[e] = None => \A m \in Names : disk'[e][m] = None
  BY <1>1, <1>3, <1>14, FillStep
<1>13. FilesInv'
  BY <1>1, <1>3, <1>8, <1>9, <1>10, <1>12, <1>15 DEF FilesInv
<1> QED
  BY <1>11, <1>13

\* What happens to the devices, the cache and the program.
LEMMA PlugStep ==
    ASSUME StepInv, FilesInv, NEW d \in Devices, Plug(d) \/ Unplug(d)
    PROVE  StepInv' /\ FilesInv'
<1>1. /\ plugged' \subseteq Devices /\ clean' \subseteq clean
      /\ UNCHANGED <<card, pc, serial, dev, todo, cur, from, at, linked, disk, origin, kept,
                     mixed, replaced>>
  BY DEF Plug, Unplug, FilesInv, copying
<1> QED
  BY <1>1 DEF StepInv, FilesInv, Dir

LEMMA ShootStep ==
    ASSUME StepInv, FilesInv, NEW d \in Devices, NEW n \in Names,
           NEW c \in Contents \cup {None}, Shoot(d, n, c)
    PROVE  StepInv' /\ FilesInv'
<1>1. /\ card' = [card EXCEPT ![d] = [@ EXCEPT ![n] = c]] /\ clean' \subseteq clean
      /\ replaced' \subseteq replaced \cup {<<DirOf[SerialOf[d]], n>>}
      /\ UNCHANGED <<plugged, pc, serial, dev, todo, cur, from, at, linked, disk, origin, kept,
                     mixed>>
  BY DEF Shoot, FilesInv, copying
<1>2. card' \in [Devices -> [Names -> Contents \cup {None}]]
  BY <1>1 DEF FilesInv
<1>3. replaced' \subseteq Dirs \X Names
  BY <1>1, Typed DEF FilesInv
<1>4. StepInv'
  BY <1>1 DEF StepInv
<1>5. FilesInv'
  BY <1>1, <1>2, <1>3 DEF FilesInv, Dir
<1> QED
  BY <1>4, <1>5

LEMMA ClearStep ==
    ASSUME StepInv, FilesInv, NEW s \in Serials, ClearImportCache(s)
    PROVE  StepInv' /\ FilesInv'
<1> DEFINE dir == DirOf[s]
<1>1. /\ disk' = [disk EXCEPT ![dir] = [m \in Names |-> None]]
      /\ linked' = linked \ Writers(dir)
      /\ clean' \subseteq clean /\ mixed' \subseteq mixed /\ replaced' \subseteq replaced
      /\ UNCHANGED <<plugged, card, pc, serial, dev, todo, cur, from, at, kept>>
  BY DEF ClearImportCache
<1>2. StepInv'
  BY <1>1 DEF StepInv
<1>3. \A j \in linked' : Dir(j)' = Dir(j) /\ Dir(j) # dir
  BY <1>1 DEF StepInv, FilesInv, Writers, Dir
<1>4. disk' \in [Dirs -> Files]
  BY <1>1 DEF FilesInv, Files
<1>6. origin' = [origin EXCEPT ![dir] = None]
  BY DEF ClearImportCache
<1>5. FilesInv'
  BY <1>1, <1>3, <1>4, <1>6 DEF FilesInv
<1> QED
  BY <1>2, <1>5

LEMMA CrashStep ==
    ASSUME StepInv, FilesInv, Crash
    PROVE  StepInv' /\ FilesInv'
BY DEF Crash, StepInv, FilesInv, Steps, Dir

\* The detector and the dialog leave the imports alone, and the other way round.
LEMMA Apart ==
    /\ DetectorNext \/ OpenDialog \/ CloseDialog \/ (\E k \in 1 .. MaxLoads : LoadNext(k)) =>
          UNCHANGED ImportState
    /\ \A i \in Imports : ImportNext(i) => UNCHANGED ListState
    /\ \A i \in Imports, s \in Serials : ImportFromDevice(i, s) => UNCHANGED ListState
    /\ \A i \in Imports, n \in Names : ToolCopies(i, n) => UNCHANGED ListState
    /\ \A d \in Devices : Plug(d) \/ Unplug(d) => UNCHANGED ListState
    /\ \A d \in Devices, n \in Names, c \in Contents \cup {None} :
          Shoot(d, n, c) => UNCHANGED ListState
    /\ \A s \in Serials : ClearImportCache(s) => UNCHANGED ListState
<1> USE DEF ListState, ImportState, detector, dialog, copying
<1>1. DetectorNext \/ OpenDialog \/ CloseDialog \/ (\E k \in 1 .. MaxLoads : LoadNext(k)) =>
          UNCHANGED ImportState
  BY DEF DetectorNext, Tick, PollBus, PollMounts, Tier, Reconcile, Tell, PollEnds,
         OpenDialog, CloseDialog, LoadNext, GetConnectedDevices, ShowDevices
<1>2. ASSUME NEW i \in Imports, ImportNext(i)
      PROVE  UNCHANGED ListState
  <2>1. CASE LookupFails(i) \/ Lookup(i) \/ Enumerate(i) \/ ImportEnds(i) \/ ToolEnds(i)
    BY <2>1 DEF LookupFails, Lookup, Enumerate, ImportEnds, ToolEnds
  <2>2. CASE \E n \in Names : SkipFile(i, n) \/ VisitFile(i, n)
    BY <2>2 DEF SkipFile, VisitFile
  <2>3. CASE CreateFile(i) \/ WriteChunk(i) \/ CopyFails(i)
    BY <2>3 DEF CreateFile, WriteChunk, CopyFails
  <2> QED
    BY <1>2, <2>1, <2>2, <2>3 DEF ImportNext
<1>3. \A i \in Imports, s \in Serials : ImportFromDevice(i, s) => UNCHANGED ListState
  BY DEF ImportFromDevice
<1>4. \A i \in Imports, n \in Names : ToolCopies(i, n) => UNCHANGED ListState
  BY DEF ToolCopies
<1>5. \A d \in Devices : Plug(d) \/ Unplug(d) => UNCHANGED ListState
  BY DEF Plug, Unplug
<1>6. \A d \in Devices, n \in Names, c \in Contents \cup {None} :
          Shoot(d, n, c) => UNCHANGED ListState
  BY DEF Shoot
<1>7. \A s \in Serials : ClearImportCache(s) => UNCHANGED ListState
  BY DEF ClearImportCache
<1> QED
  BY <1>1, <1>2, <1>3, <1>4, <1>5, <1>6, <1>7

BaseInv == ListInv /\ StepInv /\ FilesInv

LEMMA BaseInit == Init => BaseInv
<1> SUFFICES ASSUME Init PROVE BaseInv
  OBVIOUS
<1>1. DetectorInv /\ TellInv
  BY DEF Init, DetectorInv, TellInv, Connected
<1>2. DialogInv
  <2>1. open \in BOOLEAN /\ late \in BOOLEAN /\ ~open
    BY Zenon DEF Init
  <2>2. shown \subseteq Serials /\ loads \in Seq(Loads) /\ DOMAIN loads = {}
    BY DEF Init
  <2> QED
    BY <2>1, <2>2 DEF DialogInv
<1>3. StepInv
  BY DEF Init, StepInv, Steps
<1>4. FilesInv
  BY DevicesTyped DEF Init, FilesInv, Files
<1> QED
  BY <1>1, <1>2, <1>3, <1>4 DEF BaseInv, ListInv

LEMMA BaseStep ==
    ASSUME BaseInv, [Next]_vars
    PROVE  BaseInv'
<1> USE DEF BaseInv
<1>1. CASE DetectorNext \/ OpenDialog \/ CloseDialog \/ (\E k \in 1 .. MaxLoads : LoadNext(k))
  <2>1. StepInv' /\ FilesInv'
    BY <1>1, Apart, ImportFrame
  <2>2. plugged \subseteq Devices
    BY DEF FilesInv
  <2>3. CASE DetectorNext
    BY <2>2, <2>3, PollStep, ReconcileStep, TellStep, <2>1 DEF DetectorNext
  <2>4. CASE OpenDialog \/ CloseDialog
    BY <2>1, <2>4, OpenStep
  <2>5. CASE \E k \in 1 .. MaxLoads : LoadNext(k)
    BY <2>1, <2>5, GetStep, ShowStep DEF LoadNext, GetConnectedDevices, ShowDevices
  <2> QED
    BY <1>1, <2>3, <2>4, <2>5
<1>2. CASE \E i \in Imports : ImportNext(i)
  <2> SUFFICES ASSUME NEW i \in Imports, ImportNext(i)
               PROVE  BaseInv'
    BY <1>2
  <2>1. ListInv'
    BY Apart, ListFrame
  <2>2. CASE LookupFails(i) \/ Lookup(i) \/ Enumerate(i)
    <3>1. \E s \in Serials : TRUE
      BY <2>2 DEF LookupFails, Lookup, Enumerate, StepInv
    <3> QED
      BY <2>1, <2>2, <3>1, BeginsStep
  <2>3. CASE \E n \in Names : SkipFile(i, n) \/ VisitFile(i, n)
    BY <2>1, <2>3, VisitsStep
  <2>4. CASE CreateFile(i)
    <3>1. cur[i] \in Names
      BY <2>4 DEF CreateFile, StepInv, FilesInv
    <3> QED
      BY <2>1, <2>4, <3>1, VisitsStep
  <2>5. CASE WriteChunk(i) \/ CopyFails(i)
    BY <2>1, <2>5, CopyStep
  <2>6. CASE ImportEnds(i) \/ ToolEnds(i)
    <3>1. i \notin linked /\ at[i] = 0 /\ EndOf(i)
      BY <2>6 DEF ImportEnds, ToolEnds, StepInv
    <3>2. UNCHANGED <<plugged, card, cur, from, at, linked, disk, origin, mixed, replaced>>
      BY <2>6 DEF ImportEnds, ToolEnds
    <3> QED
      BY <2>1, <3>1, <3>2, EndsStep
  <2> QED
    BY <2>2, <2>3, <2>4, <2>5, <2>6 DEF ImportNext
<1>3. CASE \E i \in Imports, s \in Serials : ImportFromDevice(i, s)
  BY <1>3, Apart, ListFrame, BeginsStep
<1>4. CASE \E i \in Imports, n \in Names : ToolCopies(i, n)
  BY <1>4, Apart, ListFrame, ToolStep
<1>5. CASE \E d \in Devices : Plug(d) \/ Unplug(d)
  BY <1>5, Apart, ListFrame, PlugStep
<1>6. CASE \E d \in Devices, n \in Names, c \in Contents \cup {None} : Shoot(d, n, c)
  BY <1>6, Apart, ListFrame, ShootStep
<1>7. CASE \E s \in Serials : ClearImportCache(s)
  BY <1>7, Apart, ListFrame, ClearStep
<1>8. CASE Crash
  BY <1>8, OpenStep, CrashStep
<1>9. CASE UNCHANGED vars
  <2>1. UNCHANGED ListState /\ UNCHANGED ImportState
    BY <1>9 DEF vars, ListState, ImportState, detector, dialog, copying
  <2> QED
    BY <2>1, ListFrame, ImportFrame
<1> QED
  BY <1>1, <1>2, <1>3, <1>4, <1>5, <1>6, <1>7, <1>8, <1>9 DEF Next


BoundsInv ==
    disturbances \in 0 .. MaxDisturbances /\ importing \in Serials \cup {None}

LEMMA BoundsStep ==
    ASSUME BoundsInv, [Next]_vars
    PROVE  BoundsInv'
<1> DEFINE Same == UNCHANGED disturbances \/ Disturb
           Shows == importing' \in {importing, None} \cup Serials
<1>1. Same /\ Shows => BoundsInv'
  BY Bounds DEF BoundsInv, Disturb
<1> USE DEF dialog
<1>2. DetectorNext \/ OpenDialog \/ CloseDialog \/ (\E k \in 1 .. MaxLoads : LoadNext(k)) =>
          Same /\ Shows
  BY DEF DetectorNext, Tick, PollBus, PollMounts, Tier, Reconcile, Tell, PollEnds,
         OpenDialog, CloseDialog, LoadNext, GetConnectedDevices, ShowDevices
<1>3. ASSUME NEW i \in Imports, ImportNext(i)
      PROVE  Same /\ Shows
  <2>1. CASE LookupFails(i) \/ Lookup(i) \/ Enumerate(i) \/ ImportEnds(i) \/ ToolEnds(i)
    BY <2>1 DEF LookupFails, Lookup, Enumerate, ImportEnds, ToolEnds, EndOf
  <2>2. CASE \E n \in Names : SkipFile(i, n) \/ VisitFile(i, n)
    BY <2>2 DEF SkipFile, VisitFile
  <2>3. CASE CreateFile(i) \/ WriteChunk(i) \/ CopyFails(i)
    BY <2>3 DEF CreateFile, WriteChunk, CopyFails
  <2> QED
    BY <1>3, <2>1, <2>2, <2>3 DEF ImportNext
<1>4. \A i \in Imports, s \in Serials : ImportFromDevice(i, s) => Same /\ Shows
  BY DEF ImportFromDevice
<1>5. \A i \in Imports, n \in Names : ToolCopies(i, n) => Same /\ Shows
  BY DEF ToolCopies
<1>6. \A d \in Devices : Plug(d) \/ Unplug(d) => Same /\ Shows
  BY DEF Plug, Unplug
<1>7. \A d \in Devices, n \in Names, c \in Contents \cup {None} : Shoot(d, n, c) => Same /\ Shows
  BY DEF Shoot
<1>8. \A s \in Serials : ClearImportCache(s) => Same /\ Shows
  BY DEF ClearImportCache
<1>9. Crash => Same /\ Shows
  BY DEF Crash
<1>10. UNCHANGED vars => Same /\ Shows
  BY DEF vars
<1> HIDE DEF Same, Shows
<1> QED
  BY <1>1, <1>2, <1>3, <1>4, <1>5, <1>6, <1>7, <1>8, <1>9, <1>10 DEF Next

LEMMA BaseInvariant == Spec => [](BaseInv /\ BoundsInv)
<1>1. Init => BoundsInv
  BY Bounds DEF Init, BoundsInv
<1> QED
  BY BaseInit, BaseStep, BoundsStep, <1>1, PTL DEF Spec

\* The variables have their types.
THEOREM TypeCorrect == Spec => []TypeOK
<1>1. BaseInv /\ BoundsInv => TypeOK
  <2> SUFFICES ASSUME BaseInv, BoundsInv PROVE TypeOK
    OBVIOUS
  <2>1. \A k \in DOMAIN loads : loads[k].overtaken \in BOOLEAN
    <3> TAKE k \in DOMAIN loads
    <3>1. loads[k] \in Loads
      BY DEF BaseInv, ListInv, DialogInv
    <3> QED
      BY <3>1, Zenon DEF Loads
  <2> QED
    BY <2>1 DEF TypeOK, BaseInv, BoundsInv, ListInv, DetectorInv, DialogInv, StepInv,
                FilesInv, Steps
<1> QED
  BY <1>1, BaseInvariant, PTL

\* The frontend has been told of the devices in the detector's map, but for the
\* callbacks still to fire, whatever their serials and the order of a poll's.
THEOREM CallbacksLoseNothing == Spec => []ToldOnceEach
<1>1. ListInv => ToldOnceEach
  <2> SUFFICES ASSUME ListInv PROVE ToldOnceEach
    OBVIOUS
  <2> DEFINE gone == {SerialOf[e[2]] : e \in {x \in Range(tell) : x[1] = "disconnected"}}
             new == {SerialOf[e[2]] : e \in {x \in Range(tell) : x[1] = "connected"}}
  <2>1. \A k \in DOMAIN tell : tell[k][1] \in {"connected", "disconnected"}
                               /\ SerialOf[tell[k][2]] \in Serials
    BY Typed DEF ListInv, DetectorInv, Events
  <2>2. \A s : s \in gone <=> \E k \in DOMAIN tell :
                                 tell[k][1] = "disconnected" /\ SerialOf[tell[k][2]] = s
    BY DEF Range
  <2>3. \A s : s \in new <=> \E k \in DOMAIN tell :
                                tell[k][1] = "connected" /\ SerialOf[tell[k][2]] = s
    BY DEF Range
  <2> HIDE DEF gone, new
  <2>4. gone \cap new = {}
    BY <2>2, <2>3 DEF ListInv, TellInv
  <2>5. told = (Connected \ new) \cup gone
    <3>1. \A s \in gone : s \in told /\ s \notin Connected
      BY <2>2 DEF ListInv, TellInv
    <3>2. \A s \in new : s \notin told /\ s \in Connected
      BY <2>3 DEF ListInv, TellInv
    <3>3. \A s \in Serials : (s \in told) # (s \in Connected) => s \in gone \cup new
      BY <2>1, <2>2, <2>3 DEF ListInv, TellInv
    <3>4. told \subseteq Serials /\ Connected \subseteq Serials
      BY DEF ListInv, DetectorInv, Connected
    <3> QED
      BY <3>1, <3>2, <3>3, <3>4
  <2>6. \A j, k \in DOMAIN tell : j # k => tell[j] # tell[k]
    BY DEF ListInv, TellInv
  <2> QED
    BY <2>4, <2>5, <2>6 DEF ToldOnceEach, gone, new
<1> QED
  BY <1>1, BaseInvariant, PTL DEF BaseInv

\* With no callback and no call in flight the dialog lists the detector's
\* devices, for any number of calls, unless an answer overtook a younger one.
THEOREM DialogIsCurrent == Spec => []ListIsCurrent
<1>1. ListInv => ListIsCurrent
  BY DEF ListInv, DialogInv, ListIsCurrent
<1> QED
  BY <1>1, BaseInvariant, PTL DEF BaseInv


-------------------------------------------------------------------------------
(* What an import leaves in its directory.                                 *)

CopyInv == WriterInv /\ SourceInv /\ DiskInv /\ CleanInv

LEMMA CopyFrame ==
    ASSUME CopyInv, UNCHANGED ImportState
    PROVE  CopyInv'
BY DEF ImportState, CopyInv, WriterInv, SourceInv, DiskInv, CleanInv, Thorough, OwnDirectory, Dir, OnCard

\* Steps that leave the files alone.
LEMMA DiskFrame ==
    ASSUME DiskInv, UNCHANGED <<disk, origin, card, replaced>>, mixed \subseteq mixed'
    PROVE  DiskInv'
BY DEF DiskInv

LEMMA WriterFrame ==
    ASSUME WriterInv, UNCHANGED <<disk, origin>>, mixed \subseteq mixed',
           \A j \in Imports :
              /\ pc'[j] # "idle" => pc[j] # "idle"
              /\ pc'[j] # "idle" => Dir(j)' = Dir(j)
              /\ j \in linked' => /\ j \in linked /\ cur'[j] = cur[j]
                                  /\ from'[j] = from[j] /\ at'[j] = at[j]
                                  /\ dev'[j] = dev[j]
    PROVE  WriterInv'
<1> SUFFICES ASSUME NEW i \in Imports, pc'[i] # "idle", Dir(i)' \notin mixed'
             PROVE  /\ \A j \in Imports : pc'[j] # "idle" /\ Dir(j)' = Dir(i)' => j = i
                    /\ i \in linked' =>
                          /\ origin'[Dir(i)'] = dev'[i]
                          /\ disk'[Dir(i)'][cur'[i]] = [k \in 1 .. at'[i] |-> from'[i]]
  BY DEF WriterInv
<1>1. pc[i] # "idle" /\ Dir(i)' = Dir(i) /\ Dir(i) \notin mixed
  OBVIOUS
<1>2. ASSUME NEW j \in Imports, pc'[j] # "idle", Dir(j)' = Dir(i)'
      PROVE  j = i
  <2>1. pc[j] # "idle" /\ Dir(j) = Dir(i)
    BY <1>1, <1>2
  <2> QED
    BY <1>1, <2>1 DEF WriterInv
<1>3. i \in linked' => /\ origin'[Dir(i)'] = dev'[i]
                       /\ disk'[Dir(i)'][cur'[i]] = [k \in 1 .. at'[i] |-> from'[i]]
  BY <1>1 DEF WriterInv
<1> QED
  BY <1>2, <1>3

\* An import that ends.
LEMMA EndsCopy ==
    ASSUME BaseInv, CopyInv, NEW i \in Imports, EndOf(i),
           UNCHANGED <<plugged, card, cur, from, at, linked, disk, origin, mixed, replaced>>
    PROVE  CopyInv'
<1> USE DEF BaseInv, StepInv, FilesInv
<1>1. /\ pc' = [pc EXCEPT ![i] = "idle"] /\ clean' = clean \ {i}
      /\ \A j \in Imports : j # i => /\ pc'[j] = pc[j] /\ serial'[j] = serial[j]
                                     /\ dev'[j] = dev[j] /\ todo'[j] = todo[j]
                                     /\ kept'[j] = kept[j]
      /\ \A j \in Imports : j # i => Dir(j)' = Dir(j)
  BY DEF EndOf, Goto, Dir
<1>2. WriterInv'
  BY <1>1 DEF CopyInv, WriterInv
<1>3. SourceInv'
  BY <1>1 DEF CopyInv, SourceInv
<1>4. CleanInv'
  BY <1>1 DEF CopyInv, CleanInv, Thorough, OwnDirectory, OnCard
<1> QED
  BY <1>2, <1>3, <1>4, DiskFrame DEF CopyInv

\* The steps before the first file.
LEMMA BeginsCopy ==
    ASSUME BaseInv, CopyInv, NEW i \in Imports, NEW s \in Serials,
           ImportFromDevice(i, s) \/ LookupFails(i) \/ Lookup(i) \/ Enumerate(i)
    PROVE  CopyInv'
<1> USE DEF BaseInv, StepInv, FilesInv
<1>1. CASE ImportFromDevice(i, s)
  <2>1. /\ pc[i] = "idle" /\ pc' = [pc EXCEPT ![i] = "lookup"]
        /\ serial' = [serial EXCEPT ![i] = s]
        /\ UNCHANGED <<plugged, card, dev, todo, cur, from, at, linked, disk, origin, kept, replaced>>
    BY <1>1 DEF ImportFromDevice, Goto, copying
  <2>2. /\ clean' \subseteq clean \cup {i} /\ mixed \subseteq mixed'
        /\ DirOf[s] \notin mixed' => Writers(DirOf[s]) = {}
    BY <1>1 DEF ImportFromDevice
  <2>3. /\ \A j \in Imports : j # i => pc'[j] = pc[j] /\ Dir(j)' = Dir(j)
        /\ Dir(i)' = DirOf[s] /\ pc'[i] = "lookup"
    BY <2>1 DEF Dir
  <2>4. \A j \in Imports : j # i /\ pc[j] # "idle" /\ Dir(j) = DirOf[s] => DirOf[s] \in mixed'
    BY <2>2 DEF Writers
  <2>5. WriterInv'
    BY <2>1, <2>2, <2>3, <2>4 DEF CopyInv, WriterInv
  <2>6. SourceInv'
    BY <2>1, <2>2, <2>3 DEF CopyInv, SourceInv
  <2>7. CleanInv'
    BY <2>1, <2>2, <2>3 DEF CopyInv, CleanInv, Thorough, OwnDirectory, OnCard
  <2> QED
    BY <2>1, <2>2, <2>5, <2>6, <2>7, DiskFrame DEF CopyInv
<1>2. CASE LookupFails(i)
  <2>1. CASE EndOf(i)
    BY <1>2, <2>1, EndsCopy DEF LookupFails
  <2>2. CASE Goto(i, "tool") /\ UNCHANGED <<serial, dev, todo, kept, clean>>
    <3>1. /\ pc[i] = "lookup" /\ pc' = [pc EXCEPT ![i] = "tool"]
          /\ UNCHANGED <<plugged, card, serial, dev, todo, cur, from, at, linked, disk, origin,
                         kept, clean, mixed, replaced>>
      BY <1>2, <2>2 DEF LookupFails, Goto
    <3> QED
      BY <3>1, DiskFrame DEF CopyInv, WriterInv, SourceInv, CleanInv, Thorough, OwnDirectory, Dir, OnCard
  <2> QED
    BY <1>2, <2>1, <2>2 DEF LookupFails
<1>3. CASE Lookup(i)
  <2>1. /\ pc[i] = "lookup" /\ pc' = [pc EXCEPT ![i] = pc'[i]] /\ pc'[i] \in {"enumerate", "tool"}
        /\ \A j \in Imports : j # i => dev'[j] = dev[j]
        /\ UNCHANGED <<plugged, card, serial, todo, cur, from, at, linked, disk, origin,
                       kept, clean, mixed, replaced>>
    BY <1>3 DEF Lookup, Goto, copying
  <2>2. \A j \in Imports : (pc'[j] # "idle" => pc[j] # "idle") /\ Dir(j)' = Dir(j)
    BY <2>1 DEF Dir
  <2>3. WriterInv'
    BY <2>1, <2>2, WriterFrame DEF CopyInv
  <2>4. SourceInv'
    BY <2>1 DEF CopyInv, SourceInv, Dir
  <2>5. CleanInv'
    BY <2>1 DEF CopyInv, CleanInv, Thorough, OwnDirectory, Dir, OnCard
  <2> QED
    BY <2>1, <2>3, <2>4, <2>5, DiskFrame DEF CopyInv
<1>4. CASE Enumerate(i)
  <2>1. CASE EndOf(i)
    BY <1>4, <2>1, EndsCopy DEF Enumerate
  <2>2. CASE ~EndOf(i)
    <3> DEFINE found == IF dev[i] \in plugged THEN OnCard(dev[i]) ELSE {}
    <3>1. /\ pc[i] = "enumerate" /\ pc' = [pc EXCEPT ![i] = "walk"]
          /\ todo' = [todo EXCEPT ![i] = found]
          /\ clean' \subseteq clean
          /\ i \in clean' => dev[i] \in plugged
          /\ UNCHANGED <<plugged, card, serial, dev, cur, from, at, linked, disk, origin,
                         kept, mixed, replaced>>
      BY <1>4, <2>2 DEF Enumerate, Goto
    <3>2. found \subseteq Names
      BY DEF OnCard
    <3>3. \A j \in Imports : (pc'[j] # "idle" => pc[j] # "idle") /\ Dir(j)' = Dir(j)
      BY <3>1 DEF Dir
    <3>4. WriterInv'
      BY <3>1, <3>3, WriterFrame DEF CopyInv
    <3>5. SourceInv'
      BY <3>1 DEF CopyInv, SourceInv, Dir
    <3>6. CleanInv'
      <4> SUFFICES ASSUME NEW j \in clean' PROVE Thorough(j)'
        BY DEF CleanInv
      <4> QED
        BY <3>1, <3>2 DEF CopyInv, CleanInv, Thorough, OwnDirectory, Dir, OnCard
    <3> QED
      BY <3>1, <3>4, <3>6, <3>5, DiskFrame DEF CopyInv
  <2> QED
    BY <2>1, <2>2
<1> QED
  BY <1>1, <1>2, <1>3, <1>4


\* A file that is visited; one that is skipped is whole, or its photo was
\* replaced.
LEMMA VisitsCopy ==
    ASSUME BaseInv, CopyInv, NEW i \in Imports, NEW n \in Names,
           SkipFile(i, n) \/ VisitFile(i, n)
    PROVE  CopyInv'
<1> USE DEF BaseInv, StepInv, FilesInv
<1>1. CASE SkipFile(i, n)
  <2>1. /\ pc[i] = "walk" /\ n \in todo[i]
        /\ todo' = [todo EXCEPT ![i] = @ \ {n}]
        /\ IF Readable(i, n) THEN IsThere(i, n) ELSE TRUE
        /\ kept' = IF Readable(i, n) THEN [kept EXCEPT ![i] = @ \cup {n}] ELSE kept
        /\ UNCHANGED <<plugged, card, pc, serial, dev, cur, from, at, linked, disk, origin,
                       clean, mixed, replaced>>
    BY <1>1 DEF SkipFile
  <2>2. WriterInv'
    BY <2>1, WriterFrame DEF CopyInv, Dir
  <2>3. SourceInv'
    BY <2>1 DEF CopyInv, SourceInv, Dir
  <2>4. CleanInv'
    <3> SUFFICES ASSUME NEW j \in clean' PROVE Thorough(j)'
      BY DEF CleanInv
    <3>1. Thorough(j) /\ j \in Imports /\ Dir(j)' = Dir(j)
      BY <2>1 DEF CopyInv, CleanInv, Dir
    <3>2. CASE j # i
      <4>1. todo'[j] = todo[j] /\ kept'[j] = kept[j]
        BY <2>1, <3>1, <3>2
      <4> QED
        BY <2>1, <3>1, <4>1 DEF Thorough, OwnDirectory, OnCard
    <3>3. CASE j = i
      <4>1. todo'[i] = todo[i] \ {n} /\ kept[i] \subseteq kept'[i] /\ dev[i] \in plugged
        BY <2>1, <3>1, <3>3 DEF Thorough
      <4>2. ASSUME n \in OnCard(dev[i]), OwnDirectory(i), <<Dir(i), n>> \notin replaced
            PROVE  Whole(disk[Dir(i)][n], card[dev[i]][n])
        <5>1. Readable(i, n) /\ IsThere(i, n)
          BY <2>1, <4>1, <4>2 DEF Readable, OnCard
        <5>2. /\ dev[i] \in Devices /\ DirOf[SerialOf[dev[i]]] = Dir(i)
              /\ card[dev[i]][n] \in Contents
          BY <2>1, <5>1 DEF Dir, Readable
        <5>7. origin[Dir(i)] = dev[i] /\ Dir(i) \notin mixed
          BY <4>2, <5>1, <5>2, Typed DEF OwnDirectory, IsThere
        <5>3. Beginning(disk[Dir(i)][n], card[dev[i]][n])
          BY <4>2, <5>1, <5>2, <5>7 DEF CopyInv, DiskInv, IsThere
        <5>4. PICK size \in 0 .. SizeOf[card[dev[i]][n]] :
                 disk[Dir(i)][n] = [k \in 1 .. size |-> card[dev[i]][n]]
          BY <5>3 DEF Beginning
        <5>5. size \in Nat /\ Len(disk[Dir(i)][n]) = size
          BY <5>2, <5>4, DevicesTyped
        <5>6. size = SizeOf[card[dev[i]][n]]
          BY <5>1, <5>5 DEF IsThere, Size
        <5> QED
          BY <5>4, <5>6 DEF Whole
      <4>3. n \in OnCard(dev[i]) => n \in kept'[i]
        BY <2>1, <4>1 DEF Readable, OnCard
      <4> QED
        BY <2>1, <3>1, <3>3, <4>1, <4>2, <4>3 DEF Thorough, OwnDirectory, OnCard
    <3> QED
      BY <3>2, <3>3
  <2> QED
    BY <2>1, <2>2, <2>3, <2>4, DiskFrame DEF CopyInv
<1>2. CASE VisitFile(i, n)
  <2>1. /\ pc[i] = "walk" /\ pc' = [pc EXCEPT ![i] = "create"] /\ cur' = [cur EXCEPT ![i] = n]
        /\ UNCHANGED <<plugged, card, serial, dev, todo, from, at, linked, disk, origin, kept,
                       clean, mixed, replaced>>
    BY <1>2 DEF VisitFile, Goto
  <2>2. i \notin linked
    BY <2>1
  <2>3. \A j \in Imports : /\ pc'[j] # "idle" <=> pc[j] # "idle"
                           /\ Dir(j)' = Dir(j)
                           /\ j # i => pc'[j] = pc[j] /\ cur'[j] = cur[j]
    BY <2>1 DEF Dir
  <2>4. WriterInv'
    BY <2>1, <2>2, <2>3, WriterFrame DEF CopyInv
  <2>5. SourceInv'
    BY <2>1, <2>3 DEF CopyInv, SourceInv
  <2>6. CleanInv'
    BY <2>1, <2>3 DEF CopyInv, CleanInv, Thorough, OwnDirectory, OnCard
  <2> QED
    BY <2>1, <2>4, <2>5, <2>6, DiskFrame DEF CopyInv
<1> QED
  BY <1>1, <1>2

\* A copy that fails.
LEMMA FailsCopy ==
    ASSUME BaseInv, CopyInv, NEW i \in Imports, CopyFails(i)
    PROVE  CopyInv'
<1> USE DEF BaseInv, StepInv, FilesInv
<1>1. /\ pc[i] # "idle" /\ pc' = [pc EXCEPT ![i] = "walk"] /\ clean' = clean \ {i}
      /\ linked' = linked \ {i}
      /\ \A j \in Imports : j # i => /\ cur'[j] = cur[j] /\ from'[j] = from[j]
                                     /\ at'[j] = at[j] /\ todo'[j] = todo[j]
      /\ UNCHANGED <<plugged, card, serial, dev, disk, origin, kept, mixed, replaced>>
  BY DEF CopyFails, NextFile, Goto
<1>2. \A j \in Imports : /\ pc'[j] # "idle" <=> pc[j] # "idle"
                         /\ Dir(j)' = Dir(j)
                         /\ j # i => pc'[j] = pc[j]
  BY <1>1 DEF Dir
<1>3. WriterInv'
  BY <1>1, <1>2, WriterFrame DEF CopyInv
<1>4. SourceInv'
  BY <1>1, <1>2 DEF CopyInv, SourceInv
<1>5. CleanInv'
  BY <1>1, <1>2 DEF CopyInv, CleanInv, Thorough, OwnDirectory, OnCard
<1> QED
  BY <1>1, <1>3, <1>4, <1>5, DiskFrame DEF CopyInv


\* In a directory that is not mixed a step of one import spoils nothing of
\* another.
LEMMA OthersFiles ==
    ASSUME WriterInv, NEW i \in Imports, pc[i] # "idle", NEW j \in Imports,
           pc[j] # "idle", j # i, Dir(j) \notin mixed
    PROVE  Dir(j) # Dir(i)
BY DEF WriterInv

LEMMA CreateCopy ==
    ASSUME BaseInv, CopyInv, NEW i \in Imports, CreateFile(i)
    PROVE  CopyInv'
<1> USE DEF BaseInv, StepInv, FilesInv
<1> DEFINE dir == Dir(i)
           n == cur[i]
<1>1. /\ pc[i] = "create" /\ pc' = [pc EXCEPT ![i] = "write"]
      /\ dev[i] \in plugged /\ card[dev[i]][n] # None
      /\ from' = [from EXCEPT ![i] = card[dev[i]][n]]
      /\ disk' = [disk EXCEPT ![dir][n] = <<>>]
      /\ linked' = linked \cup {i} /\ at[i] = 0
      /\ UNCHANGED <<plugged, card, serial, dev, todo, cur, at, kept, clean, replaced>>
  BY DEF CreateFile, Readable, Goto
<1>2. /\ dir \in Dirs /\ n \in Names /\ n \in todo[i] /\ dev[i] \in Devices
      /\ DirOf[SerialOf[dev[i]]] = dir /\ card[dev[i]][n] \in Contents
  BY <1>1, Typed DEF Dir
<1>3. \A j \in Imports : Dir(j)' = Dir(j)
  BY <1>1 DEF Dir
<1>4. /\ disk'[dir][n] = <<>>
      /\ \A e \in Dirs, m \in Names : <<e, m>> # <<dir, n>> => disk'[e][m] = disk[e][m]
      /\ \A e \in Dirs : e # dir => disk'[e] = disk[e]
  <2>1. disk[dir] \in Files /\ disk' = [disk EXCEPT ![dir] = [disk[dir] EXCEPT ![n] = <<>>]]
    BY <1>1, <1>2
  <2> QED
    BY <1>2, <2>1 DEF Files
<1> HIDE DEF dir, n
<1>0. /\ mixed \subseteq mixed' /\ origin'[dir] = dev[i]
      /\ \A e \in Dirs : e # dir => origin'[e] = origin[e] /\ (e \in mixed' <=> e \in mixed)
      /\ dir \notin mixed' => origin[dir] \in {None, dev[i]}
  BY <1>2 DEF CreateFile, Fill, dir
<1>5. /\ \A j \in Imports : pc[j] # "idle" => Dir(j) \in Dirs
      /\ \A j \in Imports : j # i /\ pc[j] # "idle" /\ Dir(j) \notin mixed => Dir(j) # dir
  BY <1>1, OthersFiles, Typed DEF CopyInv, dir, Dir
<1>6. \A j \in Imports : j # i => pc'[j] = pc[j] /\ from'[j] = from[j]
  BY <1>1
<1>7. WriterInv'
  <2> SUFFICES ASSUME NEW j \in Imports, pc'[j] # "idle", Dir(j) \notin mixed'
               PROVE  /\ \A h \in Imports : pc'[h] # "idle" /\ Dir(h) = Dir(j) => h = j
                      /\ j \in linked' => origin'[Dir(j)] = dev[j]
                      /\ j \in linked' =>
                            disk'[Dir(j)][cur[j]] = [k \in 1 .. at[j] |-> from'[j]]
    BY <1>1, <1>3 DEF WriterInv, Dir
  <2>1. \A h \in Imports : pc'[h] # "idle" <=> pc[h] # "idle"
    BY <1>1
  <2>2. CASE j = i
    <3>1. disk'[Dir(j)][cur[j]] = <<>>
      BY <1>4, <2>2 DEF dir, n
    <3>2. <<>> = [k \in 1 .. at[j] |-> from'[j]]
      BY <1>1, <2>2
    <3>3. origin'[Dir(j)] = dev[j]
      BY <1>0, <2>2 DEF dir
    <3> QED
      BY <1>0, <2>1, <3>1, <3>2, <3>3 DEF CopyInv, WriterInv
  <2>3. CASE j # i
    <3>1. Dir(j) # dir
      BY <1>0, <1>5, <2>1, <2>3
    <3>2. Dir(j) \in Dirs /\ Dir(j) \notin mixed /\ origin'[Dir(j)] = origin[Dir(j)]
      BY <1>0, <1>5, <2>1, <3>1
    <3>3. /\ \A h \in Imports : pc[h] # "idle" /\ Dir(h) = Dir(j) => h = j
          /\ j \in linked => origin[Dir(j)] = dev[j]
          /\ j \in linked => disk[Dir(j)][cur[j]] = [k \in 1 .. at[j] |-> from[j]]
      BY <2>1, <3>2 DEF CopyInv, WriterInv
    <3> QED
      BY <1>1, <1>4, <1>6, <2>1, <2>3, <3>1, <3>2, <3>3
  <2> QED
    BY <2>2, <2>3
<1>8. SourceInv'
  <2> SUFFICES ASSUME NEW j \in Imports, pc'[j] = "write"
               PROVE  \/ from'[j] = card[dev[j]][cur[j]]
                      \/ j \notin clean /\ <<Dir(j), cur[j]>> \in replaced
    BY <1>1, <1>3 DEF SourceInv
  <2> QED
    BY <1>1, <1>6 DEF CopyInv, SourceInv, n
<1>9. DiskInv'
  <2> SUFFICES ASSUME NEW d \in Devices, NEW m \in Names,
                      DirOf[SerialOf[d]] \notin mixed', origin'[DirOf[SerialOf[d]]] = d,
                      <<DirOf[SerialOf[d]], m>> \notin replaced,
                      disk'[DirOf[SerialOf[d]]][m] # None
               PROVE  card[d][m] # None /\ Beginning(disk'[DirOf[SerialOf[d]]][m], card[d][m])
    BY <1>1 DEF DiskInv
  <2>1. CASE <<DirOf[SerialOf[d]], m>> = <<dir, n>>
    <3>1. d = dev[i] /\ m = n
      BY <1>0, <1>2, <2>1
    <3>2. Beginning(<<>>, card[d][m])
      <4>1. <<>> = [k \in 1 .. 0 |-> card[d][m]]
        OBVIOUS
      <4>2. 0 \in 0 .. SizeOf[card[d][m]]
        BY <1>2, <3>1, DevicesTyped
      <4> QED
        BY <4>1, <4>2 DEF Beginning
    <3> QED
      BY <1>1, <1>4, <2>1, <3>1, <3>2
  <2>2. CASE <<DirOf[SerialOf[d]], m>> # <<dir, n>>
    <3>1. disk'[DirOf[SerialOf[d]]][m] = disk[DirOf[SerialOf[d]]][m]
      BY <1>4, <2>2, Typed
    <3>2. origin[DirOf[SerialOf[d]]] = d
      BY <1>0, <3>1, Typed
    <3> QED
      BY <1>0, <3>1, <3>2 DEF CopyInv, DiskInv
  <2> QED
    BY <2>1, <2>2
<1>10. CleanInv'
  <2> SUFFICES ASSUME NEW j \in clean, Thorough(j) PROVE Thorough(j)'
    BY <1>1 DEF CopyInv, CleanInv
  <2>1. j \in Imports /\ Dir(j)' = Dir(j) /\ OnCard(dev[j])' = OnCard(dev[j])
    BY <1>1, <1>3 DEF OnCard
  <2>4. OwnDirectory(j)' /\ pc[j] # "idle" => OwnDirectory(j) /\ Dir(j) \notin mixed
    BY <1>0, <1>1, <1>5, <2>1 DEF OwnDirectory, dir
  <2>2. CASE j = i
    <3>1. \A m \in OnCard(dev[j]) \ todo[j] : disk'[Dir(j)][m] = disk[Dir(j)][m]
      BY <1>2, <1>4, <2>2 DEF OnCard, dir
    <3> QED
      BY <1>1, <2>1, <2>2, <2>4, <3>1 DEF Thorough, Whole
  <2>3. CASE j # i
    <3>1. Dir(j) \notin mixed /\ pc[j] # "idle" => disk'[Dir(j)] = disk[Dir(j)]
      BY <1>4, <1>5, <2>1, <2>3
    <3> QED
      BY <1>1, <1>6, <2>1, <2>3, <2>4, <3>1 DEF Thorough, Whole
  <2> QED
    BY <2>2, <2>3
<1> QED
  BY <1>7, <1>8, <1>9, <1>10 DEF CopyInv


Copied(m, c) == [k \in 1 .. m |-> c]

\* A file written in order is longer by a chunk.
LEMMA NextChunk ==
    ASSUME NEW m \in Nat, NEW c
    PROVE  WrittenAt(Copied(m, c), m + 1, c) = Copied(m + 1, c)
<1> DEFINE file == Copied(m, c)
<1>1. Len(file) = m /\ DOMAIN file = 1 .. m /\ \A j \in 1 .. m : file[j] = c
  BY DEF Copied
<1>2. \A j \in 1 .. m + 1 :
         (IF j = m + 1 THEN c ELSE IF j \in DOMAIN file THEN file[j] ELSE None) = c
  BY <1>1
<1> HIDE DEF file
<1>3. WrittenAt(file, m + 1, c) = Copied(m + 1, c)
  BY <1>1, <1>2 DEF WrittenAt, Copied
<1> QED
  BY <1>3 DEF file

LEMMA WriteCopy ==
    ASSUME BaseInv, CopyInv, NEW i \in Imports, WriteChunk(i)
    PROVE  CopyInv'
<1> USE DEF BaseInv, StepInv, FilesInv
<1> DEFINE dir == Dir(i)
           n == cur[i]
           c == from[i]
           size == at[i] + 1
           file == [k \in 1 .. size |-> c]
           last == size = SizeOf[c]
<1>1. /\ pc[i] = "write" /\ dir \in Dirs /\ n \in Names /\ n \in todo[i]
      /\ dev[i] \in Devices /\ DirOf[SerialOf[dev[i]]] = dir /\ dev[i] \in plugged
      /\ c \in Contents /\ at[i] \in Nat /\ size \in 1 .. SizeOf[c] /\ SizeOf[c] \in Nat
  BY Typed, DevicesTyped DEF WriteChunk, Dir
<1>2. /\ pc' = IF last THEN [pc EXCEPT ![i] = "walk"] ELSE pc
      /\ todo' = IF last THEN [todo EXCEPT ![i] = @ \ {n}] ELSE todo
      /\ cur' = IF last THEN [cur EXCEPT ![i] = None] ELSE cur
      /\ from' = IF last THEN [from EXCEPT ![i] = None] ELSE from
      /\ at' = IF last THEN [at EXCEPT ![i] = 0] ELSE [at EXCEPT ![i] = size]
      /\ linked' = IF last THEN linked \ {i} ELSE linked
      /\ UNCHANGED <<plugged, card, serial, dev, origin, kept, clean, mixed, replaced>>
  BY DEF WriteChunk, NextFile, Goto
<1>3. /\ \A j \in Imports : Dir(j)' = Dir(j) /\ (pc'[j] # "idle" <=> pc[j] # "idle")
      /\ \A j \in Imports : j # i => /\ pc'[j] = pc[j] /\ cur'[j] = cur[j] /\ at'[j] = at[j]
                                     /\ from'[j] = from[j] /\ todo'[j] = todo[j]
                                     /\ (j \in linked' <=> j \in linked)
  BY <1>1, <1>2 DEF Dir
<1>4. /\ i \notin linked => disk' = disk
      /\ i \in linked /\ dir \notin mixed => disk'[dir][n] = file
      /\ \A e \in Dirs, m \in Names : <<e, m>> # <<dir, n>> => disk'[e][m] = disk[e][m]
      /\ \A e \in Dirs : e # dir => disk'[e] = disk[e]
  <2>1. CASE i \notin linked
    <3>1. disk' = disk
      BY <2>1 DEF WriteChunk
    <3> QED
      BY <2>1, <3>1
  <2>2. CASE i \in linked
    <3>1. /\ disk[dir] \in Files
          /\ disk' = [disk EXCEPT ![dir] = [disk[dir] EXCEPT ![n] = WrittenAt(disk[dir][n], size, c)]]
      BY <1>1, <2>2 DEF WriteChunk
    <3>2. disk'[dir][n] = WrittenAt(disk[dir][n], size, c)
      BY <1>1, <3>1 DEF Files
    <3>3. dir \notin mixed => disk[dir][n] = [k \in 1 .. at[i] |-> c]
      BY <1>1, <2>2 DEF CopyInv, WriterInv
    <3>4. dir \notin mixed => disk'[dir][n] = file
      <4>1. at[i] \in Nat
        BY <1>1
      <4>2. WrittenAt(Copied(at[i], c), size, c) = Copied(size, c)
        BY <4>1, NextChunk
      <4>3. dir \notin mixed => disk[dir][n] = Copied(at[i], c)
        BY <3>3 DEF Copied
      <4>4. file = Copied(size, c)
        BY DEF Copied
      <4> HIDE DEF file
      <4> QED
        BY <3>2, <4>2, <4>3, <4>4
    <3> QED
      BY <1>1, <2>2, <3>1, <3>4 DEF Files
  <2> QED
    BY <2>1, <2>2
<1>5. /\ \A j \in Imports : pc[j] # "idle" => Dir(j) \in Dirs
      /\ \A j \in Imports : j # i /\ pc[j] # "idle" /\ Dir(j) \notin mixed => Dir(j) # dir
  BY <1>1, OthersFiles, Typed DEF CopyInv, Dir
<1>6. \/ c = card[dev[i]][n]
      \/ i \notin clean /\ <<dir, n>> \in replaced
  BY <1>1 DEF CopyInv, SourceInv
<1>7. ~last => cur'[i] = n /\ from'[i] = c /\ at'[i] = size /\ pc'[i] = "write"
  BY <1>1, <1>2
<1>8. last => pc'[i] = "walk" /\ todo'[i] = todo[i] \ {n} /\ i \notin linked'
  BY <1>1, <1>2
<1>9. SourceInv'
  <2> SUFFICES ASSUME NEW j \in Imports, pc'[j] = "write"
               PROVE  \/ from'[j] = card[dev[j]][cur'[j]]
                      \/ j \notin clean /\ <<Dir(j), cur'[j]>> \in replaced
    BY <1>2, <1>3 DEF SourceInv
  <2>1. CASE j = i
    BY <1>6, <1>7, <1>8, <2>1
  <2>2. CASE j # i
    BY <1>3, <2>2 DEF CopyInv, SourceInv
  <2> QED
    BY <2>1, <2>2
<1> HIDE DEF dir, n, c, size, file, last
<1>10. WriterInv'
  <2> SUFFICES ASSUME NEW j \in Imports, pc'[j] # "idle", Dir(j) \notin mixed
               PROVE  /\ \A h \in Imports : pc'[h] # "idle" /\ Dir(h) = Dir(j) => h = j
                      /\ j \in linked' =>
                            /\ origin[Dir(j)] = dev[j]
                            /\ disk'[Dir(j)][cur'[j]] = [k \in 1 .. at'[j] |-> from'[j]]
    BY <1>2, <1>3 DEF WriterInv
  <2>1. \A h \in Imports : pc'[h] # "idle" /\ Dir(h) = Dir(j) => h = j
    BY <1>3 DEF CopyInv, WriterInv
  <2>2. CASE j = i
    <3>1. j \in linked' => ~last /\ i \in linked
      BY <1>2, <1>8, <2>2
    <3> QED
      BY <1>1, <1>4, <1>7, <2>1, <2>2, <3>1 DEF dir, file, CopyInv, WriterInv
  <2>3. CASE j # i
    <3>1. Dir(j) # dir /\ disk'[Dir(j)] = disk[Dir(j)]
      BY <1>3, <1>4, <1>5, <2>3
    <3> QED
      BY <1>3, <2>1, <2>3, <3>1, SMTT(20) DEF CopyInv, WriterInv
  <2> QED
    BY <2>2, <2>3
<1>11. DiskInv'
  <2> SUFFICES ASSUME NEW d \in Devices, NEW m \in Names,
                      DirOf[SerialOf[d]] \notin mixed, origin[DirOf[SerialOf[d]]] = d,
                      <<DirOf[SerialOf[d]], m>> \notin replaced,
                      disk'[DirOf[SerialOf[d]]][m] # None
               PROVE  card[d][m] # None /\ Beginning(disk'[DirOf[SerialOf[d]]][m], card[d][m])
    BY <1>2 DEF DiskInv
  <2>1. CASE <<DirOf[SerialOf[d]], m>> = <<dir, n>> /\ i \in linked
    <3>0. dir \notin mixed /\ origin[dir] = d /\ m = n /\ <<dir, n>> \notin replaced
      BY <2>1
    <3>1. d = dev[i] /\ m = n /\ dir \notin mixed /\ c = card[d][m]
      BY <1>1, <1>6, <2>1, <3>0 DEF dir, CopyInv, WriterInv
    <3>2. disk'[DirOf[SerialOf[d]]][m] = file
      BY <1>4, <2>1, <3>1
    <3>3. Beginning(file, c)
      BY <1>1 DEF Beginning, file
    <3>4. c # None
      BY <1>1, NoneIsNone
    <3> QED
      BY <3>1, <3>2, <3>3, <3>4
  <2>2. CASE <<DirOf[SerialOf[d]], m>> # <<dir, n>> \/ i \notin linked
    <3>1. disk'[DirOf[SerialOf[d]]][m] = disk[DirOf[SerialOf[d]]][m]
      BY <1>4, <2>2, Typed
    <3> QED
      BY <3>1 DEF CopyInv, DiskInv
  <2> QED
    BY <2>1, <2>2
<1>12. CleanInv'
  <2> SUFFICES ASSUME NEW j \in clean, Thorough(j) PROVE Thorough(j)'
    BY <1>2 DEF CopyInv, CleanInv
  <2>1. j \in Imports /\ Dir(j)' = Dir(j) /\ OnCard(dev[j])' = OnCard(dev[j])
    BY <1>2, <1>3 DEF OnCard
  <2>0. OwnDirectory(j)' <=> OwnDirectory(j)
    BY <1>2, <2>1 DEF OwnDirectory
  <2>2. CASE j = i
    <3>1. /\ \A m \in OnCard(dev[j]) \ todo[j] : disk'[Dir(j)][m] = disk[Dir(j)][m]
          /\ pc[j] = "write" /\ i \in linked
      BY <1>1, <1>4, <2>2 DEF OnCard, dir, Thorough
    <3>2. CASE ~last
      <4>1. todo' = todo /\ pc'[j] = "write" /\ j \in linked'
        BY <1>2, <1>7, <2>2, <3>1, <3>2
      <4>2. dev[j] \in plugged /\ dev'[j] \in plugged'
        BY <1>1, <1>2, <2>2
      <4>3. ASSUME OwnDirectory(j), NEW m \in OnCard(dev[j]) \ todo[j]
            PROVE  \/ m \in kept[j] /\ <<Dir(j), m>> \in replaced
                   \/ Whole(disk'[Dir(j)][m], card[dev[j]][m])
        BY <3>1, <4>2, <4>3 DEF Thorough
      <4> QED
        BY <1>2, <2>0, <2>1, <4>1, <4>2, <4>3 DEF Thorough
    <3>3. CASE last
      <4>1. dir \notin mixed => Whole(disk'[dir][n], card[dev[i]][n])
        BY <1>1, <1>4, <1>6, <2>2, <3>1, <3>3 DEF Whole, file, last
      <4>2. \A m \in OnCard(dev[j]) \ todo'[j] : m = n \/ m \in OnCard(dev[j]) \ todo[j]
        BY <1>8, <2>2, <3>3
      <4>3. pc'[j] = "walk" /\ dev'[j] \in plugged' /\ dev[j] \in plugged
        BY <1>1, <1>2, <1>8, <2>2, <3>3
      <4>4. ASSUME OwnDirectory(j), NEW m \in OnCard(dev[j]) \ todo'[j]
            PROVE  \/ m \in kept[j] /\ <<Dir(j), m>> \in replaced
                   \/ Whole(disk'[Dir(j)][m], card[dev[j]][m])
        <5>1. CASE m = n
          BY <2>2, <4>1, <4>4, <5>1 DEF dir, OwnDirectory
        <5>2. CASE m # n
          <6>1. m \in OnCard(dev[j]) \ todo[j]
            BY <4>2, <5>2
          <6> QED
            BY <3>1, <4>3, <4>4, <6>1 DEF Thorough
        <5> QED
          BY <5>1, <5>2
      <4> QED
        BY <1>2, <2>0, <2>1, <4>3, <4>4 DEF Thorough
    <3> QED
      BY <3>2, <3>3
  <2>3. CASE j # i
    <3>1. Dir(j) \notin mixed /\ pc[j] # "idle" => disk'[Dir(j)] = disk[Dir(j)]
      BY <1>4, <1>5, <2>1, <2>3
    <3> QED
      BY <1>2, <1>3, <2>0, <2>1, <2>3, <3>1 DEF Thorough, Whole, OwnDirectory
  <2> QED
    BY <2>2, <2>3
<1> QED
  BY <1>9, <1>10, <1>11, <1>12 DEF CopyInv


\* A tool copies from a device of its choice, or the directory becomes mixed.
LEMMA ToolCopy ==
    ASSUME BaseInv, CopyInv, NEW i \in Imports, NEW n \in Names,
           ToolCopies(i, n)
    PROVE  CopyInv'
<1> USE DEF BaseInv, StepInv, FilesInv
<1> DEFINE dir == Dir(i)
<1>1. PICK d \in plugged \ Mounted :
         /\ card[d][n] # None
         /\ \E size \in 0 .. SizeOf[card[d][n]] :
               disk' = [disk EXCEPT ![Dir(i)][n] = [k \in 1 .. size |-> card[d][n]]]
         /\ Fill(Dir(i), d)
  BY DEF ToolCopies
<1>2. PICK size \in 0 .. SizeOf[card[d][n]] :
         disk' = [disk EXCEPT ![Dir(i)][n] = [k \in 1 .. size |-> card[d][n]]]
  BY <1>1
<1> DEFINE file == [k \in 1 .. size |-> card[d][n]]
<1>3. /\ pc[i] = "tool" /\ dir \in Dirs /\ d \in Devices
      /\ UNCHANGED <<plugged, card, pc, serial, dev, todo, cur, from, at, linked, kept,
                     clean, replaced>>
  BY <1>1, Typed DEF ToolCopies, copying, Dir
<1>4. /\ disk'[dir][n] = file
      /\ \A e \in Dirs, m \in Names : <<e, m>> # <<dir, n>> => disk'[e][m] = disk[e][m]
      /\ \A e \in Dirs : e # dir => disk'[e] = disk[e]
  <2>1. disk[dir] \in Files /\ disk' = [disk EXCEPT ![dir] = [disk[dir] EXCEPT ![n] = file]]
    BY <1>2, <1>3
  <2> HIDE DEF file
  <2> QED
    BY <1>3, <2>1 DEF Files
<1>5. /\ \A j \in Imports : pc[j] # "idle" => Dir(j) \in Dirs
      /\ \A j \in Imports : j # i /\ pc[j] # "idle" /\ Dir(j) \notin mixed => Dir(j) # dir
  BY <1>3, OthersFiles, Typed DEF CopyInv, Dir
<1>6. /\ mixed \subseteq mixed' /\ origin'[dir] = d
      /\ \A e \in Dirs : e # dir => origin'[e] = origin[e] /\ (e \in mixed' <=> e \in mixed)
      /\ dir \notin mixed' => origin[dir] \in {None, d}
  BY <1>1, <1>3 DEF Fill
<1>7. \A j \in Imports : Dir(j)' = Dir(j)
  BY <1>3 DEF Dir
<1>8. Beginning(file, card[d][n])
  BY <1>2 DEF Beginning
<1> HIDE DEF dir, file
<1>9. WriterInv'
  <2>0. UNCHANGED <<pc, dev, cur, from, at, linked>>
    BY <1>3
  <2> SUFFICES ASSUME NEW j \in Imports, pc[j] # "idle", Dir(j) \notin mixed'
               PROVE  /\ \A h \in Imports : pc[h] # "idle" /\ Dir(h) = Dir(j) => h = j
                      /\ j \in linked => origin'[Dir(j)] = dev[j]
                      /\ j \in linked =>
                            disk'[Dir(j)][cur[j]] = [k \in 1 .. at[j] |-> from[j]]
    <3> HIDE DEF BaseInv, StepInv, FilesInv
    <3> QED
      BY <2>0, <1>7 DEF WriterInv
  <2>1. \A h \in Imports : pc[h] # "idle" /\ Dir(h) = Dir(j) => h = j
    BY <1>6 DEF CopyInv, WriterInv
  <2>2. j \in linked => /\ j # i /\ disk'[Dir(j)] = disk[Dir(j)]
                         /\ origin'[Dir(j)] = origin[Dir(j)]
    BY <1>3, <1>4, <1>5, <1>6
  <2> QED
    BY <1>6, <2>1, <2>2 DEF CopyInv, WriterInv
<1>10. SourceInv'
  BY <1>3, <1>7 DEF CopyInv, SourceInv
<1>11. DiskInv'
  <2> SUFFICES ASSUME NEW e \in Devices, NEW m \in Names,
                      DirOf[SerialOf[e]] \notin mixed', origin'[DirOf[SerialOf[e]]] = e,
                      <<DirOf[SerialOf[e]], m>> \notin replaced,
                      disk'[DirOf[SerialOf[e]]][m] # None
               PROVE  card[e][m] # None /\ Beginning(disk'[DirOf[SerialOf[e]]][m], card[e][m])
    BY <1>3 DEF DiskInv
  <2>1. CASE <<DirOf[SerialOf[e]], m>> = <<dir, n>>
    <3>2. e = d /\ m = n
      BY <1>6, <2>1
    <3>3. disk'[DirOf[SerialOf[e]]][m] = file
      BY <1>4, <2>1
    <3> QED
      BY <1>1, <1>8, <3>2, <3>3
  <2>2. CASE <<DirOf[SerialOf[e]], m>> # <<dir, n>>
    <3>1. disk'[DirOf[SerialOf[e]]][m] = disk[DirOf[SerialOf[e]]][m]
      BY <1>4, <2>2, Typed
    <3>2. origin[DirOf[SerialOf[e]]] = e
      BY <1>6, <3>1, Typed
    <3> QED
      BY <1>6, <3>1, <3>2 DEF CopyInv, DiskInv
  <2> QED
    BY <2>1, <2>2
<1>12. CleanInv'
  <2> SUFFICES ASSUME NEW j \in clean, Thorough(j) PROVE Thorough(j)'
    BY <1>3 DEF CopyInv, CleanInv
  <2>1. j \in Imports /\ Dir(j)' = Dir(j) /\ OnCard(dev[j])' = OnCard(dev[j])
    BY <1>3, <1>7 DEF OnCard
  <2>2. OwnDirectory(j)' /\ pc[j] \in {"walk", "create", "write"} =>
           OwnDirectory(j) /\ disk'[Dir(j)] = disk[Dir(j)]
    BY <1>3, <1>4, <1>5, <1>6, <2>1 DEF OwnDirectory
  <2> QED
    BY <1>3, <1>6, <2>1, <2>2 DEF Thorough, Whole
<1> QED
  BY <1>9, <1>10, <1>11, <1>12 DEF CopyInv

LEMMA PlugCopy ==
    ASSUME BaseInv, CopyInv, NEW d \in Devices, Plug(d) \/ Unplug(d)
    PROVE  CopyInv'
<1> USE DEF BaseInv, FilesInv
<1>1. /\ UNCHANGED <<card, pc, serial, dev, todo, cur, from, at, linked, disk, origin, kept, mixed,
                     replaced>>
      /\ clean' \subseteq clean
      /\ \A j \in clean' : dev[j] \in plugged => dev[j] \in plugged'
  BY DEF Plug, Unplug, copying
<1>2. WriterInv'
  BY <1>1, WriterFrame DEF CopyInv, Dir
<1>3. SourceInv'
  BY <1>1 DEF CopyInv, SourceInv, Dir
<1>4. CleanInv'
  BY <1>1 DEF CopyInv, CleanInv, Thorough, OwnDirectory, Dir, OnCard
<1> QED
  BY <1>1, <1>2, <1>3, <1>4, DiskFrame DEF CopyInv

\* A photo that is replaced, or deleted, is in the history.
LEMMA ShootCopy ==
    ASSUME BaseInv, CopyInv, NEW d \in Devices, NEW n \in Names,
           NEW c \in Contents \cup {None}, Shoot(d, n, c)
    PROVE  CopyInv'
<1> USE DEF BaseInv, StepInv, FilesInv
<1>1. /\ \A e \in Devices, m \in Names : <<e, m>> # <<d, n>> => card'[e][m] = card[e][m]
      /\ \A e \in Devices : e # d => card'[e] = card[e]
      /\ clean' = {j \in clean : dev[j] # d}
      /\ replaced \subseteq replaced'
      /\ card[d][n] # None => <<DirOf[SerialOf[d]], n>> \in replaced'
      /\ UNCHANGED <<plugged, pc, serial, dev, todo, cur, from, at, linked, disk, origin, kept, mixed>>
  BY DEF Shoot, copying
<1>2. \A j \in Imports : Dir(j)' = Dir(j)
  BY <1>1 DEF Dir
<1>3. WriterInv'
  BY <1>1, <1>2, WriterFrame DEF CopyInv
<1>4. SourceInv'
  <2> SUFFICES ASSUME NEW j \in Imports, pc[j] = "write"
               PROVE  \/ from[j] = card'[dev[j]][cur[j]]
                      \/ j \notin clean' /\ <<Dir(j), cur[j]>> \in replaced'
    BY <1>1, <1>2 DEF SourceInv
  <2>1. /\ \/ from[j] = card[dev[j]][cur[j]]
           \/ j \notin clean /\ <<Dir(j), cur[j]>> \in replaced
        /\ from[j] # None /\ dev[j] \in Devices /\ DirOf[SerialOf[dev[j]]] = Dir(j)
        /\ cur[j] \in Names
    BY NoneIsNone DEF CopyInv, SourceInv, Dir
  <2>2. CASE <<dev[j], cur[j]>> = <<d, n>>
    BY <1>1, <2>1, <2>2
  <2>3. CASE <<dev[j], cur[j]>> # <<d, n>>
    BY <1>1, <2>1, <2>3
  <2> QED
    BY <2>2, <2>3
<1>5. DiskInv'
  <2> SUFFICES ASSUME NEW e \in Devices, NEW m \in Names,
                      DirOf[SerialOf[e]] \notin mixed, origin[DirOf[SerialOf[e]]] = e,
                      <<DirOf[SerialOf[e]], m>> \notin replaced',
                      disk[DirOf[SerialOf[e]]][m] # None
               PROVE  card'[e][m] # None /\ Beginning(disk[DirOf[SerialOf[e]]][m], card'[e][m])
    BY <1>1 DEF DiskInv
  <2>1. card[e][m] # None /\ Beginning(disk[DirOf[SerialOf[e]]][m], card[e][m])
    BY <1>1 DEF CopyInv, DiskInv
  <2>2. <<e, m>> # <<d, n>>
    BY <1>1, <2>1
  <2> QED
    BY <1>1, <2>1, <2>2
<1>6. CleanInv'
  <2> SUFFICES ASSUME NEW j \in clean', Thorough(j) PROVE Thorough(j)'
    BY <1>1 DEF CopyInv, CleanInv
  <2>1. j \in Imports /\ dev[j] # d /\ Dir(j)' = Dir(j)
    BY <1>1, <1>2
  <2>2. pc[j] \in {"walk", "create", "write"} => card'[dev[j]] = card[dev[j]]
    BY <1>1, <2>1
  <2>3. pc[j] \in {"walk", "create", "write"} =>
           /\ OnCard(dev[j])' = OnCard(dev[j])
           /\ \A m : Whole(disk[Dir(j)][m], card[dev[j]][m])
                     => Whole(disk[Dir(j)][m], card'[dev[j]][m])
    BY <1>1, <2>2 DEF OnCard
  <2>4. \A m : <<Dir(j), m>> \in replaced => <<Dir(j), m>> \in replaced'
    BY <1>1
  <2> QED
    BY <1>1, <2>1, <2>3, <2>4 DEF Thorough, OwnDirectory
<1> QED
  BY <1>3, <1>4, <1>5, <1>6 DEF CopyInv

\* At most one import goes on in a directory that is mixed no more.
LEMMA ClearCopy ==
    ASSUME BaseInv, CopyInv, NEW s \in Serials, ClearImportCache(s)
    PROVE  CopyInv'
<1> USE DEF BaseInv, StepInv, FilesInv
<1> DEFINE dir == DirOf[s]
<1>1. /\ disk' = [disk EXCEPT ![dir] = [m \in Names |-> None]]
      /\ linked' = linked \ Writers(dir)
      /\ clean' = clean \ Writers(dir)
      /\ origin' = [origin EXCEPT ![dir] = None]
      /\ mixed' = IF Cardinality(Writers(dir)) > 1 THEN mixed ELSE mixed \ {dir}
      /\ replaced' = IF Writers(dir) # {} THEN replaced ELSE replaced \ ({dir} \X Names)
      /\ UNCHANGED <<plugged, card, pc, serial, dev, todo, cur, from, at, kept>>
  BY DEF ClearImportCache
<1>2. /\ dir \in Dirs /\ \A m \in Names : disk'[dir][m] = None
      /\ \A e \in Dirs : e # dir => disk'[e] = disk[e]
  BY <1>1, Typed
<1>3. \A j \in Imports : /\ Dir(j)' = Dir(j)
                         /\ pc[j] # "idle" => Dir(j) \in Dirs
                         /\ pc[j] # "idle" /\ Dir(j) = dir => j \in Writers(dir)
  BY <1>1, Typed DEF Dir, Writers
<1> HIDE DEF dir
<1>4. dir \notin mixed' => \A j, h \in Writers(dir) : j = h
  <2> SUFFICES ASSUME NEW j \in Writers(dir), NEW h \in Writers(dir), j # h,
                      dir \notin mixed'
               PROVE  FALSE
    OBVIOUS
  <2>1. CASE dir \notin mixed
    BY <2>1 DEF CopyInv, WriterInv, Writers
  <2>2. CASE dir \in mixed
    <3>1. ~(Cardinality(Writers(dir)) > 1)
      BY <1>1, <2>2
    <3>2. IsFiniteSet(Writers(dir)) /\ Cardinality(Writers(dir)) \in Nat
      BY Bounds, FS_Subset, FS_CardinalityType DEF Writers
    <3> DEFINE both == {j} \cup {h}
    <3>3. both \subseteq Writers(dir) /\ Cardinality(both) = 2
      <4>1. IsFiniteSet({j}) /\ Cardinality({j}) = 1
        BY FS_Singleton
      <4>2. h \notin {j}
        OBVIOUS
      <4>3. Cardinality(both) = Cardinality({j}) + 1
        BY <4>1, <4>2, FS_AddElement
      <4>4. both \subseteq Writers(dir)
        OBVIOUS
      <4> HIDE DEF both
      <4> QED
        BY <4>1, <4>3, <4>4
    <3> HIDE DEF both
    <3>4. Cardinality(both) <= Cardinality(Writers(dir))
      BY <3>2, <3>3, FS_Subset
    <3> QED
      BY <3>1, <3>2, <3>3, <3>4
  <2> QED
    BY <2>1, <2>2
<1>5. WriterInv'
  <2> SUFFICES ASSUME NEW j \in Imports, pc[j] # "idle", Dir(j) \notin mixed'
               PROVE  /\ \A h \in Imports : pc[h] # "idle" /\ Dir(h) = Dir(j) => h = j
                      /\ j \in linked' =>
                            /\ origin'[Dir(j)] = dev[j]
                            /\ disk'[Dir(j)][cur[j]] = [k \in 1 .. at[j] |-> from[j]]
    BY <1>1, <1>3 DEF WriterInv
  <2>1. CASE Dir(j) = dir
    BY <1>1, <1>3, <1>4, <2>1
  <2>2. CASE Dir(j) # dir
    <3>1. Dir(j) \notin mixed /\ disk'[Dir(j)] = disk[Dir(j)]
          /\ origin'[Dir(j)] = origin[Dir(j)]
      BY <1>1, <1>2, <1>3, <2>2
    <3> QED
      BY <1>1, <3>1 DEF CopyInv, WriterInv
  <2> QED
    BY <2>1, <2>2
<1>6. SourceInv'
  <2> SUFFICES ASSUME NEW j \in Imports, pc[j] = "write"
               PROVE  \/ from[j] = card[dev[j]][cur[j]]
                      \/ j \notin clean' /\ <<Dir(j), cur[j]>> \in replaced'
    BY <1>1, <1>3 DEF SourceInv
  <2>1. \/ from[j] = card[dev[j]][cur[j]]
        \/ j \notin clean /\ <<Dir(j), cur[j]>> \in replaced
    BY DEF CopyInv, SourceInv
  <2>2. <<Dir(j), cur[j]>> \in replaced => <<Dir(j), cur[j]>> \in replaced'
    BY <1>1, <1>3
  <2> QED
    BY <1>1, <2>1, <2>2
<1>7. DiskInv'
  <2> SUFFICES ASSUME NEW e \in Devices, NEW m \in Names,
                      DirOf[SerialOf[e]] \notin mixed', origin'[DirOf[SerialOf[e]]] = e,
                      <<DirOf[SerialOf[e]], m>> \notin replaced',
                      disk'[DirOf[SerialOf[e]]][m] # None
               PROVE  card[e][m] # None /\ Beginning(disk'[DirOf[SerialOf[e]]][m], card[e][m])
    BY <1>1 DEF DiskInv
  <2>1. DirOf[SerialOf[e]] # dir
    BY <1>2
  <2>2. /\ disk'[DirOf[SerialOf[e]]][m] = disk[DirOf[SerialOf[e]]][m]
        /\ DirOf[SerialOf[e]] \notin mixed /\ origin[DirOf[SerialOf[e]]] = e
        /\ <<DirOf[SerialOf[e]], m>> \notin replaced
    BY <1>1, <1>2, <2>1, Typed
  <2> QED
    BY <2>2 DEF CopyInv, DiskInv
<1>8. CleanInv'
  <2> SUFFICES ASSUME NEW j \in clean', Thorough(j) PROVE Thorough(j)'
    BY <1>1 DEF CopyInv, CleanInv
  <2>1. /\ j \in Imports /\ Dir(j)' = Dir(j) /\ pc[j] # "idle" /\ Dir(j) # dir
        /\ Dir(j) \in Dirs /\ j \notin Writers(dir)
    BY <1>1, <1>3 DEF Thorough
  <2>2. /\ disk'[Dir(j)] = disk[Dir(j)] /\ (Dir(j) \in mixed' <=> Dir(j) \in mixed)
        /\ \A m : <<Dir(j), m>> \in replaced => <<Dir(j), m>> \in replaced'
        /\ origin'[Dir(j)] = origin[Dir(j)] /\ (j \in linked => j \in linked')
    BY <1>1, <1>2, <2>1
  <2> QED
    BY <1>1, <2>1, <2>2 DEF Thorough, OwnDirectory, Whole, OnCard
<1> QED
  BY <1>5, <1>6, <1>7, <1>8 DEF CopyInv

LEMMA CrashCopy ==
    ASSUME CopyInv, Crash
    PROVE  CopyInv'
<1>1. /\ \A i \in Imports : pc'[i] = "idle"
      /\ clean' = {} /\ UNCHANGED <<card, disk, origin, mixed, replaced>>
  BY DEF Crash
<1>2. WriterInv'
  BY <1>1 DEF WriterInv
<1>3. SourceInv'
  BY <1>1 DEF SourceInv
<1>4. CleanInv'
  BY <1>1 DEF CleanInv
<1> QED
  BY <1>1, <1>2, <1>3, <1>4, DiskFrame DEF CopyInv


LEMMA CopyInit == Init => CopyInv
BY DEF Init, CopyInv, WriterInv, SourceInv, DiskInv, CleanInv, Dirs, Serials

LEMMA CopyStepInv ==
    ASSUME BaseInv, CopyInv, [Next]_vars
    PROVE  CopyInv'
<1>1. CASE DetectorNext \/ OpenDialog \/ CloseDialog \/ (\E k \in 1 .. MaxLoads : LoadNext(k))
  BY <1>1, Apart, CopyFrame
<1>2. CASE \E i \in Imports : ImportNext(i)
  <2> SUFFICES ASSUME NEW i \in Imports, ImportNext(i)
               PROVE  CopyInv'
    BY <1>2
  <2>1. CASE LookupFails(i) \/ Lookup(i) \/ Enumerate(i)
    <3>1. \E s \in Serials : TRUE
      BY <2>1 DEF LookupFails, Lookup, Enumerate, BaseInv, StepInv
    <3> QED
      BY <2>1, <3>1, BeginsCopy
  <2>2. CASE \E n \in Names : SkipFile(i, n) \/ VisitFile(i, n)
    BY <2>2, VisitsCopy
  <2>3. CASE CreateFile(i) \/ WriteChunk(i) \/ CopyFails(i)
    BY <2>3, CreateCopy, WriteCopy, FailsCopy
  <2>4. CASE ImportEnds(i) \/ ToolEnds(i)
    BY <2>4, EndsCopy DEF ImportEnds, ToolEnds
  <2> QED
    BY <2>1, <2>2, <2>3, <2>4 DEF ImportNext
<1>3. CASE \E i \in Imports, s \in Serials : ImportFromDevice(i, s)
  BY <1>3, BeginsCopy
<1>4. CASE \E i \in Imports, n \in Names : ToolCopies(i, n)
  BY <1>4, ToolCopy
<1>5. CASE \E d \in Devices : Plug(d) \/ Unplug(d)
  BY <1>5, PlugCopy
<1>6. CASE \E d \in Devices, n \in Names, c \in Contents \cup {None} : Shoot(d, n, c)
  BY <1>6, ShootCopy
<1>7. CASE \E s \in Serials : ClearImportCache(s)
  BY <1>7, ClearCopy
<1>8. CASE Crash
  BY <1>8, CrashCopy
<1>9. CASE UNCHANGED vars
  <2>1. UNCHANGED ImportState
    BY <1>9 DEF vars, ImportState, copying
  <2> QED
    BY <2>1, CopyFrame
<1> QED
  BY <1>1, <1>2, <1>3, <1>4, <1>5, <1>6, <1>7, <1>8, <1>9 DEF Next

\* An import that nothing interfered with leaves a whole copy of every photo,
\* whatever serials and directories the devices share, unless the directory
\* holds the files of another device.
THEOREM ImportsLeaveCopies == Spec => ImportsAreComplete
<1>1. BaseInv /\ CopyInv /\ [Next]_vars => CopyInv'
  BY CopyStepInv
<1>2. BaseInv /\ CopyInv =>
          \A i \in Imports : ImportEnds(i) /\ i \in clean /\ OwnDirectory(i) =>
              \A n \in OnCard(dev[i]) :
                  n \notin kept[i] \/ <<Dir(i), n>> \notin replaced =>
                      Whole(disk[Dir(i)][n], card[dev[i]][n])
  BY DEF CopyInv, CleanInv, Thorough, ImportEnds
<1> QED
  BY <1>1, <1>2, CopyInit, BaseInvariant, PTL DEF Spec, ImportsAreComplete


===============================================================================
