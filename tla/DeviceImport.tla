------------------------------ MODULE DeviceImport ------------------------------
(***************************************************************************)
(* Devices: the detector that polls for them and tells the frontend, the   *)
(* list in the import dialog, and the imports that copy a device's photos  *)
(* into the cache (internal/device, app/device.go, DeviceImportModal.tsx). *)
(* The three platforms share this behaviour; where they differ the model   *)
(* has the union.  A mounted device (a GVFS mount, a card, a drive) is     *)
(* copied file by file by the program, any other by a tool (gphoto2, Image *)
(* Capture, a PowerShell script) that picks the device itself.             *)
(*                                                                         *)
(* A file is the sequence of its chunks, each with the content it came     *)
(* from, so that truncation, a torn copy and the hole a second writer      *)
(* leaves can be told apart.  Cards and the cache survive Crash.           *)
(*                                                                         *)
(* Left out: the parsing of what lsusb, system_profiler and PowerShell     *)
(* print, the checks of paths, subdirectories, statistics and wording.     *)
(***************************************************************************)
EXTENDS Naturals, Sequences, FiniteSets, SequencesExt

CONSTANTS
    Devices,        \* what can be plugged in
    Mounted,        \* the devices with a mount path
    SerialOf,       \* Device.Serial, not always unique
    DirOf,          \* SanitizeSerial, the import directory of a serial
    Names,          \* names of files
    Contents,       \* what a file may contain
    SizeOf,         \* the size of a content, in chunks
    Cards,          \* the files on every device at first
    Imports,        \* bound: imports at the same time
    None,           \* no device, file, content or serial
    MaxFileCount,   \* maxFileCount
    MaxLoads,       \* bound: loadDevices calls of the dialog at the same time
    MaxDisturbances \* bound: plugging and unplugging, failures, new photos,
                    \* clearings, crashes and closed dialogs in a behaviour

ASSUME NoneIsNone ==
    /\ None \notin Devices \cup Contents \cup Names
    /\ None \notin Seq(Contents \cup {None})
ASSUME DevicesTyped ==
    /\ IsFiniteSet(Devices)
    /\ Mounted \subseteq Devices
    /\ SizeOf \in [Contents -> Nat \ {0}]
    /\ Cards \in [Devices -> [Names -> Contents \cup {None}]]
ASSUME Bounds ==
    /\ IsFiniteSet(Imports)
    /\ MaxFileCount \in Nat /\ MaxLoads \in Nat /\ MaxDisturbances \in Nat

Serials == {SerialOf[d] : d \in Devices}
Dirs == {DirOf[s] : s \in Serials}

VARIABLES
    disturbances,   \* how many of them there have been
    plugged,        \* the devices plugged in and ready
    card,           \* the files on every device
    devices,        \* Detector.devices: the record of a serial
    poll,           \* where the detector is: waiting, polling, telling
    seen,           \* poll: the devices found so far
    tell,           \* the callbacks left to fire, in order
    told,           \* the serials the frontend was last told are connected
    open,           \* the dialog is on the screen
    loads,          \* its loadDevices calls in flight, in the order they began
    shown,          \* the serials it lists
    late,           \* history: the list is from an answer that was overtaken
    importing,      \* the serial it shows an import of
    pc, serial,     \* where every import is, and what it was called with
    dev,            \* the record it looked up
    todo, cur,      \* the files left to visit, and the one being copied
    from, at,       \* the content it is copied from, and the chunks written
    linked,         \* the file it writes is still in the directory
    disk,           \* the files in every import directory
    origin,         \* history: the device the last of them are from
    kept,           \* history: the files the import skipped
    clean,          \* history: imports nothing has interfered with
    mixed,          \* history: directories two imports have written to at once,
                    \* or one with the files of two devices
    replaced        \* history: files whose photo was deleted or replaced since
                    \* the directory was empty

detector == <<devices, poll, seen, tell, told>>
dialog == <<open, loads, shown, late, importing>>
copying == <<todo, cur, from, at, linked>>
vars == <<disturbances, plugged, card, detector, dialog, pc, serial, dev,
          copying, disk, origin, kept, clean, mixed, replaced>>

Files == [Names -> Seq(Contents \cup {None}) \cup {None}]
Events == {"connected", "disconnected"} \X Devices

TypeOK ==
    /\ disturbances \in 0 .. MaxDisturbances
    /\ plugged \subseteq Devices
    /\ card \in [Devices -> [Names -> Contents \cup {None}]]
    /\ devices \in [Serials -> Devices \cup {None}]
    /\ poll \in {"wait", "bus", "mounts", "reconcile", "tell"}
    /\ seen \subseteq Devices
    /\ tell \in Seq(Events)
    /\ told \subseteq Serials
    /\ open \in BOOLEAN /\ late \in BOOLEAN
    /\ shown \subseteq Serials
    /\ \A k \in DOMAIN loads : loads[k].overtaken \in BOOLEAN
    /\ importing \in Serials \cup {None}
    /\ pc \in [Imports -> {"idle", "lookup", "enumerate", "walk", "create",
                           "write", "tool"}]
    /\ serial \in [Imports -> Serials \cup {None}]
    /\ dev \in [Imports -> Devices \cup {None}]
    /\ todo \in [Imports -> SUBSET Names]
    /\ cur \in [Imports -> Names \cup {None}]
    /\ from \in [Imports -> Contents \cup {None}]
    /\ \A i \in Imports : pc[i] = "write" => at[i] < SizeOf[from[i]]
    /\ linked \subseteq Imports
    /\ disk \in [Dirs -> Files]
    /\ origin \in [Dirs -> Devices \cup {None}]
    /\ kept \in [Imports -> SUBSET Names]
    /\ clean \subseteq Imports
    /\ mixed \subseteq Dirs
    /\ replaced \subseteq Dirs \X Names

Init ==
    /\ disturbances = 0
    /\ plugged = {}
    /\ card = Cards
    /\ devices = [s \in Serials |-> None]
    /\ poll = "wait" /\ seen = {} /\ tell = <<>> /\ told = {}
    /\ open = FALSE /\ loads = <<>> /\ shown = {} /\ late = FALSE
    /\ importing = None
    /\ pc = [i \in Imports |-> "idle"]
    /\ serial = [i \in Imports |-> None]
    /\ dev = [i \in Imports |-> None]
    /\ todo = [i \in Imports |-> {}]
    /\ cur = [i \in Imports |-> None]
    /\ from = [i \in Imports |-> None]
    /\ at = [i \in Imports |-> 0]
    /\ linked = {}
    /\ disk = [d \in Dirs |-> [n \in Names |-> None]]
    /\ origin = [d \in Dirs |-> None]
    /\ kept = [i \in Imports |-> {}]
    /\ clean = {}
    /\ mixed = {}
    /\ replaced = {}

Disturb ==
    /\ disturbances < MaxDisturbances
    /\ disturbances' = disturbances + 1

-------------------------------------------------------------------------------
(* The detector.                                                           *)

Connected == {s \in Serials : devices[s] # None}

\* Every five seconds, or at once after Start.
Tick ==
    /\ poll = "wait"
    /\ poll' = "bus"
    /\ seen' = {}
    /\ UNCHANGED <<disturbances, plugged, card, devices, tell, told, dialog, pc,
                   serial, dev, copying, disk, origin, kept, clean, mixed, replaced>>

\* A tier that fails finds nothing; the poll goes on.
Tier(there, found) ==
    /\ \/ seen' = seen \cup found /\ UNCHANGED disturbances
       \/ Disturb /\ UNCHANGED seen
    /\ poll' = there
    /\ UNCHANGED <<plugged, card, devices, tell, told, dialog, pc, serial, dev,
                   copying, disk, origin, kept, clean, mixed, replaced>>

\* lsusb, system_profiler, the WPD script.
PollBus == poll = "bus" /\ Tier("mounts", plugged \ Mounted)

\* GVFS mounts, volumes and removable drives with a DCIM folder.
PollMounts == poll = "mounts" /\ Tier("reconcile", plugged \cap Mounted)

\* Mutant: a device without a mount path is dropped.
MountedOnly(found) ==
    {f \in [{SerialOf[d] : d \in found \cap Mounted} -> found \cap Mounted] :
        \A s \in DOMAIN f : SerialOf[f[s]] = s}

\* Of several devices with one serial one is kept, with a mount path if there
\* is one.
Deduplicated(found) ==
    {f \in [{SerialOf[d] : d \in found} -> found] :
        \A s \in DOMAIN f :
            /\ SerialOf[f[s]] = s
            /\ f[s] \notin Mounted =>
                  \A d \in found : SerialOf[d] = s => d \notin Mounted}

\* Mutant: a serial that is found again is announced again.
Reannounced(f) == DOMAIN f

\* The serials new to the map.
NewSerials(f) == DOMAIN f \ Connected

\* Under the lock the map is brought up to date; a known serial keeps its old
\* record.  The callbacks are fired after the lock is released, those of
\* disconnected devices first.
Reconcile ==
    /\ poll = "reconcile"
    /\ \E f \in Deduplicated(seen) :
          LET gone == Connected \ DOMAIN f IN
          /\ devices' = [s \in Serials |-> IF s \in gone THEN None
                                           ELSE IF s \in NewSerials(f) THEN f[s]
                                           ELSE devices[s]]
          /\ \E old \in SetToSeqs({<<"disconnected", devices[s]>> : s \in gone}),
                new \in SetToSeqs({<<"connected", f[s]>> : s \in NewSerials(f)}) :
                tell' = old \o new
    /\ poll' = "tell"
    /\ seen' = {}
    /\ UNCHANGED <<disturbances, plugged, card, told, dialog, pc, serial, dev,
                   copying, disk, origin, kept, clean, mixed, replaced>>

\* Mutant: no call is made while another is in flight.
AskedOnce ==
    IF loads = <<>> THEN <<[answer |-> None, read |-> FALSE, overtaken |-> FALSE]>>
    ELSE loads

\* loadDevices: a call of GetConnectedDevices.
Asked == Append(loads, [answer |-> None, read |-> FALSE, overtaken |-> FALSE])

\* A callback emits device-connected or device-disconnected; the dialog loads
\* the list again.
Tell ==
    /\ poll = "tell"
    /\ tell # <<>>
    /\ LET s == SerialOf[Head(tell)[2]] IN
          told' = IF Head(tell)[1] = "connected" THEN told \cup {s} ELSE told \ {s}
    /\ tell' = Tail(tell)
    /\ IF open
         THEN Len(loads) < MaxLoads /\ loads' = Asked
         ELSE UNCHANGED loads
    /\ UNCHANGED <<disturbances, plugged, card, devices, poll, seen, open, shown,
                   late, importing, pc, serial, dev, copying, disk, origin, kept, clean,
                   mixed, replaced>>

PollEnds ==
    /\ poll = "tell"
    /\ tell = <<>>
    /\ poll' = "wait"
    /\ UNCHANGED <<disturbances, plugged, card, devices, seen, tell, told, dialog,
                   pc, serial, dev, copying, disk, origin, kept, clean, mixed, replaced>>

-------------------------------------------------------------------------------
(* The dialog.                                                             *)

OpenDialog ==
    /\ ~open
    /\ open' = TRUE
    /\ loads' = Asked
    /\ UNCHANGED <<disturbances, plugged, card, detector, shown, late, importing,
                   pc, serial, dev, copying, disk, origin, kept, clean, mixed, replaced>>

\* Its state is lost; an import goes on.
CloseDialog ==
    /\ open
    /\ Disturb
    /\ open' = FALSE
    /\ loads' = <<>> /\ shown' = {} /\ late' = FALSE /\ importing' = None
    /\ UNCHANGED <<plugged, card, detector, pc, serial, dev, copying, disk, origin, kept,
                   clean, mixed, replaced>>

\* GetConnectedDevices reads the map under the lock.
GetConnectedDevices(k) ==
    /\ k \in DOMAIN loads
    /\ ~loads[k].read
    /\ loads' = [loads EXCEPT ![k].answer = Connected, ![k].read = TRUE]
    /\ UNCHANGED <<disturbances, plugged, card, detector, open, shown, late,
                   importing, pc, serial, dev, copying, disk, origin, kept, clean, mixed,
                   replaced>>

\* Calls run in goroutines of their own: an answer may overtake others.
ShowDevices(k) ==
    /\ k \in DOMAIN loads
    /\ loads[k].read
    /\ shown' = loads[k].answer
    /\ late' = loads[k].overtaken
    /\ loads' = RemoveAt([j \in DOMAIN loads |->
                             IF j < k THEN [loads[j] EXCEPT !.overtaken = TRUE]
                             ELSE loads[j]], k)
    /\ UNCHANGED <<disturbances, plugged, card, detector, open, importing, pc,
                   serial, dev, copying, disk, origin, kept, clean, mixed, replaced>>

-------------------------------------------------------------------------------
(* An import.                                                              *)

Dir(i) == DirOf[serial[i]]

\* The imports that copy into a directory.
Writers(dir) == {i \in Imports : pc[i] # "idle" /\ Dir(i) = dir}

Goto(i, there) == pc' = [pc EXCEPT ![i] = there]

\* Its locals are dead; the dialog hears of the end.
EndOf(i) ==
    /\ Goto(i, "idle")
    /\ serial' = [serial EXCEPT ![i] = None]
    /\ dev' = [dev EXCEPT ![i] = None]
    /\ todo' = [todo EXCEPT ![i] = {}]
    /\ kept' = [kept EXCEPT ![i] = {}]
    /\ clean' = clean \ {i}
    /\ importing' = None

\* The dialog offers an import when it shows none.
ImportFromDevice(i, s) ==
    /\ open
    /\ importing = None
    /\ s \in shown
    /\ pc[i] = "idle"
    /\ importing' = s
    /\ serial' = [serial EXCEPT ![i] = s]
    /\ Goto(i, "lookup")
    /\ LET others == Writers(DirOf[s]) IN
          /\ clean' = IF others = {} THEN clean \cup {i} ELSE clean \ others
          /\ mixed' = IF others = {} THEN mixed ELSE mixed \cup {DirOf[s]}
    /\ UNCHANGED <<disturbances, plugged, card, detector, open, loads, shown, late,
                   dev, copying, disk, origin, kept, replaced>>

\* An unknown device is an error; macOS starts Image Capture all the same.
LookupFails(i) ==
    /\ pc[i] = "lookup"
    /\ devices[serial[i]] = None
    /\ \/ EndOf(i)
       \/ Goto(i, "tool") /\ UNCHANGED <<serial, dev, todo, kept, clean, importing>>
    /\ UNCHANGED <<disturbances, plugged, card, detector, open, loads, shown, late,
                   cur, from, at, linked, disk, origin, mixed, replaced>>

Lookup(i) ==
    LET d == devices[serial[i]] IN
    /\ pc[i] = "lookup"
    /\ d # None
    /\ dev' = [dev EXCEPT ![i] = d]
    /\ Goto(i, IF d \in Mounted THEN "enumerate" ELSE "tool")
    /\ UNCHANGED <<disturbances, plugged, card, detector, dialog, serial, copying,
                   disk, origin, kept, clean, mixed, replaced>>

OnCard(d) == {n \in Names : card[d][n] # None}

\* Without a DCIM folder there is nothing to copy, and no error; more files
\* than the limit are one.
Enumerate(i) ==
    LET found == IF dev[i] \in plugged THEN OnCard(dev[i]) ELSE {} IN
    /\ pc[i] = "enumerate"
    /\ IF Cardinality(found) > MaxFileCount
         THEN EndOf(i)
         ELSE /\ todo' = [todo EXCEPT ![i] = found]
              /\ Goto(i, "walk")
              /\ clean' = IF dev[i] \in plugged THEN clean ELSE clean \ {i}
              /\ UNCHANGED <<importing, serial, dev, kept>>
    /\ UNCHANGED <<disturbances, plugged, card, detector, open, loads, shown, late,
                   cur, from, at, linked, disk, origin, mixed, replaced>>

Size(file) == IF file = None THEN 0 ELSE Len(file)

Readable(i, n) == dev[i] \in plugged /\ card[dev[i]][n] # None

\* Mutant: a file that exists is not copied.
ExistsInDir(i, n) == disk[Dir(i)][n] # None

\* A file of the same size is there already.
IsThere(i, n) ==
    /\ disk[Dir(i)][n] # None
    /\ Size(disk[Dir(i)][n]) = SizeOf[card[dev[i]][n]]

\* Skipped: copied before, or an error of the walk.
SkipFile(i, n) ==
    /\ pc[i] = "walk"
    /\ n \in todo[i]
    /\ IF Readable(i, n) THEN IsThere(i, n) ELSE TRUE
    /\ kept' = IF Readable(i, n) THEN [kept EXCEPT ![i] = @ \cup {n}] ELSE kept
    /\ todo' = [todo EXCEPT ![i] = @ \ {n}]
    /\ UNCHANGED <<disturbances, plugged, card, detector, dialog, pc, serial, dev,
                   cur, from, at, linked, disk, origin, clean, mixed, replaced>>

VisitFile(i, n) ==
    /\ pc[i] = "walk"
    /\ n \in todo[i]
    /\ Readable(i, n)
    /\ ~IsThere(i, n)
    /\ cur' = [cur EXCEPT ![i] = n]
    /\ Goto(i, "create")
    /\ UNCHANGED <<disturbances, plugged, card, detector, dialog, serial, dev,
                   todo, from, at, linked, disk, origin, kept, clean, mixed, replaced>>

\* History: the directory gets a file of a device.
Fill(dir, d) ==
    /\ origin' = [origin EXCEPT ![dir] = d]
    /\ mixed' = IF origin[dir] \in {None, d} THEN mixed ELSE mixed \cup {dir}

\* copyFile opens the source and truncates the destination.
CreateFile(i) ==
    /\ pc[i] = "create"
    /\ Readable(i, cur[i])
    /\ from' = [from EXCEPT ![i] = card[dev[i]][cur[i]]]
    /\ disk' = [disk EXCEPT ![Dir(i)][cur[i]] = <<>>]
    /\ Fill(Dir(i), dev[i])
    /\ linked' = linked \cup {i}
    /\ Goto(i, "write")
    /\ UNCHANGED <<disturbances, plugged, card, detector, dialog, serial, dev,
                   todo, cur, at, kept, clean, replaced>>

NextFile(i) ==
    /\ todo' = [todo EXCEPT ![i] = @ \ {cur[i]}]
    /\ cur' = [cur EXCEPT ![i] = None]
    /\ from' = [from EXCEPT ![i] = None]
    /\ at' = [at EXCEPT ![i] = 0]
    /\ linked' = linked \ {i}
    /\ Goto(i, "walk")

\* A chunk written at an offset; what was cut off before it is a hole.
WrittenAt(file, k, c) ==
    [j \in 1 .. (IF k > Len(file) THEN k ELSE Len(file)) |->
        IF j = k THEN c ELSE IF j \in DOMAIN file THEN file[j] ELSE None]

\* io.Copy; the last chunk is followed by Close.
WriteChunk(i) ==
    LET k == at[i] + 1
        dir == Dir(i) IN
    /\ pc[i] = "write"
    /\ dev[i] \in plugged
    /\ disk' = IF i \in linked
                 THEN [disk EXCEPT ![dir][cur[i]] = WrittenAt(@, k, from[i])]
                 ELSE disk
    /\ IF k = SizeOf[from[i]]
         THEN NextFile(i)
         ELSE at' = [at EXCEPT ![i] = k] /\ UNCHANGED <<pc, todo, cur, from, linked>>
    /\ UNCHANGED <<disturbances, plugged, card, detector, dialog, serial, dev,
                   origin, kept, clean, mixed, replaced>>

\* The file is left as it is and the next one is visited; there is no error.
CopyFails(i) ==
    /\ pc[i] \in {"create", "write"}
    /\ IF pc[i] = "create"
         THEN IF Readable(i, cur[i]) THEN Disturb ELSE UNCHANGED disturbances
         ELSE IF dev[i] \in plugged THEN Disturb ELSE UNCHANGED disturbances
    /\ NextFile(i)
    /\ clean' = clean \ {i}
    /\ UNCHANGED <<plugged, card, detector, dialog, serial, dev, disk, origin, kept, mixed,
                   replaced>>

\* The import succeeds, whatever was skipped.
ImportEnds(i) ==
    /\ pc[i] = "walk"
    /\ todo[i] = {}
    /\ EndOf(i)
    /\ UNCHANGED <<disturbances, plugged, card, detector, open, loads, shown, late,
                   cur, from, at, linked, disk, origin, mixed, replaced>>

\* The tool copies a file, or a part of it, from a device of its choice.
ToolCopies(i, n) ==
    /\ pc[i] = "tool"
    /\ \E d \in plugged \ Mounted :
          /\ card[d][n] # None
          /\ \E size \in 0 .. SizeOf[card[d][n]] :
                /\ IF size = SizeOf[card[d][n]] THEN UNCHANGED disturbances ELSE Disturb
                /\ disk' = [disk EXCEPT ![Dir(i)][n] = [k \in 1 .. size |-> card[d][n]]]
          /\ Fill(Dir(i), d)
    /\ UNCHANGED <<plugged, card, detector, dialog, pc, serial, dev, copying, kept,
                   clean, replaced>>

\* It ends by itself, with an error or after ten minutes.
ToolEnds(i) ==
    /\ pc[i] = "tool"
    /\ EndOf(i)
    /\ UNCHANGED <<disturbances, plugged, card, detector, open, loads, shown, late,
                   cur, from, at, linked, disk, origin, mixed, replaced>>

-------------------------------------------------------------------------------
(* What happens meanwhile.                                                 *)

Plug(d) ==
    /\ d \notin plugged
    /\ Disturb
    /\ plugged' = plugged \cup {d}
    /\ UNCHANGED <<card, detector, dialog, pc, serial, dev, copying, disk, origin, kept,
                   clean, mixed, replaced>>

Unplug(d) ==
    /\ d \in plugged
    /\ Disturb
    /\ plugged' = plugged \ {d}
    /\ clean' = {i \in clean : dev[i] # d}
    /\ UNCHANGED <<card, detector, dialog, pc, serial, dev, copying, disk, origin, kept,
                   mixed, replaced>>

\* A photo is taken, deleted or replaced by another of its name.
Shoot(d, n, c) ==
    /\ card[d][n] # c
    /\ Disturb
    /\ card' = [card EXCEPT ![d][n] = c]
    /\ clean' = {i \in clean : dev[i] # d}
    /\ replaced' = IF card[d][n] = None THEN replaced
                   ELSE replaced \cup {<<DirOf[SerialOf[d]], n>>}
    /\ UNCHANGED <<plugged, detector, dialog, pc, serial, dev, copying, disk, origin, kept,
                   mixed>>

\* RemoveAll: a file being written goes on without a name.
ClearImportCache(s) ==
    LET dir == DirOf[s] IN
    /\ \E n \in Names : disk[dir][n] # None
    /\ Disturb
    /\ disk' = [disk EXCEPT ![dir] = [n \in Names |-> None]]
    /\ origin' = [origin EXCEPT ![dir] = None]
    /\ linked' = linked \ Writers(dir)
    /\ clean' = clean \ Writers(dir)
    /\ mixed' = IF Cardinality(Writers(dir)) > 1 THEN mixed ELSE mixed \ {dir}
    /\ replaced' = IF Writers(dir) # {} THEN replaced
                   ELSE replaced \ ({dir} \X Names)
    /\ UNCHANGED <<plugged, card, detector, dialog, pc, serial, dev, todo, cur,
                   from, at, kept>>

Crash ==
    /\ Disturb
    /\ devices' = [s \in Serials |-> None]
    /\ poll' = "wait" /\ seen' = {} /\ tell' = <<>> /\ told' = {}
    /\ open' = FALSE /\ loads' = <<>> /\ shown' = {} /\ late' = FALSE
    /\ importing' = None
    /\ pc' = [i \in Imports |-> "idle"]
    /\ serial' = [i \in Imports |-> None]
    /\ dev' = [i \in Imports |-> None]
    /\ todo' = [i \in Imports |-> {}]
    /\ cur' = [i \in Imports |-> None]
    /\ from' = [i \in Imports |-> None]
    /\ at' = [i \in Imports |-> 0]
    /\ linked' = {}
    /\ kept' = [i \in Imports |-> {}]
    /\ clean' = {}
    /\ UNCHANGED <<plugged, card, disk, origin, mixed, replaced>>

DetectorNext == Tick \/ PollBus \/ PollMounts \/ Reconcile \/ Tell \/ PollEnds

LoadNext(k) == GetConnectedDevices(k) \/ ShowDevices(k)

ImportNext(i) ==
    \/ LookupFails(i)
    \/ Lookup(i)
    \/ Enumerate(i)
    \/ \E n \in Names : SkipFile(i, n) \/ VisitFile(i, n)
    \/ CreateFile(i)
    \/ WriteChunk(i)
    \/ CopyFails(i)
    \/ ImportEnds(i)
    \/ ToolEnds(i)

Next ==
    \/ DetectorNext
    \/ OpenDialog
    \/ CloseDialog
    \/ \E k \in 1 .. MaxLoads : LoadNext(k)
    \/ \E i \in Imports : ImportNext(i)
    \/ \E i \in Imports, s \in Serials : ImportFromDevice(i, s)
    \/ \E i \in Imports, n \in Names : ToolCopies(i, n)
    \/ \E d \in Devices : Plug(d) \/ Unplug(d)
    \/ \E d \in Devices, n \in Names, c \in Contents \cup {None} : Shoot(d, n, c)
    \/ \E s \in Serials : ClearImportCache(s)
    \/ Crash

Spec == Init /\ [][Next]_vars

\* The detector's goroutine and the calls of the dialog are scheduled, reads
\* and writes of files return, and a tool ends or is killed.
Fairness ==
    /\ WF_vars(DetectorNext)
    /\ \A k \in 1 .. MaxLoads : WF_vars(LoadNext(k))
    /\ \A i \in Imports : WF_vars(ImportNext(i))

FairSpec == Spec /\ Fairness

-------------------------------------------------------------------------------
(* Properties.                                                             *)

\* The frontend has been told of exactly the devices in the detector's map,
\* but for the callbacks still to fire: none is lost, fired twice or out of
\* order, although they run after the lock is released.
ToldOnceEach ==
    LET gone == {SerialOf[e[2]] : e \in {x \in Range(tell) : x[1] = "disconnected"}}
        new == {SerialOf[e[2]] : e \in {x \in Range(tell) : x[1] = "connected"}} IN
    /\ told = (Connected \ new) \cup gone
    /\ gone \cap new = {}
    /\ \A j, k \in DOMAIN tell : j # k => tell[j] # tell[k]

\* With no callback to fire and no call in flight the dialog lists exactly the
\* detector's devices, unless an answer arrived after a younger one.
ListIsCurrent ==
    open /\ loads = <<>> /\ tell = <<>> /\ ~late => shown = Connected

\* The file is a whole copy of the content.
Whole(file, c) == file = [k \in 1 .. SizeOf[c] |-> c]

OwnDirectory(i) == Dir(i) \notin mixed /\ origin[Dir(i)] \in {None, dev[i]}

\* An import that nothing interfered with leaves in its directory a whole copy
\* of every photo of the device, those an earlier import had left torn or not
\* copied included.  Excepted are files it skipped whose photo was replaced by
\* another, directories two imports have written to at once, and those that hold
\* the files of another device: a card of the same name, or one the tool chose.
ImportsAreComplete ==
    [][\A i \in Imports :
          ImportEnds(i) /\ i \in clean /\ OwnDirectory(i) =>
              \A n \in OnCard(dev[i]) :
                  n \notin kept[i] \/ <<Dir(i), n>> \notin replaced =>
                      Whole(disk[Dir(i)][n], card[dev[i]][n])]_vars

\* A device that stays plugged in is in the detector's map in the end, and the
\* frontend has been told.
DevicesAreNoticed ==
    \A d \in Devices : <>[](d \in plugged) => <>[](SerialOf[d] \in told)

\* "Skip existing": a file is skipped because it is there already.  Refuted:
\* the sizes are compared, not the contents.
SkippedFilesAreCurrent ==
    [][\A i \in Imports : ImportEnds(i) /\ i \in clean /\ OwnDirectory(i) =>
          \A n \in kept[i] :
              Whole(disk[Dir(i)][n], card[dev[i]][n])]_vars

\* An import leaves copies of its own device's photos in a directory written to
\* by one import at a time.  Refuted: a serial may be the name of a volume, and
\* photos are skipped for those of another card of that name.
CardsAreKeptApart ==
    [][\A i \in Imports : ImportEnds(i) /\ i \in clean /\ Dir(i) \notin mixed =>
          \A n \in OnCard(dev[i]) :
              <<Dir(i), n>> \notin replaced =>
                  Whole(disk[Dir(i)][n], card[dev[i]][n])]_vars

\* ImportFromDevice imports photos "from a connected device", the one it was
\* asked for.  Refuted: the tool is not told which.
ToolCopiesTheDevice ==
    [][\A i \in Imports, n \in Names :
          ToolCopies(i, n) /\ disk'[Dir(i)][n] # disk[Dir(i)][n] => dev[i] \in plugged]_vars

===============================================================================
