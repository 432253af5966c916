--------------------------- MODULE OrderlyProofs ---------------------------
(***************************************************************************)
(* What a device can rely on that waits for each answer before it polls    *)
(* again: the indicator it is shown is this poll's, its rotation skips and *)
(* repeats nothing, to it the whole server implements RoundRobin, and it   *)
(* is handed a queued update once.                                         *)
(*                                                                         *)
(* A poll goes on from a copy of the device row, and stores a cursor it    *)
(* has computed from that copy.  The theorems rest on the copy being what *)
(* the row still says when it matters.                                     *)
(***************************************************************************)
EXTENDS CacheProofs

(* A device waits for its answer, the statements of its poll succeed, and  *)
(* no other device takes over the row id of a deleted one.                 *)
Waits == ~Overlap /\ "store.fail" \notin Ops /\ "device.create" \notin Ops

(* Two requests are never polls of the same device.                        *)
OnePoll ==
    \A q, r \in Reqs :
        req[q].kind = "display" /\ req[r].kind = "display" /\ req[q].dev = req[r].dev
            => q = r

(* The copy a poll goes on with has the battery state of the row.          *)
UpToDate(j, rows) ==
    j.kind = "display" /\ j.pc \notin {"telemetry", "reload"} /\ rows[j.dev] # NULL
        => j.row.battery = rows[j.dev].battery

(* A poll is never at a step of a force refresh. *)
NoRefresh(j) == j.kind = "display" => j.pc \notin {"list", "clearscreens"}

WaitInv ==
    /\ OnePoll
    /\ \A r \in Reqs : NoRefresh(req[r])
    /\ \A r \in Reqs : UpToDate(req[r], devices)

-----------------------------------------------------------------------------
(* The screen of the answer a request has under way. *)
Shown(j) ==
    IF j.kind = "display" /\ j.pc \in {"getscreen", "lookup", "compute", "write",
                                       "record", "respond"}
    THEN j.scr ELSE NULL

(* Most steps of a request: a poll keeps its copy of the device row and    *)
(* goes on with its screen or without one, another request does not become *)
(* a poll.                                                                 *)
GoesOn(j, job) ==
    /\ job.kind = "display" =>
          /\ j.kind = "display" /\ job.dev = j.dev /\ job.row = j.row
          /\ j.pc \notin {"telemetry", "reload"}
          /\ job.pc \notin {"telemetry", "reload", "pick", "advance", "list", "clearscreens"}
    /\ Shown(job) \in {Shown(j), NULL}

(* A step that leaves the battery state and the cursor of a device alone. *)
KeepsRows ==
    \A d \in Devices : devices'[d] # NULL =>
        /\ devices[d] # NULL
        /\ devices'[d].battery = devices[d].battery
        /\ devices'[d].cursor = devices[d].cursor

LEMMA SameRows ==
    ASSUME UNCHANGED devices
    PROVE  KeepsRows
BY DEF KeepsRows

LEMMA FinishGoesOn ==
    ASSUME NEW r \in Reqs, Finish(r)
    PROVE  \E job : Goto(r, job) /\ GoesOn(req[r], job)
BY DEF Finish, GoesOn, Shown, Idle

LEMMA NoPictureGoesOn ==
    ASSUME NEW r \in Reqs, NoPicture(r), req[r].pc \notin {"telemetry", "reload"}
    PROVE  \E job : Goto(r, job) /\ GoesOn(req[r], job)
<1> DEFINE job == [Idle EXCEPT !.pc = "respond", !.kind = "display",
                              !.dev = req[r].dev, !.row = req[r].row]
<1>1. CASE req[r].kind = "display"
    <2>1. /\ job.pc = "respond" /\ job.kind = "display" /\ job.scr = NULL
          /\ job.dev = req[r].dev /\ job.row = req[r].row
        BY DEF Idle
    <2>2. GoesOn(req[r], job)
        BY <1>1, <2>1 DEF GoesOn, Shown
    <2> QED
        BY <1>1, <2>2 DEF NoPicture
<1>2. CASE req[r].kind # "display"
    BY <1>2, FinishGoesOn DEF NoPicture
<1> QED
    BY <1>1, <1>2

(* A request that only changes its step, and what it has of its picture. *)
LEMMA StepGoesOn ==
    ASSUME NEW j, NEW job,
           job.kind = j.kind, job.dev = j.dev, job.row = j.row, job.scr = j.scr,
           j.kind = "display" =>
              {j.pc, job.pc} \subseteq {"getscreen", "lookup", "compute", "write",
                                        "record", "respond"}
    PROVE  GoesOn(j, job)
BY DEF GoesOn, Shown

(* From the screen row to the answer. *)
LEMMA RenderGoesOn ==
    ASSUME TypeInv, NEW r \in Reqs,
           \/ GetScreen(r) \/ Lookup(r) \/ Compute(r) \/ ComputeFails(r)
           \/ Write(r) \/ WriteFails(r) \/ Record(r)
    PROVE  KeepsRows /\ \E job : Goto(r, job) /\ GoesOn(req[r], job)
<1>1. req[r] \in Job /\ JobOK(req[r])
    BY JobAt
<1>2. KeepsRows
    <2>1. UNCHANGED devices
        BY DEF GetScreen, Lookup, Compute, ComputeFails, Write, WriteFails, Record,
           storeVars
    <2> QED
        BY <2>1, SameRows
<1> SUFFICES \E job : Goto(r, job) /\ GoesOn(req[r], job)
    BY <1>2
<1>3. CASE GetScreen(r)
    <2>1. CASE NoPicture(r)
        BY <1>3, <2>1, NoPictureGoesOn DEF GetScreen
    <2>2. CASE screens[req[r].scr] # NULL /\ ~NoPicture(r)
        <3> DEFINE sc == screens[req[r].scr]
                   pc == CASE req[r].kind = "display" -> "lookup"
                           [] req[r].kind = "preview" -> "getdevice"
                           [] OTHER -> "compute"
                   job == [req[r] EXCEPT !.sc = sc, !.pc = pc]
        <3>1. Goto(r, job) /\ req[r].pc = "getscreen"
            BY <1>3, <2>2 DEF GetScreen
        <3>2. req[r].kind = "display" => pc = "lookup"
            OBVIOUS
        <3> HIDE DEF sc, pc
        <3>3. /\ job.kind = req[r].kind /\ job.dev = req[r].dev /\ job.row = req[r].row
              /\ job.scr = req[r].scr /\ job.pc = pc
            BY <1>1 DEF Job
        <3> HIDE DEF job
        <3>4. GoesOn(req[r], job)
            BY <3>1, <3>2, <3>3, StepGoesOn
        <3> QED
            BY <3>1, <3>4
    <2> QED
        BY <1>3, <2>1, <2>2 DEF GetScreen
<1>4. CASE Lookup(r)
    <2> DEFINE hash == CachedHash(req[r])
               hit  == [req[r] EXCEPT !.pc = "respond", !.img = hash]
               miss == [req[r] EXCEPT !.pc = "compute"]
    <2>1. req[r].pc = "lookup" /\ (NoPicture(r) \/ Goto(r, hit) \/ Goto(r, miss))
        BY <1>4 DEF Lookup
    <2> HIDE DEF hash
    <2>2. /\ hit.kind = req[r].kind /\ hit.dev = req[r].dev /\ hit.row = req[r].row
          /\ hit.scr = req[r].scr /\ hit.pc = "respond"
        BY <1>1 DEF Job
    <2>3. /\ miss.kind = req[r].kind /\ miss.dev = req[r].dev /\ miss.row = req[r].row
          /\ miss.scr = req[r].scr /\ miss.pc = "compute"
        BY <1>1 DEF Job
    <2> HIDE DEF hit, miss
    <2>4. GoesOn(req[r], hit) /\ GoesOn(req[r], miss)
        BY <2>1, <2>2, <2>3, StepGoesOn
    <2> QED
        BY <2>1, <2>4, NoPictureGoesOn
<1>5. CASE Compute(r)
    <2>1. PICK x \in Data :
              Goto(r, [req[r] EXCEPT !.pc = "write",
                                     !.img = Picture(req[r].row, req[r].sc, x)])
        BY <1>5 DEF Compute
    <2> DEFINE img == Picture(req[r].row, req[r].sc, x)
               job == [req[r] EXCEPT !.pc = "write", !.img = img]
    <2>2. Goto(r, job) /\ req[r].pc = "compute"
        BY <1>5, <2>1 DEF Compute
    <2> HIDE DEF img
    <2>3. /\ job.kind = req[r].kind /\ job.dev = req[r].dev /\ job.row = req[r].row
          /\ job.scr = req[r].scr /\ job.pc = "write"
        BY <1>1 DEF Job
    <2> HIDE DEF job
    <2>4. GoesOn(req[r], job)
        BY <2>2, <2>3, StepGoesOn
    <2> QED
        BY <2>2, <2>4
<1>6. CASE Write(r)
    <2> DEFINE new == req[r].img \notin files
               job == [req[r] EXCEPT !.pc = "record", !.wrote = new]
    <2>1. Goto(r, job) /\ req[r].pc = "write"
        BY <1>6 DEF Write
    <2> HIDE DEF new
    <2>2. /\ job.kind = req[r].kind /\ job.dev = req[r].dev /\ job.row = req[r].row
          /\ job.scr = req[r].scr /\ job.pc = "record"
        BY <1>1 DEF Job
    <2> HIDE DEF job
    <2>3. GoesOn(req[r], job)
        BY <2>1, <2>2, StepGoesOn
    <2> QED
        BY <2>1, <2>3
<1>7. CASE Record(r)
    <2> DEFINE job == [req[r] EXCEPT !.pc = "respond"]
    <2>1. /\ req[r].pc = "record"
          /\ IF req[r].kind = "display" THEN Goto(r, job) ELSE Finish(r)
        BY <1>7 DEF Record
    <2>2. /\ job.kind = req[r].kind /\ job.dev = req[r].dev /\ job.row = req[r].row
          /\ job.scr = req[r].scr /\ job.pc = "respond"
        BY <1>1 DEF Job
    <2> HIDE DEF job
    <2>3. GoesOn(req[r], job)
        BY <2>1, <2>2, StepGoesOn
    <2> QED
        BY <2>1, <2>3, FinishGoesOn
<1>8. CASE ComputeFails(r) \/ WriteFails(r)
    BY <1>8, NoPictureGoesOn DEF ComputeFails, WriteFails
<1> QED
    BY <1>3, <1>4, <1>5, <1>6, <1>7, <1>8

(* The other steps of a poll, from the rotation without a screen on. *)
LEMMA AnswerGoesOn ==
    ASSUME TypeInv, Waits, NEW r \in Reqs,
           PickNone(r) \/ Respond(r) \/ Clear(r) \/ TelemetryFails(r)
    PROVE  KeepsRows /\ \E job : Goto(r, job) /\ GoesOn(req[r], job)
<1>1. req[r] \in Job /\ JobOK(req[r])
    BY JobAt
<1>2. CASE TelemetryFails(r)
    BY <1>2 DEF TelemetryFails, Waits
<1>3. CASE PickNone(r)
    BY <1>3, SameRows, NoPictureGoesOn DEF PickNone, storeVars
<1>4. CASE Respond(r)
    <2> DEFINE job == [Idle EXCEPT !.pc = "clear", !.kind = "display",
                                  !.dev = req[r].dev, !.row = req[r].row]
    <2>1. /\ req[r].pc = "respond" /\ req[r].kind = "display"
          /\ Goto(r, job) \/ Finish(r)
          /\ UNCHANGED devices
        BY <1>1, <1>4 DEF Respond, JobOK, storeVars
    <2>2. job.pc = "clear" /\ job.kind = "display" /\ job.dev = req[r].dev /\ job.row = req[r].row
        BY DEF Idle
    <2>3. GoesOn(req[r], job)
        BY <2>1, <2>2 DEF GoesOn, Shown
    <2> HIDE DEF job
    <2> QED
        BY <2>1, <2>3, FinishGoesOn, SameRows
<1>5. CASE Clear(r)
    <2>1. req[r].dev \in Devices
        BY <1>1, <1>5 DEF Clear, JobOK
    <2>2. devices \in [Devices -> DeviceRow \union {NULL}]
        BY DEF TypeInv, TypeOK, StoreTypeOK
    <2>3. KeepsRows
        BY <1>5, <2>1, <2>2 DEF Clear, ClearFirmwareUpdate, UpdateDevice, KeepsRows,
           DeviceRow, Waits
    <2> QED
        BY <1>5, <2>3, FinishGoesOn DEF Clear
<1> QED
    BY <1>2, <1>3, <1>4, <1>5

(* A request that is not a poll does not become one. *)
LEMMA OtherGoesOn ==
    ASSUME NEW j, NEW job, j.kind # "display", job.kind # "display"
    PROVE  GoesOn(j, job)
BY DEF GoesOn, Shown

(* The admin requests, from their start. *)
LEMMA AdminGoesOn ==
    ASSUME TypeInv, NEW r \in Reqs, NoRefresh(req[r]),
           \/ AdminStep(r)
           \/ SettingsSave(r)
           \/ \E d \in Devices : DeviceForceRefresh(r, d)
           \/ \E s \in Screens : ScreenUpdate(r, s) \/ ScreenPreview(r, s)
           \/ Pick(r) /\ req[r].kind # "display"
    PROVE  KeepsRows /\ \E job : Goto(r, job) /\ GoesOn(req[r], job)
<1>1. req[r] \in Job /\ JobOK(req[r])
    BY JobAt
<1>2. KeepsRows
    <2>1. UNCHANGED devices
        BY DEF AdminStep, RefreshList, RefreshClearScreen, RefreshClearDevice,
           ScreenUpdateDither, PreviewDevice, SettingsSaveFonts, SettingsSave,
           DeviceForceRefresh, ScreenUpdate, ScreenPreview, Pick, storeVars
    <2> QED
        BY <2>1, SameRows
<1> SUFFICES \E job : Goto(r, job) /\ GoesOn(req[r], job)
    BY <1>2
<1> DEFINE Started == \E job : Goto(r, job) /\ job.kind # "display"
<1>3. CASE req[r].kind # "display" /\ Started
    <2>1. PICK job : Goto(r, job) /\ job.kind # "display"
        BY <1>3
    <2> QED
        BY <1>3, <2>1, OtherGoesOn
<1>4. CASE RefreshList(r) \/ RefreshClearScreen(r) \/ RefreshClearDevice(r)
    <2>1. req[r].kind # "display"
        BY <1>4 DEF NoRefresh, RefreshList, RefreshClearScreen, RefreshClearDevice
    <2>2. CASE RefreshList(r)
        <3>1. PICK todo : Goto(r, [req[r] EXCEPT !.pc = "clearscreens", !.todo = todo])
            BY <2>2 DEF RefreshList
        <3>2. [req[r] EXCEPT !.pc = "clearscreens", !.todo = todo].kind # "display"
            BY <1>1, <2>1 DEF Job
        <3> QED
            BY <1>3, <2>1, <3>1, <3>2
    <2>3. CASE RefreshClearScreen(r)
        <3>1. PICK s \in req[r].todo : Goto(r, [req[r] EXCEPT !.todo = @ \ {s}])
            BY <2>3 DEF RefreshClearScreen
        <3>2. [req[r] EXCEPT !.todo = @ \ {s}].kind # "display"
            BY <1>1, <2>1 DEF Job
        <3> QED
            BY <1>3, <2>1, <3>1, <3>2
    <2>4. CASE RefreshClearDevice(r)
        <3>1. [req[r] EXCEPT !.pc = "pick"].kind # "display"
            BY <1>1, <2>1 DEF Job
        <3> QED
            BY <1>3, <2>1, <2>4, <3>1 DEF RefreshClearDevice
    <2> QED
        BY <1>4, <2>2, <2>3, <2>4
<1>5. CASE PreviewDevice(r)
    <2> DEFINE row == IF req[r].dev = NULL THEN NULL ELSE devices[req[r].dev]
    <2>1. Goto(r, [req[r] EXCEPT !.pc = "compute", !.row = row])
        BY <1>5 DEF PreviewDevice
    <2>2. req[r].kind # "display"
        BY <1>1, <1>5 DEF PreviewDevice, JobOK
    <2> HIDE DEF row
    <2>3. [req[r] EXCEPT !.pc = "compute", !.row = row].kind # "display"
        BY <1>1, <2>2 DEF Job
    <2> QED
        BY <1>3, <2>1, <2>2, <2>3
<1>6. CASE Pick(r) /\ req[r].kind # "display"
    <2>1. PICK pc, scr, next : Goto(r, [req[r] EXCEPT !.pc = pc, !.scr = scr, !.next = next])
        BY <1>6 DEF Pick
    <2>2. [req[r] EXCEPT !.pc = pc, !.scr = scr, !.next = next].kind # "display"
        BY <1>1, <1>6 DEF Job
    <2> QED
        BY <1>3, <1>6, <2>1, <2>2
<1>7. CASE ScreenUpdateDither(r) \/ SettingsSaveFonts(r)
    BY <1>7, FinishGoesOn DEF ScreenUpdateDither, SettingsSaveFonts
<1>8. ASSUME \/ SettingsSave(r)
             \/ \E d \in Devices : DeviceForceRefresh(r, d)
             \/ \E s \in Screens : ScreenUpdate(r, s) \/ ScreenPreview(r, s)
      PROVE  req[r].kind # "display" /\ Started
    <2>1. req[r].kind = "none"
        <3>1. req[r] = Idle
            BY <1>8 DEF SettingsSave, DeviceForceRefresh, ScreenUpdate, ScreenPreview
        <3> QED
            BY <3>1 DEF Idle
    <2>2. ASSUME SettingsSave(r)
          PROVE  Started
        <3>1. PICK f \in Fonts : Goto(r, [Idle EXCEPT !.pc = "fonts", !.kind = "save", !.arg = f])
            BY <2>2 DEF SettingsSave
        <3>2. [Idle EXCEPT !.pc = "fonts", !.kind = "save", !.arg = f].kind # "display"
            BY DEF Idle
        <3> QED
            BY <3>1, <3>2
    <2>3. ASSUME NEW d \in Devices, DeviceForceRefresh(r, d)
          PROVE  Started
        <3> DEFINE job == [Idle EXCEPT !.pc = "list", !.kind = "refresh",
                                      !.dev = d, !.row = devices[d]]
        <3>1. Goto(r, job)
            BY <2>3 DEF DeviceForceRefresh
        <3>2. job.kind # "display"
            BY DEF Idle
        <3> HIDE DEF job
        <3> QED
            BY <3>1, <3>2
    <2>4. ASSUME NEW s \in Screens, ScreenUpdate(r, s)
          PROVE  Started
        <3>1. PICK m \in Modes \union {NULL} :
                  Goto(r, [Idle EXCEPT !.pc = "dither", !.kind = "edit", !.scr = s, !.arg = m])
            BY <2>4 DEF ScreenUpdate
        <3> DEFINE job == [Idle EXCEPT !.pc = "dither", !.kind = "edit", !.scr = s, !.arg = m]
        <3>2. Goto(r, job) /\ job.kind # "display"
            BY <3>1 DEF Idle
        <3> HIDE DEF job
        <3> QED
            BY <3>2
    <2>5. ASSUME NEW s \in Screens, ScreenPreview(r, s)
          PROVE  Started
        <3>1. PICK d \in Devices \union {NULL} :
                  Goto(r, [Idle EXCEPT !.pc = "getscreen", !.kind = "preview",
                                       !.dev = d, !.scr = s])
            BY <2>5 DEF ScreenPreview
        <3>2. [Idle EXCEPT !.pc = "getscreen", !.kind = "preview", !.dev = d, !.scr = s].kind
                 # "display"
            BY DEF Idle
        <3> QED
            BY <3>1, <3>2
    <2> QED
        BY <1>8, <2>1, <2>2, <2>3, <2>4, <2>5
<1> QED
    BY <1>3, <1>4, <1>5, <1>6, <1>7, <1>8 DEF AdminStep

(* Everything else leaves the requests alone, or ends them all; and, since *)
(* no device is added, the battery states and the cursors.                 *)
LEMMA TableKeeps ==
    ASSUME TypeInv, Waits,
           \/ \E d \in Devices : \/ DeviceCreate(d) \/ DeviceUpdate(d) \/ DeviceDelete(d)
                                 \/ DeviceFirmware(d) \/ DeviceFirmwareCancel(d)
           \/ \E s \in Screens : ScreenCreate(s) \/ ScreenDelete(s) \/ ScreenUpload(s)
           \/ PlaylistAdmin \/ Maintenance \/ Expire \/ (\E f \in files : Age(f))
           \/ UNCHANGED vars
    PROVE  KeepsRows /\ UNCHANGED req
<1>1. devices \in [Devices -> DeviceRow \union {NULL}]
    BY DEF TypeInv, TypeOK, StoreTypeOK
<1>2. CASE \/ \E s \in Screens : ScreenCreate(s) \/ ScreenDelete(s) \/ ScreenUpload(s)
           \/ Maintenance \/ Expire \/ (\E f \in files : Age(f))
           \/ UNCHANGED vars
    BY <1>2, SameRows DEF ScreenCreate, ScreenDelete, ScreenUpload, Maintenance,
       SweepStart, SweepRemove, SweepEnd, Expire, Age, AgeFile, storeVars, jobVars, vars
<1>3. ASSUME NEW d \in Devices,
             \/ DeviceCreate(d) \/ DeviceUpdate(d) \/ DeviceDelete(d)
             \/ DeviceFirmware(d) \/ DeviceFirmwareCancel(d)
      PROVE  KeepsRows /\ UNCHANGED req
    <2>1. UNCHANGED req /\ ~DeviceCreate(d)
        BY <1>3 DEF DeviceCreate, DeviceUpdate, DeviceDelete, DeviceFirmware,
           DeviceFirmwareCancel, jobVars, Waits
    <2>2. CASE DeviceDelete(d)
        BY <1>1, <2>1, <2>2 DEF DeviceDelete, DeleteDevice, KeepsRows
    <2>3. CASE DeviceUpdate(d)
        <3>1. PICK p \in playlists \union {NULL}, b \in Bundles, show \in ShowChoices :
                  UpdateDeviceSettings(d, p, b, show)
            BY <2>3 DEF DeviceUpdate
        <3> QED
            BY <1>1, <2>1, <3>1 DEF UpdateDeviceSettings, UpdateDevice, KeepsRows, DeviceRow
    <2>4. CASE DeviceFirmware(d)
        <3>1. PICK u \in Urls : QueueFirmwareUpdate(d, u)
            BY <2>4 DEF DeviceFirmware
        <3> QED
            BY <1>1, <2>1, <3>1 DEF QueueFirmwareUpdate, UpdateDevice, KeepsRows, DeviceRow
    <2>5. CASE DeviceFirmwareCancel(d)
        BY <1>1, <2>1, <2>5 DEF DeviceFirmwareCancel, ClearFirmwareUpdate, UpdateDevice,
           KeepsRows, DeviceRow
    <2> QED
        BY <1>3, <2>1, <2>2, <2>3, <2>4, <2>5
<1>4. CASE PlaylistAdmin
    <2>1. UNCHANGED req
        BY <1>4 DEF PlaylistAdmin, PlaylistCreate, PlaylistDelete, PlaylistAddItem,
           PlaylistRemoveItem, jobVars
    <2>2. UNCHANGED devices \/ \E p \in Playlists : DeletePlaylist(p)
        BY <1>4 DEF PlaylistAdmin, PlaylistCreate, PlaylistDelete, PlaylistAddItem,
           PlaylistRemoveItem
    <2>3. ASSUME NEW p \in Playlists, DeletePlaylist(p)
          PROVE  KeepsRows
        BY <1>1, <2>3, NullAssumption DEF DeletePlaylist, KeepsRows, DeviceRow
    <2> QED
        BY <2>1, <2>2, <2>3, SameRows
<1> QED
    BY <1>2, <1>3, <1>4

-----------------------------------------------------------------------------
(* The copy a poll goes on with is up to date. *)

(* A request that moves: the other polls keep what they know when their    *)
(* devices do.                                                             *)
LEMMA GotoWaits ==
    ASSUME TypeInv, WaitInv, NEW r \in Reqs, NEW job, Goto(r, job),
           job.kind = "display" =>
              /\ req[r].kind = "display" /\ job.dev = req[r].dev
              /\ job.pc \notin {"list", "clearscreens"},
           UpToDate(job, devices'),
           \A q \in Reqs \ {r} : req[q].kind = "display" /\ devices'[req[q].dev] # NULL =>
              /\ devices[req[q].dev] # NULL
              /\ devices'[req[q].dev].battery = devices[req[q].dev].battery
    PROVE  WaitInv'
<1>1. \A q \in Reqs : req'[q] = IF q = r THEN job ELSE req[q]
    BY DEF Goto, TypeInv, TypeOK, JobsTypeOK
<1>2. OnePoll'
    BY <1>1 DEF WaitInv, OnePoll
<1>3. \A q \in Reqs : NoRefresh(req'[q])
    BY <1>1 DEF WaitInv, NoRefresh
<1>4. ASSUME NEW q \in Reqs
      PROVE  UpToDate(req'[q], devices')
    <2>1. CASE q = r
        BY <1>1, <2>1 DEF UpToDate
    <2>2. CASE q # r
        BY <1>1, <2>2 DEF UpToDate, WaitInv
    <2> QED
        BY <2>1, <2>2
<1> QED
    BY <1>2, <1>3, <1>4 DEF WaitInv

LEMMA GoesOnWaits ==
    ASSUME TypeInv, WaitInv, NEW r \in Reqs, KeepsRows,
           \E job : Goto(r, job) /\ GoesOn(req[r], job)
    PROVE  WaitInv'
<1>1. PICK job : Goto(r, job) /\ GoesOn(req[r], job)
    OBVIOUS
<1>2. \A q \in Reqs : req[q].kind = "display" => req[q].dev \in Devices
    BY JobAt DEF JobOK
<1>3. UpToDate(job, devices')
    BY <1>1, <1>2 DEF WaitInv, UpToDate, GoesOn, KeepsRows
<1> QED
    BY <1>1, <1>2, <1>3, GotoWaits DEF GoesOn, KeepsRows

LEMMA PollWaits ==
    ASSUME TypeInv, WaitInv, Waits, NEW r \in Reqs, NEW d \in Devices, Poll(r, d)
    PROVE  WaitInv'
<1> DEFINE job == [Idle EXCEPT !.pc = "telemetry", !.kind = "display",
                              !.dev = d, !.row = devices[d]]
<1>1. job.pc = "telemetry" /\ job.kind = "display" /\ job.dev = d
    BY DEF Idle
<1>2. Goto(r, job) /\ UNCHANGED devices
    BY DEF Poll, storeVars
<1>3. \A q \in Reqs : ~(req[q].kind = "display" /\ req[q].dev = d)
    BY DEF Poll, Polling, Waits
<1> HIDE DEF job
<1>4. \A q \in Reqs : req'[q] = IF q = r THEN job ELSE req[q]
    BY <1>2 DEF Goto, TypeInv, TypeOK, JobsTypeOK
<1>5. OnePoll'
    BY <1>1, <1>3, <1>4 DEF WaitInv, OnePoll
<1>6. \A q \in Reqs : NoRefresh(req'[q])
    BY <1>1, <1>4 DEF WaitInv, NoRefresh
<1>7. \A q \in Reqs : UpToDate(req'[q], devices')
    BY <1>1, <1>2, <1>4 DEF WaitInv, UpToDate
<1> QED
    BY <1>5, <1>6, <1>7 DEF WaitInv

LEMMA TelemetryWaits ==
    ASSUME TypeInv, WaitInv, NEW r \in Reqs, Telemetry(r)
    PROVE  WaitInv'
<1> DEFINE job == [req[r] EXCEPT !.pc = "reload"]
<1>1. req[r] \in Job /\ req[r].kind = "display" /\ req[r].dev \in Devices
    BY JobAt DEF Telemetry, JobOK
<1>2. job.pc = "reload" /\ job.kind = "display" /\ job.dev = req[r].dev
    BY <1>1 DEF Job
<1>3. PICK b : UpdateTelemetry(req[r].dev, b) /\ Goto(r, job)
    BY DEF Telemetry
<1>4. \A d \in Devices \ {req[r].dev} : devices'[d] = devices[d]
    BY <1>3 DEF UpdateTelemetry, UpdateDevice, TypeInv, TypeOK, StoreTypeOK
<1>5. \A q \in Reqs \ {r} : req[q].kind = "display" => req[q].dev \in Devices \ {req[r].dev}
    BY <1>1, JobAt DEF JobOK, WaitInv, OnePoll
<1>6. UpToDate(job, devices')
    BY <1>2 DEF UpToDate
<1> HIDE DEF job
<1> QED
    BY <1>1, <1>2, <1>3, <1>4, <1>5, <1>6, GotoWaits

LEMMA ReloadWaits ==
    ASSUME TypeInv, WaitInv, Waits, NEW r \in Reqs, Reload(r)
    PROVE  WaitInv'
<1> DEFINE row == IF devices[req[r].dev] = NULL THEN req[r].row ELSE devices[req[r].dev]
           job == [req[r] EXCEPT !.pc = "pick", !.row = row]
<1>1. req[r] \in Job /\ req[r].kind = "display"
    BY JobAt DEF Reload, JobOK
<1>2. Goto(r, job) /\ UNCHANGED devices
    BY DEF Reload, Waits, storeVars
<1>3. devices[req[r].dev] # NULL => row = devices[req[r].dev]
    OBVIOUS
<1> HIDE DEF row
<1>4. job.pc = "pick" /\ job.kind = "display" /\ job.dev = req[r].dev /\ job.row = row
    BY <1>1 DEF Job
<1> HIDE DEF job
<1>5. UpToDate(job, devices')
    BY <1>2, <1>3, <1>4 DEF UpToDate
<1> QED
    BY <1>1, <1>2, <1>4, <1>5, GotoWaits

LEMMA PickWaits ==
    ASSUME TypeInv, WaitInv, NEW r \in Reqs, Pick(r), req[r].kind = "display"
    PROVE  WaitInv'
<1>1. PICK scr, next :
          Goto(r, [req[r] EXCEPT !.pc = "advance", !.scr = scr, !.next = next])
    BY DEF Pick
<1> DEFINE job == [req[r] EXCEPT !.pc = "advance", !.scr = scr, !.next = next]
<1>2. /\ job.pc = "advance" /\ job.kind = "display" /\ job.dev = req[r].dev
      /\ job.row = req[r].row
    BY JobAt DEF Job
<1>3. Goto(r, job) /\ UNCHANGED devices /\ req[r].pc = "pick"
    BY <1>1 DEF Pick, storeVars
<1> HIDE DEF job
<1>4. UpToDate(job, devices')
    BY <1>2, <1>3 DEF WaitInv, UpToDate
<1> QED
    BY <1>2, <1>3, <1>4, GotoWaits

LEMMA AdvanceWaits ==
    ASSUME TypeInv, WaitInv, Waits, NEW r \in Reqs, Advance(r)
    PROVE  WaitInv'
<1> DEFINE job == [req[r] EXCEPT !.pc = "getscreen", !.next = 0]
<1>1. /\ req[r] \in Job /\ req[r].kind = "display" /\ req[r].pc = "advance"
      /\ \A q \in Reqs : req[q].kind = "display" => req[q].dev \in Devices
    BY JobAt DEF Advance, JobOK
<1>2. job.pc = "getscreen" /\ job.kind = "display" /\ job.dev = req[r].dev /\ job.row = req[r].row
    BY <1>1 DEF Job
<1>3. Goto(r, job) /\ SetPlaylistCursor(req[r].dev, req[r].next)
    BY DEF Advance, Waits
<1>4. \A d \in Devices : devices'[d] # NULL =>
         devices[d] # NULL /\ devices'[d].battery = devices[d].battery
    BY <1>1, <1>3 DEF SetPlaylistCursor, UpdateDevice, TypeInv, TypeOK, StoreTypeOK, DeviceRow
<1> HIDE DEF job
<1>5. UpToDate(job, devices')
    BY <1>1, <1>2, <1>4 DEF WaitInv, UpToDate
<1> QED
    BY <1>1, <1>2, <1>3, <1>4, <1>5, GotoWaits

LEMMA SameWaits ==
    ASSUME TypeInv, WaitInv, KeepsRows, UNCHANGED req
    PROVE  WaitInv'
<1>1. \A q \in Reqs : req[q].kind = "display" => req[q].dev \in Devices
    BY JobAt DEF JobOK
<1> QED
    BY <1>1 DEF WaitInv, OnePoll, NoRefresh, UpToDate, KeepsRows

LEMMA CrashWaits ==
    ASSUME Crash
    PROVE  WaitInv'
<1>1. Idle.kind = "none"
    BY DEF Idle
<1> QED
    BY <1>1 DEF Crash, WaitInv, OnePoll, NoRefresh, UpToDate

(* The steps of the server as the copy of a poll sees them. *)
LEMMA StepsOfPolls ==
    ASSUME TypeInv, WaitInv, Waits, [Next]_vars
    PROVE  \/ \E r \in Reqs, d \in Devices : Poll(r, d)
           \/ \E r \in Reqs : \/ Telemetry(r) \/ Reload(r) \/ Advance(r)
                              \/ Pick(r) /\ req[r].kind = "display"
           \/ \E r \in Reqs :
                 KeepsRows /\ \E job : Goto(r, job) /\ GoesOn(req[r], job)
           \/ KeepsRows /\ UNCHANGED req
           \/ Crash
<1> DEFINE Moves(r) == KeepsRows /\ \E job : Goto(r, job) /\ GoesOn(req[r], job)
<1> HIDE DEF Moves
<1>1. ASSUME NEW r \in Reqs, DisplayStep(r)
      PROVE  \/ Telemetry(r) \/ Reload(r) \/ Advance(r)
             \/ Pick(r) /\ req[r].kind = "display"
             \/ Moves(r)
    <2>1. CASE \/ GetScreen(r) \/ Lookup(r) \/ Compute(r) \/ ComputeFails(r)
               \/ Write(r) \/ WriteFails(r) \/ Record(r)
        BY <2>1, RenderGoesOn DEF Moves
    <2>2. CASE PickNone(r) \/ Respond(r) \/ Clear(r) \/ TelemetryFails(r)
        BY <2>2, AnswerGoesOn DEF Moves
    <2>3. CASE Pick(r) /\ req[r].kind # "display"
        BY <2>3, AdminGoesOn DEF WaitInv, Moves
    <2> QED
        BY <1>1, <2>1, <2>2, <2>3 DEF DisplayStep
<1>2. ASSUME NEW r \in Reqs,
             \/ AdminStep(r)
             \/ SettingsSave(r)
             \/ \E d \in Devices : DeviceForceRefresh(r, d)
             \/ \E s \in Screens : ScreenUpdate(r, s) \/ ScreenPreview(r, s)
      PROVE  Moves(r)
    BY <1>2, AdminGoesOn DEF WaitInv, Moves
<1>3. CASE AdminNext
    <2>1. (\E r \in Reqs : Moves(r)) \/ (KeepsRows /\ UNCHANGED req)
        BY <1>2, <1>3, TableKeeps DEF AdminNext, DeviceAdmin, ScreenAdmin
    <2> QED
        BY <2>1 DEF Moves
<1>4. CASE \E r \in Reqs : DisplayStep(r) \/ AdminStep(r)
    BY <1>1, <1>2, <1>4 DEF Moves
<1> QED
    BY <1>3, <1>4, TableKeeps DEF Next

LEMMA NextWaits ==
    ASSUME TypeInv, WaitInv, Waits, [Next]_vars
    PROVE  WaitInv'
BY StepsOfPolls, PollWaits, TelemetryWaits, ReloadWaits, PickWaits, AdvanceWaits,
   GoesOnWaits, SameWaits, CrashWaits

LEMMA InitWaits == Init => WaitInv
<1>1. Idle.kind = "none"
    BY DEF Idle
<1> QED
    BY <1>1 DEF Init, WaitInv, OnePoll, NoRefresh, UpToDate

(* While a device waits for each answer, its row says what the poll under  *)
(* way goes on with.                                                       *)
THEOREM CopiesUpToDate == Waits => (Spec => []WaitInv)
<1> SUFFICES ASSUME Waits PROVE Spec => []WaitInv
    OBVIOUS
<1>1. TypeInv /\ WaitInv /\ [Next]_vars => WaitInv'
    BY NextWaits
<1> QED
    BY InitWaits, TypeInvariant, <1>1, PTL DEF Spec

(* The indicator in the answer of Display is this poll's telemetry, not    *)
(* the previous one's, for a device that waits for its answers.            *)
THEOREM IndicatorInTime == Waits => (Spec => []NotOnePollBehind)
<1> SUFFICES ASSUME Waits PROVE Spec => []NotOnePollBehind
    OBVIOUS
<1>1. TypeInv /\ CacheInv /\ WaitInv => NotOnePollBehind
    <2> SUFFICES ASSUME TypeInv, CacheInv, WaitInv, NEW r \in Reqs, Answers(r),
                        ShowsBattery(req[r].row), devices[req[r].dev] # NULL
                 PROVE  req[r].img.ind = devices[req[r].dev].battery
        BY DEF NotOnePollBehind
    <2>1. req[r].img.ind = req[r].row.battery
        BY DEF CacheInv, PicturesOK, PictureOK, Indicator, Answers
    <2>2. req[r].kind = "display"
        BY JobAt DEF JobOK, Answers
    <2> QED
        BY <2>1, <2>2 DEF WaitInv, UpToDate, Answers
<1> QED
    BY TypeInvariant, CacheInvariant, CopiesUpToDate, <1>1, PTL

-----------------------------------------------------------------------------
(* The rotation of a playlist that does not change.                        *)

Still ==
    /\ Waits
    /\ Ops \cap {"device.update", "playlist.add", "playlist.remove", "playlist.delete",
                 "screen.delete"} = {}

(* A cursor is within its playlist.                                        *)
CursorInside(d) ==
    devices[d] # NULL /\ devices[d].playlist # NULL =>
        \/ devices[d].cursor = 0
        \/ devices[d].cursor < Cardinality(ListPlaylistItems(devices[d].playlist))

(* A poll that has not yet stored its cursor has the row's.                *)
RotationCopied(j, rows) ==
    j.kind = "display" /\ j.pc \in {"pick", "advance"} /\ rows[j.dev] # NULL
        => j.row.cursor = rows[j.dev].cursor /\ j.row.playlist = rows[j.dev].playlist

(* A poll that is about to store its cursor shows the item it leaves.      *)
ItemChosen(j, rows) ==
    j.pc = "advance" /\ rows[j.dev] # NULL =>
        LET list == ListPlaylistItems(j.row.playlist)
        IN  /\ \E i \in list : IsItemAt(i, list, j.row.cursor) /\ j.scr = i.screen
            /\ j.next = (j.row.cursor + 1) % Cardinality(list)

TurnInv ==
    /\ \A d \in Devices : CursorInside(d)
    /\ \A r \in Reqs : RotationCopied(req[r], devices) /\ ItemChosen(req[r], devices)

-----------------------------------------------------------------------------
(* What no step changes: the playlist of a device, and the items.          *)
KeepsPlaylists ==
    /\ UNCHANGED items
    /\ \A d \in Devices : devices'[d] # NULL =>
          devices[d] # NULL /\ devices'[d].playlist = devices[d].playlist
    /\ "device.delete" \notin Ops =>
          \A d \in Devices : devices[d] # NULL => devices'[d] # NULL

LEMMA StillKeeps ==
    ASSUME TypeInv, Still, [Next]_vars
    PROVE  KeepsPlaylists
<1>1. devices \in [Devices -> DeviceRow \union {NULL}]
    BY DEF TypeInv, TypeOK, StoreTypeOK
<1>2. CASE UNCHANGED <<devices, items>>
    BY <1>2 DEF KeepsPlaylists
<1>3. ASSUME NEW d \in Devices, NEW row,
             UNCHANGED items, UpdateDevice(d, row),
             devices[d] # NULL => row \in DeviceRow /\ row.playlist = devices[d].playlist
      PROVE  KeepsPlaylists
    BY <1>1, <1>3, NullAssumption DEF UpdateDevice, KeepsPlaylists
<1>4. ASSUME NEW r \in Reqs, DisplayStep(r) \/ AdminStep(r)
      PROVE  KeepsPlaylists
    <2>1. /\ req[r].pc \in {"telemetry", "advance", "clear"} => req[r].dev \in Devices
          /\ req[r].next \in Nat
        BY JobAt DEF JobOK, Job
    <2>2. CASE Telemetry(r)
        <3>1. PICK b \in Batteries \union {NULL} : UpdateTelemetry(req[r].dev, b)
            BY <2>2 DEF Telemetry
        <3> DEFINE row == [devices[req[r].dev] EXCEPT !.battery = IF b = NULL THEN @ ELSE b]
        <3>2. /\ req[r].dev \in Devices /\ UNCHANGED items /\ UpdateDevice(req[r].dev, row)
              /\ devices[req[r].dev] # NULL =>
                    row \in DeviceRow /\ row.playlist = devices[req[r].dev].playlist
            BY <1>1, <2>1, <2>2, <3>1 DEF Telemetry, UpdateTelemetry, DeviceRow
        <3> HIDE DEF row
        <3> QED
            BY <1>3, <3>2
    <2>3. CASE Advance(r)
        <3> DEFINE row == [devices[req[r].dev] EXCEPT !.cursor = req[r].next]
        <3>1. /\ req[r].dev \in Devices /\ UNCHANGED items /\ UpdateDevice(req[r].dev, row)
              /\ devices[req[r].dev] # NULL =>
                    row \in DeviceRow /\ row.playlist = devices[req[r].dev].playlist
            BY <1>1, <2>1, <2>3 DEF Advance, SetPlaylistCursor, DeviceRow, Still, Waits
        <3> HIDE DEF row
        <3> QED
            BY <1>3, <3>1
    <2>4. CASE Clear(r)
        <3> DEFINE row == [devices[req[r].dev] EXCEPT !.firmware = FALSE]
        <3>1. /\ req[r].dev \in Devices /\ UNCHANGED items /\ UpdateDevice(req[r].dev, row)
              /\ devices[req[r].dev] # NULL =>
                    row \in DeviceRow /\ row.playlist = devices[req[r].dev].playlist
            BY <1>1, <2>1, <2>4 DEF Clear, ClearFirmwareUpdate, DeviceRow, Still, Waits
        <3> HIDE DEF row
        <3> QED
            BY <1>3, <3>1
    <2>5. CASE \/ TelemetryFails(r) \/ Reload(r) \/ Pick(r) \/ PickNone(r) \/ GetScreen(r)
               \/ Lookup(r) \/ Compute(r) \/ ComputeFails(r) \/ Write(r) \/ WriteFails(r)
               \/ Record(r) \/ Respond(r) \/ AdminStep(r)
        <3>1. UNCHANGED <<devices, items>>
            BY <2>5 DEF TelemetryFails, Reload, Pick, PickNone, GetScreen, Lookup, Compute,
               ComputeFails, Write, WriteFails, Record, Respond, AdminStep, RefreshList,
               RefreshClearScreen, RefreshClearDevice, ScreenUpdateDither, PreviewDevice,
               SettingsSaveFonts, storeVars
        <3> QED
            BY <1>2, <3>1
    <2> QED
        BY <1>4, <2>2, <2>3, <2>4, <2>5 DEF DisplayStep
<1>5. ASSUME NEW d \in Devices, DeviceAdmin(d)
      PROVE  KeepsPlaylists
    <2>1. CASE DeviceFirmware(d)
        <3>1. PICK u \in Urls : QueueFirmwareUpdate(d, u)
            BY <2>1 DEF DeviceFirmware
        <3> QED
            BY <1>1, <1>3, <2>1, <3>1 DEF DeviceFirmware, QueueFirmwareUpdate, DeviceRow
    <2>2. CASE DeviceFirmwareCancel(d)
        BY <1>1, <1>3, <2>2 DEF DeviceFirmwareCancel, ClearFirmwareUpdate, DeviceRow
    <2>3. CASE DeviceDelete(d)
        BY <1>1, <2>3 DEF DeviceDelete, DeleteDevice, KeepsPlaylists
    <2>4. CASE \E r \in Reqs : DeviceForceRefresh(r, d)
        BY <1>2, <2>4 DEF DeviceForceRefresh, storeVars
    <2>5. ~DeviceCreate(d) /\ ~DeviceUpdate(d)
        BY DEF DeviceCreate, DeviceUpdate, Still, Waits
    <2> QED
        BY <1>5, <2>1, <2>2, <2>3, <2>4, <2>5 DEF DeviceAdmin
<1>6. ASSUME NEW s \in Screens, ScreenAdmin(s)
      PROVE  KeepsPlaylists
    BY <1>2, <1>6 DEF ScreenAdmin, ScreenCreate, ScreenDelete, ScreenUpload, ScreenUpdate,
       ScreenPreview, storeVars, Still
<1>7. CASE PlaylistAdmin
    BY <1>2, <1>7 DEF PlaylistAdmin, PlaylistCreate, PlaylistDelete, PlaylistAddItem,
       PlaylistRemoveItem, Still
<1>8. CASE \/ \E r \in Reqs, d \in Devices : Poll(r, d)
           \/ \E r \in Reqs : SettingsSave(r)
           \/ Maintenance \/ Expire \/ (\E f \in files : Age(f))
           \/ Crash \/ UNCHANGED vars
    BY <1>2, <1>8 DEF Poll, SettingsSave, Maintenance, SweepStart, SweepRemove, SweepEnd,
       Expire, Age, AgeFile, Crash, storeVars, vars
<1> QED
    BY <1>4, <1>5, <1>6, <1>7, <1>8 DEF Next, AdminNext

(* A cursor moves only when a poll of its device stores one. *)
LEMMA CursorMoves ==
    ASSUME TypeInv, WaitInv, Waits, [Next]_vars, NEW d \in Devices, devices'[d] # NULL
    PROVE  \/ devices[d] # NULL /\ devices'[d].cursor = devices[d].cursor
           \/ \E r \in Reqs :
                 /\ Advance(r) /\ req[r].dev = d
                 /\ devices[d] # NULL /\ devices'[d].cursor = req[r].next
<1>1. devices \in [Devices -> DeviceRow \union {NULL}]
    BY DEF TypeInv, TypeOK, StoreTypeOK
<1>2. CASE KeepsRows
    BY <1>2 DEF KeepsRows
<1>3. CASE UNCHANGED devices
    BY <1>3
<1>4. ASSUME NEW r \in Reqs, Telemetry(r)
      PROVE  devices[d] # NULL /\ devices'[d].cursor = devices[d].cursor
    <2>1. req[r].dev \in Devices
        BY <1>4, JobAt DEF Telemetry, JobOK
    <2>2. PICK b : UpdateTelemetry(req[r].dev, b)
        BY <1>4 DEF Telemetry
    <2> QED
        BY <1>1, <2>1, <2>2 DEF UpdateTelemetry, UpdateDevice, DeviceRow
<1>5. ASSUME NEW r \in Reqs, Advance(r)
      PROVE  \/ devices[d] # NULL /\ devices'[d].cursor = devices[d].cursor
             \/ /\ Advance(r) /\ req[r].dev = d
                /\ devices[d] # NULL /\ devices'[d].cursor = req[r].next
    <2>1. req[r].dev \in Devices /\ SetPlaylistCursor(req[r].dev, req[r].next)
        BY <1>5, JobAt DEF Advance, JobOK, Waits
    <2> QED
        BY <1>1, <1>5, <2>1 DEF SetPlaylistCursor, UpdateDevice, DeviceRow
<1>6. CASE \/ \E r \in Reqs, e \in Devices : Poll(r, e)
           \/ \E r \in Reqs : Reload(r) \/ Pick(r)
           \/ Crash
    BY <1>3, <1>6 DEF Poll, Reload, Pick, Crash, storeVars
<1> QED
    BY <1>2, <1>4, <1>5, <1>6, StepsOfPolls

(* The steps of a request, as the rotation sees them. *)
LEMMA RequestMoves ==
    ASSUME TypeInv, WaitInv, Waits, [Next]_vars, NEW q \in Reqs
    PROVE  \/ req'[q] = req[q]
           \/ req'[q].kind # "display"
           \/ req'[q].pc \notin {"pick", "advance"}
           \/ Reload(q)
           \/ Pick(q) /\ req[q].kind = "display"
<1>1. ASSUME NEW r \in Reqs, NEW job, Goto(r, job)
      PROVE  \A p \in Reqs : req'[p] = IF p = r THEN job ELSE req[p]
    BY <1>1 DEF Goto, TypeInv, TypeOK, JobsTypeOK
<1>2. ASSUME NEW r \in Reqs, NEW job, Goto(r, job), GoesOn(req[r], job)
      PROVE  \/ req'[q] = req[q]
             \/ req'[q].kind # "display"
             \/ req'[q].pc \notin {"pick", "advance"}
    BY <1>1, <1>2 DEF GoesOn
<1>3. ASSUME NEW r \in Reqs, NEW d \in Devices, Poll(r, d)
      PROVE  req'[q] = req[q] \/ req'[q].pc \notin {"pick", "advance"}
    <2> DEFINE job == [Idle EXCEPT !.pc = "telemetry", !.kind = "display",
                                  !.dev = d, !.row = devices[d]]
    <2>1. Goto(r, job) /\ job.pc = "telemetry"
        BY <1>3 DEF Poll, Idle
    <2> HIDE DEF job
    <2> QED
        BY <1>1, <2>1
<1>4. ASSUME NEW r \in Reqs, Telemetry(r)
      PROVE  req'[q] = req[q] \/ req'[q].pc \notin {"pick", "advance"}
    <2> DEFINE job == [req[r] EXCEPT !.pc = "reload"]
    <2>1. Goto(r, job) /\ job.pc = "reload"
        BY <1>4, JobAt DEF Telemetry, Job
    <2> HIDE DEF job
    <2> QED
        BY <1>1, <2>1
<1>5. ASSUME NEW r \in Reqs, Advance(r)
      PROVE  req'[q] = req[q] \/ req'[q].pc \notin {"pick", "advance"}
    <2> DEFINE job == [req[r] EXCEPT !.pc = "getscreen", !.next = 0]
    <2>1. Goto(r, job) /\ job.pc = "getscreen"
        BY <1>5, JobAt DEF Advance, Job
    <2> HIDE DEF job
    <2> QED
        BY <1>1, <2>1
<1>6. ASSUME NEW r \in Reqs, Reload(r) \/ Pick(r), r # q
      PROVE  req'[q] = req[q]
    BY <1>6 DEF Reload, Pick, Goto, TypeInv, TypeOK, JobsTypeOK
<1>7. CASE Crash
    BY <1>7 DEF Crash, Idle
<1>8. CASE UNCHANGED req
    BY <1>8
<1> QED
    BY <1>2, <1>3, <1>4, <1>5, <1>6, <1>7, <1>8, StepsOfPolls

LEMMA ListsFinite ==
    ASSUME TypeInv, NEW p
    PROVE  /\ IsFiniteSet(ListPlaylistItems(p))
           /\ Cardinality(ListPlaylistItems(p)) \in Nat
           /\ ListPlaylistItems(p) # {} => Cardinality(ListPlaylistItems(p)) > 0
<1> DEFINE list == ListPlaylistItems(p)
<1>1. list \in SUBSET ItemRow
    BY DEF ListPlaylistItems, TypeInv, TypeOK, StoreTypeOK
<1> HIDE DEF list
<1>2. IsFiniteSet(list)
    BY <1>1, ItemsFinite
<1>3. Cardinality(list) \in Nat /\ (Cardinality(list) = 0 <=> list = {})
    BY <1>2, FS_CardinalityType, FS_EmptySet
<1> QED
    BY <1>2, <1>3 DEF list

LEMMA ModWithin ==
    ASSUME NEW c \in Nat, NEW n \in Nat, c < n
    PROVE  c % n = c /\ (c + 1) % n \in Nat /\ (c + 1) % n < n
OBVIOUS

(* A poll chooses the item its device's cursor is at, and the next cursor. *)
LEMMA PickChooses ==
    ASSUME TypeInv, WaitInv, TurnInv, NEW r \in Reqs, Pick(r), req[r].kind = "display"
    PROVE  RotationCopied(req'[r], devices') /\ ItemChosen(req'[r], devices')
<1> DEFINE list == ListPlaylistItems(req[r].row.playlist)
           n    == Cardinality(list)
           c    == req[r].row.cursor
           next == ((c % n) + 1) % n
<1>1. /\ req[r] \in Job /\ req[r].dev \in Devices /\ req[r].row \in DeviceRow
      /\ req[r].pc = "pick" /\ UNCHANGED <<devices, items>>
      /\ list # {} /\ req[r].row.playlist # NULL
    BY JobAt DEF Pick, JobOK, storeVars
<1>2. n \in Nat /\ n > 0 /\ c \in Nat
    BY <1>1, ListsFinite DEF DeviceRow
<1>3. devices[req[r].dev] # NULL => c < n
    <2> SUFFICES ASSUME devices[req[r].dev] # NULL PROVE c < n
        OBVIOUS
    <2>1. /\ c = devices[req[r].dev].cursor
          /\ req[r].row.playlist = devices[req[r].dev].playlist
        BY <1>1 DEF TurnInv, RotationCopied
    <2> QED
        BY <1>1, <1>2, <2>1 DEF TurnInv, CursorInside
<1>4. PICK i \in list :
          /\ IsItemAt(i, list, c % n)
          /\ Goto(r, [req[r] EXCEPT !.pc = "advance", !.scr = i.screen, !.next = next])
    BY DEF Pick
<1>5. devices[req[r].dev] # NULL => c % n = c /\ next = (c + 1) % n
    BY <1>2, <1>3, ModWithin
<1> DEFINE job == [req[r] EXCEPT !.pc = "advance", !.scr = i.screen, !.next = next]
<1> HIDE DEF list, n, c, next
<1>6. /\ job.pc = "advance" /\ job.kind = "display" /\ job.dev = req[r].dev
      /\ job.row = req[r].row /\ job.scr = i.screen /\ job.next = next
    BY <1>1 DEF Job
<1>7. req'[r] = job
    BY <1>4 DEF Goto, TypeInv, TypeOK, JobsTypeOK
<1> HIDE DEF job
<1>8. RotationCopied(req'[r], devices')
    BY <1>1, <1>6, <1>7 DEF TurnInv, RotationCopied
<1>9. ItemChosen(req'[r], devices')
    BY <1>1, <1>4, <1>5, <1>6, <1>7 DEF ItemChosen, list, n, c
<1> QED
    BY <1>8, <1>9

LEMMA NextTurn ==
    ASSUME TypeInv, WaitInv, TurnInv, Still, [Next]_vars
    PROVE  TurnInv'
<1>1. KeepsPlaylists /\ Waits
    BY StillKeeps DEF Still
<1>2. \A p : ListPlaylistItems(p)' = ListPlaylistItems(p)
    BY <1>1 DEF KeepsPlaylists, ListPlaylistItems
<1>3. ASSUME NEW d \in Devices
      PROVE  CursorInside(d)'
    <2> SUFFICES ASSUME devices'[d] # NULL, devices'[d].playlist # NULL
                 PROVE  \/ devices'[d].cursor = 0
                        \/ devices'[d].cursor <
                              Cardinality(ListPlaylistItems(devices'[d].playlist))
        BY <1>1 DEF CursorInside, ListPlaylistItems, KeepsPlaylists
    <2>1. devices[d] # NULL /\ devices'[d].playlist = devices[d].playlist
        BY <1>1 DEF KeepsPlaylists
    <2>2. CASE devices'[d].cursor = devices[d].cursor
        BY <2>1, <2>2 DEF TurnInv, CursorInside
    <2>3. ASSUME NEW r \in Reqs, Advance(r), req[r].dev = d,
                 devices'[d].cursor = req[r].next
          PROVE  devices'[d].cursor <
                    Cardinality(ListPlaylistItems(devices'[d].playlist))
        <3> DEFINE list == ListPlaylistItems(devices[d].playlist)
        <3>1. req[r].pc = "advance" /\ req[r].kind = "display"
            BY <2>3, JobAt DEF Advance, JobOK
        <3>2. /\ req[r].row.cursor = devices[d].cursor
              /\ req[r].row.playlist = devices[d].playlist
              /\ list # {} /\ req[r].next = (req[r].row.cursor + 1) % Cardinality(list)
            BY <2>1, <2>3, <3>1 DEF TurnInv, RotationCopied, ItemChosen
        <3>3. Cardinality(list) \in Nat /\ Cardinality(list) > 0
            BY <3>2, ListsFinite
        <3>4. devices[d].cursor \in Nat
            BY <2>1 DEF TypeInv, TypeOK, StoreTypeOK, DeviceRow
        <3>5. devices[d].cursor < Cardinality(list)
            BY <2>1, <3>3 DEF TurnInv, CursorInside
        <3> HIDE DEF list
        <3>6. req[r].next < Cardinality(list)
            BY <3>2, <3>3, <3>4, <3>5, ModWithin
        <3> QED
            BY <2>1, <2>3, <3>6 DEF list
    <2> QED
        BY <1>1, <2>2, <2>3, CursorMoves
<1>4. ASSUME NEW q \in Reqs
      PROVE  RotationCopied(req'[q], devices') /\ ItemChosen(req'[q], devices')
    <2>1. CASE \/ req'[q].kind # "display"
               \/ req'[q].pc \notin {"pick", "advance"}
        <3>1. req'[q].pc = "advance" => req'[q].kind = "display"
            <4>1. TypeInv'
                BY NextType
            <4> QED
                BY <4>1 DEF TypeInv, JobOK
        <3> QED
            BY <2>1, <3>1 DEF RotationCopied, ItemChosen
    <2>2. CASE Pick(q) /\ req[q].kind = "display"
        BY <2>2, PickChooses
    <2>3. CASE Reload(q)
        <3> DEFINE row == IF devices[req[q].dev] = NULL THEN req[q].row
                                                        ELSE devices[req[q].dev]
                   job == [req[q] EXCEPT !.pc = "pick", !.row = row]
        <3>1. req[q] \in Job /\ req'[q] = job /\ UNCHANGED devices
            BY <1>1, <2>3, JobAt DEF Reload, Waits, storeVars, Goto, TypeInv, TypeOK,
               JobsTypeOK
        <3>2. devices[req[q].dev] # NULL => row = devices[req[q].dev]
            OBVIOUS
        <3> HIDE DEF row
        <3>3. job.pc = "pick" /\ job.dev = req[q].dev /\ job.row = row
            BY <3>1 DEF Job
        <3> HIDE DEF job
        <3> QED
            BY <3>1, <3>2, <3>3 DEF RotationCopied, ItemChosen
    <2>4. CASE /\ req'[q] = req[q]
               /\ req[q].kind = "display" /\ req[q].pc \in {"pick", "advance"}
        <3>1. req[q].dev \in Devices
            BY <2>4, JobAt DEF JobOK
        <3>2. ~Advance(q)
            <4>1. ASSUME Advance(q) PROVE req'[q].pc = "getscreen"
                BY <4>1, JobAt DEF Advance, Goto, TypeInv, TypeOK, JobsTypeOK, Job
            <4>2. ASSUME Advance(q) PROVE req[q].pc = "advance"
                BY <4>2 DEF Advance
            <4> QED
                BY <2>4, <4>1, <4>2
        <3>3. \A r \in Reqs : Advance(r) /\ req[r].dev = req[q].dev => r = q
            BY <2>4, JobAt DEF Advance, JobOK, WaitInv, OnePoll
        <3>4. devices'[req[q].dev] # NULL =>
                 /\ devices[req[q].dev] # NULL
                 /\ devices'[req[q].dev].cursor = devices[req[q].dev].cursor
                 /\ devices'[req[q].dev].playlist = devices[req[q].dev].playlist
            BY <1>1, <3>1, <3>2, <3>3, CursorMoves DEF KeepsPlaylists
        <3> QED
            BY <2>4, <3>4 DEF TurnInv, RotationCopied, ItemChosen
    <2> QED
        BY <1>1, <2>1, <2>2, <2>3, <2>4, RequestMoves
<1>5. \A q \in Reqs : RotationCopied(req[q], devices)'
    BY <1>4 DEF RotationCopied
<1>6. \A q \in Reqs : ItemChosen(req[q], devices)'
    BY <1>1, <1>4 DEF ItemChosen, ListPlaylistItems, KeepsPlaylists
<1> QED
    BY <1>3, <1>5, <1>6 DEF TurnInv

LEMMA InitTurn == Init => TurnInv
<1> SUFFICES ASSUME Init PROVE TurnInv
    OBVIOUS
<1>1. ASSUME NEW d \in Devices
      PROVE  CursorInside(d)
    <2>1. PICK p \in Playlists, b \in Bundles, show \in ShowChoices :
              devices[d] = ConfiguredDevice(p, b, show)
        BY DEF Init
    <2>2. devices[d].cursor = 0
        BY <2>1 DEF ConfiguredDevice, NewDevice
    <2> QED
        BY <2>2 DEF CursorInside
<1>2. \A r \in Reqs : req[r].pc = "idle"
    BY DEF Init, Idle
<1> QED
    BY <1>1, <1>2 DEF TurnInv, RotationCopied, ItemChosen

(* A poll under way has the rotation of its device's row, and the item it  *)
(* shows is the one the cursor leaves.                                     *)
THEOREM TurnsCopied == Still => (Spec => []TurnInv)
<1> SUFFICES ASSUME Still PROVE Spec => []TurnInv
    OBVIOUS
<1>1. TypeInv /\ WaitInv /\ TurnInv /\ [Next]_vars => TurnInv'
    BY NextTurn
<1>2. Spec => []WaitInv
    BY CopiesUpToDate DEF Still
<1> QED
    BY InitTurn, TypeInvariant, <1>1, <1>2, PTL DEF Spec

(* NextScreen skips no item and repeats none, for any number of devices    *)
(* that wait for their answers, screens, and requests of other kinds.      *)
THEOREM RotationGoesOn == Still => (Spec => RotationInOrder)
<1> SUFFICES ASSUME Still PROVE Spec => RotationInOrder
    OBVIOUS
<1>1. TypeInv /\ WaitInv /\ TurnInv /\ [Next]_vars
         => [\A d \in Devices : MovesInTurn(d)]_devices
    <2> SUFFICES ASSUME TypeInv, WaitInv, TurnInv, [Next]_vars, NEW d \in Devices,
                        devices[d] # NULL, devices'[d] # NULL,
                        devices'[d].cursor # devices[d].cursor
                 PROVE  MovesInTurn(d)
        BY DEF MovesInTurn
    <2>1. PICK r \in Reqs : /\ Advance(r) /\ req[r].dev = d
                            /\ devices'[d].cursor = req[r].next
        BY CursorMoves DEF Still
    <2>2. req[r] \in Job /\ req[r].pc = "advance" /\ req[r].kind = "display"
        BY <2>1, JobAt DEF Advance, JobOK
    <2>3. req'[r].pc = "getscreen"
        BY <2>1, <2>2 DEF Advance, Goto, TypeInv, TypeOK, JobsTypeOK, Job
    <2>4. /\ req[r].row.cursor = devices[d].cursor
          /\ req[r].row.playlist = devices[d].playlist
        BY <2>1, <2>2 DEF TurnInv, RotationCopied
    <2>5. ItemChosen(req[r], devices)
        BY DEF TurnInv
    <2> QED
        BY <2>1, <2>2, <2>3, <2>4, <2>5 DEF ItemChosen, MovesInTurn
<1>2. Spec => []WaitInv
    BY CopiesUpToDate DEF Still
<1> QED
    BY <1>1, <1>2, TurnsCopied, TypeInvariant, PTL DEF Spec, RotationInOrder

-----------------------------------------------------------------------------
(* The refinement of RoundRobin.                                           *)

(* One playlist, which every device keeps, with positions from 0 on; no    *)
(* device is deleted, and the process does not crash.                      *)
OneRotation ==
    /\ Still
    /\ "device.delete" \notin Ops /\ "crash" \notin Ops
    /\ \E p : Playlists = {p}
    /\ {i.pos : i \in InitItems} = 0..(Cardinality(InitItems) - 1)

RotationInv ==
    /\ items = InitItems
    /\ \A d \in Devices : devices[d] # NULL /\ devices[d].playlist \in Playlists

LEMMA InitRotation == Init => RotationInv
<1> SUFFICES ASSUME Init PROVE RotationInv
    OBVIOUS
<1>1. ASSUME NEW d \in Devices
      PROVE  devices[d] # NULL /\ devices[d].playlist \in Playlists
    <2>1. PICK p \in Playlists, b \in Bundles, show \in ShowChoices :
              devices[d] = ConfiguredDevice(p, b, show)
        BY DEF Init
    <2>2. devices[d].playlist = p
        BY <2>1 DEF ConfiguredDevice, NewDevice
    <2>3. ConfiguredDevice(p, b, show) \in DeviceRow
        BY NewRowsType, AdminAssumption DEF ConfiguredDevice, DeviceRow
    <2> QED
        BY <2>1, <2>2, <2>3, NullAssumption
<1> QED
    BY <1>1 DEF Init, RotationInv

LEMMA NextRotation ==
    ASSUME TypeInv, RotationInv, OneRotation, [Next]_vars
    PROVE  RotationInv'
BY StillKeeps DEF OneRotation, RotationInv, KeepsPlaylists

-----------------------------------------------------------------------------
(* The item at index k is the item at position k. *)
LEMMA PositionIsIndex ==
    ASSUME OneRotation, NEW i \in InitItems, NEW k, IsItemAt(i, InitItems, k)
    PROVE  /\ k \in 0..(Cardinality(InitItems) - 1)
           /\ (CHOOSE j \in InitItems : j.pos = k) = i
<1> DEFINE before == {j \in InitItems : j.pos < i.pos}
           f == [j \in before |-> j.pos]
           last == Cardinality(InitItems) - 1
<1>1. InitItems \in SUBSET ItemRow /\ IsFiniteSet(InitItems)
    BY TrmnlAssumption, ItemsFinite
<1>2. /\ \A j \in InitItems : j.pos \in Nat /\ j.pos \in 0..last
      /\ \A n \in 0..last : \E j \in InitItems : j.pos = n
      /\ last \in Int
    <2>1. \A j \in InitItems : j.pos \in Nat
        BY <1>1, StoreAssumption DEF ItemRow
    <2>2. last \in Int
        BY <1>1, FS_CardinalityType
    <2>3. {j.pos : j \in InitItems} = 0..last
        BY DEF OneRotation
    <2> HIDE DEF last
    <2> QED
        BY <2>1, <2>2, <2>3
<1>3. \A j, m \in InitItems : j.pos = m.pos => j = m
    BY <1>1, TrmnlAssumption DEF OneRotation, ItemRow
<1> HIDE DEF last
<1>4. IsFiniteSet(before)
    BY <1>1, FS_Subset
<1>5. f \in Bijection(before, 0..(i.pos - 1))
    <2>1. f \in [before -> 0..(i.pos - 1)]
        BY <1>2
    <2>2. ASSUME NEW n \in 0..(i.pos - 1)
          PROVE  \E j \in before : f[j] = n
        <3>1. n \in 0..last /\ n < i.pos
            BY <1>2
        <3>2. PICK j \in InitItems : j.pos = n
            BY <1>2, <3>1
        <3> QED
            BY <3>1, <3>2
    <2>3. \A j, m \in before : f[j] = f[m] => j = m
        BY <1>3
    <2> QED
        BY <2>1, <2>2, <2>3 DEF Bijection, Injection, Surjection, IsInjective
<1>6. Cardinality(before) = i.pos
    <2>1. Cardinality(0..(i.pos - 1)) = Cardinality(before)
        BY <1>4, <1>5, FS_Bijection DEF ExistsBijection
    <2>2. Cardinality(0..(i.pos - 1)) = i.pos
        BY <1>2, FS_Interval
    <2> QED
        BY <2>1, <2>2
<1>7. i.pos = k
    BY <1>6 DEF IsItemAt
<1> QED
    BY <1>2, <1>3, <1>7 DEF last

-----------------------------------------------------------------------------
(* What the mapping makes of the requests and of the devices. *)
Under(jobs, d) ==
    {r \in Reqs : /\ jobs[r].kind = "display" /\ jobs[r].dev = d
                  /\ jobs[r].pc \in {"getscreen", "lookup", "compute", "write",
                                     "record", "respond"}}

Showing(jobs) ==
    [d \in Devices |-> IF Under(jobs, d) = {} THEN NULL
                       ELSE jobs[CHOOSE r \in Under(jobs, d) : TRUE].scr]

Turns(rows) == [d \in Devices |-> rows[d].cursor]

(* A device is shown what its only poll shows. *)
LEMMA ShowingAt ==
    ASSUME NEW jobs, NEW d \in Devices, NEW r \in Reqs,
           jobs[r].kind = "display", jobs[r].dev = d,
           \A q \in Reqs : jobs[q].kind = "display" /\ jobs[q].dev = d => q = r
    PROVE  Showing(jobs)[d] = Shown(jobs[r])
<1>1. Under(jobs, d) \subseteq {r}
    BY DEF Under
<1>2. CASE r \in Under(jobs, d)
    <2>1. (CHOOSE q \in Under(jobs, d) : TRUE) = r
        BY <1>1, <1>2
    <2> QED
        BY <1>2, <2>1 DEF Showing, Shown, Under
<1>3. CASE r \notin Under(jobs, d)
    BY <1>1, <1>3 DEF Showing, Shown, Under
<1> QED
    BY <1>2, <1>3

LEMMA ShowingNothing ==
    ASSUME NEW jobs, NEW d \in Devices,
           \A q \in Reqs : ~(jobs[q].kind = "display" /\ jobs[q].dev = d)
    PROVE  Showing(jobs)[d] = NULL
BY DEF Showing, Under

(* A request that moves changes what its own device is shown, at most. *)
LEMMA ShowingElsewhere ==
    ASSUME NEW jobs, NEW new, NEW r \in Reqs, NEW d \in Devices,
           \A q \in Reqs \ {r} : new[q] = jobs[q],
           ~(jobs[r].kind = "display" /\ jobs[r].dev = d),
           ~(new[r].kind = "display" /\ new[r].dev = d)
    PROVE  Showing(new)[d] = Showing(jobs)[d]
<1>1. Under(new, d) = Under(jobs, d)
    BY DEF Under
<1>2. \A q \in Under(jobs, d) : new[q] = jobs[q]
    BY DEF Under
<1>3. CASE Under(jobs, d) = {}
    BY <1>1, <1>3 DEF Showing
<1>4. CASE Under(jobs, d) # {}
    <2>1. (CHOOSE q \in Under(jobs, d) : TRUE) \in Under(jobs, d)
        BY <1>4
    <2> QED
        BY <1>1, <1>2, <1>4, <2>1 DEF Showing
<1> QED
    BY <1>3, <1>4

-----------------------------------------------------------------------------
(* A step of the server, as the devices see it. *)
Stutters ==
    /\ \A d \in Devices : Showing(req')[d] = Showing(req)[d]
    /\ \A d \in Devices : devices'[d].cursor = devices[d].cursor

EndsAnswer(d) ==
    /\ Showing(req)[d] # NULL /\ Showing(req')[d] = NULL
    /\ \A e \in Devices \ {d} : Showing(req')[e] = Showing(req)[e]
    /\ \A e \in Devices : devices'[e].cursor = devices[e].cursor

Shows(d) ==
    /\ Showing(req)[d] = NULL
    /\ \E i \in InitItems : /\ IsItemAt(i, InitItems, devices[d].cursor)
                            /\ Showing(req')[d] = i.screen
    /\ devices'[d].cursor = (devices[d].cursor + 1) % Cardinality(InitItems)
    /\ \A e \in Devices \ {d} : /\ Showing(req')[e] = Showing(req)[e]
                                /\ devices'[e].cursor = devices[e].cursor

(* The step of one request, which is or becomes a poll of one device.      *)
LEMMA PollShows ==
    ASSUME TypeInv, WaitInv, WaitInv', NEW r \in Reqs, NEW job, Goto(r, job),
           NEW d \in Devices,
           req[r].kind = "display" /\ req[r].dev = d,
           job.kind = "display" => job.dev = d
    PROVE  /\ Showing(req)[d] = Shown(req[r])
           /\ Showing(req')[d] = Shown(job)
           /\ \A e \in Devices \ {d} : Showing(req')[e] = Showing(req)[e]
<1>1. req'[r] = job /\ \A q \in Reqs \ {r} : req'[q] = req[q]
    BY DEF Goto, TypeInv, TypeOK, JobsTypeOK
<1>2. \A q \in Reqs : req[q].kind = "display" /\ req[q].dev = d => q = r
    BY DEF WaitInv, OnePoll
<1>3. Showing(req)[d] = Shown(req[r])
    BY <1>2, ShowingAt
<1>4. Showing(req')[d] = Shown(job)
    <2>1. CASE job.kind = "display"
        <3>1. \A q \in Reqs : req'[q].kind = "display" /\ req'[q].dev = d => q = r
            BY <1>1, <1>2
        <3> QED
            BY <1>1, <2>1, <3>1, ShowingAt
    <2>2. CASE job.kind # "display"
        <3>1. \A q \in Reqs : ~(req'[q].kind = "display" /\ req'[q].dev = d)
            BY <1>1, <1>2, <2>2
        <3> QED
            BY <2>2, <3>1, ShowingNothing DEF Shown
    <2> QED
        BY <2>1, <2>2
<1>5. ASSUME NEW e \in Devices \ {d}
      PROVE  Showing(req')[e] = Showing(req)[e]
    <2>1. /\ ~(req[r].kind = "display" /\ req[r].dev = e)
          /\ ~(req'[r].kind = "display" /\ req'[r].dev = e)
          /\ \A q \in Reqs \ {r} : req'[q] = req[q]
        BY <1>1
    <2> QED
        BY <2>1, ShowingElsewhere
<1> QED
    BY <1>3, <1>4, <1>5

LEMMA SameCursors ==
    ASSUME RotationInv', KeepsRows
    PROVE  \A d \in Devices : devices'[d].cursor = devices[d].cursor
BY DEF RotationInv, KeepsRows

(* Most steps stutter, or end the answer under way. *)
LEMMA GoesOnRefines ==
    ASSUME TypeInv, WaitInv, WaitInv', RotationInv', NEW r \in Reqs, KeepsRows,
           \E job : Goto(r, job) /\ GoesOn(req[r], job)
    PROVE  Stutters \/ \E d \in Devices : EndsAnswer(d)
<1>1. PICK job : Goto(r, job) /\ GoesOn(req[r], job)
    OBVIOUS
<1>2. CASE req[r].kind = "display"
    <2> DEFINE d == req[r].dev
    <2>1. d \in Devices
        BY <1>2, JobAt DEF JobOK
    <2>2. /\ Showing(req)[d] = Shown(req[r])
          /\ Showing(req')[d] = Shown(job)
          /\ \A e \in Devices \ {d} : Showing(req')[e] = Showing(req)[e]
        <3>1. job.kind = "display" => job.dev = d
            BY <1>1 DEF GoesOn
        <3> HIDE DEF d
        <3>2. req[r].dev = d
            BY DEF d
        <3> QED
            BY <1>1, <1>2, <2>1, <3>1, <3>2, PollShows
    <2>3. Shown(job) = Shown(req[r]) \/ Shown(job) = NULL
        BY <1>1 DEF GoesOn
    <2> QED
        BY <2>1, <2>2, <2>3, SameCursors DEF Stutters, EndsAnswer
<1>3. CASE req[r].kind # "display"
    <2>1. req'[r] = job /\ job.kind # "display" /\ \A q \in Reqs \ {r} : req'[q] = req[q]
        BY <1>1, <1>3 DEF GoesOn, Goto, TypeInv, TypeOK, JobsTypeOK
    <2>2. ASSUME NEW d \in Devices
          PROVE  Showing(req')[d] = Showing(req)[d]
        <3>1. /\ ~(req[r].kind = "display" /\ req[r].dev = d)
              /\ ~(req'[r].kind = "display" /\ req'[r].dev = d)
              /\ \A q \in Reqs \ {r} : req'[q] = req[q]
            BY <1>3, <2>1
        <3> QED
            BY <3>1, ShowingElsewhere
    <2> QED
        BY <2>2, SameCursors DEF Stutters
<1> QED
    BY <1>2, <1>3

(* Before the cursor is stored nothing is under way. *)
LEMMA EarlyRefines ==
    ASSUME TypeInv, WaitInv, WaitInv', RotationInv, RotationInv', Waits, NEW r \in Reqs,
           \/ \E d \in Devices : Poll(r, d)
           \/ Telemetry(r) \/ Reload(r)
           \/ Pick(r) /\ req[r].kind = "display"
    PROVE  Stutters
<1>1. devices \in [Devices -> DeviceRow \union {NULL}]
    BY DEF TypeInv, TypeOK, StoreTypeOK
<1>2. \A d \in Devices : devices'[d].cursor = devices[d].cursor
    <2>1. CASE Telemetry(r)
        <3>1. req[r].dev \in Devices
            BY <2>1, JobAt DEF Telemetry, JobOK
        <3>2. PICK b : UpdateTelemetry(req[r].dev, b)
            BY <2>1 DEF Telemetry
        <3> QED
            BY <1>1, <3>1, <3>2 DEF UpdateTelemetry, UpdateDevice, DeviceRow
    <2>2. CASE (\E d \in Devices : Poll(r, d)) \/ Reload(r) \/ Pick(r)
        BY <2>2 DEF Poll, Reload, Pick, storeVars
    <2> QED
        BY <2>1, <2>2
<1>3. ASSUME NEW d \in Devices, Poll(r, d)
      PROVE  \A e \in Devices : Showing(req')[e] = Showing(req)[e]
    <2> DEFINE job == [Idle EXCEPT !.pc = "telemetry", !.kind = "display",
                                  !.dev = d, !.row = devices[d]]
    <2>1. Goto(r, job) /\ job.pc = "telemetry" /\ job.kind = "display" /\ job.dev = d
        BY <1>3 DEF Poll, Idle
    <2> HIDE DEF job
    <2>2. req'[r] = job /\ \A q \in Reqs \ {r} : req'[q] = req[q]
        BY <2>1 DEF Goto, TypeInv, TypeOK, JobsTypeOK
    <2>3. req[r].kind # "display"
        <3>1. Idle.kind = "none"
            BY DEF Idle
        <3> QED
            BY <1>3, <3>1 DEF Poll
    <2>4. ASSUME NEW e \in Devices \ {d}
          PROVE  Showing(req')[e] = Showing(req)[e]
        <3>1. ~(req'[r].kind = "display" /\ req'[r].dev = e)
            BY <2>1, <2>2
        <3>2. \A q \in Reqs \ {r} : req'[q] = req[q]
            BY <2>2
        <3> QED
            BY <2>3, <3>1, <3>2, ShowingElsewhere
    <2>5. \A q \in Reqs : ~(req[q].kind = "display" /\ req[q].dev = d)
        BY <1>3 DEF Poll, Polling, Waits
    <2>6. Showing(req)[d] = NULL
        BY <2>5, ShowingNothing
    <2>7. Showing(req')[d] = Shown(job)
        BY <2>1, <2>2, <2>5, ShowingAt
    <2>8. Shown(job) = NULL
        BY <2>1 DEF Shown
    <2> QED
        BY <2>4, <2>6, <2>7, <2>8
<1>4. ASSUME \/ Telemetry(r) \/ Reload(r)
             \/ Pick(r) /\ req[r].kind = "display"
      PROVE  \A e \in Devices : Showing(req')[e] = Showing(req)[e]
    <2>1. /\ req[r] \in Job /\ req[r].kind = "display" /\ req[r].dev \in Devices
          /\ req[r].pc \in {"telemetry", "reload", "pick"}
        BY <1>4, JobAt DEF Telemetry, Reload, Pick, JobOK
    <2>2. \E job : /\ Goto(r, job) /\ job.kind = "display" /\ job.dev = req[r].dev
                   /\ job.pc \in {"reload", "pick", "advance"}
        <3>1. CASE Telemetry(r)
            <4> DEFINE job == [req[r] EXCEPT !.pc = "reload"]
            <4>1. /\ Goto(r, job) /\ job.kind = "display" /\ job.dev = req[r].dev
                  /\ job.pc = "reload"
                BY <2>1, <3>1 DEF Telemetry, Job
            <4> HIDE DEF job
            <4> QED
                BY <4>1
        <3>2. CASE Reload(r)
            <4>1. PICK row : Goto(r, [req[r] EXCEPT !.pc = "pick", !.row = row])
                BY <3>2 DEF Reload
            <4> DEFINE job == [req[r] EXCEPT !.pc = "pick", !.row = row]
            <4>2. /\ Goto(r, job) /\ job.kind = "display" /\ job.dev = req[r].dev
                  /\ job.pc = "pick"
                BY <2>1, <4>1 DEF Job
            <4> HIDE DEF job
            <4> QED
                BY <4>2
        <3>3. CASE Pick(r)
            <4>1. PICK scr, next :
                      Goto(r, [req[r] EXCEPT !.pc = "advance", !.scr = scr, !.next = next])
                BY <2>1, <3>3 DEF Pick
            <4> DEFINE job == [req[r] EXCEPT !.pc = "advance", !.scr = scr, !.next = next]
            <4>2. /\ Goto(r, job) /\ job.kind = "display" /\ job.dev = req[r].dev
                  /\ job.pc = "advance"
                BY <2>1, <4>1 DEF Job
            <4> HIDE DEF job
            <4> QED
                BY <4>2
        <3> QED
            BY <1>4, <3>1, <3>2, <3>3
    <2>3. PICK job : /\ Goto(r, job) /\ job.kind = "display" /\ job.dev = req[r].dev
                     /\ job.pc \in {"reload", "pick", "advance"}
        BY <2>2
    <2>4. Shown(req[r]) = NULL /\ Shown(job) = NULL
        BY <2>1, <2>3 DEF Shown
    <2> QED
        BY <2>1, <2>3, <2>4, PollShows
<1> QED
    BY <1>2, <1>3, <1>4 DEF Stutters

(* The store of the cursor is what shows the next screen. *)
LEMMA AdvanceRefines ==
    ASSUME TypeInv, WaitInv, WaitInv', TurnInv, RotationInv, RotationInv', OneRotation,
           NEW r \in Reqs, Advance(r)
    PROVE  \E d \in Devices : Shows(d)
<1> DEFINE d == req[r].dev
           job == [req[r] EXCEPT !.pc = "getscreen", !.next = 0]
<1>1. /\ req[r] \in Job /\ req[r].kind = "display" /\ req[r].pc = "advance"
      /\ d \in Devices /\ devices[d] # NULL
    BY JobAt DEF Advance, JobOK, RotationInv
<1>2. /\ job.kind = "display" /\ job.dev = d /\ job.pc = "getscreen"
      /\ job.scr = req[r].scr
    BY <1>1 DEF Job
<1>3. Goto(r, job) /\ SetPlaylistCursor(d, req[r].next)
    BY DEF Advance, OneRotation, Still, Waits
<1>4. /\ devices'[d].cursor = req[r].next
      /\ \A e \in Devices \ {d} : devices'[e] = devices[e]
    BY <1>1, <1>3 DEF SetPlaylistCursor, UpdateDevice, TypeInv, TypeOK, StoreTypeOK, DeviceRow
<1>5. Shown(req[r]) = NULL /\ Shown(job) = req[r].scr
    BY <1>1, <1>2 DEF Shown
<1>6. ListPlaylistItems(devices[d].playlist) = InitItems
    BY <1>1, TrmnlAssumption DEF ListPlaylistItems, RotationInv, OneRotation, ItemRow
<1>7. /\ \E i \in InitItems : /\ IsItemAt(i, InitItems, devices[d].cursor)
                              /\ req[r].scr = i.screen
      /\ req[r].next = (devices[d].cursor + 1) % Cardinality(InitItems)
    BY <1>1, <1>6 DEF TurnInv, RotationCopied, ItemChosen
<1> HIDE DEF job
<1>8. /\ Showing(req)[d] = NULL /\ Showing(req')[d] = req[r].scr
      /\ \A e \in Devices \ {d} : Showing(req')[e] = Showing(req)[e]
    BY <1>1, <1>2, <1>3, <1>5, PollShows
<1>9. Shows(d)
    BY <1>4, <1>7, <1>8 DEF Shows
<1> QED
    BY <1>1, <1>9

(* What a step of the server is to the devices, request by request. *)
LEMMA StepsRefine ==
    ASSUME TypeInv, WaitInv, WaitInv', TurnInv, RotationInv, RotationInv', OneRotation,
           [Next]_vars
    PROVE  Stutters \/ \E d \in Devices : EndsAnswer(d) \/ Shows(d)
<1>1. Waits /\ "crash" \notin Ops
    BY DEF OneRotation, Still
<1>2. CASE \E r \in Reqs, d \in Devices : Poll(r, d)
    BY <1>1, <1>2, EarlyRefines
<1>3. CASE \E r \in Reqs : \/ Telemetry(r) \/ Reload(r)
                           \/ Pick(r) /\ req[r].kind = "display"
    BY <1>1, <1>3, EarlyRefines
<1>4. CASE \E r \in Reqs : Advance(r)
    BY <1>4, AdvanceRefines
<1>5. CASE \E r \in Reqs : KeepsRows /\ \E job : Goto(r, job) /\ GoesOn(req[r], job)
    BY <1>5, GoesOnRefines
<1>6. CASE KeepsRows /\ UNCHANGED req
    BY <1>6, SameCursors DEF Stutters
<1>7. ~Crash
    BY <1>1 DEF Crash
<1> QED
    BY <1>1, <1>2, <1>3, <1>4, <1>5, <1>6, <1>7, StepsOfPolls

-----------------------------------------------------------------------------
(* From devices one by one to the variables of RoundRobin. *)
OrderOf ==
    [n \in 0..(Cardinality(InitItems) - 1) |->
        (CHOOSE i \in InitItems : i.pos = n).screen]

LEMMA MappedVariables ==
    /\ Rotation!rrVars = <<Turns(devices), Showing(req)>>
    /\ Rotation!rrVars' = <<Turns(devices'), Showing(req')>>
BY DEF Rotation!rrVars, Turns, Showing, InTurn, Under

LEMMA MappedInit ==
    ASSUME Init
    PROVE  Rotation!Init
<1>1. ASSUME NEW d \in Devices
      PROVE  devices[d].cursor = 0
    <2>1. PICK p \in Playlists, b \in Bundles, show \in ShowChoices :
              devices[d] = ConfiguredDevice(p, b, show)
        BY DEF Init
    <2>2. NewDevice \in DeviceRow /\ NewDevice.cursor = 0
        BY NewRowsType DEF NewDevice
    <2> QED
        BY <2>1, <2>2 DEF ConfiguredDevice, DeviceRow
<1>2. \A r \in Reqs : req[r].kind = "none"
    <2>1. Idle.kind = "none"
        BY DEF Idle
    <2> QED
        BY <2>1 DEF Init
<1>3. \A d \in Devices : InTurn(d) = {}
    BY <1>2 DEF InTurn
<1> QED
    BY <1>1, <1>3 DEF Rotation!Init

(* Functions that agree everywhere but at one argument are an EXCEPT. *)
LEMMA OnlyAt ==
    ASSUME NEW S, NEW f, NEW g, NEW x \in S, NEW v,
           f = [y \in S |-> f[y]], g = [y \in S |-> g[y]],
           g[x] = v, \A y \in S \ {x} : g[y] = f[y]
    PROVE  g = [f EXCEPT ![x] = v]
OBVIOUS

LEMMA MappedShow ==
    ASSUME OneRotation, NEW d \in Devices, Shows(d)
    PROVE  /\ Showing(req)[d] = NULL
           /\ Showing(req') = [Showing(req) EXCEPT ![d] = OrderOf[Turns(devices)[d]]]
           /\ Turns(devices') = [Turns(devices) EXCEPT ![d] = (@ + 1) % Cardinality(InitItems)]
<1>1. PICK i \in InitItems : /\ IsItemAt(i, InitItems, devices[d].cursor)
                             /\ Showing(req')[d] = i.screen
    BY DEF Shows
<1>2. OrderOf[Turns(devices)[d]] = i.screen
    BY <1>1, PositionIsIndex DEF OrderOf, Turns
<1>3. Showing(req') = [Showing(req) EXCEPT ![d] = i.screen]
    <2>1. /\ Showing(req) = [e \in Devices |-> Showing(req)[e]]
          /\ Showing(req') = [e \in Devices |-> Showing(req')[e]]
        BY DEF Showing
    <2>2. \A e \in Devices \ {d} : Showing(req')[e] = Showing(req)[e]
        BY DEF Shows
    <2> QED
        BY <1>1, <2>1, <2>2, OnlyAt
<1>4. Turns(devices') = [Turns(devices) EXCEPT ![d] = (@ + 1) % Cardinality(InitItems)]
    BY DEF Turns, Shows
<1> QED
    BY <1>2, <1>3, <1>4 DEF Shows

LEMMA MappedAnswer ==
    ASSUME NEW d \in Devices, EndsAnswer(d)
    PROVE  /\ Showing(req)[d] # NULL
           /\ Showing(req') = [Showing(req) EXCEPT ![d] = NULL]
           /\ Turns(devices') = Turns(devices)
<1>1. /\ Showing(req) = [e \in Devices |-> Showing(req)[e]]
      /\ Showing(req') = [e \in Devices |-> Showing(req')[e]]
    BY DEF Showing
<1>2. /\ Showing(req)[d] # NULL /\ Showing(req')[d] = NULL
      /\ \A e \in Devices \ {d} : Showing(req')[e] = Showing(req)[e]
    BY DEF EndsAnswer
<1>3. Showing(req') = [Showing(req) EXCEPT ![d] = NULL]
    BY <1>1, <1>2, OnlyAt
<1>4. Turns(devices') = Turns(devices)
    BY DEF EndsAnswer, Turns
<1> QED
    BY <1>2, <1>3, <1>4

LEMMA MappedStutter ==
    ASSUME Stutters
    PROVE  Showing(req') = Showing(req) /\ Turns(devices') = Turns(devices)
<1>1. /\ Showing(req) = [e \in Devices |-> Showing(req)[e]]
      /\ Showing(req') = [e \in Devices |-> Showing(req')[e]]
    BY DEF Showing
<1>2. Turns(devices') = Turns(devices)
    BY DEF Stutters, Turns
<1>3. Showing(req') = Showing(req)
    <2>1. \A e \in Devices : Showing(req')[e] = Showing(req)[e]
        BY DEF Stutters
    <2> HIDE DEF Showing
    <2> QED
        BY <1>1, <2>1
<1> QED
    BY <1>2, <1>3

LEMMA MappedNext ==
    ASSUME OneRotation, Stutters \/ \E d \in Devices : EndsAnswer(d) \/ Shows(d)
    PROVE  [Rotation!Next]_(Rotation!rrVars)
<1>1. CASE Stutters
    BY <1>1, MappedStutter, MappedVariables
<1>2. ASSUME NEW d \in Devices, EndsAnswer(d)
      PROVE  Rotation!Answered(d)
    BY <1>2, MappedAnswer DEF Rotation!Answered, Turns, Showing, InTurn, Under
<1>3. ASSUME NEW d \in Devices, Shows(d)
      PROVE  Rotation!Show(d)
    BY <1>3, MappedShow DEF Rotation!Show, Turns, Showing, OrderOf, InTurn, Under
<1> QED
    BY <1>1, <1>2, <1>3 DEF Rotation!Next

LEMMA NextRefines ==
    ASSUME OneRotation, TypeInv, WaitInv, WaitInv', TurnInv, RotationInv, RotationInv',
           [Next]_vars
    PROVE  [Rotation!Next]_(Rotation!rrVars)
<1>1. Stutters \/ \E d \in Devices : EndsAnswer(d) \/ Shows(d)
    BY StepsRefine
<1> QED
    BY <1>1, MappedNext

-----------------------------------------------------------------------------
(* Polls, cursors, caches, the renderer, force refreshes, queued updates,  *)
(* uploads and the sweep together are RoundRobin to every device, for any  *)
(* number of them.                                                         *)
THEOREM ServerTakesTurns == OneRotation => (Spec => TakesTurns)
<1> SUFFICES ASSUME OneRotation PROVE Spec => TakesTurns
    OBVIOUS
<1>1. Still /\ Waits
    BY DEF OneRotation, Still
<1>2. Spec => [](TypeInv /\ WaitInv /\ TurnInv)
    BY <1>1, TypeInvariant, CopiesUpToDate, TurnsCopied, PTL
<1>3. TypeInv /\ RotationInv /\ [Next]_vars => RotationInv'
    BY NextRotation
<1>4. Spec => []RotationInv
    BY <1>2, <1>3, InitRotation, PTL DEF Spec
<1>5. TypeInv /\ WaitInv /\ TurnInv /\ RotationInv
      /\ WaitInv' /\ RotationInv' /\ [Next]_vars
         => [Rotation!Next]_(Rotation!rrVars)
    BY NextRefines
<1>6. Init => Rotation!Init
    BY MappedInit
<1> QED
    BY <1>2, <1>4, <1>5, <1>6, PTL DEF Spec, TakesTurns, Rotation!Spec

-----------------------------------------------------------------------------
(* A queued firmware update is handed out once.  After its answer a poll   *)
(* still has to take the flag back; what keeps every other poll from       *)
(* serving the update again until then is that there is none, so this too  *)
(* is of devices that wait, and of a process that does not die in between. *)
ClearsAfterServing == Waits /\ "crash" \notin Ops

(* A flag whose update was served is about to be taken back, and no poll   *)
(* goes on with a copy of it.                                              *)
OnceInv ==
    /\ \A d \in Devices : offered[d] /\ devices[d] # NULL /\ devices[d].firmware =>
          \E r \in Reqs : req[r].kind = "display" /\ req[r].dev = d /\ req[r].pc = "clear"
    /\ \A r \in Reqs : req[r].kind = "display" /\ req[r].pc # "clear"
                       /\ UpdatesFirmware(req[r].row) => ~offered[req[r].dev]

(* A step that serves no update, and raises the flag only of a new one.    *)
QuietFlags ==
    \A d \in Devices :
        /\ offered'[d] => offered[d]
        /\ offered'[d] /\ devices'[d] # NULL /\ devices'[d].firmware
              => devices[d] # NULL /\ devices[d].firmware

(* A poll that goes on with the copy of the device row it has. *)
KeepsPoll(j, job) ==
    job.kind = "display" => j.kind = "display" /\ job.dev = j.dev /\ job.row = j.row

LEMMA GotoOnce ==
    ASSUME TypeInv, OnceInv, QuietFlags, NEW r \in Reqs, NEW job, Goto(r, job),
           KeepsPoll(req[r], job), req[r].pc # "clear"
    PROVE  OnceInv'
<1>1. \A q \in Reqs : req'[q] = IF q = r THEN job ELSE req[q]
    BY DEF Goto, TypeInv, TypeOK, JobsTypeOK
<1>2. \A q \in Reqs : req[q].kind = "display" => req[q].dev \in Devices
    BY JobAt DEF JobOK
<1>3. ASSUME NEW d \in Devices, offered'[d], devices'[d] # NULL, devices'[d].firmware
      PROVE  \E q \in Reqs : /\ req'[q].kind = "display" /\ req'[q].dev = d
                             /\ req'[q].pc = "clear"
    BY <1>1, <1>3 DEF OnceInv, QuietFlags
<1>4. ASSUME NEW q \in Reqs, req'[q].kind = "display", req'[q].pc # "clear",
             UpdatesFirmware(req'[q].row)
      PROVE  ~offered'[req'[q].dev]
    <2>1. /\ req[q].kind = "display" /\ req'[q].dev = req[q].dev
          /\ req'[q].row = req[q].row /\ req[q].pc # "clear"
        BY <1>1, <1>4 DEF KeepsPoll
    <2>2. ~offered[req[q].dev]
        BY <1>4, <2>1 DEF OnceInv
    <2> QED
        BY <1>2, <2>1, <2>2 DEF QuietFlags
<1> QED
    BY <1>3, <1>4 DEF OnceInv

LEMMA GoesOnOnce ==
    ASSUME TypeInv, OnceInv, QuietFlags, NEW r \in Reqs, req[r].pc # "clear",
           \E job : Goto(r, job) /\ GoesOn(req[r], job)
    PROVE  OnceInv'
BY GotoOnce DEF GoesOn, KeepsPoll

LEMMA SameFlags ==
    ASSUME UNCHANGED <<devices, offered>>
    PROVE  QuietFlags
BY DEF QuietFlags

(* UPDATE devices keeps the flags quiet when the new row's is. *)
LEMMA UpdateQuiet ==
    ASSUME TypeInv, NEW d \in Devices, NEW row, UpdateDevice(d, row), UNCHANGED offered,
           devices[d] # NULL /\ row.firmware => devices[d].firmware
    PROVE  QuietFlags
BY DEF UpdateDevice, QuietFlags, TypeInv, TypeOK, StoreTypeOK

-----------------------------------------------------------------------------
(* The steps of a poll. *)

LEMMA PollOnce ==
    ASSUME TypeInv, Waits, OnceInv, NEW r \in Reqs, NEW d \in Devices, Poll(r, d)
    PROVE  OnceInv'
<1> DEFINE job == [Idle EXCEPT !.pc = "telemetry", !.kind = "display",
                              !.dev = d, !.row = devices[d]]
<1>1. job.pc = "telemetry" /\ job.kind = "display" /\ job.dev = d /\ job.row = devices[d]
    BY DEF Idle
<1>2. Goto(r, job) /\ UNCHANGED <<devices, offered>> /\ req[r] = Idle /\ devices[d] # NULL
    BY DEF Poll, storeVars
<1>3. \A q \in Reqs : ~(req[q].kind = "display" /\ req[q].dev = d)
    BY DEF Poll, Polling, Waits
<1>4. Idle.pc = "idle"
    BY DEF Idle
<1> HIDE DEF job
<1>5. \A q \in Reqs : req'[q] = IF q = r THEN job ELSE req[q]
    BY <1>2 DEF Goto, TypeInv, TypeOK, JobsTypeOK
<1>6. ~(offered[d] /\ devices[d].firmware)
    BY <1>2, <1>3 DEF OnceInv
<1>7. UpdatesFirmware(job.row) => ~offered[d]
    BY <1>1, <1>6 DEF UpdatesFirmware
<1>8. ASSUME NEW e \in Devices, offered'[e], devices'[e] # NULL, devices'[e].firmware
      PROVE  \E q \in Reqs : /\ req'[q].kind = "display" /\ req'[q].dev = e
                             /\ req'[q].pc = "clear"
    BY <1>2, <1>4, <1>5, <1>8 DEF OnceInv
<1>9. ASSUME NEW q \in Reqs, req'[q].kind = "display", req'[q].pc # "clear",
             UpdatesFirmware(req'[q].row)
      PROVE  ~offered'[req'[q].dev]
    BY <1>1, <1>2, <1>5, <1>7, <1>9 DEF OnceInv
<1> QED
    BY <1>8, <1>9 DEF OnceInv

(* The copy a poll goes on with is taken while its device has no other     *)
(* poll: a flag that was served is not in it.                              *)
LEMMA ReloadOnce ==
    ASSUME TypeInv, Waits, WaitInv, OnceInv, NEW r \in Reqs, Reload(r)
    PROVE  OnceInv'
<1> DEFINE d   == req[r].dev
           row == IF devices[d] = NULL THEN req[r].row ELSE devices[d]
           job == [req[r] EXCEPT !.pc = "pick", !.row = row]
<1>1. /\ req[r] \in Job /\ req[r].kind = "display" /\ req[r].pc = "reload"
      /\ d \in Devices
    BY JobAt DEF Reload, JobOK
<1>2. Goto(r, job) /\ UNCHANGED <<devices, offered>>
    BY DEF Reload, Waits, storeVars
<1>3. ~(offered[d] /\ devices[d] # NULL /\ devices[d].firmware)
    BY <1>1 DEF OnceInv, WaitInv, OnePoll
<1>4. UpdatesFirmware(row) => ~offered[d]
    <2>1. CASE devices[d] = NULL
        BY <1>1, <2>1 DEF OnceInv
    <2>2. CASE devices[d] # NULL
        BY <1>3, <2>2 DEF UpdatesFirmware
    <2> QED
        BY <2>1, <2>2
<1> HIDE DEF row
<1>5. job.pc = "pick" /\ job.kind = "display" /\ job.dev = d /\ job.row = row
    BY <1>1 DEF Job
<1> HIDE DEF job, d
<1>6. \A q \in Reqs : req'[q] = IF q = r THEN job ELSE req[q]
    BY <1>2 DEF Goto, TypeInv, TypeOK, JobsTypeOK
<1>7. ASSUME NEW e \in Devices, offered'[e], devices'[e] # NULL, devices'[e].firmware
      PROVE  \E q \in Reqs : /\ req'[q].kind = "display" /\ req'[q].dev = e
                             /\ req'[q].pc = "clear"
    BY <1>1, <1>2, <1>6, <1>7 DEF OnceInv
<1>8. ASSUME NEW q \in Reqs, req'[q].kind = "display", req'[q].pc # "clear",
             UpdatesFirmware(req'[q].row)
      PROVE  ~offered'[req'[q].dev]
    BY <1>2, <1>4, <1>5, <1>6, <1>8 DEF OnceInv
<1> QED
    BY <1>7, <1>8 DEF OnceInv

(* The step the invariant is for: the update is served, and this poll goes *)
(* on to take the flag back.                                               *)
LEMMA RespondOnce ==
    ASSUME TypeInv, WaitInv, OnceInv, NEW r \in Reqs, Respond(r)
    PROVE  OnceInv'
<1> DEFINE d   == req[r].dev
           row == req[r].row
           job == [Idle EXCEPT !.pc = "clear", !.kind = "display", !.dev = d, !.row = row]
<1>1. /\ req[r].kind = "display" /\ req[r].pc = "respond" /\ d \in Devices
      /\ offered \in [Devices -> BOOLEAN]
    BY JobAt DEF Respond, JobOK, TypeInv, TypeOK, JobsTypeOK
<1>2. CASE UpdatesFirmware(row)
    <2>1. Goto(r, job) /\ UNCHANGED devices /\ offered' = [offered EXCEPT ![d] = TRUE]
        BY <1>2 DEF Respond, UpdatesFirmware, storeVars
    <2>2. job.pc = "clear" /\ job.kind = "display" /\ job.dev = d
        BY DEF Idle
    <2> HIDE DEF job, row
    <2>3. \A q \in Reqs : req'[q] = IF q = r THEN job ELSE req[q]
        BY <2>1 DEF Goto, TypeInv, TypeOK, JobsTypeOK
    <2>4. \A q \in Reqs \ {r} : req[q].kind = "display" =>
             req[q].dev \in Devices /\ req[q].dev # d
        BY <1>1, JobAt DEF WaitInv, OnePoll, JobOK
    <2> HIDE DEF d
    <2>5. \A e \in Devices : offered'[e] => e = d \/ offered[e]
        BY <1>1, <2>1
    <2>6. ASSUME NEW e \in Devices, offered'[e], devices'[e] # NULL, devices'[e].firmware
          PROVE  \E q \in Reqs : /\ req'[q].kind = "display" /\ req'[q].dev = e
                                 /\ req'[q].pc = "clear"
        BY <1>1, <2>1, <2>2, <2>3, <2>5, <2>6 DEF OnceInv
    <2>7. ASSUME NEW q \in Reqs, req'[q].kind = "display", req'[q].pc # "clear",
                 UpdatesFirmware(req'[q].row)
          PROVE  ~offered'[req'[q].dev]
        BY <2>2, <2>3, <2>4, <2>5, <2>7 DEF OnceInv
    <2> QED
        BY <2>6, <2>7 DEF OnceInv
<1>3. CASE ~UpdatesFirmware(row)
    <2>1. UNCHANGED <<devices, offered>> /\ (Goto(r, job) \/ Finish(r))
        BY <1>3 DEF Respond, storeVars
    <2>2. job.dev = d /\ job.row = row /\ Idle.kind = "none"
        BY DEF Idle
    <2> HIDE DEF job
    <2>3. KeepsPoll(req[r], job) /\ KeepsPoll(req[r], Idle)
        BY <1>1, <2>2 DEF KeepsPoll
    <2> QED
        BY <1>1, <2>1, <2>3, SameFlags, GotoOnce DEF Finish
<1> QED
    BY <1>2, <1>3

LEMMA ClearOnce ==
    ASSUME TypeInv, Waits, OnceInv, NEW r \in Reqs, Clear(r)
    PROVE  OnceInv'
<1> DEFINE d   == req[r].dev
           row == [devices[d] EXCEPT !.firmware = FALSE]
<1>1. d \in Devices /\ UNCHANGED offered /\ Finish(r) /\ UpdateDevice(d, row)
    BY JobAt DEF Clear, JobOK, Waits, ClearFirmwareUpdate
<1>2. devices \in [Devices -> DeviceRow \union {NULL}]
    BY DEF TypeInv, TypeOK, StoreTypeOK
<1>3. devices[d] # NULL => ~row.firmware
    BY <1>1, <1>2 DEF DeviceRow
<1> HIDE DEF row
<1>4. /\ devices'[d] # NULL => ~devices'[d].firmware
      /\ \A e \in Devices \ {d} : devices'[e] = devices[e]
    BY <1>1, <1>2, <1>3 DEF UpdateDevice
<1>5. Idle.kind = "none"
    BY DEF Idle
<1>6. \A q \in Reqs : req'[q] = IF q = r THEN Idle ELSE req[q]
    BY <1>1 DEF Finish, Goto, TypeInv, TypeOK, JobsTypeOK
<1>7. ASSUME NEW e \in Devices, offered'[e], devices'[e] # NULL, devices'[e].firmware
      PROVE  \E q \in Reqs : /\ req'[q].kind = "display" /\ req'[q].dev = e
                             /\ req'[q].pc = "clear"
    <2>1. e # d
        BY <1>4, <1>7
    <2>2. PICK q \in Reqs : req[q].kind = "display" /\ req[q].dev = e /\ req[q].pc = "clear"
        BY <1>1, <1>4, <1>7, <2>1 DEF OnceInv
    <2> QED
        BY <1>6, <2>1, <2>2
<1>8. ASSUME NEW q \in Reqs, req'[q].kind = "display", req'[q].pc # "clear",
             UpdatesFirmware(req'[q].row)
      PROVE  ~offered'[req'[q].dev]
    BY <1>1, <1>5, <1>6, <1>8 DEF OnceInv
<1> QED
    BY <1>7, <1>8 DEF OnceInv

(* The steps that neither read nor write the flag. *)
LEMMA PassOnce ==
    ASSUME TypeInv, OnceInv, NEW r \in Reqs,
           Telemetry(r) \/ Advance(r) \/ (Pick(r) /\ req[r].kind = "display")
    PROVE  OnceInv'
<1> DEFINE d == req[r].dev
<1>1. req[r] \in Job /\ d \in Devices /\ req[r].pc # "clear"
    BY JobAt DEF Telemetry, Advance, Pick, JobOK
<1>2. devices[d] # NULL => devices[d] \in DeviceRow
    BY <1>1 DEF TypeInv, TypeOK, StoreTypeOK
<1>3. CASE Telemetry(r)
    <2>1. PICK b \in Batteries \union {NULL} : UpdateTelemetry(d, b)
        BY <1>3 DEF Telemetry
    <2> DEFINE row == [devices[d] EXCEPT !.battery = IF b = NULL THEN @ ELSE b]
               job == [req[r] EXCEPT !.pc = "reload"]
    <2>2. devices[d] # NULL => row.firmware = devices[d].firmware
        BY <1>2 DEF DeviceRow
    <2>3. QuietFlags
        BY <1>1, <1>3, <2>1, <2>2, UpdateQuiet DEF UpdateTelemetry, Telemetry
    <2>4. Goto(r, job) /\ KeepsPoll(req[r], job)
        BY <1>1, <1>3 DEF Telemetry, Job, KeepsPoll
    <2> QED
        BY <1>1, <2>3, <2>4, GotoOnce
<1>4. CASE Advance(r)
    <2> DEFINE row == [devices[d] EXCEPT !.cursor = req[r].next]
               job == [req[r] EXCEPT !.pc = "getscreen", !.next = 0]
    <2>1. devices[d] # NULL => row.firmware = devices[d].firmware
        BY <1>2 DEF DeviceRow
    <2>2. QuietFlags
        <3>1. CASE UNCHANGED devices
            BY <1>4, <3>1, SameFlags DEF Advance
        <3>2. CASE SetPlaylistCursor(d, req[r].next)
            BY <1>1, <1>4, <2>1, <3>2, UpdateQuiet DEF SetPlaylistCursor, Advance
        <3> QED
            BY <1>4, <3>1, <3>2 DEF Advance
    <2>3. Goto(r, job) /\ KeepsPoll(req[r], job)
        BY <1>1, <1>4 DEF Advance, Job, KeepsPoll
    <2> QED
        BY <1>1, <2>2, <2>3, GotoOnce
<1>5. CASE Pick(r) /\ req[r].kind = "display"
    <2>1. PICK scr, next :
              Goto(r, [req[r] EXCEPT !.pc = "advance", !.scr = scr, !.next = next])
        BY <1>5 DEF Pick
    <2> DEFINE job == [req[r] EXCEPT !.pc = "advance", !.scr = scr, !.next = next]
    <2>2. Goto(r, job) /\ KeepsPoll(req[r], job)
        BY <1>1, <2>1 DEF Job, KeepsPoll
    <2>3. QuietFlags
        BY <1>5, SameFlags DEF Pick, storeVars
    <2> QED
        BY <1>1, <2>2, <2>3, GotoOnce
<1> QED
    BY <1>3, <1>4, <1>5

-----------------------------------------------------------------------------
(* The forms: a new update is not the one that was served. *)
LEMMA TableQuiet ==
    ASSUME TypeInv, Waits,
           \/ \E d \in Devices : \/ DeviceCreate(d) \/ DeviceUpdate(d) \/ DeviceDelete(d)
                                 \/ DeviceFirmware(d) \/ DeviceFirmwareCancel(d)
           \/ \E s \in Screens : ScreenCreate(s) \/ ScreenDelete(s) \/ ScreenUpload(s)
           \/ PlaylistAdmin \/ Maintenance \/ Expire \/ (\E f \in files : Age(f))
           \/ UNCHANGED vars
    PROVE  QuietFlags
<1>1. devices \in [Devices -> DeviceRow \union {NULL}] /\ offered \in [Devices -> BOOLEAN]
    BY DEF TypeInv, TypeOK, StoreTypeOK, JobsTypeOK
<1>2. CASE \/ \E s \in Screens : ScreenCreate(s) \/ ScreenDelete(s) \/ ScreenUpload(s)
           \/ Maintenance \/ Expire \/ (\E f \in files : Age(f))
           \/ UNCHANGED vars
    BY <1>2, SameFlags DEF ScreenCreate, ScreenDelete, ScreenUpload, Maintenance,
       SweepStart, SweepRemove, SweepEnd, Expire, Age, AgeFile, storeVars, jobVars, vars
<1>3. ASSUME NEW d \in Devices,
             \/ DeviceCreate(d) \/ DeviceUpdate(d) \/ DeviceDelete(d)
             \/ DeviceFirmware(d) \/ DeviceFirmwareCancel(d)
      PROVE  QuietFlags
    <2>1. devices[d] # NULL => devices[d] \in DeviceRow
        BY <1>1
    <2>2. CASE DeviceDelete(d)
        BY <1>1, <2>2 DEF DeviceDelete, DeleteDevice, QuietFlags, jobVars
    <2>3. CASE DeviceUpdate(d)
        <3>1. PICK p \in playlists \union {NULL}, b \in Bundles, show \in ShowChoices :
                  UpdateDeviceSettings(d, p, b, show)
            BY <2>3 DEF DeviceUpdate
        <3> DEFINE row == [devices[d] EXCEPT !.playlist = p, !.bundle = b,
                                            !.showBattery = show]
        <3>2. devices[d] # NULL => row.firmware = devices[d].firmware
            BY <2>1 DEF DeviceRow
        <3> QED
            BY <2>3, <3>1, <3>2, UpdateQuiet DEF UpdateDeviceSettings, DeviceUpdate, jobVars
    <2>4. CASE DeviceFirmware(d)
        <3>1. PICK u \in Urls : QueueFirmwareUpdate(d, u)
            BY <2>4 DEF DeviceFirmware
        <3>2. \A e \in Devices : IF e = d THEN ~offered'[e]
                                 ELSE offered'[e] = offered[e] /\ devices'[e] = devices[e]
            BY <1>1, <2>4, <3>1 DEF DeviceFirmware, QueueFirmwareUpdate, UpdateDevice
        <3> QED
            BY <3>2 DEF QuietFlags
    <2>5. CASE DeviceFirmwareCancel(d)
        <3>1. devices[d] # NULL => ~[devices[d] EXCEPT !.firmware = FALSE].firmware
            BY <2>1 DEF DeviceRow
        <3> QED
            BY <2>5, <3>1, UpdateQuiet DEF DeviceFirmwareCancel, ClearFirmwareUpdate, jobVars
    <2> QED
        BY <1>3, <2>2, <2>3, <2>4, <2>5 DEF DeviceCreate, Waits
<1>4. CASE PlaylistAdmin
    <2>1. UNCHANGED offered /\ (UNCHANGED devices \/ \E p \in Playlists : DeletePlaylist(p))
        BY <1>4 DEF PlaylistAdmin, PlaylistCreate, PlaylistDelete, PlaylistAddItem,
           PlaylistRemoveItem, jobVars
    <2>2. ASSUME NEW p \in Playlists, DeletePlaylist(p)
          PROVE  QuietFlags
        <3>1. ASSUME NEW e \in Devices, devices'[e] # NULL
              PROVE  devices[e] # NULL /\ devices'[e].firmware = devices[e].firmware
            BY <1>1, <2>2, <3>1, NullAssumption DEF DeletePlaylist, DeviceRow
        <3> QED
            BY <2>1, <3>1 DEF QuietFlags
    <2> QED
        BY <2>1, <2>2, SameFlags
<1> QED
    BY <1>2, <1>3, <1>4

LEMMA NextOnce ==
    ASSUME TypeInv, WaitInv, ClearsAfterServing, OnceInv, [Next]_vars
    PROVE  OnceInv'
<1>1. Waits
    BY DEF ClearsAfterServing
<1>2. ASSUME NEW r \in Reqs, DisplayStep(r)
      PROVE  OnceInv'
    <2>1. CASE \/ GetScreen(r) \/ Lookup(r) \/ Compute(r) \/ ComputeFails(r)
               \/ Write(r) \/ WriteFails(r) \/ Record(r)
        <3>1. QuietFlags /\ req[r].pc # "clear"
            BY <2>1, SameFlags DEF GetScreen, Lookup, Compute, ComputeFails, Write,
               WriteFails, Record, storeVars
        <3> QED
            BY <2>1, <3>1, RenderGoesOn, GoesOnOnce
    <2>2. CASE PickNone(r) \/ TelemetryFails(r)
        <3>1. QuietFlags /\ req[r].pc # "clear"
            BY <2>2, SameFlags DEF PickNone, TelemetryFails, storeVars
        <3> QED
            BY <1>1, <2>2, <3>1, AnswerGoesOn, GoesOnOnce
    <2>3. CASE Pick(r) /\ req[r].kind # "display"
        <3>1. QuietFlags /\ req[r].pc # "clear"
            BY <2>3, SameFlags DEF Pick, storeVars
        <3> QED
            BY <2>3, <3>1, AdminGoesOn, GoesOnOnce DEF WaitInv
    <2> QED
        BY <1>1, <1>2, <2>1, <2>2, <2>3, ReloadOnce, PassOnce, RespondOnce, ClearOnce
           DEF DisplayStep
<1>3. ASSUME NEW r \in Reqs,
             \/ AdminStep(r)
             \/ SettingsSave(r)
             \/ \E d \in Devices : DeviceForceRefresh(r, d)
             \/ \E s \in Screens : ScreenUpdate(r, s) \/ ScreenPreview(r, s)
      PROVE  OnceInv'
    <2>1. UNCHANGED <<devices, offered>>
        BY <1>3 DEF AdminStep, RefreshList, RefreshClearScreen, RefreshClearDevice,
           ScreenUpdateDither, PreviewDevice, SettingsSaveFonts, SettingsSave,
           DeviceForceRefresh, ScreenUpdate, ScreenPreview, storeVars
    <2>2. Idle.pc = "idle"
        BY DEF Idle
    <2>3. req[r].pc # "clear"
        BY <1>3, <2>2 DEF AdminStep, RefreshList, RefreshClearScreen, RefreshClearDevice,
           ScreenUpdateDither, PreviewDevice, SettingsSaveFonts, SettingsSave,
           DeviceForceRefresh, ScreenUpdate, ScreenPreview
    <2> QED
        BY <1>3, <2>1, <2>3, SameFlags, AdminGoesOn, GoesOnOnce DEF WaitInv
<1>4. CASE \/ \E d \in Devices : \/ DeviceCreate(d) \/ DeviceUpdate(d) \/ DeviceDelete(d)
                                 \/ DeviceFirmware(d) \/ DeviceFirmwareCancel(d)
           \/ \E s \in Screens : ScreenCreate(s) \/ ScreenDelete(s) \/ ScreenUpload(s)
           \/ PlaylistAdmin \/ Maintenance \/ Expire \/ (\E f \in files : Age(f))
           \/ UNCHANGED vars
    <2>1. QuietFlags /\ UNCHANGED req
        BY <1>1, <1>4, TableQuiet, TableKeeps
    <2>2. \A q \in Reqs : req[q].kind = "display" => req[q].dev \in Devices
        BY JobAt DEF JobOK
    <2> QED
        BY <2>1, <2>2 DEF OnceInv, QuietFlags
<1>5. CASE AdminNext
    BY <1>3, <1>4, <1>5 DEF AdminNext, DeviceAdmin, ScreenAdmin
<1> QED
    BY <1>1, <1>2, <1>3, <1>4, <1>5, PollOnce DEF Next, Crash, ClearsAfterServing

LEMMA InitOnce == Init => OnceInv
<1>1. Idle.kind = "none"
    BY DEF Idle
<1> QED
    BY <1>1 DEF Init, OnceInv

(* Display hands one queued update out once: for a device that waits for   *)
(* its answers, while statements succeed and the process lives, no poll    *)
(* answers with an update that a poll has answered with already.           *)
THEOREM ServedOnce == ClearsAfterServing => (Spec => UpdateServedOnce)
<1> SUFFICES ASSUME ClearsAfterServing PROVE Spec => UpdateServedOnce
    OBVIOUS
<1>1. Waits
    BY DEF ClearsAfterServing
<1>2. Spec => []WaitInv
    BY <1>1, CopiesUpToDate
<1>3. TypeInv /\ WaitInv /\ OnceInv /\ [Next]_vars => OnceInv'
    BY NextOnce
<1>4. ASSUME TypeInv, OnceInv, NEW r \in Reqs, Respond(r), UpdatesFirmware(req[r].row)
      PROVE  ~offered[req[r].dev]
    BY <1>4, JobAt DEF Respond, JobOK, OnceInv
<1>5. TypeInv /\ OnceInv =>
         [\A r \in Reqs : Respond(r) /\ UpdatesFirmware(req[r].row)
                             => ~offered[req[r].dev]]_vars
    BY <1>4
<1> QED
    BY InitOnce, TypeInvariant, <1>2, <1>3, <1>5, PTL DEF Spec, UpdateServedOnce
=============================================================================
