---------------------------- MODULE TrmnlProofs ----------------------------
(***************************************************************************)
(* Theorems about the device plane (module Trmnl), for any number of       *)
(* devices, screens, playlists and requests in flight.                     *)
(*                                                                         *)
(* TypeOK is not inductive on its own: what a step of a request writes is  *)
(* well typed because of where the request is in its handler.  JobOK says  *)
(* what a request knows at each of its steps; with it every property below *)
(* follows from the steps one at a time.                                   *)
(***************************************************************************)
EXTENDS Trmnl, TLAPS, FiniteSetTheorems

(* What a request in flight holds, by the step it is at. *)
JobOK(j) ==
    /\ j.pc \in {"telemetry", "reload", "advance", "lookup", "respond", "clear"}
          => j.kind = "display"
    /\ j.kind = "display" \/ j.pc \in {"pick", "list", "clearscreens"}
          => j.dev \in Devices /\ j.row \in DeviceRow
    /\ ShowsBattery(j.row) => j.dev \in Devices
    /\ j.pc \in {"advance", "getscreen", "lookup", "compute", "write", "record",
                "getdevice", "dither"}
          => j.scr \in Screens
    /\ j.pc \in {"lookup", "compute", "write", "record", "getdevice"} => j.sc \in ScreenRow
    /\ j.pc = "getdevice" => j.kind = "preview"
    /\ j.pc \in {"write", "record"} => j.img \in Image
    /\ j.pc = "dither" => j.arg \in Modes \union {NULL}
    /\ j.pc = "fonts" => j.arg \in Fonts
    /\ j.wrote => j.pc \in {"record", "respond"}

TypeInv == TypeOK /\ \A r \in Reqs : JobOK(req[r])

-----------------------------------------------------------------------------
(* Lemmas about the tables. *)

(* There are finitely many rows of playlist_items. *)
LEMMA ItemsFinite ==
    ASSUME NEW S \in SUBSET ItemRow
    PROVE  IsFiniteSet(S)
<1> DEFINE T == Playlists \X ((0..MaxPos) \X Screens)
           f == [t \in T |-> [playlist |-> t[1], pos |-> t[2][1], screen |-> t[2][2]]]
<1>1. IsFiniteSet(T)
    <2>1. IsFiniteSet(0..MaxPos)
        BY StoreAssumption, FS_Interval
    <2>2. IsFiniteSet((0..MaxPos) \X Screens)
        BY <2>1, StoreAssumption, FS_Product
    <2> QED
        BY <2>2, StoreAssumption, FS_Product
<1>2. f \in Surjection(T, ItemRow)
    <2>1. f \in [T -> ItemRow]
        BY DEF ItemRow
    <2>2. ASSUME NEW i \in ItemRow
          PROVE  \E t \in T : f[t] = i
        <3> DEFINE t == <<i.playlist, <<i.pos, i.screen>>>>
        <3>1. t \in T
            BY DEF ItemRow
        <3>2. f[t] = [playlist |-> i.playlist, pos |-> i.pos, screen |-> i.screen]
            BY <3>1
        <3>3. f[t] = i
            BY <3>2 DEF ItemRow
        <3> QED
            BY <3>1, <3>3
    <2> QED
        BY <2>1, <2>2 DEF Surjection
<1>3. IsFiniteSet(ItemRow)
    BY <1>1, <1>2, FS_Surjection
<1> QED
    BY <1>3, FS_Subset

(* UPDATE devices keeps the table well typed when the new row is. *)
LEMMA UpdateDeviceType ==
    ASSUME devices \in [Devices -> DeviceRow \union {NULL}],
           NEW d \in Devices, NEW row,
           devices[d] # NULL => row \in DeviceRow,
           UpdateDevice(d, row)
    PROVE  devices' \in [Devices -> DeviceRow \union {NULL}]
BY DEF UpdateDevice

(* UPDATE screens likewise. *)
LEMMA UpdateScreenType ==
    ASSUME screens \in [Screens -> ScreenRow \union {NULL}],
           NEW s \in Screens, NEW row,
           screens[s] # NULL => row \in ScreenRow,
           UpdateScreen(s, row)
    PROVE  screens' \in [Screens -> ScreenRow \union {NULL}]
BY DEF UpdateScreen

(* Saving a screen's settings is well typed. *)
LEMMA UpdateScreenSettingsType ==
    ASSUME screens \in [Screens -> ScreenRow \union {NULL}],
           NEW s \in Screens, NEW c \in Contents, UpdateScreenSettings(s, c)
    PROVE  screens' \in [Screens -> ScreenRow \union {NULL}]
<1>1. screens[s] # NULL =>
         [screens[s] EXCEPT !.content = c, !.hash = NULL, !.fresh = FALSE] \in ScreenRow
    BY DEF ScreenRow
<1> QED
    BY <1>1, UpdateScreenType DEF UpdateScreenSettings

(* Clearing an entry of the shared cache is well typed. *)
LEMMA ClearScreenRenderedType ==
    ASSUME screens \in [Screens -> ScreenRow \union {NULL}],
           NEW s \in Screens, ClearScreenRendered(s)
    PROVE  screens' \in [Screens -> ScreenRow \union {NULL}]
<1>1. screens[s] # NULL => [screens[s] EXCEPT !.hash = NULL, !.fresh = FALSE] \in ScreenRow
    BY DEF ScreenRow
<1> QED
    BY <1>1, UpdateScreenType DEF ClearScreenRendered

(* The rows the model starts and creates rows with. *)
LEMMA NewRowsType == NewDevice \in DeviceRow /\ NewScreen \in ScreenRow
BY StoreAssumption DEF NewDevice, NewScreen, DeviceRow, ScreenRow

-----------------------------------------------------------------------------
(* Lemmas about requests. *)

(* Moving one request keeps the jobs well typed when its new job is. *)
LEMMA GotoOK ==
    ASSUME TypeInv, NEW r \in Reqs, NEW job, job \in Job, JobOK(job), Goto(r, job)
    PROVE  req' \in [Reqs -> Job] /\ \A q \in Reqs : JobOK(req'[q])
<1> USE DEF TypeInv, TypeOK, JobsTypeOK
<1>1. req' \in [Reqs -> Job]
    BY DEF Goto
<1>2. ASSUME NEW q \in Reqs
      PROVE  JobOK(req'[q])
    <2>1. CASE q = r
        BY <2>1 DEF Goto
    <2>2. CASE q # r
        BY <2>2 DEF Goto
    <2> QED
        BY <2>1, <2>2
<1> QED
    BY <1>1, <1>2

(* A free slot is a well-typed job, and so is the end of every handler. *)
LEMMA IdleOK == Idle \in Job /\ JobOK(Idle)
<1>1. Idle \in Job
    BY DEF Idle, Job, Pcs, Kinds
<1>2. ~ShowsBattery(Idle.row)
    BY DEF Idle, ShowsBattery
<1> QED
    BY <1>1, <1>2 DEF Idle, JobOK

LEMMA FinishOK ==
    ASSUME TypeInv, NEW r \in Reqs, Finish(r)
    PROVE  req' \in [Reqs -> Job] /\ \A q \in Reqs : JobOK(req'[q])
BY IdleOK, GotoOK DEF Finish

(* A poll without a picture goes on to its answer; any other request ends. *)
LEMMA NoPictureOK ==
    ASSUME TypeInv, NEW r \in Reqs, NoPicture(r)
    PROVE  req' \in [Reqs -> Job] /\ \A q \in Reqs : JobOK(req'[q])
<1> DEFINE job == [Idle EXCEPT !.pc = "respond", !.kind = "display",
                              !.dev = req[r].dev, !.row = req[r].row]
<1>1. CASE req[r].kind = "display"
    <2>1. req[r] \in Job /\ JobOK(req[r])
        BY DEF TypeInv, TypeOK, JobsTypeOK
    <2>2. req[r].dev \in Devices /\ req[r].row \in DeviceRow
        BY <1>1, <2>1 DEF JobOK
    <2>3. /\ job.pc = "respond" /\ job.kind = "display" /\ job.dev = req[r].dev
          /\ job.row = req[r].row /\ job.wrote = FALSE
        BY DEF Idle
    <2>4. job \in Job
        BY <2>2 DEF Idle, Job, Pcs, Kinds
    <2>5. JobOK(job)
        BY <2>2, <2>3 DEF JobOK
    <2> QED
        BY <1>1, <2>4, <2>5, GotoOK DEF NoPicture
<1>2. CASE req[r].kind # "display"
    BY <1>2, FinishOK DEF NoPicture
<1> QED
    BY <1>1, <1>2

(* A picture is drawn with the indicator of the device row it is for. *)
LEMMA PictureType ==
    ASSUME TypeInv, NEW row \in DeviceRow \union {NULL}, NEW sc \in ScreenRow,
           NEW x \in Data
    PROVE  Picture(row, sc, x) \in Image
<1>1. settings.dither \in Modes /\ settings.font \in Fonts
    BY DEF TypeInv, TypeOK, StoreTypeOK
<1>2. sc.content \in Contents /\ sc.dither \in Modes \union {NULL}
    BY DEF ScreenRow
<1>3. (IF row # NULL THEN row.bundle ELSE Classic) \in Bundles
    BY StoreAssumption DEF DeviceRow
<1>4. (IF ShowsBattery(row) THEN row.battery ELSE NULL) \in Batteries \union {NULL}
    BY DEF ShowsBattery, DeviceRow
<1> QED
    BY <1>1, <1>2, <1>3, <1>4 DEF Picture, Image

-----------------------------------------------------------------------------
(* Type correctness, action by action. *)

LEMMA JobAt ==
    ASSUME TypeInv, NEW r \in Reqs
    PROVE  req[r] \in Job /\ JobOK(req[r])
BY DEF TypeInv, TypeOK, JobsTypeOK

(* A step that only moves its own request. *)
LEMMA RequestStepType ==
    ASSUME TypeInv, UNCHANGED <<storeVars, uploadVars>>,
           offered' \in [Devices -> BOOLEAN],
           req' \in [Reqs -> Job] /\ \A q \in Reqs : JobOK(req'[q])
    PROVE  TypeInv'
BY DEF TypeInv, TypeOK, StoreTypeOK, UploadsTypeOK, JobsTypeOK, storeVars, uploadVars

LEMMA PollType ==
    ASSUME TypeInv, NEW r \in Reqs, NEW d \in Devices, Poll(r, d)
    PROVE  TypeInv'
<1> DEFINE job == [Idle EXCEPT !.pc = "telemetry", !.kind = "display",
                              !.dev = d, !.row = devices[d]]
<1>1. devices[d] \in DeviceRow
    BY DEF Poll, TypeInv, TypeOK, StoreTypeOK
<1>2. /\ job.pc = "telemetry" /\ job.kind = "display" /\ job.dev = d
      /\ job.row = devices[d] /\ job.wrote = FALSE
    BY DEF Idle
<1>3. job \in Job
    BY <1>1 DEF Idle, Job, Pcs, Kinds
<1>4. JobOK(job)
    BY <1>1, <1>2 DEF JobOK
<1> QED
    BY <1>3, <1>4, GotoOK, RequestStepType DEF Poll, TypeInv, TypeOK, JobsTypeOK

LEMMA TelemetryType ==
    ASSUME TypeInv, NEW r \in Reqs, Telemetry(r) \/ TelemetryFails(r)
    PROVE  TypeInv'
<1>1. CASE TelemetryFails(r)
    BY <1>1, FinishOK, RequestStepType DEF TelemetryFails, TypeInv, TypeOK, JobsTypeOK
<1>2. CASE Telemetry(r)
    <2> DEFINE job == [req[r] EXCEPT !.pc = "reload"]
    <2>1. PICK b \in Batteries \union {NULL} :
              UpdateTelemetry(req[r].dev, b) /\ Goto(r, job)
        BY <1>2 DEF Telemetry
    <2>2. req[r] \in Job /\ JobOK(req[r]) /\ req[r].pc = "telemetry"
        BY <1>2, JobAt DEF Telemetry
    <2>3. req[r].dev \in Devices /\ req[r].row \in DeviceRow /\ req[r].kind = "display"
        BY <2>2 DEF JobOK
    <2>4. job \in Job /\ JobOK(job)
        BY <2>2, <2>3 DEF Job, Pcs, JobOK
    <2>5. req' \in [Reqs -> Job] /\ \A q \in Reqs : JobOK(req'[q])
        BY <2>1, <2>4, GotoOK
    <2>6. devices' \in [Devices -> DeviceRow \union {NULL}]
        <3>1. devices \in [Devices -> DeviceRow \union {NULL}]
            BY DEF TypeInv, TypeOK, StoreTypeOK
        <3>2. devices[req[r].dev] # NULL =>
                 [devices[req[r].dev] EXCEPT !.battery = IF b = NULL THEN @ ELSE b]
                     \in DeviceRow
            BY <2>3, <3>1 DEF DeviceRow
        <3> QED
            BY <2>1, <2>3, <3>1, <3>2, UpdateDeviceType DEF UpdateTelemetry
    <2> QED
        BY <1>2, <2>5, <2>6 DEF Telemetry, TypeInv, TypeOK, StoreTypeOK, UploadsTypeOK,
           JobsTypeOK, uploadVars
<1> QED
    BY <1>1, <1>2

LEMMA ReloadType ==
    ASSUME TypeInv, NEW r \in Reqs, Reload(r)
    PROVE  TypeInv'
<1>1. req[r] \in Job /\ JobOK(req[r]) /\ req[r].pc = "reload"
    BY JobAt DEF Reload
<1>2. req[r].dev \in Devices /\ req[r].row \in DeviceRow /\ req[r].kind = "display"
    BY <1>1 DEF JobOK
<1>3. devices[req[r].dev] # NULL => devices[req[r].dev] \in DeviceRow
    BY <1>2 DEF TypeInv, TypeOK, StoreTypeOK
<1>4. PICK row \in DeviceRow : Goto(r, [req[r] EXCEPT !.pc = "pick", !.row = row])
    BY <1>2, <1>3 DEF Reload
<1> DEFINE job == [req[r] EXCEPT !.pc = "pick", !.row = row]
<1>5. job \in Job
    BY <1>1 DEF Job, Pcs
<1>6. /\ job.pc = "pick" /\ job.row = row /\ job.dev = req[r].dev
      /\ job.kind = "display" /\ job.wrote = req[r].wrote
    BY <1>1, <1>2 DEF Job
<1>7. JobOK(job)
    BY <1>1, <1>2, <1>6 DEF JobOK
<1> QED
    BY <1>4, <1>5, <1>7, GotoOK, RequestStepType DEF Reload, TypeInv, TypeOK, JobsTypeOK

LEMMA PickType ==
    ASSUME TypeInv, NEW r \in Reqs, Pick(r) \/ PickNone(r)
    PROVE  TypeInv'
<1>1. CASE PickNone(r)
    BY <1>1, NoPictureOK, RequestStepType DEF PickNone, TypeInv, TypeOK, JobsTypeOK
<1>2. CASE Pick(r)
    <2> DEFINE rows == ListPlaylistItems(req[r].row.playlist)
               n    == Cardinality(rows)
               pc   == IF req[r].kind = "display" THEN "advance" ELSE "getscreen"
               next == ((req[r].row.cursor % n) + 1) % n
    <2>1. req[r] \in Job /\ JobOK(req[r]) /\ req[r].pc = "pick"
        BY <1>2, JobAt DEF Pick
    <2>2. req[r].dev \in Devices /\ req[r].row \in DeviceRow
        BY <2>1 DEF JobOK
    <2>3. rows \in SUBSET ItemRow
        BY DEF ListPlaylistItems, TypeInv, TypeOK, StoreTypeOK
    <2>4. n \in Nat /\ n # 0
        BY <1>2, <2>3, ItemsFinite, FS_CardinalityType, FS_EmptySet DEF Pick
    <2>5. next \in Nat
        BY <2>2, <2>4 DEF DeviceRow
    <2>6. PICK i \in rows :
              Goto(r, [req[r] EXCEPT !.pc = pc, !.scr = i.screen, !.next = next])
        BY <1>2 DEF Pick
    <2> DEFINE job == [req[r] EXCEPT !.pc = pc, !.scr = i.screen, !.next = next]
    <2>7. i.screen \in Screens
        BY <2>3 DEF ItemRow
    <2>a. pc \in {"advance", "getscreen"} /\ (pc = "advance" => req[r].kind = "display")
        OBVIOUS
    <2> HIDE DEF rows, n, next, pc
    <2>8. job \in Job
        BY <2>1, <2>5, <2>7, <2>a DEF Job, Pcs
    <2>9. /\ job.pc = pc /\ job.scr = i.screen /\ job.row = req[r].row
          /\ job.dev = req[r].dev /\ job.kind = req[r].kind /\ job.wrote = req[r].wrote
        BY <2>1 DEF Job
    <2>10. JobOK(job)
        BY <2>1, <2>2, <2>7, <2>9, <2>a DEF JobOK
    <2> QED
        BY <1>2, <2>6, <2>8, <2>10, GotoOK, RequestStepType
           DEF Pick, TypeInv, TypeOK, JobsTypeOK
<1> QED
    BY <1>1, <1>2

LEMMA AdvanceType ==
    ASSUME TypeInv, NEW r \in Reqs, Advance(r)
    PROVE  TypeInv'
<1> DEFINE job == [req[r] EXCEPT !.pc = "getscreen", !.next = 0]
<1>1. req[r] \in Job /\ JobOK(req[r]) /\ req[r].pc = "advance"
    BY JobAt DEF Advance
<1>2. /\ req[r].dev \in Devices /\ req[r].row \in DeviceRow
      /\ req[r].scr \in Screens /\ req[r].kind = "display" /\ req[r].next \in Nat
    BY <1>1 DEF JobOK, Job
<1>3. job \in Job
    BY <1>1 DEF Job, Pcs
<1>4. /\ job.pc = "getscreen" /\ job.scr = req[r].scr /\ job.row = req[r].row
      /\ job.dev = req[r].dev /\ job.kind = "display" /\ job.wrote = req[r].wrote
    BY <1>1, <1>2 DEF Job
<1>5. JobOK(job)
    BY <1>1, <1>2, <1>4 DEF JobOK
<1>6. devices' \in [Devices -> DeviceRow \union {NULL}]
    <2>1. devices \in [Devices -> DeviceRow \union {NULL}]
        BY DEF TypeInv, TypeOK, StoreTypeOK
    <2>2. CASE UNCHANGED devices
        BY <2>1, <2>2
    <2>3. CASE SetPlaylistCursor(req[r].dev, req[r].next)
        <3>1. devices[req[r].dev] # NULL =>
                 [devices[req[r].dev] EXCEPT !.cursor = req[r].next] \in DeviceRow
            BY <1>2, <2>1 DEF DeviceRow
        <3> QED
            BY <1>2, <2>1, <2>3, <3>1, UpdateDeviceType DEF SetPlaylistCursor
    <2> QED
        BY <2>2, <2>3 DEF Advance
<1>7. req' \in [Reqs -> Job] /\ \A q \in Reqs : JobOK(req'[q])
    BY <1>3, <1>5, GotoOK DEF Advance
<1> QED
    BY <1>6, <1>7 DEF Advance, TypeInv, TypeOK, StoreTypeOK, UploadsTypeOK,
       JobsTypeOK, uploadVars

LEMMA GetScreenType ==
    ASSUME TypeInv, NEW r \in Reqs, GetScreen(r)
    PROVE  TypeInv'
<1>1. req[r] \in Job /\ JobOK(req[r]) /\ req[r].pc = "getscreen" /\ req[r].scr \in Screens
    BY JobAt DEF GetScreen, JobOK
<1>2. CASE NoPicture(r)
    BY <1>2, NoPictureOK, RequestStepType DEF GetScreen, TypeInv, TypeOK, JobsTypeOK
<1>3. CASE screens[req[r].scr] # NULL /\ ~NoPicture(r)
    <2> DEFINE sc == screens[req[r].scr]
               pc == CASE req[r].kind = "display" -> "lookup"
                       [] req[r].kind = "preview" -> "getdevice"
                       [] OTHER -> "compute"
               job == [req[r] EXCEPT !.sc = sc, !.pc = pc]
    <2>1. sc \in ScreenRow
        BY <1>1, <1>3 DEF TypeInv, TypeOK, StoreTypeOK
    <2>2. Goto(r, job)
        BY <1>3 DEF GetScreen
    <2>3. /\ pc \in {"lookup", "getdevice", "compute"}
          /\ pc = "lookup" => req[r].kind = "display"
          /\ pc = "getdevice" => req[r].kind = "preview"
        OBVIOUS
    <2> HIDE DEF sc, pc
    <2>4. job \in Job
        BY <1>1, <2>1, <2>3 DEF Job, Pcs
    <2>5. /\ job.pc = pc /\ job.sc = sc /\ job.scr = req[r].scr /\ job.row = req[r].row
          /\ job.dev = req[r].dev /\ job.kind = req[r].kind /\ job.wrote = req[r].wrote
        BY <1>1 DEF Job
    <2>6. JobOK(job)
        BY <1>1, <2>1, <2>3, <2>5 DEF JobOK
    <2> QED
        BY <2>2, <2>4, <2>6, GotoOK, RequestStepType
           DEF GetScreen, TypeInv, TypeOK, JobsTypeOK
<1> QED
    BY <1>2, <1>3 DEF GetScreen

(* A hit of the cache lookup names a picture that is on disk. *)
LEMMA CachedHashType ==
    ASSUME TypeInv, NEW j, CachedHash(j) # NULL
    PROVE  CachedHash(j) \in files /\ CachedHash(j) \in Image
BY DEF CachedHash, TypeInv, TypeOK, UploadsTypeOK

LEMMA LookupType ==
    ASSUME TypeInv, NEW r \in Reqs, Lookup(r)
    PROVE  TypeInv'
<1> DEFINE hash == CachedHash(req[r])
           hit  == [req[r] EXCEPT !.pc = "respond", !.img = hash]
           miss == [req[r] EXCEPT !.pc = "compute"]
<1>1. req[r] \in Job /\ JobOK(req[r]) /\ req[r].pc = "lookup"
    BY JobAt DEF Lookup
<1>2. /\ req[r].kind = "display" /\ req[r].dev \in Devices /\ req[r].row \in DeviceRow
      /\ req[r].scr \in Screens /\ req[r].sc \in ScreenRow /\ ~req[r].wrote
    BY <1>1 DEF JobOK, Job
<1>3. CASE NoPicture(r)
    BY <1>3, NoPictureOK, RequestStepType DEF Lookup, TypeInv, TypeOK, JobsTypeOK
<1>4. CASE screens[req[r].scr] # NULL /\ hash # NULL /\ Goto(r, hit)
    <2>1. hash \in Image
        BY <1>4, CachedHashType
    <2>2. Goto(r, hit)
        BY <1>4
    <2> HIDE DEF hash
    <2>3. hit \in Job
        BY <1>1, <2>1 DEF Job, Pcs
    <2>4. /\ hit.pc = "respond" /\ hit.row = req[r].row /\ hit.dev = req[r].dev
          /\ hit.kind = req[r].kind /\ hit.wrote = req[r].wrote
        BY <1>1 DEF Job
    <2>5. JobOK(hit)
        BY <1>2, <2>4 DEF JobOK
    <2> QED
        BY <2>2, <2>3, <2>5, GotoOK, RequestStepType DEF Lookup, TypeInv, TypeOK, JobsTypeOK
<1>5. CASE screens[req[r].scr] # NULL /\ Goto(r, miss)
    <2>1. Goto(r, miss)
        BY <1>5
    <2>2. miss \in Job
        BY <1>1 DEF Job, Pcs
    <2>3. /\ miss.pc = "compute" /\ miss.row = req[r].row /\ miss.dev = req[r].dev
          /\ miss.kind = req[r].kind /\ miss.wrote = req[r].wrote
          /\ miss.scr = req[r].scr /\ miss.sc = req[r].sc
        BY <1>1 DEF Job
    <2>4. JobOK(miss)
        BY <1>2, <2>3 DEF JobOK
    <2> QED
        BY <2>1, <2>2, <2>4, GotoOK, RequestStepType DEF Lookup, TypeInv, TypeOK, JobsTypeOK
<1> QED
    BY <1>3, <1>4, <1>5 DEF Lookup

LEMMA ComputeType ==
    ASSUME TypeInv, NEW r \in Reqs, Compute(r) \/ ComputeFails(r)
    PROVE  TypeInv'
<1>1. CASE ComputeFails(r)
    BY <1>1, NoPictureOK, RequestStepType DEF ComputeFails, TypeInv, TypeOK, JobsTypeOK
<1>2. CASE Compute(r)
    <2>1. req[r] \in Job /\ JobOK(req[r]) /\ req[r].pc = "compute"
        BY <1>2, JobAt DEF Compute
    <2>2. PICK x \in Data :
              Goto(r, [req[r] EXCEPT !.pc = "write",
                                     !.img = Picture(req[r].row, req[r].sc, x)])
        BY <1>2 DEF Compute
    <2> DEFINE img == Picture(req[r].row, req[r].sc, x)
               job == [req[r] EXCEPT !.pc = "write", !.img = img]
    <2>3. img \in Image
        BY <2>1, PictureType DEF Job, JobOK
    <2> HIDE DEF img
    <2>4. job \in Job
        BY <2>1, <2>3 DEF Job, Pcs
    <2>5. /\ job.pc = "write" /\ job.img = img /\ job.row = req[r].row
          /\ job.dev = req[r].dev /\ job.kind = req[r].kind /\ job.wrote = req[r].wrote
          /\ job.scr = req[r].scr /\ job.sc = req[r].sc
        BY <2>1 DEF Job
    <2>6. JobOK(job)
        BY <2>1, <2>3, <2>5 DEF JobOK
    <2>7. Goto(r, job)
        BY <2>2 DEF img
    <2> QED
        BY <1>2, <2>4, <2>6, <2>7, GotoOK, RequestStepType
           DEF Compute, TypeInv, TypeOK, JobsTypeOK
<1> QED
    BY <1>1, <1>2

LEMMA WriteType ==
    ASSUME TypeInv, NEW r \in Reqs, Write(r) \/ WriteFails(r)
    PROVE  TypeInv'
<1>1. CASE WriteFails(r)
    <2>1. req' \in [Reqs -> Job] /\ \A q \in Reqs : JobOK(req'[q])
        BY <1>1, JobAt, NoPictureOK DEF WriteFails
    <2>2. req[r].img \in Image
        BY <1>1, JobAt DEF WriteFails, JobOK
    <2>3. UploadsTypeOK'
        BY <1>1, <2>2 DEF WriteFails, WriteIfAbsent, UploadsTypeOK, uploadVars, TypeInv, TypeOK
    <2> QED
        BY <1>1, <2>1, <2>3 DEF WriteFails, TypeInv, TypeOK, StoreTypeOK, JobsTypeOK, storeVars
<1>2. CASE Write(r)
    <2> DEFINE new == req[r].img \notin files
               job == [req[r] EXCEPT !.pc = "record", !.wrote = new]
    <2>1. req[r] \in Job /\ JobOK(req[r]) /\ req[r].pc = "write" /\ Goto(r, job)
        BY <1>2, JobAt DEF Write
    <2>2. new \in BOOLEAN
        OBVIOUS
    <2> HIDE DEF new
    <2>3. job \in Job
        BY <2>1, <2>2 DEF Job, Pcs
    <2>4. /\ job.pc = "record" /\ job.img = req[r].img /\ job.row = req[r].row
          /\ job.dev = req[r].dev /\ job.kind = req[r].kind
          /\ job.scr = req[r].scr /\ job.sc = req[r].sc
        BY <2>1 DEF Job
    <2>5. JobOK(job)
        BY <2>1, <2>4 DEF JobOK
    <2>6. req' \in [Reqs -> Job] /\ \A q \in Reqs : JobOK(req'[q])
        BY <2>1, <2>3, <2>5, GotoOK
    <2>7. req[r].img \in Image
        BY <2>1 DEF JobOK
    <2>8. UploadsTypeOK'
        BY <1>2, <2>7 DEF Write, WriteIfAbsent, UploadsTypeOK, TypeInv, TypeOK
    <2> QED
        BY <1>2, <2>6, <2>8 DEF Write, TypeInv, TypeOK, StoreTypeOK, JobsTypeOK, storeVars
<1> QED
    BY <1>1, <1>2

LEMMA RecordType ==
    ASSUME TypeInv, NEW r \in Reqs, Record(r)
    PROVE  TypeInv'
<1> DEFINE job == [req[r] EXCEPT !.pc = "respond"]
<1>1. req[r] \in Job /\ JobOK(req[r]) /\ req[r].pc = "record"
    BY JobAt DEF Record
<1>2. /\ req[r].scr \in Screens /\ req[r].img \in Image
      /\ req[r].row \in DeviceRow \union {NULL}
      /\ ShowsBattery(req[r].row) => req[r].dev \in Devices /\ req[r].row \in DeviceRow
    BY <1>1 DEF JobOK, Job, ShowsBattery
<1>3. job \in Job
    BY <1>1 DEF Job, Pcs
<1>4. /\ job.pc = "respond" /\ job.row = req[r].row /\ job.dev = req[r].dev
      /\ job.kind = req[r].kind /\ job.wrote = req[r].wrote
    BY <1>1 DEF Job
<1>5. req[r].kind = "display" => JobOK(job)
    BY <1>1, <1>4 DEF JobOK
<1>6. req' \in [Reqs -> Job] /\ \A q \in Reqs : JobOK(req'[q])
    BY <1>3, <1>5, GotoOK, FinishOK DEF Record
<1>7. screens' \in [Screens -> ScreenRow \union {NULL}]
    <2>1. screens \in [Screens -> ScreenRow \union {NULL}]
        BY DEF TypeInv, TypeOK, StoreTypeOK
    <2>2. CASE UNCHANGED screens
        BY <2>1, <2>2
    <2>3. CASE SetScreenRendered(req[r].scr, req[r].img)
        <3>1. screens[req[r].scr] # NULL =>
                 [screens[req[r].scr] EXCEPT !.hash = req[r].img, !.fresh = TRUE] \in ScreenRow
            BY <1>2, <2>1 DEF ScreenRow
        <3> QED
            BY <1>2, <2>1, <2>3, <3>1, UpdateScreenType DEF SetScreenRendered
    <2> QED
        BY <2>2, <2>3 DEF Record
<1>8. renders' \in [Devices -> [Screens -> RenderRow \union {NULL}]]
    <2>1. renders \in [Devices -> [Screens -> RenderRow \union {NULL}]]
        BY DEF TypeInv, TypeOK, StoreTypeOK
    <2>2. CASE UNCHANGED renders
        BY <2>1, <2>2
    <2>3. CASE ShowsBattery(req[r].row) /\ SetDeviceScreenRender(req[r].dev, req[r].scr,
                                               req[r].img, req[r].row.battery)
        <3>1. [hash |-> req[r].img, bat |-> req[r].row.battery, fresh |-> TRUE] \in RenderRow
            BY <1>2, <2>3 DEF RenderRow, DeviceRow
        <3> QED
            BY <1>2, <2>1, <2>3, <3>1 DEF SetDeviceScreenRender
    <2> QED
        BY <2>2, <2>3 DEF Record
<1> QED
    BY <1>6, <1>7, <1>8 DEF Record, TypeInv, TypeOK, StoreTypeOK, UploadsTypeOK,
       JobsTypeOK, uploadVars

LEMMA RespondType ==
    ASSUME TypeInv, NEW r \in Reqs, Respond(r)
    PROVE  TypeInv'
<1> DEFINE job == [Idle EXCEPT !.pc = "clear", !.kind = "display",
                              !.dev = req[r].dev, !.row = req[r].row]
<1>1. req[r] \in Job /\ JobOK(req[r]) /\ req[r].pc = "respond"
    BY JobAt DEF Respond
<1>2. req[r].dev \in Devices /\ req[r].row \in DeviceRow
    BY <1>1 DEF JobOK
<1>3. /\ job.pc = "clear" /\ job.kind = "display" /\ job.dev = req[r].dev
      /\ job.row = req[r].row /\ job.wrote = FALSE
    BY DEF Idle
<1>4. job \in Job
    BY <1>2 DEF Idle, Job, Pcs, Kinds
<1>5. JobOK(job)
    BY <1>2, <1>3 DEF JobOK
<1>6. req' \in [Reqs -> Job] /\ \A q \in Reqs : JobOK(req'[q])
    BY <1>4, <1>5, GotoOK, FinishOK DEF Respond
<1>7. offered' \in [Devices -> BOOLEAN]
    BY DEF Respond, TypeInv, TypeOK, JobsTypeOK
<1> QED
    BY <1>6, <1>7, RequestStepType DEF Respond

LEMMA ClearType ==
    ASSUME TypeInv, NEW r \in Reqs, Clear(r)
    PROVE  TypeInv'
<1>1. req[r].dev \in Devices
    BY JobAt DEF Clear, JobOK
<1>2. devices' \in [Devices -> DeviceRow \union {NULL}]
    <2>1. devices \in [Devices -> DeviceRow \union {NULL}]
        BY DEF TypeInv, TypeOK, StoreTypeOK
    <2>2. CASE UNCHANGED devices
        BY <2>1, <2>2
    <2>3. CASE ClearFirmwareUpdate(req[r].dev)
        <3>1. devices[req[r].dev] # NULL =>
                 [devices[req[r].dev] EXCEPT !.firmware = FALSE] \in DeviceRow
            BY <1>1, <2>1 DEF DeviceRow
        <3> QED
            BY <1>1, <2>1, <2>3, <3>1, UpdateDeviceType DEF ClearFirmwareUpdate
    <2> QED
        BY <2>2, <2>3 DEF Clear
<1>3. req' \in [Reqs -> Job] /\ \A q \in Reqs : JobOK(req'[q])
    BY FinishOK DEF Clear
<1> QED
    BY <1>2, <1>3 DEF Clear, TypeInv, TypeOK, StoreTypeOK, UploadsTypeOK,
       JobsTypeOK, uploadVars

-----------------------------------------------------------------------------
(* Type correctness of the admin handlers. *)

(* An admin handler that writes tables and leaves the requests alone. *)
LEMMA TableStepType ==
    ASSUME TypeInv, StoreTypeOK', UNCHANGED <<uploadVars, req>>,
           offered' \in [Devices -> BOOLEAN]
    PROVE  TypeInv'
BY DEF TypeInv, TypeOK, UploadsTypeOK, JobsTypeOK, uploadVars

LEMMA DeviceAdminType ==
    ASSUME TypeInv, NEW d \in Devices,
           \/ DeviceCreate(d) \/ DeviceUpdate(d) \/ DeviceDelete(d)
           \/ DeviceFirmware(d) \/ DeviceFirmwareCancel(d)
    PROVE  TypeInv'
<1>1. /\ devices \in [Devices -> DeviceRow \union {NULL}]
      /\ renders \in [Devices -> [Screens -> RenderRow \union {NULL}]]
      /\ playlists \in SUBSET Playlists
      /\ offered \in [Devices -> BOOLEAN]
    BY DEF TypeInv, TypeOK, StoreTypeOK, JobsTypeOK
<1>2. CASE DeviceCreate(d)
    <2>1. devices' \in [Devices -> DeviceRow \union {NULL}]
        BY <1>1, <1>2, NewRowsType DEF DeviceCreate, CreateDevice
    <2>2. StoreTypeOK'
        BY <1>2, <2>1 DEF DeviceCreate, TypeInv, TypeOK, StoreTypeOK
    <2> QED
        BY <1>1, <1>2, <2>2, TableStepType DEF DeviceCreate
<1>3. CASE DeviceUpdate(d)
    <2>1. PICK p \in playlists \union {NULL}, b \in Bundles, show \in ShowChoices :
              UpdateDeviceSettings(d, p, b, show)
        BY <1>3 DEF DeviceUpdate
    <2>2. devices[d] # NULL =>
             [devices[d] EXCEPT !.playlist = p, !.bundle = b, !.showBattery = show]
                 \in DeviceRow
        BY <1>1, AdminAssumption DEF DeviceRow
    <2>3. devices' \in [Devices -> DeviceRow \union {NULL}]
        BY <1>1, <2>1, <2>2, UpdateDeviceType DEF UpdateDeviceSettings
    <2>4. StoreTypeOK'
        BY <1>3, <2>3 DEF DeviceUpdate, TypeInv, TypeOK, StoreTypeOK
    <2> QED
        BY <1>1, <1>3, <2>4, TableStepType DEF DeviceUpdate, jobVars
<1>4. CASE DeviceDelete(d)
    <2>1. /\ devices' \in [Devices -> DeviceRow \union {NULL}]
          /\ renders' \in [Devices -> [Screens -> RenderRow \union {NULL}]]
        BY <1>1, <1>4 DEF DeviceDelete, DeleteDevice
    <2>2. StoreTypeOK'
        BY <1>4, <2>1 DEF DeviceDelete, TypeInv, TypeOK, StoreTypeOK
    <2> QED
        BY <1>1, <1>4, <2>2, TableStepType DEF DeviceDelete, jobVars
<1>5. CASE DeviceFirmware(d)
    <2>1. PICK u \in Urls : QueueFirmwareUpdate(d, u)
        BY <1>5 DEF DeviceFirmware
    <2>2. devices[d] # NULL =>
             [devices[d] EXCEPT !.firmware = TRUE, !.url = u] \in DeviceRow
        BY <1>1 DEF DeviceRow
    <2>3. devices' \in [Devices -> DeviceRow \union {NULL}]
        BY <1>1, <2>1, <2>2, UpdateDeviceType DEF QueueFirmwareUpdate
    <2>4. StoreTypeOK'
        BY <1>5, <2>3 DEF DeviceFirmware, TypeInv, TypeOK, StoreTypeOK
    <2> QED
        BY <1>1, <1>5, <2>4, TableStepType DEF DeviceFirmware
<1>6. CASE DeviceFirmwareCancel(d)
    <2>1. devices[d] # NULL => [devices[d] EXCEPT !.firmware = FALSE] \in DeviceRow
        BY <1>1 DEF DeviceRow
    <2>2. devices' \in [Devices -> DeviceRow \union {NULL}]
        BY <1>1, <1>6, <2>1, UpdateDeviceType DEF DeviceFirmwareCancel, ClearFirmwareUpdate
    <2>3. StoreTypeOK'
        BY <1>6, <2>2 DEF DeviceFirmwareCancel, TypeInv, TypeOK, StoreTypeOK
    <2> QED
        BY <1>1, <1>6, <2>3, TableStepType DEF DeviceFirmwareCancel, jobVars
<1> QED
    BY <1>2, <1>3, <1>4, <1>5, <1>6

LEMMA RefreshType ==
    ASSUME TypeInv, NEW r \in Reqs,
           \/ \E d \in Devices : DeviceForceRefresh(r, d)
           \/ RefreshList(r) \/ RefreshClearScreen(r) \/ RefreshClearDevice(r)
    PROVE  TypeInv'
<1>1. req[r] \in Job /\ JobOK(req[r])
    BY JobAt
<1>2. ASSUME NEW d \in Devices, DeviceForceRefresh(r, d)
      PROVE  TypeInv'
    <2> DEFINE job == [Idle EXCEPT !.pc = "list", !.kind = "refresh",
                                  !.dev = d, !.row = devices[d]]
    <2>1. devices[d] \in DeviceRow
        BY <1>2 DEF DeviceForceRefresh, TypeInv, TypeOK, StoreTypeOK
    <2>2. /\ job.pc = "list" /\ job.kind = "refresh" /\ job.dev = d
          /\ job.row = devices[d] /\ job.wrote = FALSE
        BY DEF Idle
    <2>3. job \in Job
        BY <2>1 DEF Idle, Job, Pcs, Kinds
    <2>4. JobOK(job)
        BY <2>1, <2>2 DEF JobOK
    <2> QED
        BY <1>2, <2>3, <2>4, GotoOK, RequestStepType
           DEF DeviceForceRefresh, TypeInv, TypeOK, JobsTypeOK
<1>3. CASE RefreshList(r)
    <2> DEFINE p    == req[r].row.playlist
               todo == IF p = NULL THEN {} ELSE {i.screen : i \in ListPlaylistItems(p)}
               job  == [req[r] EXCEPT !.pc = "clearscreens", !.todo = todo]
    <2>1. req[r].pc = "list" /\ Goto(r, job)
        BY <1>3 DEF RefreshList
    <2>2. todo \in SUBSET Screens
        BY DEF ListPlaylistItems, ItemRow, TypeInv, TypeOK, StoreTypeOK
    <2> HIDE DEF todo
    <2>3. job \in Job
        BY <1>1, <2>2 DEF Job, Pcs
    <2>4. /\ job.pc = "clearscreens" /\ job.dev = req[r].dev /\ job.row = req[r].row
          /\ job.kind = req[r].kind /\ job.wrote = req[r].wrote
        BY <1>1 DEF Job
    <2>5. JobOK(job)
        BY <1>1, <2>1, <2>4 DEF JobOK
    <2> QED
        BY <1>3, <2>1, <2>3, <2>5, GotoOK, RequestStepType
           DEF RefreshList, TypeInv, TypeOK, JobsTypeOK
<1>4. CASE RefreshClearScreen(r)
    <2>1. PICK s \in req[r].todo :
              /\ ClearScreenRendered(s)
              /\ Goto(r, [req[r] EXCEPT !.todo = @ \ {s}])
        BY <1>4 DEF RefreshClearScreen
    <2> DEFINE job == [req[r] EXCEPT !.todo = @ \ {s}]
    <2>2. s \in Screens
        BY <1>1 DEF Job
    <2>3. job \in Job
        BY <1>1 DEF Job
    <2>4. /\ job.pc = "clearscreens" /\ job.dev = req[r].dev /\ job.row = req[r].row
          /\ job.kind = req[r].kind /\ job.wrote = req[r].wrote
        BY <1>1, <1>4 DEF Job, RefreshClearScreen
    <2>5. JobOK(job)
        BY <1>1, <1>4, <2>4 DEF JobOK, RefreshClearScreen
    <2>6. req' \in [Reqs -> Job] /\ \A q \in Reqs : JobOK(req'[q])
        BY <2>1, <2>3, <2>5, GotoOK
    <2>7. screens' \in [Screens -> ScreenRow \union {NULL}]
        BY <2>1, <2>2, ClearScreenRenderedType DEF TypeInv, TypeOK, StoreTypeOK
    <2> QED
        BY <1>4, <2>6, <2>7 DEF RefreshClearScreen, TypeInv, TypeOK, StoreTypeOK,
           UploadsTypeOK, JobsTypeOK, uploadVars
<1>5. CASE RefreshClearDevice(r)
    <2> DEFINE job == [req[r] EXCEPT !.pc = "pick"]
    <2>1. job \in Job
        BY <1>1 DEF Job, Pcs
    <2>2. /\ job.pc = "pick" /\ job.dev = req[r].dev /\ job.row = req[r].row
          /\ job.kind = req[r].kind /\ job.wrote = req[r].wrote
        BY <1>1 DEF Job
    <2>3. JobOK(job)
        BY <1>1, <1>5, <2>2 DEF JobOK, RefreshClearDevice
    <2>4. req' \in [Reqs -> Job] /\ \A q \in Reqs : JobOK(req'[q])
        BY <1>5, <2>1, <2>3, GotoOK DEF RefreshClearDevice
    <2>5. renders' \in [Devices -> [Screens -> RenderRow \union {NULL}]]
        BY <1>5 DEF RefreshClearDevice, ClearDeviceRenders, TypeInv, TypeOK, StoreTypeOK
    <2> QED
        BY <1>5, <2>4, <2>5 DEF RefreshClearDevice, TypeInv, TypeOK, StoreTypeOK,
           UploadsTypeOK, JobsTypeOK, uploadVars
<1> QED
    BY <1>2, <1>3, <1>4, <1>5

LEMMA ScreenAdminType ==
    ASSUME TypeInv, NEW s \in Screens,
           ScreenCreate(s) \/ ScreenDelete(s) \/ ScreenUpload(s)
    PROVE  TypeInv'
<1>1. /\ screens \in [Screens -> ScreenRow \union {NULL}]
      /\ renders \in [Devices -> [Screens -> RenderRow \union {NULL}]]
      /\ items \in SUBSET ItemRow
      /\ offered \in [Devices -> BOOLEAN]
    BY DEF TypeInv, TypeOK, StoreTypeOK, JobsTypeOK
<1>2. CASE ScreenCreate(s)
    <2>1. screens' \in [Screens -> ScreenRow \union {NULL}]
        BY <1>1, <1>2, NewRowsType DEF ScreenCreate, CreateScreen
    <2>2. StoreTypeOK'
        BY <1>2, <2>1 DEF ScreenCreate, TypeInv, TypeOK, StoreTypeOK
    <2> QED
        BY <1>1, <1>2, <2>2, TableStepType DEF ScreenCreate, jobVars
<1>3. CASE ScreenDelete(s)
    <2>1. /\ screens' \in [Screens -> ScreenRow \union {NULL}]
          /\ items' \in SUBSET ItemRow
          /\ renders' \in [Devices -> [Screens -> RenderRow \union {NULL}]]
        BY <1>1, <1>3 DEF ScreenDelete, DeleteScreen
    <2>2. StoreTypeOK'
        BY <1>3, <2>1 DEF ScreenDelete, TypeInv, TypeOK, StoreTypeOK
    <2> QED
        BY <1>1, <1>3, <2>2, TableStepType DEF ScreenDelete, jobVars
<1>4. CASE ScreenUpload(s)
    <2>1. PICK c \in Contents : UpdateScreenSettings(s, c)
        BY <1>4 DEF ScreenUpload
    <2>2. screens' \in [Screens -> ScreenRow \union {NULL}]
        BY <1>1, <2>1, UpdateScreenSettingsType
    <2>3. StoreTypeOK'
        BY <1>4, <2>2 DEF ScreenUpload, TypeInv, TypeOK, StoreTypeOK
    <2> QED
        BY <1>1, <1>4, <2>3, TableStepType DEF ScreenUpload, jobVars
<1> QED
    BY <1>2, <1>3, <1>4

LEMMA ScreenUpdateType ==
    ASSUME TypeInv, NEW r \in Reqs,
           (\E s \in Screens : ScreenUpdate(r, s)) \/ ScreenUpdateDither(r)
    PROVE  TypeInv'
<1>1. screens \in [Screens -> ScreenRow \union {NULL}]
    BY DEF TypeInv, TypeOK, StoreTypeOK
<1>2. ASSUME NEW s \in Screens, ScreenUpdate(r, s)
      PROVE  TypeInv'
    <2>1. PICK c \in Contents, m \in Modes \union {NULL} :
              /\ UpdateScreenSettings(s, c)
              /\ Goto(r, [Idle EXCEPT !.pc = "dither", !.kind = "edit",
                                      !.scr = s, !.arg = m])
        BY <1>2 DEF ScreenUpdate
    <2> DEFINE job == [Idle EXCEPT !.pc = "dither", !.kind = "edit",
                                  !.scr = s, !.arg = m]
    <2>2. job \in Job
        BY DEF Idle, Job, Pcs, Kinds
    <2>3. /\ job.pc = "dither" /\ job.kind = "edit" /\ job.scr = s
          /\ job.arg = m /\ job.row = NULL /\ job.wrote = FALSE
        BY DEF Idle
    <2>4. JobOK(job)
        BY <2>3 DEF JobOK, ShowsBattery
    <2>5. req' \in [Reqs -> Job] /\ \A q \in Reqs : JobOK(req'[q])
        BY <2>1, <2>2, <2>4, GotoOK
    <2>6. screens' \in [Screens -> ScreenRow \union {NULL}]
        BY <1>1, <2>1, UpdateScreenSettingsType
    <2> QED
        BY <1>2, <2>5, <2>6 DEF ScreenUpdate, TypeInv, TypeOK, StoreTypeOK,
           UploadsTypeOK, JobsTypeOK, uploadVars
<1>3. CASE ScreenUpdateDither(r)
    <2>1. req[r].scr \in Screens /\ req[r].arg \in Modes \union {NULL}
        BY <1>3, JobAt DEF ScreenUpdateDither, JobOK
    <2>2. screens[req[r].scr] # NULL =>
             [screens[req[r].scr] EXCEPT !.dither = req[r].arg, !.hash = NULL, !.fresh = FALSE]
                 \in ScreenRow
        BY <1>1, <2>1 DEF ScreenRow
    <2>3. screens' \in [Screens -> ScreenRow \union {NULL}]
        BY <1>1, <1>3, <2>1, <2>2, UpdateScreenType DEF ScreenUpdateDither, UpdateScreenDither
    <2>4. req' \in [Reqs -> Job] /\ \A q \in Reqs : JobOK(req'[q])
        BY <1>3, FinishOK DEF ScreenUpdateDither
    <2> QED
        BY <1>3, <2>3, <2>4 DEF ScreenUpdateDither, TypeInv, TypeOK, StoreTypeOK,
           UploadsTypeOK, JobsTypeOK, uploadVars
<1> QED
    BY <1>2, <1>3

LEMMA PreviewType ==
    ASSUME TypeInv, NEW r \in Reqs,
           (\E s \in Screens : ScreenPreview(r, s)) \/ PreviewDevice(r)
    PROVE  TypeInv'
<1>1. ASSUME NEW s \in Screens, ScreenPreview(r, s)
      PROVE  TypeInv'
    <2>1. PICK d \in Devices \union {NULL} :
              Goto(r, [Idle EXCEPT !.pc = "getscreen", !.kind = "preview",
                                   !.dev = d, !.scr = s])
        BY <1>1 DEF ScreenPreview
    <2> DEFINE job == [Idle EXCEPT !.pc = "getscreen", !.kind = "preview",
                                  !.dev = d, !.scr = s]
    <2>2. job \in Job
        BY DEF Idle, Job, Pcs, Kinds
    <2>3. /\ job.pc = "getscreen" /\ job.kind = "preview" /\ job.scr = s
          /\ job.row = NULL /\ job.wrote = FALSE
        BY DEF Idle
    <2>4. JobOK(job)
        BY <2>3 DEF JobOK, ShowsBattery
    <2> QED
        BY <1>1, <2>1, <2>2, <2>4, GotoOK, RequestStepType
           DEF ScreenPreview, TypeInv, TypeOK, JobsTypeOK
<1>2. CASE PreviewDevice(r)
    <2> DEFINE row == IF req[r].dev = NULL THEN NULL ELSE devices[req[r].dev]
               job == [req[r] EXCEPT !.pc = "compute", !.row = row]
    <2>1. req[r] \in Job /\ JobOK(req[r]) /\ req[r].pc = "getdevice" /\ Goto(r, job)
        BY <1>2, JobAt DEF PreviewDevice
    <2>2. req[r].dev \in Devices \union {NULL}
        BY <2>1 DEF Job
    <2>3. /\ row \in DeviceRow \union {NULL}
          /\ ShowsBattery(row) => req[r].dev \in Devices
        BY <2>2 DEF ShowsBattery, TypeInv, TypeOK, StoreTypeOK
    <2> HIDE DEF row
    <2>4. job \in Job
        BY <2>1, <2>3 DEF Job, Pcs
    <2>5. /\ job.pc = "compute" /\ job.row = row /\ job.dev = req[r].dev
          /\ job.kind = req[r].kind /\ job.wrote = req[r].wrote
          /\ job.scr = req[r].scr /\ job.sc = req[r].sc
        BY <2>1 DEF Job
    <2>6. JobOK(job)
        BY <2>1, <2>3, <2>5 DEF JobOK
    <2> QED
        BY <1>2, <2>1, <2>4, <2>6, GotoOK, RequestStepType
           DEF PreviewDevice, TypeInv, TypeOK, JobsTypeOK
<1> QED
    BY <1>1, <1>2

LEMMA PlaylistAdminType ==
    ASSUME TypeInv, PlaylistAdmin
    PROVE  TypeInv'
<1>1. /\ devices \in [Devices -> DeviceRow \union {NULL}]
      /\ playlists \in SUBSET Playlists
      /\ items \in SUBSET ItemRow
      /\ offered \in [Devices -> BOOLEAN]
    BY DEF TypeInv, TypeOK, StoreTypeOK, JobsTypeOK
<1>2. ASSUME NEW p \in Playlists, PlaylistCreate(p)
      PROVE  TypeInv'
    <2>1. StoreTypeOK'
        BY <1>1, <1>2 DEF PlaylistCreate, CreatePlaylist, TypeInv, TypeOK, StoreTypeOK
    <2> QED
        BY <1>1, <1>2, <2>1, TableStepType DEF PlaylistCreate, jobVars
<1>3. ASSUME NEW p \in Playlists, PlaylistDelete(p)
      PROVE  TypeInv'
    <2>1. ASSUME NEW d \in Devices, devices[d] # NULL
          PROVE  [devices[d] EXCEPT !.playlist = NULL] \in DeviceRow
        BY <1>1, <2>1 DEF DeviceRow
    <2>2. devices' \in [Devices -> DeviceRow \union {NULL}]
        BY <1>1, <1>3, <2>1 DEF PlaylistDelete, DeletePlaylist
    <2>3. StoreTypeOK'
        BY <1>1, <1>3, <2>2 DEF PlaylistDelete, DeletePlaylist, TypeInv, TypeOK, StoreTypeOK
    <2> QED
        BY <1>1, <1>3, <2>3, TableStepType DEF PlaylistDelete, jobVars
<1>4. ASSUME NEW p \in Playlists, NEW s \in Screens, PlaylistAddItem(p, s)
      PROVE  TypeInv'
    <2>1. PICK n \in 0..MaxPos :
              items' = items \union {[playlist |-> p, pos |-> n, screen |-> s]}
        BY <1>4 DEF PlaylistAddItem, AddPlaylistItem
    <2>2. items' \in SUBSET ItemRow
        BY <1>1, <2>1 DEF ItemRow
    <2>3. StoreTypeOK'
        BY <1>4, <2>2 DEF PlaylistAddItem, TypeInv, TypeOK, StoreTypeOK
    <2> QED
        BY <1>1, <1>4, <2>3, TableStepType DEF PlaylistAddItem, jobVars
<1>5. ASSUME NEW i \in items, PlaylistRemoveItem(i)
      PROVE  TypeInv'
    <2>1. StoreTypeOK'
        BY <1>1, <1>5 DEF PlaylistRemoveItem, RemovePlaylistItem, TypeInv, TypeOK, StoreTypeOK
    <2> QED
        BY <1>1, <1>5, <2>1, TableStepType DEF PlaylistRemoveItem, jobVars
<1> QED
    BY <1>2, <1>3, <1>4, <1>5 DEF PlaylistAdmin

LEMMA SettingsSaveType ==
    ASSUME TypeInv, NEW r \in Reqs, SettingsSave(r) \/ SettingsSaveFonts(r)
    PROVE  TypeInv'
<1>1. settings \in [dither : Modes, font : Fonts]
    BY DEF TypeInv, TypeOK, StoreTypeOK
<1>2. CASE SettingsSave(r)
    <2>1. PICK m \in Modes, f \in Fonts :
              /\ SetDitherMode(m)
              /\ Goto(r, [Idle EXCEPT !.pc = "fonts", !.kind = "save", !.arg = f])
        BY <1>2 DEF SettingsSave
    <2> DEFINE job == [Idle EXCEPT !.pc = "fonts", !.kind = "save", !.arg = f]
    <2>2. job \in Job
        BY DEF Idle, Job, Pcs, Kinds
    <2>3. /\ job.pc = "fonts" /\ job.kind = "save" /\ job.arg = f
          /\ job.row = NULL /\ job.wrote = FALSE
        BY DEF Idle
    <2>4. JobOK(job)
        BY <2>3 DEF JobOK, ShowsBattery
    <2>5. req' \in [Reqs -> Job] /\ \A q \in Reqs : JobOK(req'[q])
        BY <2>1, <2>2, <2>4, GotoOK
    <2>6. settings' \in [dither : Modes, font : Fonts]
        BY <1>1, <2>1 DEF SetDitherMode
    <2> QED
        BY <1>2, <2>5, <2>6 DEF SettingsSave, TypeInv, TypeOK, StoreTypeOK,
           UploadsTypeOK, JobsTypeOK, uploadVars
<1>3. CASE SettingsSaveFonts(r)
    <2>1. req[r].arg \in Fonts
        BY <1>3, JobAt DEF SettingsSaveFonts, JobOK
    <2>2. settings' \in [dither : Modes, font : Fonts]
        BY <1>1, <1>3, <2>1 DEF SettingsSaveFonts, SetFonts
    <2>3. req' \in [Reqs -> Job] /\ \A q \in Reqs : JobOK(req'[q])
        BY <1>3, FinishOK DEF SettingsSaveFonts
    <2> QED
        BY <1>3, <2>2, <2>3 DEF SettingsSaveFonts, TypeInv, TypeOK, StoreTypeOK,
           UploadsTypeOK, JobsTypeOK, uploadVars
<1> QED
    BY <1>2, <1>3

-----------------------------------------------------------------------------
(* Type correctness of the sweep, of time and of a crash. *)

LEMMA ActiveHashesType ==
    ASSUME TypeInv
    PROVE  ActiveRenderHashes \in SUBSET Image
<1>1. ASSUME NEW s \in Screens, screens[s] # NULL, screens[s].hash # NULL
      PROVE  screens[s].hash \in Image
    BY <1>1 DEF TypeInv, TypeOK, StoreTypeOK, ScreenRow
<1>2. ASSUME NEW d \in Devices, NEW s \in Screens, renders[d][s] # NULL
      PROVE  renders[d][s].hash \in Image
    BY <1>2 DEF TypeInv, TypeOK, StoreTypeOK, RenderRow
<1> QED
    BY <1>1, <1>2 DEF ActiveRenderHashes

LEMMA StaleScreen ==
    ASSUME NEW row \in ScreenRow
    PROVE  [row EXCEPT !.fresh = FALSE] \in ScreenRow
BY DEF ScreenRow

LEMMA StaleRender ==
    ASSUME NEW row \in RenderRow
    PROVE  [row EXCEPT !.fresh = FALSE] \in RenderRow
BY DEF RenderRow

LEMMA EnvironmentType ==
    ASSUME TypeInv, Maintenance \/ Expire \/ (\E f \in files : Age(f)) \/ Crash
    PROVE  TypeInv'
<1> USE DEF TypeInv, TypeOK, StoreTypeOK, UploadsTypeOK, JobsTypeOK,
            storeVars, uploadVars, jobVars
<1>1. CASE Maintenance
    <2>1. CASE SweepStart
        BY <1>1, <2>1, ActiveHashesType DEF Maintenance, SweepStart
    <2>2. ASSUME NEW f \in files, SweepRemove(f)
          PROVE  TypeInv'
        BY <1>1, <2>2 DEF Maintenance, SweepRemove
    <2>3. CASE SweepEnd("disk.fail" \in Ops)
        BY <1>1, <2>3 DEF Maintenance, SweepEnd, SweepIdle
    <2> QED
        BY <1>1, <2>1, <2>2, <2>3 DEF Maintenance
<1>2. CASE Expire
    <2>1. ASSUME NEW s \in Screens, ExpireScreen(s), UNCHANGED renders
          PROVE  TypeInv'
        <3>1. [screens[s] EXCEPT !.fresh = FALSE] \in ScreenRow
            <4>1. screens[s] \in ScreenRow
                BY <2>1 DEF ExpireScreen
            <4> QED
                BY <4>1, StaleScreen
        <3>2. screens' \in [Screens -> ScreenRow \union {NULL}]
            BY <2>1, <3>1 DEF ExpireScreen
        <3> QED
            BY <1>2, <2>1, <3>2 DEF Expire
    <2>2. ASSUME NEW d \in Devices, NEW s \in Screens, ExpireRender(d, s), UNCHANGED screens
          PROVE  TypeInv'
        <3>1. [renders[d][s] EXCEPT !.fresh = FALSE] \in RenderRow
            <4>1. renders[d][s] \in RenderRow
                BY <2>2 DEF ExpireRender
            <4> QED
                BY <4>1, StaleRender
        <3>2. renders' \in [Devices -> [Screens -> RenderRow \union {NULL}]]
            BY <2>2, <3>1 DEF ExpireRender
        <3> QED
            BY <1>2, <2>2, <3>2 DEF Expire
    <2> QED
        BY <1>2, <2>1, <2>2 DEF Expire
<1>3. ASSUME NEW f \in files, Age(f)
      PROVE  TypeInv'
    BY <1>3 DEF Age, AgeFile
<1>4. CASE Crash
    BY <1>4, IdleOK DEF Crash, SweepIdle
<1> QED
    BY <1>1, <1>2, <1>3, <1>4

-----------------------------------------------------------------------------
LEMMA InitType == Init => TypeInv
<1> SUFFICES ASSUME Init PROVE TypeInv
    OBVIOUS
<1>1. devices \in [Devices -> DeviceRow \union {NULL}]
    <2>1. ASSUME NEW p \in Playlists, NEW b \in Bundles, NEW show \in ShowChoices
          PROVE  ConfiguredDevice(p, b, show) \in DeviceRow
        BY NewRowsType, AdminAssumption DEF ConfiguredDevice, DeviceRow
    <2> QED
        BY <2>1 DEF Init
<1>2. screens \in [Screens -> ScreenRow \union {NULL}]
    BY NewRowsType DEF Init
<1>3. StoreTypeOK
    BY <1>1, <1>2, StoreAssumption, TrmnlAssumption DEF Init, StoreTypeOK
<1>4. UploadsTypeOK
    BY DEF Init, UploadsTypeOK, SweepIdle
<1>5. JobsTypeOK /\ \A r \in Reqs : JobOK(req[r])
    BY IdleOK DEF Init, JobsTypeOK
<1> QED
    BY <1>3, <1>4, <1>5 DEF TypeInv, TypeOK

LEMMA DisplayStepType ==
    ASSUME TypeInv, NEW r \in Reqs, DisplayStep(r)
    PROVE  TypeInv'
BY TelemetryType, ReloadType, PickType, AdvanceType, GetScreenType, LookupType,
   ComputeType, WriteType, RecordType, RespondType, ClearType DEF DisplayStep

LEMMA AdminStepType ==
    ASSUME TypeInv, NEW r \in Reqs, AdminStep(r)
    PROVE  TypeInv'
BY RefreshType, ScreenUpdateType, PreviewType, SettingsSaveType DEF AdminStep

LEMMA AdminNextType ==
    ASSUME TypeInv, AdminNext
    PROVE  TypeInv'
<1>1. ASSUME NEW d \in Devices, DeviceAdmin(d)
      PROVE  TypeInv'
    BY <1>1, DeviceAdminType, RefreshType DEF DeviceAdmin
<1>2. ASSUME NEW s \in Screens, ScreenAdmin(s)
      PROVE  TypeInv'
    BY <1>2, ScreenAdminType, ScreenUpdateType, PreviewType DEF ScreenAdmin
<1> QED
    BY <1>1, <1>2, PlaylistAdminType, SettingsSaveType DEF AdminNext

LEMMA NextType ==
    ASSUME TypeInv, [Next]_vars
    PROVE  TypeInv'
<1>1. CASE UNCHANGED vars
    BY <1>1 DEF vars, TypeInv, TypeOK, StoreTypeOK, UploadsTypeOK, JobsTypeOK,
       storeVars, uploadVars, jobVars
<1>2. CASE Next
    BY <1>2, PollType, DisplayStepType, AdminStepType, AdminNextType, EnvironmentType
       DEF Next
<1> QED
    BY <1>1, <1>2

(* Every variable keeps its type, and every request in flight holds what   *)
(* the rest of its handler needs (JobOK): no handler of deviceapi, screens *)
(* or admin goes on with a row or a picture it does not have.              *)
THEOREM TypeInvariant == Spec => []TypeInv
<1>1. TypeInv /\ [Next]_vars => TypeInv'
    BY NextType
<1> QED
    BY InitType, <1>1, PTL DEF Spec

(* The type invariant of the model. *)
THEOREM TypeCorrect == Spec => []TypeOK
<1>1. TypeInv => TypeOK
    BY DEF TypeInv
<1> QED
    BY TypeInvariant, <1>1, PTL

-----------------------------------------------------------------------------
(***************************************************************************)
(* No row outlives what it refers to, for any number of rows and requests. *)
(* The steps fall into four groups: those that touch no table with a       *)
(* reference, those that change a row in place, those that write a render  *)
(* and those that create or delete rows.                                   *)
(***************************************************************************)
keyVars == <<devices, screens, playlists, items, renders>>

(* A step that leaves the tables with references alone. *)
LEMMA SameKeys ==
    ASSUME ForeignKeys, UNCHANGED keyVars
    PROVE  ForeignKeys'
BY DEF ForeignKeys, keyVars

(* An UPDATE of a device that keeps, or correctly changes, its playlist. *)
LEMMA UpdateDeviceKeys ==
    ASSUME TypeInv, ForeignKeys, NEW d \in Devices, NEW row,
           devices[d] # NULL =>
              row \in DeviceRow /\ row.playlist \in playlists \union {NULL},
           UpdateDevice(d, row), UNCHANGED <<screens, playlists, items, renders>>
    PROVE  ForeignKeys'
<1>1. devices \in [Devices -> DeviceRow \union {NULL}]
    BY DEF TypeInv, TypeOK, StoreTypeOK
<1>2. \A e \in Devices : devices[e] # NULL => devices'[e] # NULL
    BY <1>1, NullAssumption DEF UpdateDevice
<1>3. \A e \in Devices :
         devices'[e] # NULL => devices'[e].playlist \in playlists \union {NULL}
    BY <1>1 DEF UpdateDevice, ForeignKeys
<1> QED
    BY <1>2, <1>3 DEF ForeignKeys

(* An UPDATE of a screen. *)
LEMMA UpdateScreenKeys ==
    ASSUME TypeInv, ForeignKeys, NEW s \in Screens, NEW row,
           screens[s] # NULL => row \in ScreenRow,
           UpdateScreen(s, row), UNCHANGED <<devices, playlists, items, renders>>
    PROVE  ForeignKeys'
<1>1. screens \in [Screens -> ScreenRow \union {NULL}]
    BY DEF TypeInv, TypeOK, StoreTypeOK
<1>2. \A t \in Screens : screens[t] # NULL => screens'[t] # NULL
    BY <1>1, NullAssumption DEF UpdateScreen
<1>3. \A i \in items : i.screen \in Screens
    BY DEF TypeInv, TypeOK, StoreTypeOK, ItemRow
<1> QED
    BY <1>2, <1>3 DEF ForeignKeys

(* Renders that are written or deleted where device and screen exist. *)
LEMMA RendersKeys ==
    ASSUME ForeignKeys, UNCHANGED <<devices, screens, playlists, items>>,
           \A d \in Devices, s \in Screens :
              renders'[d][s] # NULL =>
                 renders[d][s] # NULL \/ (devices[d] # NULL /\ screens[s] # NULL)
    PROVE  ForeignKeys'
BY DEF ForeignKeys

-----------------------------------------------------------------------------
LEMMA DisplayStepKeys ==
    ASSUME TypeInv, ForeignKeys, NEW r \in Reqs, DisplayStep(r)
    PROVE  ForeignKeys'
<1>1. req[r] \in Job /\ JobOK(req[r])
    BY JobAt
<1>2. devices \in [Devices -> DeviceRow \union {NULL}]
    BY DEF TypeInv, TypeOK, StoreTypeOK
<1>3. CASE \/ TelemetryFails(r) \/ Reload(r) \/ Pick(r) \/ PickNone(r) \/ GetScreen(r)
           \/ Lookup(r) \/ Compute(r) \/ ComputeFails(r) \/ Write(r) \/ WriteFails(r)
           \/ Respond(r)
    <2>1. UNCHANGED keyVars
        BY <1>3 DEF TelemetryFails, Reload, Pick, PickNone, GetScreen, Lookup, Compute,
           ComputeFails, Write, WriteFails, Respond, storeVars, keyVars
    <2> QED
        BY <2>1, SameKeys
<1>4. CASE Telemetry(r)
    <2>1. PICK b \in Batteries \union {NULL} : UpdateTelemetry(req[r].dev, b)
        BY <1>4 DEF Telemetry
    <2> DEFINE row == [devices[req[r].dev] EXCEPT !.battery = IF b = NULL THEN @ ELSE b]
    <2>2. req[r].dev \in Devices
        BY <1>1, <1>4 DEF Telemetry, JobOK
    <2>3. devices[req[r].dev] # NULL =>
             row \in DeviceRow /\ row.playlist \in playlists \union {NULL}
        BY <1>2, <2>2 DEF DeviceRow, ForeignKeys
    <2> QED
        BY <1>4, <2>1, <2>2, <2>3, UpdateDeviceKeys DEF Telemetry, UpdateTelemetry
<1>5. CASE Advance(r)
    <2>1. req[r].dev \in Devices /\ req[r].next \in Nat
        BY <1>1, <1>5 DEF Advance, JobOK, Job
    <2>2. CASE UNCHANGED devices
        BY <1>5, <2>2, SameKeys DEF Advance, keyVars
    <2>3. CASE SetPlaylistCursor(req[r].dev, req[r].next)
        <3> DEFINE row == [devices[req[r].dev] EXCEPT !.cursor = req[r].next]
        <3>1. devices[req[r].dev] # NULL =>
                 row \in DeviceRow /\ row.playlist \in playlists \union {NULL}
            BY <1>2, <2>1 DEF DeviceRow, ForeignKeys
        <3> QED
            BY <1>5, <2>1, <2>3, <3>1, UpdateDeviceKeys DEF Advance, SetPlaylistCursor
    <2> QED
        BY <1>5, <2>2, <2>3 DEF Advance
<1>6. CASE Clear(r)
    <2>1. req[r].dev \in Devices
        BY <1>1, <1>6 DEF Clear, JobOK
    <2>2. CASE UNCHANGED devices
        BY <1>6, <2>2, SameKeys DEF Clear, keyVars
    <2>3. CASE ClearFirmwareUpdate(req[r].dev)
        <3> DEFINE row == [devices[req[r].dev] EXCEPT !.firmware = FALSE]
        <3>1. devices[req[r].dev] # NULL =>
                 row \in DeviceRow /\ row.playlist \in playlists \union {NULL}
            BY <1>2, <2>1 DEF DeviceRow, ForeignKeys
        <3> QED
            BY <1>6, <2>1, <2>3, <3>1, UpdateDeviceKeys DEF Clear, ClearFirmwareUpdate
    <2> QED
        BY <1>6, <2>2, <2>3 DEF Clear
<1>7. CASE Record(r)
    <2>1. req[r].scr \in Screens /\ req[r].img \in Image
        BY <1>1, <1>7 DEF Record, JobOK
    <2>2. CASE UNCHANGED <<screens, renders>>
        BY <1>7, <2>2, SameKeys DEF Record, keyVars
    <2>3. CASE SetScreenRendered(req[r].scr, req[r].img) /\ UNCHANGED renders
        <3>1. screens[req[r].scr] # NULL =>
                 [screens[req[r].scr] EXCEPT !.hash = req[r].img, !.fresh = TRUE] \in ScreenRow
            BY <2>1 DEF ScreenRow, TypeInv, TypeOK, StoreTypeOK
        <3> QED
            BY <1>7, <2>1, <2>3, <3>1, UpdateScreenKeys DEF Record, SetScreenRendered
    <2>4. CASE /\ SetDeviceScreenRender(req[r].dev, req[r].scr, req[r].img,
                                        req[r].row.battery)
               /\ UNCHANGED screens
        <3>1. \A d \in Devices, s \in Screens :
                 renders'[d][s] # NULL =>
                    renders[d][s] # NULL \/ (devices[d] # NULL /\ screens[s] # NULL)
            BY <2>4 DEF SetDeviceScreenRender, TypeInv, TypeOK, StoreTypeOK
        <3> QED
            BY <1>7, <2>4, <3>1, RendersKeys DEF Record
    <2> QED
        BY <1>7, <2>2, <2>3, <2>4 DEF Record
<1> QED
    BY <1>3, <1>4, <1>5, <1>6, <1>7 DEF DisplayStep

LEMMA AdminStepKeys ==
    ASSUME TypeInv, ForeignKeys, NEW r \in Reqs, AdminStep(r)
    PROVE  ForeignKeys'
<1>1. req[r] \in Job /\ JobOK(req[r])
    BY JobAt
<1>2. CASE RefreshList(r) \/ PreviewDevice(r) \/ SettingsSaveFonts(r)
    <2>1. UNCHANGED keyVars
        BY <1>2 DEF RefreshList, PreviewDevice, SettingsSaveFonts, storeVars, keyVars
    <2> QED
        BY <2>1, SameKeys
<1>3. CASE RefreshClearScreen(r)
    <2>1. PICK s \in req[r].todo : ClearScreenRendered(s)
        BY <1>3 DEF RefreshClearScreen
    <2>2. s \in Screens
        BY <1>1 DEF Job
    <2>3. screens[s] # NULL => [screens[s] EXCEPT !.hash = NULL, !.fresh = FALSE] \in ScreenRow
        BY <2>2 DEF ScreenRow, TypeInv, TypeOK, StoreTypeOK
    <2> QED
        BY <1>3, <2>1, <2>2, <2>3, UpdateScreenKeys DEF RefreshClearScreen, ClearScreenRendered
<1>4. CASE RefreshClearDevice(r)
    <2>1. \A d \in Devices, s \in Screens : renders'[d][s] # NULL => renders[d][s] # NULL
        BY <1>4 DEF RefreshClearDevice, ClearDeviceRenders, TypeInv, TypeOK, StoreTypeOK
    <2> QED
        BY <1>4, <2>1, RendersKeys DEF RefreshClearDevice
<1>5. CASE ScreenUpdateDither(r)
    <2>1. req[r].scr \in Screens /\ req[r].arg \in Modes \union {NULL}
        BY <1>1, <1>5 DEF ScreenUpdateDither, JobOK
    <2>2. screens[req[r].scr] # NULL =>
             [screens[req[r].scr] EXCEPT !.dither = req[r].arg, !.hash = NULL, !.fresh = FALSE]
                 \in ScreenRow
        BY <2>1 DEF ScreenRow, TypeInv, TypeOK, StoreTypeOK
    <2> QED
        BY <1>5, <2>1, <2>2, UpdateScreenKeys DEF ScreenUpdateDither, UpdateScreenDither
<1> QED
    BY <1>2, <1>3, <1>4, <1>5 DEF AdminStep

LEMMA DeviceAdminKeys ==
    ASSUME TypeInv, ForeignKeys, NEW d \in Devices, DeviceAdmin(d)
    PROVE  ForeignKeys'
<1>1. /\ devices \in [Devices -> DeviceRow \union {NULL}]
      /\ renders \in [Devices -> [Screens -> RenderRow \union {NULL}]]
      /\ playlists \in SUBSET Playlists
    BY DEF TypeInv, TypeOK, StoreTypeOK
<1>2. CASE DeviceCreate(d)
    <2>1. \A e \in Devices : devices[e] # NULL => devices'[e] = devices[e]
        BY <1>1, <1>2 DEF DeviceCreate, CreateDevice
    <2>2. \A e \in Devices : devices[e] = NULL /\ devices'[e] # NULL => devices'[e].playlist = NULL
        BY <1>1, <1>2 DEF DeviceCreate, CreateDevice, NewDevice
    <2> QED
        BY <1>2, <2>1, <2>2 DEF DeviceCreate, ForeignKeys
<1>3. CASE DeviceUpdate(d)
    <2>1. PICK p \in playlists \union {NULL}, b \in Bundles, show \in ShowChoices :
              UpdateDeviceSettings(d, p, b, show)
        BY <1>3 DEF DeviceUpdate
    <2> DEFINE row == [devices[d] EXCEPT !.playlist = p, !.bundle = b, !.showBattery = show]
    <2>2. devices[d] # NULL => row \in DeviceRow /\ row.playlist = p
        BY <1>1, AdminAssumption DEF DeviceRow
    <2> QED
        BY <1>3, <2>1, <2>2, UpdateDeviceKeys DEF DeviceUpdate, UpdateDeviceSettings
<1>4. CASE DeviceDelete(d)
    <2>1. \A e \in Devices : devices'[e] = IF e = d THEN NULL ELSE devices[e]
        BY <1>1, <1>4 DEF DeviceDelete, DeleteDevice
    <2>2. \A e \in Devices, s \in Screens :
             renders'[e][s] = IF e = d THEN NULL ELSE renders[e][s]
        BY <1>1, <1>4 DEF DeviceDelete, DeleteDevice
    <2> QED
        BY <1>4, <2>1, <2>2 DEF DeviceDelete, ForeignKeys
<1>5. CASE DeviceFirmware(d)
    <2>1. PICK u \in Urls : QueueFirmwareUpdate(d, u)
        BY <1>5 DEF DeviceFirmware
    <2> DEFINE row == [devices[d] EXCEPT !.firmware = TRUE, !.url = u]
    <2>2. devices[d] # NULL =>
             row \in DeviceRow /\ row.playlist \in playlists \union {NULL}
        BY <1>1 DEF DeviceRow, ForeignKeys
    <2> QED
        BY <1>5, <2>1, <2>2, UpdateDeviceKeys DEF DeviceFirmware, QueueFirmwareUpdate
<1>6. CASE DeviceFirmwareCancel(d)
    <2> DEFINE row == [devices[d] EXCEPT !.firmware = FALSE]
    <2>1. devices[d] # NULL =>
             row \in DeviceRow /\ row.playlist \in playlists \union {NULL}
        BY <1>1 DEF DeviceRow, ForeignKeys
    <2> QED
        BY <1>6, <2>1, UpdateDeviceKeys DEF DeviceFirmwareCancel, ClearFirmwareUpdate
<1>7. CASE \E r \in Reqs : DeviceForceRefresh(r, d)
    <2>1. UNCHANGED keyVars
        BY <1>7 DEF DeviceForceRefresh, storeVars, keyVars
    <2> QED
        BY <2>1, SameKeys
<1> QED
    BY <1>2, <1>3, <1>4, <1>5, <1>6, <1>7 DEF DeviceAdmin

LEMMA ScreenAdminKeys ==
    ASSUME TypeInv, ForeignKeys, NEW s \in Screens, ScreenAdmin(s)
    PROVE  ForeignKeys'
<1>1. /\ screens \in [Screens -> ScreenRow \union {NULL}]
      /\ renders \in [Devices -> [Screens -> RenderRow \union {NULL}]]
      /\ items \in SUBSET ItemRow
    BY DEF TypeInv, TypeOK, StoreTypeOK
<1>2. CASE ScreenCreate(s)
    <2>1. \A t \in Screens : screens[t] # NULL => screens'[t] # NULL
        BY <1>1, <1>2, NewRowsType, NullAssumption DEF ScreenCreate, CreateScreen
    <2>2. \A i \in items : i.screen \in Screens
        BY <1>1 DEF ItemRow
    <2> QED
        BY <1>2, <2>1, <2>2 DEF ScreenCreate, ForeignKeys
<1>3. CASE ScreenDelete(s)
    <2>1. \A t \in Screens : screens'[t] = IF t = s THEN NULL ELSE screens[t]
        BY <1>1, <1>3 DEF ScreenDelete, DeleteScreen
    <2>2. \A i \in items' : i \in items /\ i.screen # s /\ i.screen \in Screens
        BY <1>1, <1>3 DEF ScreenDelete, DeleteScreen, ItemRow
    <2>3. \A d \in Devices, t \in Screens :
             renders'[d][t] = IF t = s THEN NULL ELSE renders[d][t]
        BY <1>1, <1>3 DEF ScreenDelete, DeleteScreen
    <2> QED
        BY <1>3, <2>1, <2>2, <2>3 DEF ScreenDelete, ForeignKeys
<1>4. ASSUME NEW c \in Contents, UpdateScreenSettings(s, c),
             UNCHANGED <<devices, playlists, items, renders>>
      PROVE  ForeignKeys'
    <2>1. screens[s] # NULL =>
             [screens[s] EXCEPT !.content = c, !.hash = NULL, !.fresh = FALSE] \in ScreenRow
        BY <1>1 DEF ScreenRow
    <2> QED
        BY <1>4, <2>1, UpdateScreenKeys DEF UpdateScreenSettings
<1>5. CASE ScreenUpload(s)
    BY <1>4, <1>5 DEF ScreenUpload
<1>6. ASSUME NEW r \in Reqs, ScreenUpdate(r, s)
      PROVE  ForeignKeys'
    BY <1>4, <1>6 DEF ScreenUpdate
<1>7. ASSUME NEW r \in Reqs, ScreenPreview(r, s)
      PROVE  ForeignKeys'
    BY <1>7, SameKeys DEF ScreenPreview, storeVars, keyVars
<1> QED
    BY <1>2, <1>3, <1>5, <1>6, <1>7 DEF ScreenAdmin

LEMMA PlaylistAdminKeys ==
    ASSUME TypeInv, ForeignKeys, PlaylistAdmin
    PROVE  ForeignKeys'
<1>1. /\ devices \in [Devices -> DeviceRow \union {NULL}]
      /\ items \in SUBSET ItemRow
    BY DEF TypeInv, TypeOK, StoreTypeOK
<1>2. ASSUME NEW p \in Playlists, PlaylistCreate(p)
      PROVE  ForeignKeys'
    BY <1>2 DEF PlaylistCreate, CreatePlaylist, ForeignKeys
<1>3. ASSUME NEW p \in Playlists, PlaylistDelete(p)
      PROVE  ForeignKeys'
    <2>1. ASSUME NEW d \in Devices, devices'[d] # NULL
          PROVE  devices'[d].playlist \in playlists' \union {NULL}
        <3>1. devices[d] # NULL
            BY <1>3, <2>1 DEF PlaylistDelete, DeletePlaylist
        <3>2. CASE devices[d].playlist = p
            <4>1. devices'[d] = [devices[d] EXCEPT !.playlist = NULL]
                BY <1>3, <3>1, <3>2 DEF PlaylistDelete, DeletePlaylist
            <4> QED
                BY <1>1, <3>1, <4>1 DEF DeviceRow
        <3>3. CASE devices[d].playlist # p
            BY <1>3, <3>1, <3>3 DEF PlaylistDelete, DeletePlaylist, ForeignKeys
        <3> QED
            BY <3>2, <3>3
    <2>2. ASSUME NEW d \in Devices, devices[d] # NULL
          PROVE  devices'[d] # NULL
        <3>1. [devices[d] EXCEPT !.playlist = NULL] \in DeviceRow
            BY <1>1, <2>2 DEF DeviceRow
        <3> QED
            BY <1>3, <2>2, <3>1, NullAssumption DEF PlaylistDelete, DeletePlaylist
    <2>3. \A i \in items' : i \in items /\ i.playlist \in playlists'
        BY <1>3 DEF PlaylistDelete, DeletePlaylist, ForeignKeys
    <2> QED
        BY <1>3, <2>1, <2>2, <2>3 DEF PlaylistDelete, ForeignKeys
<1>4. ASSUME NEW p \in Playlists, NEW s \in Screens, PlaylistAddItem(p, s)
      PROVE  ForeignKeys'
    BY <1>4 DEF PlaylistAddItem, AddPlaylistItem, ForeignKeys
<1>5. ASSUME NEW i \in items, PlaylistRemoveItem(i)
      PROVE  ForeignKeys'
    BY <1>5 DEF PlaylistRemoveItem, RemovePlaylistItem, ForeignKeys
<1> QED
    BY <1>2, <1>3, <1>4, <1>5 DEF PlaylistAdmin

LEMMA EnvironmentKeys ==
    ASSUME TypeInv, ForeignKeys,
           Maintenance \/ Expire \/ (\E f \in files : Age(f)) \/ Crash
    PROVE  ForeignKeys'
<1>1. CASE Maintenance \/ (\E f \in files : Age(f)) \/ Crash
    <2>1. UNCHANGED keyVars
        BY <1>1 DEF Maintenance, SweepStart, SweepRemove, SweepEnd, Age, AgeFile, Crash,
           storeVars, keyVars
    <2> QED
        BY <2>1, SameKeys
<1>2. ASSUME NEW s \in Screens, ExpireScreen(s), Expire, UNCHANGED renders
      PROVE  ForeignKeys'
    <2>1. [screens[s] EXCEPT !.fresh = FALSE] \in ScreenRow
        BY <1>2 DEF ExpireScreen, ScreenRow, TypeInv, TypeOK, StoreTypeOK
    <2>2. UpdateScreen(s, [screens[s] EXCEPT !.fresh = FALSE])
        BY <1>2 DEF ExpireScreen, UpdateScreen
    <2> QED
        BY <1>2, <2>1, <2>2, UpdateScreenKeys DEF Expire
<1>3. ASSUME NEW d \in Devices, NEW s \in Screens, ExpireRender(d, s), Expire,
             UNCHANGED screens
      PROVE  ForeignKeys'
    <2>1. \A e \in Devices, t \in Screens : renders'[e][t] # NULL => renders[e][t] # NULL
        BY <1>3 DEF ExpireRender, TypeInv, TypeOK, StoreTypeOK
    <2> QED
        BY <1>3, <2>1, RendersKeys DEF Expire
<1> QED
    BY <1>1, <1>2, <1>3 DEF Expire

-----------------------------------------------------------------------------
LEMMA InitKeys == Init => ForeignKeys
<1> SUFFICES ASSUME Init PROVE ForeignKeys
    OBVIOUS
<1>1. \A i \in items : i.playlist \in playlists /\ screens[i.screen] # NULL
    BY NewRowsType, NullAssumption, TrmnlAssumption DEF Init, ItemRow
<1>2. \A d \in Devices, s \in Screens : renders[d][s] = NULL
    BY DEF Init
<1>3. ASSUME NEW p \in Playlists, NEW b \in Bundles, NEW show \in ShowChoices
      PROVE  ConfiguredDevice(p, b, show).playlist \in Playlists
    BY DEF ConfiguredDevice, NewDevice
<1>4. \A d \in Devices : devices[d].playlist \in playlists
    BY <1>3 DEF Init
<1> QED
    BY <1>1, <1>2, <1>4 DEF ForeignKeys

LEMMA NextKeys ==
    ASSUME TypeInv, ForeignKeys, [Next]_vars
    PROVE  ForeignKeys'
<1>1. CASE UNCHANGED vars
    BY <1>1, SameKeys DEF vars, storeVars, keyVars
<1>2. ASSUME NEW r \in Reqs, NEW d \in Devices, Poll(r, d)
      PROVE  ForeignKeys'
    BY <1>2, SameKeys DEF Poll, storeVars, keyVars
<1>3. CASE AdminNext
    <2>1. ASSUME NEW r \in Reqs, SettingsSave(r)
          PROVE  ForeignKeys'
        BY <2>1, SameKeys DEF SettingsSave, keyVars
    <2> QED
        BY <1>3, <2>1, DeviceAdminKeys, ScreenAdminKeys, PlaylistAdminKeys DEF AdminNext
<1> QED
    BY <1>1, <1>2, <1>3, DisplayStepKeys, AdminStepKeys, EnvironmentKeys DEF Next

(* The references of the schema hold whatever is deleted while requests    *)
(* are in flight: a late SetDeviceScreenRender cannot bring back a render  *)
(* of a device or a screen that is gone.                                   *)
THEOREM ReferencesHold == Spec => []ForeignKeys
<1>1. TypeInv /\ ForeignKeys /\ [Next]_vars => ForeignKeys'
    BY NextKeys
<1> QED
    BY InitKeys, TypeInvariant, <1>1, PTL DEF Spec
=============================================================================
