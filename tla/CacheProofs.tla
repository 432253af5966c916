---------------------------- MODULE CacheProofs ----------------------------
(***************************************************************************)
(* The two render caches hold what they should, a poll answers with the    *)
(* battery indicator its device asked for and with the settings last       *)
(* saved, and the file it answers with is not swept away meanwhile.        *)
(*                                                                         *)
(* The caches are not separate by themselves: what a request records was   *)
(* drawn several steps earlier, for the device row it read then.  So the   *)
(* invariant says of every picture on its way through a request which      *)
(* indicator it shows.                                                     *)
(*                                                                         *)
(* That the file of a picture is there is not inductive either: the sweep  *)
(* spares it because it is not old, and it cannot become old while the     *)
(* request that wrote it is in flight.  So that invariant says of the file *)
(* that it is there and is not old.                                        *)
(***************************************************************************)
EXTENDS TrmnlProofs

Indicator(row) == IF ShowsBattery(row) THEN row.battery ELSE NULL

(* What is known of the pictures a request holds. *)
PictureOK(j) ==
    /\ j.pc = "lookup" /\ j.sc.hash # NULL => j.sc.hash.ind = NULL
    /\ j.pc \in {"write", "record"} => j.img.ind = Indicator(j.row)
    /\ j.pc = "respond" /\ j.img # NULL => j.img.ind = Indicator(j.row)

PicturesOK == \A r \in Reqs : PictureOK(req[r])

CacheInv == CachesSeparate /\ PicturesOK

-----------------------------------------------------------------------------
(* A request that moves keeps the pictures right when its new job is. *)
LEMMA GotoPictures ==
    ASSUME TypeInv, PicturesOK, NEW r \in Reqs, NEW job, PictureOK(job), Goto(r, job)
    PROVE  PicturesOK'
<1>1. ASSUME NEW q \in Reqs
      PROVE  PictureOK(req'[q])
    <2>1. req'[q] = IF q = r THEN job ELSE req[q]
        BY DEF Goto, TypeInv, TypeOK, JobsTypeOK
    <2> QED
        BY <2>1 DEF PicturesOK
<1> QED
    BY <1>1 DEF PicturesOK

(* Most steps of a handler hold no picture. *)
LEMMA NoPictureHeld ==
    ASSUME NEW j, j.pc \notin {"lookup", "write", "record", "respond"}
    PROVE  PictureOK(j)
BY DEF PictureOK

LEMMA FinishPictures ==
    ASSUME TypeInv, PicturesOK, NEW r \in Reqs, Finish(r)
    PROVE  PicturesOK'
<1>1. Idle.pc = "idle"
    BY DEF Idle
<1> QED
    BY <1>1, NoPictureHeld, GotoPictures DEF Finish

LEMMA NoPicturePictures ==
    ASSUME TypeInv, PicturesOK, NEW r \in Reqs, NoPicture(r)
    PROVE  PicturesOK'
<1> DEFINE job == [Idle EXCEPT !.pc = "respond", !.kind = "display",
                              !.dev = req[r].dev, !.row = req[r].row]
<1>1. job.pc = "respond" /\ job.img = NULL
    BY DEF Idle
<1>2. PictureOK(job)
    BY <1>1 DEF PictureOK
<1> QED
    BY <1>2, GotoPictures, FinishPictures DEF NoPicture

(* Cache entries that are kept, cleared or dropped stay separate. *)
LEMMA KeptCaches ==
    ASSUME CachesSeparate,
           \A s \in Screens : screens'[s] # NULL =>
              \/ screens'[s].hash = NULL
              \/ screens[s] # NULL /\ screens'[s].hash = screens[s].hash,
           \A d \in Devices, s \in Screens : renders'[d][s] # NULL =>
              /\ renders[d][s] # NULL
              /\ renders'[d][s].hash = renders[d][s].hash
              /\ renders'[d][s].bat = renders[d][s].bat
    PROVE  CachesSeparate'
BY DEF CachesSeparate

LEMMA SameCaches ==
    ASSUME CachesSeparate, UNCHANGED <<screens, renders>>
    PROVE  CachesSeparate'
BY DEF CachesSeparate

(* An UPDATE that clears or keeps the rendered hash of a screen. *)
LEMMA UpdateScreenCaches ==
    ASSUME TypeInv, CachesSeparate, NEW s \in Screens, NEW row,
           screens[s] # NULL => row.hash = NULL \/ row.hash = screens[s].hash,
           UpdateScreen(s, row), UNCHANGED renders
    PROVE  CachesSeparate'
<1>1. screens \in [Screens -> ScreenRow \union {NULL}]
    BY DEF TypeInv, TypeOK, StoreTypeOK
<1>2. \A t \in Screens : screens'[t] # NULL =>
         screens'[t].hash = NULL \/ (screens[t] # NULL /\ screens'[t].hash = screens[t].hash)
    BY <1>1 DEF UpdateScreen
<1> QED
    BY <1>2, KeptCaches

(* Saving a screen's settings clears its entry. *)
LEMMA UpdateSettingsCaches ==
    ASSUME TypeInv, CachesSeparate, NEW s \in Screens, NEW c \in Contents,
           UpdateScreenSettings(s, c), UNCHANGED renders
    PROVE  CachesSeparate'
<1>1. screens[s] # NULL =>
         [screens[s] EXCEPT !.content = c, !.hash = NULL, !.fresh = FALSE].hash = NULL
    BY DEF ScreenRow, TypeInv, TypeOK, StoreTypeOK
<1> QED
    BY <1>1, UpdateScreenCaches DEF UpdateScreenSettings

-----------------------------------------------------------------------------
(* The steps of a poll, and of the rendering path it shares. *)

LEMMA GetScreenCaches ==
    ASSUME TypeInv, CacheInv, NEW r \in Reqs, GetScreen(r)
    PROVE  CacheInv'
<1>1. req[r] \in Job /\ req[r].scr \in Screens
    BY JobAt DEF GetScreen, JobOK
<1>2. CachesSeparate'
    BY SameCaches DEF GetScreen, storeVars, CacheInv
<1>3. CASE NoPicture(r)
    BY <1>2, <1>3, NoPicturePictures DEF GetScreen, CacheInv
<1>4. CASE screens[req[r].scr] # NULL /\ ~NoPicture(r)
    <2> DEFINE sc == screens[req[r].scr]
               pc == CASE req[r].kind = "display" -> "lookup"
                       [] req[r].kind = "preview" -> "getdevice"
                       [] OTHER -> "compute"
               job == [req[r] EXCEPT !.sc = sc, !.pc = pc]
    <2>1. sc.hash # NULL => sc.hash.ind = NULL
        BY <1>1, <1>4 DEF CacheInv, CachesSeparate
    <2>2. Goto(r, job)
        BY <1>4 DEF GetScreen
    <2>3. pc \in {"lookup", "getdevice", "compute"}
        OBVIOUS
    <2> HIDE DEF sc, pc
    <2>4. job.pc = pc /\ job.sc = sc
        BY <1>1 DEF Job
    <2>5. PictureOK(job)
        BY <2>1, <2>3, <2>4 DEF PictureOK
    <2> QED
        BY <1>2, <2>2, <2>5, GotoPictures DEF CacheInv
<1> QED
    BY <1>3, <1>4 DEF GetScreen

(* A cache hit shows the right indicator, whichever cache it comes from. *)
LEMMA CachedHashIndicator ==
    ASSUME TypeInv, CachesSeparate, NEW r \in Reqs, req[r].pc = "lookup",
           PictureOK(req[r]), CachedHash(req[r]) # NULL
    PROVE  CachedHash(req[r]).ind = Indicator(req[r].row)
<1>1. req[r].dev \in Devices /\ req[r].scr \in Screens
    BY JobAt DEF JobOK
<1>2. CASE ShowsBattery(req[r].row)
    <2> DEFINE own == renders[req[r].dev][req[r].scr]
    <2>1. own # NULL /\ own.bat = req[r].row.battery /\ CachedHash(req[r]) = own.hash
        BY <1>2 DEF CachedHash
    <2>2. own.hash.ind = own.bat
        BY <1>1, <2>1 DEF CachesSeparate
    <2> QED
        BY <1>2, <2>1, <2>2 DEF Indicator
<1>3. CASE ~ShowsBattery(req[r].row)
    <2>1. req[r].sc.hash # NULL /\ CachedHash(req[r]) = req[r].sc.hash
        BY <1>3 DEF CachedHash
    <2> QED
        BY <1>3, <2>1 DEF PictureOK, Indicator
<1> QED
    BY <1>2, <1>3

LEMMA LookupCaches ==
    ASSUME TypeInv, CacheInv, NEW r \in Reqs, Lookup(r)
    PROVE  CacheInv'
<1> DEFINE hash == CachedHash(req[r])
           hit  == [req[r] EXCEPT !.pc = "respond", !.img = hash]
           miss == [req[r] EXCEPT !.pc = "compute"]
<1>1. req[r] \in Job /\ req[r].pc = "lookup" /\ PictureOK(req[r])
    BY JobAt DEF Lookup, CacheInv, PicturesOK
<1>2. CachesSeparate'
    BY SameCaches DEF Lookup, storeVars, CacheInv
<1>3. CASE NoPicture(r)
    BY <1>2, <1>3, NoPicturePictures DEF Lookup, CacheInv
<1>4. CASE screens[req[r].scr] # NULL /\ hash # NULL /\ Goto(r, hit)
    <2>1. Goto(r, hit)
        BY <1>4
    <2>2. hash.ind = Indicator(req[r].row)
        BY <1>1, <1>4, CachedHashIndicator DEF CacheInv
    <2> HIDE DEF hash
    <2>3. hit.pc = "respond" /\ hit.img = hash /\ hit.row = req[r].row
        BY <1>1 DEF Job
    <2>4. PictureOK(hit)
        BY <2>2, <2>3 DEF PictureOK
    <2> QED
        BY <1>2, <2>1, <2>4, GotoPictures DEF CacheInv
<1>5. CASE screens[req[r].scr] # NULL /\ Goto(r, miss)
    <2>1. Goto(r, miss) /\ miss.pc = "compute"
        BY <1>1, <1>5 DEF Job
    <2> QED
        BY <1>2, <2>1, NoPictureHeld, GotoPictures DEF CacheInv
<1> QED
    BY <1>3, <1>4, <1>5 DEF Lookup

LEMMA ComputeCaches ==
    ASSUME TypeInv, CacheInv, NEW r \in Reqs, Compute(r) \/ ComputeFails(r)
    PROVE  CacheInv'
<1>1. CachesSeparate'
    BY SameCaches DEF Compute, ComputeFails, storeVars, CacheInv
<1>2. CASE ComputeFails(r)
    BY <1>1, <1>2, NoPicturePictures DEF ComputeFails, CacheInv
<1>3. CASE Compute(r)
    <2>1. PICK x \in Data :
              Goto(r, [req[r] EXCEPT !.pc = "write",
                                     !.img = Picture(req[r].row, req[r].sc, x)])
        BY <1>3 DEF Compute
    <2> DEFINE img == Picture(req[r].row, req[r].sc, x)
               job == [req[r] EXCEPT !.pc = "write", !.img = img]
    <2>2. img.ind = Indicator(req[r].row)
        BY DEF Picture, Indicator
    <2>3. req[r] \in Job
        BY JobAt
    <2>4. Goto(r, job)
        BY <2>1
    <2> HIDE DEF img
    <2>5. job.pc = "write" /\ job.img = img /\ job.row = req[r].row
        BY <2>3 DEF Job
    <2>6. PictureOK(job)
        BY <2>2, <2>5 DEF PictureOK
    <2> QED
        BY <1>1, <2>4, <2>6, GotoPictures DEF CacheInv
<1> QED
    BY <1>2, <1>3

LEMMA WriteCaches ==
    ASSUME TypeInv, CacheInv, NEW r \in Reqs, Write(r) \/ WriteFails(r)
    PROVE  CacheInv'
<1>1. CachesSeparate'
    BY SameCaches DEF Write, WriteFails, storeVars, CacheInv
<1>2. CASE WriteFails(r)
    BY <1>1, <1>2, NoPicturePictures DEF WriteFails, CacheInv
<1>3. CASE Write(r)
    <2> DEFINE new == req[r].img \notin files
               job == [req[r] EXCEPT !.pc = "record", !.wrote = new]
    <2>1. req[r] \in Job /\ req[r].pc = "write" /\ PictureOK(req[r]) /\ Goto(r, job)
        BY <1>3, JobAt DEF Write, CacheInv, PicturesOK
    <2> HIDE DEF new
    <2>2. job.pc = "record" /\ job.img = req[r].img /\ job.row = req[r].row
        BY <2>1 DEF Job
    <2>3. PictureOK(job)
        BY <2>1, <2>2 DEF PictureOK
    <2> QED
        BY <1>1, <2>1, <2>3, GotoPictures DEF CacheInv
<1> QED
    BY <1>2, <1>3

(* The step the invariant is for: what is recorded was drawn for row. *)
LEMMA RecordCaches ==
    ASSUME TypeInv, CacheInv, NEW r \in Reqs, Record(r)
    PROVE  CacheInv'
<1> DEFINE job == [req[r] EXCEPT !.pc = "respond"]
<1>1. /\ req[r] \in Job /\ JobOK(req[r]) /\ req[r].pc = "record"
      /\ req[r].scr \in Screens /\ req[r].img.ind = Indicator(req[r].row)
    BY JobAt DEF Record, JobOK, CacheInv, PicturesOK, PictureOK
<1>2. PicturesOK'
    <2>1. job.pc = "respond" /\ job.img = req[r].img /\ job.row = req[r].row
        BY <1>1 DEF Job
    <2>2. PictureOK(job)
        BY <1>1, <2>1 DEF PictureOK
    <2> QED
        BY <2>2, GotoPictures, FinishPictures DEF Record, CacheInv
<1>3. CachesSeparate'
    <2>1. CASE UNCHANGED <<screens, renders>>
        BY <2>1, SameCaches DEF CacheInv
    <2>2. CASE /\ ~ShowsBattery(req[r].row)
               /\ SetScreenRendered(req[r].scr, req[r].img)
               /\ UNCHANGED renders
        <3> DEFINE row == [screens[req[r].scr] EXCEPT !.hash = req[r].img, !.fresh = TRUE]
        <3>1. screens[req[r].scr] # NULL => row.hash = req[r].img
            BY <1>1 DEF ScreenRow, TypeInv, TypeOK, StoreTypeOK
        <3>2. req[r].img.ind = NULL
            BY <1>1, <2>2 DEF Indicator
        <3>3. screens' = IF screens[req[r].scr] = NULL THEN screens
                         ELSE [screens EXCEPT ![req[r].scr] = row]
            BY <2>2 DEF SetScreenRendered, UpdateScreen
        <3> HIDE DEF row
        <3>4. \A s \in Screens : screens'[s] # NULL /\ screens'[s].hash # NULL
                                    => screens'[s].hash.ind = NULL
            BY <3>1, <3>2, <3>3 DEF CacheInv, CachesSeparate, TypeInv, TypeOK, StoreTypeOK
        <3> QED
            BY <2>2, <3>4 DEF CacheInv, CachesSeparate
    <2>3. CASE /\ ShowsBattery(req[r].row)
               /\ SetDeviceScreenRender(req[r].dev, req[r].scr, req[r].img,
                                        req[r].row.battery)
               /\ UNCHANGED screens
        <3>1. req[r].img.ind = req[r].row.battery
            BY <1>1, <2>3 DEF Indicator
        <3>2. \A d \in Devices, s \in Screens :
                 renders'[d][s] # NULL => renders'[d][s].hash.ind = renders'[d][s].bat
            BY <2>3, <3>1 DEF SetDeviceScreenRender, CacheInv, CachesSeparate,
               TypeInv, TypeOK, StoreTypeOK
        <3> QED
            BY <2>3, <3>2 DEF CacheInv, CachesSeparate
    <2> QED
        BY <2>1, <2>2, <2>3 DEF Record
<1> QED
    BY <1>2, <1>3 DEF CacheInv

(* The steps of a poll that hold no picture and touch no cache. *)
LEMMA PollCaches ==
    ASSUME TypeInv, CacheInv, NEW r \in Reqs,
           \/ \E d \in Devices : Poll(r, d)
           \/ Telemetry(r) \/ TelemetryFails(r) \/ Reload(r)
           \/ Pick(r) \/ PickNone(r) \/ Advance(r) \/ Respond(r) \/ Clear(r)
    PROVE  CacheInv'
<1>1. req[r] \in Job
    BY JobAt
<1>2. CachesSeparate'
    BY SameCaches DEF Poll, Telemetry, TelemetryFails, Reload, Pick, PickNone, Advance,
       Respond, Clear, storeVars, CacheInv
<1>3. ASSUME NEW d \in Devices, Poll(r, d)
      PROVE  PicturesOK'
    <2> DEFINE job == [Idle EXCEPT !.pc = "telemetry", !.kind = "display",
                                  !.dev = d, !.row = devices[d]]
    <2>1. job.pc = "telemetry"
        BY DEF Idle
    <2> QED
        BY <1>3, <2>1, NoPictureHeld, GotoPictures DEF Poll, CacheInv
<1>4. CASE Telemetry(r)
    <2>1. Goto(r, [req[r] EXCEPT !.pc = "reload"])
        BY <1>4 DEF Telemetry
    <2>2. [req[r] EXCEPT !.pc = "reload"].pc = "reload"
        BY <1>1 DEF Job
    <2> QED
        BY <1>2, <2>1, <2>2, NoPictureHeld, GotoPictures DEF CacheInv
<1>5. CASE TelemetryFails(r)
    BY <1>2, <1>5, FinishPictures DEF TelemetryFails, CacheInv
<1>6. CASE Reload(r)
    <2>1. PICK row : Goto(r, [req[r] EXCEPT !.pc = "pick", !.row = row])
        BY <1>6 DEF Reload
    <2>2. [req[r] EXCEPT !.pc = "pick", !.row = row].pc = "pick"
        BY <1>1 DEF Job
    <2> QED
        BY <1>2, <2>1, <2>2, NoPictureHeld, GotoPictures DEF CacheInv
<1>7. CASE Pick(r)
    <2> DEFINE rows == ListPlaylistItems(req[r].row.playlist)
               n    == Cardinality(rows)
               pc   == IF req[r].kind = "display" THEN "advance" ELSE "getscreen"
               next == ((req[r].row.cursor % n) + 1) % n
    <2>1. PICK i \in rows :
              Goto(r, [req[r] EXCEPT !.pc = pc, !.scr = i.screen, !.next = next])
        BY <1>7 DEF Pick
    <2>2. pc \in {"advance", "getscreen"}
        OBVIOUS
    <2> HIDE DEF rows, n, pc, next
    <2>3. [req[r] EXCEPT !.pc = pc, !.scr = i.screen, !.next = next].pc = pc
        BY <1>1 DEF Job
    <2> QED
        BY <1>2, <2>1, <2>2, <2>3, NoPictureHeld, GotoPictures DEF CacheInv
<1>8. CASE PickNone(r)
    BY <1>2, <1>8, NoPicturePictures DEF PickNone, CacheInv
<1>9. CASE Advance(r)
    <2>1. Goto(r, [req[r] EXCEPT !.pc = "getscreen", !.next = 0])
        BY <1>9 DEF Advance
    <2>2. [req[r] EXCEPT !.pc = "getscreen", !.next = 0].pc = "getscreen"
        BY <1>1 DEF Job
    <2> QED
        BY <1>2, <2>1, <2>2, NoPictureHeld, GotoPictures DEF CacheInv
<1>10. CASE Respond(r)
    <2> DEFINE job == [Idle EXCEPT !.pc = "clear", !.kind = "display",
                                  !.dev = req[r].dev, !.row = req[r].row]
    <2>1. job.pc = "clear"
        BY DEF Idle
    <2> QED
        BY <1>2, <1>10, <2>1, NoPictureHeld, GotoPictures, FinishPictures
           DEF Respond, CacheInv
<1>11. CASE Clear(r)
    BY <1>2, <1>11, FinishPictures DEF Clear, CacheInv
<1> QED
    BY <1>2, <1>3, <1>4, <1>5, <1>6, <1>7, <1>8, <1>9, <1>10, <1>11 DEF CacheInv

-----------------------------------------------------------------------------
(* The admin requests in flight. *)
LEMMA AdminStepCaches ==
    ASSUME TypeInv, CacheInv, NEW r \in Reqs,
           \/ AdminStep(r)
           \/ SettingsSave(r)
           \/ \E d \in Devices : DeviceForceRefresh(r, d)
           \/ \E s \in Screens : ScreenUpdate(r, s) \/ ScreenPreview(r, s)
    PROVE  CacheInv'
<1>1. req[r] \in Job /\ JobOK(req[r])
    BY JobAt
<1>2. /\ screens \in [Screens -> ScreenRow \union {NULL}]
      /\ renders \in [Devices -> [Screens -> RenderRow \union {NULL}]]
    BY DEF TypeInv, TypeOK, StoreTypeOK
<1>3. CASE RefreshList(r)
    <2> DEFINE p    == req[r].row.playlist
               todo == IF p = NULL THEN {} ELSE {i.screen : i \in ListPlaylistItems(p)}
    <2>1. Goto(r, [req[r] EXCEPT !.pc = "clearscreens", !.todo = todo])
        BY <1>3 DEF RefreshList
    <2> HIDE DEF todo
    <2>2. [req[r] EXCEPT !.pc = "clearscreens", !.todo = todo].pc = "clearscreens"
        BY <1>1 DEF Job
    <2> QED
        BY <1>3, <2>1, <2>2, NoPictureHeld, GotoPictures, SameCaches
           DEF RefreshList, storeVars, CacheInv
<1>4. CASE RefreshClearScreen(r)
    <2>1. PICK s \in req[r].todo :
              ClearScreenRendered(s) /\ Goto(r, [req[r] EXCEPT !.todo = @ \ {s}])
        BY <1>4 DEF RefreshClearScreen
    <2>2. s \in Screens
        BY <1>1 DEF Job
    <2>3. [req[r] EXCEPT !.todo = @ \ {s}].pc = "clearscreens"
        BY <1>1, <1>4 DEF Job, RefreshClearScreen
    <2>4. screens[s] # NULL => [screens[s] EXCEPT !.hash = NULL, !.fresh = FALSE].hash = NULL
        BY <1>2, <2>2 DEF ScreenRow
    <2>5. CachesSeparate'
        BY <1>4, <2>1, <2>2, <2>4, UpdateScreenCaches
           DEF RefreshClearScreen, ClearScreenRendered, CacheInv
    <2> QED
        BY <2>1, <2>3, <2>5, NoPictureHeld, GotoPictures DEF CacheInv
<1>5. CASE RefreshClearDevice(r)
    <2>1. \A d \in Devices, s \in Screens :
             renders'[d][s] = renders[d][s] \/ renders'[d][s] = NULL
        BY <1>2, <1>5 DEF RefreshClearDevice, ClearDeviceRenders
    <2>2. CachesSeparate'
        BY <1>5, <2>1, KeptCaches DEF RefreshClearDevice, CacheInv
    <2>3. Goto(r, [req[r] EXCEPT !.pc = "pick"])
        BY <1>5 DEF RefreshClearDevice
    <2>4. [req[r] EXCEPT !.pc = "pick"].pc = "pick"
        BY <1>1 DEF Job
    <2> QED
        BY <2>2, <2>3, <2>4, NoPictureHeld, GotoPictures DEF CacheInv
<1>6. CASE ScreenUpdateDither(r)
    <2> DEFINE row == [screens[req[r].scr] EXCEPT !.dither = req[r].arg,
                                                 !.hash = NULL, !.fresh = FALSE]
    <2>1. req[r].scr \in Screens
        BY <1>1, <1>6 DEF ScreenUpdateDither, JobOK
    <2>2. screens[req[r].scr] # NULL => row.hash = NULL
        BY <1>2, <2>1 DEF ScreenRow
    <2>3. CachesSeparate'
        BY <1>6, <2>1, <2>2, UpdateScreenCaches
           DEF ScreenUpdateDither, UpdateScreenDither, CacheInv
    <2> QED
        BY <1>6, <2>3, FinishPictures DEF ScreenUpdateDither, CacheInv
<1>7. CASE PreviewDevice(r)
    <2> DEFINE row == IF req[r].dev = NULL THEN NULL ELSE devices[req[r].dev]
    <2>1. Goto(r, [req[r] EXCEPT !.pc = "compute", !.row = row])
        BY <1>7 DEF PreviewDevice
    <2> HIDE DEF row
    <2>2. [req[r] EXCEPT !.pc = "compute", !.row = row].pc = "compute"
        BY <1>1 DEF Job
    <2> QED
        BY <1>7, <2>1, <2>2, NoPictureHeld, GotoPictures, SameCaches
           DEF PreviewDevice, storeVars, CacheInv
<1>8. CASE SettingsSaveFonts(r)
    BY <1>8, FinishPictures, SameCaches DEF SettingsSaveFonts, CacheInv
<1>9. CASE SettingsSave(r)
    <2>1. PICK f \in Fonts :
              Goto(r, [Idle EXCEPT !.pc = "fonts", !.kind = "save", !.arg = f])
        BY <1>9 DEF SettingsSave
    <2>2. [Idle EXCEPT !.pc = "fonts", !.kind = "save", !.arg = f].pc = "fonts"
        BY DEF Idle
    <2> QED
        BY <1>9, <2>1, <2>2, NoPictureHeld, GotoPictures, SameCaches
           DEF SettingsSave, CacheInv
<1>10. ASSUME NEW d \in Devices, DeviceForceRefresh(r, d)
       PROVE  CacheInv'
    <2> DEFINE job == [Idle EXCEPT !.pc = "list", !.kind = "refresh",
                                  !.dev = d, !.row = devices[d]]
    <2>1. job.pc = "list"
        BY DEF Idle
    <2> QED
        BY <1>10, <2>1, NoPictureHeld, GotoPictures, SameCaches
           DEF DeviceForceRefresh, storeVars, CacheInv
<1>11. ASSUME NEW s \in Screens, ScreenUpdate(r, s)
       PROVE  CacheInv'
    <2>1. PICK c \in Contents, m \in Modes \union {NULL} :
              /\ UpdateScreenSettings(s, c)
              /\ Goto(r, [Idle EXCEPT !.pc = "dither", !.kind = "edit",
                                      !.scr = s, !.arg = m])
        BY <1>11 DEF ScreenUpdate
    <2> DEFINE job == [Idle EXCEPT !.pc = "dither", !.kind = "edit",
                                  !.scr = s, !.arg = m]
    <2>2. job.pc = "dither"
        BY DEF Idle
    <2>3. CachesSeparate'
        BY <1>11, <2>1, UpdateSettingsCaches DEF ScreenUpdate, CacheInv
    <2> QED
        BY <2>1, <2>2, <2>3, NoPictureHeld, GotoPictures DEF CacheInv
<1>12. ASSUME NEW s \in Screens, ScreenPreview(r, s)
       PROVE  CacheInv'
    <2>1. PICK d \in Devices \union {NULL} :
              Goto(r, [Idle EXCEPT !.pc = "getscreen", !.kind = "preview",
                                   !.dev = d, !.scr = s])
        BY <1>12 DEF ScreenPreview
    <2>2. [Idle EXCEPT !.pc = "getscreen", !.kind = "preview",
                       !.dev = d, !.scr = s].pc = "getscreen"
        BY DEF Idle
    <2> QED
        BY <1>12, <2>1, <2>2, NoPictureHeld, GotoPictures, SameCaches
           DEF ScreenPreview, storeVars, CacheInv
<1> QED
    BY <1>3, <1>4, <1>5, <1>6, <1>7, <1>8, <1>9, <1>10, <1>11, <1>12 DEF AdminStep

(* Everything else leaves the requests alone, or ends them all. *)
LEMMA TableCaches ==
    ASSUME TypeInv, CacheInv,
           \/ \E d \in Devices : \/ DeviceCreate(d) \/ DeviceUpdate(d) \/ DeviceDelete(d)
                                 \/ DeviceFirmware(d) \/ DeviceFirmwareCancel(d)
           \/ \E s \in Screens : ScreenCreate(s) \/ ScreenDelete(s) \/ ScreenUpload(s)
           \/ PlaylistAdmin \/ Maintenance \/ Expire \/ \E f \in files : Age(f)
    PROVE  CacheInv'
<1>1. /\ screens \in [Screens -> ScreenRow \union {NULL}]
      /\ renders \in [Devices -> [Screens -> RenderRow \union {NULL}]]
    BY DEF TypeInv, TypeOK, StoreTypeOK
<1>2. PicturesOK'
    <2>1. req' = req
        BY DEF DeviceCreate, DeviceUpdate, DeviceDelete, DeviceFirmware,
           DeviceFirmwareCancel, ScreenCreate, ScreenDelete, ScreenUpload, PlaylistAdmin,
           PlaylistCreate, PlaylistDelete, PlaylistAddItem, PlaylistRemoveItem,
           Maintenance, Expire, Age, jobVars
    <2> QED
        BY <2>1 DEF CacheInv, PicturesOK
<1>3. CASE \/ \E d \in Devices : \/ DeviceCreate(d) \/ DeviceUpdate(d)
                                 \/ DeviceFirmware(d) \/ DeviceFirmwareCancel(d)
           \/ PlaylistAdmin \/ Maintenance \/ \E f \in files : Age(f)
    <2>1. UNCHANGED <<screens, renders>>
        BY <1>3 DEF DeviceCreate, DeviceUpdate, DeviceFirmware, DeviceFirmwareCancel,
           PlaylistAdmin, PlaylistCreate, PlaylistDelete, PlaylistAddItem,
           PlaylistRemoveItem, Maintenance, SweepStart, SweepRemove, SweepEnd,
           Age, AgeFile, storeVars
    <2> QED
        BY <1>2, <2>1, SameCaches DEF CacheInv
<1>4. ASSUME NEW d \in Devices, DeviceDelete(d)
      PROVE  CachesSeparate'
    <2>1. \A e \in Devices, s \in Screens :
             renders'[e][s] = renders[e][s] \/ renders'[e][s] = NULL
        BY <1>1, <1>4 DEF DeviceDelete, DeleteDevice
    <2> QED
        BY <1>4, <2>1, KeptCaches DEF DeviceDelete, CacheInv
<1>5. ASSUME NEW s \in Screens, ScreenCreate(s)
      PROVE  CachesSeparate'
    <2>1. \A t \in Screens : screens'[t] = screens[t] \/ screens'[t].hash = NULL
        BY <1>1, <1>5 DEF ScreenCreate, CreateScreen, NewScreen
    <2> QED
        BY <1>5, <2>1, KeptCaches DEF ScreenCreate, CacheInv
<1>6. ASSUME NEW s \in Screens, ScreenDelete(s)
      PROVE  CachesSeparate'
    <2>1. \A t \in Screens : screens'[t] = screens[t] \/ screens'[t] = NULL
        BY <1>1, <1>6 DEF ScreenDelete, DeleteScreen
    <2>2. \A e \in Devices, t \in Screens :
             renders'[e][t] = renders[e][t] \/ renders'[e][t] = NULL
        BY <1>1, <1>6 DEF ScreenDelete, DeleteScreen
    <2> QED
        BY <2>1, <2>2, KeptCaches DEF CacheInv
<1>7. ASSUME NEW s \in Screens, ScreenUpload(s)
      PROVE  CachesSeparate'
    BY <1>7, UpdateSettingsCaches DEF ScreenUpload, CacheInv
<1>8. ASSUME NEW s \in Screens, ExpireScreen(s), UNCHANGED renders
      PROVE  CachesSeparate'
    <2>1. [screens[s] EXCEPT !.fresh = FALSE].hash = screens[s].hash
        BY <1>1, <1>8 DEF ExpireScreen, ScreenRow
    <2>2. UpdateScreen(s, [screens[s] EXCEPT !.fresh = FALSE])
        BY <1>8 DEF ExpireScreen, UpdateScreen
    <2> QED
        BY <1>8, <2>1, <2>2, UpdateScreenCaches DEF CacheInv
<1>9. ASSUME NEW d \in Devices, NEW s \in Screens, ExpireRender(d, s), UNCHANGED screens
      PROVE  CachesSeparate'
    <2>1. \A e \in Devices, t \in Screens : renders'[e][t] # NULL =>
              /\ renders[e][t] # NULL
              /\ renders'[e][t].hash = renders[e][t].hash
              /\ renders'[e][t].bat = renders[e][t].bat
        BY <1>1, <1>9 DEF ExpireRender, RenderRow
    <2> QED
        BY <1>9, <2>1, KeptCaches DEF CacheInv
<1> QED
    BY <1>2, <1>3, <1>4, <1>5, <1>6, <1>7, <1>8, <1>9 DEF Expire, CacheInv

LEMMA CrashCaches ==
    ASSUME CacheInv, Crash
    PROVE  CacheInv'
<1>1. Idle.pc = "idle"
    BY DEF Idle
<1>2. PicturesOK'
    BY <1>1, NoPictureHeld DEF Crash, PicturesOK
<1> QED
    BY <1>2, SameCaches DEF Crash, storeVars, CacheInv

-----------------------------------------------------------------------------
LEMMA InitCaches == Init => CacheInv
<1> SUFFICES ASSUME Init PROVE CacheInv
    OBVIOUS
<1>1. CachesSeparate
    BY DEF Init, CachesSeparate, NewScreen
<1>2. Idle.pc = "idle"
    BY DEF Idle
<1>3. PicturesOK
    BY <1>2, NoPictureHeld DEF Init, PicturesOK
<1> QED
    BY <1>1, <1>3 DEF CacheInv

LEMMA NextCaches ==
    ASSUME TypeInv, CacheInv, [Next]_vars
    PROVE  CacheInv'
<1>1. CASE UNCHANGED vars
    BY <1>1, SameCaches DEF vars, storeVars, jobVars, CacheInv, PicturesOK
<1>2. ASSUME NEW r \in Reqs, DisplayStep(r)
      PROVE  CacheInv'
    BY <1>2, PollCaches, GetScreenCaches, LookupCaches, ComputeCaches, WriteCaches,
       RecordCaches DEF DisplayStep
<1>3. CASE AdminNext
    BY <1>3, AdminStepCaches, TableCaches
       DEF AdminNext, DeviceAdmin, ScreenAdmin
<1> QED
    BY <1>1, <1>2, <1>3, PollCaches, AdminStepCaches, TableCaches, CrashCaches DEF Next

(* Whatever interleaves with a rendering, the cache entry every device     *)
(* shares holds no battery indicator and a device's own entry holds the    *)
(* one its battery_state column claims; no poll answers with a picture     *)
(* that lacks, adds or misstates the indicator.                            *)
THEOREM CacheInvariant == Spec => []CacheInv
<1>1. TypeInv /\ CacheInv /\ [Next]_vars => CacheInv'
    BY NextCaches
<1> QED
    BY InitCaches, TypeInvariant, <1>1, PTL DEF Spec

(* screens.Render never lets the two render caches mix. *)
THEOREM CachesNeverMix == Spec => []CachesSeparate
<1>1. CacheInv => CachesSeparate
    BY DEF CacheInv
<1> QED
    BY CacheInvariant, <1>1, PTL

(* The answer of Display shows the battery state the poll went on with,    *)
(* whether cachedHash or screens.Render supplied it.                       *)
THEOREM IndicatorServed == Spec => []ServedIndicator
<1>1. CacheInv => ServedIndicator
    BY DEF CacheInv, PicturesOK, PictureOK, Indicator, ServedIndicator, Answers
<1> QED
    BY CacheInvariant, <1>1, PTL

-----------------------------------------------------------------------------
(* The files of the pictures.                                              *)

(* The files the sweep cannot take: there, and not yet old. *)
FreshFiles == files \ old

FreshInv == \A r \in Reqs : req[r].wrote => req[r].img \in FreshFiles

-----------------------------------------------------------------------------
(* Lemmas about steps.  The steps of a handler up to its file write have   *)
(* written nothing, and most steps leave the directory as it is.           *)

LEMMA NothingWritten ==
    ASSUME TypeInv, NEW r \in Reqs, req[r].pc \notin {"record", "respond"}
    PROVE  ~req[r].wrote
BY JobAt DEF JobOK

(* A request that moves, when the directory loses no young file. *)
LEMMA GotoFresh ==
    ASSUME TypeInv, FreshInv, NEW r \in Reqs, NEW job, Goto(r, job),
           FreshFiles \subseteq FreshFiles',
           job.wrote => job.img \in FreshFiles'
    PROVE  FreshInv'
<1>1. ASSUME NEW q \in Reqs
      PROVE  req'[q].wrote => req'[q].img \in FreshFiles'
    <2>1. req'[q] = IF q = r THEN job ELSE req[q]
        BY DEF Goto, TypeInv, TypeOK, JobsTypeOK
    <2> QED
        BY <2>1 DEF FreshInv
<1> QED
    BY <1>1 DEF FreshInv

LEMMA FinishFresh ==
    ASSUME TypeInv, FreshInv, NEW r \in Reqs, Finish(r), FreshFiles \subseteq FreshFiles'
    PROVE  FreshInv'
BY GotoFresh DEF Finish, Idle

LEMMA NoPictureFresh ==
    ASSUME TypeInv, FreshInv, NEW r \in Reqs, NoPicture(r), FreshFiles \subseteq FreshFiles'
    PROVE  FreshInv'
<1> DEFINE job == [Idle EXCEPT !.pc = "respond", !.kind = "display",
                              !.dev = req[r].dev, !.row = req[r].row]
<1>1. ~job.wrote
    BY DEF Idle
<1> QED
    BY <1>1, GotoFresh, FinishFresh DEF NoPicture

(* Writing a picture that is there changes nothing; writing another one    *)
(* adds a young file.                                                      *)
LEMMA WriteIfAbsentFresh ==
    ASSUME TypeInv, NEW img, WriteIfAbsent(img)
    PROVE  FreshFiles \subseteq FreshFiles' /\ (img \notin files => img \in FreshFiles')
BY DEF WriteIfAbsent, FreshFiles, TypeInv, TypeOK, UploadsTypeOK

LEMMA SameFresh ==
    ASSUME UNCHANGED uploadVars
    PROVE  FreshFiles' = FreshFiles
BY DEF uploadVars, FreshFiles

-----------------------------------------------------------------------------
(* The rendering path. *)

LEMMA WriteFresh ==
    ASSUME TypeInv, FreshInv, NEW r \in Reqs, Write(r) \/ WriteFails(r)
    PROVE  FreshInv'
<1>1. CASE Write(r)
    <2> DEFINE new == req[r].img \notin files
               job == [req[r] EXCEPT !.pc = "record", !.wrote = new]
    <2>1. req[r] \in Job /\ Goto(r, job)
        BY <1>1, JobAt DEF Write
    <2>2. /\ FreshFiles \subseteq FreshFiles'
          /\ new => req[r].img \in FreshFiles'
        BY <1>1, WriteIfAbsentFresh DEF Write
    <2> HIDE DEF new
    <2>3. job.wrote = new /\ job.img = req[r].img
        BY <2>1 DEF Job
    <2> QED
        BY <2>1, <2>2, <2>3, GotoFresh
<1>2. CASE WriteFails(r)
    <2>1. FreshFiles \subseteq FreshFiles'
        BY <1>2, WriteIfAbsentFresh, SameFresh DEF WriteFails
    <2> QED
        BY <1>2, <2>1, NoPictureFresh DEF WriteFails
<1> QED
    BY <1>1, <1>2

LEMMA RecordFresh ==
    ASSUME TypeInv, FreshInv, NEW r \in Reqs, Record(r)
    PROVE  FreshInv'
<1> DEFINE job == [req[r] EXCEPT !.pc = "respond"]
<1>1. req[r] \in Job
    BY JobAt
<1>2. job.wrote = req[r].wrote /\ job.img = req[r].img
    BY <1>1 DEF Job
<1>3. FreshFiles' = FreshFiles
    BY SameFresh DEF Record
<1>4. job.wrote => job.img \in FreshFiles'
    BY <1>2, <1>3 DEF FreshInv
<1>5. Goto(r, job) \/ Finish(r)
    BY DEF Record
<1> QED
    BY <1>3, <1>4, <1>5, GotoFresh, FinishFresh

LEMMA LookupFresh ==
    ASSUME TypeInv, FreshInv, NEW r \in Reqs,
           GetScreen(r) \/ Lookup(r) \/ Compute(r) \/ ComputeFails(r)
    PROVE  FreshInv'
<1>1. req[r] \in Job /\ ~req[r].wrote
    BY JobAt, NothingWritten DEF GetScreen, Lookup, Compute, ComputeFails
<1>2. FreshFiles' = FreshFiles
    BY SameFresh DEF GetScreen, Lookup, Compute, ComputeFails
<1>3. CASE GetScreen(r)
    <2>1. NoPicture(r) \/ \E sc, pc : Goto(r, [req[r] EXCEPT !.sc = sc, !.pc = pc])
        BY <1>3 DEF GetScreen
    <2>2. ASSUME NEW sc, NEW pc
          PROVE  ~[req[r] EXCEPT !.sc = sc, !.pc = pc].wrote
        BY <1>1 DEF Job
    <2> QED
        BY <1>2, <2>1, <2>2, GotoFresh, NoPictureFresh
<1>4. CASE Lookup(r)
    <2>1. \/ NoPicture(r)
          \/ \E img : Goto(r, [req[r] EXCEPT !.pc = "respond", !.img = img])
          \/ Goto(r, [req[r] EXCEPT !.pc = "compute"])
        BY <1>4 DEF Lookup
    <2>2. ASSUME NEW img
          PROVE  /\ ~[req[r] EXCEPT !.pc = "respond", !.img = img].wrote
                 /\ ~[req[r] EXCEPT !.pc = "compute"].wrote
        BY <1>1 DEF Job
    <2> QED
        BY <1>2, <2>1, <2>2, GotoFresh, NoPictureFresh
<1>5. CASE Compute(r)
    <2>1. PICK img : Goto(r, [req[r] EXCEPT !.pc = "write", !.img = img])
        BY <1>5 DEF Compute
    <2>2. ~[req[r] EXCEPT !.pc = "write", !.img = img].wrote
        BY <1>1 DEF Job
    <2> QED
        BY <1>2, <2>1, <2>2, GotoFresh
<1>6. CASE ComputeFails(r)
    BY <1>2, <1>6, NoPictureFresh DEF ComputeFails
<1> QED
    BY <1>3, <1>4, <1>5, <1>6

-----------------------------------------------------------------------------
(* The other steps of a poll. *)

LEMMA PollFresh ==
    ASSUME TypeInv, FreshInv, NEW r \in Reqs,
           \/ \E d \in Devices : Poll(r, d)
           \/ Telemetry(r) \/ TelemetryFails(r) \/ Reload(r)
           \/ Pick(r) \/ PickNone(r) \/ Advance(r) \/ Respond(r) \/ Clear(r)
    PROVE  FreshInv'
<1>1. req[r] \in Job
    BY JobAt
<1>2. FreshFiles' = FreshFiles
    BY SameFresh DEF Poll, Telemetry, TelemetryFails, Reload, Pick, PickNone, Advance,
       Respond, Clear
<1>3. ASSUME NEW d \in Devices, Poll(r, d)
      PROVE  FreshInv'
    <2> DEFINE job == [Idle EXCEPT !.pc = "telemetry", !.kind = "display",
                                  !.dev = d, !.row = devices[d]]
    <2>1. ~job.wrote
        BY DEF Idle
    <2> QED
        BY <1>2, <1>3, <2>1, GotoFresh DEF Poll
<1>4. CASE Telemetry(r)
    <2>1. Goto(r, [req[r] EXCEPT !.pc = "reload"]) /\ ~req[r].wrote
        BY <1>4, NothingWritten DEF Telemetry
    <2>2. ~[req[r] EXCEPT !.pc = "reload"].wrote
        BY <1>1, <2>1 DEF Job
    <2> QED
        BY <1>2, <2>1, <2>2, GotoFresh
<1>5. CASE Reload(r)
    <2>1. PICK row : Goto(r, [req[r] EXCEPT !.pc = "pick", !.row = row])
        BY <1>5 DEF Reload
    <2>2. ~req[r].wrote
        BY <1>5, NothingWritten DEF Reload
    <2>3. ~[req[r] EXCEPT !.pc = "pick", !.row = row].wrote
        BY <1>1, <2>2 DEF Job
    <2> QED
        BY <1>2, <2>1, <2>3, GotoFresh
<1>6. CASE Pick(r)
    <2>1. PICK pc, scr, next :
              Goto(r, [req[r] EXCEPT !.pc = pc, !.scr = scr, !.next = next])
        BY <1>6 DEF Pick
    <2>2. ~req[r].wrote
        BY <1>6, NothingWritten DEF Pick
    <2>3. ~[req[r] EXCEPT !.pc = pc, !.scr = scr, !.next = next].wrote
        BY <1>1, <2>2 DEF Job
    <2> QED
        BY <1>2, <2>1, <2>3, GotoFresh
<1>7. CASE Advance(r)
    <2>1. Goto(r, [req[r] EXCEPT !.pc = "getscreen", !.next = 0]) /\ ~req[r].wrote
        BY <1>7, NothingWritten DEF Advance
    <2>2. ~[req[r] EXCEPT !.pc = "getscreen", !.next = 0].wrote
        BY <1>1, <2>1 DEF Job
    <2> QED
        BY <1>2, <2>1, <2>2, GotoFresh
<1>8. CASE Respond(r)
    <2> DEFINE job == [Idle EXCEPT !.pc = "clear", !.kind = "display",
                                  !.dev = req[r].dev, !.row = req[r].row]
    <2>1. ~job.wrote
        BY DEF Idle
    <2> QED
        BY <1>2, <1>8, <2>1, GotoFresh, FinishFresh DEF Respond
<1> QED
    BY <1>2, <1>3, <1>4, <1>5, <1>6, <1>7, <1>8, NoPictureFresh, FinishFresh
       DEF TelemetryFails, PickNone, Clear

-----------------------------------------------------------------------------
(* The admin requests in flight. *)

LEMMA AdminStepFresh ==
    ASSUME TypeInv, FreshInv, NEW r \in Reqs,
           \/ AdminStep(r)
           \/ SettingsSave(r)
           \/ \E d \in Devices : DeviceForceRefresh(r, d)
           \/ \E s \in Screens : ScreenUpdate(r, s) \/ ScreenPreview(r, s)
    PROVE  FreshInv'
<1>1. req[r] \in Job
    BY JobAt
<1>2. FreshFiles' = FreshFiles
    BY SameFresh DEF AdminStep, RefreshList, RefreshClearScreen, RefreshClearDevice,
       ScreenUpdateDither, PreviewDevice, SettingsSaveFonts, SettingsSave,
       DeviceForceRefresh, ScreenUpdate, ScreenPreview
<1>3. CASE RefreshList(r) \/ RefreshClearScreen(r)
    <2>1. PICK pc, todo : Goto(r, [req[r] EXCEPT !.pc = pc, !.todo = todo])
        <3>1. CASE RefreshList(r)
            BY <3>1 DEF RefreshList
        <3>2. CASE RefreshClearScreen(r)
            <4>1. PICK s \in req[r].todo : Goto(r, [req[r] EXCEPT !.todo = @ \ {s}])
                BY <3>2 DEF RefreshClearScreen
            <4>2. [req[r] EXCEPT !.todo = @ \ {s}]
                    = [req[r] EXCEPT !.pc = req[r].pc, !.todo = req[r].todo \ {s}]
                BY <1>1 DEF Job
            <4> QED
                BY <4>1, <4>2
        <3> QED
            BY <1>3, <3>1, <3>2
    <2>2. ~req[r].wrote
        BY <1>3, NothingWritten DEF RefreshList, RefreshClearScreen
    <2>3. ~[req[r] EXCEPT !.pc = pc, !.todo = todo].wrote
        BY <1>1, <2>2 DEF Job
    <2> QED
        BY <1>2, <2>1, <2>3, GotoFresh
<1>4. CASE RefreshClearDevice(r)
    <2>1. Goto(r, [req[r] EXCEPT !.pc = "pick"]) /\ ~req[r].wrote
        BY <1>4, NothingWritten DEF RefreshClearDevice
    <2>2. ~[req[r] EXCEPT !.pc = "pick"].wrote
        BY <1>1, <2>1 DEF Job
    <2> QED
        BY <1>2, <2>1, <2>2, GotoFresh
<1>5. CASE PreviewDevice(r)
    <2>1. PICK row : Goto(r, [req[r] EXCEPT !.pc = "compute", !.row = row])
        BY <1>5 DEF PreviewDevice
    <2>2. ~req[r].wrote
        BY <1>5, NothingWritten DEF PreviewDevice
    <2>3. ~[req[r] EXCEPT !.pc = "compute", !.row = row].wrote
        BY <1>1, <2>2 DEF Job
    <2> QED
        BY <1>2, <2>1, <2>3, GotoFresh
<1>6. CASE ScreenUpdateDither(r) \/ SettingsSaveFonts(r)
    BY <1>2, <1>6, FinishFresh DEF ScreenUpdateDither, SettingsSaveFonts
<1>7. CASE SettingsSave(r)
    <2>1. PICK f : Goto(r, [Idle EXCEPT !.pc = "fonts", !.kind = "save", !.arg = f])
        BY <1>7 DEF SettingsSave
    <2>2. ~[Idle EXCEPT !.pc = "fonts", !.kind = "save", !.arg = f].wrote
        BY DEF Idle
    <2> QED
        BY <1>2, <2>1, <2>2, GotoFresh
<1>8. ASSUME NEW d \in Devices, DeviceForceRefresh(r, d)
      PROVE  FreshInv'
    <2> DEFINE job == [Idle EXCEPT !.pc = "list", !.kind = "refresh",
                                  !.dev = d, !.row = devices[d]]
    <2>1. ~job.wrote
        BY DEF Idle
    <2> QED
        BY <1>2, <1>8, <2>1, GotoFresh DEF DeviceForceRefresh
<1>9. ASSUME NEW s \in Screens, ScreenUpdate(r, s)
      PROVE  FreshInv'
    <2>1. PICK m : Goto(r, [Idle EXCEPT !.pc = "dither", !.kind = "edit",
                                       !.scr = s, !.arg = m])
        BY <1>9 DEF ScreenUpdate
    <2>2. ~[Idle EXCEPT !.pc = "dither", !.kind = "edit", !.scr = s, !.arg = m].wrote
        BY DEF Idle
    <2> QED
        BY <1>2, <2>1, <2>2, GotoFresh
<1>10. ASSUME NEW s \in Screens, ScreenPreview(r, s)
       PROVE  FreshInv'
    <2>1. PICK d : Goto(r, [Idle EXCEPT !.pc = "getscreen", !.kind = "preview",
                                       !.dev = d, !.scr = s])
        BY <1>10 DEF ScreenPreview
    <2>2. ~[Idle EXCEPT !.pc = "getscreen", !.kind = "preview",
                        !.dev = d, !.scr = s].wrote
        BY DEF Idle
    <2> QED
        BY <1>2, <2>1, <2>2, GotoFresh
<1> QED
    BY <1>3, <1>4, <1>5, <1>6, <1>7, <1>8, <1>9, <1>10 DEF AdminStep

-----------------------------------------------------------------------------
(* The sweep and time; the handlers that make one write; a crash. *)

LEMMA SweepFresh ==
    ASSUME TypeInv, FreshInv, Maintenance \/ \E f \in files : Age(f)
    PROVE  FreshInv'
<1>1. ASSUME NEW f \in files, Age(f)
      PROVE  FreshInv'
    <2>1. \A r \in Reqs : req[r].wrote => req[r].img # f
        BY <1>1 DEF Age, AgeFile, Held
    <2>2. req' = req /\ files' = files /\ old' = old \union {f}
        BY <1>1 DEF Age, AgeFile, jobVars
    <2> QED
        BY <2>1, <2>2 DEF FreshInv, FreshFiles
<1>2. CASE Maintenance
    <2>1. req' = req
        BY <1>2 DEF Maintenance, jobVars
    <2>2. ASSUME NEW f \in files, SweepRemove(f)
          PROVE  FreshFiles' = FreshFiles
        BY <2>2 DEF SweepRemove, FreshFiles
    <2>3. ASSUME SweepStart \/ SweepEnd("disk.fail" \in Ops)
          PROVE  FreshFiles' = FreshFiles
        BY <2>3 DEF SweepStart, SweepEnd, FreshFiles
    <2>4. FreshFiles' = FreshFiles
        BY <1>2, <2>2, <2>3 DEF Maintenance
    <2> QED
        BY <2>1, <2>4 DEF FreshInv
<1> QED
    BY <1>1, <1>2

LEMMA TableFresh ==
    ASSUME FreshInv,
           \/ \E d \in Devices : \/ DeviceCreate(d) \/ DeviceUpdate(d) \/ DeviceDelete(d)
                                 \/ DeviceFirmware(d) \/ DeviceFirmwareCancel(d)
           \/ \E s \in Screens : ScreenCreate(s) \/ ScreenDelete(s) \/ ScreenUpload(s)
           \/ PlaylistAdmin \/ Expire
    PROVE  FreshInv'
<1>1. req' = req /\ UNCHANGED uploadVars
    BY DEF DeviceCreate, DeviceUpdate, DeviceDelete, DeviceFirmware,
       DeviceFirmwareCancel, ScreenCreate, ScreenDelete, ScreenUpload, PlaylistAdmin,
       PlaylistCreate, PlaylistDelete, PlaylistAddItem, PlaylistRemoveItem, Expire, jobVars
<1> QED
    BY <1>1, SameFresh DEF FreshInv

LEMMA CrashFresh ==
    ASSUME Crash
    PROVE  FreshInv'
<1>1. ~Idle.wrote
    BY DEF Idle
<1> QED
    BY <1>1 DEF Crash, FreshInv

-----------------------------------------------------------------------------
LEMMA InitFresh == Init => FreshInv
<1>1. ~Idle.wrote
    BY DEF Idle
<1> QED
    BY <1>1 DEF Init, FreshInv

LEMMA NextFresh ==
    ASSUME TypeInv, FreshInv, [Next]_vars
    PROVE  FreshInv'
<1>1. CASE UNCHANGED vars
    BY <1>1, SameFresh DEF vars, jobVars, FreshInv
<1>2. ASSUME NEW r \in Reqs, DisplayStep(r)
      PROVE  FreshInv'
    BY <1>2, PollFresh, LookupFresh, WriteFresh, RecordFresh DEF DisplayStep
<1>3. CASE AdminNext
    BY <1>3, AdminStepFresh, TableFresh DEF AdminNext, DeviceAdmin, ScreenAdmin
<1> QED
    BY <1>1, <1>2, <1>3, PollFresh, AdminStepFresh, TableFresh, SweepFresh, CrashFresh
       DEF Next

(* A file that a request has written is there until the request has        *)
(* answered, and its grace period has not passed: the inductive form of    *)
(* the theorem below.                                                      *)
THEOREM FreshInvariant == Spec => []FreshInv
<1>1. TypeInv /\ FreshInv /\ [Next]_vars => FreshInv'
    BY NextFresh
<1> QED
    BY InitFresh, TypeInvariant, <1>1, PTL DEF Spec

(* uploads.Sweep never removes a freshly written file before the screen    *)
(* row updates and the device is told.                                     *)
THEOREM FreshFilesKept == Spec => []FreshFilesSurvive
<1>1. FreshInv => FreshFilesSurvive
    BY DEF FreshInv, FreshFiles, FreshFilesSurvive
<1> QED
    BY FreshInvariant, <1>1, PTL

-----------------------------------------------------------------------------
(* A saved edit is what the next poll shows.  Two requests of this server  *)
(* may undo that: one that renders what it read before the edit, and       *)
(* records it after; and a device with the battery indicator keeps its own *)
(* entry through an edit.  So: no request overlaps another (an upload is   *)
(* modelled without a slot, as is the creation of a screen that may get    *)
(* the row id of a deleted one), and no device shows the indicator.        *)
EditsAlone ==
    /\ \A q, r \in Reqs : q = r
    /\ ShowChoices \subseteq {FALSE}
    /\ "screen.upload" \notin Ops /\ "screen.create" \notin Ops

(* The picture is of the settings in the screen row. *)
Depicts(img, sc) ==
    /\ img.content = sc.content
    /\ sc.dither # NULL => img.mode = sc.dither

(* No device shows the indicator, in its row or in a request's copy of it. *)
NoIndicator ==
    /\ \A d \in Devices : devices[d] # NULL => ~devices[d].showBattery
    /\ \A r \in Reqs : req[r].row # NULL => ~req[r].row.showBattery

(* What the cache entry of a screen shows is what its row says. *)
CachesCurrent ==
    \A s \in Screens : screens[s] # NULL /\ screens[s].hash # NULL
                          => Depicts(screens[s].hash, screens[s])

(* What a request read of its screen is what the row still says, until it  *)
(* has recorded its picture; and the picture it holds shows what it read.  *)
JobCurrent(j, rows) ==
    /\ j.pc \in {"lookup", "getdevice", "compute", "write", "record"}
          /\ rows[j.scr] # NULL
          => j.sc.content = rows[j.scr].content /\ j.sc.dither = rows[j.scr].dither
    /\ j.pc = "lookup" /\ j.sc.hash # NULL => Depicts(j.sc.hash, j.sc)
    /\ j.pc \in {"write", "record"} => Depicts(j.img, j.sc)
    /\ j.pc = "respond" /\ j.img # NULL => Depicts(j.img, j.sc)

JobsCurrent == \A r \in Reqs : JobCurrent(req[r], screens)

SavedInv == NoIndicator /\ CachesCurrent /\ JobsCurrent

-----------------------------------------------------------------------------
(* No step turns the indicator on.  A request has no copy of a device row, *)
(* keeps the one it has, or copies one of the table.                       *)
RowCopied(j, job) ==
    job.row = NULL \/ job.row = j.row \/ \E d \in Devices : job.row = devices[d]

LEMMA FinishCopies ==
    ASSUME NEW r \in Reqs, Finish(r)
    PROVE  \E job : Goto(r, job) /\ RowCopied(req[r], job)
BY DEF Finish, Idle, RowCopied

LEMMA NoPictureCopies ==
    ASSUME NEW r \in Reqs, NoPicture(r)
    PROVE  \E job : Goto(r, job) /\ RowCopied(req[r], job)
<1> DEFINE job == [Idle EXCEPT !.pc = "respond", !.kind = "display",
                              !.dev = req[r].dev, !.row = req[r].row]
<1>1. RowCopied(req[r], job)
    BY DEF Idle, RowCopied
<1> HIDE DEF job
<1>2. Goto(r, job) \/ Finish(r)
    BY DEF NoPicture, job
<1> QED
    BY <1>1, <1>2, FinishCopies

(* The steps that go on with the copy they have. *)
LEMMA KeepsCopy ==
    ASSUME NEW r \in Reqs, req[r] \in Job, NEW job, Goto(r, job), job.row = req[r].row
    PROVE  \E next : Goto(r, next) /\ RowCopied(req[r], next)
BY DEF RowCopied

LEMMA PollCopies ==
    ASSUME TypeInv, NEW r \in Reqs,
           DisplayStep(r) \/ \E d \in Devices : Poll(r, d)
    PROVE  \E job : Goto(r, job) /\ RowCopied(req[r], job)
<1>1. req[r] \in Job /\ JobOK(req[r])
    BY JobAt
<1>2. ASSUME NEW d \in Devices, Poll(r, d)
      PROVE  \E job : Goto(r, job) /\ RowCopied(req[r], job)
    <2> DEFINE job == [Idle EXCEPT !.pc = "telemetry", !.kind = "display",
                                  !.dev = d, !.row = devices[d]]
    <2>1. RowCopied(req[r], job)
        BY DEF Idle, RowCopied
    <2> HIDE DEF job
    <2> QED
        BY <1>2, <2>1 DEF Poll, job
<1>3. CASE Telemetry(r)
    <2> DEFINE job == [req[r] EXCEPT !.pc = "reload"]
    <2>1. Goto(r, job) /\ job.row = req[r].row
        BY <1>1, <1>3 DEF Telemetry, Job
    <2> QED
        BY <1>1, <2>1, KeepsCopy
<1>4. CASE Reload(r)
    <2>1. req[r].dev \in Devices
        BY <1>1, <1>4 DEF Reload, JobOK
    <2>2. PICK row : /\ row = req[r].row \/ row = devices[req[r].dev]
                     /\ Goto(r, [req[r] EXCEPT !.pc = "pick", !.row = row])
        BY <1>4 DEF Reload
    <2> DEFINE job == [req[r] EXCEPT !.pc = "pick", !.row = row]
    <2>3. job.row = row
        BY <1>1 DEF Job
    <2>4. Goto(r, job)
        BY <2>2
    <2> HIDE DEF job
    <2> QED
        BY <2>1, <2>2, <2>3, <2>4 DEF RowCopied
<1>5. CASE Pick(r)
    <2> DEFINE n  == Cardinality(ListPlaylistItems(req[r].row.playlist))
               c  == ((req[r].row.cursor % n) + 1) % n
               pc == IF req[r].kind = "display" THEN "advance" ELSE "getscreen"
    <2>1. PICK i \in ListPlaylistItems(req[r].row.playlist) :
              Goto(r, [req[r] EXCEPT !.pc = pc, !.scr = i.screen, !.next = c])
        BY <1>5 DEF Pick
    <2> HIDE DEF c, pc
    <2> DEFINE job == [req[r] EXCEPT !.pc = pc, !.scr = i.screen, !.next = c]
    <2>2. Goto(r, job) /\ job.row = req[r].row
        BY <1>1, <2>1 DEF Job
    <2> QED
        BY <1>1, <2>2, KeepsCopy
<1>6. CASE Advance(r)
    <2> DEFINE job == [req[r] EXCEPT !.pc = "getscreen", !.next = 0]
    <2>1. Goto(r, job) /\ job.row = req[r].row
        BY <1>1, <1>6 DEF Advance, Job
    <2> QED
        BY <1>1, <2>1, KeepsCopy
<1>7. CASE GetScreen(r)
    <2> DEFINE sc == screens[req[r].scr]
               pc == CASE req[r].kind = "display" -> "lookup"
                       [] req[r].kind = "preview" -> "getdevice"
                       [] OTHER -> "compute"
               job == [req[r] EXCEPT !.sc = sc, !.pc = pc]
    <2>1. NoPicture(r) \/ Goto(r, job)
        BY <1>7 DEF GetScreen
    <2> HIDE DEF sc, pc
    <2>2. job.row = req[r].row
        BY <1>1 DEF Job
    <2> QED
        BY <1>1, <2>1, <2>2, KeepsCopy, NoPictureCopies
<1>8. CASE Lookup(r)
    <2> DEFINE hash == CachedHash(req[r])
               hit  == [req[r] EXCEPT !.pc = "respond", !.img = hash]
               miss == [req[r] EXCEPT !.pc = "compute"]
    <2>1. NoPicture(r) \/ Goto(r, hit) \/ Goto(r, miss)
        BY <1>8 DEF Lookup
    <2> HIDE DEF hash
    <2>2. hit.row = req[r].row /\ miss.row = req[r].row
        BY <1>1 DEF Job
    <2> HIDE DEF hit, miss
    <2> QED
        BY <1>1, <2>1, <2>2, KeepsCopy, NoPictureCopies
<1>9. CASE Compute(r)
    <2>1. PICK x \in Data :
              Goto(r, [req[r] EXCEPT !.pc = "write",
                                     !.img = Picture(req[r].row, req[r].sc, x)])
        BY <1>9 DEF Compute
    <2> DEFINE img == Picture(req[r].row, req[r].sc, x)
               job == [req[r] EXCEPT !.pc = "write", !.img = img]
    <2>2. Goto(r, job)
        BY <2>1
    <2> HIDE DEF img
    <2>3. job.row = req[r].row
        BY <1>1 DEF Job
    <2> QED
        BY <1>1, <2>2, <2>3, KeepsCopy
<1>10. CASE Write(r)
    <2> DEFINE new == req[r].img \notin files
               job == [req[r] EXCEPT !.pc = "record", !.wrote = new]
    <2>1. Goto(r, job)
        BY <1>10 DEF Write
    <2> HIDE DEF new
    <2>2. job.row = req[r].row
        BY <1>1 DEF Job
    <2> QED
        BY <1>1, <2>1, <2>2, KeepsCopy
<1>11. CASE Record(r)
    <2> DEFINE job == [req[r] EXCEPT !.pc = "respond"]
    <2>1. Goto(r, job) \/ Finish(r)
        BY <1>11 DEF Record
    <2>2. job.row = req[r].row
        BY <1>1 DEF Job
    <2> QED
        BY <1>1, <2>1, <2>2, KeepsCopy, FinishCopies
<1>12. CASE Respond(r)
    <2> DEFINE job == [Idle EXCEPT !.pc = "clear", !.kind = "display",
                                  !.dev = req[r].dev, !.row = req[r].row]
    <2>1. Goto(r, job) \/ Finish(r)
        BY <1>12 DEF Respond
    <2>2. job.row = req[r].row
        BY DEF Idle
    <2> HIDE DEF job
    <2> QED
        BY <1>1, <2>1, <2>2, KeepsCopy, FinishCopies
<1>13. CASE TelemetryFails(r) \/ PickNone(r) \/ ComputeFails(r) \/ WriteFails(r) \/ Clear(r)
    BY <1>13, FinishCopies, NoPictureCopies
       DEF TelemetryFails, PickNone, ComputeFails, WriteFails, Clear
<1> QED
    BY <1>2, <1>3, <1>4, <1>5, <1>6, <1>7, <1>8, <1>9, <1>10, <1>11, <1>12, <1>13
       DEF DisplayStep

(* The admin requests that take a slot, at their start and in flight. *)
AdminRequest(r) ==
    \/ AdminStep(r)
    \/ SettingsSave(r)
    \/ \E d \in Devices : DeviceForceRefresh(r, d)
    \/ \E s \in Screens : ScreenUpdate(r, s) \/ ScreenPreview(r, s)

LEMMA AdminCopies ==
    ASSUME TypeInv, NEW r \in Reqs, AdminRequest(r)
    PROVE  \E job : Goto(r, job) /\ RowCopied(req[r], job)
<1>1. req[r] \in Job /\ JobOK(req[r])
    BY JobAt
<1>2. CASE RefreshList(r)
    <2> DEFINE p    == req[r].row.playlist
               todo == IF p = NULL THEN {} ELSE {i.screen : i \in ListPlaylistItems(p)}
               job  == [req[r] EXCEPT !.pc = "clearscreens", !.todo = todo]
    <2>1. Goto(r, job)
        BY <1>2 DEF RefreshList
    <2> HIDE DEF todo
    <2>2. job.row = req[r].row
        BY <1>1 DEF Job
    <2> QED
        BY <1>1, <2>1, <2>2, KeepsCopy
<1>3. CASE RefreshClearScreen(r)
    <2>1. PICK s \in req[r].todo : Goto(r, [req[r] EXCEPT !.todo = @ \ {s}])
        BY <1>3 DEF RefreshClearScreen
    <2> DEFINE job == [req[r] EXCEPT !.todo = @ \ {s}]
    <2>2. Goto(r, job) /\ job.row = req[r].row
        BY <1>1, <2>1 DEF Job
    <2> QED
        BY <1>1, <2>2, KeepsCopy
<1>4. CASE RefreshClearDevice(r)
    <2> DEFINE job == [req[r] EXCEPT !.pc = "pick"]
    <2>1. Goto(r, job) /\ job.row = req[r].row
        BY <1>1, <1>4 DEF RefreshClearDevice, Job
    <2> QED
        BY <1>1, <2>1, KeepsCopy
<1>5. CASE PreviewDevice(r)
    <2> DEFINE row == IF req[r].dev = NULL THEN NULL ELSE devices[req[r].dev]
               job == [req[r] EXCEPT !.pc = "compute", !.row = row]
    <2>1. req[r].dev \in Devices \union {NULL}
        BY <1>1 DEF Job
    <2>2. row = NULL \/ \E d \in Devices : row = devices[d]
        BY <2>1
    <2>3. Goto(r, job)
        BY <1>5 DEF PreviewDevice
    <2> HIDE DEF row
    <2>4. job.row = row
        BY <1>1 DEF Job
    <2> HIDE DEF job
    <2> QED
        BY <2>2, <2>3, <2>4 DEF RowCopied
<1>6. CASE SettingsSaveFonts(r) \/ ScreenUpdateDither(r)
    BY <1>6, FinishCopies DEF SettingsSaveFonts, ScreenUpdateDither
<1>7. CASE SettingsSave(r)
    <2>1. PICK f \in Fonts :
              Goto(r, [Idle EXCEPT !.pc = "fonts", !.kind = "save", !.arg = f])
        BY <1>7 DEF SettingsSave
    <2>2. [Idle EXCEPT !.pc = "fonts", !.kind = "save", !.arg = f].row = NULL
        BY DEF Idle
    <2> QED
        BY <2>1, <2>2 DEF RowCopied
<1>8. ASSUME NEW d \in Devices, DeviceForceRefresh(r, d)
      PROVE  \E job : Goto(r, job) /\ RowCopied(req[r], job)
    <2> DEFINE job == [Idle EXCEPT !.pc = "list", !.kind = "refresh",
                                  !.dev = d, !.row = devices[d]]
    <2>1. RowCopied(req[r], job)
        BY DEF Idle, RowCopied
    <2> HIDE DEF job
    <2> QED
        BY <1>8, <2>1 DEF DeviceForceRefresh, job
<1>9. ASSUME NEW s \in Screens, ScreenUpdate(r, s)
      PROVE  \E job : Goto(r, job) /\ RowCopied(req[r], job)
    <2>1. PICK m \in Modes \union {NULL} :
              Goto(r, [Idle EXCEPT !.pc = "dither", !.kind = "edit",
                                   !.scr = s, !.arg = m])
        BY <1>9 DEF ScreenUpdate
    <2>2. [Idle EXCEPT !.pc = "dither", !.kind = "edit", !.scr = s, !.arg = m].row = NULL
        BY DEF Idle
    <2> QED
        BY <2>1, <2>2 DEF RowCopied
<1>10. ASSUME NEW s \in Screens, ScreenPreview(r, s)
       PROVE  \E job : Goto(r, job) /\ RowCopied(req[r], job)
    <2>1. PICK d \in Devices \union {NULL} :
              Goto(r, [Idle EXCEPT !.pc = "getscreen", !.kind = "preview",
                                   !.dev = d, !.scr = s])
        BY <1>10 DEF ScreenPreview
    <2>2. [Idle EXCEPT !.pc = "getscreen", !.kind = "preview",
                       !.dev = d, !.scr = s].row = NULL
        BY DEF Idle
    <2> QED
        BY <2>1, <2>2 DEF RowCopied
<1> QED
    BY <1>2, <1>3, <1>4, <1>5, <1>6, <1>7, <1>8, <1>9, <1>10 DEF AdminRequest, AdminStep

(* UPDATE devices leaves the indicator off when the new row does. *)
LEMMA UpdateKeepsOff ==
    ASSUME TypeInv, NoIndicator, NEW d, NEW row,
           devices[d] # NULL => ~row.showBattery, UpdateDevice(d, row)
    PROVE  \A e \in Devices : devices'[e] # NULL => ~devices'[e].showBattery
BY DEF UpdateDevice, NoIndicator, TypeInv, TypeOK, StoreTypeOK

(* The steps of requests that write a device row keep its indicator. *)
LEMMA RequestKeepsOff ==
    ASSUME TypeInv, NoIndicator, NEW r \in Reqs,
           Telemetry(r) \/ Advance(r) \/ Clear(r)
    PROVE  \A e \in Devices : devices'[e] # NULL => ~devices'[e].showBattery
<1> DEFINE d == req[r].dev
<1>1. d \in Devices
    BY JobAt DEF Telemetry, Advance, Clear, JobOK
<1>2. devices[d] # NULL => devices[d] \in DeviceRow /\ ~devices[d].showBattery
    BY <1>1 DEF NoIndicator, TypeInv, TypeOK, StoreTypeOK
<1> HIDE DEF d
<1>3. CASE Telemetry(r)
    <2>1. PICK b \in Batteries \union {NULL} : UpdateTelemetry(d, b)
        BY <1>3 DEF Telemetry, d
    <2> DEFINE row == [devices[d] EXCEPT !.battery = IF b = NULL THEN @ ELSE b]
    <2>2. devices[d] # NULL => ~row.showBattery
        BY <1>2 DEF DeviceRow
    <2> QED
        BY <2>1, <2>2, UpdateKeepsOff DEF UpdateTelemetry
<1>4. CASE Advance(r)
    <2>1. devices[d] # NULL => ~[devices[d] EXCEPT !.cursor = req[r].next].showBattery
        BY <1>2 DEF DeviceRow
    <2>2. SetPlaylistCursor(d, req[r].next) \/ UNCHANGED devices
        BY <1>4 DEF Advance, d
    <2> QED
        BY <2>1, <2>2, UpdateKeepsOff DEF SetPlaylistCursor, NoIndicator
<1>5. CASE Clear(r)
    <2>1. devices[d] # NULL => ~[devices[d] EXCEPT !.firmware = FALSE].showBattery
        BY <1>2 DEF DeviceRow
    <2>2. ClearFirmwareUpdate(d) \/ UNCHANGED devices
        BY <1>5 DEF Clear, d
    <2> QED
        BY <2>1, <2>2, UpdateKeepsOff DEF ClearFirmwareUpdate, NoIndicator
<1> QED
    BY <1>3, <1>4, <1>5

(* So do the forms, whose box is never checked. *)
LEMMA FormKeepsOff ==
    ASSUME TypeInv, NoIndicator, ShowChoices \subseteq {FALSE},
           \/ \E d \in Devices : \/ DeviceCreate(d) \/ DeviceUpdate(d) \/ DeviceDelete(d)
                                 \/ DeviceFirmware(d) \/ DeviceFirmwareCancel(d)
           \/ \E p \in Playlists : PlaylistDelete(p)
    PROVE  \A e \in Devices : devices'[e] # NULL => ~devices'[e].showBattery
<1>1. devices \in [Devices -> DeviceRow \union {NULL}]
    BY DEF TypeInv, TypeOK, StoreTypeOK
<1>2. ASSUME NEW d \in Devices, DeviceCreate(d)
      PROVE  \A e \in Devices : devices'[e] # NULL => ~devices'[e].showBattery
    <2>1. ~NewDevice.showBattery
        BY DEF NewDevice
    <2> QED
        BY <1>1, <1>2, <2>1 DEF DeviceCreate, CreateDevice, NoIndicator
<1>3. ASSUME NEW d \in Devices, DeviceUpdate(d)
      PROVE  \A e \in Devices : devices'[e] # NULL => ~devices'[e].showBattery
    <2>1. PICK p \in playlists \union {NULL}, b \in Bundles, show \in ShowChoices :
              UpdateDeviceSettings(d, p, b, show)
        BY <1>3 DEF DeviceUpdate
    <2> DEFINE row == [devices[d] EXCEPT !.playlist = p, !.bundle = b,
                                        !.showBattery = show]
    <2>2. show = FALSE
        OBVIOUS
    <2>3. devices[d] # NULL => ~row.showBattery
        BY <1>1, <2>2 DEF DeviceRow
    <2> QED
        BY <2>1, <2>3, UpdateKeepsOff DEF UpdateDeviceSettings
<1>4. ASSUME NEW d \in Devices, DeviceDelete(d)
      PROVE  \A e \in Devices : devices'[e] # NULL => ~devices'[e].showBattery
    BY <1>1, <1>4 DEF DeviceDelete, DeleteDevice, NoIndicator
<1>5. ASSUME NEW d \in Devices, DeviceFirmware(d)
      PROVE  \A e \in Devices : devices'[e] # NULL => ~devices'[e].showBattery
    <2>1. PICK u \in Urls : QueueFirmwareUpdate(d, u)
        BY <1>5 DEF DeviceFirmware
    <2>2. devices[d] # NULL =>
             ~[devices[d] EXCEPT !.firmware = TRUE, !.url = u].showBattery
        BY <1>1 DEF DeviceRow, NoIndicator
    <2> QED
        BY <2>1, <2>2, UpdateKeepsOff DEF QueueFirmwareUpdate
<1>6. ASSUME NEW d \in Devices, DeviceFirmwareCancel(d)
      PROVE  \A e \in Devices : devices'[e] # NULL => ~devices'[e].showBattery
    <2>1. devices[d] # NULL => ~[devices[d] EXCEPT !.firmware = FALSE].showBattery
        BY <1>1 DEF DeviceRow, NoIndicator
    <2> QED
        BY <1>6, <2>1, UpdateKeepsOff DEF DeviceFirmwareCancel, ClearFirmwareUpdate
<1>7. ASSUME NEW p \in Playlists, PlaylistDelete(p)
      PROVE  \A e \in Devices : devices'[e] # NULL => ~devices'[e].showBattery
    <2>1. ASSUME NEW e \in Devices, devices'[e] # NULL
          PROVE  ~devices'[e].showBattery
        <3>1. \/ devices'[e] = devices[e]
              \/ devices[e] # NULL /\ devices'[e] = [devices[e] EXCEPT !.playlist = NULL]
            BY <1>7 DEF PlaylistDelete, DeletePlaylist
        <3>2. devices[e] # NULL => devices[e] \in DeviceRow /\ ~devices[e].showBattery
            BY <1>1 DEF NoIndicator
        <3> QED
            BY <2>1, <3>1, <3>2 DEF DeviceRow
    <2> QED
        BY <2>1
<1> QED
    BY <1>2, <1>3, <1>4, <1>5, <1>6, <1>7

LEMMA CopiesKeepOff ==
    ASSUME TypeInv, NoIndicator, NEW r \in Reqs,
           \E job : Goto(r, job) /\ RowCopied(req[r], job),
           \A e \in Devices : devices'[e] # NULL => ~devices'[e].showBattery
    PROVE  NoIndicator'
<1>1. PICK job : Goto(r, job) /\ RowCopied(req[r], job)
    OBVIOUS
<1>2. job.row # NULL => ~job.row.showBattery
    BY <1>1 DEF RowCopied, NoIndicator
<1>3. ASSUME NEW q \in Reqs
      PROVE  req'[q] = IF q = r THEN job ELSE req[q]
    BY <1>1 DEF Goto, TypeInv, TypeOK, JobsTypeOK
<1> QED
    BY <1>2, <1>3 DEF NoIndicator

(* The steps that leave the requests alone, or end them all. *)
TableStep ==
    \/ \E d \in Devices : \/ DeviceCreate(d) \/ DeviceUpdate(d) \/ DeviceDelete(d)
                          \/ DeviceFirmware(d) \/ DeviceFirmwareCancel(d)
    \/ \E s \in Screens : ScreenCreate(s) \/ ScreenDelete(s) \/ ScreenUpload(s)
    \/ PlaylistAdmin \/ Maintenance \/ Expire \/ \E f \in files : Age(f)

LEMMA TableKeepsReq ==
    ASSUME TableStep
    PROVE  UNCHANGED req
BY DEF TableStep, DeviceCreate, DeviceUpdate, DeviceDelete, DeviceFirmware,
   DeviceFirmwareCancel, ScreenCreate, ScreenDelete, ScreenUpload, PlaylistAdmin,
   PlaylistCreate, PlaylistDelete, PlaylistAddItem, PlaylistRemoveItem,
   Maintenance, Expire, Age, jobVars

LEMMA NextSteps ==
    ASSUME Next
    PROVE  \/ \E r \in Reqs : DisplayStep(r) \/ \E d \in Devices : Poll(r, d)
           \/ \E r \in Reqs : AdminRequest(r)
           \/ TableStep
           \/ Crash
BY DEF Next, AdminNext, DeviceAdmin, ScreenAdmin, AdminRequest, TableStep

LEMMA NextNoIndicator ==
    ASSUME TypeInv, NoIndicator, ShowChoices \subseteq {FALSE}, [Next]_vars
    PROVE  NoIndicator'
<1>1. ASSUME UNCHANGED devices
      PROVE  \A e \in Devices : devices'[e] # NULL => ~devices'[e].showBattery
    BY <1>1 DEF NoIndicator
<1>2. ASSUME NEW r \in Reqs, DisplayStep(r) \/ \E d \in Devices : Poll(r, d)
      PROVE  NoIndicator'
    <2>1. CASE Telemetry(r) \/ Advance(r) \/ Clear(r)
        BY <1>2, <2>1, RequestKeepsOff, PollCopies, CopiesKeepOff
    <2>2. CASE ~(Telemetry(r) \/ Advance(r) \/ Clear(r))
        <3>1. UNCHANGED devices
            BY <1>2, <2>2 DEF DisplayStep, Poll, TelemetryFails, Reload, Pick, PickNone,
               GetScreen, Lookup, Compute, ComputeFails, Write, WriteFails, Record,
               Respond, storeVars
        <3> QED
            BY <1>1, <1>2, <3>1, PollCopies, CopiesKeepOff
    <2> QED
        BY <2>1, <2>2
<1>3. ASSUME NEW r \in Reqs, AdminRequest(r)
      PROVE  NoIndicator'
    <2>1. UNCHANGED devices
        BY <1>3 DEF AdminRequest, AdminStep, RefreshList, RefreshClearScreen,
           RefreshClearDevice, ScreenUpdateDither, PreviewDevice, SettingsSaveFonts,
           SettingsSave, DeviceForceRefresh, ScreenUpdate, ScreenPreview, storeVars
    <2> QED
        BY <1>1, <1>3, <2>1, AdminCopies, CopiesKeepOff
<1>4. CASE TableStep
    <2>1. UNCHANGED req
        BY <1>4, TableKeepsReq
    <2>2. \A e \in Devices : devices'[e] # NULL => ~devices'[e].showBattery
        <3>1. CASE \/ \E d \in Devices : \/ DeviceCreate(d) \/ DeviceUpdate(d)
                                         \/ DeviceDelete(d) \/ DeviceFirmware(d)
                                         \/ DeviceFirmwareCancel(d)
                   \/ \E p \in Playlists : PlaylistDelete(p)
            BY <3>1, FormKeepsOff
        <3>2. CASE UNCHANGED devices
            BY <1>1, <3>2
        <3>3. \/ \E d \in Devices : \/ DeviceCreate(d) \/ DeviceUpdate(d)
                                     \/ DeviceDelete(d) \/ DeviceFirmware(d)
                                     \/ DeviceFirmwareCancel(d)
              \/ \E p \in Playlists : PlaylistDelete(p)
              \/ UNCHANGED devices
            BY <1>4 DEF TableStep, ScreenCreate, ScreenDelete, ScreenUpload,
               PlaylistAdmin, PlaylistCreate, PlaylistAddItem, PlaylistRemoveItem,
               Maintenance, SweepStart, SweepRemove, SweepEnd, Expire, Age, AgeFile,
               storeVars
        <3> QED
            BY <3>1, <3>2, <3>3
    <2> QED
        BY <2>1, <2>2 DEF NoIndicator
<1>5. CASE Crash
    <2>1. Idle.row = NULL
        BY DEF Idle
    <2>2. UNCHANGED devices /\ \A r \in Reqs : req'[r].row = NULL
        BY <1>5, <2>1 DEF Crash, storeVars
    <2> QED
        BY <2>2 DEF NoIndicator
<1>6. CASE UNCHANGED vars
    BY <1>6 DEF vars, storeVars, jobVars, NoIndicator
<1> QED
    BY <1>2, <1>3, <1>4, <1>5, <1>6, NextSteps

-----------------------------------------------------------------------------
(* The screens keep what they are told to draw, and keep or lose their     *)
(* cache entry.                                                            *)
KeptScreens ==
    \A s \in Screens : screens'[s] # NULL =>
        /\ screens[s] # NULL
        /\ screens'[s].content = screens[s].content
        /\ screens'[s].dither = screens[s].dither
        /\ screens'[s].hash = NULL \/ screens'[s].hash = screens[s].hash

LEMMA SameScreens ==
    ASSUME UNCHANGED screens
    PROVE  KeptScreens
BY DEF KeptScreens

LEMMA KeptCurrent ==
    ASSUME CachesCurrent, KeptScreens
    PROVE  CachesCurrent'
BY DEF CachesCurrent, KeptScreens, Depicts

LEMMA KeptJob ==
    ASSUME KeptScreens, NEW j, JobOK(j), JobCurrent(j, screens)
    PROVE  JobCurrent(j, screens')
<1>1. j.pc \in {"lookup", "getdevice", "compute", "write", "record"} => j.scr \in Screens
    BY DEF JobOK
<1> QED
    BY <1>1 DEF JobCurrent, KeptScreens

(* Most steps of a handler have read nothing yet, or hold it no longer. *)
LEMMA NothingRead ==
    ASSUME NEW j, NEW rows,
           j.pc \notin {"lookup", "getdevice", "compute", "write", "record", "respond"}
    PROVE  JobCurrent(j, rows)
BY DEF JobCurrent

(* The one request there is goes on. *)
LEMMA GotoCurrent ==
    ASSUME TypeInv, EditsAlone, NEW r \in Reqs, NEW job, Goto(r, job),
           JobCurrent(job, screens')
    PROVE  JobsCurrent'
<1>1. ASSUME NEW q \in Reqs
      PROVE  req'[q] = job
    BY DEF EditsAlone, Goto, TypeInv, TypeOK, JobsTypeOK
<1> QED
    BY <1>1 DEF JobsCurrent

LEMMA FinishCurrent ==
    ASSUME TypeInv, EditsAlone, NEW r \in Reqs, Finish(r)
    PROVE  JobsCurrent'
<1>1. Idle.pc = "idle"
    BY DEF Idle
<1> QED
    BY <1>1, NothingRead, GotoCurrent DEF Finish

LEMMA NoPictureCurrent ==
    ASSUME TypeInv, EditsAlone, NEW r \in Reqs, NoPicture(r)
    PROVE  JobsCurrent'
<1> DEFINE job == [Idle EXCEPT !.pc = "respond", !.kind = "display",
                              !.dev = req[r].dev, !.row = req[r].row]
<1>1. job.pc = "respond" /\ job.img = NULL
    BY DEF Idle
<1>2. JobCurrent(job, screens')
    BY <1>1 DEF JobCurrent
<1> QED
    BY <1>2, GotoCurrent, FinishCurrent DEF NoPicture

(* An UPDATE that changes nothing of a screen but its cache entry. *)
LEMMA ClearKeeps ==
    ASSUME TypeInv, NEW s \in Screens, NEW h, NEW fresh,
           h = NULL \/ (screens[s] # NULL /\ h = screens[s].hash),
           UpdateScreen(s, [screens[s] EXCEPT !.hash = h, !.fresh = fresh])
    PROVE  KeptScreens
<1> DEFINE row == [screens[s] EXCEPT !.hash = h, !.fresh = fresh]
<1>1. screens \in [Screens -> ScreenRow \union {NULL}]
    BY DEF TypeInv, TypeOK, StoreTypeOK
<1>2. screens[s] # NULL =>
         /\ row.content = screens[s].content /\ row.dither = screens[s].dither
         /\ row.hash = h
    BY <1>1 DEF ScreenRow
<1>3. UpdateScreen(s, row)
    OBVIOUS
<1> HIDE DEF row
<1>4. \A t \in Screens : screens'[t] = screens[t] \/ (t = s /\ screens[s] # NULL /\ screens'[t] = row)
    BY <1>1, <1>3 DEF UpdateScreen
<1> QED
    BY <1>2, <1>4 DEF KeptScreens

-----------------------------------------------------------------------------
(* The rendering path: what is read, looked up, drawn and recorded. *)

LEMMA ReadCurrent ==
    ASSUME TypeInv, EditsAlone, SavedInv, NEW r \in Reqs, GetScreen(r)
    PROVE  JobsCurrent'
<1>1. req[r] \in Job /\ req[r].scr \in Screens /\ UNCHANGED screens
    BY JobAt DEF GetScreen, JobOK, storeVars
<1>2. CASE NoPicture(r)
    BY <1>2, NoPictureCurrent DEF GetScreen
<1>3. CASE screens[req[r].scr] # NULL /\ ~NoPicture(r)
    <2> DEFINE sc == screens[req[r].scr]
               pc == CASE req[r].kind = "display" -> "lookup"
                       [] req[r].kind = "preview" -> "getdevice"
                       [] OTHER -> "compute"
               job == [req[r] EXCEPT !.sc = sc, !.pc = pc]
    <2>1. Goto(r, job)
        BY <1>3 DEF GetScreen
    <2>2. sc.hash # NULL => Depicts(sc.hash, sc)
        BY <1>1, <1>3 DEF SavedInv, CachesCurrent
    <2>3. pc \in {"lookup", "getdevice", "compute"}
        OBVIOUS
    <2>4. sc = screens'[req[r].scr]
        BY <1>1
    <2> HIDE DEF sc, pc
    <2>5. job.pc = pc /\ job.sc = sc /\ job.scr = req[r].scr
        BY <1>1 DEF Job
    <2> HIDE DEF job
    <2>6. JobCurrent(job, screens')
        BY <2>2, <2>3, <2>4, <2>5 DEF JobCurrent
    <2> QED
        BY <2>1, <2>6, GotoCurrent
<1> QED
    BY <1>2, <1>3 DEF GetScreen

(* A job that keeps what it read keeps agreeing with the row. *)
LEMMA SameRead ==
    ASSUME NEW j, NEW job, JobCurrent(j, screens), UNCHANGED screens,
           job.sc = j.sc, job.scr = j.scr,
           j.pc \in {"lookup", "getdevice", "compute", "write", "record"},
           job.pc \in {"compute", "write", "record", "respond"},
           job.pc \in {"write", "record"} => Depicts(job.img, job.sc),
           job.pc = "respond" /\ job.img # NULL => Depicts(job.img, job.sc)
    PROVE  JobCurrent(job, screens')
BY DEF JobCurrent

LEMMA LookupCurrent ==
    ASSUME TypeInv, EditsAlone, SavedInv, NEW r \in Reqs, Lookup(r)
    PROVE  JobsCurrent'
<1> DEFINE hash == CachedHash(req[r])
           hit  == [req[r] EXCEPT !.pc = "respond", !.img = hash]
           miss == [req[r] EXCEPT !.pc = "compute"]
<1>1. /\ req[r] \in Job /\ JobOK(req[r]) /\ req[r].pc = "lookup"
      /\ JobCurrent(req[r], screens) /\ UNCHANGED screens
    BY JobAt DEF Lookup, SavedInv, JobsCurrent, storeVars
<1>2. hash # NULL => Depicts(hash, req[r].sc)
    <2>1. ~ShowsBattery(req[r].row)
        BY DEF SavedInv, NoIndicator, ShowsBattery
    <2>2. hash # NULL => hash = req[r].sc.hash
        BY <2>1 DEF CachedHash
    <2> QED
        BY <1>1, <2>2 DEF JobCurrent
<1>3. NoPicture(r) \/ Goto(r, hit) \/ Goto(r, miss)
    BY DEF Lookup
<1> HIDE DEF hash
<1>4. CASE Goto(r, hit)
    <2>1. hit.pc = "respond" /\ hit.img = hash /\ hit.sc = req[r].sc /\ hit.scr = req[r].scr
        BY <1>1 DEF Job
    <2> HIDE DEF hit
    <2>2. JobCurrent(hit, screens')
        BY <1>1, <1>2, <2>1, SameRead
    <2> QED
        BY <1>4, <2>2, GotoCurrent
<1>5. CASE Goto(r, miss)
    <2>1. miss.pc = "compute" /\ miss.sc = req[r].sc /\ miss.scr = req[r].scr
        BY <1>1 DEF Job
    <2> HIDE DEF miss
    <2>2. JobCurrent(miss, screens')
        BY <1>1, <2>1, SameRead
    <2> QED
        BY <1>5, <2>2, GotoCurrent
<1> QED
    BY <1>3, <1>4, <1>5, NoPictureCurrent

LEMMA DrawCurrent ==
    ASSUME TypeInv, EditsAlone, SavedInv, NEW r \in Reqs,
           Compute(r) \/ ComputeFails(r) \/ Write(r) \/ WriteFails(r) \/ PreviewDevice(r)
    PROVE  JobsCurrent'
<1>1. /\ req[r] \in Job /\ JobCurrent(req[r], screens) /\ UNCHANGED screens
    BY JobAt DEF SavedInv, JobsCurrent, Compute, ComputeFails, Write, WriteFails,
       PreviewDevice, storeVars
<1>2. CASE Compute(r)
    <2>1. PICK x \in Data :
              Goto(r, [req[r] EXCEPT !.pc = "write",
                                     !.img = Picture(req[r].row, req[r].sc, x)])
        BY <1>2 DEF Compute
    <2> DEFINE img == Picture(req[r].row, req[r].sc, x)
               job == [req[r] EXCEPT !.pc = "write", !.img = img]
    <2>2. Depicts(img, req[r].sc)
        BY DEF Depicts, Picture
    <2>3. Goto(r, job) /\ req[r].pc = "compute"
        BY <1>2, <2>1 DEF Compute
    <2> HIDE DEF img
    <2>4. job.pc = "write" /\ job.img = img /\ job.sc = req[r].sc /\ job.scr = req[r].scr
        BY <1>1 DEF Job
    <2> HIDE DEF job
    <2>5. JobCurrent(job, screens')
        BY <1>1, <2>2, <2>3, <2>4, SameRead
    <2> QED
        BY <2>3, <2>5, GotoCurrent
<1>3. CASE Write(r)
    <2> DEFINE new == req[r].img \notin files
               job == [req[r] EXCEPT !.pc = "record", !.wrote = new]
    <2>1. Goto(r, job) /\ req[r].pc = "write"
        BY <1>3 DEF Write
    <2> HIDE DEF new
    <2>2. /\ job.pc = "record" /\ job.img = req[r].img
          /\ job.sc = req[r].sc /\ job.scr = req[r].scr
        BY <1>1 DEF Job
    <2>3. Depicts(req[r].img, req[r].sc)
        BY <1>1, <2>1 DEF JobCurrent
    <2> HIDE DEF job
    <2>4. JobCurrent(job, screens')
        BY <1>1, <2>1, <2>2, <2>3, SameRead
    <2> QED
        BY <2>1, <2>4, GotoCurrent
<1>4. CASE PreviewDevice(r)
    <2> DEFINE row == IF req[r].dev = NULL THEN NULL ELSE devices[req[r].dev]
               job == [req[r] EXCEPT !.pc = "compute", !.row = row]
    <2>1. Goto(r, job) /\ req[r].pc = "getdevice"
        BY <1>4 DEF PreviewDevice
    <2> HIDE DEF row
    <2>2. job.pc = "compute" /\ job.sc = req[r].sc /\ job.scr = req[r].scr
        BY <1>1 DEF Job
    <2> HIDE DEF job
    <2>3. JobCurrent(job, screens')
        BY <1>1, <2>1, <2>2, SameRead
    <2> QED
        BY <2>1, <2>3, GotoCurrent
<1>5. CASE ComputeFails(r) \/ WriteFails(r)
    BY <1>5, NoPictureCurrent DEF ComputeFails, WriteFails
<1> QED
    BY <1>2, <1>3, <1>4, <1>5

(* The step the invariant is for: the row still says what was drawn. *)
LEMMA RecordCurrent ==
    ASSUME TypeInv, EditsAlone, SavedInv, NEW r \in Reqs, Record(r)
    PROVE  CachesCurrent' /\ JobsCurrent'
<1> DEFINE job == [req[r] EXCEPT !.pc = "respond"]
           s   == req[r].scr
           img == req[r].img
<1>1. /\ req[r] \in Job /\ req[r].pc = "record" /\ s \in Screens
      /\ JobCurrent(req[r], screens)
    BY JobAt DEF Record, JobOK, SavedInv, JobsCurrent
<1>2. JobsCurrent'
    <2>1. job.pc = "respond" /\ job.img = req[r].img /\ job.sc = req[r].sc
        BY <1>1 DEF Job
    <2>2. Depicts(req[r].img, req[r].sc)
        BY <1>1 DEF JobCurrent
    <2>3. Goto(r, job) \/ Finish(r)
        BY DEF Record
    <2> HIDE DEF job
    <2>4. JobCurrent(job, screens')
        BY <2>1, <2>2 DEF JobCurrent
    <2> QED
        BY <2>3, <2>4, GotoCurrent, FinishCurrent
<1>3. CachesCurrent'
    <2>1. ~ShowsBattery(req[r].row)
        BY DEF SavedInv, NoIndicator, ShowsBattery
    <2>2. CASE UNCHANGED screens
        BY <2>2, SameScreens, KeptCurrent DEF SavedInv
    <2>3. CASE SetScreenRendered(s, img)
        <3> DEFINE row == [screens[s] EXCEPT !.hash = img, !.fresh = TRUE]
        <3>1. screens \in [Screens -> ScreenRow \union {NULL}]
            BY DEF TypeInv, TypeOK, StoreTypeOK
        <3>2. screens[s] # NULL =>
                 /\ row.content = screens[s].content /\ row.dither = screens[s].dither
                 /\ row.hash = img
            BY <1>1, <3>1 DEF ScreenRow
        <3>3. screens[s] # NULL => Depicts(img, screens[s])
            BY <1>1 DEF JobCurrent, Depicts
        <3>4. UpdateScreen(s, row)
            BY <2>3 DEF SetScreenRendered
        <3> HIDE DEF row
        <3>5. screens[s] # NULL => Depicts(row.hash, row)
            BY <3>2, <3>3 DEF Depicts
        <3>6. \A t \in Screens : screens'[t] = screens[t]
                                 \/ (t = s /\ screens[s] # NULL /\ screens'[t] = row)
            BY <3>1, <3>4 DEF UpdateScreen
        <3> QED
            BY <3>5, <3>6 DEF SavedInv, CachesCurrent
    <2> QED
        BY <2>1, <2>2, <2>3 DEF Record
<1> QED
    BY <1>2, <1>3

(* The steps of a poll before it has read its screen, and after its answer. *)
LEMMA PollCurrent ==
    ASSUME TypeInv, EditsAlone, NEW r \in Reqs,
           \/ \E d \in Devices : Poll(r, d)
           \/ Telemetry(r) \/ TelemetryFails(r) \/ Reload(r)
           \/ Pick(r) \/ PickNone(r) \/ Advance(r) \/ Respond(r) \/ Clear(r)
    PROVE  JobsCurrent'
<1>1. req[r] \in Job
    BY JobAt
<1>2. ASSUME NEW d \in Devices, Poll(r, d)
      PROVE  JobsCurrent'
    <2> DEFINE job == [Idle EXCEPT !.pc = "telemetry", !.kind = "display",
                                  !.dev = d, !.row = devices[d]]
    <2>1. job.pc = "telemetry"
        BY DEF Idle
    <2> QED
        BY <1>2, <2>1, NothingRead, GotoCurrent DEF Poll
<1>3. CASE Telemetry(r)
    <2>1. Goto(r, [req[r] EXCEPT !.pc = "reload"])
        BY <1>3 DEF Telemetry
    <2>2. [req[r] EXCEPT !.pc = "reload"].pc = "reload"
        BY <1>1 DEF Job
    <2> QED
        BY <2>1, <2>2, NothingRead, GotoCurrent
<1>4. CASE Reload(r)
    <2>1. PICK row : Goto(r, [req[r] EXCEPT !.pc = "pick", !.row = row])
        BY <1>4 DEF Reload
    <2>2. [req[r] EXCEPT !.pc = "pick", !.row = row].pc = "pick"
        BY <1>1 DEF Job
    <2> QED
        BY <2>1, <2>2, NothingRead, GotoCurrent
<1>5. CASE Pick(r)
    <2> DEFINE n  == Cardinality(ListPlaylistItems(req[r].row.playlist))
               c  == ((req[r].row.cursor % n) + 1) % n
               pc == IF req[r].kind = "display" THEN "advance" ELSE "getscreen"
    <2>1. PICK i \in ListPlaylistItems(req[r].row.playlist) :
              Goto(r, [req[r] EXCEPT !.pc = pc, !.scr = i.screen, !.next = c])
        BY <1>5 DEF Pick
    <2>2. pc \in {"advance", "getscreen"}
        OBVIOUS
    <2> HIDE DEF c, pc
    <2> DEFINE job == [req[r] EXCEPT !.pc = pc, !.scr = i.screen, !.next = c]
    <2>3. job.pc = pc
        BY <1>1 DEF Job
    <2>4. Goto(r, job)
        BY <2>1
    <2> HIDE DEF job
    <2> QED
        BY <2>2, <2>3, <2>4, NothingRead, GotoCurrent
<1>6. CASE Advance(r)
    <2>1. Goto(r, [req[r] EXCEPT !.pc = "getscreen", !.next = 0])
        BY <1>6 DEF Advance
    <2>2. [req[r] EXCEPT !.pc = "getscreen", !.next = 0].pc = "getscreen"
        BY <1>1 DEF Job
    <2> QED
        BY <2>1, <2>2, NothingRead, GotoCurrent
<1>7. CASE Respond(r)
    <2> DEFINE job == [Idle EXCEPT !.pc = "clear", !.kind = "display",
                                  !.dev = req[r].dev, !.row = req[r].row]
    <2>1. Goto(r, job) \/ Finish(r)
        BY <1>7 DEF Respond
    <2>2. job.pc = "clear"
        BY DEF Idle
    <2> HIDE DEF job
    <2> QED
        BY <2>1, <2>2, NothingRead, GotoCurrent, FinishCurrent
<1>8. CASE TelemetryFails(r) \/ PickNone(r) \/ Clear(r)
    BY <1>8, FinishCurrent, NoPictureCurrent DEF TelemetryFails, PickNone, Clear
<1> QED
    BY <1>2, <1>3, <1>4, <1>5, <1>6, <1>7, <1>8

(* The admin requests: saving a screen's settings clears its entry, and    *)
(* the slot it takes is the only one.                                      *)
LEMMA EditCurrent ==
    ASSUME TypeInv, EditsAlone, SavedInv, NEW r \in Reqs,
           ScreenUpdateDither(r) \/ \E s \in Screens : ScreenUpdate(r, s)
    PROVE  CachesCurrent' /\ JobsCurrent'
<1>1. screens \in [Screens -> ScreenRow \union {NULL}] /\ JobOK(req[r])
    BY JobAt DEF TypeInv, TypeOK, StoreTypeOK
<1>2. ASSUME NEW s \in Screens, NEW row, screens[s] # NULL => row.hash = NULL,
             UpdateScreen(s, row)
      PROVE  CachesCurrent'
    BY <1>1, <1>2 DEF UpdateScreen, SavedInv, CachesCurrent
<1>3. CASE ScreenUpdateDither(r)
    <2> DEFINE row == [screens[req[r].scr] EXCEPT !.dither = req[r].arg,
                                                 !.hash = NULL, !.fresh = FALSE]
    <2>1. req[r].scr \in Screens
        BY <1>1, <1>3 DEF ScreenUpdateDither, JobOK
    <2>2. screens[req[r].scr] # NULL => row.hash = NULL
        BY <1>1, <2>1 DEF ScreenRow
    <2>3. UpdateScreen(req[r].scr, row)
        BY <1>3 DEF ScreenUpdateDither, UpdateScreenDither
    <2> HIDE DEF row
    <2>4. CachesCurrent'
        BY <1>2, <2>1, <2>2, <2>3
    <2> QED
        BY <1>3, <2>4, FinishCurrent DEF ScreenUpdateDither
<1>4. ASSUME NEW s \in Screens, ScreenUpdate(r, s)
      PROVE  CachesCurrent' /\ JobsCurrent'
    <2>1. PICK c \in Contents, m \in Modes \union {NULL} :
              /\ UpdateScreenSettings(s, c)
              /\ Goto(r, [Idle EXCEPT !.pc = "dither", !.kind = "edit",
                                      !.scr = s, !.arg = m])
        BY <1>4 DEF ScreenUpdate
    <2> DEFINE row == [screens[s] EXCEPT !.content = c, !.hash = NULL, !.fresh = FALSE]
               job == [Idle EXCEPT !.pc = "dither", !.kind = "edit",
                                  !.scr = s, !.arg = m]
    <2>2. screens[s] # NULL => row.hash = NULL
        BY <1>1 DEF ScreenRow
    <2>3. job.pc = "dither"
        BY DEF Idle
    <2>4. UpdateScreen(s, row) /\ Goto(r, job)
        BY <2>1 DEF UpdateScreenSettings
    <2> HIDE DEF row, job
    <2>5. CachesCurrent'
        BY <1>2, <2>2, <2>4
    <2> QED
        BY <2>3, <2>4, <2>5, NothingRead, GotoCurrent
<1> QED
    BY <1>3, <1>4

LEMMA AdminCurrent ==
    ASSUME TypeInv, EditsAlone, SavedInv, NEW r \in Reqs, AdminRequest(r)
    PROVE  CachesCurrent' /\ JobsCurrent'
<1>1. req[r] \in Job /\ JobOK(req[r])
    BY JobAt
<1>2. CASE RefreshClearScreen(r)
    <2>1. PICK s \in req[r].todo :
              ClearScreenRendered(s) /\ Goto(r, [req[r] EXCEPT !.todo = @ \ {s}])
        BY <1>2 DEF RefreshClearScreen
    <2>2. s \in Screens
        BY <1>1 DEF Job
    <2>3. [req[r] EXCEPT !.todo = @ \ {s}].pc = "clearscreens"
        BY <1>1, <1>2 DEF Job, RefreshClearScreen
    <2>4. CachesCurrent'
        BY <2>1, <2>2, ClearKeeps, KeptCurrent DEF ClearScreenRendered, SavedInv
    <2> QED
        BY <2>1, <2>3, <2>4, NothingRead, GotoCurrent
<1>3. ASSUME UNCHANGED screens
      PROVE  CachesCurrent'
    BY <1>3, SameScreens, KeptCurrent DEF SavedInv
<1>4. CASE RefreshList(r)
    <2> DEFINE p    == req[r].row.playlist
               todo == IF p = NULL THEN {} ELSE {i.screen : i \in ListPlaylistItems(p)}
               job  == [req[r] EXCEPT !.pc = "clearscreens", !.todo = todo]
    <2>1. Goto(r, job)
        BY <1>4 DEF RefreshList
    <2> HIDE DEF todo
    <2>2. job.pc = "clearscreens"
        BY <1>1 DEF Job
    <2> QED
        BY <1>3, <1>4, <2>1, <2>2, NothingRead, GotoCurrent DEF RefreshList, storeVars
<1>5. CASE RefreshClearDevice(r)
    <2>1. Goto(r, [req[r] EXCEPT !.pc = "pick"])
        BY <1>5 DEF RefreshClearDevice
    <2>2. [req[r] EXCEPT !.pc = "pick"].pc = "pick"
        BY <1>1 DEF Job
    <2> QED
        BY <1>3, <1>5, <2>1, <2>2, NothingRead, GotoCurrent DEF RefreshClearDevice
<1>6. CASE PreviewDevice(r)
    BY <1>3, <1>6, DrawCurrent DEF PreviewDevice, storeVars
<1>7. CASE SettingsSaveFonts(r)
    BY <1>3, <1>7, FinishCurrent DEF SettingsSaveFonts
<1>8. CASE SettingsSave(r)
    <2>1. PICK f \in Fonts :
              Goto(r, [Idle EXCEPT !.pc = "fonts", !.kind = "save", !.arg = f])
        BY <1>8 DEF SettingsSave
    <2>2. [Idle EXCEPT !.pc = "fonts", !.kind = "save", !.arg = f].pc = "fonts"
        BY DEF Idle
    <2> QED
        BY <1>3, <1>8, <2>1, <2>2, NothingRead, GotoCurrent DEF SettingsSave
<1>9. ASSUME NEW d \in Devices, DeviceForceRefresh(r, d)
      PROVE  CachesCurrent' /\ JobsCurrent'
    <2> DEFINE job == [Idle EXCEPT !.pc = "list", !.kind = "refresh",
                                  !.dev = d, !.row = devices[d]]
    <2>1. job.pc = "list"
        BY DEF Idle
    <2> QED
        BY <1>3, <1>9, <2>1, NothingRead, GotoCurrent DEF DeviceForceRefresh, storeVars
<1>10. ASSUME NEW s \in Screens, ScreenPreview(r, s)
       PROVE  CachesCurrent' /\ JobsCurrent'
    <2>1. PICK d \in Devices \union {NULL} :
              Goto(r, [Idle EXCEPT !.pc = "getscreen", !.kind = "preview",
                                   !.dev = d, !.scr = s])
        BY <1>10 DEF ScreenPreview
    <2>2. [Idle EXCEPT !.pc = "getscreen", !.kind = "preview",
                       !.dev = d, !.scr = s].pc = "getscreen"
        BY DEF Idle
    <2> QED
        BY <1>3, <1>10, <2>1, <2>2, NothingRead, GotoCurrent DEF ScreenPreview, storeVars
<1> QED
    BY <1>2, <1>4, <1>5, <1>6, <1>7, <1>8, <1>9, <1>10, EditCurrent
       DEF AdminRequest, AdminStep

LEMMA TableCurrent ==
    ASSUME TypeInv, EditsAlone, SavedInv, TableStep
    PROVE  CachesCurrent' /\ JobsCurrent'
<1>1. screens \in [Screens -> ScreenRow \union {NULL}]
    BY DEF TypeInv, TypeOK, StoreTypeOK
<1>2. KeptScreens
    <2>1. ASSUME NEW s \in Screens, ScreenDelete(s)
          PROVE  KeptScreens
        BY <1>1, <2>1 DEF ScreenDelete, DeleteScreen, KeptScreens
    <2>2. ASSUME NEW s \in Screens, ExpireScreen(s)
          PROVE  KeptScreens
        <3>1. screens' = [screens EXCEPT ![s].fresh = FALSE] /\ screens[s] \in ScreenRow
            BY <1>1, <2>2 DEF ExpireScreen
        <3>2. \A t \in Screens : screens'[t] = screens[t]
                 \/ (t = s /\ screens'[t] = [screens[s] EXCEPT !.fresh = FALSE])
            BY <1>1, <3>1
        <3> QED
            BY <2>2, <3>1, <3>2 DEF ScreenRow, KeptScreens, ExpireScreen
    <2>3. CASE UNCHANGED screens
        BY <2>3, SameScreens
    <2>4. \/ \E s \in Screens : ScreenDelete(s) \/ ExpireScreen(s)
          \/ UNCHANGED screens
        BY DEF TableStep, DeviceCreate, DeviceUpdate, DeviceDelete, DeviceFirmware,
           DeviceFirmwareCancel, ScreenCreate, ScreenUpload, PlaylistAdmin,
           PlaylistCreate, PlaylistDelete, PlaylistAddItem, PlaylistRemoveItem,
           Maintenance, SweepStart, SweepRemove, SweepEnd, Expire, Age, AgeFile,
           storeVars, EditsAlone
    <2> QED
        BY <2>1, <2>2, <2>3, <2>4
<1>3. UNCHANGED req
    BY TableKeepsReq
<1>4. \A r \in Reqs : JobOK(req[r]) /\ JobCurrent(req[r], screens)
    BY JobAt DEF SavedInv, JobsCurrent
<1>5. JobsCurrent'
    BY <1>2, <1>3, <1>4, KeptJob DEF JobsCurrent
<1> QED
    BY <1>2, <1>5, KeptCurrent DEF SavedInv

-----------------------------------------------------------------------------
LEMMA InitSaved == EditsAlone /\ Init => SavedInv
<1> SUFFICES ASSUME EditsAlone, Init PROVE SavedInv
    OBVIOUS
<1>1. NoIndicator
    <2>1. ASSUME NEW d \in Devices
          PROVE  ~devices[d].showBattery
        <3>1. PICK p \in Playlists, b \in Bundles, show \in ShowChoices :
                  devices[d] = ConfiguredDevice(p, b, show)
            BY DEF Init
        <3>2. show = FALSE
            BY DEF EditsAlone
        <3> QED
            BY <3>1, <3>2 DEF ConfiguredDevice, NewDevice
    <2>2. \A r \in Reqs : req[r].row = NULL
        BY DEF Init, Idle
    <2> QED
        BY <2>1, <2>2 DEF NoIndicator
<1>2. CachesCurrent
    BY DEF Init, CachesCurrent, NewScreen
<1>3. \A r \in Reqs : req[r].pc = "idle"
    BY DEF Init, Idle
<1>4. JobsCurrent
    BY <1>3, NothingRead DEF JobsCurrent
<1> QED
    BY <1>1, <1>2, <1>4 DEF SavedInv

LEMMA NextSaved ==
    ASSUME TypeInv, EditsAlone, SavedInv, [Next]_vars
    PROVE  SavedInv'
<1>1. NoIndicator'
    BY NextNoIndicator DEF SavedInv, EditsAlone
<1>2. ASSUME UNCHANGED screens
      PROVE  CachesCurrent'
    BY <1>2, SameScreens, KeptCurrent DEF SavedInv
<1>3. ASSUME NEW r \in Reqs, DisplayStep(r) \/ \E d \in Devices : Poll(r, d)
      PROVE  CachesCurrent' /\ JobsCurrent'
    <2>1. CASE Record(r)
        BY <2>1, RecordCurrent
    <2>2. CASE ~Record(r)
        <3>1. UNCHANGED screens
            BY <1>3, <2>2 DEF DisplayStep, Poll, Telemetry, TelemetryFails, Reload, Pick,
               PickNone, Advance, GetScreen, Lookup, Compute, ComputeFails, Write,
               WriteFails, Respond, Clear, storeVars
        <3> QED
            BY <1>2, <1>3, <2>2, <3>1, PollCurrent, ReadCurrent, LookupCurrent, DrawCurrent
               DEF DisplayStep
    <2> QED
        BY <2>1, <2>2
<1>4. CASE Crash
    <2>1. UNCHANGED screens /\ \A r \in Reqs : req'[r].pc = "idle"
        BY <1>4 DEF Crash, storeVars, Idle
    <2> QED
        BY <1>1, <1>2, <2>1, NothingRead DEF SavedInv, JobsCurrent
<1>5. CASE UNCHANGED vars
    BY <1>1, <1>2, <1>5 DEF vars, storeVars, jobVars, SavedInv, JobsCurrent
<1> QED
    BY <1>1, <1>3, <1>4, <1>5, AdminCurrent, TableCurrent, NextSteps DEF SavedInv

(* Where no request overlaps an edit and no device shows the indicator, a  *)
(* poll answers with a picture of the settings in the screen row it read:  *)
(* UpdateScreenSettings and UpdateScreenDither leave nothing behind that   *)
(* cachedHash could serve, whichever handler ran, failed or died between.  *)
THEOREM EditsServed == EditsAlone => (Spec => []ServesSavedSettings)
<1> SUFFICES ASSUME EditsAlone
             PROVE  Spec => []ServesSavedSettings
    OBVIOUS
<1>1. TypeInv /\ SavedInv /\ [Next]_vars => SavedInv'
    BY NextSaved
<1>2. Init => SavedInv
    BY InitSaved
<1>3. SavedInv => ServesSavedSettings
    BY DEF SavedInv, JobsCurrent, JobCurrent, Depicts, ServesSavedSettings, Answers
<1> QED
    BY TypeInvariant, <1>1, <1>2, <1>3, PTL DEF Spec
=============================================================================
