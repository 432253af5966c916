----------------------------- MODULE DeviceApi -----------------------------
(***************************************************************************)
(* GET /api/display, and the rendering path it shares with the admin pages *)
(* (package screens).  A request runs in its own goroutine; between two of *)
(* its store calls any other request, the sweep and the clock may act.  So *)
(* a request in flight is a job in a slot of Reqs, and each of its store   *)
(* calls, its drawing and its file write is an action.                     *)
(*                                                                         *)
(* A request that is refused before its first write (unknown MAC, wrong    *)
(* token) changes nothing and is left out; so is reset_firmware, which no  *)
(* handler ever sets.                                                      *)
(***************************************************************************)
EXTENDS Uploads

CONSTANTS
    Reqs,        \* bound: slots for requests in flight
    Overlap,     \* whether a device may poll again before it has its answer
    Ops          \* the operations, failures and events the instance exercises

ASSUME DeviceApiAssumption == Overlap \in BOOLEAN

VARIABLES
    req,         \* req[r]: the request in slot r
    offered      \* history: offered[d] iff a poll already served the update
                 \* that was queued last for d

jobVars == <<req, offered>>
vars == <<storeVars, uploadVars, jobVars>>

Kinds == {"none", "display", "preview", "refresh", "edit", "save"}

Pcs == {"idle",
        "telemetry", "reload", "pick", "advance", "getscreen", "lookup",
        "compute", "write", "record", "respond", "clear",
        "getdevice",                                \* preview
        "list", "clearscreens",                     \* refresh
        "dither", "fonts"}                          \* edit, save

(* row, sc: the device and the screen row as this request read them.       *)
(* next: the cursor a poll will store.  wrote: the request created its     *)
(* picture's file.  todo: screens whose cache a refresh still has to       *)
(* clear.  arg: what an edit still writes.                                 *)
Job == [pc : Pcs, kind : Kinds, dev : Devices \union {NULL},
        row : DeviceRow \union {NULL},
        scr : Screens \union {NULL}, sc : ScreenRow \union {NULL},
        next : Nat, img : Image \union {NULL}, wrote : BOOLEAN,
        todo : SUBSET Screens, arg : Modes \union Fonts \union {NULL}]

Idle == [pc |-> "idle", kind |-> "none", dev |-> NULL, row |-> NULL,
         scr |-> NULL, sc |-> NULL, next |-> 0, img |-> NULL,
         wrote |-> FALSE, todo |-> {}, arg |-> NULL]

JobsTypeOK ==
    /\ req \in [Reqs -> Job]
    /\ offered \in [Devices -> BOOLEAN]

Goto(r, job) == req' = [req EXCEPT ![r] = job]
Finish(r) == Goto(r, Idle)

(* What stands between a request and the next one of its device. *)
Polling(d) == \E r \in Reqs : req[r].kind = "display" /\ req[r].dev = d

(* The pictures whose files requests in flight have written. *)
Held == {req[r].img : r \in {q \in Reqs : req[q].wrote}}

-----------------------------------------------------------------------------
(* screens.Render *)

ShowsBattery(row) == row # NULL /\ row.showBattery

Picture(row, sc, data) ==
    [content |-> sc.content,
     mode    |-> IF sc.dither # NULL THEN sc.dither ELSE settings.dither,
     font    |-> settings.font,
     bundle  |-> IF row # NULL THEN row.bundle ELSE Classic,
     ind     |-> IF ShowsBattery(row) THEN row.battery ELSE NULL,
     data    |-> data]

(* No picture: a poll answers with the placeholder, an admin page with an  *)
(* error or, after a refresh, with the redirect it would send anyway.      *)
NoPicture(r) ==
    IF req[r].kind = "display"
    THEN Goto(r, [Idle EXCEPT !.pc = "respond", !.kind = "display",
                              !.dev = req[r].dev, !.row = req[r].row])
    ELSE Finish(r)

(* Reads the global settings and the plugin row, fetches the plugin's data *)
(* and draws.  The plugin row is gone when the screen was deleted.         *)
Compute(r) ==
    /\ req[r].pc = "compute"
    /\ screens[req[r].scr] # NULL
    /\ \E x \in Data :
          Goto(r, [req[r] EXCEPT !.pc = "write",
                                 !.img = Picture(req[r].row, req[r].sc, x)])
    /\ UNCHANGED <<storeVars, uploadVars, offered>>

ComputeFails(r) ==
    /\ req[r].pc = "compute"
    /\ screens[req[r].scr] = NULL \/ "plugin.fail" \in Ops
    /\ NoPicture(r)
    /\ UNCHANGED <<storeVars, uploadVars, offered>>

Write(r) ==
    /\ req[r].pc = "write"
    /\ WriteIfAbsent(req[r].img)
    /\ Goto(r, [req[r] EXCEPT !.pc = "record", !.wrote = req[r].img \notin files])
    /\ UNCHANGED <<storeVars, offered>>

(* The file system fails; the BMP may be there already, without its PNG.   *)
WriteFails(r) ==
    /\ req[r].pc = "write"
    /\ "disk.fail" \in Ops
    /\ WriteIfAbsent(req[r].img) \/ UNCHANGED uploadVars
    /\ NoPicture(r)
    /\ UNCHANGED <<storeVars, offered>>

(* Best effort: an error of the UPDATE is ignored. *)
Record(r) ==
    LET j == req[r] IN
    /\ j.pc = "record"
    /\ \/ /\ ShowsBattery(j.row)
          /\ SetDeviceScreenRender(j.dev, j.scr, j.img, j.row.battery)
          /\ UNCHANGED screens
       \/ /\ ~ShowsBattery(j.row)
          /\ SetScreenRendered(j.scr, j.img)
          /\ UNCHANGED renders
       \/ /\ "store.fail" \in Ops
          /\ UNCHANGED <<screens, renders>>
    /\ IF j.kind = "display" THEN Goto(r, [j EXCEPT !.pc = "respond"]) ELSE Finish(r)
    /\ UNCHANGED <<devices, playlists, items, settings, uploadVars, offered>>

-----------------------------------------------------------------------------
(* playlist.pick, NextScreen and the cache lookup *)

(* pick and NextScreen's cursor; items are always visible.  The list is    *)
(* the one of the playlist in the request's own copy of the device row.    *)
BugRefreshAdvances(r) ==             \* a refresh calls NextScreen for PeekScreen
    LET j    == req[r]
        rows == ListPlaylistItems(j.row.playlist)
        n    == Cardinality(rows)
    IN  /\ j.pc = "pick"
        /\ j.row.playlist # NULL
        /\ rows # {}
        /\ \E i \in rows :
              /\ IsItemAt(i, rows, j.row.cursor % n)
              /\ Goto(r, [j EXCEPT !.pc = "advance", !.scr = i.screen,
                                   !.next = ((j.row.cursor % n) + 1) % n])
        /\ UNCHANGED <<storeVars, uploadVars, offered>>

BugNoWrap(r) ==                      \* the cursor stays on the last item
    LET j    == req[r]
        rows == ListPlaylistItems(j.row.playlist)
        n    == Cardinality(rows)
    IN  /\ j.pc = "pick"
        /\ j.row.playlist # NULL
        /\ rows # {}
        /\ \E i \in rows :
              /\ IsItemAt(i, rows, j.row.cursor % n)
              /\ Goto(r, [j EXCEPT !.pc = IF j.kind = "display" THEN "advance"
                                                                ELSE "getscreen",
                                   !.scr = i.screen,
                                   !.next = IF j.row.cursor + 1 < n
                                            THEN j.row.cursor + 1 ELSE n - 1])
        /\ UNCHANGED <<storeVars, uploadVars, offered>>

Pick(r) ==
    LET j    == req[r]
        rows == ListPlaylistItems(j.row.playlist)
        n    == Cardinality(rows)
    IN  /\ j.pc = "pick"
        /\ j.row.playlist # NULL
        /\ rows # {}
        /\ \E i \in rows :
              /\ IsItemAt(i, rows, j.row.cursor % n)
              /\ Goto(r, [j EXCEPT !.pc = IF j.kind = "display" THEN "advance"
                                                                ELSE "getscreen",
                                   !.scr = i.screen,
                                   !.next = ((j.row.cursor % n) + 1) % n])
        /\ UNCHANGED <<storeVars, uploadVars, offered>>

PickNone(r) ==
    /\ req[r].pc = "pick"
    /\ \/ req[r].row.playlist = NULL
       \/ ListPlaylistItems(req[r].row.playlist) = {}
       \/ "store.fail" \in Ops
    /\ NoPicture(r)
    /\ UNCHANGED <<storeVars, uploadVars, offered>>

Advance(r) ==                        \* best effort
    /\ req[r].pc = "advance"
    /\ \/ SetPlaylistCursor(req[r].dev, req[r].next)
       \/ "store.fail" \in Ops /\ UNCHANGED devices
    /\ Goto(r, [req[r] EXCEPT !.pc = "getscreen", !.next = 0])
    /\ UNCHANGED <<screens, playlists, items, renders, settings, uploadVars, offered>>

(* GetScreen, as the last call of NextScreen and PeekScreen and the first  *)
(* one of ScreenPreview.                                                   *)
GetScreen(r) ==
    LET j == req[r] IN
    /\ j.pc = "getscreen"
    /\ \/ /\ screens[j.scr] = NULL \/ "store.fail" \in Ops
          /\ NoPicture(r)
       \/ /\ screens[j.scr] # NULL
          /\ Goto(r, [j EXCEPT !.sc = screens[j.scr],
                               !.pc = CASE j.kind = "display" -> "lookup"
                                        [] j.kind = "preview" -> "getdevice"
                                        [] OTHER -> "compute"])
    /\ UNCHANGED <<storeVars, uploadVars, offered>>

(* cachedHash: the entry this device looks at, or NULL.  A device with the *)
(* battery indicator has its own entry, read now and valid only for the    *)
(* battery state it was drawn with; any other device uses the shared one,  *)
(* in the screen row read before.                                          *)
BugIgnoresBattery(j) ==              \* cachedState is not compared
    LET own == renders[j.dev][j.scr]
        hit == IF ShowsBattery(j.row)
               THEN IF own # NULL /\ own.fresh THEN own.hash ELSE NULL
               ELSE IF j.sc.fresh THEN j.sc.hash ELSE NULL
    IN  IF hit \in files THEN hit ELSE NULL

BugNeverExpires(j) ==                \* rendered_at is not compared
    LET own == renders[j.dev][j.scr]
        hit == IF ShowsBattery(j.row)
               THEN IF own # NULL /\ own.bat = j.row.battery
                    THEN own.hash ELSE NULL
               ELSE j.sc.hash
    IN  IF hit \in files THEN hit ELSE NULL

CachedHash(j) ==
    LET own == renders[j.dev][j.scr]
        hit == IF ShowsBattery(j.row)
               THEN IF own # NULL /\ own.fresh /\ own.bat = j.row.battery
                    THEN own.hash ELSE NULL
               ELSE IF j.sc.fresh THEN j.sc.hash ELSE NULL
    IN  IF hit \in files THEN hit ELSE NULL

(* GetPlugin fails once the screen is deleted.  When DeviceScreenRender    *)
(* fails the picture is drawn anew.                                        *)
Lookup(r) ==
    LET j == req[r] IN
    /\ j.pc = "lookup"
    /\ \/ /\ screens[j.scr] = NULL \/ "store.fail" \in Ops
          /\ NoPicture(r)
       \/ /\ screens[j.scr] # NULL /\ CachedHash(j) # NULL
          /\ Goto(r, [j EXCEPT !.pc = "respond", !.img = CachedHash(j)])
       \/ /\ screens[j.scr] # NULL
          /\ CachedHash(j) = NULL \/ ("store.fail" \in Ops /\ ShowsBattery(j.row))
          /\ Goto(r, [j EXCEPT !.pc = "compute"])
    /\ UNCHANGED <<storeVars, uploadVars, offered>>

-----------------------------------------------------------------------------
(* Display *)

Poll(r, d) ==                        \* loadDevice and requireToken
    /\ req[r] = Idle
    /\ devices[d] # NULL
    /\ Overlap \/ ~Polling(d)
    /\ Goto(r, [Idle EXCEPT !.pc = "telemetry", !.kind = "display",
                            !.dev = d, !.row = devices[d]])
    /\ UNCHANGED <<storeVars, uploadVars, offered>>

Telemetry(r) ==
    /\ req[r].pc = "telemetry"
    /\ \E b \in Batteries \union {NULL} :
          /\ UpdateTelemetry(req[r].dev, b)
          /\ Goto(r, [req[r] EXCEPT !.pc = "reload"])
    /\ UNCHANGED <<screens, playlists, items, renders, settings, uploadVars, offered>>

TelemetryFails(r) ==                 \* 500
    /\ req[r].pc = "telemetry"
    /\ "store.fail" \in Ops
    /\ Finish(r)
    /\ UNCHANGED <<storeVars, uploadVars, offered>>

(* GetDeviceByID; the copy loaded by the middleware is kept on an error,   *)
(* and a device deleted meanwhile is one.                                  *)
BugNoReload(r) ==                    \* goes on with the copy of the middleware
    /\ req[r].pc = "reload"
    /\ Goto(r, [req[r] EXCEPT !.pc = "pick"])
    /\ UNCHANGED <<storeVars, uploadVars, offered>>

Reload(r) ==
    LET d == req[r].dev IN
    /\ req[r].pc = "reload"
    /\ \E row \in {IF devices[d] = NULL THEN req[r].row ELSE devices[d]}
                  \union (IF "store.fail" \in Ops THEN {req[r].row} ELSE {}) :
          Goto(r, [req[r] EXCEPT !.pc = "pick", !.row = row])
    /\ UNCHANGED <<storeVars, uploadVars, offered>>

UpdatesFirmware(row) == row.firmware /\ row.url # NULL

BugNeverClears(r) ==                 \* the flag is not one-shot
    /\ req[r].pc = "respond"
    /\ offered' = IF UpdatesFirmware(req[r].row)
                  THEN [offered EXCEPT ![req[r].dev] = TRUE] ELSE offered
    /\ Finish(r)
    /\ UNCHANGED <<storeVars, uploadVars>>

Respond(r) ==
    LET j == req[r] IN
    /\ j.pc = "respond"
    /\ offered' = IF UpdatesFirmware(j.row) THEN [offered EXCEPT ![j.dev] = TRUE]
                                            ELSE offered
    /\ IF j.row.firmware
       THEN Goto(r, [Idle EXCEPT !.pc = "clear", !.kind = "display",
                                 !.dev = j.dev, !.row = j.row])
       ELSE Finish(r)
    /\ UNCHANGED <<storeVars, uploadVars>>

Clear(r) ==                          \* best effort
    /\ req[r].pc = "clear"
    /\ \/ ClearFirmwareUpdate(req[r].dev)
       \/ "store.fail" \in Ops /\ UNCHANGED devices
    /\ Finish(r)
    /\ UNCHANGED <<screens, playlists, items, renders, settings, uploadVars, offered>>

DisplayStep(r) ==
    \/ Telemetry(r) \/ TelemetryFails(r) \/ Reload(r)
    \/ Pick(r) \/ PickNone(r) \/ Advance(r) \/ GetScreen(r) \/ Lookup(r)
    \/ Compute(r) \/ ComputeFails(r) \/ Write(r) \/ WriteFails(r) \/ Record(r)
    \/ Respond(r) \/ Clear(r)
=============================================================================
