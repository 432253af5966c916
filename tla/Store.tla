------------------------------- MODULE Store -------------------------------
(***************************************************************************)
(* The tables of the SQLite database that the device plane reads and       *)
(* writes: devices, screens (with their plugin row), playlists,            *)
(* playlist_items, device_screen_renders and settings.                     *)
(*                                                                         *)
(* The server holds one database connection (SetMaxOpenConns(1)), so every *)
(* store method is one atomic step; each is an operator here, named after  *)
(* it, that constrains the tables it writes and nothing else.  A row that  *)
(* does not exist is NULL: an UPDATE of it changes nothing, as in SQL.     *)
(* Row identifiers are slots that are used again after a delete, which is  *)
(* what INTEGER PRIMARY KEY without AUTOINCREMENT does with the last one.  *)
(*                                                                         *)
(* Here and in the modules above, a definition whose name starts with Bug  *)
(* is a mutant of the definition that follows it: what a plausible mistake *)
(* in the code would make of it.  No specification uses one.               *)
(***************************************************************************)
EXTENDS Naturals, FiniteSets

CONSTANTS
    Devices,     \* row ids of the devices table
    Screens,     \* row ids of the screens table
    Playlists,   \* row ids of the playlists table
    Contents,    \* values of settings_json (what a screen is told to draw)
    Modes,       \* dithering modes
    Fonts,       \* global font overrides (font_sans, font_mono, font_title)
    Bundles,     \* font bundles a device may select
    Batteries,   \* battery states: coarse level and charging, render.BatteryState
    Data,        \* what a plugin's DataModel can return at some moment
    Urls,        \* firmware URLs
    MaxPos,      \* bound: the largest playlist position used
    NULL,        \* SQL NULL, and the row that does not exist
    EmptyContent, FloydSteinberg, NoFonts, Classic, Unknown \* the defaults

ASSUME StoreAssumption ==
    /\ IsFiniteSet(Screens) /\ IsFiniteSet(Playlists)
    /\ MaxPos \in Nat
    /\ EmptyContent \in Contents
    /\ FloydSteinberg \in Modes
    /\ NoFonts \in Fonts
    /\ Classic \in Bundles
    /\ Unknown \in Batteries
    /\ NULL \notin Batteries

VARIABLES
    devices,     \* devices[d]: the row, or NULL
    screens,     \* screens[s]: the row, or NULL; its plugin lives and dies with it
    playlists,   \* the playlists that exist
    items,       \* the rows of playlist_items
    renders,     \* renders[d][s]: the row of device_screen_renders, or NULL
    settings     \* the global settings

storeVars == <<devices, screens, playlists, items, renders, settings>>

-----------------------------------------------------------------------------
(* An image stands for the content hash of a rendered picture: hashes are  *)
(* taken to be injective, so a picture is everything it was drawn from.    *)
(* ind is the battery state the footer indicator shows, NULL without one.  *)

Image == [content : Contents, mode : Modes, font : Fonts, bundle : Bundles,
          ind : Batteries \union {NULL}, data : Data]

DeviceRow == [playlist : Playlists \union {NULL}, cursor : Nat,
              battery : Batteries, showBattery : BOOLEAN, bundle : Bundles,
              firmware : BOOLEAN, url : Urls \union {NULL}]

(* fresh: less than the plugin's refresh interval has passed since         *)
(* rendered_at.  A row is created, and cleared, with fresh = FALSE.        *)
ScreenRow == [content : Contents, dither : Modes \union {NULL},
              hash : Image \union {NULL}, fresh : BOOLEAN]

RenderRow == [hash : Image, bat : Batteries, fresh : BOOLEAN]

ItemRow == [playlist : Playlists, pos : 0..MaxPos, screen : Screens]

(* NULL is no row and no hash. *)
ASSUME NullAssumption == NULL \notin DeviceRow \union ScreenRow \union RenderRow \union Image

StoreTypeOK ==
    /\ devices \in [Devices -> DeviceRow \union {NULL}]
    /\ screens \in [Screens -> ScreenRow \union {NULL}]
    /\ playlists \in SUBSET Playlists
    /\ items \in SUBSET ItemRow
    /\ renders \in [Devices -> [Screens -> RenderRow \union {NULL}]]
    /\ settings \in [dither : Modes, font : Fonts]

NewDevice == [playlist |-> NULL, cursor |-> 0, battery |-> Unknown,
              showBattery |-> FALSE, bundle |-> Classic,
              firmware |-> FALSE, url |-> NULL]

NewScreen == [content |-> EmptyContent, dither |-> NULL, hash |-> NULL,
              fresh |-> FALSE]

-----------------------------------------------------------------------------
(* devices.go *)

UpdateDevice(d, row) ==
    devices' = IF devices[d] = NULL THEN devices ELSE [devices EXCEPT ![d] = row]

BugNoCoalesce(d, b) ==            \* a header that is missing erases the column
    UpdateDevice(d, [devices[d] EXCEPT !.battery = b])

(* COALESCE(?, battery_...): a header that is missing keeps the value.  b   *)
(* is the battery state after both columns, or NULL without either header. *)
UpdateTelemetry(d, b) ==
    UpdateDevice(d, [devices[d] EXCEPT !.battery = IF b = NULL THEN @ ELSE b])

UpdateDeviceSettings(d, p, b, show) ==
    UpdateDevice(d, [devices[d] EXCEPT !.playlist = p, !.bundle = b,
                                       !.showBattery = show])

SetPlaylistCursor(d, c) == UpdateDevice(d, [devices[d] EXCEPT !.cursor = c])

QueueFirmwareUpdate(d, u) ==
    UpdateDevice(d, [devices[d] EXCEPT !.firmware = TRUE, !.url = u])

ClearFirmwareUpdate(d) == UpdateDevice(d, [devices[d] EXCEPT !.firmware = FALSE])

CreateDevice(d) == devices' = [devices EXCEPT ![d] = NewDevice]

DeleteDevice(d) ==                \* cascades to device_screen_renders
    /\ devices' = [devices EXCEPT ![d] = NULL]
    /\ renders' = [renders EXCEPT ![d] = [s \in Screens |-> NULL]]

-----------------------------------------------------------------------------
(* content.go: screens and the two render caches *)

UpdateScreen(s, row) ==
    screens' = IF screens[s] = NULL THEN screens ELSE [screens EXCEPT ![s] = row]

BugKeepsHash(s, c) ==             \* the rendered cache pointer is not cleared
    UpdateScreen(s, [screens[s] EXCEPT !.content = c])

UpdateScreenSettings(s, c) ==
    UpdateScreen(s, [screens[s] EXCEPT !.content = c, !.hash = NULL, !.fresh = FALSE])

UpdateScreenDither(s, m) ==
    UpdateScreen(s, [screens[s] EXCEPT !.dither = m, !.hash = NULL, !.fresh = FALSE])

SetScreenRendered(s, h) ==
    UpdateScreen(s, [screens[s] EXCEPT !.hash = h, !.fresh = TRUE])

ClearScreenRendered(s) ==
    UpdateScreen(s, [screens[s] EXCEPT !.hash = NULL, !.fresh = FALSE])

BugNoForeignKey(d, s, h, b) ==         \* PRAGMA foreign_keys is off
    renders' = [renders EXCEPT ![d][s] = [hash |-> h, bat |-> b, fresh |-> TRUE]]

BugKeepsState(d, s, h, b) ==           \* DO UPDATE SET forgets battery_state
    renders' =
        IF devices[d] = NULL \/ screens[s] = NULL THEN renders
        ELSE [renders EXCEPT ![d][s] =
                 [hash |-> h, bat |-> IF @ = NULL THEN b ELSE @.bat, fresh |-> TRUE]]

SetDeviceScreenRender(d, s, h, b) ==   \* upsert; a missing device or screen
    renders' =                         \* fails its foreign key and changes nothing
        IF devices[d] = NULL \/ screens[s] = NULL THEN renders
        ELSE [renders EXCEPT ![d][s] = [hash |-> h, bat |-> b, fresh |-> TRUE]]

ClearDeviceRenders(d) == renders' = [renders EXCEPT ![d] = [s \in Screens |-> NULL]]

ActiveRenderHashes ==
    {screens[s].hash : s \in {t \in Screens : screens[t] # NULL /\ screens[t].hash # NULL}}
    \union UNION {{renders[d][s].hash : s \in {t \in Screens : renders[d][t] # NULL}} :
                    d \in Devices}

CreateScreen(s) == screens' = [screens EXCEPT ![s] = NewScreen]

DeleteScreen(s) ==                \* deletes the plugin; cascades to the screen,
    /\ screens' = [screens EXCEPT ![s] = NULL]     \* its items and its renders
    /\ items' = {i \in items : i.screen # s}
    /\ renders' = [d \in Devices |-> [renders[d] EXCEPT ![s] = NULL]]

-----------------------------------------------------------------------------
(* content.go: playlists and settings *)

ListPlaylistItems(p) == {i \in items : i.playlist = p}

(* The item that ORDER BY position puts at index k, counting from 0. *)
IsItemAt(i, rows, k) ==
    i \in rows /\ Cardinality({j \in rows : j.pos < i.pos}) = k

CreatePlaylist(p) == playlists' = playlists \union {p}

BugNoSetNull(p) ==                \* devices.playlist_id without ON DELETE SET NULL
    /\ playlists' = playlists \ {p}
    /\ items' = {i \in items : i.playlist # p}
    /\ UNCHANGED devices

DeletePlaylist(p) ==              \* ON DELETE CASCADE / ON DELETE SET NULL
    /\ playlists' = playlists \ {p}
    /\ items' = {i \in items : i.playlist # p}
    /\ devices' = [d \in Devices |->
                      IF devices[d] # NULL /\ devices[d].playlist = p
                      THEN [devices[d] EXCEPT !.playlist = NULL]
                      ELSE devices[d]]

(* COALESCE(MAX(position) + 1, 0) *)
IsNextPosition(n, rows) ==
    /\ \A i \in rows : i.pos < n
    /\ n = 0 \/ \E i \in rows : i.pos + 1 = n

AddPlaylistItem(p, s) ==          \* bound: positions up to MaxPos
    \E n \in 0..MaxPos :
        /\ IsNextPosition(n, ListPlaylistItems(p))
        /\ items' = items \union {[playlist |-> p, pos |-> n, screen |-> s]}

RemovePlaylistItem(i) == items' = items \ {i}

SetDitherMode(m) == settings' = [settings EXCEPT !.dither = m]
SetFonts(f) == settings' = [settings EXCEPT !.font = f]

(* rendered_at falls behind the plugin's refresh interval. *)
ExpireScreen(s) ==
    /\ screens[s] # NULL /\ screens[s].fresh
    /\ screens' = [screens EXCEPT ![s].fresh = FALSE]

ExpireRender(d, s) ==
    /\ renders[d][s] # NULL /\ renders[d][s].fresh
    /\ renders' = [renders EXCEPT ![d][s].fresh = FALSE]
=============================================================================
