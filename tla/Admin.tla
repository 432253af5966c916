------------------------------- MODULE Admin -------------------------------
(***************************************************************************)
(* The admin handlers that change what devices are served: devices.go,     *)
(* screens.go, playlists.go and the settings form of pages.go.  A handler  *)
(* that makes one write is one action.  A handler that makes several       *)
(* (ScreenUpdate, SettingsSave) or that renders (ScreenPreview,            *)
(* DeviceForceRefresh) is a job like a poll, and takes a slot of Reqs.     *)
(*                                                                         *)
(* Ops names the handlers an instance exercises.                           *)
(***************************************************************************)
EXTENDS DeviceApi

CONSTANT
    ShowChoices  \* bound: the values of the "show battery" box in an instance

ASSUME AdminAssumption == ShowChoices \subseteq BOOLEAN

-----------------------------------------------------------------------------
(* devices.go.  A form naming a playlist that is gone fails its foreign    *)
(* key; a handler for a row that is gone changes nothing.                  *)

DeviceCreate(d) ==
    /\ "device.create" \in Ops
    /\ devices[d] = NULL
    /\ CreateDevice(d)
    /\ offered' = [offered EXCEPT ![d] = FALSE]
    /\ UNCHANGED <<screens, playlists, items, renders, settings, uploadVars, req>>

(* The second write of the handler, of special_function, is left out: a    *)
(* poll answers that column and depends on it in nothing else.             *)
DeviceUpdate(d) ==
    /\ "device.update" \in Ops
    /\ \E p \in playlists \union {NULL}, b \in Bundles, show \in ShowChoices :
          UpdateDeviceSettings(d, p, b, show)
    /\ UNCHANGED <<screens, playlists, items, renders, settings, uploadVars, jobVars>>

DeviceFirmware(d) ==
    /\ "firmware.queue" \in Ops
    /\ \E u \in Urls : QueueFirmwareUpdate(d, u)
    /\ offered' = [offered EXCEPT ![d] = FALSE]
    /\ UNCHANGED <<screens, playlists, items, renders, settings, uploadVars, req>>

DeviceFirmwareCancel(d) ==
    /\ "firmware.cancel" \in Ops
    /\ ClearFirmwareUpdate(d)
    /\ UNCHANGED <<screens, playlists, items, renders, settings, uploadVars, jobVars>>

DeviceDelete(d) ==
    /\ "device.delete" \in Ops
    /\ DeleteDevice(d)
    /\ UNCHANGED <<screens, playlists, items, settings, uploadVars, jobVars>>

(* DeviceForceRefresh: GetDeviceByID; ListPlaylistItems; one               *)
(* ClearScreenRendered per item; ClearDeviceRenders; then PeekScreen and   *)
(* Render, which are Pick, GetScreen and the rendering path of a poll.     *)
DeviceForceRefresh(r, d) ==
    /\ "device.refresh" \in Ops
    /\ req[r] = Idle
    /\ devices[d] # NULL
    /\ Goto(r, [Idle EXCEPT !.pc = "list", !.kind = "refresh",
                            !.dev = d, !.row = devices[d]])
    /\ UNCHANGED <<storeVars, uploadVars, offered>>

RefreshList(r) ==
    LET p == req[r].row.playlist IN
    /\ req[r].pc = "list"
    /\ Goto(r, [req[r] EXCEPT !.pc = "clearscreens",
                  !.todo = IF p = NULL THEN {}
                           ELSE {i.screen : i \in ListPlaylistItems(p)}])
    /\ UNCHANGED <<storeVars, uploadVars, offered>>

RefreshClearScreen(r) ==
    /\ req[r].pc = "clearscreens"
    /\ \E s \in req[r].todo :
          /\ ClearScreenRendered(s)
          /\ Goto(r, [req[r] EXCEPT !.todo = @ \ {s}])
    /\ UNCHANGED <<devices, playlists, items, renders, settings, uploadVars, offered>>

RefreshClearDevice(r) ==
    /\ req[r].pc = "clearscreens"
    /\ req[r].todo = {}
    /\ ClearDeviceRenders(req[r].dev)
    /\ Goto(r, [req[r] EXCEPT !.pc = "pick"])
    /\ UNCHANGED <<devices, screens, playlists, items, settings, uploadVars, offered>>

-----------------------------------------------------------------------------
(* screens.go *)

ScreenCreate(s) ==
    /\ "screen.create" \in Ops
    /\ screens[s] = NULL
    /\ CreateScreen(s)
    /\ UNCHANGED <<devices, playlists, items, renders, settings, uploadVars, jobVars>>

ScreenDelete(s) ==
    /\ "screen.delete" \in Ops
    /\ DeleteScreen(s)
    /\ UNCHANGED <<devices, playlists, settings, uploadVars, jobVars>>

(* ScreenUpdate: UpdateScreenSettings, then UpdateScreenDither. *)
ScreenUpdate(r, s) ==
    /\ "screen.update" \in Ops
    /\ req[r] = Idle
    /\ \E c \in Contents, m \in Modes \union {NULL} :
          /\ UpdateScreenSettings(s, c)
          /\ Goto(r, [Idle EXCEPT !.pc = "dither", !.kind = "edit",
                                  !.scr = s, !.arg = m])
    /\ UNCHANGED <<devices, playlists, items, renders, settings, uploadVars, offered>>

ScreenUpdateDither(r) ==
    /\ req[r].pc = "dither"
    /\ UpdateScreenDither(req[r].scr, req[r].arg)
    /\ Finish(r)
    /\ UNCHANGED <<devices, playlists, items, renders, settings, uploadVars, offered>>

(* ScreenUpload: the new asset's name becomes the screen's settings. *)
ScreenUpload(s) ==
    /\ "screen.upload" \in Ops
    /\ screens[s] # NULL
    /\ \E c \in Contents : UpdateScreenSettings(s, c)
    /\ UNCHANGED <<devices, playlists, items, renders, settings, uploadVars, jobVars>>

(* ScreenPreview: GetScreen, then GetDeviceByID when the form names one    *)
(* (an error leaves no device), then Render.                               *)
ScreenPreview(r, s) ==
    /\ "screen.preview" \in Ops
    /\ req[r] = Idle
    /\ \E d \in Devices \union {NULL} :
          Goto(r, [Idle EXCEPT !.pc = "getscreen", !.kind = "preview",
                               !.dev = d, !.scr = s])
    /\ UNCHANGED <<storeVars, uploadVars, offered>>

PreviewDevice(r) ==
    LET d == req[r].dev IN
    /\ req[r].pc = "getdevice"
    /\ Goto(r, [req[r] EXCEPT !.pc = "compute",
                              !.row = IF d = NULL THEN NULL ELSE devices[d]])
    /\ UNCHANGED <<storeVars, uploadVars, offered>>

-----------------------------------------------------------------------------
(* playlists.go *)

PlaylistCreate(p) ==
    /\ "playlist.create" \in Ops
    /\ p \notin playlists
    /\ CreatePlaylist(p)
    /\ UNCHANGED <<devices, screens, items, renders, settings, uploadVars, jobVars>>

PlaylistDelete(p) ==
    /\ "playlist.delete" \in Ops
    /\ DeletePlaylist(p)
    /\ UNCHANGED <<screens, renders, settings, uploadVars, jobVars>>

PlaylistAddItem(p, s) ==             \* else a foreign key fails
    /\ "playlist.add" \in Ops
    /\ p \in playlists
    /\ screens[s] # NULL
    /\ AddPlaylistItem(p, s)
    /\ UNCHANGED <<devices, screens, playlists, renders, settings, uploadVars, jobVars>>

PlaylistRemoveItem(i) ==
    /\ "playlist.remove" \in Ops
    /\ RemovePlaylistItem(i)
    /\ UNCHANGED <<devices, screens, playlists, renders, settings, uploadVars, jobVars>>

-----------------------------------------------------------------------------
(* SettingsSave: dither_mode first, then the font overrides.  Nothing here *)
(* clears a cache.                                                         *)
SettingsSave(r) ==
    /\ "settings.save" \in Ops
    /\ req[r] = Idle
    /\ \E m \in Modes, f \in Fonts :
          /\ SetDitherMode(m)
          /\ Goto(r, [Idle EXCEPT !.pc = "fonts", !.kind = "save", !.arg = f])
    /\ UNCHANGED <<devices, screens, playlists, items, renders, uploadVars, offered>>

SettingsSaveFonts(r) ==
    /\ req[r].pc = "fonts"
    /\ SetFonts(req[r].arg)
    /\ Finish(r)
    /\ UNCHANGED <<devices, screens, playlists, items, renders, uploadVars, offered>>

-----------------------------------------------------------------------------
(* One step of an admin request in flight; and one handler starting.       *)
AdminStep(r) ==
    \/ RefreshList(r) \/ RefreshClearScreen(r) \/ RefreshClearDevice(r)
    \/ ScreenUpdateDither(r) \/ PreviewDevice(r) \/ SettingsSaveFonts(r)

DeviceAdmin(d) ==
    \/ DeviceCreate(d) \/ DeviceUpdate(d) \/ DeviceDelete(d)
    \/ DeviceFirmware(d) \/ DeviceFirmwareCancel(d)
    \/ \E r \in Reqs : DeviceForceRefresh(r, d)

ScreenAdmin(s) ==
    \/ ScreenCreate(s) \/ ScreenDelete(s) \/ ScreenUpload(s)
    \/ \E r \in Reqs : ScreenUpdate(r, s) \/ ScreenPreview(r, s)

PlaylistAdmin ==
    \/ \E p \in Playlists : PlaylistCreate(p) \/ PlaylistDelete(p)
    \/ \E p \in Playlists, s \in Screens : PlaylistAddItem(p, s)
    \/ \E i \in items : PlaylistRemoveItem(i)

AdminNext ==
    \/ \E d \in Devices : DeviceAdmin(d)
    \/ \E s \in Screens : ScreenAdmin(s)
    \/ PlaylistAdmin
    \/ \E r \in Reqs : SettingsSave(r)
=============================================================================
