------------------------------- MODULE Trmnl -------------------------------
(***************************************************************************)
(* The server as one system: device polls, admin requests, the maintenance *)
(* sweep, the passing of time and the process crashing, all over the same  *)
(* tables and the same uploads directory.                                  *)
(***************************************************************************)
EXTENDS Admin

CONSTANT InitItems   \* the playlist_items rows the server starts with

ASSUME TrmnlAssumption ==
    /\ InitItems \in SUBSET ItemRow
    /\ \A i, j \in InitItems :
          i.playlist = j.playlist /\ i.pos = j.pos => i = j

ConfiguredDevice(p, b, show) ==
    [NewDevice EXCEPT !.playlist = p, !.bundle = b, !.showBattery = show]

(* The server starts over a database an administrator has set up: every    *)
(* device, screen and playlist exists, devices have a playlist and a font  *)
(* bundle, and nothing has been rendered yet.                              *)
Init ==
    /\ devices \in [Devices ->
            {ConfiguredDevice(p, b, show) :
                p \in Playlists, b \in Bundles, show \in ShowChoices}]
    /\ screens = [s \in Screens |-> NewScreen]
    /\ playlists = Playlists
    /\ items = InitItems
    /\ renders = [d \in Devices |-> [s \in Screens |-> NULL]]
    /\ settings = [dither |-> FloydSteinberg, font |-> NoFonts]
    /\ files = {}
    /\ old = {}
    /\ sweep = SweepIdle
    /\ req = [r \in Reqs |-> Idle]
    /\ offered = [d \in Devices |-> FALSE]

-----------------------------------------------------------------------------
(* runMaintenance; it runs unless the cleanup interval is 0. *)
Maintenance ==
    /\ "sweep" \in Ops
    /\ UNCHANGED jobVars
    /\ \/ SweepStart
       \/ \E f \in files : SweepRemove(f)
       \/ SweepEnd("disk.fail" \in Ops)

(* Time passes: a cache entry outlives the plugin's refresh interval, or a *)
(* file the grace period.                                                  *)
Expire ==
    /\ \/ /\ \E s \in Screens : ExpireScreen(s)
          /\ UNCHANGED renders
       \/ /\ \E d \in Devices, s \in Screens : ExpireRender(d, s)
          /\ UNCHANGED screens
    /\ UNCHANGED <<devices, playlists, items, settings, uploadVars, jobVars>>

Age(f) ==
    /\ "sweep" \in Ops
    /\ AgeFile(f, Held)
    /\ UNCHANGED jobVars

(* The process dies and is started again: every statement that returned is *)
(* in the database, requests and the sweep are gone.                       *)
Crash ==
    /\ "crash" \in Ops
    /\ req' = [r \in Reqs |-> Idle]
    /\ sweep' = SweepIdle
    /\ UNCHANGED <<storeVars, files, old, offered>>

Next ==
    \/ \E r \in Reqs, d \in Devices : Poll(r, d)
    \/ \E r \in Reqs : DisplayStep(r) \/ AdminStep(r)
    \/ AdminNext
    \/ Maintenance \/ Expire \/ (\E f \in files : Age(f))
    \/ Crash

Spec == Init /\ [][Next]_vars

(* A handler runs to its end, because every call it makes returns: the     *)
(* queries have no lock to wait for beyond the one connection and fetches  *)
(* have timeouts.  Time passes, the sweep's ticker fires, and a device     *)
(* keeps polling; it may find every slot taken again and again, which the  *)
(* real server does not limit, so its fairness is strong.                  *)
Fairness ==
    /\ \A r \in Reqs : WF_vars(DisplayStep(r) \/ AdminStep(r))
    /\ \A d \in Devices : SF_vars(\E r \in Reqs : Poll(r, d))
    /\ WF_vars(Expire)
    /\ WF_vars(Maintenance)
    /\ \A f \in Image : SF_vars(Age(f))

LiveSpec == Spec /\ Fairness

-----------------------------------------------------------------------------
(* Type invariant. *)
TypeOK == StoreTypeOK /\ UploadsTypeOK /\ JobsTypeOK

(* The polls whose answer is decided and names a picture. *)
Answers(r) == req[r].pc = "respond" /\ req[r].img # NULL

(* No row outlives what it refers to: not a playlist item its screen or    *)
(* playlist, not a per-device render its device or screen, not a device's  *)
(* playlist reference the playlist, whichever requests are in flight when  *)
(* an administrator deletes something (the foreign keys of the schema).    *)
ForeignKeys ==
    /\ \A i \in items : i.playlist \in playlists /\ screens[i.screen] # NULL
    /\ \A d \in Devices, s \in Screens :
          renders[d][s] # NULL => devices[d] # NULL /\ screens[s] # NULL
    /\ \A d \in Devices :
          devices[d] # NULL => devices[d].playlist \in playlists \union {NULL}

(* The two render caches never mix (migration 0008): the entry every       *)
(* device shares holds no battery indicator, and a device's own entry      *)
(* holds the indicator its battery_state column claims.                    *)
CachesSeparate ==
    /\ \A s \in Screens : screens[s] # NULL /\ screens[s].hash # NULL
                             => screens[s].hash.ind = NULL
    /\ \A d \in Devices, s \in Screens :
          renders[d][s] # NULL => renders[d][s].hash.ind = renders[d][s].bat

(* The picture a poll answers with, cached or just rendered, shows the     *)
(* indicator exactly if the device asked for it, and shows the battery     *)
(* state the poll went on with.                                            *)
ServedIndicator ==
    \A r \in Reqs : Answers(r) =>
        req[r].img.ind = IF ShowsBattery(req[r].row) THEN req[r].row.battery ELSE NULL

(* The indicator is not one poll behind (the comment in Display): it shows *)
(* the telemetry of this very poll.  For a device that waits for an answer *)
(* before it polls again, that is the battery state in its row.            *)
NotOnePollBehind ==
    \A r \in Reqs :
        Answers(r) /\ ShowsBattery(req[r].row) /\ devices[req[r].dev] # NULL
            => req[r].img.ind = devices[req[r].dev].battery

(* The grace period protects freshly written files from being removed      *)
(* before the screen row updates and the device is told (the comment of    *)
(* uploads.Sweep), even by a sweep that listed the hashes before.          *)
FreshFilesSurvive ==
    \A r \in Reqs : req[r].wrote => req[r].img \in files

(* A saved edit is what the next poll shows: a poll that read a screen's   *)
(* row answers with a picture of the settings in that row ("clearing the   *)
(* rendered cache pointer so it re-renders", UpdateScreenSettings, and the *)
(* same for the dithering mode).                                           *)
ServesSavedSettings ==
    \A r \in Reqs : Answers(r) =>
        /\ req[r].img.content = req[r].sc.content
        /\ req[r].sc.dither # NULL => req[r].img.mode = req[r].sc.dither

(* Bundles are per device: a poll answers with a picture in the bundle of  *)
(* its device.                                                             *)
ServesOwnBundle ==
    \A r \in Reqs : Answers(r) => req[r].img.bundle = req[r].row.bundle

-----------------------------------------------------------------------------
(* One queued firmware update is handed out once: no poll answers with an  *)
(* update that a poll has answered with already ("clears them after        *)
(* serving once, to avoid boot loops").                                    *)
UpdateServedOnce ==
    [][\A r \in Reqs : Respond(r) /\ UpdatesFirmware(req[r].row)
                          => ~offered[req[r].dev]]_vars

(* A queued update is not forgotten: a poll takes the flag back only if    *)
(* the update queued last was served, or names the very URL this poll read *)
(* ("to be delivered on its next display poll", QueueFirmwareUpdate).      *)
UpdateNotForgotten ==
    [][\A r \in Reqs : req[r].pc = "clear" /\ req'[r].pc = "idle" =>
          LET d == req[r].dev IN
          devices[d] # NULL /\ devices[d].firmware /\ ~devices'[d].firmware
              => offered[d] \/ devices[d].url = req[r].row.url]_vars

(* A device's cursor leaves an item only when a poll shows that item, and  *)
(* moves to the next one, from the last one to the first.                  *)
MovesInTurn(d) ==
    devices[d] # NULL /\ devices[d].playlist # NULL /\ devices'[d] # NULL
    /\ devices'[d].cursor # devices[d].cursor =>
        LET rows == ListPlaylistItems(devices[d].playlist)
        IN  /\ devices'[d].cursor = (devices[d].cursor + 1) % Cardinality(rows)
            /\ \E r \in Reqs, i \in rows :
                  /\ IsItemAt(i, rows, devices[d].cursor)
                  /\ req[r].kind = "display" /\ req[r].dev = d
                  /\ req[r].scr = i.screen /\ req'[r] # req[r]

(* The rotation skips nothing and repeats nothing while its playlist does  *)
(* not change, whatever else runs: a force refresh only peeks.             *)
RotationInOrder == [][\A d \in Devices : MovesInTurn(d)]_devices

-----------------------------------------------------------------------------
(* A device that waits for its answers is shown the screens of its         *)
(* playlist in turn: to it, the polls, their cursor, the caches, the       *)
(* renderer, force refreshes and queued updates together are RoundRobin.   *)
(* An answer is under way from the store of the cursor until it is sent.   *)
InTurn(d) ==
    {r \in Reqs : /\ req[r].kind = "display" /\ req[r].dev = d
                  /\ req[r].pc \in {"getscreen", "lookup", "compute", "write",
                                    "record", "respond"}}

Rotation == INSTANCE RoundRobin WITH
    Clients <- Devices,
    Nobody  <- NULL,
    Length  <- Cardinality(InitItems),
    Order   <- [n \in 0..(Cardinality(InitItems) - 1) |->
                   (CHOOSE i \in InitItems : i.pos = n).screen],
    turn    <- [d \in Devices |-> devices[d].cursor],
    showing <- [d \in Devices |-> IF InTurn(d) = {} THEN NULL
                                  ELSE req[CHOOSE r \in InTurn(d) : TRUE].scr]

TakesTurns == Rotation!Spec

-----------------------------------------------------------------------------
(* Every screen of the playlist a device keeps is shown again and again.   *)
ShownForever ==
    \A d \in Devices, s \in Screens :
        (<>[](\E i \in items : /\ i.screen = s
                                /\ devices[d] # NULL /\ devices[d].playlist = i.playlist))
        => []<>(\E r \in Reqs : Answers(r) /\ req[r].dev = d /\ req[r].scr = s)

(* An edit is shown eventually: once a screen's settings no longer change, *)
(* there is a time after which every answer that shows the screen shows    *)
(* them, whichever cache it comes from and whatever was in flight when the *)
(* edit was saved.                                                         *)
EditShownEventually ==
    \A s \in Screens, c \in Contents :
        (<>[](screens[s] # NULL /\ screens[s].content = c))
        => <>[](\A r \in Reqs : Answers(r) /\ req[r].scr = s
                                   => req[r].img.content = c)

(* Pruning heals itself: however the sweep and the polls interleave, a     *)
(* device whose polls name pictures is told, again and again, one that is  *)
(* there to be fetched.                                                    *)
PruningHeals ==
    \A d \in Devices :
        ([]<>(\E r \in Reqs : Answers(r) /\ req[r].dev = d))
        => []<>(\E r \in Reqs : Answers(r) /\ req[r].dev = d /\ req[r].img \in files)

(* The cache directory does not grow without end: a picture that nothing   *)
(* refers to any more is removed.                                          *)
UnusedRemoved ==
    \A f \in Image : (<>[](f \notin ActiveRenderHashes)) => <>[](f \notin files)

(* A device is not told to update for ever: a pending flag goes away.      *)
UpdateEnds ==
    \A d \in Devices :
        (devices[d] # NULL /\ devices[d].firmware)
            ~> (devices[d] = NULL \/ ~devices[d].firmware)
=============================================================================
