# Verification of the go-trmnl server

TLA+ specifications of `trmnld`, a self-hosted server for TRMNL e-ink displays,
with TLC configurations that check small instances and TLAPS proofs for
instances of any size. Paths below are relative to the repository
(`internal/...`, `cmd/...`).

## 1. The system

| part | state it keeps | operations | interacts with |
|---|---|---|---|
| **store** `internal/store` | SQLite tables: devices, plugins, screens, playlists, playlist_items, device_screen_renders, settings, device_logs, calendar_accounts, calendar_events, oauth_clients | one method per statement | everything; one connection, so one statement at a time |
| **deviceapi** `internal/deviceapi` | none of its own | `GET /api/setup`, `GET /api/display`, `POST /api/log` | store, playlist, screens |
| **playlist** `internal/playlist` | the cursor column of a device | `NextScreen`, `PeekScreen` | store |
| **screens / render** `internal/screens`, `internal/render` | picture files named by content hash; the hash columns | `Render`, `Process` | plugins, store, uploads directory |
| **uploads** `internal/uploads`, `cmd/trmnld` | the files and their ages | `runMaintenance`: sweep pictures, sweep assets, prune logs | store |
| **admin** `internal/admin` | none of its own | about forty handlers: devices, screens, playlists, settings, calendar, HTTPS | store, screens, playlist, calendar |
| **calendar** `internal/calendar` | accounts, cached events | `SyncDue` in a background loop, `SyncAccount`, account and OAuth-client management, `Agenda` | store, secret, Google, CalDAV |
| **secret** `internal/secret` | a key file | `LoadOrCreateKey`, `Encrypt`, `Decrypt`, `NeedsUpgrade` | calendar |
| **tlscert** `internal/tlscert` | CA and server certificate files, the certificate in use | issue, renew, reload | server, admin |
| **server** `internal/server` | listeners | `Run`: serve, shut down | everything that serves |
| **device** `internal/device` | rows of devices | `Provision`, `NormalizeMAC` | store |
| **plugins** `internal/plugins/*` | small caches of fetched data | `DataModel`, `Render` | the network, calendar |
| **metrics, config, httpx** | none | read-only | store |
| **startup** `cmd/trmnld`, `store.migrate`, `seedExample` | schema version, example content | once per start | store, secret |

Every HTTP request runs in its own goroutine, and so do the maintenance loop and
the calendar loop. They share the database, one statement at a time and with no
transaction around a handler, and the uploads directory. So the hard part of
this server is not inside a function. It is between the statements of one
handler: another poll, an administrator, the sweep or a crash may come in there.

What makes the parts correct:

* **store**: no row outlives what it refers to.
* **display poll**: it answers with a picture of what the device is configured
  to show: the settings last saved, the device's own fonts, the battery state of
  this poll. A queued firmware update is handed out once, and is not forgotten.
* **rotation**: every screen is shown, in order.
* **render caches**: the entry shared by all devices and the entries of devices
  with a battery indicator never mix; an edit is shown eventually.
* **sweep**: it removes what nothing refers to, never what a poll has just
  written, and a picture it does take away comes back.
* **calendar**: a sync neither loses an edit made meanwhile nor brings back a
  deleted account; one broken account does not stop the others; the agenda shows
  each event once.
* **secret, tlscert, startup**: a crash between two writes is recovered from, or
  refused openly.
* **server**: one listener failing brings the process to an end within the
  shutdown time.

The hazards list of `PROJECT.json` names the lines where each can go wrong.

## 2. What is modelled

Four systems, each with its own instances for TLC. They share no state that the
properties are about: the device plane sees the calendar only as data of a
plugin, and the process only as crashes.

**The device plane**: what a device is served.

| module | models | variables |
|---|---|---|
| `Store` | the tables the device plane uses; each store method is an operator with its name | `devices screens playlists items renders settings` |
| `Uploads` | the uploads directory, `writeIfAbsent`, `sweepCache` and `Sweep` | `files old sweep` |
| `DeviceApi` | `Display`, with `NextScreen`, `cachedHash`, `renderScreen` and `screens.Render`, one store call per action | `req offered` |
| `Admin` | the admin handlers that change what devices are served | - |
| `Trmnl` | the whole: `Init`, `Next`, `Spec`, time, crashes, fairness, and the properties | - |
| `RoundRobin` | abstract: what a playlist promises a device | `turn showing` |
| `MCTrmnl`, `Trmnl*.cfg` | the instances TLC checks | - |
| `TrmnlProofs`, `CacheProofs`, `OrderlyProofs` | theorems | - |

**The calendar**: what the accounts hold and show.

| module | models | variables |
|---|---|---|
| `CalendarStore` | `calendar_accounts`, `calendar_events`, `oauth_clients` and their statements | `accounts events clients` |
| `CalendarSync` | `SyncDue` and `SyncAccount`: load, fetch, token write-back, `ReplaceCalendarEvents`, `RecordCalendarSync` | `job revoked ops` |
| `CalendarAdmin` | the handlers of the calendar pages and the OAuth flow with its cookie; Google as an external party | `cookie flows` |
| `Calendar` | the whole, with crashes, fairness and the properties | - |
| `MCCalendar`, `Calendar*.cfg` | the instances | - |
| `CalendarProofs` | theorems | - |

**The process**: `trmnld` from its start to its end, and its next start.

| module | models | variables |
|---|---|---|
| `Process` | `run()` in phases, the migrations, `seedExample` | `scenario phase conf ...` |
| `Secrets` | key file, formats of stored secrets, `MigrateEncryption`, saving | `keyFile box stored ...` |
| `TlsCert` | CA and certificate files, issue, renew, reload, and the operator's own files | `caKey caCert srvKey srvCert userKey userCert cert tls ...` |
| `Listeners` | `server.Run`: goroutines, error channel, signal, shutdown | `lst busy errCh ...` |
| `Provisioning` | `device.Provision` from both callers | `registered adding` |
| `Assets` | uploads and the settings form of static image screens against `sweepAssets` | `names assets aged upload form keep again` |
| `Server` | the whole, with crashes, fairness and the properties | - |
| `MCServer`, `Server*.cfg` | the instances | - |
| `SecretProofs`, `ServingProofs` | theorems | - |

**The panel**: three algorithms, as functions, against what they are to compute.

| module | models | variables |
|---|---|---|
| `Agenda` | `ReplaceCalendarEvents`, `ListCalendarEventsBetween`, `Merge`, `groupByDay` | `calendar marker rows` |
| `SyncTimes` | when accounts are synced: `NextWake`, `due`, `runCalendarSync` | `account loop timer ...` |
| `Raster` | `Monochrome` (Floyd-Steinberg, threshold) and `EncodeBMP1` | `source mono file` |
| `Panel`, `MCPanel`, `Panel.cfg` | the three with their inputs, and the properties | `part` |
| `RasterProofs`, `AgendaProofs` | theorems | - |

In each system the modules extend each other in this order, so a definition is
in one place and the proofs are about the same `Next` that TLC explores.

## 2.1 The device plane

### State

* A row is a record of the columns that matter, or `NULL` when it does not
  exist. A screen and its plugin row are one (`ScreenCreate` makes both,
  `DeleteScreen` deletes the plugin and the cascade takes the screen; a
  plugin row whose screen could not be created is read by nothing).
  `playlist_items.visible` is left out: no code sets it to anything but 1.
* Row ids are slots that are used again. `INTEGER PRIMARY KEY` without
  `AUTOINCREMENT` gives the id of a deleted last row to the next one, so a
  request can hold the id of a row that has been replaced.
* A picture is the tuple of what it is drawn from: settings, dithering mode, font
  override, font bundle, battery indicator, and data of the plugin. It stands for
  its own hash: hashes are taken to be injective, and two different tuples to give
  different pictures. BMP and PNG are one file.
* Time is not a number. A cache entry is `fresh` until the step `Expire`, and a
  file is not `old` until the step `Age`.
* `req[r]` is a request in flight: the step it is at, and the values it has read.
  These are its local variables, so they may be stale. `offered` is a history
  variable: it records whether the update queued last has been handed out.

### Actions

Each store call, drawing and file write of `Display` is an action, because other
goroutines can act between any two of them. Admin handlers with a single write
are one action. `ScreenUpdate`, `SettingsSave`, `ScreenPreview` and
`DeviceForceRefresh` make several calls and are jobs like a poll; the last two
share the rendering actions with it.

Merged, because nothing the properties see can come between: the reads of the
global settings and of the plugin row during a rendering (`Compute`); the three
font settings (`SetFonts`); the list of hashes and the cutoff time of a sweep
(`SweepStart`); the asset file of an upload and the setting that names it
(`ScreenUpload`). A screen's `fresh` flag is the one of the row as the poll read it.

Left out: requests refused before their first write; columns that are only
displayed; `special_function`, the second write of `DeviceUpdate`
(`internal/admin/devices.go:94-95`), which a poll answers and nothing depends on;
`reset_firmware`, which is answered and cleared but never set (`QueueResetFirmware`
has no caller). Errors of the database are modelled for polls and renderings
(`"store.fail"`): some are ignored by the code and some are not. In an admin
handler an error means that nothing changes, which is the same as the handler
not having run.

`Ops` names the handlers and failures an instance exercises. With `Ops` the set
of all names, `Next` is the whole server; the theorems hold for every `Ops`, but where
a hypothesis says otherwise (section 6).

### Failures

`"store.fail"`: a statement of a poll fails. `"plugin.fail"`: a data source
fails. `"disk.fail"`: a picture cannot be written (the BMP may be there already), or
removed. `"crash"`: the process dies between any two steps and is started again
with the tables and files as they are.

## 2.2 The calendar

There is one background goroutine and one slot for a request of the
administrator (`Workers`); each is a job that goes from one store call or fetch to
the next with the account it read at the start. So a job can write back what has
been edited, deleted, or deleted and created again under the same row id.

* A configuration is what the encrypted column holds: kind, address, OAuth client,
  grant, selection of calendars. `EventSet` stands for the fetched events: those of
  a mailbox and a selection.
* A *grant* is a refresh token with the access tokens it yields. It counts as
  revoked once its last access token has expired too, so a fetch with it fails.
* A browser has one cookie, and so two flows started in one browser share it. A callback
  clears it with its answer, that is after its sync, and it expires: `CookieGone` may
  come at any time, and until then a second callback may find it. A
  client created again under the same id is taken to be the same Google client.
* Errors are `none`, `reconnect` and `other`: what the page tells them apart by.
* Not here: intervals (`SyncTimes`), name and marker (`Agenda`), and the order in
  which a pass takes the accounts, which is left open. Cancelling a fetch at
  shutdown is a failed fetch before a crash.

## 2.3 The process

`Scenarios` are the data directories an instance starts from, each with the
configurations that may be started over it and the operations that meet there.
Every operation, every failure and every write of a file or statement is a step,
and a crash may come between any two.

* `secret.key` is written in place, so a crash or a failed write may leave it empty or
  cut short. One cut short is a key all the same, so it is one more value of `Keys`.
  The files of the CA and the certificate are written to a temporary file and
  renamed: each is there whole or not at all, and a crash comes between two of them.
* A read of `secret.key` may fail although it holds a key (`"key.misread"`). The code
  then makes a new one, as if there were none. `overwritten` is a history variable: it
  holds the keys that the server itself has replaced, as `lost` holds those whose file an
  operator has removed.
* A certificate is what decides about it: its CA, its key pair, the hosts it
  covers, and whether it is due for renewal (`age`). The ten years of a CA are
  not checked by the code and not modelled. `usable` also compares the start of
  its validity, an hour before it is issued, which only a clock set back could tell.
* `Run` is its `select`, its goroutines and its sequential shutdown with one
  deadline for all. If a listener's error and the signal are both there, `select`
  may take either.
* `Provision` is its store calls, each of which may fail, and its retries after a chance
  collision of credentials. A row is found by its MAC, and a new one is read back by
  its id; an administrator may delete it in between, and SQLite gives its id to the
  next one. `gone` is a history variable that says so. `NormalizeMAC` is the constant
  function `MAC`.
* The channel of `Run` has room for an error of every listener, and no listener sends two,
  so no goroutine waits to send one: `errCh` is a set.
* `AssetAges` assumes that an upload and a sweep take less than the cleanup
  interval.

## 2.4 The panel

* The table of events is the sequence of its rows by id. Titles are numbered in the
  order of their strings, and `Folded` is their lower case: in the instance 1, 2, 3
  stand for "Lunch", "gym", "lunch". Events of one title and start end together.
* `SyncTimes` counts ticks of a quarter of an hour. The forms accept whole hours of
  at least one (`parseHours`), so `NextWake` is an hour in effect, a quarter
  without accounts; its lower bound of a minute is out of the pages' reach. It assumes
  that the accounts can be loaded (see `SyncedInTime` in section 3).
* `Raster` computes in integers what the code computes in `float64`: with `Unit` a
  high enough power of 16 every sixteenth of an error is a whole number. The theorems
  hold for every `Unit`, rounding down where it is not; about the rounding of
  `float64` they say nothing.
* What the code does in a loop over data is a recursive function on the number of
  elements done (`Without`, `ReplaceCalendarEvents`, `Merge`, `groupByDay`,
  `Buffers`). `Sorted` is not the sorting algorithm but its result: position k is that of
  the row with k - 1 rows before it, in the order a stable sort must give.

## 3. The runs

| run | question | properties |
|---|---|---|
| `faults` | what may go wrong with rows deleted and created under a request, every failure, the sweep and crashes | `TypeOK` `ForeignKeys` `CachesSeparate` `ServedIndicator` `FreshFilesSurvive` |
| `config` | does a poll show what was saved last | `ForeignKeys` `ServesSavedSettings` |
| `orderly` | what a device that waits for its answer can rely on | `NotOnePollBehind` `RotationInOrder` `UpdateServedOnce` `TakesTurns` |
| `rotation` | what is left of that when polls overlap | `ShownForever` `UpdateEnds` |
| `pruning` | what happens in the end to edits and to files | `EditShownEventually` `PruningHeals` `UnusedRemoved` |
| `calendar` | what syncs, edits, consents, deletes, failures and crashes make of two accounts | `CalendarTypeOK` `EventsHaveAccount` `GrantIsOwners` `ConsentForItsFlow` `SyncedForever` `SelectionShown` `ReconnectShown` |
| `server` | what starts, crashes, failed writes and operators make of one data directory, and how the process ends | `ServerTypeOK` `UnreadableOnlyIfLost` `NothingPlain` `ExampleOnce` `ServedCertificate` `CleanExit` `ScreensFileExists` `CAKept` `KeepsServing` `RenewalPickedUp` `FailureEndsRun` `LostRaceIsNoError` |
| `panel` | do the algorithms compute what they are to compute | `AgendaListsEachOnce` `AgendaStable` `SyncedInTime` `ErrorsArrive` `FileShowsPicture` |
| `battery_edit` | finding 1 | `ServesSavedSettings`, violated |
| `bundle` | finding 2 | `ServesOwnBundle`, violated |
| `firmware` | finding 3 | `UpdateNotForgotten`, violated |
| `calendar_edit` | finding 4 | `SelectionSticks`, violated |

Some properties hold only in the instance they are checked in, and why is part
of what the runs show:

* `ServesSavedSettings` needs that requests do not overlap (else a rendering
  that began before an edit records its picture after it) and that the device has no
  battery indicator (run `battery_edit`). What is left in general is
  `EditShownEventually`: such a picture is served until it expires.
* `NotOnePollBehind`, `RotationInOrder` and `TakesTurns` need a device that waits
  (`Overlap = FALSE`), and that no statement fails. Firmware waits; a proxy that
  retries may not.
* `UpdateServedOnce` needs the same: the comment in `Display` says "clear them
  after serving", and two overlapping polls can both serve before either clears.
* `PruningHeals` is checked without force refreshes: an administrator who clears
  the caches in step with the sweep can make each poll draw a picture and each
  sweep remove an older one, for as long as he likes.
* `SyncedForever` and `SyncedInTime` need that every account can be decrypted: `SyncDue`
  loads them all before it syncs one, and stops at the first it cannot load
  (`internal/calendar/service.go:287-290`). `CalendarSync` has that path; `SyncTimes`
  leaves it out, with the quarter of an hour that `NextWake` then is (`:405`).
* `UnreadableOnlyIfLost` leaves out keys that an operator removed and keys that the server
  overwrote; and it says that the server overwrites none where reads of the file do not
  fail. Where they do it does, against what its comment says: `KeyKept` (section 5).
* `LostRaceIsNoError` leaves out a request whose own new row is deleted before it is read
  back. It may be answered with another device: `ProvisionAnswersItsDevice` (section 5).
* `RenewalPickedUp` needs a disk that does not fail for ever.
* `SelectionShown` and `ReconnectShown` are about the time after the last change;
  meanwhile a sync that was on its way may show the old selection or an old error.
* `AgendaStable` leaves out the order of two entries of one title and start, and of
  an entry's markers: both follow the row ids (section 5).

`TakesTurns` says that the server implements `RoundRobin`. A device's `turn` is the
cursor in its row, and the screen it is `showing` is that of the poll between the
store of the cursor and the answer. `RoundRobin` is safety only; that turns go on
for ever is `ShownForever`.

### Bounds

* Device plane: at most two devices, screens and requests in flight, one playlist,
  one to three items. Each hazard there is between two parties: a poll and another
  poll, an administrator, or the sweep (which is not a request). Several settings,
  modes or battery states are there where a property compares them, and one elsewhere.
* Calendar: two accounts, two mailboxes, two grants of one of them and one of the
  other, two flows, one request next to the loop, in five scenarios. A grant of
  the wrong mailbox, an older grant of the right one, and a second flow over the
  first one's cookie each need two of a kind and no third. The user consents once in a
  flow (`MaxConsents = 1`); the theorems have no such bound.
* Server: nine scenarios (`Seeding` to `Uploading` in `MCServer`); two rows, one
  of them in the older format; keys, CAs and pairs for three generations; two
  listeners; two requests that add one MAC in two spellings, with the ids 1 and 2; two screens
  and three files. Components share only the process, so each scenario exercises
  one of them with crashes or failures.
* Panel: agendas of up to two events in each of two accounts, with every coincidence of
  title, start and uid; two accounts with intervals of one to three hours over any
  time; gray pictures of 2x2, 4x1 and 1x3, enough for each of the four shares of
  an error to arrive or to fall off an edge; rows of 1, 7, 8, 9, 31, 32 and 33
  pixels, on both sides of a byte and of four bytes. The bound of `SyncedInTime` is
  tight: one tick less, and TLC finds a behaviour that exceeds it.

Deadlock is checked everywhere but in `panel`, where a picture that has been
printed is the end. Symmetry (`Permutations(Reqs)`) is used in the two safety
runs with two requests (`faults`, `orderly`), never with a liveness property.

Each property of a passing run has a mutant, an operator `Bug...` next to the
definition it replaces: a dropped guard, a forgotten reset or a wrong
comparison, with which TLC finds that property violated.

## 4. Fairness

`LiveSpec` of `Trmnl` assumes:

* weak fairness of each request in flight: every call it makes returns (the
  queries wait for nothing but the one connection, fetches have timeouts), and Go
  schedules every goroutine;
* strong fairness of a device polling: it has a timer, and it may find all slots
  taken again and again only because the model bounds them;
* weak fairness of time passing for cache entries and of the sweep's ticker, and
  strong fairness of a file growing old: a file is prevented from it only while a
  sweep runs or a request that wrote it is in flight.

A crash is not part of the liveness runs of the device plane: crashing for ever
starves everything. `AgeFile` states the one assumption about durations: no request
takes as long as the grace period, which is the cleanup interval (an hour by
default, against the 60 seconds of the server's write timeout).

`LiveSpec` of `Calendar` assumes weak fairness of the loop's timer, of every step of a
job, and of time passing, and that the process crashes finitely often. That a
fetch ends is an assumption for Google: a CalDAV fetch has a timeout of 20 s, a
Google fetch of the loop has none (`internal/calendar/google.go:61`).

`LiveSpec` of `Server` assumes weak fairness of `Run`, of the end of a process whose
`Run` has returned, of browsers that keep coming (each handshake asks for the
certificate), and of the hourly check of it.

Administrators, operators and signals are never assumed to act.

## 5. Findings

Each is a run that TLC finds violated.

1. **An edit is not shown on a device with the battery indicator** until the
   plugin's refresh interval has passed. `UpdateScreenSettings` and
   `UpdateScreenDither` (`internal/store/content.go:89-105`) clear the shared
   entry only. Run `battery_edit`.
2. **Two devices with different font bundles are served each other's picture.** The
   entry they share does not depend on the bundle
   (`internal/screens/screens.go:69-76`). Run `bundle`.
3. **A firmware update can be lost** when it is queued while a poll that read an
   earlier one is being answered: `Display` clears the flag by device id
   (`internal/deviceapi/handlers.go:115`). Run `firmware`.
4. **A sync can undo an edit of an account.** With a refreshed access token it writes
   back the whole configuration it read before fetching
   (`internal/calendar/google.go:99`), and with it the selection of calendars from
   before an edit saved meanwhile. Run `calendar_edit`.

Two more have a property in `Server` and a configuration with which TLC finds it
violated, next to the runs:

* **A key file that cannot be read is overwritten.** `LoadOrCreateKey` makes a new key
  after any error of `os.ReadFile` (`internal/secret/secret.go:82`), not only "when absent
  or empty" (`:75-76`): after one failed read at a start every credential stored with that
  key is unreadable for good. `KeyKept`, `ServerKey.cfg`.
* **A registration can be answered with another device.** `CreateDevice` reads its row back
  by id in a second statement (`internal/store/devices.go:44`), and ids are used again: if
  the row is deleted and another device added in between, the answer has that device's
  credentials, while "Provision returns the device for mac"
  (`internal/device/device.go:27`). `ProvisionAnswersItsDevice`, `ServerProvision.cfg`.

Observations made while modelling, without a property:

* `internal/plugins/plugin.go:47-48` says that a `DefaultRefresh` of zero means always
  re-render; `cachedHash` (`internal/deviceapi/deviceapi.go:130`) never expires an entry
  then. No plugin returns zero, and `Expire` is fair because of that.
* The admin page hands a MAC to `Provision` as typed
  (`internal/admin/devices.go:24-30`); `/api/setup` looks for the canonical form
  that `docs/API.md:25-26` describes. A device added in lower case is not found, and
  may be added twice.
* White has luminance 65535/256, but its error is taken against 255
  (`internal/render/dither.go:25`): 0.996 a pixel adds up. By a calculation
  outside TLC, a black line of one pixel on a white page of 800x480 loses 255 of
  its 480 pixels, the first in row 74.
* A sync that brings nothing new gives all rows new ids, so entries of one title and
  start, and an entry's markers, may change places: a needless new picture.
* Events without a uid at one start collapse into one
  (`UNIQUE (account_id, uid, start_at)`).
* A sync fetches from a day back to 60 days ahead, whatever the screen's days-ahead
  setting and the account's interval of up to a year: an agenda may end early without
  saying so.
* `placeholder.bmp` is written in place once (`internal/deviceapi/deviceapi.go:172`):
  a crash leaves a broken one for good. Likewise a seed that crashed half way is
  never completed, a crash between `ca.key` and `ca.crt` makes HTTPS refuse to start
  until the files are repaired, and `secret.key` is not synced to disk.
* A settings form opened before an upload and saved after it names the replaced
  image, which the sweep may have removed.

## 6. What is proved

For all values of the constants that satisfy the assumptions of the modules:

| module | theorem | statement |
|---|---|---|
| `TrmnlProofs` | `TypeInvariant`, `TypeCorrect` | `Spec => []TypeInv`, `Spec => []TypeOK` |
| | `ReferencesHold` | `Spec => []ForeignKeys` |
| `CacheProofs` | `CacheInvariant`, `CachesNeverMix`, `IndicatorServed` | `Spec => []CachesSeparate`, `Spec => []ServedIndicator` |
| | `FreshInvariant`, `FreshFilesKept` | `Spec => []FreshFilesSurvive` |
| | `EditsServed` | `EditsAlone => (Spec => []ServesSavedSettings)` |
| `OrderlyProofs` | `CopiesUpToDate`, `IndicatorInTime` | `Waits => (Spec => []NotOnePollBehind)` |
| | `TurnsCopied`, `RotationGoesOn` | `Still => (Spec => RotationInOrder)` |
| | `ServerTakesTurns` | `OneRotation => (Spec => TakesTurns)`: the refinement of `RoundRobin` |
| | `ServedOnce` | `ClearsAfterServing => (Spec => UpdateServedOnce)` |
| `CalendarProofs` | `CalendarInvariant`, `CalendarTypeCorrect` | `Spec => []CalendarTypeOK` |
| | `GrantsStayWithOwners` | `Spec => []GrantIsOwners` |
| | `ConsentsUsedAsAsked` | `Spec => ConsentForItsFlow` |
| | `EventsNeverOrphaned` | `Spec => []EventsHaveAccount` |
| `SecretProofs` | `ProcessInvariant`, `ExampleAddedOnce` | `Spec => []ExampleOnce` |
| | `SecretsInvariant`, `CredentialsStayReadable`, `NothingStaysPlain` | `Spec => []UnreadableOnlyIfLost`, `Spec => []NothingPlain` |
| | `TlsInvariant`, `CheckedCertificateServed` | `Spec => []ServedCertificate` |
| | `CANeverReplaced`, `CertificateNeverDropped` | `Spec => CAKept`, `Spec => KeepsServing` |
| `ServingProofs` | `RunEndsClean`, `LostRacesAreNoErrors`, `SweepTakesNoImage` | `Spec => []CleanExit`, `Spec => LostRaceIsNoError`, `Spec => []ScreensFileExists` |
| | `ServerTypeCorrect` | `Spec => []ServerTypeOK` |
| `AgendaProofs` | `AccountsSyncedInTime` | `Spec => []SyncedInTime` |
| | `EventsListedOnce` | `Spec => []AgendaListsEachOnce` |
| | `AgendaKept` | `Spec => AgendaStable` |
| `RasterProofs` | `DitheringExact` | `Spec => []ErrorsArrive` |
| | `FileReadable` | `Spec => []FileShowsPicture` |

So every invariant and every action property of the passing runs is a theorem.

The assumptions are the named `ASSUME`s of the modules: sets that must be finite
are, defaults belong to their sets, `NULL` is none of the values it stands in for,
the initial items have distinct positions, the initial accounts hold grants of
their own mailboxes, pictures have a pixel and grays of 0 to 255, and a fetch takes
less than an hour (the one duration that a theorem needs; `SyncedInTime` is
stated in terms of it). TLC evaluates them in every run.

The theorems of `OrderlyProofs` and `EditsServed` have a hypothesis (`Waits`, `Still`,
`OneRotation`, `ClearsAfterServing`; `EditsAlone`). Each is about the constants
alone, and the runs `orderly` and `config` satisfy them.

The arguments:

* **TypeInv** adds to `TypeOK` what a request holds at each of its steps
  (`JobOK`): the record step has a picture, a poll has a device row, a request
  that has written a file is about to record or to answer. `TypeOK` alone is not
  inductive: a request at "record" without a picture would put `NULL` in a table.
* **ForeignKeys** is inductive relative to `TypeInv`. The interesting steps are a
  late `Record`, which the foreign key refuses when its device or screen is gone, and
  the deletes, whose cascades must reach every table.
* **CacheInv** adds to `CachesSeparate` that every picture on its way through a
  request shows the indicator of the row it was drawn for: from drawing
  (`Compute`) over the file to `Record`, and from `GetScreen` to `Lookup` for
  the shared entry. Without it a request could record anything.
* **FreshInv** says that a file written by a request in flight is there *and not
  old*: the sweep may have listed its hash as unused, and spares it because of its
  age alone.
* **WaitInv**, under `Waits` (a device waits, statements succeed, no row id is taken
  over): a device has one poll at most, and the battery state in its copy of the row
  is the row's. With `CacheInv` the indicator is this poll's. Each exclusion is
  needed: overlapping polls store telemetry in between, a poll whose reload
  fails goes on with the row from before its telemetry, and a new device in the old
  row has another state.
* **TurnInv**, under `Still` (`Waits`, and nobody edits the playlist): the copy's
  playlist and cursor are the row's until the cursor is stored, the screen chosen is
  the item at that cursor, and the cursor is within the playlist, so that the
  wrap-around of `pick` is the remainder.
* **The refinement**, under `OneRotation` (`Still`, one playlist with positions from
  0 on, no deletion and no crash): `RotationInv` says that rows and playlists stay;
  `PositionIsIndex` that the item at index k is the one at position k, which is a
  count of the items before it; `StepsRefine` that each step of the server is a
  stutter, the end of an answer, or a turn of one device. A crash would end the
  answers of several devices in one step, and a deletion take a device away.
* **SavedInv**, under `EditsAlone` (no two requests at once, no battery indicator, no
  upload and no creation of a screen, which are steps without a slot and so
  overlap a poll even when there is one): the entry of a screen shows what its row
  says, what a request read of a screen is what the row still says until it has
  recorded its picture, and the picture it holds shows what it read. It is what
  the two SQL statements that change a row and clear its entry at once are for.
  Each exclusion is needed, see section 3; so a server with two requests has
  `EditShownEventually` instead.
* **OnceInv**, under `ClearsAfterServing` (`Waits`, and no crash): a flag whose update
  was served is about to be taken back by the poll that served it, and no other
  poll goes on with a copy of it. A crash between the answer and the clearing hands
  it out again, which is the safe side; two overlapping polls may both.
* **CalendarInv** is about every configuration, stored or carried by a job between
  two steps: it is well typed and its grant is of its own address. A row id that
  is taken over keeps no promise about *which* account a job writes to, so
  nothing weaker is inductive. The cookie is that of its flow.
* **EventsHaveAccount** rests on the row: `ReplaceCalendarEvents` inserts in one
  transaction under a foreign key, and only a delete with its cascade removes a row.
* **ProcessInv** says where the seed is as against what it has added.
* **SecretsInv**: a stored secret is encrypted with the file's key, a lost or
  overwritten one, or the operator's, and the `Box` in memory has the key of its
  configuration. The step that matters is `CreateKey` over a key that could not be read
  (`OverwriteKeepsHeld`): the secrets it makes unreadable are exactly those of the
  overwritten key. `OverwrittenUnread` adds that a key is overwritten only where a read can
  fail.
* **TlsInv** ties the job that holds the mutex to the files it has written so far:
  between the two files of a pair the files disagree.
* **RunInv** says of the listeners already shut down what `CleanExit` says of all;
  the invariant of assets says the same of half a request.
* **ProvisioningInv** says that a request about to read its row back by id finds its own MAC
  there, unless the row was deleted since (`ReadsItsOwn`): an id is given away again only
  once its row is gone.

* **TimesInv** bounds the timer by the ages of the accounts and the other way round.
  `Room(T)` is how long the fetches of the accounts outside of T may take: during a
  pass an account that has had its turn is due for less than the room of those
  before it, and after it for less than the rest of the hour. An account due when the
  pass begins waits for the others only, so the bound has one fetch less than there are
  accounts. `SyncedInTime` alone says nothing about a pass under way.
* **RasterInv** says that the file is what `EncodeBMP1` makes of the picture; the rest is
  about the functions. `BuffersReceive`: after n pixels a pixel holds its luminance and
  the shares of its neighbours among these n (`DiffuseFromAdds`: one pixel pushes to
  exactly those it is a neighbour of, and never over an edge). Once all before it are
  done that is the sum Floyd and Steinberg define (`GathersReceived`), so the errors of
  the loop solve the recursive definition of `Errors`, and nothing else does
  (`ErrorsArePushed`). `PackedBits` and `RowStride` are the arithmetic of the file.
* **AgendaInv** types the table through a sync. `IsMerged` is the invariant of the
  merging loop: one entry a key, in order, with the title and start of its first
  row and the markers of all rows so far. `IsGrouped` is that of the grouping loop;
  it needs the entries in order, which `SortedOrder` gives: the ranks of a finite
  set under a strict order are 1 to n.
* **AgendaStable** is a counting argument: two agendas of the same rows have a twin for
  each other's entries (`SameRowsCover`), so they are equally long, and in neither can the
  i-th entry come before the other's (`CoversEarly`: the first i would have twins
  among the first i - 1).

The recursive functions are reasoned about for inputs of any length. `Iterates` shows
that such a function exists and `RunFrom` what its values are in; both go by
`SetInduction`, which is induction over the numbers in a set, from
`NatLessThanWellFounded`. (The library's induction theorems take an operator, which no
installed backend can instantiate.)

Each proof has a lemma per action or group of alike actions, and ends in one
temporal step. In the process, frame lemmas (`NextOfSecrets`, `NextOfTls`,
`NextOfServing`) reduce a step of the whole to a step of one part.

## 7. What is only model-checked

* Liveness, with its fairness (`ENABLED`): `ShownForever`, `UpdateEnds`,
  `EditShownEventually`, `PruningHeals`, `UnusedRemoved`, `SyncedForever`,
  `SelectionShown`, `ReconnectShown`, `RenewalPickedUp`, `FailureEndsRun`.
  TLAPS does not prove liveness.
* What holds only in a restricted instance beyond it: `ServesSavedSettings` with two
  requests and `UpdateServedOnce` with overlapping polls are false, and
  `PruningHeals` is checked without force refreshes (section 3).
* The model's own abstractions: that a picture's hash is injective, that the float
  arithmetic of the dithering agrees with the exact one, and the durations that
  `Age` and `AssetAges` assume.

## 8. Plan

Done: the device plane, the calendar, the process, the panel, the refinement of
`RoundRobin`, and the theorems above. What would add most next:

1. The abstract specification of a queued update (pending, served, gone) and its
   refinement.
2. An abstract specification of a stored credential across crashes, refined by
   `Secrets`.
3. The conversion of a provider's events: recurrences, exceptions, time zones.

## 9. Not modelled, and why

* What plugins fetch and draw, the layout of the family calendar, the battery glyph,
  the placeholder, PNG: they reach the device plane only as `Data` or as a failure.
* How a provider's answer becomes events (recurrences, time zones), and discovery of
  calendars: parsing by libraries; the events are the inputs of `Agenda`.
* `GET /api/setup` beyond its lookup, `POST /api/log`, the pruning of logs, metrics
  and the admin pages that only read: nothing else depends on them.
* Parsing of flags, headers and forms, and authentication: a refused request changes
  nothing. The result of the flags is `Config` in `Process`.
* The `trmnl-render` tool, the site and the deployment files keep no state.

## 10. Running

    tlc -workers 2 -config TrmnlFaults.cfg MCTrmnl.tla
    tlc -workers 2 -config Calendar.cfg MCCalendar.tla
    tlc -workers 2 -config Server.cfg MCServer.tla
    tlc -workers 2 -config ServerKey.cfg MCServer.tla        # violated: section 5
    tlc -workers 2 -config ServerProvision.cfg MCServer.tla  # violated: section 5
    tlc -workers 2 -config Panel.cfg MCPanel.tla
    tlapm TrmnlProofs.tla        # and the other modules named ...Proofs

The passing runs take from a few seconds to two minutes (`orderly`).
