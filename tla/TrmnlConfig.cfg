\* One request at a time, no battery indicator: edits of a screen, its device,
\* its playlist and the settings, previews and force refreshes, with the process
\* crashing between the statements of a handler.
SPECIFICATION Spec
CONSTANTS
    Devices = {d1}
    s1 = s1
    s2 = s2
    p1 = p1
    Screens = {s1}
    Playlists = {p1}
    Contents = {c1, c2}
    Modes = {fs, th}
    Fonts = {nofont}
    Bundles = {classic}
    Batteries = {full}
    Data = {x1}
    Urls = {}
    MaxPos = 1
    NULL = NULL
    EmptyContent = c1
    FloydSteinberg = fs
    NoFonts = nofont
    Classic = classic
    Unknown = full
    Reqs = {r1}
    Overlap = TRUE
    ShowChoices = {FALSE}
    Ops = {"screen.update", "screen.preview", "device.refresh", "device.update", "playlist.create", "playlist.delete", "playlist.add", "playlist.remove", "settings.save", "crash"}
    InitItems <- OneItem
INVARIANTS ForeignKeys ServesSavedSettings
