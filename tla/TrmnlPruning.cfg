\* One request at a time against the sweep: edits leave pictures behind, which
\* the sweep removes, sometimes while a poll is about to name one.
SPECIFICATION LiveSpec
CONSTANTS
    Devices = {d1}
    s1 = s1
    s2 = s2
    p1 = p1
    Screens = {s1}
    Playlists = {p1}
    Contents = {c1, c2}
    Modes = {fs}
    Fonts = {nofont}
    Bundles = {classic}
    Batteries = {full}
    Data = {x1}
    Urls = {}
    MaxPos = 0
    NULL = NULL
    EmptyContent = c1
    FloydSteinberg = fs
    NoFonts = nofont
    Classic = classic
    Unknown = full
    Reqs = {r1}
    Overlap = TRUE
    ShowChoices = {TRUE, FALSE}
    Ops = {"screen.upload", "sweep"}
    InitItems <- OneItem
PROPERTIES EditShownEventually PruningHeals UnusedRemoved
