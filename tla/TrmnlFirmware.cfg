\* An update queued between a poll reading the device row and the same poll
\* clearing the flag of the update before it.
SPECIFICATION Spec
CONSTANTS
    Devices = {d1}
    s1 = s1
    s2 = s2
    p1 = p1
    Screens = {s1}
    Playlists = {p1}
    Contents = {c1}
    Modes = {fs}
    Fonts = {nofont}
    Bundles = {classic}
    Batteries = {full}
    Data = {x1}
    Urls = {u1, u2}
    MaxPos = 0
    NULL = NULL
    EmptyContent = c1
    FloydSteinberg = fs
    NoFonts = nofont
    Classic = classic
    Unknown = full
    Reqs = {r1}
    Overlap = TRUE
    ShowChoices = {FALSE}
    Ops = {"firmware.queue"}
    InitItems <- OneItem
PROPERTIES UpdateNotForgotten
