\* A device whose polls may overlap, so that they store cursors read earlier.
SPECIFICATION LiveSpec
CONSTANTS
    Devices = {d1}
    s1 = s1
    s2 = s2
    p1 = p1
    Screens = {s1, s2}
    Playlists = {p1}
    Contents = {c1}
    Modes = {fs}
    Fonts = {nofont}
    Bundles = {classic}
    Batteries = {full}
    Data = {x1}
    Urls = {u1}
    MaxPos = 1
    NULL = NULL
    EmptyContent = c1
    FloydSteinberg = fs
    NoFonts = nofont
    Classic = classic
    Unknown = full
    Reqs = {r1, r2}
    Overlap = TRUE
    ShowChoices = {FALSE}
    Ops = {"firmware.queue", "firmware.cancel"}
    InitItems <- TwoItems
PROPERTIES ShownForever UpdateEnds
