\* Two devices with different font bundles share one screen.
SPECIFICATION Spec
CONSTANTS
    Devices = {d1, d2}
    s1 = s1
    s2 = s2
    p1 = p1
    Screens = {s1}
    Playlists = {p1}
    Contents = {c1}
    Modes = {fs}
    Fonts = {nofont}
    Bundles = {classic, trmnl}
    Batteries = {full, low}
    Data = {x1}
    Urls = {}
    MaxPos = 0
    NULL = NULL
    EmptyContent = c1
    FloydSteinberg = fs
    NoFonts = nofont
    Classic = classic
    Unknown = full
    Reqs = {r1}
    Overlap = TRUE
    ShowChoices = {FALSE}
    Ops = {}
    InitItems <- OneItem
INVARIANTS ServesOwnBundle
