\* A device with the battery indicator, one request at a time: an edit of the
\* screen clears the shared cache entry but not the device's own.
SPECIFICATION Spec
CONSTANTS
    Devices = {d1}
    s1 = s1
    s2 = s2
    p1 = p1
    Screens = {s1}
    Playlists = {p1}
    Contents = {c1, c2}
    Modes = {fs}
    Fonts = {nofont}
    Bundles = {classic}
    Batteries = {full, low}
    Data = {x1}
    Urls = {}
    MaxPos = 0
    NULL = NULL
    EmptyContent = c1
    FloydSteinberg = fs
    NoFonts = nofont
    Classic = classic
    Unknown = full
    Reqs = {r1}
    Overlap = TRUE
    ShowChoices = {TRUE}
    Ops = {"screen.update"}
    InitItems <- OneItem
INVARIANTS ServesSavedSettings
