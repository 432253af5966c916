\* One device and one screen, requests overlapping completely while rows are
\* deleted and created again, statements, plugins and the disk fail, the sweep
\* runs and the process crashes.
SPECIFICATION Spec
CONSTANTS
    Devices = {d1}
    s1 = s1
    s2 = s2
    p1 = p1
    Screens = {s1}
    Playlists = {p1}
    Contents = {c1}
    Modes = {fs}
    Fonts = {nofont}
    Bundles = {classic}
    Batteries = {full, low}
    Data = {x1}
    Urls = {}
    MaxPos = 0
    NULL = NULL
    EmptyContent = c1
    FloydSteinberg = fs
    NoFonts = nofont
    Classic = classic
    Unknown = full
    Reqs = {r1, r2}
    Overlap = TRUE
    ShowChoices = {TRUE}
    Ops = {"device.create", "device.delete", "screen.create", "screen.delete", "store.fail", "plugin.fail", "disk.fail", "crash", "sweep"}
    InitItems <- OneItem
INVARIANTS TypeOK ForeignKeys CachesSeparate ServedIndicator FreshFilesSurvive
SYMMETRY Symmetry
