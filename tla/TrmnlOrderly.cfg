\* A device that waits for its answer before it polls again, one of its two
\* screens twice in the rotation, an administrator queueing updates and forcing refreshes meanwhile.
SPECIFICATION Spec
CONSTANTS
    Devices = {d1}
    s1 = s1
    s2 = s2
    p1 = p1
    Screens = {s1, s2}
    Playlists = {p1}
    Contents = {c1}
    Modes = {fs}
    Fonts = {nofont}
    Bundles = {classic}
    Batteries = {full, low}
    Data = {x1}
    Urls = {u1}
    MaxPos = 2
    NULL = NULL
    EmptyContent = c1
    FloydSteinberg = fs
    NoFonts = nofont
    Classic = classic
    Unknown = full
    Reqs = {r1, r2}
    Overlap = FALSE
    ShowChoices = {TRUE}
    Ops = {"firmware.queue", "device.refresh"}
    InitItems <- ThreeItems
INVARIANTS NotOnePollBehind
PROPERTIES RotationInOrder UpdateServedOnce TakesTurns
SYMMETRY Symmetry
