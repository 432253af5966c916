\* Data directories, configurations and operations, with a crash between any
\* two steps.
SPECIFICATION LiveSpec
CONSTANTS
    own = own
    r1 = r1
    m1 = m1
    typed = typed
    h1 = h1
    h2 = h2
    NULL = NULL
    Migrations = 2
    Hosts = {h1, h2}
    Scenarios <- AllScenarios
    Keys = {own, k1, k2, k3}
    OwnKey = own
    Rows = {r1, r2}
    Plain = plain
    Legacy = legacy
    CAs = {ca1, ca2, ca3}
    Pairs = {p1, p2, p3}
    MaxRenewals = 2
    Listeners = 2
    MACs = {m1}
    Spellings = {m1, typed}
    MAC <- Canonical
    Credentials = {c1, c2}
    MaxId = 2
    Attempts = 2
    Requests = {q1, q2}
    Screens = {s1, s2}
    Files = {f1, f2, f3}
INVARIANTS ServerTypeOK UnreadableOnlyIfLost NothingPlain ExampleOnce ServedCertificate CleanExit ScreensFileExists
PROPERTIES CAKept KeepsServing RenewalPickedUp FailureEndsRun LostRaceIsNoError
