\* A device is deleted, and another one added, while the first is being added.
SPECIFICATION Spec
CONSTANTS
    own = own
    r1 = r1
    m1 = m1
    typed = typed
    h1 = h1
    h2 = h2
    NULL = NULL
    Migrations = 2
    Hosts = {h1, h2}
    Scenarios <- RegisteringOnly
    Keys = {own, k1, k2, k3}
    OwnKey = own
    Rows = {r1, r2}
    Plain = plain
    Legacy = legacy
    CAs = {ca1, ca2, ca3}
    Pairs = {p1, p2, p3}
    MaxRenewals = 2
    Listeners = 2
    MACs = {m1, m2}
    Spellings = {m1, m2}
    MAC <- Canonical
    Credentials = {c1, c2}
    MaxId = 2
    Attempts = 2
    Requests = {q1, q2}
    Screens = {s1, s2}
    Files = {f1, f2, f3}
PROPERTIES ProvisionAnswersItsDevice
