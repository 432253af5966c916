\* An administrator selects other calendars while the loop fetches the account
\* and has its access token refreshed.
SPECIFICATION Spec
CONSTANTS
    a1 = a1
    a2 = a2
    k1 = k1
    g1 = g1
    g2 = g2
    h1 = h1
    mum = mum
    dad = dad
    Accounts = {a1, a2}
    Clients = {k1}
    Emails = {mum, dad}
    Selections = {none, all}
    Grants = {g1, g2, h1}
    Mailbox <- TwoMailboxes
    NULL = NULL
    NoSelection = none
    Loop = loop
    Workers = {w1}
    MaxConsents = 1
    Nonces = {n1, n2}
    Scenarios <- OnlySyncing
PROPERTIES SelectionSticks
