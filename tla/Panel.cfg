\* The agendas of two accounts, syncs of two accounts over any time, and
\* pictures of a few pixels or a few bytes a row.
SPECIFICATION Spec
CONSTANTS
    a1 = a1
    a2 = a2
    u1 = u1
    mum = mum
    dad = dad
    NULL = NULL
    Accounts = {a1, a2}
    Titles = {1, 2, 3}
    Folded <- FoldedTitles
    Starts = {1, 2}
    DayLength = 2
    Uids = {u1}
    Markers = {mum, dad}
    Minute = 0
    Quarter = 1
    Hour = 4
    Intervals = {4, 8, 12}
    FetchTime = 1
    Downtime = 13
    Unit = 4096
    Blank = Blank
    Calendars <- AllCalendars
    Queries <- AllQueries
    Pictures <- AllPictures
CHECK_DEADLOCK FALSE
INVARIANTS AgendaListsEachOnce SyncedInTime ErrorsArrive FileShowsPicture
PROPERTIES AgendaStable
