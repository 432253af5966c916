-------------------------------- MODULE Panel -------------------------------
(***************************************************************************)
(* Three of the program's algorithms, each with its own inputs: which      *)
(* events an agenda lists, when accounts are synced, and how a picture     *)
(* becomes a file.  A behaviour exercises one of them.                     *)
(***************************************************************************)
EXTENDS SyncTimes, Raster

CONSTANTS
    Calendars,    \* bound: what the providers answer, and the markers
    Queries,      \* bound: agendas to show
    Pictures      \* bound: pictures to print

ASSUME CalendarsAssumption ==
    /\ \A c \in Calendars :
          /\ c.calendar \in [Accounts -> Seq(Event)]
          /\ c.marker \in [Accounts -> Markers \union {NULL}]
    /\ \A q \in Queries : q.limit \in Nat

ASSUME PicturesAssumption ==
    \A p \in Pictures :
        /\ p.width \in Nat \ {0} /\ p.height \in Nat \ {0}
        /\ p \in Like(p) /\ Blank \notin Like(p)

VARIABLE part     \* the algorithm this behaviour exercises

panelVars == <<agendaVars, timesVars, rasterVars, part>>

AgendaIdle ==
    /\ calendar = [a \in Accounts |-> <<>>]
    /\ marker = [a \in Accounts |-> NULL]
    /\ rows = <<>>

TimesIdle ==
    /\ account = [a \in Accounts |-> NULL]
    /\ loop = "sleeping" /\ timer = 0
    /\ todo = {} /\ passed = 0 /\ fetching = 0 /\ forced = NotForced

RasterIdle == source = Blank /\ mono = Blank /\ file = Blank

Init ==
    \/ /\ part = "agenda" /\ TimesIdle /\ RasterIdle
       /\ \E c \in Calendars : calendar = c.calendar /\ marker = c.marker
       /\ rows = <<>>
    \/ part = "times" /\ AgendaIdle /\ RasterIdle /\ TimesInit
    \/ part = "raster" /\ AgendaIdle /\ TimesIdle /\ RasterInit(Pictures)

Next ==
    /\ UNCHANGED part
    /\ \/ /\ part = "agenda" /\ UNCHANGED <<timesVars, rasterVars>>
          /\ \E a \in Accounts : Sync(a)
       \/ /\ part = "times" /\ UNCHANGED <<agendaVars, rasterVars>>
          /\ TimesStep
       \/ /\ part = "raster" /\ UNCHANGED <<agendaVars, timesVars>>
          /\ Process \/ EncodeDirectly

Spec == Init /\ [][Next]_panelVars

-----------------------------------------------------------------------------
ListedBy(q) == Listed(rows, q.accounts, q.from, q.to)
AgendaOf(table, q) == Agenda(table, q.accounts, q.from, q.to, q.limit)

(* The agenda says who goes where: every event of the chosen accounts is   *)
(* one entry with the markers of exactly the accounts that have it; the    *)
(* entries are in order, and the cap only cuts off what comes last; every  *)
(* day with an entry has one header, the headers are in order, and under a *)
(* header are that day's entries, in the agenda's order ("deduplicated     *)
(* across people").                                                        *)
Having(ids, key) == {rows[n].account : n \in {m \in ids : dedupKey(rows[m].event) = key}}

DateOf(entry) == entry.start \div DayLength

AgendaListsEachOnce ==
    \A q \in Queries :
        LET ids  == ListedBy(q)
            list == AgendaOf(rows, q)
            days == groupByDay(list)
        IN  /\ \A i, j \in DOMAIN list : i < j =>
                  list[i].key # list[j].key /\ ~Before(list[j], list[i])
            /\ \A i \in DOMAIN list :
                  /\ Having(ids, list[i].key) # {}
                  /\ Range(list[i].markers) =
                         {marker[a] : a \in Having(ids, list[i].key)} \ {NULL}
                  /\ Len(list[i].markers) = Cardinality(Range(list[i].markers))
            /\ \A n \in ids :
                  \/ \E i \in DOMAIN list : list[i].key = dedupKey(rows[n].event)
                  \/ /\ q.limit > 0 /\ Len(list) = q.limit
                     /\ ~Before(rows[n].event, list[q.limit])
            /\ \A i \in DOMAIN list : \E d \in DOMAIN days : days[d].date = DateOf(list[i])
            /\ \A d, e \in DOMAIN days : d < e => days[d].date < days[e].date
            /\ \A d \in DOMAIN days : \E first, last \in DOMAIN list :
                  /\ first <= last /\ days[d].items = SubSeq(list, first, last)
                  /\ \A i \in DOMAIN list :
                        DateOf(list[i]) = days[d].date <=> first <= i /\ i <= last

(* A sync that brings nothing new, but gives the account's rows new ids,   *)
(* changes as little as it can: the same titles at the same times in the   *)
(* same order, none pushed out by the cap, and, without a cap, the same    *)
(* markers.  (Two entries of one title and time may change places, and so  *)
(* may the markers of an entry: both follow the ids.)                      *)
RowsOf(a) == {r \in Range(rows) : r.account = a}

Lines(list) == [i \in DOMAIN list |-> <<list[i].title, list[i].start>>]

Entries(list) ==
    {<<list[i].title, list[i].start, Range(list[i].markers)>> : i \in DOMAIN list}

SameAgenda(before, after) ==
    \A q \in Queries :
        LET old == AgendaOf(before, q)
            new == AgendaOf(after, q)
        IN  Lines(old) = Lines(new) /\ (q.limit = 0 => Entries(old) = Entries(new))

AgendaStable ==
    [][\A a \in Accounts, before \in {rows}, after \in {rows'} :
          Sync(a) /\ RowsOf(a)' = RowsOf(a) => SameAgenda(before, after)]_panelVars

(* Every account is synced in time: when the loop wakes next, an account   *)
(* will have been due for less than the other accounts' fetches and the    *)
(* hour that NextWake is at most, however intervals are changed meanwhile  *)
(* ("the loop wakes on the smallest configured interval (clamped) so newly *)
(* added or manually changed accounts are picked up promptly").  An        *)
(* account that a request is syncing anyway is left out.  All this is said *)
(* of a server that can load its accounts (SyncTimes).                     *)
Overdue(a) == IF account[a].new THEN account[a].age ELSE account[a].age - account[a].interval

SyncedInTime ==
    part = "times" /\ loop = "sleeping" /\ timer > 0 =>
        \A a \in Existing \ {forced.id} :
            Overdue(a) + timer < Hour + (Cardinality(Accounts) - 1) * FetchTime

-----------------------------------------------------------------------------
(* What a pixel decides on: its luminance and its share of the errors e of *)
(* the neighbours that it has.                                             *)
Gathers(p, e, i) ==
    LET x == i % p.width
        y == i \div p.width
        at(u, v) == v * p.width + u
    IN  luma8(p, i)
        + (IF x > 0 THEN (7 * e[at(x - 1, y)]) \div 16 ELSE 0)
        + (IF y > 0 /\ x + 1 < p.width THEN (3 * e[at(x + 1, y - 1)]) \div 16 ELSE 0)
        + (IF y > 0 THEN (5 * e[at(x, y - 1)]) \div 16 ELSE 0)
        + (IF y > 0 /\ x > 0 THEN e[at(x - 1, y - 1)] \div 16 ELSE 0)

(* The error of a pixel, defined by those of the pixels before it. *)
Errors(p) ==
    LET error[i \in Area(p)] ==
            LET v == Gathers(p, error, i)
            IN  IF v >= Middle THEN v - White ELSE v
    IN  error

(* The loop that pushes errors forward computes what Floyd and Steinberg   *)
(* define: a pixel is white exactly if its own luminance and the shares of *)
(* its neighbours' errors reach the middle, also along the edges.          *)
ErrorsArrive ==
    mono # Blank /\ source.mode = "floyd_steinberg" =>
        \A i \in Area(source) :
            mono.gray[i] = (IF Gathers(source, Errors(source), i) >= Middle
                            THEN 255 ELSE 0)

(* A reader of the file finds the picture in it: its rows have the least   *)
(* multiple of four bytes that holds them, and the bit that the BMP format *)
(* assigns to a pixel is that pixel of the reduced picture, or, for the    *)
(* placeholder, of the drawn one.                                          *)
BitOf(f, x, y) ==
    LET stride == f.dataSize \div f.height
        byte   == f.data[(f.height - 1 - y) * stride + x \div 8]
    IN  (byte \div 2 ^ (7 - (x % 8))) % 2

FileShowsPicture ==
    file # Blank =>
        LET p == IF mono # Blank THEN mono ELSE source
            stride == file.dataSize \div file.height
        IN  /\ stride % 4 = 0 /\ 8 * stride >= p.width /\ 8 * (stride - 4) < p.width
            /\ file.fileSize = 62 + Cardinality(DOMAIN file.data)
            /\ file.width = p.width /\ file.height = p.height
            /\ \A x \in 0..(p.width - 1), y \in 0..(p.height - 1) :
                  BitOf(file, x, y) = (IF p.gray[y * p.width + x] >= 128 THEN 1 ELSE 0)
=============================================================================
