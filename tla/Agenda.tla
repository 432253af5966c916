------------------------------- MODULE Agenda -------------------------------
(***************************************************************************)
(* What the family calendar shows: the events that calendar.Service has    *)
(* cached for several accounts, merged into one agenda (Agenda, Merge) and *)
(* grouped into days (groupByDay).  An event that several people have in   *)
(* their calendars is one entry with the markers of all of them.           *)
(*                                                                         *)
(* An account is synced again and again, and each time its rows are        *)
(* deleted and inserted with new row ids.  The table is the sequence of    *)
(* its rows by id: a new id is larger than all the others.                 *)
(***************************************************************************)
EXTENDS Integers, Sequences, FiniteSets, Functions

CONSTANTS
    NULL,
    Accounts,     \* account ids
    Titles,       \* titles, numbered in the order of their strings
    Folded,       \* Folded[t]: title t in lower case
    Starts,       \* start times
    DayLength,    \* day n is the times n * DayLength .. (n + 1) * DayLength - 1
    Uids,         \* iCalendar uids
    Markers       \* badges

ASSUME AgendaAssumption ==
    /\ NULL \notin Uids \union Markers
    /\ Titles \subseteq Nat /\ Starts \subseteq Nat
    /\ DayLength \in Nat \ {0}
    /\ Folded \in [Titles -> Titles]

VARIABLES
    calendar,     \* calendar[a]: what a provider answers, in its order
    marker,       \* marker[a]: the account's badge, NULL for none
    rows          \* calendar_events

agendaVars == <<calendar, marker, rows>>

(* uid: NULL for an event without one (an empty string). *)
Event == [uid : Uids \union {NULL}, title : Titles, start : Starts]

Row == [account : Accounts, event : Event]

-----------------------------------------------------------------------------
(* ReplaceCalendarEvents deletes the account's rows, the others stay in    *)
(* their order; INSERT OR IGNORE leaves out a row whose account, uid and   *)
(* start are those of one that is there.                                   *)
Without(a) ==
    LET kept[n \in 0..Len(rows)] ==
            IF n = 0 THEN <<>>
            ELSE IF rows[n].account = a THEN kept[n - 1] ELSE Append(kept[n - 1], rows[n])
    IN  kept[Len(rows)]

InsertOrIgnore(table, row) ==
    IF \E r \in Range(table) :
          /\ r.account = row.account
          /\ r.event.uid = row.event.uid /\ r.event.start = row.event.start
    THEN table ELSE Append(table, row)

ReplaceCalendarEvents(a) ==
    LET table[i \in 0..Len(calendar[a])] ==
            IF i = 0 THEN Without(a)
            ELSE InsertOrIgnore(table[i - 1], [account |-> a, event |-> calendar[a][i]])
    IN  rows' = table[Len(calendar[a])]

(* ListCalendarEvents: from <= start_at < to, of these accounts, or of all;*)
(* the row ids.                                                            *)
Listed(table, accountIDs, from, to) ==
    {n \in DOMAIN table :
        /\ from <= table[n].event.start /\ table[n].event.start < to
        /\ accountIDs = {} \/ table[n].account \in accountIDs}

-----------------------------------------------------------------------------
(* dedupKey; the model's events with equal titles end at the same time.    *)
dedupKey(e) ==
    IF e.uid # NULL THEN [uid |-> e.uid, start |-> e.start]
                    ELSE [title |-> Folded[e.title], start |-> e.start]

(* Merge sorts by start, then by title; its sort is stable, on rows that   *)
(* the query ordered by start, then by id.                                 *)
BugBefore(e, f) == e.start < f.start      \* no title: ties are left to the ids

Before(e, f) == e.start < f.start \/ (e.start = f.start /\ e.title < f.title)

Precedes(table, m, n) ==
    \/ Before(table[m].event, table[n].event)
    \/ ~Before(table[n].event, table[m].event) /\ m < n

Sorted(table, ids) ==
    [k \in 1..Cardinality(ids) |->
        CHOOSE n \in ids : Cardinality({m \in ids : Precedes(table, m, n)}) = k - 1]

addMarkers(dst, m) == IF m = NULL \/ m \in Range(dst) THEN dst ELSE Append(dst, m)

BugDropsMarkers(out, row) ==         \* a duplicate is skipped altogether
    IF \E i \in DOMAIN out : out[i].key = dedupKey(row.event)
    THEN out
    ELSE Append(out, [key |-> dedupKey(row.event), title |-> row.event.title,
                      start |-> row.event.start,
                      markers |-> addMarkers(<<>>, marker[row.account])])

(* An event of a known key adds its account's marker to the entry there is.*)
MergeInto(out, row) ==
    LET k == dedupKey(row.event)
        known == {i \in DOMAIN out : out[i].key = k}
    IN  IF known # {}
        THEN [i \in DOMAIN out |-> IF i \in known
                THEN [out[i] EXCEPT !.markers = addMarkers(@, marker[row.account])]
                ELSE out[i]]
        ELSE Append(out, [key |-> k, title |-> row.event.title,
                          start |-> row.event.start,
                          markers |-> addMarkers(<<>>, marker[row.account])])

Merge(table, ids) ==
    LET out[k \in 0..Cardinality(ids)] ==
            IF k = 0 THEN <<>>
            ELSE MergeInto(out[k - 1], table[Sorted(table, ids)[k]])
    IN  out[Cardinality(ids)]

(* limit = 0: no cap.  The cap counts entries, not events. *)
Agenda(table, accountIDs, from, to, limit) ==
    LET merged == Merge(table, Listed(table, accountIDs, from, to))
    IN  IF limit > 0 /\ Len(merged) > limit THEN SubSeq(merged, 1, limit) ELSE merged

-----------------------------------------------------------------------------
(* groupByDay: a new day begins where the date changes. *)
AddToDays(days, entry) ==
    LET date == entry.start \div DayLength
        n    == Len(days)
    IN  IF n = 0 \/ days[n].date # date
        THEN Append(days, [date |-> date, items |-> <<entry>>])
        ELSE [days EXCEPT ![n].items = Append(@, entry)]

groupByDay(entries) ==
    LET days[n \in 0..Len(entries)] ==
            IF n = 0 THEN <<>> ELSE AddToDays(days[n - 1], entries[n])
    IN  days[Len(entries)]

-----------------------------------------------------------------------------
Sync(a) ==
    /\ ReplaceCalendarEvents(a)
    /\ UNCHANGED <<calendar, marker>>
=============================================================================
