----------------------------- MODULE SyncTimes ------------------------------
(***************************************************************************)
(* When the accounts are synced: runCalendarSync sleeps for NextWake and   *)
(* then syncs the accounts that are due, one after the other, while the    *)
(* administrator adds accounts and changes their intervals.  Time is       *)
(* counted in ticks; an account's age is the time since its last_sync,     *)
(* which is the time at which the pass that synced it began.               *)
(*                                                                         *)
(* Fetches are assumed to end within FetchTime.  For a CalDAV fetch the    *)
(* client's timeout of 20 s sees to that; a Google fetch has no timeout.   *)
(* And the accounts are assumed to load: when Accounts fails, SyncDue      *)
(* syncs none of them, and NextWake is a quarter of an hour.               *)
(***************************************************************************)
EXTENDS Agenda

CONSTANTS
    Minute, Quarter, Hour,   \* in ticks
    Intervals,               \* refresh intervals, whole hours
    FetchTime,               \* the longest fetch
    Downtime                 \* bound: the age of an account at the start

ASSUME TimesAssumption ==
    /\ Minute \in Nat /\ Quarter \in Nat \ {0} /\ FetchTime \in Nat
    /\ Hour \in Nat /\ Minute <= Quarter /\ Quarter <= Hour
    /\ \A i \in Intervals : i \in Nat /\ i >= Hour
    /\ Downtime \in Nat
    /\ FetchTime < Hour            \* 20 s; Intervals are hours
    /\ IsFiniteSet(Accounts) /\ NULL \notin Accounts

VARIABLES
    account,      \* account[a]: interval and age, or NULL
    loop,         \* "sleeping" or "passing"
    timer,        \* ticks until the timer fires
    todo,         \* the accounts this pass has still to sync
    passed,       \* ticks since this pass began
    fetching,     \* ticks since its current fetch began
    forced        \* a request's sync: the account, and ticks since it began

timesVars == <<account, loop, timer, todo, passed, fetching, forced>>

NotForced == [id |-> NULL, age |-> 0]

(* A new account has no last_sync: it is due whatever its age. *)
TimesRow == [interval : Intervals, age : Nat, new : BOOLEAN]

Existing == {a \in Accounts : account[a] # NULL}

due(a) == account[a].new \/ account[a].age >= account[a].interval

-----------------------------------------------------------------------------
MinOf(S) == CHOOSE x \in S : \A y \in S : x <= y

BugNotClamped(intervals) ==          \* as long as the smallest interval
    IF intervals = {} THEN Quarter ELSE MinOf(intervals)

(* The smallest interval, between a minute and an hour. *)
NextWake(intervals) ==
    IF intervals = {} THEN Quarter
    ELSE LET smallest == MinOf(intervals)
         IN  IF smallest < Minute THEN Minute
             ELSE IF smallest > Hour THEN Hour ELSE smallest

Sleeps ==
    /\ loop' = "sleeping"
    /\ timer' = NextWake({account'[a].interval : a \in {b \in Accounts : account'[b] # NULL}})

(* SyncDue: the accounts due now are synced, each recorded with this time. *)
WakeUp ==
    /\ loop = "sleeping" /\ timer = 0
    /\ todo' = {a \in Existing : due(a)}
    /\ passed' = 0 /\ fetching' = 0
    /\ UNCHANGED <<account, forced>>
    /\ IF todo' = {} THEN Sleeps ELSE loop' = "passing" /\ UNCHANGED timer

Synced(a, age) ==
    account' = [account EXCEPT ![a] =
        IF @ = NULL THEN NULL ELSE [@ EXCEPT !.age = age, !.new = FALSE]]

PassSyncs(a) ==
    /\ loop = "passing"
    /\ a \in todo
    /\ Synced(a, passed)
    /\ todo' = todo \ {a}
    /\ fetching' = 0
    /\ UNCHANGED <<passed, forced>>
    /\ IF todo' = {} THEN Sleeps ELSE UNCHANGED <<loop, timer>>

(* Nothing that is to happen at once lets time pass. *)
Tick ==
    /\ loop = "sleeping" => timer > 0
    /\ loop = "passing" => fetching < FetchTime
    /\ forced.id # NULL => forced.age < FetchTime
    /\ account' = [a \in Accounts |-> IF a \in Existing
                      THEN [account[a] EXCEPT !.age = @ + 1] ELSE NULL]
    /\ IF loop = "sleeping" THEN timer' = timer - 1 /\ UNCHANGED <<passed, fetching>>
       ELSE passed' = passed + 1 /\ fetching' = fetching + 1 /\ UNCHANGED timer
    /\ forced' = IF forced.id = NULL THEN forced ELSE [forced EXCEPT !.age = @ + 1]
    /\ UNCHANGED <<loop, todo>>

-----------------------------------------------------------------------------
Forces(a) == forced.id = NULL /\ forced' = [id |-> a, age |-> 0]

(* CalendarCalDAVCreate, CalendarGoogleCallback: added, then synced. *)
AddAccount(a) ==
    /\ account[a] = NULL
    /\ \E i \in Intervals :
          account' = [account EXCEPT ![a] = [interval |-> i, age |-> 0, new |-> TRUE]]
    /\ Forces(a)
    /\ UNCHANGED <<loop, timer, todo, passed, fetching>>

(* CalendarAccountUpdate: changed, then synced. *)
ChangeInterval(a) ==
    /\ a \in Existing
    /\ \E i \in Intervals : account' = [account EXCEPT ![a].interval = i]
    /\ Forces(a)
    /\ UNCHANGED <<loop, timer, todo, passed, fetching>>

RemoveAccount(a) ==
    /\ a \in Existing
    /\ account' = [account EXCEPT ![a] = NULL]
    /\ UNCHANGED <<loop, timer, todo, passed, fetching, forced>>

ForcedEnds ==
    /\ forced.id # NULL
    /\ Synced(forced.id, forced.age)
    /\ forced' = NotForced
    /\ UNCHANGED <<loop, timer, todo, passed, fetching>>

TimesStep ==
    \/ WakeUp \/ Tick \/ ForcedEnds
    \/ \E a \in Accounts :
          PassSyncs(a) \/ AddAccount(a) \/ ChangeInterval(a) \/ RemoveAccount(a)

(* The server starts, after any time of not running: the first pass is now.*)
TimesInit ==
    /\ account \in [Accounts -> {NULL} \union
                       [interval : Intervals, age : 0..Downtime, new : BOOLEAN]]
    /\ loop = "sleeping" /\ timer = 0
    /\ todo = {} /\ passed = 0 /\ fetching = 0
    /\ forced = NotForced
=============================================================================
