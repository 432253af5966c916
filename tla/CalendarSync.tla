---------------------------- MODULE CalendarSync ----------------------------
(***************************************************************************)
(* calendar.Service: the background loop (runCalendarSync, SyncDue), a     *)
(* sync forced by a request (SyncAccount), and the token that a Google     *)
(* fetch writes back.  The loop and every request are goroutines of their  *)
(* own, so each has a job, and each of its store calls and its fetch is an *)
(* action.  Between two of them the account may be edited, reconnected,    *)
(* deleted, or replaced by another one under the same row id.              *)
(***************************************************************************)
EXTENDS CalendarStore

CONSTANTS
    Loop,         \* the background goroutine
    Workers       \* bound: slots for admin requests that sync

VARIABLES
    job,          \* job[j]: the work in progress of Loop and of each request
    revoked,      \* grants Google no longer honours: expired or revoked
    ops           \* the operations, failures and events the behaviour exercises

Jobs == Workers \union {Loop}

outside == <<revoked, ops>>
syncVars == <<job, outside>>

(* todo: the accounts still to sync, each with the configuration this job  *)
(* read, or NULL.  id, cfg, msg: the account being synced, its             *)
(* configuration as read, the message to record.                           *)
JobRow == [pc : {"idle", "fetch", "persist", "replace", "record",
                 "load", "connect", "save"},
           todo : [Accounts -> Config \union {NULL}],
           id : Accounts \union {NULL}, cfg : Config \union {NULL},
           msg : {"none", "failed", "reconnect"}]

Nothing == [a \in Accounts |-> NULL]

NoJob == [pc |-> "idle", todo |-> Nothing, id |-> NULL, cfg |-> NULL, msg |-> "none"]

SyncTypeOK == job \in [Jobs -> JobRow] /\ revoked \in SUBSET Grants

Becomes(j, row) == job' = [job EXCEPT ![j] = row]

-----------------------------------------------------------------------------
(* Accounts decrypts every row; one that cannot be decrypted is an error.  *)
AllReadable == \A a \in Accounts : accounts[a] # NULL => accounts[a].readable

Due(a) == accounts[a] # NULL /\ ~accounts[a].fresh

(* The loop wakes up and lists the accounts that are due.  A pass that     *)
(* fails to list them, or finds none, does nothing.                        *)
SyncDue(j) ==
    /\ job[j] = NoJob
    /\ j = Loop
    /\ AllReadable
    /\ \E a \in Accounts : Due(a)
    /\ Becomes(j, [NoJob EXCEPT !.pc = "fetch",
          !.todo = [a \in Accounts |->
              IF Due(a) THEN ParsedConfig(accounts[a]) ELSE NULL]])
    /\ UNCHANGED <<calendarVars, outside>>

(* SyncAccount: reads the one account again. *)
LoadAccount(j) ==
    LET a == job[j].id IN
    /\ job[j].pc = "load"
    /\ IF accounts[a] # NULL /\ accounts[a].readable
       THEN Becomes(j, [NoJob EXCEPT !.pc = "fetch",
                                     !.todo[a] = ParsedConfig(accounts[a])])
       ELSE Becomes(j, NoJob)
    /\ UNCHANGED <<calendarVars, outside>>

(* CalDAV needs a user name and a password.  Google needs the OAuth client *)
(* row and a grant; no refresh token at all is an error of the library.    *)
CanFetch(cfg) ==
    \/ cfg.kind = "caldav" /\ cfg.email # NULL
    \/ cfg.kind = "google" /\ cfg.client \in clients
                           /\ cfg.grant # NULL /\ cfg.grant \notin revoked

(* IsReauthRequired: Google answered invalid_grant. *)
FetchError(cfg) ==
    IF cfg.kind = "google" /\ cfg.client \in clients /\ cfg.grant \in revoked
    THEN "reconnect" ELSE "failed"

(* newSource and Fetch, for the next account of the list. *)
Fetch(j) ==
    /\ job[j].pc = "fetch"
    /\ \E a \in Accounts :
          LET cfg  == job[j].todo[a]
              next == [job[j] EXCEPT !.id = a, !.cfg = cfg, !.todo[a] = NULL]
          IN  /\ cfg # NULL
              /\ IF CanFetch(cfg)
                 THEN Becomes(j, [next EXCEPT !.msg = "none",
                         !.pc = IF cfg.kind = "google" THEN "persist" ELSE "replace"])
                 ELSE Becomes(j, [next EXCEPT !.pc = "record", !.msg = FetchError(cfg)])
    /\ UNCHANGED <<calendarVars, outside>>

FetchFails(j) ==                     \* the network, or the provider
    /\ job[j].pc = "fetch"
    /\ "fetch.fail" \in ops
    /\ \E a \in Accounts :
          /\ job[j].todo[a] # NULL
          /\ Becomes(j, [job[j] EXCEPT !.id = a, !.cfg = job[j].todo[a],
                            !.todo[a] = NULL, !.pc = "record", !.msg = "failed"])
    /\ UNCHANGED <<calendarVars, outside>>

(* persistToken: if the access token was refreshed meanwhile, which Google *)
(* does every hour, the configuration read before the fetch is written     *)
(* back as a whole, with the new access token in it.                       *)
PersistToken(j) ==
    LET w == job[j] IN
    /\ w.pc = "persist"
    /\ \/ "token.refresh" \in ops /\ SetCalendarAccountConfig(w.id, w.cfg)
       \/ UNCHANGED accounts
    /\ Becomes(j, [w EXCEPT !.pc = "replace"])
    /\ UNCHANGED <<events, clients, outside>>

ReplaceEvents(j) ==
    LET w == job[j] IN
    /\ w.pc = "replace"
    /\ ReplaceCalendarEvents(w.id, EventsOf(w.cfg))
    /\ Becomes(j, [w EXCEPT !.pc = "record",
                            !.msg = IF accounts[w.id] = NULL THEN "failed" ELSE "none"])
    /\ UNCHANGED <<accounts, clients, outside>>

BugStopsAtError(j) ==                \* SyncDue returns at the first error
    LET w == job[j] IN
    /\ w.pc = "record"
    /\ SetCalendarAccountSync(w.id, w.msg)
    /\ Becomes(j, IF w.todo = Nothing \/ w.msg # "none" THEN NoJob
                  ELSE [NoJob EXCEPT !.pc = "fetch", !.todo = w.todo])
    /\ UNCHANGED <<events, clients, outside>>

(* runSync records the outcome; then comes the next account of the list.   *)
RecordSync(j) ==
    LET w == job[j] IN
    /\ w.pc = "record"
    /\ SetCalendarAccountSync(w.id, w.msg)
    /\ Becomes(j, IF w.todo = Nothing THEN NoJob
                  ELSE [NoJob EXCEPT !.pc = "fetch", !.todo = w.todo])
    /\ UNCHANGED <<events, clients, outside>>

SyncStep(j) ==
    \/ LoadAccount(j) \/ Fetch(j) \/ FetchFails(j)
    \/ PersistToken(j) \/ ReplaceEvents(j) \/ RecordSync(j)

-----------------------------------------------------------------------------
(* Google stops honouring a grant: seven days have passed in "Testing"     *)
(* status, or the user revoked the access.                                 *)
Revoke(g) ==
    /\ "grant.revoke" \in ops
    /\ revoked' = revoked \union {g}
    /\ UNCHANGED <<calendarVars, job, ops>>

(* Time passes. *)
ExpireSync(a) ==
    /\ ExpireAccount(a)
    /\ UNCHANGED <<events, clients, syncVars>>
=============================================================================
