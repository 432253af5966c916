--------------------------- MODULE CalendarProofs ---------------------------
(***************************************************************************)
(* The safety of the calendar, for any number of accounts, requests,       *)
(* consent flows and mailboxes.                                            *)
(*                                                                         *)
(* That the state is well typed is not inductive: a job that is about to   *)
(* write must have read what it writes.  That an account holds a grant of  *)
(* its own address is not inductive either: jobs carry configurations that *)
(* they have read and write them back later, maybe into a row that has     *)
(* been deleted and created again since.  So the invariant is about every  *)
(* configuration, stored or carried.                                       *)
(***************************************************************************)
EXTENDS Calendar, TLAPS

StoreInv ==
    /\ CalendarStoreTypeOK
    /\ \A a \in Accounts : accounts[a] # NULL => Owned(accounts[a].cfg)

(* What a job has read fits the step it is at. *)
CarriesWell(w) ==
    /\ w.pc \in {"persist", "replace", "record", "load", "connect", "save"}
           => w.id \in Accounts
    /\ w.pc \in {"persist", "replace", "connect", "save"} => w.cfg \in Config
    /\ w.pc \in {"persist", "replace"} => w.cfg.email \in Emails
    /\ w.pc = "connect" => w.cfg.grant \in Grants
    /\ w.pc \in {"persist", "replace", "save"} => Owned(w.cfg)
    /\ \A a \in Accounts : w.todo[a] # NULL => Owned(w.todo[a])

JobsInv == job \in [Jobs -> JobRow] /\ \A j \in Jobs : CarriesWell(job[j])

(* What the cookie says is what the flow of its nonce asked for. *)
FlowsInv ==
    /\ FlowsTypeOK
    /\ cookie # NULL => /\ flows[cookie.nonce] # NULL
                        /\ flows[cookie.nonce].client = cookie.client
                        /\ flows[cookie.nonce].account = cookie.account

OutsideInv == revoked \in SUBSET Grants /\ ops \in {s.ops : s \in Scenarios}

CalendarInv == StoreInv /\ JobsInv /\ FlowsInv /\ OutsideInv

-----------------------------------------------------------------------------
(* Lemmas about configurations and jobs. *)

LEMMA NullIsNoRow == NULL \notin AccountRow /\ NULL \notin EventSet /\ NULL \notin Config
BY CalendarNullAssumption

LEMMA BlankConfigType ==
    ASSUME NEW kind \in {"google", "caldav"}
    PROVE  BlankConfig(kind) \in Config /\ BlankConfig(kind).grant = NULL
BY CalendarStoreAssumption DEF BlankConfig, Config

(* The configuration read from a row is well typed, and its owner's if the *)
(* stored one is.                                                          *)
LEMMA ParsedConfigType ==
    ASSUME NEW row \in AccountRow
    PROVE  /\ ParsedConfig(row) \in Config
           /\ Owned(row.cfg) => Owned(ParsedConfig(row))
<1>1. row.cfg \in Config /\ row.provider \in {"google", "caldav"}
    BY DEF AccountRow
<1> QED
    BY <1>1, BlankConfigType DEF ParsedConfig, Owned

LEMMA AccountAt ==
    ASSUME StoreInv, NEW a \in Accounts, accounts[a] # NULL
    PROVE  /\ accounts[a] \in AccountRow
           /\ ParsedConfig(accounts[a]) \in Config
           /\ Owned(ParsedConfig(accounts[a]))
<1>1. accounts[a] \in AccountRow /\ Owned(accounts[a].cfg)
    BY DEF StoreInv, CalendarStoreTypeOK
<1> QED
    BY <1>1, ParsedConfigType

LEMMA NoJobType == NoJob \in JobRow /\ CarriesWell(NoJob)
BY DEF NoJob, JobRow, Nothing, CarriesWell

(* A job moves on. *)
LEMMA Moves ==
    ASSUME JobsInv, NEW j \in Jobs, NEW row \in JobRow, CarriesWell(row), Becomes(j, row)
    PROVE  JobsInv'
<1>1. job' = [job EXCEPT ![j] = row] /\ job \in [Jobs -> JobRow]
    BY DEF Becomes, JobsInv
<1>2. job' \in [Jobs -> JobRow]
    BY <1>1
<1>3. \A i \in Jobs : CarriesWell(job[i])'
    BY <1>1 DEF JobsInv, CarriesWell
<1> QED
    BY <1>2, <1>3 DEF JobsInv

LEMMA NoJobMoves ==
    ASSUME JobsInv, NEW j \in Jobs, Becomes(j, NoJob)
    PROVE  JobsInv'
BY Moves, NoJobType

-----------------------------------------------------------------------------
(* Lemmas about the store. *)

LEMMA StoreSame ==
    ASSUME StoreInv, UNCHANGED calendarVars
    PROVE  StoreInv'
BY DEF StoreInv, calendarVars, CalendarStoreTypeOK, Owned

(* A row is written: an update of a row that is gone changes nothing.      *)
LEMMA UpdateKeeps ==
    ASSUME StoreInv, NEW a \in Accounts, NEW row, UpdateAccountRow(a, row),
           accounts[a] # NULL => row \in AccountRow /\ Owned(row.cfg),
           UNCHANGED <<events, clients>>
    PROVE  StoreInv'
<1>1. CASE accounts[a] = NULL
    BY <1>1, StoreSame DEF UpdateAccountRow, calendarVars
<1>2. CASE accounts[a] # NULL
    <2>1. accounts' = [accounts EXCEPT ![a] = row] /\ row \in AccountRow /\ Owned(row.cfg)
        BY <1>2 DEF UpdateAccountRow
    <2>2. CalendarStoreTypeOK'
        BY <2>1 DEF StoreInv, CalendarStoreTypeOK
    <2>3. ASSUME NEW b \in Accounts, accounts'[b] # NULL
          PROVE  Owned(accounts'[b].cfg)
        BY <2>1, <2>3 DEF StoreInv, CalendarStoreTypeOK
    <2>4. \A b \in Accounts : accounts'[b] # NULL => Owned(accounts[b].cfg)'
        BY <2>3 DEF Owned
    <2> QED
        BY <2>2, <2>4 DEF StoreInv
<1> QED
    BY <1>1, <1>2

LEMMA SetConfigKeeps ==
    ASSUME StoreInv, NEW a \in Accounts, NEW cfg \in Config, Owned(cfg),
           SetCalendarAccountConfig(a, cfg), UNCHANGED <<events, clients>>
    PROVE  StoreInv'
<1> DEFINE row == [accounts[a] EXCEPT !.cfg = cfg, !.readable = TRUE]
<1>1. ASSUME accounts[a] # NULL PROVE row \in AccountRow /\ Owned(row.cfg)
    <2>1. accounts[a] \in AccountRow
        BY <1>1, AccountAt
    <2>2. row \in AccountRow /\ row.cfg = cfg
        BY <2>1 DEF AccountRow
    <2> QED
        BY <2>2
<1>2. UpdateAccountRow(a, row)
    BY DEF SetCalendarAccountConfig
<1> HIDE DEF row
<1> QED
    BY <1>1, <1>2, UpdateKeeps

LEMMA SetSyncKeeps ==
    ASSUME StoreInv, NEW a \in Accounts, NEW msg \in {"none", "failed", "reconnect"},
           SetCalendarAccountSync(a, msg), UNCHANGED <<events, clients>>
    PROVE  StoreInv'
<1> DEFINE row == [accounts[a] EXCEPT !.fresh = TRUE, !.error = msg]
<1>1. ASSUME accounts[a] # NULL PROVE row \in AccountRow /\ Owned(row.cfg)
    <2>1. accounts[a] \in AccountRow /\ Owned(accounts[a].cfg)
        BY <1>1, AccountAt DEF StoreInv
    <2>2. row \in AccountRow /\ row.cfg = accounts[a].cfg
        BY <2>1 DEF AccountRow
    <2> QED
        BY <2>1, <2>2
<1>2. UpdateAccountRow(a, row)
    BY DEF SetCalendarAccountSync
<1> HIDE DEF row
<1> QED
    BY <1>1, <1>2, UpdateKeeps

LEMMA CreateKeeps ==
    ASSUME StoreInv, NEW a \in Accounts, NEW cfg \in Config, Owned(cfg),
           CreateCalendarAccount(a, cfg), UNCHANGED <<events, clients>>
    PROVE  StoreInv'
<1> DEFINE row == [provider |-> cfg.kind, cfg |-> cfg, fresh |-> FALSE,
                   error |-> "none", readable |-> TRUE]
<1>1. row \in AccountRow /\ row.cfg = cfg
    BY DEF AccountRow, Config
<1>2. accounts' = [accounts EXCEPT ![a] = row]
    BY DEF CreateCalendarAccount
<1> HIDE DEF row
<1>3. CalendarStoreTypeOK'
    BY <1>1, <1>2 DEF StoreInv, CalendarStoreTypeOK
<1>4. \A b \in Accounts : accounts'[b] # NULL => Owned(accounts[b].cfg)'
    BY <1>1, <1>2 DEF StoreInv, CalendarStoreTypeOK, Owned
<1> QED
    BY <1>3, <1>4 DEF StoreInv

LEMMA DeleteKeeps ==
    ASSUME StoreInv, NEW a \in Accounts, DeleteCalendarAccount(a), UNCHANGED clients
    PROVE  StoreInv'
BY DEF StoreInv, DeleteCalendarAccount, CalendarStoreTypeOK, Owned

LEMMA ReplaceKeeps ==
    ASSUME StoreInv, NEW a \in Accounts, NEW evs \in EventSet,
           ReplaceCalendarEvents(a, evs), UNCHANGED <<accounts, clients>>
    PROVE  StoreInv'
BY DEF StoreInv, ReplaceCalendarEvents, CalendarStoreTypeOK, Owned

-----------------------------------------------------------------------------
(* The steps of a sync. *)

LEMMA JobAt ==
    ASSUME JobsInv, NEW j \in Jobs
    PROVE  job[j] \in JobRow /\ CarriesWell(job[j])
BY DEF JobsInv

(* A pass lists configurations of the accounts it found. *)
LEMMA TodoRow ==
    ASSUME NEW todo \in [Accounts -> Config \union {NULL}],
           \A a \in Accounts : todo[a] # NULL => Owned(todo[a])
    PROVE  LET row == [NoJob EXCEPT !.pc = "fetch", !.todo = todo]
           IN  row \in JobRow /\ CarriesWell(row)
BY DEF NoJob, JobRow, CarriesWell

LEMMA SyncDueKeeps ==
    ASSUME CalendarInv, NEW j \in Jobs, SyncDue(j)
    PROVE  StoreInv' /\ JobsInv'
<1> DEFINE todo == [a \in Accounts |->
                       IF Due(a) THEN ParsedConfig(accounts[a]) ELSE NULL]
<1>1. \A a \in Accounts : Due(a) => /\ ParsedConfig(accounts[a]) \in Config
                                    /\ Owned(ParsedConfig(accounts[a]))
    BY AccountAt DEF Due, CalendarInv
<1>2. /\ todo \in [Accounts -> Config \union {NULL}]
      /\ \A a \in Accounts : todo[a] # NULL => Owned(todo[a])
    BY <1>1
<1>3. Becomes(j, [NoJob EXCEPT !.pc = "fetch", !.todo = todo])
    BY DEF SyncDue
<1> HIDE DEF todo
<1>4. JobsInv'
    BY <1>2, <1>3, TodoRow, Moves DEF CalendarInv
<1> QED
    BY <1>4, StoreSame DEF SyncDue, CalendarInv

LEMMA LoadAccountKeeps ==
    ASSUME CalendarInv, NEW j \in Jobs, LoadAccount(j)
    PROVE  StoreInv' /\ JobsInv'
<1> DEFINE a == job[j].id
<1>1. a \in Accounts
    BY JobAt DEF LoadAccount, CarriesWell, CalendarInv
<1>2. JobsInv'
    <2>1. CASE accounts[a] # NULL /\ accounts[a].readable
        <3> DEFINE todo == [Nothing EXCEPT ![a] = ParsedConfig(accounts[a])]
        <3>1. ParsedConfig(accounts[a]) \in Config /\ Owned(ParsedConfig(accounts[a]))
            BY <1>1, <2>1, AccountAt DEF CalendarInv
        <3>2. /\ todo \in [Accounts -> Config \union {NULL}]
              /\ \A b \in Accounts : todo[b] # NULL => Owned(todo[b])
            BY <1>1, <3>1 DEF Nothing
        <3>3. Becomes(j, [NoJob EXCEPT !.pc = "fetch", !.todo[a] = ParsedConfig(accounts[a])])
            BY <2>1 DEF LoadAccount
        <3>4. [NoJob EXCEPT !.pc = "fetch", !.todo[a] = ParsedConfig(accounts[a])]
                  = [NoJob EXCEPT !.pc = "fetch", !.todo = todo]
            BY DEF NoJob
        <3>5. Becomes(j, [NoJob EXCEPT !.pc = "fetch", !.todo = todo])
            BY <3>3, <3>4 DEF Becomes
        <3> HIDE DEF todo
        <3> QED
            BY <3>2, <3>5, TodoRow, Moves DEF CalendarInv
    <2>2. CASE ~(accounts[a] # NULL /\ accounts[a].readable)
        BY <2>2, NoJobMoves DEF LoadAccount, CalendarInv
    <2> QED
        BY <2>1, <2>2
<1> QED
    BY <1>2, StoreSame DEF LoadAccount, CalendarInv

LEMMA FetchErrorType ==
    ASSUME NEW cfg
    PROVE  FetchError(cfg) \in {"none", "failed", "reconnect"}
BY DEF FetchError

(* A configuration that can be fetched has an address. *)
LEMMA FetchableHasEmail ==
    ASSUME NEW cfg \in Config, Owned(cfg), CanFetch(cfg)
    PROVE  cfg.email \in Emails
BY CalendarStoreAssumption DEF Config, Owned, CanFetch

(* The row of a job that has fetched account a, or failed to. *)
LEMMA FetchedRow ==
    ASSUME JobsInv, NEW j \in Jobs, NEW a \in Accounts, job[j].todo[a] # NULL,
           NEW pc \in {"persist", "replace", "record"},
           NEW msg \in {"none", "failed", "reconnect"},
           pc # "record" => CanFetch(job[j].todo[a])
    PROVE  LET row == [job[j] EXCEPT !.id = a, !.cfg = job[j].todo[a],
                                     !.todo[a] = NULL, !.pc = pc, !.msg = msg]
           IN  row \in JobRow /\ CarriesWell(row)
<1> DEFINE cfg == job[j].todo[a]
           row == [job[j] EXCEPT !.id = a, !.cfg = cfg, !.todo[a] = NULL,
                                 !.pc = pc, !.msg = msg]
<1>1. job[j] \in JobRow /\ CarriesWell(job[j])
    BY JobAt
<1>2. cfg \in Config /\ Owned(cfg)
    BY <1>1 DEF JobRow, CarriesWell
<1>3. /\ row \in JobRow
      /\ row.id = a /\ row.cfg = cfg /\ row.pc = pc
      /\ \A b \in Accounts : row.todo[b] # NULL => Owned(row.todo[b])
    BY <1>1, <1>2 DEF JobRow, CarriesWell
<1>4. pc # "record" => cfg.email \in Emails
    BY <1>2, FetchableHasEmail
<1> HIDE DEF row, cfg
<1>5. CarriesWell(row)
    BY <1>2, <1>3, <1>4 DEF CarriesWell
<1> QED
    BY <1>3, <1>5 DEF row, cfg

LEMMA FetchKeeps ==
    ASSUME CalendarInv, NEW j \in Jobs, Fetch(j) \/ FetchFails(j)
    PROVE  StoreInv' /\ JobsInv'
<1>1. StoreInv'
    BY StoreSame DEF Fetch, FetchFails, CalendarInv
<1>2. CASE Fetch(j)
    <2>1. PICK a \in Accounts :
            LET cfg  == job[j].todo[a]
                next == [job[j] EXCEPT !.id = a, !.cfg = cfg, !.todo[a] = NULL]
            IN  /\ cfg # NULL
                /\ IF CanFetch(cfg)
                   THEN Becomes(j, [next EXCEPT !.msg = "none",
                           !.pc = IF cfg.kind = "google" THEN "persist" ELSE "replace"])
                   ELSE Becomes(j, [next EXCEPT !.pc = "record", !.msg = FetchError(cfg)])
        BY <1>2 DEF Fetch
    <2> DEFINE row(pc, msg) == [job[j] EXCEPT !.id = a, !.cfg = job[j].todo[a],
                                     !.todo[a] = NULL, !.pc = pc, !.msg = msg]
    <2> DEFINE cfg == job[j].todo[a]
               next == [job[j] EXCEPT !.id = a, !.cfg = cfg, !.todo[a] = NULL]
    <2>2. job[j] \in JobRow
        BY JobAt DEF CalendarInv
    <2>3. \A pc, msg : row(pc, msg) = [next EXCEPT !.msg = msg, !.pc = pc]
        BY <2>2 DEF JobRow
    <2>4. \A pc, msg : row(pc, msg) = [next EXCEPT !.pc = pc, !.msg = msg]
        BY <2>2 DEF JobRow
    <2> HIDE DEF row
    <2>5. /\ cfg # NULL
          /\ IF CanFetch(cfg)
             THEN Becomes(j, row(IF cfg.kind = "google" THEN "persist" ELSE "replace", "none"))
             ELSE Becomes(j, row("record", FetchError(cfg)))
        <3>1. /\ cfg # NULL
              /\ IF CanFetch(cfg)
                 THEN Becomes(j, [next EXCEPT !.msg = "none",
                         !.pc = IF cfg.kind = "google" THEN "persist" ELSE "replace"])
                 ELSE Becomes(j, [next EXCEPT !.pc = "record", !.msg = FetchError(cfg)])
            BY <2>1
        <3> HIDE DEF next, cfg
        <3> QED
            BY <2>3, <2>4, <3>1
    <2> HIDE DEF next, cfg
    <2>6. PICK pc \in {"persist", "replace", "record"},
               msg \in {"none", "failed", "reconnect"} :
               /\ pc # "record" => CanFetch(cfg)
               /\ Becomes(j, row(pc, msg))
        BY <2>5, FetchErrorType
    <2>7. row(pc, msg) \in JobRow /\ CarriesWell(row(pc, msg))
        BY <2>5, <2>6, FetchedRow DEF CalendarInv, row, cfg
    <2> QED
        BY <1>1, <2>6, <2>7, Moves DEF CalendarInv
<1>3. CASE FetchFails(j)
    <2>1. PICK a \in Accounts :
            /\ job[j].todo[a] # NULL
            /\ Becomes(j, [job[j] EXCEPT !.id = a, !.cfg = job[j].todo[a],
                              !.todo[a] = NULL, !.pc = "record", !.msg = "failed"])
        BY <1>3 DEF FetchFails
    <2> DEFINE row == [job[j] EXCEPT !.id = a, !.cfg = job[j].todo[a],
                              !.todo[a] = NULL, !.pc = "record", !.msg = "failed"]
    <2>2. row \in JobRow /\ CarriesWell(row)
        BY <2>1, FetchedRow DEF CalendarInv
    <2>3. Becomes(j, row)
        BY <2>1
    <2> HIDE DEF row
    <2> QED
        BY <1>1, <2>2, <2>3, Moves DEF CalendarInv
<1> QED
    BY <1>2, <1>3

LEMMA PersistTokenKeeps ==
    ASSUME CalendarInv, NEW j \in Jobs, PersistToken(j)
    PROVE  StoreInv' /\ JobsInv'
<1> DEFINE w == job[j]
           row == [w EXCEPT !.pc = "replace"]
<1>1. /\ w \in JobRow /\ CarriesWell(w) /\ w.pc = "persist"
      /\ w.id \in Accounts /\ w.cfg \in Config /\ Owned(w.cfg)
    BY JobAt DEF PersistToken, CarriesWell, CalendarInv
<1>2. StoreInv'
    <2>1. CASE SetCalendarAccountConfig(w.id, w.cfg)
        BY <1>1, <2>1, SetConfigKeeps DEF PersistToken, CalendarInv
    <2>2. CASE UNCHANGED accounts
        BY <2>2, StoreSame DEF PersistToken, CalendarInv, calendarVars
    <2> QED
        BY <2>1, <2>2 DEF PersistToken
<1>3. row \in JobRow /\ CarriesWell(row)
    BY <1>1 DEF JobRow, CarriesWell
<1>4. Becomes(j, row)
    BY DEF PersistToken
<1> HIDE DEF row
<1> QED
    BY <1>2, <1>3, <1>4, Moves DEF CalendarInv

LEMMA ReplaceEventsKeeps ==
    ASSUME CalendarInv, NEW j \in Jobs, ReplaceEvents(j)
    PROVE  StoreInv' /\ JobsInv'
<1> DEFINE w == job[j]
           msg == IF accounts[w.id] = NULL THEN "failed" ELSE "none"
           row == [w EXCEPT !.pc = "record", !.msg = msg]
<1>1. /\ w \in JobRow /\ CarriesWell(w) /\ w.pc = "replace"
      /\ w.id \in Accounts /\ w.cfg \in Config /\ w.cfg.email \in Emails
    BY JobAt DEF ReplaceEvents, CarriesWell, CalendarInv
<1>2. EventsOf(w.cfg) \in EventSet
    BY <1>1 DEF EventsOf, EventSet, Config
<1>3. StoreInv'
    BY <1>1, <1>2, ReplaceKeeps DEF ReplaceEvents, CalendarInv
<1>4. row \in JobRow /\ CarriesWell(row)
    BY <1>1 DEF JobRow, CarriesWell
<1>5. Becomes(j, row)
    BY DEF ReplaceEvents
<1> HIDE DEF row, msg
<1> QED
    BY <1>3, <1>4, <1>5, Moves DEF CalendarInv

LEMMA RecordSyncKeeps ==
    ASSUME CalendarInv, NEW j \in Jobs, RecordSync(j)
    PROVE  StoreInv' /\ JobsInv'
<1> DEFINE w == job[j]
<1>1. /\ w \in JobRow /\ CarriesWell(w) /\ w.pc = "record"
      /\ w.id \in Accounts /\ w.msg \in {"none", "failed", "reconnect"}
      /\ w.todo \in [Accounts -> Config \union {NULL}]
      /\ \A a \in Accounts : w.todo[a] # NULL => Owned(w.todo[a])
    BY JobAt DEF RecordSync, CarriesWell, CalendarInv, JobRow
<1>2. StoreInv'
    BY <1>1, SetSyncKeeps DEF RecordSync, CalendarInv
<1>3. CASE w.todo = Nothing
    BY <1>2, <1>3, NoJobMoves DEF RecordSync, CalendarInv
<1>4. CASE w.todo # Nothing
    <2> DEFINE row == [NoJob EXCEPT !.pc = "fetch", !.todo = w.todo]
    <2>1. row \in JobRow /\ CarriesWell(row)
        BY <1>1, TodoRow
    <2>2. Becomes(j, row)
        BY <1>4 DEF RecordSync
    <2> HIDE DEF row
    <2> QED
        BY <1>2, <2>1, <2>2, Moves DEF CalendarInv
<1> QED
    BY <1>3, <1>4

LEMMA SyncStepKeeps ==
    ASSUME CalendarInv, NEW j \in Jobs, SyncStep(j)
    PROVE  StoreInv' /\ JobsInv'
BY LoadAccountKeeps, FetchKeeps, PersistTokenKeeps, ReplaceEventsKeeps, RecordSyncKeeps
   DEF SyncStep

-----------------------------------------------------------------------------
(* The requests. *)

(* A request that starts to sync the account a. *)
LEMMA LoadRow ==
    ASSUME NEW a \in Accounts
    PROVE  LET row == [NoJob EXCEPT !.pc = "load", !.id = a]
           IN  row \in JobRow /\ CarriesWell(row)
BY DEF NoJob, JobRow, Nothing, CarriesWell

LEMMA LoadMoves ==
    ASSUME JobsInv, NEW j \in Jobs, NEW a \in Accounts,
           Becomes(j, [NoJob EXCEPT !.pc = "load", !.id = a])
    PROVE  JobsInv'
<1> DEFINE row == [NoJob EXCEPT !.pc = "load", !.id = a]
<1>1. row \in JobRow /\ CarriesWell(row) /\ Becomes(j, row)
    BY LoadRow
<1> HIDE DEF row
<1> QED
    BY <1>1, Moves

(* A request that will write the configuration cfg to the account a. *)
LEMMA SaveRow ==
    ASSUME NEW a \in Accounts, NEW cfg \in Config, Owned(cfg)
    PROVE  LET row == [NoJob EXCEPT !.pc = "save", !.id = a, !.cfg = cfg]
           IN  row \in JobRow /\ CarriesWell(row)
BY DEF NoJob, JobRow, Nothing, CarriesWell

LEMMA UpdateRequestKeeps ==
    ASSUME CalendarInv, NEW j \in Jobs, NEW a \in Accounts, CalendarAccountUpdate(j, a)
    PROVE  StoreInv' /\ JobsInv'
<1>1. PICK s \in Selections :
          Becomes(j, [NoJob EXCEPT !.pc = "save", !.id = a,
                        !.cfg = [ParsedConfig(accounts[a]) EXCEPT !.sel = s]])
    BY DEF CalendarAccountUpdate
<1> DEFINE cfg == [ParsedConfig(accounts[a]) EXCEPT !.sel = s]
           row == [NoJob EXCEPT !.pc = "save", !.id = a, !.cfg = cfg]
<1>2. ParsedConfig(accounts[a]) \in Config /\ Owned(ParsedConfig(accounts[a]))
    BY AccountAt DEF CalendarAccountUpdate, Readable, CalendarInv
<1>3. cfg \in Config /\ Owned(cfg)
    BY <1>2 DEF Config, Owned
<1> HIDE DEF cfg
<1>4. row \in JobRow /\ CarriesWell(row)
    BY <1>3, SaveRow
<1>5. Becomes(j, row)
    BY <1>1 DEF cfg
<1> HIDE DEF row
<1>6. JobsInv'
    BY <1>4, <1>5, Moves DEF CalendarInv
<1> QED
    BY <1>6, StoreSame DEF CalendarAccountUpdate, CalendarInv

LEMMA SaveConfigKeeps ==
    ASSUME CalendarInv, NEW j \in Jobs, SaveConfig(j)
    PROVE  StoreInv' /\ JobsInv'
<1>1. job[j].id \in Accounts /\ job[j].cfg \in Config /\ Owned(job[j].cfg)
    BY JobAt DEF SaveConfig, CarriesWell, CalendarInv
<1> QED
    BY <1>1, SetConfigKeeps, LoadMoves DEF SaveConfig, CalendarInv

LEMMA SyncRequestKeeps ==
    ASSUME CalendarInv, NEW j \in Jobs, NEW a \in Accounts, CalendarAccountSync(j, a)
    PROVE  StoreInv' /\ JobsInv'
BY StoreSame, LoadMoves DEF CalendarAccountSync, CalendarInv

LEMMA CalDAVCreateKeeps ==
    ASSUME CalendarInv, NEW j \in Jobs, NEW a \in Accounts, CalendarCalDAVCreate(j, a)
    PROVE  StoreInv' /\ JobsInv'
<1>1. PICK e \in Emails :
          CreateCalendarAccount(a, [BlankConfig("caldav") EXCEPT !.email = e])
    BY DEF CalendarCalDAVCreate
<1> DEFINE cfg == [BlankConfig("caldav") EXCEPT !.email = e]
<1>2. cfg \in Config /\ Owned(cfg)
    BY BlankConfigType DEF Config, Owned
<1>3. CreateCalendarAccount(a, cfg)
    BY <1>1
<1> HIDE DEF cfg
<1> QED
    BY <1>2, <1>3, CreateKeeps, LoadMoves DEF CalendarCalDAVCreate, CalendarInv

LEMMA ClientKeeps ==
    ASSUME StoreInv, NEW k \in Clients, CreateOAuthClient(k) \/ DeleteOAuthClient(k),
           UNCHANGED <<accounts, events>>
    PROVE  StoreInv'
BY DEF StoreInv, CalendarStoreTypeOK, CreateOAuthClient, DeleteOAuthClient, Owned

-----------------------------------------------------------------------------
(* The consent flow. *)

(* The cookie is only ever that of a flow that was started. *)
LEMMA GoogleStartKeeps ==
    ASSUME CalendarInv, NEW n \in Nonces, NEW a \in Accounts \union {NULL},
           NEW k \in Clients, CalendarGoogleStart(n, a, k)
    PROVE  FlowsInv'
<1> DEFINE f == [client |-> k, account |-> a, consents |-> 0]
<1>1. /\ flows' = [flows EXCEPT ![n] = f]
      /\ cookie' = [nonce |-> n, client |-> k, account |-> a]
      /\ flows \in [Nonces -> Flow \union {NULL}]
    BY DEF CalendarGoogleStart, CalendarInv, FlowsInv, FlowsTypeOK
<1>2. f \in Flow /\ f # NULL /\ f.client = k /\ f.account = a
    BY FlowsAssumption DEF Flow
<1> HIDE DEF f
<1>3. FlowsTypeOK'
    BY <1>1, <1>2 DEF FlowsTypeOK, Cookie
<1> QED
    BY <1>1, <1>2, <1>3 DEF FlowsInv

LEMMA CookieClears ==
    ASSUME FlowsInv, cookie' = NULL, UNCHANGED flows
    PROVE  FlowsInv'
BY DEF FlowsInv, FlowsTypeOK

(* A consent leaves what the flow asked for as it was. *)
LEMMA ConsentKeeps ==
    ASSUME FlowsInv, NEW n \in Nonces, flows[n] # NULL, Consents(n)
    PROVE  FlowsInv'
<1> DEFINE f == [flows[n] EXCEPT !.consents = @ + 1]
<1>1. flows \in [Nonces -> Flow \union {NULL}] /\ flows[n] \in Flow
    BY DEF FlowsInv, FlowsTypeOK
<1>2. flows[n].consents + 1 \in 0..MaxConsents
    <2>1. flows[n].consents \in 0..MaxConsents /\ flows[n].consents < MaxConsents
        BY <1>1 DEF Flow, Consents
    <2> QED
        BY <2>1, FlowsAssumption
<1>3. f \in Flow /\ f.client = flows[n].client /\ f.account = flows[n].account
    BY <1>1, <1>2 DEF Flow
<1>4. flows' = [flows EXCEPT ![n] = f] /\ UNCHANGED cookie
    BY DEF Consents
<1>5. f # NULL
    BY <1>3, FlowsAssumption
<1> HIDE DEF f
<1>6. FlowsTypeOK'
    BY <1>1, <1>3, <1>4 DEF FlowsInv, FlowsTypeOK
<1>7. \A m \in Nonces : /\ flows'[m] = IF m = n THEN f ELSE flows[m]
    BY <1>1, <1>4
<1> QED
    BY <1>3, <1>4, <1>5, <1>6, <1>7 DEF FlowsInv, FlowsTypeOK, Cookie

LEMMA FlowsSame ==
    ASSUME FlowsInv, UNCHANGED flowVars
    PROVE  FlowsInv'
BY DEF FlowsInv, FlowsTypeOK, flowVars

LEMMA ReconnectsKeeps ==
    ASSUME CalendarInv, NEW j \in Jobs, NEW n \in Nonces, NEW g \in Grants,
           CallbackReconnects(j, n, g)
    PROVE  StoreInv' /\ JobsInv'
<1> DEFINE cfg == [BlankConfig("google") EXCEPT !.grant = g]
           row == [NoJob EXCEPT !.pc = "connect", !.id = cookie.account, !.cfg = cfg]
<1>1. cookie.account \in Accounts
    BY DEF CallbackReconnects, CallbackAccepted, CalendarInv, FlowsInv, FlowsTypeOK, Cookie
<1>2. cfg \in Config /\ cfg.grant = g
    BY BlankConfigType DEF Config
<1> HIDE DEF cfg
<1>3. row \in JobRow /\ CarriesWell(row)
    BY <1>1, <1>2 DEF NoJob, JobRow, Nothing, CarriesWell
<1>4. Becomes(j, row)
    BY DEF CallbackReconnects, cfg
<1> HIDE DEF row
<1>5. JobsInv'
    BY <1>3, <1>4, Moves DEF CalendarInv
<1> QED
    BY <1>5, StoreSame DEF CallbackReconnects, CalendarInv

LEMMA CreatesKeeps ==
    ASSUME CalendarInv, NEW j \in Jobs, NEW n \in Nonces, NEW g \in Grants,
           NEW a \in Accounts, CallbackCreates(j, n, g, a)
    PROVE  StoreInv' /\ JobsInv'
<1> DEFINE cfg == [kind |-> "google", email |-> Mailbox[g], client |-> cookie.client,
                   grant |-> g, sel |-> NoSelection]
<1>1. cookie.client \in Clients
    BY DEF CallbackCreates, CallbackAccepted, CalendarInv, FlowsInv, FlowsTypeOK, Cookie
<1>2. cfg \in Config /\ Owned(cfg)
    BY <1>1, CalendarStoreAssumption DEF Config, Owned
<1>3. CreateCalendarAccount(a, cfg)
    BY DEF CallbackCreates
<1> HIDE DEF cfg
<1> QED
    BY <1>2, <1>3, CreateKeeps, LoadMoves DEF CallbackCreates, CalendarInv

(* The address of a grant is compared with that of the account before both *)
(* are carried on together.                                                *)
LEMMA ReauthorizeKeeps ==
    ASSUME CalendarInv, NEW j \in Jobs, ReauthorizeGoogleAccount(j)
    PROVE  StoreInv' /\ JobsInv'
<1> DEFINE w == job[j]
           c == ParsedConfig(accounts[w.id])
           cfg == [c EXCEPT !.grant = w.cfg.grant, !.email = Mailbox[w.cfg.grant]]
           row == [w EXCEPT !.pc = "save", !.cfg = cfg]
<1>1. w \in JobRow /\ CarriesWell(w) /\ w.id \in Accounts /\ w.cfg.grant \in Grants
    BY JobAt DEF ReauthorizeGoogleAccount, CarriesWell, CalendarInv
<1>2. StoreInv'
    BY StoreSame DEF ReauthorizeGoogleAccount, CalendarInv
<1>3. CASE Becomes(j, NoJob)
    BY <1>2, <1>3, NoJobMoves DEF CalendarInv
<1>4. CASE accounts[w.id] # NULL /\ Becomes(j, row)
    <2>1. c \in Config
        BY <1>1, <1>4, AccountAt DEF CalendarInv
    <2>2. cfg \in Config /\ Owned(cfg)
        BY <1>1, <2>1, CalendarStoreAssumption DEF Config, Owned
    <2> HIDE DEF cfg
    <2>3. row \in JobRow /\ CarriesWell(row)
        BY <1>1, <2>2 DEF JobRow, CarriesWell
    <2>4. Becomes(j, row)
        BY <1>4
    <2> HIDE DEF row
    <2> QED
        BY <1>2, <2>3, <2>4, Moves DEF CalendarInv
<1> QED
    BY <1>3, <1>4 DEF ReauthorizeGoogleAccount, Readable

-----------------------------------------------------------------------------
(* The whole system. *)

LEMMA ExpireKeeps ==
    ASSUME StoreInv, NEW a \in Accounts, ExpireAccount(a), UNCHANGED <<events, clients>>
    PROVE  StoreInv'
<1> DEFINE row == [accounts[a] EXCEPT !.fresh = FALSE]
<1>1. accounts[a] \in AccountRow /\ Owned(accounts[a].cfg)
    BY AccountAt DEF ExpireAccount, StoreInv
<1>2. row \in AccountRow /\ row.cfg = accounts[a].cfg
    BY <1>1 DEF AccountRow
<1>3. UpdateAccountRow(a, row)
    BY DEF ExpireAccount, UpdateAccountRow, StoreInv, CalendarStoreTypeOK
<1> HIDE DEF row
<1> QED
    BY <1>1, <1>2, <1>3, UpdateKeeps

LEMMA JobsSame ==
    ASSUME JobsInv, UNCHANGED job
    PROVE  JobsInv'
<1>1. \A j \in Jobs : CarriesWell(job[j])'
    BY DEF JobsInv, CarriesWell
<1> QED
    BY <1>1 DEF JobsInv

LEMMA InitIsInv ==
    ASSUME Init
    PROVE  CalendarInv
<1>1. PICK s \in Scenarios : accounts = s.accounts /\ ops = s.ops
    BY DEF Init
<1>2. /\ accounts \in [Accounts -> AccountRow \union {NULL}]
      /\ \A a \in Accounts : accounts[a] # NULL => Owned(accounts[a].cfg)
    BY <1>1, CalendarAssumption
<1>3. StoreInv
    BY <1>2 DEF Init, StoreInv, CalendarStoreTypeOK
<1>4. JobsInv
    BY NoJobType DEF Init, JobsInv
<1>5. FlowsInv
    BY DEF Init, FlowsInv, FlowsTypeOK
<1>6. OutsideInv
    BY <1>1 DEF Init, OutsideInv
<1> QED
    BY <1>3, <1>4, <1>5, <1>6 DEF CalendarInv

LEMMA CalendarStepKeeps ==
    ASSUME CalendarInv, NEW j \in Jobs, CalendarStep(j)
    PROVE  CalendarInv'
<1>1. StoreInv' /\ JobsInv'
    BY SyncStepKeeps, SaveConfigKeeps, ReauthorizeKeeps DEF CalendarStep
<1>2. FlowsInv'
    BY FlowsSame DEF CalendarStep, SaveConfig, ReauthorizeGoogleAccount, CalendarInv
<1>3. OutsideInv'
    BY DEF CalendarStep, SyncStep, LoadAccount, Fetch, FetchFails, PersistToken,
           ReplaceEvents, RecordSync, SaveConfig, ReauthorizeGoogleAccount,
           outside, OutsideInv, CalendarInv
<1> QED
    BY <1>1, <1>2, <1>3 DEF CalendarInv

LEMMA AccountAdminKeeps ==
    ASSUME CalendarInv, NEW a \in Accounts, AccountAdmin(a)
    PROVE  CalendarInv'
<1>1. CASE CalendarAccountDelete(a)
    BY <1>1, DeleteKeeps, JobsSame, FlowsSame
    DEF CalendarAccountDelete, syncVars, outside, OutsideInv, CalendarInv
<1>2. CASE \E j \in Workers : \/ CalendarAccountUpdate(j, a)
                              \/ CalendarAccountSync(j, a)
                              \/ CalendarCalDAVCreate(j, a)
    <2>1. PICK j \in Jobs : \/ CalendarAccountUpdate(j, a)
                            \/ CalendarAccountSync(j, a)
                            \/ CalendarCalDAVCreate(j, a)
        BY <1>2 DEF Jobs
    <2>2. StoreInv' /\ JobsInv'
        BY <2>1, UpdateRequestKeeps, SyncRequestKeeps, CalDAVCreateKeeps
    <2>3. UNCHANGED <<outside, flowVars>>
        BY <2>1 DEF CalendarAccountUpdate, CalendarAccountSync, CalendarCalDAVCreate
    <2> QED
        BY <2>2, <2>3, FlowsSame DEF outside, OutsideInv, CalendarInv
<1> QED
    BY <1>1, <1>2 DEF AccountAdmin

LEMMA CallbackKeeps ==
    ASSUME CalendarInv, NEW n \in Nonces, CalendarGoogleCallback(n)
    PROVE  CalendarInv'
<1>1. PICK j \in Jobs, g \in Grants :
          \/ CallbackReconnects(j, n, g)
          \/ \E a \in Accounts : CallbackCreates(j, n, g, a)
    BY DEF CalendarGoogleCallback, Jobs
<1>2. StoreInv' /\ JobsInv'
    BY <1>1, ReconnectsKeeps, CreatesKeeps
<1>3. flows[n] # NULL /\ Consents(n) /\ UNCHANGED outside
    BY <1>1 DEF CallbackReconnects, CallbackCreates, CallbackAccepted
<1> QED
    BY <1>2, <1>3, ConsentKeeps DEF outside, OutsideInv, CalendarInv

LEMMA NextKeepsInv ==
    ASSUME CalendarInv, [Next]_calVars
    PROVE  CalendarInv'
<1>1. CASE Wake
    <2>1. StoreInv' /\ JobsInv'
        BY <1>1, SyncDueKeeps DEF Wake, Jobs
    <2> QED
        BY <1>1, <2>1, FlowsSame DEF Wake, SyncDue, outside, OutsideInv, CalendarInv
<1>2. CASE \E j \in Jobs : CalendarStep(j)
    BY <1>2, CalendarStepKeeps
<1>3. CASE \E a \in Accounts : AccountAdmin(a)
    BY <1>3, AccountAdminKeeps
<1>4. CASE ConsentAdmin
    <2>1. CASE \E n \in Nonces, a \in Accounts \union {NULL}, k \in Clients :
                  CalendarGoogleStart(n, a, k)
        <3>1. FlowsInv' /\ UNCHANGED <<calendarVars, syncVars>>
            BY <2>1, GoogleStartKeeps DEF CalendarGoogleStart
        <3> QED
            BY <3>1, StoreSame, JobsSame DEF syncVars, outside, OutsideInv, CalendarInv
    <2>2. CASE \E n \in Nonces : CalendarGoogleCallback(n)
        BY <2>2, CallbackKeeps
    <2>3. CASE CookieGone
        BY <2>3, StoreSame, JobsSame, CookieClears
        DEF CookieGone, syncVars, outside, OutsideInv, CalendarInv
    <2> QED
        BY <1>4, <2>1, <2>2, <2>3 DEF ConsentAdmin
<1>5. CASE ClientAdmin
    <2>1. PICK k \in Clients : \/ CalendarOAuthClientCreate(k)
                               \/ CalendarOAuthClientDelete(k)
        BY <1>5 DEF ClientAdmin
    <2>2. StoreInv'
        BY <2>1, ClientKeeps
        DEF CalendarOAuthClientCreate, CalendarOAuthClientDelete, CalendarInv
    <2>3. UNCHANGED <<syncVars, flowVars>>
        BY <2>1 DEF CalendarOAuthClientCreate, CalendarOAuthClientDelete
    <2> QED
        BY <2>2, <2>3, JobsSame, FlowsSame DEF syncVars, outside, OutsideInv, CalendarInv
<1>6. CASE (\E g \in Grants : Revoke(g)) /\ UNCHANGED flowVars
    <2>1. OutsideInv'
        BY <1>6 DEF Revoke, OutsideInv, CalendarInv
    <2> QED
        BY <1>6, <2>1, StoreSame, JobsSame, FlowsSame DEF Revoke, CalendarInv
<1>7. CASE (\E a \in Accounts : ExpireSync(a)) /\ UNCHANGED flowVars
    BY <1>7, ExpireKeeps, JobsSame, FlowsSame
    DEF ExpireSync, syncVars, outside, OutsideInv, CalendarInv
<1>8. CASE CrashSync
    <2>1. JobsInv'
        <3>1. job' = [j \in Jobs |-> NoJob]
            BY <1>8 DEF CrashSync
        <3>2. job' \in [Jobs -> JobRow]
            BY <3>1, NoJobType
        <3>3. \A j \in Jobs : CarriesWell(job[j])'
            BY <3>1 DEF CarriesWell, NoJob, Nothing
        <3> QED
            BY <3>2, <3>3 DEF JobsInv
    <2> QED
        BY <1>8, <2>1, StoreSame, FlowsSame DEF CrashSync, outside, OutsideInv, CalendarInv
<1>9. CASE UNCHANGED calVars
    BY <1>9, StoreSame, JobsSame, FlowsSame
    DEF calVars, syncVars, outside, OutsideInv, CalendarInv
<1> QED
    BY <1>1, <1>2, <1>3, <1>4, <1>5, <1>6, <1>7, <1>8, <1>9 DEF Next

(* The invariant holds in every behaviour: whatever the loop, requests and *)
(* consents do between each other's steps, what is stored and what is      *)
(* carried is well typed and its owner's.                                  *)
THEOREM CalendarInvariant == Spec => []CalendarInv
<1>1. Init => CalendarInv
    BY InitIsInv
<1>2. CalendarInv /\ [Next]_calVars => CalendarInv'
    BY NextKeepsInv
<1> QED
    BY <1>1, <1>2, PTL DEF Spec

(* Type correctness: no job ever writes what it has not read. *)
THEOREM CalendarTypeCorrect == Spec => []CalendarTypeOK
<1>1. CalendarInv => CalendarTypeOK
    BY DEF CalendarInv, StoreInv, JobsInv, FlowsInv, OutsideInv, CalendarTypeOK, SyncTypeOK
<1> QED
    BY <1>1, CalendarInvariant, PTL

(* A Google account only ever holds a grant of its own address, however    *)
(* many accounts, overlapping consents and syncs there are.                *)
THEOREM GrantsStayWithOwners == Spec => []GrantIsOwners
<1>1. CalendarInv => GrantIsOwners
    BY AccountAt DEF CalendarInv, GrantIsOwners
<1> QED
    BY <1>1, CalendarInvariant, PTL

(* The callback of a consent reconnects the account that its flow named,   *)
(* or creates one with the client it named, because the cookie it reads is *)
(* the one of that flow.                                                   *)
THEOREM ConsentsUsedAsAsked == Spec => ConsentForItsFlow
<1>1. ASSUME CalendarInv, NEW n \in Nonces, NEW j \in Workers, NEW g \in Grants,
             CallbackReconnects(j, n, g)
      PROVE  job'[j].id = flows[n].account
    <2>1. cookie # NULL /\ cookie.nonce = n
        BY <1>1 DEF CallbackReconnects, CallbackAccepted
    <2>2. flows[n].account = cookie.account
        BY <1>1, <2>1 DEF CalendarInv, FlowsInv
    <2>3. job'[j].id = cookie.account
        BY <1>1 DEF CallbackReconnects, Becomes, CalendarInv, JobsInv, NoJob, Jobs
    <2> QED
        BY <2>2, <2>3
<1>2. ASSUME CalendarInv, NEW n \in Nonces, NEW j \in Workers, NEW g \in Grants,
             NEW a \in Accounts, CallbackCreates(j, n, g, a)
      PROVE  flows[n].account = NULL /\ flows[n].client = accounts'[a].cfg.client
    <2> DEFINE cfg == [kind |-> "google", email |-> Mailbox[g], client |-> cookie.client,
                       grant |-> g, sel |-> NoSelection]
               row == [provider |-> cfg.kind, cfg |-> cfg, fresh |-> FALSE,
                       error |-> "none", readable |-> TRUE]
    <2>1. cookie # NULL /\ cookie.nonce = n /\ cookie.account = NULL
        BY <1>2 DEF CallbackCreates, CallbackAccepted
    <2>2. flows[n].client = cookie.client /\ flows[n].account = NULL
        BY <1>2, <2>1 DEF CalendarInv, FlowsInv
    <2>3. accounts' = [accounts EXCEPT ![a] = row]
        BY <1>2 DEF CallbackCreates, CreateCalendarAccount
    <2>4. accounts'[a] = row
        BY <1>2, <2>3 DEF CalendarInv, StoreInv, CalendarStoreTypeOK
    <2>5. row.cfg.client = cookie.client
        OBVIOUS
    <2> QED
        BY <2>2, <2>4, <2>5
<1>3. CalendarInv /\ [Next]_calVars
          => [\A n \in Nonces, j \in Workers, g \in Grants :
                 /\ CallbackReconnects(j, n, g) => job'[j].id = flows[n].account
                 /\ \A a \in Accounts : CallbackCreates(j, n, g, a) =>
                       /\ flows[n].account = NULL
                       /\ flows[n].client = accounts'[a].cfg.client]_calVars
    BY <1>1, <1>2
<1> QED
    BY <1>3, CalendarInvariant, PTL DEF Spec, ConsentForItsFlow

-----------------------------------------------------------------------------
(* Events without an account. *)

(* No row is lost, and no events come. *)
RowsStay ==
    /\ \A a \in Accounts : accounts[a] # NULL => accounts'[a] # NULL
    /\ UNCHANGED events

LEMMA UpdateStays ==
    ASSUME StoreInv, NEW a \in Accounts, NEW row, UpdateAccountRow(a, row),
           accounts[a] # NULL => row # NULL, UNCHANGED events
    PROVE  RowsStay
BY DEF UpdateAccountRow, StoreInv, CalendarStoreTypeOK, RowsStay

LEMMA CreateStays ==
    ASSUME StoreInv, NEW a \in Accounts, NEW cfg \in Config,
           CreateCalendarAccount(a, cfg), UNCHANGED events
    PROVE  RowsStay
<1> DEFINE row == [provider |-> cfg.kind, cfg |-> cfg, fresh |-> FALSE,
                   error |-> "none", readable |-> TRUE]
<1>1. row \in AccountRow
    BY DEF AccountRow, Config
<1>2. row # NULL
    BY <1>1, NullIsNoRow
<1>3. accounts' = [accounts EXCEPT ![a] = row]
    BY DEF CreateCalendarAccount
<1> HIDE DEF row
<1> QED
    BY <1>2, <1>3 DEF StoreInv, CalendarStoreTypeOK, RowsStay

LEMMA StaysWithoutTables ==
    ASSUME UNCHANGED calendarVars
    PROVE  RowsStay
BY DEF calendarVars, RowsStay

(* What the writes of a sync do: they change a row, and it is still one.   *)
LEMMA SyncStays ==
    ASSUME CalendarInv, NEW j \in Jobs, CalendarStep(j), ~ReplaceEvents(j)
    PROVE  RowsStay
<1> DEFINE w == job[j]
<1>1. CASE PersistToken(j) \/ SaveConfig(j)
    <2> DEFINE row == [accounts[w.id] EXCEPT !.cfg = w.cfg, !.readable = TRUE]
    <2>1. w.id \in Accounts /\ w.cfg \in Config
        BY <1>1, JobAt DEF PersistToken, SaveConfig, CarriesWell, CalendarInv
    <2>2. CASE UNCHANGED accounts
        BY <1>1, <2>2 DEF PersistToken, SaveConfig, RowsStay
    <2>3. CASE UpdateAccountRow(w.id, row)
        <3>1. accounts[w.id] # NULL => accounts[w.id] \in AccountRow
            BY <2>1, AccountAt DEF CalendarInv
        <3>2. accounts[w.id] # NULL => row \in AccountRow
            BY <2>1, <3>1 DEF AccountRow
        <3>3. accounts[w.id] # NULL => row # NULL
            BY <3>2, NullIsNoRow
        <3> HIDE DEF row
        <3> QED
            BY <1>1, <2>1, <2>3, <3>3, UpdateStays DEF PersistToken, SaveConfig, CalendarInv
    <2> QED
        BY <1>1, <2>2, <2>3 DEF PersistToken, SaveConfig, SetCalendarAccountConfig
<1>2. CASE RecordSync(j)
    <2> DEFINE row == [accounts[w.id] EXCEPT !.fresh = TRUE, !.error = w.msg]
    <2>1. w.id \in Accounts /\ w.msg \in {"none", "failed", "reconnect"}
        BY <1>2, JobAt DEF RecordSync, CarriesWell, CalendarInv, JobRow
    <2>2. accounts[w.id] # NULL => accounts[w.id] \in AccountRow
        BY <2>1, AccountAt DEF CalendarInv
    <2>3. accounts[w.id] # NULL => row \in AccountRow
        BY <2>1, <2>2 DEF AccountRow
    <2>4. accounts[w.id] # NULL => row # NULL
        BY <2>3, NullIsNoRow
    <2>5. UpdateAccountRow(w.id, row)
        BY <1>2 DEF RecordSync, SetCalendarAccountSync
    <2> HIDE DEF row
    <2> QED
        BY <1>2, <2>1, <2>4, <2>5, UpdateStays DEF RecordSync, CalendarInv
<1>3. CASE LoadAccount(j) \/ Fetch(j) \/ FetchFails(j) \/ ReauthorizeGoogleAccount(j)
    BY <1>3, StaysWithoutTables DEF LoadAccount, Fetch, FetchFails, ReauthorizeGoogleAccount
<1> QED
    BY <1>1, <1>2, <1>3 DEF CalendarStep, SyncStep

LEMMA RequestStays ==
    ASSUME CalendarInv, NEW j \in Jobs, NEW a \in Accounts,
           \/ CalendarAccountUpdate(j, a)
           \/ CalendarAccountSync(j, a)
           \/ CalendarCalDAVCreate(j, a)
    PROVE  RowsStay
<1>1. CASE CalendarCalDAVCreate(j, a)
    <2>1. PICK e \in Emails :
              CreateCalendarAccount(a, [BlankConfig("caldav") EXCEPT !.email = e])
        BY <1>1 DEF CalendarCalDAVCreate
    <2>2. [BlankConfig("caldav") EXCEPT !.email = e] \in Config
        BY BlankConfigType DEF Config
    <2> QED
        BY <1>1, <2>1, <2>2, CreateStays DEF CalendarCalDAVCreate, CalendarInv
<1> QED
    BY <1>1, StaysWithoutTables DEF CalendarAccountUpdate, CalendarAccountSync

LEMMA ConsentStays ==
    ASSUME CalendarInv, ConsentAdmin
    PROVE  RowsStay
<1>1. CASE \E j \in Workers, n \in Nonces, g \in Grants, a \in Accounts :
              CallbackCreates(j, n, g, a)
    <2>1. PICK j \in Workers, n \in Nonces, g \in Grants, a \in Accounts :
              CallbackCreates(j, n, g, a)
        BY <1>1
    <2> DEFINE cfg == [kind |-> "google", email |-> Mailbox[g],
                       client |-> cookie.client, grant |-> g, sel |-> NoSelection]
    <2>2. cookie.client \in Clients
        BY <2>1 DEF CallbackCreates, CallbackAccepted, CalendarInv, FlowsInv,
                    FlowsTypeOK, Cookie
    <2>3. cfg \in Config
        BY <2>2, CalendarStoreAssumption DEF Config
    <2>4. CreateCalendarAccount(a, cfg)
        BY <2>1 DEF CallbackCreates
    <2> HIDE DEF cfg
    <2> QED
        BY <2>1, <2>3, <2>4, CreateStays DEF CallbackCreates, CalendarInv
<1>2. CASE UNCHANGED calendarVars
    BY <1>2, StaysWithoutTables
<1> QED
    BY <1>1, <1>2 DEF ConsentAdmin, CalendarGoogleStart, CalendarGoogleCallback,
                      CookieGone, CallbackReconnects

LEMMA NextKeepsEvents ==
    ASSUME CalendarInv, EventsHaveAccount, [Next]_calVars
    PROVE  EventsHaveAccount'
<1>1. CASE RowsStay
    BY <1>1 DEF RowsStay, EventsHaveAccount
<1>2. ASSUME NEW j \in Jobs, ReplaceEvents(j) PROVE EventsHaveAccount'
    BY <1>2 DEF ReplaceEvents, ReplaceCalendarEvents, EventsHaveAccount,
                CalendarInv, StoreInv, CalendarStoreTypeOK
<1>3. ASSUME NEW a \in Accounts, CalendarAccountDelete(a) PROVE EventsHaveAccount'
    BY <1>3 DEF CalendarAccountDelete, DeleteCalendarAccount, EventsHaveAccount,
                CalendarInv, StoreInv, CalendarStoreTypeOK
<1>4. ASSUME NEW j \in Jobs, CalendarStep(j) PROVE EventsHaveAccount'
    BY <1>1, <1>2, <1>4, SyncStays
<1>5. ASSUME NEW a \in Accounts, AccountAdmin(a) PROVE EventsHaveAccount'
    BY <1>1, <1>3, <1>5, RequestStays DEF AccountAdmin, Jobs
<1>6. CASE ConsentAdmin
    BY <1>1, <1>6, ConsentStays
<1>7. CASE ClientAdmin
    BY <1>1, <1>7 DEF ClientAdmin, CalendarOAuthClientCreate, CalendarOAuthClientDelete,
                      RowsStay
<1>8. CASE \E a \in Accounts : ExpireSync(a)
    <2>1. PICK a \in Accounts : ExpireSync(a)
        BY <1>8
    <2> DEFINE row == [accounts[a] EXCEPT !.fresh = FALSE]
    <2>2. accounts[a] # NULL /\ accounts[a] \in AccountRow
        BY <2>1, AccountAt DEF ExpireSync, ExpireAccount, CalendarInv
    <2>3. row \in AccountRow
        BY <2>2 DEF AccountRow
    <2>4. row # NULL
        BY <2>3, NullIsNoRow
    <2>5. accounts' = [accounts EXCEPT ![a] = row] /\ UNCHANGED events
        BY <2>1 DEF ExpireSync, ExpireAccount
    <2> HIDE DEF row
    <2> QED
        BY <2>4, <2>5, <1>1 DEF RowsStay, CalendarInv, StoreInv, CalendarStoreTypeOK
<1>9. CASE UNCHANGED calendarVars
    BY <1>1, <1>9, StaysWithoutTables
<1> QED
    BY <1>4, <1>5, <1>6, <1>7, <1>8, <1>9
    DEF Next, Wake, SyncDue, Revoke, CrashSync, calVars

(* No cached event outlives its account, however many syncs are under way  *)
(* when it is deleted, and whatever takes over its row id.                 *)
THEOREM EventsNeverOrphaned == Spec => []EventsHaveAccount
<1>1. Init => EventsHaveAccount
    BY DEF Init, EventsHaveAccount
<1>2. CalendarInv /\ EventsHaveAccount /\ [Next]_calVars => EventsHaveAccount'
    BY NextKeepsEvents
<1> QED
    BY <1>1, <1>2, CalendarInvariant, PTL DEF Spec
=============================================================================
