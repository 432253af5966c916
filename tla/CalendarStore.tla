--------------------------- MODULE CalendarStore ---------------------------
(***************************************************************************)
(* The tables of the family calendar: calendar_accounts, calendar_events   *)
(* and oauth_clients.  As in Store, a store method is one atomic step and  *)
(* an operator with its name, a row that does not exist is NULL, and row   *)
(* ids are slots that are used again.                                      *)
(***************************************************************************)
EXTENDS Naturals

CONSTANTS
    Accounts,     \* row ids of calendar_accounts
    Clients,      \* row ids of oauth_clients
    Emails,       \* mailboxes: Google addresses, CalDAV user names
    Selections,   \* which calendars of a mailbox are shown
    Grants,       \* what Google hands out after a consent: refresh tokens
    Mailbox,      \* Mailbox[g]: the address that gave the grant g
    NULL,         \* SQL NULL, an empty string, and the row that does not exist
    NoSelection   \* nothing selected: Google's primary calendar, CalDAV's first

ASSUME CalendarStoreAssumption ==
    /\ Mailbox \in [Grants -> Emails]
    /\ NoSelection \in Selections

VARIABLES
    accounts,     \* accounts[a]: the row, or NULL
    events,       \* events[a]: what the cached events of account a show, or NULL
    clients       \* the OAuth clients that exist

calendarVars == <<accounts, events, clients>>

-----------------------------------------------------------------------------
(* The config column: GoogleConfig or CalDAVConfig.  The access token and  *)
(* its expiry change with every refresh and nothing but a fetch reads      *)
(* them, so a grant is the refresh token alone.                            *)
Config == [kind : {"google", "caldav"}, email : Emails \union {NULL},
           client : Clients \union {NULL}, grant : Grants \union {NULL},
           sel : Selections]

(* fresh: less than refresh_interval has passed since last_sync.           *)
(* readable: the key the server runs with decrypts the row's credentials.  *)
AccountRow == [provider : {"google", "caldav"}, cfg : Config, fresh : BOOLEAN,
               error : {"none", "failed", "reconnect"}, readable : BOOLEAN]

(* A set of cached events stands for the mailbox and the selection it was  *)
(* fetched for.                                                            *)
EventSet == [email : Emails, sel : Selections]

ASSUME CalendarNullAssumption == NULL \notin AccountRow \union EventSet \union Config

CalendarStoreTypeOK ==
    /\ accounts \in [Accounts -> AccountRow \union {NULL}]
    /\ events \in [Accounts -> EventSet \union {NULL}]
    /\ clients \in SUBSET Clients

BlankConfig(kind) == [kind |-> kind, email |-> NULL, client |-> NULL,
                      grant |-> NULL, sel |-> NoSelection]

(* accountFromStore: the column is parsed as what the provider column says.*)
(* The two kinds of configuration have no field in common, so one written  *)
(* into a row of the other provider reads as an empty one.                 *)
ParsedConfig(row) ==
    IF row.cfg.kind = row.provider THEN row.cfg ELSE BlankConfig(row.provider)

EventsOf(cfg) == [email |-> cfg.email, sel |-> cfg.sel]

-----------------------------------------------------------------------------
BugStoresBlank(a, cfg) ==         \* the configuration is saved before it is filled
    accounts' = [accounts EXCEPT ![a] =
        [provider |-> cfg.kind, cfg |-> NULL, fresh |-> FALSE, error |-> "none",
         readable |-> TRUE]]

CreateCalendarAccount(a, cfg) ==
    accounts' = [accounts EXCEPT ![a] =
        [provider |-> cfg.kind, cfg |-> cfg, fresh |-> FALSE, error |-> "none",
         readable |-> TRUE]]

UpdateAccountRow(a, row) ==
    accounts' = IF accounts[a] = NULL THEN accounts ELSE [accounts EXCEPT ![a] = row]

(* UpdateCalendarAccount and SetCalendarAccountConfig: the whole column is *)
(* written, encrypted with the key the server runs with.                   *)
SetCalendarAccountConfig(a, cfg) ==
    UpdateAccountRow(a, [accounts[a] EXCEPT !.cfg = cfg, !.readable = TRUE])

BugKeepsError(a, msg) ==          \* an empty message keeps the column
    UpdateAccountRow(a, [accounts[a] EXCEPT !.fresh = TRUE,
                                            !.error = IF msg = "none" THEN @ ELSE msg])

SetCalendarAccountSync(a, msg) ==
    UpdateAccountRow(a, [accounts[a] EXCEPT !.fresh = TRUE, !.error = msg])

DeleteCalendarAccount(a) ==       \* cascades to calendar_events
    /\ accounts' = [accounts EXCEPT ![a] = NULL]
    /\ events' = [events EXCEPT ![a] = NULL]

BugNoAccountKey(a, evs) ==        \* calendar_events without its foreign key
    events' = [events EXCEPT ![a] = evs]

BugKeepsOld(a, evs) ==            \* INSERT OR IGNORE without the DELETE
    events' = IF accounts[a] = NULL \/ events[a] # NULL THEN events
              ELSE [events EXCEPT ![a] = evs]

(* One transaction: delete all, insert all.  Without the account the first *)
(* insert fails its foreign key and everything is rolled back.             *)
ReplaceCalendarEvents(a, evs) ==
    events' = IF accounts[a] = NULL THEN events ELSE [events EXCEPT ![a] = evs]

CreateOAuthClient(k) == clients' = clients \union {k}
DeleteOAuthClient(k) == clients' = clients \ {k}

(* now - last_sync reaches the refresh interval. *)
ExpireAccount(a) ==
    /\ accounts[a] # NULL /\ accounts[a].fresh
    /\ accounts' = [accounts EXCEPT ![a].fresh = FALSE]
=============================================================================
