----------------------------- MODULE MCCalendar -----------------------------
(***************************************************************************)
(* Small instances of the family calendar for TLC.                         *)
(***************************************************************************)
EXTENDS Calendar, TLC

CONSTANTS a1, a2, k1, g1, g2, h1, mum, dad

TwoMailboxes == [g \in Grants |-> IF g = h1 THEN dad ELSE mum]

Google == [provider |-> "google", fresh |-> FALSE, error |-> "none", readable |-> TRUE,
           cfg |-> [kind |-> "google", email |-> mum, client |-> k1,
                    grant |-> g1, sel |-> NoSelection]]

CalDAV(readable) ==
    [provider |-> "caldav", fresh |-> FALSE, error |-> "none", readable |-> readable,
     cfg |-> [BlankConfig("caldav") EXCEPT !.email = dad]]

With(first, second) == [a \in Accounts |-> IF a = a1 THEN first ELSE second]

(* Two accounts, edited while they are synced. *)
Syncing ==
    [accounts |-> With(Google, CalDAV(TRUE)),
     ops |-> {"account.update", "token.refresh"}]

(* The second account was encrypted with a key that is gone. *)
Deleting ==
    [accounts |-> With(Google, CalDAV(FALSE)),
     ops |-> {"account.delete", "caldav.create", "fetch.fail"}]

(* Consents of two mailboxes, overlapping. *)
Consenting ==
    [accounts |-> With(Google, NULL),
     ops |-> {"consent", "reconnect", "account.delete", "token.refresh"}]

(* A grant expires, and the account is reconnected. *)
Reconnecting ==
    [accounts |-> With(Google, NULL),
     ops |-> {"reconnect", "grant.revoke", "token.refresh"}]

(* The OAuth client is deleted and entered again; the process crashes. *)
Managing ==
    [accounts |-> With(Google, NULL),
     ops |-> {"client.create", "client.delete", "account.sync", "account.delete",
              "crash"}]

AllScenarios == {Syncing, Deleting, Consenting, Reconnecting, Managing}
OnlySyncing == {Syncing}
=============================================================================
