--------------------------- MODULE CalendarAdmin ---------------------------
(***************************************************************************)
(* The calendar pages of the admin interface, with the consent flow of     *)
(* Google.  A handler that ends in SyncAccount is a job: it reads, writes  *)
(* and then syncs, with other goroutines in between.  The pages that only  *)
(* show something are left out.                                            *)
(*                                                                         *)
(* The consent flow: CalendarGoogleStart puts a nonce, the OAuth client    *)
(* and the account to reconnect (if any) into a cookie, and sends the      *)
(* browser to Google with the same nonce as state.  Google sends it back   *)
(* to CalendarGoogleCallback.  There is one cookie in one browser, and the *)
(* administrator may have several tabs, so flows may overlap, come back in *)
(* any order, several times, or never.                                     *)
(***************************************************************************)
EXTENDS CalendarSync

CONSTANTS
    Nonces,       \* bound: the flows an instance can start
    MaxConsents   \* bound: how often the user consents in one flow

VARIABLES
    cookie,       \* trmnl_oauth_state, or NULL
    flows         \* flows[n]: what Google was asked with state n, and how
                  \* often it has been answered with a code; or NULL

flowVars == <<cookie, flows>>

Flow == [client : Clients, account : Accounts \union {NULL}, consents : 0..MaxConsents]
Cookie == [nonce : Nonces, client : Clients, account : Accounts \union {NULL}]

ASSUME FlowsAssumption == MaxConsents \in Nat /\ NULL \notin Flow

FlowsTypeOK ==
    /\ cookie \in Cookie \union {NULL}
    /\ flows \in [Nonces -> Flow \union {NULL}]

Readable(a) == accounts[a] # NULL /\ accounts[a].readable

-----------------------------------------------------------------------------
(* CalendarAccountUpdate: reads the account, and writes it back with the   *)
(* new selection; then SyncAccount.  The name, the marker and the interval *)
(* are saved by the same statement and matter to nothing here.  (The       *)
(* handler reads the account once before, for its provider, which never    *)
(* changes; of the two reads this is the second, in UpdateGoogleAccount or *)
(* UpdateCalDAVAccount.)                                                   *)
CalendarAccountUpdate(j, a) ==
    /\ "account.update" \in ops
    /\ job[j] = NoJob
    /\ Readable(a)
    /\ \E s \in Selections :
          Becomes(j, [NoJob EXCEPT !.pc = "save", !.id = a,
                        !.cfg = [ParsedConfig(accounts[a]) EXCEPT !.sel = s]])
    /\ UNCHANGED <<calendarVars, outside, flowVars>>

SaveConfig(j) ==
    /\ job[j].pc = "save"
    /\ SetCalendarAccountConfig(job[j].id, job[j].cfg)
    /\ Becomes(j, [NoJob EXCEPT !.pc = "load", !.id = job[j].id])
    /\ UNCHANGED <<events, clients, outside, flowVars>>

CalendarAccountSync(j, a) ==
    /\ "account.sync" \in ops
    /\ job[j] = NoJob
    /\ Becomes(j, [NoJob EXCEPT !.pc = "load", !.id = a])
    /\ UNCHANGED <<calendarVars, outside, flowVars>>

CalendarAccountDelete(a) ==
    /\ "account.delete" \in ops
    /\ DeleteCalendarAccount(a)
    /\ UNCHANGED <<clients, syncVars, flowVars>>

(* Inserts the account, then SyncAccount "so a bad credential surfaces". *)
CalendarCalDAVCreate(j, a) ==
    /\ "caldav.create" \in ops
    /\ job[j] = NoJob
    /\ accounts[a] = NULL
    /\ \E e \in Emails :
          CreateCalendarAccount(a, [BlankConfig("caldav") EXCEPT !.email = e])
    /\ Becomes(j, [NoJob EXCEPT !.pc = "load", !.id = a])
    /\ UNCHANGED <<events, clients, outside, flowVars>>

CalendarOAuthClientCreate(k) ==
    /\ "client.create" \in ops
    /\ CreateOAuthClient(k)
    /\ UNCHANGED <<accounts, events, syncVars, flowVars>>

CalendarOAuthClientDelete(k) ==
    /\ "client.delete" \in ops
    /\ DeleteOAuthClient(k)
    /\ UNCHANGED <<accounts, events, syncVars, flowVars>>

-----------------------------------------------------------------------------
(* With a the account to reconnect, its own client; without one, any. *)
CalendarGoogleStart(n, a, k) ==
    /\ IF a = NULL THEN "consent" \in ops ELSE "reconnect" \in ops
    /\ flows[n] = NULL
    /\ k \in clients
    /\ a # NULL => /\ Readable(a)
                   /\ accounts[a].provider = "google"
                   /\ k = ParsedConfig(accounts[a]).client
    /\ flows' = [flows EXCEPT ![n] = [client |-> k, account |-> a, consents |-> 0]]
    /\ cookie' = [nonce |-> n, client |-> k, account |-> a]
    /\ UNCHANGED <<calendarVars, syncVars>>

(* The answer to a callback clears the cookie, whether it was refused or   *)
(* accepted: one that is accepted is answered only after its sync, so      *)
(* another may read the cookie before, and a flow may be started that      *)
(* loses its own.  The cookie also expires, after ten minutes.  A callback *)
(* is refused if there is no cookie or its nonce is not the state, if the  *)
(* user denied the consent, or if the code cannot be exchanged.            *)
CookieGone ==
    /\ cookie # NULL
    /\ cookie' = NULL
    /\ UNCHANGED <<calendarVars, syncVars, flows>>

BugNoStateCheck(n) ==                \* the nonce is not compared with the state
    flows[n] # NULL /\ cookie # NULL /\ cookie.client \in clients

CallbackAccepted(n) ==
    /\ flows[n] # NULL
    /\ cookie # NULL /\ cookie.nonce = n
    /\ cookie.client \in clients

(* A code of Google can be exchanged once: for another the user consents   *)
(* again.                                                                  *)
Consents(n) ==
    /\ flows[n].consents < MaxConsents
    /\ flows' = [flows EXCEPT ![n].consents = @ + 1]
    /\ UNCHANGED cookie

(* The user consented to flow n as the mailbox of the grant g.             *)
CallbackReconnects(j, n, g) ==
    /\ job[j] = NoJob
    /\ CallbackAccepted(n)
    /\ cookie.account # NULL
    /\ Consents(n)
    /\ Becomes(j, [NoJob EXCEPT !.pc = "connect", !.id = cookie.account,
                     !.cfg = [BlankConfig("google") EXCEPT !.grant = g]])
    /\ UNCHANGED <<calendarVars, outside>>

CallbackCreates(j, n, g, a) ==
    /\ job[j] = NoJob
    /\ CallbackAccepted(n)
    /\ cookie.account = NULL
    /\ Consents(n)
    /\ accounts[a] = NULL
    /\ CreateCalendarAccount(a, [kind |-> "google", email |-> Mailbox[g],
                                 client |-> cookie.client, grant |-> g,
                                 sel |-> NoSelection])
    /\ Becomes(j, [NoJob EXCEPT !.pc = "load", !.id = a])
    /\ UNCHANGED <<events, clients, outside>>

CalendarGoogleCallback(n) ==
    \E j \in Workers, g \in Grants \ revoked :
        \/ CallbackReconnects(j, n, g)
        \/ \E a \in Accounts : CallbackCreates(j, n, g, a)

BugAnyAddress(j) ==                  \* takes whoever signed in
    LET w == job[j]
        c == ParsedConfig(accounts[w.id])
    IN  /\ w.pc = "connect"
        /\ IF Readable(w.id) /\ accounts[w.id].provider = "google"
           THEN Becomes(j, [w EXCEPT !.pc = "save", !.cfg = [c EXCEPT !.grant = w.cfg.grant]])
           ELSE Becomes(j, NoJob)
        /\ UNCHANGED <<calendarVars, outside, flowVars>>

(* ReauthorizeGoogleAccount: reads the account, refuses one of another     *)
(* provider or another address, and goes on to write it back with the new  *)
(* grant.                                                                  *)
ReauthorizeGoogleAccount(j) ==
    LET w == job[j]
        c == ParsedConfig(accounts[w.id])
        email == Mailbox[w.cfg.grant]
    IN  /\ w.pc = "connect"
        /\ IF /\ Readable(w.id)
              /\ accounts[w.id].provider = "google"
              /\ c.email \in {NULL, email}
           THEN Becomes(j, [w EXCEPT !.pc = "save",
                     !.cfg = [c EXCEPT !.grant = w.cfg.grant, !.email = email]])
           ELSE Becomes(j, NoJob)
        /\ UNCHANGED <<calendarVars, outside, flowVars>>

-----------------------------------------------------------------------------
CalendarStep(j) ==
    \/ SyncStep(j) /\ UNCHANGED flowVars
    \/ SaveConfig(j) \/ ReauthorizeGoogleAccount(j)

AccountAdmin(a) ==
    \/ CalendarAccountDelete(a)
    \/ \E j \in Workers :
          \/ CalendarAccountUpdate(j, a) \/ CalendarAccountSync(j, a)
          \/ CalendarCalDAVCreate(j, a)

ConsentAdmin ==
    \/ \E n \in Nonces :
          \/ \E a \in Accounts \union {NULL}, k \in Clients : CalendarGoogleStart(n, a, k)
          \/ CalendarGoogleCallback(n)
    \/ CookieGone

ClientAdmin ==
    \E k \in Clients : CalendarOAuthClientCreate(k) \/ CalendarOAuthClientDelete(k)
=============================================================================
