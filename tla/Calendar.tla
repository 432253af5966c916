------------------------------ MODULE Calendar ------------------------------
(***************************************************************************)
(* The family calendar as one system: the background loop, the admin       *)
(* requests, Google, and the passing of time.                              *)
(***************************************************************************)
EXTENDS CalendarAdmin

CONSTANT Scenarios   \* bound: the accounts there are when the server starts,
                     \* with the operations exercised from there

(* A configuration holds a grant of its own address, or none. *)
Owned(c) == c.grant # NULL => c.email = Mailbox[c.grant]

ASSUME CalendarAssumption ==
    \A s \in Scenarios :
        /\ s.accounts \in [Accounts -> AccountRow \union {NULL}]
        /\ \A a \in Accounts : s.accounts[a] # NULL => Owned(s.accounts[a].cfg)

calVars == <<calendarVars, syncVars, flowVars>>

Init ==
    /\ \E s \in Scenarios : accounts = s.accounts /\ ops = s.ops
    /\ events = [a \in Accounts |-> NULL]
    /\ clients = Clients
    /\ job = [j \in Jobs |-> NoJob]
    /\ revoked = {}
    /\ cookie = NULL
    /\ flows = [n \in Nonces |-> NULL]

(* The process dies and is started again; the browser keeps its cookie. *)
CrashSync ==
    /\ "crash" \in ops
    /\ job' = [j \in Jobs |-> NoJob]
    /\ UNCHANGED <<calendarVars, outside, flowVars>>

Wake == SyncDue(Loop) /\ UNCHANGED flowVars

Next ==
    \/ Wake
    \/ \E j \in Jobs : CalendarStep(j)
    \/ \E a \in Accounts : AccountAdmin(a)
    \/ ConsentAdmin
    \/ ClientAdmin
    \/ (\E g \in Grants : Revoke(g)) /\ UNCHANGED flowVars
    \/ (\E a \in Accounts : ExpireSync(a)) /\ UNCHANGED flowVars
    \/ CrashSync

Spec == Init /\ [][Next]_calVars

(* The loop's timer fires, its fetches and those of requests end, time     *)
(* passes, and the process is not restarted for ever.  Nobody is assumed   *)
(* to use the admin pages.                                                 *)
Fairness ==
    /\ WF_calVars(Wake)
    /\ \A j \in Jobs : WF_calVars(CalendarStep(j))
    /\ \A a \in Accounts : WF_calVars(ExpireSync(a) /\ UNCHANGED flowVars)
    /\ <>[][~CrashSync]_calVars

LiveSpec == Spec /\ Fairness

-----------------------------------------------------------------------------
CalendarTypeOK ==
    /\ CalendarStoreTypeOK /\ SyncTypeOK /\ FlowsTypeOK
    /\ ops \in {s.ops : s \in Scenarios}

(* No cached event outlives its account: a sync that is still fetching     *)
(* when the account is deleted leaves nothing behind.                      *)
EventsHaveAccount == \A a \in Accounts : events[a] # NULL => accounts[a] # NULL

(* A Google account only ever holds a grant of its own address, whichever  *)
(* consents overlap, whoever signs in, and whatever a sync writes back     *)
(* ("The token must belong to the same Google address the account was      *)
(* created with", ReauthorizeGoogleAccount).                               *)
GrantIsOwners ==
    \A a \in Accounts : accounts[a] # NULL => Owned(ParsedConfig(accounts[a]))

(* A consent is used for what it was asked for: the callback of a flow     *)
(* reconnects the account that this flow named; or it named none, and the  *)
(* callback creates an account with the OAuth client that it named.        *)
ConsentForItsFlow ==
    [][\A n \in Nonces, j \in Workers, g \in Grants :
          /\ CallbackReconnects(j, n, g) => job'[j].id = flows[n].account
          /\ \A a \in Accounts : CallbackCreates(j, n, g, a) =>
                /\ flows[n].account = NULL
                /\ flows[n].client = accounts'[a].cfg.client]_calVars

(* Only an administrator changes what an account shows: a sync that writes *)
(* a token back leaves the selection alone ("Re-sync immediately so the    *)
(* new selection takes effect", CalendarAccountUpdate; "preserving its     *)
(* stored token", UpdateGoogleAccount).                                    *)
SelectionSticks ==
    [][\A j \in Jobs, a \in Accounts :
          PersistToken(j) /\ job[j].id = a /\ accounts[a] # NULL
              => accounts'[a].cfg.sel = accounts[a].cfg.sel]_calVars

-----------------------------------------------------------------------------
Recorded(a) == \E j \in Jobs : job[j].id = a /\ RecordSync(j)
Replaced(a) == \E j \in Jobs : job[j].id = a /\ ReplaceEvents(j)

(* Every account is synced again and again, whatever the others' fetches   *)
(* come to (SyncDue: "others are still recorded on their accounts").  It   *)
(* takes that all accounts can be decrypted: one that cannot stops them    *)
(* all until it is deleted.                                                *)
SyncedForever ==
    \A a \in Accounts :
        (<>[](AllReadable /\ accounts[a] # NULL))
        => []<><<Recorded(a)>>_calVars

(* What is stored is shown: once an account is no longer changed, and its  *)
(* fetches go on to succeed now and then, there is a time after which its  *)
(* cached events are always those of its mailbox and selection, whatever   *)
(* syncs were on their way at the last change.                             *)
SelectionShown ==
    \A a \in Accounts, ev \in EventSet :
        (<>[](accounts[a] # NULL /\ EventsOf(ParsedConfig(accounts[a])) = ev))
        /\ ([]<><<Replaced(a)>>_calVars)
        => <>[](events[a] = ev)

(* An account says whether it works: one whose grant is not revoked and    *)
(* whose client exists ends up not asking to be reconnected, even if syncs *)
(* with the previous grant were on their way; one whose grant is revoked   *)
(* ends up with an error.                                                  *)
Connected(a) ==
    /\ AllReadable
    /\ accounts[a] # NULL
    /\ LET c == ParsedConfig(accounts[a])
       IN  c.kind = "google" /\ c.client \in clients /\ c.grant \notin revoked \union {NULL}

Disconnected(a) ==
    /\ AllReadable
    /\ accounts[a] # NULL
    /\ LET c == ParsedConfig(accounts[a])
       IN  c.kind = "google" /\ c.client \in clients /\ c.grant \in revoked

ReconnectShown ==
    \A a \in Accounts :
        /\ (<>[]Connected(a)) => <>[](accounts[a] # NULL /\ accounts[a].error # "reconnect")
        /\ (<>[]Disconnected(a)) => <>[](accounts[a] # NULL /\ accounts[a].error # "none")
=============================================================================
