----------------------------- MODULE Listeners -----------------------------
(***************************************************************************)
(* server.Run: it starts every listener in a goroutine of its own, waits   *)
(* for an error of one of them or for the signal to stop, and then shuts   *)
(* them down one after the other, within 10 seconds for all of them.       *)
(***************************************************************************)
EXTENDS Process

CONSTANT Listeners   \* how many addresses the server binds to: 1..Listeners

ASSUME ListenersAssumption ==
    Listeners \in Nat \ {0} /\ NULL \notin {"listen", "deadline"}

VARIABLES
    lst,          \* lst[l]: the state of listener l
    busy,         \* the listeners with a request in flight
    errCh,        \* the errors sent and not received; the channel has room
                  \* for one of each listener, and none sends a second
    runErr,       \* what Run returns; NULL is no error
    closing,      \* Run: 0 waits, l shuts listener l down, Listeners+1 returned
    signal,       \* SIGTERM or SIGINT has come
    late          \* the 10 seconds are over

runVars == <<lst, busy, errCh, runErr, closing, signal, late>>

All == 1..Listeners

ListenersTypeOK ==
    /\ lst \in [All -> {"off", "starting", "open", "failed", "closed"}]
    /\ busy \in SUBSET All /\ errCh \in SUBSET All
    /\ runErr \in {NULL, "listen", "deadline"}
    /\ closing \in 0..(Listeners + 1) /\ signal \in BOOLEAN /\ late \in BOOLEAN

ListenersOff ==
    /\ lst = [l \in All |-> "off"] /\ busy = {} /\ errCh = {} /\ runErr = NULL
    /\ closing = 0 /\ signal = FALSE /\ late = FALSE

ListenersDie ==
    /\ lst' = [l \in All |-> "off"] /\ busy' = {} /\ errCh' = {} /\ runErr' = NULL
    /\ closing' = 0 /\ signal' = FALSE /\ late' = FALSE

Returned == closing > Listeners

-----------------------------------------------------------------------------
(* The goroutines are started. *)
RunStarts ==
    /\ phase = "run" /\ \A l \in All : lst[l] = "off"
    /\ lst' = [l \in All |-> "starting"]
    /\ UNCHANGED <<processVars, busy, errCh, runErr, closing, signal, late>>

Now(l, s) == lst' = [lst EXCEPT ![l] = s]

(* Shutdown may have come first: then ListenAndServe returns at once. *)
Listen(l) ==
    /\ lst[l] = "starting"
    /\ Now(l, "open")
    /\ UNCHANGED <<processVars, busy, errCh, runErr, closing, signal, late>>

(* The address is in use, or accepting fails later. *)
ListenFails(l) ==
    /\ lst[l] = "starting" \/ (lst[l] = "open" /\ ~Returned)
    /\ Has("listen.fail")
    /\ Now(l, "failed") /\ errCh' = errCh \union {l}
    /\ UNCHANGED <<processVars, busy, runErr, closing, signal, late>>

RequestStarts(l) ==
    /\ lst[l] = "open" /\ l \notin busy /\ Has("request")
    /\ busy' = busy \union {l}
    /\ UNCHANGED <<processVars, lst, errCh, runErr, closing, signal, late>>

RequestEnds(l) ==
    /\ l \in busy
    /\ busy' = busy \ {l}
    /\ UNCHANGED <<processVars, lst, errCh, runErr, closing, signal, late>>

Signal ==
    /\ phase = "run" /\ Has("signal") /\ ~signal
    /\ signal' = TRUE
    /\ UNCHANGED <<processVars, lst, busy, errCh, runErr, closing, late>>

-----------------------------------------------------------------------------
BugReceivesFirst ==                  \* only an error of the first listener
    /\ closing = 0 /\ 1 \in errCh
    /\ errCh' = errCh \ {1} /\ runErr' = "listen" /\ closing' = 1
    /\ UNCHANGED <<processVars, lst, busy, signal, late>>

(* The select: with an error and a signal both there, it takes either. *)
ReceiveError ==
    /\ closing = 0 /\ errCh # {}
    /\ \E l \in errCh : errCh' = errCh \ {l}
    /\ runErr' = "listen" /\ closing' = 1
    /\ UNCHANGED <<processVars, lst, busy, signal, late>>

ReceiveDone ==
    /\ closing = 0 /\ signal
    /\ closing' = 1
    /\ UNCHANGED <<processVars, lst, busy, errCh, runErr, signal, late>>

(* Shutdown closes the listener at once ... *)
ShutdownCloses ==
    /\ closing \in All
    /\ lst[closing] \in {"starting", "open"}
    /\ Now(closing, "closed")
    /\ UNCHANGED <<processVars, busy, errCh, runErr, closing, signal, late>>

BugStopsAtDeadline ==                \* returns the error of the first Shutdown
    /\ closing \in All
    /\ lst[closing] \in {"failed", "closed"}
    /\ closing \notin busy \/ late
    /\ IF closing \in busy
       THEN closing' = Listeners + 1 /\ runErr' = IF runErr = NULL THEN "deadline" ELSE runErr
       ELSE closing' = closing + 1 /\ UNCHANGED runErr
    /\ UNCHANGED <<processVars, lst, busy, errCh, signal, late>>

(* ... and waits for its requests, or for the deadline. *)
ShutdownReturns ==
    /\ closing \in All
    /\ lst[closing] \in {"failed", "closed"}
    /\ closing \notin busy \/ late
    /\ runErr' = IF closing \in busy /\ runErr = NULL THEN "deadline" ELSE runErr
    /\ closing' = closing + 1
    /\ UNCHANGED <<processVars, lst, busy, errCh, signal, late>>

DeadlinePasses ==
    /\ closing \in All /\ ~late
    /\ late' = TRUE
    /\ UNCHANGED <<processVars, lst, busy, errCh, runErr, closing, signal>>

Run ==
    \/ RunStarts \/ ReceiveError \/ ReceiveDone
    \/ ShutdownCloses \/ ShutdownReturns \/ DeadlinePasses

Serve ==
    \/ \E l \in All : Listen(l) \/ ListenFails(l) \/ RequestStarts(l) \/ RequestEnds(l)
    \/ Signal
=============================================================================
