---------------------------- MODULE ServingProofs ----------------------------
(***************************************************************************)
(* What a process does while it serves: its shutdown for any number of     *)
(* listeners, registrations for any number of concurrent requests, and the *)
(* sweep of assets for any number of screens and files.                    *)
(***************************************************************************)
EXTENDS SecretProofs

(* The components share nothing but the process: each takes a step of its  *)
(* own, ends with the process, or stays as it is.                          *)
LEMMA NextOfServing ==
    ASSUME [Next]_serverVars
    PROVE  /\ Run \/ Serve \/ ListenersDie \/ UNCHANGED runVars
           /\ Provisioning \/ ProvisioningDie \/ UNCHANGED provisionVars
           /\ AssetStep \/ AssetsDie \/ UNCHANGED assetVars
<1>1. CASE Ends
    BY <1>1 DEF Ends
<1>2. CASE Startup
    BY <1>2 DEF Startup, ButProcess, ButSecrets, ButTls
<1>3. CASE Tls
    BY <1>3 DEF Tls, ButTls
<1>4. CASE Listening
    BY <1>4 DEF Listening, ButListeners
<1>5. CASE Serving
    BY <1>5 DEF Serving, ButSecrets, ButProvisioning, ButAssets
<1>6. CASE Outside
    BY <1>6 DEF Outside, ButSecrets, ButTls
<1>7. CASE UNCHANGED serverVars
    BY <1>7 DEF serverVars
<1> QED
    BY <1>1, <1>2, <1>3, <1>4, <1>5, <1>6, <1>7 DEF Next

-----------------------------------------------------------------------------
(* Shutdown.  What CleanExit says of every listener once Run has returned  *)
(* is true of those that have been shut down while it goes through them.   *)

ShutDown(l) == l \in All /\ l < closing

RunInv ==
    /\ ListenersTypeOK
    /\ \A l \in All : ShutDown(l) =>
          /\ lst[l] \in {"failed", "closed"}
          /\ runErr = NULL => l \notin busy
    /\ closing > 0 /\ runErr = NULL => signal

LEMMA RunKeeps ==
    ASSUME RunInv, Run
    PROVE  RunInv'
<1> USE ListenersAssumption DEF RunInv, ListenersTypeOK, ShutDown, All
<1>1. CASE RunStarts
    BY <1>1 DEF RunStarts
<1>2. CASE ReceiveError
    BY <1>2 DEF ReceiveError
<1>3. CASE ReceiveDone
    BY <1>3 DEF ReceiveDone
<1>4. CASE ShutdownCloses
    BY <1>4 DEF ShutdownCloses, Now
<1>5. CASE ShutdownReturns
    <2>1. closing \in All /\ closing' = closing + 1 /\ UNCHANGED <<lst, busy, errCh, signal, late>>
        BY <1>5 DEF ShutdownReturns
    <2>2. runErr' \in {NULL, "listen", "deadline"}
        BY <1>5 DEF ShutdownReturns
    <2>3. runErr' = NULL => runErr = NULL /\ closing \notin busy
        BY <1>5 DEF ShutdownReturns
    <2>4. lst[closing] \in {"failed", "closed"}
        BY <1>5 DEF ShutdownReturns
    <2> QED
        BY <2>1, <2>2, <2>3, <2>4
<1>6. CASE DeadlinePasses
    BY <1>6 DEF DeadlinePasses
<1> QED
    BY <1>1, <1>2, <1>3, <1>4, <1>5, <1>6 DEF Run

LEMMA ServeKeeps ==
    ASSUME RunInv, Serve
    PROVE  RunInv'
<1> USE DEF RunInv, ListenersTypeOK, ShutDown
<1>1. ASSUME NEW l \in All, Listen(l) \/ ListenFails(l) PROVE RunInv'
    BY <1>1 DEF Listen, ListenFails, Now
<1>2. ASSUME NEW l \in All, RequestStarts(l) \/ RequestEnds(l) PROVE RunInv'
    BY <1>2 DEF RequestStarts, RequestEnds
<1>3. CASE Signal
    BY <1>3 DEF Signal
<1> QED
    BY <1>1, <1>2, <1>3 DEF Serve

LEMMA ClosingStarts == 0 \in 0..(Listeners + 1)
BY ListenersAssumption

LEMMA ListenersDieKeeps ==
    ASSUME ListenersDie
    PROVE  RunInv'
<1>1. ListenersTypeOK'
    BY ClosingStarts DEF ListenersDie, ListenersTypeOK
<1>2. closing' = 0 /\ \A l \in All : ~(l < 0)
    BY ListenersAssumption DEF ListenersDie, All
<1> QED
    BY <1>1, <1>2 DEF RunInv, ShutDown

(* The listeners that Run has been through are shut down, and their        *)
(* requests are over or the error says they are not.                       *)
THEOREM RunInvariant == Spec => []RunInv
<1>1. Init => RunInv
    <2> SUFFICES ASSUME Init PROVE RunInv
        OBVIOUS
    <2>1. ListenersTypeOK
        BY ClosingStarts DEF Init, ListenersOff, ListenersTypeOK
    <2>2. closing = 0 /\ \A l \in All : ~(l < 0)
        BY ListenersAssumption DEF Init, ListenersOff, All
    <2> QED
        BY <2>1, <2>2 DEF RunInv, ShutDown
<1>2. RunInv /\ [Next]_serverVars => RunInv'
    <2> SUFFICES ASSUME RunInv, [Next]_serverVars PROVE RunInv'
        OBVIOUS
    <2>1. CASE UNCHANGED runVars
        BY <2>1 DEF runVars, RunInv, ListenersTypeOK, ShutDown
    <2> QED
        BY <2>1, RunKeeps, ServeKeeps, ListenersDieKeeps, NextOfServing
<1> QED
    BY <1>1, <1>2, PTL DEF Spec

(* When Run returns, no listener is open, whichever failed and whichever   *)
(* was slow; without an error it was told to stop and cut nothing short.   *)
THEOREM RunEndsClean == Spec => []CleanExit
<1>1. RunInv => CleanExit
    BY ListenersAssumption DEF RunInv, ListenersTypeOK, ShutDown, All, Returned, CleanExit
<1> QED
    BY <1>1, RunInvariant, PTL

-----------------------------------------------------------------------------
(* Registrations.  A request that reads a row back by its id gets its own  *)
(* device because the row is still the one it inserted, unless it has been *)
(* deleted since.                                                          *)

ReadsItsOwn(d) ==
    d.pc = "get" /\ ~d.gone =>
        /\ d.id \in Ids /\ registered[d.id] # NULL
        /\ registered[d.id].mac = d.mac

ProvisioningInv ==
    /\ ProvisioningTypeOK
    /\ \A r \in Requests :
          /\ adding[r].pc \notin {"idle", "done"} => adding[r].mac \in Spellings
          /\ adding[r].pc = "get" => adding[r].id \in Ids
          /\ ReadsItsOwn(adding[r])

LEMMA NotAddingType == NotAdding \in Adding /\ NotAdding.pc = "idle"
BY ProvisioningAssumption DEF NotAdding, Adding

(* A request that looks nothing up by an id goes on. *)
LEMMA ContinuesKeeps ==
    ASSUME ProvisioningInv, NEW r \in Requests, NEW d \in Adding, Continues(r, d),
           UNCHANGED registered, d.pc # "get", d.pc # "done" => d.mac \in Spellings
    PROVE  ProvisioningInv'
BY DEF ProvisioningInv, ProvisioningTypeOK, Continues, ReadsItsOwn

LEMMA AnswersKeeps ==
    ASSUME ProvisioningInv, NEW r \in Requests, NEW d \in Adding,
           NEW row \in Device \union {NULL}, Answers(r, d, row), UNCHANGED registered
    PROVE  ProvisioningInv'
<1> DEFINE a == [NotAdding EXCEPT !.pc = "done", !.failed = d.failed, !.answer = row]
<1>1. d.failed \in BOOLEAN
    BY DEF Adding
<1>2. a \in Adding /\ a.pc = "done"
    BY <1>1, NotAddingType DEF Adding
<1>3. Continues(r, a)
    BY DEF Answers
<1> HIDE DEF a
<1> QED
    BY <1>2, <1>3, ContinuesKeeps

(* The job of a request that is under way, and what its steps make of it. *)
LEMMA JobOfRequest ==
    ASSUME ProvisioningInv, NEW r \in Requests, adding[r].pc \notin {"idle", "done"}
    PROVE  /\ adding[r] \in Adding /\ Failed(r) \in Adding
           /\ adding[r].mac \in Spellings /\ Failed(r).mac = adding[r].mac
           /\ \A pc \in {"insert", "find again"} :
                 /\ [adding[r] EXCEPT !.pc = pc] \in Adding
                 /\ [adding[r] EXCEPT !.pc = pc].mac \in Spellings
                 /\ [adding[r] EXCEPT !.pc = pc].pc = pc
                 /\ [Failed(r) EXCEPT !.pc = pc] \in Adding
                 /\ [Failed(r) EXCEPT !.pc = pc].mac \in Spellings
                 /\ [Failed(r) EXCEPT !.pc = pc].pc = pc
<1>1. adding[r] \in Adding /\ adding[r].mac \in Spellings
    BY DEF ProvisioningInv, ProvisioningTypeOK
<1>2. Failed(r) \in Adding /\ Failed(r).mac = adding[r].mac
    BY <1>1 DEF Failed, Adding
<1> QED
    BY <1>1, <1>2 DEF Adding

(* One attempt more is within the bound. *)
LEMMA OneMoreTry ==
    ASSUME NEW d \in Adding, d.tries + 1 < Attempts
    PROVE  [d EXCEPT !.pc = "insert", !.tries = d.tries + 1] \in Adding
<1>1. d.tries \in 0..Attempts
    BY DEF Adding
<1>2. d.tries + 1 \in 0..Attempts
    BY <1>1, ProvisioningAssumption
<1> QED
    BY <1>2 DEF Adding

LEMMA RowsAreDevices ==
    ASSUME ProvisioningTypeOK, NEW m
    PROVE  WithMAC(m) \subseteq Device
BY DEF ProvisioningTypeOK, WithMAC

LEMMA TriesAgainKeeps ==
    ASSUME ProvisioningInv, NEW r \in Requests, NEW d \in Adding, d.mac \in Spellings,
           TriesAgain(r, d), UNCHANGED registered
    PROVE  ProvisioningInv'
<1>1. CASE d.tries + 1 < Attempts
    <2> DEFINE e == [d EXCEPT !.pc = "insert", !.tries = d.tries + 1]
    <2>1. e \in Adding
        BY <1>1, OneMoreTry
    <2>2. e.mac = d.mac /\ e.pc = "insert"
        BY DEF Adding
    <2>3. Continues(r, e)
        BY <1>1 DEF TriesAgain
    <2> HIDE DEF e
    <2> QED
        BY <2>1, <2>2, <2>3, ContinuesKeeps
<1>2. CASE ~(d.tries + 1 < Attempts)
    BY <1>2, AnswersKeeps DEF TriesAgain
<1> QED
    BY <1>1, <1>2

(* An insert takes an id that is free, so it disturbs no other request. *)
LEMMA InsertKeeps ==
    ASSUME ProvisioningInv, NEW r \in Requests, adding[r].pc = "insert",
           NEW c \in Credentials, NEW id \in Ids, IsNext(id),
           registered' = [registered EXCEPT ![id] = [mac |-> adding[r].mac, credentials |-> c]],
           Continues(r, [adding[r] EXCEPT !.pc = "get", !.id = id])
    PROVE  ProvisioningInv'
<1> DEFINE e == [adding[r] EXCEPT !.pc = "get", !.id = id]
           row == [mac |-> adding[r].mac, credentials |-> c]
<1>1. adding[r] \in Adding /\ adding[r].mac \in Spellings
    BY JobOfRequest
<1>2. row \in Device /\ row # NULL /\ row.mac = adding[r].mac
    BY <1>1, ProvisioningAssumption DEF Device
<1>3. id \in 0..MaxId
    BY ProvisioningAssumption DEF Ids
<1>4. e \in Adding /\ e.pc = "get" /\ e.id = id /\ e.mac = adding[r].mac
    BY <1>1, <1>3 DEF Adding
<1>5. registered[id] = NULL
    <2>1. ~(id < id)
        BY ProvisioningAssumption DEF Ids
    <2> QED
        BY <2>1 DEF IsNext
<1>6. adding' = [adding EXCEPT ![r] = e] /\ registered' = [registered EXCEPT ![id] = row]
    BY DEF Continues
<1> HIDE DEF e, row
<1>7. ProvisioningTypeOK'
    BY <1>2, <1>4, <1>6 DEF ProvisioningInv, ProvisioningTypeOK
<1>8. ASSUME NEW q \in Requests
      PROVE  /\ adding'[q].pc \notin {"idle", "done"} => adding'[q].mac \in Spellings
             /\ adding'[q].pc = "get" => adding'[q].id \in Ids
             /\ ReadsItsOwn(adding[q])'
    <2>1. CASE q = r
        <3>1. adding'[q] = e /\ registered'[id] = row
            BY <1>6, <2>1 DEF ProvisioningInv, ProvisioningTypeOK
        <3> QED
            BY <1>1, <1>2, <1>4, <3>1 DEF ReadsItsOwn
    <2>2. CASE q # r
        <3>1. adding'[q] = adding[q]
            BY <1>6, <2>2 DEF ProvisioningInv, ProvisioningTypeOK
        <3>2. \A i \in Ids : registered[i] # NULL => registered'[i] = registered[i]
            BY <1>5, <1>6 DEF ProvisioningInv, ProvisioningTypeOK
        <3> QED
            BY <3>1, <3>2 DEF ProvisioningInv, ReadsItsOwn
    <2> QED
        BY <2>1, <2>2
<1> QED
    BY <1>7, <1>8 DEF ProvisioningInv

LEMMA ProvisionKeeps ==
    ASSUME ProvisioningInv, NEW r \in Requests, Provision(r)
    PROVE  ProvisioningInv'
<1>1. /\ adding[r].pc \notin {"idle", "done"}
      /\ ProvisioningTypeOK
    BY DEF Provision, FindDevice, InsertDevice, GetDevice, FindAgain, ProvisioningInv
<1>2. CASE FindDevice(r)
    BY <1>1, <1>2, JobOfRequest, RowsAreDevices, ContinuesKeeps, AnswersKeeps DEF FindDevice
<1>3. CASE InsertDevice(r)
    BY <1>1, <1>3, JobOfRequest, ContinuesKeeps, InsertKeeps DEF InsertDevice
<1>4. CASE GetDevice(r)
    <2>1. registered[adding[r].id] \in Device \union {NULL}
        BY <1>4 DEF GetDevice, ProvisioningInv, ProvisioningTypeOK
    <2> QED
        BY <1>1, <1>4, <2>1, JobOfRequest, ContinuesKeeps, AnswersKeeps DEF GetDevice
<1>5. CASE FindAgain(r)
    BY <1>1, <1>5, JobOfRequest, RowsAreDevices, AnswersKeeps, TriesAgainKeeps DEF FindAgain
<1> QED
    BY <1>2, <1>3, <1>4, <1>5 DEF Provision

LEMMA DeviceCreateKeeps ==
    ASSUME ProvisioningInv, NEW r \in Requests, NEW s \in Spellings, DeviceCreate(r, s)
    PROVE  ProvisioningInv'
<1> DEFINE d == [NotAdding EXCEPT !.pc = "find", !.mac = s]
<1>1. d \in Adding /\ d.mac = s /\ d.pc = "find"
    BY NotAddingType DEF Adding
<1>2. Continues(r, d) /\ UNCHANGED registered
    BY DEF DeviceCreate
<1> HIDE DEF d
<1> QED
    BY <1>1, <1>2, ContinuesKeeps

(* A request whose row is deleted is told apart from then on. *)
LEMMA DeviceDeleteKeeps ==
    ASSUME ProvisioningInv, NEW id \in Ids, DeviceDelete(id)
    PROVE  ProvisioningInv'
<1>1. registered' = [registered EXCEPT ![id] = NULL]
    BY DEF DeviceDelete
<1>2. ASSUME NEW r \in Requests
      PROVE  /\ adding'[r] \in Adding
             /\ adding'[r].pc = adding[r].pc /\ adding'[r].mac = adding[r].mac
             /\ adding'[r].id = adding[r].id
             /\ adding'[r].gone = (adding[r].gone \/ (adding[r].pc = "get" /\ adding[r].id = id))
    <2>1. adding[r] \in Adding
        BY DEF ProvisioningInv, ProvisioningTypeOK
    <2>2. adding'[r] = IF adding[r].pc = "get" /\ adding[r].id = id
                       THEN [adding[r] EXCEPT !.gone = TRUE] ELSE adding[r]
        BY DEF DeviceDelete
    <2>3. CASE adding[r].pc = "get" /\ adding[r].id = id
        BY <2>1, <2>2, <2>3 DEF Adding
    <2>4. CASE ~(adding[r].pc = "get" /\ adding[r].id = id)
        BY <2>1, <2>2, <2>4 DEF Adding
    <2> QED
        BY <2>3, <2>4
<1>3. adding' \in [Requests -> Adding]
    <2>1. \E f : adding' = [r \in Requests |-> f[r]]
        <3> WITNESS [r \in Requests |->
                        IF adding[r].pc = "get" /\ adding[r].id = id
                        THEN [adding[r] EXCEPT !.gone = TRUE] ELSE adding[r]]
        <3> QED
            BY DEF DeviceDelete
    <2> QED
        BY <1>2, <2>1
<1>4. ProvisioningTypeOK'
    BY <1>1, <1>3 DEF ProvisioningInv, ProvisioningTypeOK
<1>5. ASSUME NEW r \in Requests PROVE ReadsItsOwn(adding[r])'
    BY <1>1, <1>2 DEF ProvisioningInv, ProvisioningTypeOK, ReadsItsOwn
<1> QED
    BY <1>2, <1>4, <1>5 DEF ProvisioningInv

(* A request that is about to read its row back will find its own device,  *)
(* unless the row was deleted.                                             *)
THEOREM ProvisioningInvariant == Spec => []ProvisioningInv
<1>1. Init => ProvisioningInv
    BY NotAddingType DEF Init, ProvisioningInit, ProvisioningInv, ProvisioningTypeOK,
                         ReadsItsOwn
<1>2. ProvisioningInv /\ [Next]_serverVars => ProvisioningInv'
    <2> SUFFICES ASSUME ProvisioningInv, [Next]_serverVars PROVE ProvisioningInv'
        OBVIOUS
    <2>1. CASE ProvisioningDie
        BY <2>1, NotAddingType
        DEF ProvisioningDie, ProvisioningInv, ProvisioningTypeOK, ReadsItsOwn
    <2>2. CASE UNCHANGED provisionVars
        BY <2>2 DEF provisionVars, ProvisioningInv, ProvisioningTypeOK, ReadsItsOwn
    <2> QED
        BY <2>1, <2>2, ProvisionKeeps, DeviceCreateKeeps, DeviceDeleteKeeps, NextOfServing
        DEF Provisioning
<1> QED
    BY <1>1, <1>2, PTL DEF Spec

-----------------------------------------------------------------------------
(* What a request is answered with. *)
Answered(r, d, row) == adding'[r].answer = row /\ adding'[r].failed = d.failed

LEMMA AnsweredIs ==
    ASSUME ProvisioningInv, NEW r \in Requests, NEW d, NEW row, Answers(r, d, row)
    PROVE  Answered(r, d, row)
<1> DEFINE a == [NotAdding EXCEPT !.pc = "done", !.failed = d.failed, !.answer = row]
<1>1. adding'[r] = a
    BY DEF Answers, Continues, ProvisioningInv, ProvisioningTypeOK
<1>2. a.answer = row /\ a.failed = d.failed
    BY DEF NotAdding
<1> QED
    BY <1>1, <1>2 DEF Answered

(* Only a step of its own ends a request, and only by an answer. *)
LEMMA WhoAnswers ==
    ASSUME ProvisioningInv, [Next]_serverVars, NEW r \in Requests,
           adding[r].pc # "done", adding'[r].pc = "done"
    PROVE  FindDevice(r) \/ GetDevice(r) \/ FindAgain(r)
<1>1. adding \in [Requests -> Adding]
    BY DEF ProvisioningInv, ProvisioningTypeOK
<1>2. ASSUME NEW q \in Requests, NEW d, q # r, Continues(q, d) PROVE FALSE
    BY <1>1, <1>2 DEF Continues
<1>3. ASSUME NEW q \in Requests, Provision(q), q # r PROVE FALSE
    BY <1>2, <1>3 DEF Provision, FindDevice, InsertDevice, GetDevice, FindAgain, TriesAgain,
                      Answers
<1>4. ASSUME InsertDevice(r) PROVE FALSE
    <2>1. \/ \E id \in Ids : Continues(r, [adding[r] EXCEPT !.pc = "get", !.id = id])
          \/ Continues(r, [adding[r] EXCEPT !.pc = "find again"])
          \/ Continues(r, [Failed(r) EXCEPT !.pc = "find again"])
        BY <1>4 DEF InsertDevice
    <2> QED
        BY <1>1, <2>1 DEF Continues, Failed, Adding
<1>5. ASSUME NEW q \in Requests, NEW s \in Spellings, DeviceCreate(q, s) PROVE FALSE
    BY <1>1, <1>5, NotAddingType DEF DeviceCreate, Continues, Adding
<1>6. ASSUME NEW id \in Ids, DeviceDelete(id) PROVE FALSE
    BY <1>1, <1>6 DEF DeviceDelete, Adding
<1>7. CASE ProvisioningDie
    BY <1>7, NotAddingType DEF ProvisioningDie
<1>8. CASE UNCHANGED provisionVars
    BY <1>8 DEF provisionVars
<1> QED
    BY <1>3, <1>4, <1>5, <1>6, <1>7, <1>8, NextOfServing DEF Provisioning, Provision

(* Whoever adds a MAC is answered with the device that has it, whether it  *)
(* or another request added it, unless its own row was deleted before it   *)
(* read it back; an error says that there is no such device, or that the   *)
(* store failed.                                                           *)
THEOREM LostRacesAreNoErrors == Spec => LostRaceIsNoError
<1>1. ProvisioningInv /\ [Next]_serverVars
          => [\A r \in Requests :
                 adding[r].pc # "done" /\ adding'[r].pc = "done" /\ ~adding[r].gone =>
                     \/ adding'[r].answer \in WithMAC(adding[r].mac)
                     \/ /\ adding'[r].answer = NULL
                        /\ adding'[r].failed \/ WithMAC(adding[r].mac) = {}]_serverVars
    <2> SUFFICES ASSUME ProvisioningInv, [Next]_serverVars, NEW r \in Requests,
                        adding[r].pc # "done", adding'[r].pc = "done", ~adding[r].gone
                 PROVE  \/ adding'[r].answer \in WithMAC(adding[r].mac)
                        \/ /\ adding'[r].answer = NULL
                           /\ adding'[r].failed \/ WithMAC(adding[r].mac) = {}
        OBVIOUS
    <2>1. adding \in [Requests -> Adding] /\ adding[r] \in Adding
        BY DEF ProvisioningInv, ProvisioningTypeOK
    <2>2. ASSUME NEW d \in Adding, d.pc # "done", Continues(r, d) PROVE FALSE
        BY <2>1, <2>2 DEF Continues
    <2>3. Failed(r) \in Adding /\ Failed(r).failed = TRUE
        BY <2>1 DEF Failed, Adding
    <2>4. \A pc \in {"insert", "find again"} :
              /\ [adding[r] EXCEPT !.pc = pc] \in Adding
              /\ [adding[r] EXCEPT !.pc = pc].pc # "done"
              /\ [Failed(r) EXCEPT !.pc = pc] \in Adding
              /\ [Failed(r) EXCEPT !.pc = pc].pc # "done"
        BY <2>1, <2>3 DEF Adding
    <2>5. ASSUME NEW d \in Adding, TriesAgain(r, d) PROVE Answered(r, d, NULL)
        <3>1. CASE d.tries + 1 < Attempts
            <4> DEFINE e == [d EXCEPT !.pc = "insert", !.tries = d.tries + 1]
            <4>1. e \in Adding
                BY <3>1, OneMoreTry
            <4>2. e.pc # "done"
                BY DEF Adding
            <4>3. Continues(r, e)
                BY <2>5, <3>1 DEF TriesAgain
            <4> HIDE DEF e
            <4> QED
                BY <2>2, <4>1, <4>2, <4>3
        <3>2. CASE ~(d.tries + 1 < Attempts)
            BY <2>5, <3>2, AnsweredIs DEF TriesAgain
        <3> QED
            BY <3>1, <3>2
    <2>6. CASE FindDevice(r)
        BY <2>2, <2>3, <2>4, <2>6, AnsweredIs DEF FindDevice, Answered
    <2>7. CASE GetDevice(r)
        <3>1. registered[adding[r].id] \in WithMAC(adding[r].mac)
            BY <2>7 DEF GetDevice, ProvisioningInv, ReadsItsOwn, WithMAC
        <3> QED
            BY <2>2, <2>4, <2>7, <3>1, AnsweredIs DEF GetDevice, Answered
    <2>8. CASE FindAgain(r)
        BY <2>1, <2>3, <2>5, <2>8, AnsweredIs DEF FindAgain, Answered
    <2> QED
        BY <2>6, <2>7, <2>8, WhoAnswers
<1> QED
    BY <1>1, ProvisioningInvariant, PTL DEF Spec, LostRaceIsNoError

-----------------------------------------------------------------------------
(* The sweep of assets.  A file that a screen names is either older than   *)
(* the sweep's list, and on it, or younger than the grace.                 *)

AssetsInv ==
    /\ AssetsTypeOK
    /\ ScreensFileExists
    /\ upload # NULL => upload.file \in assets \ aged
    /\ keep # NULL => \A s \in Screens :
          names[s] \in keep \union again \union (assets \ aged) \union {NULL}

LEMMA AssetStepKeeps ==
    ASSUME AssetsInv, AssetStep
    PROVE  AssetsInv'
<1> USE DEF AssetsInv, AssetsTypeOK, ScreensFileExists
<1>1. ASSUME NEW s \in Screens, UploadStarts(s) PROVE AssetsInv'
    <2>1. PICK f \in Files \ assets :
              /\ upload' = [pc |-> "copy", screen |-> s, file |-> f]
              /\ assets' = assets \union {f}
        BY <1>1 DEF UploadStarts
    <2> QED
        BY <1>1, <2>1 DEF UploadStarts
<1>2. ASSUME NEW s \in Screens, FormOpens(s) PROVE AssetsInv'
    BY <1>2 DEF FormOpens
<1>3. CASE UploadCopied
    BY <1>3 DEF UploadCopied
<1>4. CASE UploadFails
    BY <1>4 DEF UploadFails
<1>5. CASE UploadSaved
    BY <1>5 DEF UploadSaved
<1>6. CASE FormSaved
    <2>1. /\ form.screen \in Screens /\ form.file \in Files \union {NULL}
          /\ names' = [names EXCEPT ![form.screen] = form.file] /\ form' = NULL
          /\ again' = again \union ({form.file} \ (Named \union {NULL}))
          /\ UNCHANGED <<assets, aged, upload, keep>>
        BY <1>6 DEF FormSaved
    <2>2. form.file \in Named => \E t \in Screens : names[t] = form.file
        BY DEF Named
    <2>3. AssetsTypeOK'
        BY <2>1
    <2>4. form.file \in again' \union {NULL} \/ \E t \in Screens : names[t] = form.file
        BY <2>1, <2>2
    <2>5. ASSUME NEW s \in Screens
          PROVE  \/ names'[s] \in again' \union {NULL}
                 \/ \E t \in Screens : names'[s] = names[t]
        BY <2>1, <2>4
    <2>6. ScreensFileExists'
        BY <2>1, <2>5
    <2>7. keep' # NULL => \A s \in Screens :
              names'[s] \in keep' \union again' \union (assets' \ aged') \union {NULL}
        BY <2>1, <2>5
    <2> QED
        BY <2>1, <2>3, <2>6, <2>7
<1>7. CASE SweepLists
    BY <1>7 DEF SweepLists, Named
<1>8. CASE SweepEnds
    BY <1>8 DEF SweepEnds
<1>9. ASSUME NEW f \in Files, SweepRemoves(f) PROVE AssetsInv'
    BY <1>9 DEF SweepRemoves, Removable
<1>10. ASSUME NEW f \in Files, AssetAges(f) PROVE AssetsInv'
    BY <1>10 DEF AssetAges
<1> QED
    BY <1>1, <1>2, <1>3, <1>4, <1>5, <1>6, <1>7, <1>8, <1>9, <1>10 DEF AssetStep

THEOREM AssetsInvariant == Spec => []AssetsInv
<1>1. Init => AssetsInv
    BY DEF Init, AssetsInit, AssetsInv, AssetsTypeOK, ScreensFileExists
<1>2. AssetsInv /\ [Next]_serverVars => AssetsInv'
    <2> SUFFICES ASSUME AssetsInv, [Next]_serverVars PROVE AssetsInv'
        OBVIOUS
    <2>1. CASE AssetsDie
        BY <2>1 DEF AssetsDie, AssetsInv, AssetsTypeOK, ScreensFileExists
    <2>2. CASE UNCHANGED assetVars
        BY <2>2 DEF assetVars, AssetsInv, AssetsTypeOK, ScreensFileExists
    <2> QED
        BY <2>1, <2>2, AssetStepKeeps, NextOfServing
<1> QED
    BY <1>1, <1>2, PTL DEF Spec

(* The sweep takes no image from a screen, for any number of screens and   *)
(* files, and however it runs into an upload.                              *)
THEOREM SweepTakesNoImage == Spec => []ScreensFileExists
<1>1. AssetsInv => ScreensFileExists
    BY DEF AssetsInv
<1> QED
    BY <1>1, AssetsInvariant, PTL

-----------------------------------------------------------------------------
(* Type correctness of the whole process. *)
THEOREM ServerTypeCorrect == Spec => []ServerTypeOK
<1>1. ProcessInv /\ SecretsInv /\ TlsInv /\ RunInv /\ ProvisioningInv /\ AssetsInv
          => ServerTypeOK
    BY DEF ProcessInv, SecretsInv, TlsInv, RunInv, ProvisioningInv, AssetsInv, ServerTypeOK
<1> QED
    BY <1>1, ProcessInvariant, SecretsInvariant, TlsInvariant, RunInvariant,
       ProvisioningInvariant, AssetsInvariant, PTL
=============================================================================
