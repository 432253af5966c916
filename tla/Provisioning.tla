---------------------------- MODULE Provisioning ----------------------------
(***************************************************************************)
(* device.Provision, called by the admin page that adds a device           *)
(* (DeviceCreate), and the lookup of /api/setup, which a device calls.     *)
(* Requests run concurrently and every store call is a step, so two of     *)
(* them may add the same MAC, and devices may be deleted meanwhile; the    *)
(* columns mac, api_key and friendly_id are unique, and an id is used      *)
(* again when the last row is deleted.                                     *)
(***************************************************************************)
EXTENDS Process

CONSTANTS
    MACs,         \* the devices there are, by their canonical MAC
    Spellings,    \* what an administrator may type for a MAC
    MAC,          \* MAC[s]: the canonical form of a spelling, NormalizeMAC
    Credentials,  \* bound: random api keys with their friendly ids
    MaxId,        \* bound: ids of devices
    Attempts,     \* how often an insert is tried: 5
    Requests      \* bound: concurrent requests

Ids == 1..MaxId

Device == [mac : Spellings, credentials : Credentials]

ASSUME ProvisioningAssumption ==
    /\ MACs \subseteq Spellings /\ MAC \in [Spellings -> MACs]
    /\ \A m \in MACs : MAC[m] = m
    /\ MaxId \in Nat /\ Attempts \in Nat \ {0}
    /\ NULL \notin Device

VARIABLES
    registered,   \* registered[i]: the row of devices with id i, or NULL
    adding        \* adding[r]: the Provision of request r

provisionVars == <<registered, adding>>

(* id: the row it inserted.  failed: one of its statements failed.  gone:  *)
(* the row it inserted was deleted before it was read back.                *)
NotAdding == [pc |-> "idle", mac |-> NULL, tries |-> 0, id |-> 0,
              failed |-> FALSE, gone |-> FALSE, answer |-> NULL]

Adding == [pc : {"idle", "find", "insert", "get", "find again", "done"},
           mac : Spellings \union {NULL}, tries : 0..Attempts, id : 0..MaxId,
           failed : BOOLEAN, gone : BOOLEAN, answer : Device \union {NULL}]

ProvisioningTypeOK ==
    /\ registered \in [Ids -> Device \union {NULL}]
    /\ adding \in [Requests -> Adding]

ProvisioningInit ==
    /\ registered = [i \in Ids |-> NULL]
    /\ adding = [r \in Requests |-> NotAdding]

ProvisioningDie == adding' = [r \in Requests |-> NotAdding] /\ UNCHANGED registered

-----------------------------------------------------------------------------
(* GetDeviceByMAC: the rows with a MAC, none or one. *)
WithMAC(m) == {d \in {registered[i] : i \in Ids} \ {NULL} : d.mac = m}

(* The id SQLite gives a new row: one more than the largest there is. *)
IsNext(id) ==
    LET used == {i \in Ids : registered[i] # NULL} IN
    /\ id - 1 \in used \union {0}
    /\ \A i \in used : i < id

Continues(r, d) ==
    /\ adding' = [adding EXCEPT ![r] = d]
    /\ UNCHANGED processVars

Answers(r, d, row) ==
    Continues(r, [NotAdding EXCEPT !.pc = "done", !.failed = d.failed, !.answer = row])

Failed(r) == [adding[r] EXCEPT !.failed = TRUE]

(* DeviceCreate hands the MAC on as it was typed. *)
DeviceCreate(r, s) ==
    /\ phase = "run" /\ Has("device.add")
    /\ adding[r].pc \in {"idle", "done"}
    /\ Continues(r, [NotAdding EXCEPT !.pc = "find", !.mac = s])
    /\ UNCHANGED registered

FindDevice(r) ==
    /\ adding[r].pc = "find"
    /\ \/ \E row \in WithMAC(adding[r].mac) : Answers(r, adding[r], row)
       \/ WithMAC(adding[r].mac) = {} /\ Continues(r, [adding[r] EXCEPT !.pc = "insert"])
       \/ Has("store.fail") /\ Answers(r, Failed(r), NULL)
    /\ UNCHANGED registered

(* The insert of CreateDevice fails if the MAC, or credentials that chance *)
(* has drawn before, are there already.                                    *)
InsertDevice(r) ==
    /\ adding[r].pc = "insert"
    /\ \/ \E c \in Credentials :
             IF \A i \in Ids : registered[i] # NULL =>
                    registered[i].mac # adding[r].mac /\ registered[i].credentials # c
             THEN \E id \in Ids :
                     /\ IsNext(id)
                     /\ registered' = [registered EXCEPT
                            ![id] = [mac |-> adding[r].mac, credentials |-> c]]
                     /\ Continues(r, [adding[r] EXCEPT !.pc = "get", !.id = id])
             ELSE /\ Continues(r, [adding[r] EXCEPT !.pc = "find again"])
                  /\ UNCHANGED registered
       \/ /\ Has("store.fail")
          /\ Continues(r, [Failed(r) EXCEPT !.pc = "find again"])
          /\ UNCHANGED registered

(* CreateDevice reads the row back by its id. *)
GetDevice(r) ==
    LET row == registered[adding[r].id] IN
    /\ adding[r].pc = "get"
    /\ \/ row # NULL /\ Answers(r, adding[r], row)
       \/ row = NULL /\ Continues(r, [adding[r] EXCEPT !.pc = "find again"])
       \/ Has("store.fail") /\ Continues(r, [Failed(r) EXCEPT !.pc = "find again"])
    /\ UNCHANGED registered

(* The attempt is over; the last one has no device. *)
TriesAgain(r, d) ==
    IF d.tries + 1 < Attempts
    THEN Continues(r, [d EXCEPT !.pc = "insert", !.tries = @ + 1])
    ELSE Answers(r, d, NULL)

BugNoSecondLook(r) ==                \* every failed insert is a clash
    /\ adding[r].pc = "find again"
    /\ TriesAgain(r, adding[r])
    /\ UNCHANGED registered

(* "A concurrent setup for the same MAC may have won the race." *)
FindAgain(r) ==
    /\ adding[r].pc = "find again"
    /\ \/ \E row \in WithMAC(adding[r].mac) : Answers(r, adding[r], row)
       \/ WithMAC(adding[r].mac) = {} /\ TriesAgain(r, adding[r])
       \/ Has("store.fail") /\ TriesAgain(r, Failed(r))
    /\ UNCHANGED registered

DeviceDelete(id) ==
    /\ phase = "run" /\ Has("device.remove")
    /\ registered[id] # NULL
    /\ registered' = [registered EXCEPT ![id] = NULL]
    /\ adding' = [r \in Requests |->
           IF adding[r].pc = "get" /\ adding[r].id = id
           THEN [adding[r] EXCEPT !.gone = TRUE] ELSE adding[r]]
    /\ UNCHANGED processVars

Provision(r) == FindDevice(r) \/ InsertDevice(r) \/ GetDevice(r) \/ FindAgain(r)

(* Setup looks for the canonical form of the device's own ID header. *)
SetsUp(m) == WithMAC(MAC[m]) # {}

Provisioning ==
    \/ \E r \in Requests : Provision(r) \/ \E s \in Spellings : DeviceCreate(r, s)
    \/ \E id \in Ids : DeviceDelete(id)
=============================================================================
