------------------------------ MODULE Secrets ------------------------------
(***************************************************************************)
(* Credentials at rest: the key (resolveSecretBox, secret.LoadOrCreateKey),*)
(* the Box, and the migration of what is stored in plaintext               *)
(* (calendar.MigrateEncryption).  A row is a calendar account or an OAuth  *)
(* client; what matters of it is the key its secret is encrypted with.     *)
(***************************************************************************)
EXTENDS Process

CONSTANTS
    Keys,         \* bound: encryption keys
    OwnKey,       \* the operator's -secret-key
    Rows,         \* bound: rows of calendar_accounts and oauth_clients
    Plain,        \* a stored value without a tag: not encrypted
    Legacy        \* a stored value tagged enc:v1:

ASSUME SecretsAssumption ==
    OwnKey \in Keys /\ {NULL, Plain, Legacy} \cap Keys = {} /\ Plain # NULL

VARIABLES
    keyFile,      \* the key in secret.key; NULL: no file, or an empty one
    box,          \* the key of the running process's Box; NULL: disabled
    stored,       \* stored[r]: what encrypts the secret of row r, or NULL
    lost,         \* history: the keys whose file an operator has removed
    overwritten,  \* history: the keys the server itself has overwritten
    gaveUp        \* MigrateEncryption stopped because the store failed

secretVars == <<keyFile, box, stored, lost, overwritten, gaveUp>>

SecretsTypeOK ==
    /\ keyFile \in Keys \union {NULL} /\ box \in Keys \union {NULL}
    /\ stored \in [Rows -> Keys \union {Plain, Legacy, NULL}]
    /\ lost \in SUBSET Keys /\ overwritten \in SUBSET Keys
    /\ gaveUp \in BOOLEAN

SecretsInit ==
    /\ keyFile = NULL /\ box = NULL /\ lost = {} /\ overwritten = {} /\ gaveUp = FALSE
    /\ stored = scenario.stored

SecretsDie ==
    box' = NULL /\ gaveUp' = FALSE /\ UNCHANGED <<keyFile, stored, lost, overwritten>>

(* Keys are random: a new one has not been seen. *)
FreshKeys ==
    Keys \ ({OwnKey, keyFile} \union lost \union overwritten \union {stored[r] : r \in Rows})

-----------------------------------------------------------------------------
Encrypt == IF box = NULL THEN Plain ELSE box

Decrypts(v) == v = Plain \/ (v # NULL /\ v = box)

BugNeedsUpgrade(v) == box # NULL /\ v \notin {NULL, box}   \* all but the current ones

NeedsUpgrade(v) == box # NULL /\ v = Plain

BugNewKeyEachStart ==                \* the key in the file is not read
    /\ phase = "key"
    /\ IF conf.encryption = "file"
       THEN \E k \in Keys \ {OwnKey, keyFile} : keyFile' = k /\ box' = k
       ELSE box' = (IF conf.encryption = "own" THEN OwnKey ELSE NULL) /\ UNCHANGED keyFile
    /\ GoesTo("encrypt")
    /\ UNCHANGED <<stored, lost, overwritten, gaveUp>>

(* secret.New with no key, the given one, or the one read from the file. *)
LoadKey ==
    /\ phase = "key"
    /\ conf.encryption = "file" => keyFile # NULL
    /\ box' = CASE conf.encryption = "off" -> NULL
                [] conf.encryption = "own" -> OwnKey
                [] conf.encryption = "file" -> keyFile
    /\ GoesTo("encrypt")
    /\ UNCHANGED <<keyFile, stored, lost, overwritten, gaveUp>>

(* LoadOrCreateKey makes a key whenever ReadFile has not given it one: the *)
(* file is not there or is empty, or is there and could not be read.       *)
NoKeyRead ==
    /\ phase = "key" /\ conf.encryption = "file"
    /\ keyFile = NULL \/ Has("key.misread")

RecordsOverwrite == overwritten' = overwritten \union ({keyFile} \ {NULL, keyFile'})

CreateKey ==
    /\ NoKeyRead
    /\ \E k \in FreshKeys : keyFile' = k /\ box' = k
    /\ RecordsOverwrite
    /\ GoesTo("encrypt")
    /\ UNCHANGED <<stored, lost, gaveUp>>

(* The file is written in place: if it cannot be opened it stays as it was;*)
(* if the write fails, or the process dies in it, it is left empty or cut  *)
(* short.  A key that was cut short is a key.                              *)
CreateKeyFails ==
    /\ NoKeyRead
    /\ Has("disk.fail") \/ Has("crash")
    /\ keyFile' \in FreshKeys \union {NULL, keyFile}
    /\ RecordsOverwrite
    /\ GoesTo("down")
    /\ UNCHANGED <<box, stored, lost, gaveUp>>

(* MigrateEncryption rewrites one row after the other, and stops at the    *)
(* first it cannot read or write; the error is logged.                     *)
MigrateRow(r) ==
    /\ phase = "encrypt"
    /\ NeedsUpgrade(stored[r])
    /\ IF Decrypts(stored[r])
       THEN stored' = [stored EXCEPT ![r] = Encrypt] /\ UNCHANGED phase
       ELSE phase' = "cert" /\ UNCHANGED stored
    /\ UNCHANGED <<scenario, conf, schema, content, seedAt, keyFile, box, lost, overwritten,
                   gaveUp>>

MigrateStops ==
    /\ phase = "encrypt"
    /\ Has("store.fail")
    /\ gaveUp' = TRUE
    /\ GoesTo("cert")
    /\ UNCHANGED <<keyFile, box, stored, lost, overwritten>>

MigrationDone ==
    /\ phase = "encrypt"
    /\ \A r \in Rows : ~NeedsUpgrade(stored[r])
    /\ GoesTo("cert")
    /\ UNCHANGED secretVars

SetUpSecrets ==
    \/ LoadKey \/ CreateKey \/ CreateKeyFails
    \/ (\E r \in Rows : MigrateRow(r)) \/ MigrateStops \/ MigrationDone

-----------------------------------------------------------------------------
(* While the server runs. A new account or client is stored with the key   *)
(* of the Box; saving one reads it first, and fails if it cannot.          *)
Stores(r, v) ==
    /\ phase = "run" /\ Has("secret.save")
    /\ stored' = [stored EXCEPT ![r] = v]
    /\ UNCHANGED <<processVars, keyFile, box, lost, overwritten, gaveUp>>

CreateSecret(r) == stored[r] = NULL /\ Stores(r, Encrypt)
RewriteSecret(r) == Decrypts(stored[r]) /\ Stores(r, Encrypt)
DeleteSecret(r) == stored[r] # NULL /\ Stores(r, NULL)

UseSecrets == \E r \in Rows : CreateSecret(r) \/ RewriteSecret(r) \/ DeleteSecret(r)

(* An operator removes secret.key, or restores a data directory without it. *)
LoseKey ==
    /\ phase = "down" /\ Has("key.lose")
    /\ keyFile # NULL
    /\ keyFile' = NULL /\ lost' = lost \union {keyFile}
    /\ UNCHANGED <<processVars, box, stored, overwritten, gaveUp>>
=============================================================================
