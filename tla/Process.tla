------------------------------ MODULE Process ------------------------------
(***************************************************************************)
(* The life of a trmnld process: run() in cmd/trmnld.  It opens the        *)
(* database and migrates it, seeds the example content, finds the key that *)
(* encrypts credentials, encrypts what is not, prepares the certificate    *)
(* and serves until it is told to stop or a listener fails.  An error on   *)
(* the way ends it, and so does a crash, at any point; then an operator or *)
(* a supervisor starts it again, maybe with another configuration.         *)
(*                                                                         *)
(* This module has the phases, the migrations and the seed.  Secrets,      *)
(* TlsCert, Listeners, Provisioning and Assets have the rest, and Server   *)
(* composes them.                                                          *)
(***************************************************************************)
EXTENDS Naturals, Sequences

CONSTANTS
    NULL,
    Migrations,   \* the number of files in store/migrations
    Hosts,        \* the names and addresses a certificate may have to cover
    Scenarios     \* bound: data directories to start from, with the
                  \* configurations and operations exercised from there

ASSUME ProcessAssumption == Migrations \in Nat

VARIABLES
    scenario,     \* the scenario of this behaviour
    phase,        \* where run() is, "down" if there is no process
    conf,         \* the configuration of the process
    schema,       \* rows of schema_migrations: the files 1..schema
    content,      \* how many playlists, plugins, screens and items there are
    seedAt        \* the next statement of seedExample, 0 before the first

processVars == <<scenario, phase, conf, schema, content, seedAt>>

Has(op) == op \in scenario.ops

Phases == {"down", "migrate", "seed", "key", "encrypt", "cert", "run"}

(* -no-encryption, the key file, or -secret-key; -https-listen with a      *)
(* local CA or with -tls-cert and -tls-key.                                *)
Config == [encryption : {"off", "file", "own"}, https : {"off", "ca", "files"},
           hosts : SUBSET Hosts]

Tables == {"playlists", "plugins", "screens", "items"}

ProcessTypeOK ==
    /\ scenario \in Scenarios /\ phase \in Phases
    /\ conf \in Config \union {NULL}
    /\ schema \in 0..Migrations /\ content \in [Tables -> Nat] /\ seedAt \in 0..7

ProcessInit ==
    /\ phase = "down" /\ conf = NULL /\ seedAt = 0
    /\ schema = scenario.schema
    /\ content = scenario.content

-----------------------------------------------------------------------------
GoesTo(p) == phase' = p /\ UNCHANGED <<scenario, conf, schema, content, seedAt>>

Starts ==
    /\ phase = "down"
    /\ phase' = "migrate" /\ seedAt' = 0
    /\ conf' \in scenario.confs
    /\ UNCHANGED <<scenario, schema, content>>

(* The process is gone, with all its memory. *)
Dies == phase # "down" /\ GoesTo("down")

(* migrate: each file, with its row in schema_migrations, is a transaction. *)
Migrate ==
    /\ phase = "migrate"
    /\ schema < Migrations
    /\ schema' = schema + 1
    /\ UNCHANGED <<scenario, phase, conf, content, seedAt>>

MigrateFails == phase = "migrate" /\ Has("store.fail") /\ GoesTo("down")

MigrateDone == phase = "migrate" /\ schema = Migrations /\ GoesTo("seed")

-----------------------------------------------------------------------------
(* The statements of seedExample, by the table each adds a row to. *)
SeedScript == <<"playlists", "plugins", "screens", "items",
                             "plugins", "screens", "items">>

BugLooksAtScreens == content["screens"] = 0   \* forgets the playlists

(* seedExample does nothing once there is any playlist or screen. *)
IsFresh == content["playlists"] = 0 /\ content["screens"] = 0

SeedStarts ==
    /\ phase = "seed" /\ seedAt = 0
    /\ IF IsFresh THEN seedAt' = 1 /\ UNCHANGED phase ELSE phase' = "key" /\ UNCHANGED seedAt
    /\ UNCHANGED <<scenario, conf, schema, content>>

BugNoEnd ==                          \* does not stop at the last statement
    /\ phase = "seed" /\ seedAt > 0
    /\ content' = [content EXCEPT ![SeedScript[seedAt]] = @ + 1]
    /\ seedAt' = seedAt + 1
    /\ UNCHANGED <<scenario, phase, conf, schema>>

SeedStep ==
    /\ phase = "seed" /\ seedAt > 0
    /\ content' = [content EXCEPT ![SeedScript[seedAt]] = @ + 1]
    /\ IF seedAt < Len(SeedScript) THEN seedAt' = seedAt + 1 /\ UNCHANGED phase
       ELSE phase' = "key" /\ UNCHANGED seedAt
    /\ UNCHANGED <<scenario, conf, schema>>

(* An error is logged, and the start goes on. *)
SeedFails == phase = "seed" /\ Has("store.fail") /\ GoesTo("key")

OpenAndSeed ==
    \/ Migrate \/ MigrateFails \/ MigrateDone
    \/ SeedStarts \/ SeedStep \/ SeedFails
=============================================================================
