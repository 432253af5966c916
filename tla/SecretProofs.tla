---------------------------- MODULE SecretProofs ----------------------------
(***************************************************************************)
(* The example content, the credentials and the certificates, for any      *)
(* number of starts, crashes, keys, rows and hosts.                        *)
(*                                                                         *)
(* None of the properties is inductive.  That the example is there at most *)
(* once needs to know how far the seed is, as against what is there.  That *)
(* a credential can be read needs to know that a stored one is encrypted   *)
(* with the key of the file, one that is gone or the operator's, and the   *)
(* Box of a running process has the key its configuration says.            *)
(***************************************************************************)
EXTENDS Server, TLAPS

(* Where the seed is, as against what it has added. *)
Seeded ==
    IF scenario.content["playlists"] = 0 /\ scenario.content["screens"] = 0
    THEN \/ /\ content["playlists"] = 0 /\ content["screens"] = 0
            /\ phase = "seed" => seedAt \in {0, 1}
         \/ /\ content["playlists"] = 1 /\ content["screens"] \in 0..2
            /\ phase = "seed" /\ seedAt # 0 =>
                  /\ seedAt \in 2..7
                  /\ content["screens"] = IF seedAt <= 3 THEN 0 ELSE IF seedAt <= 6 THEN 1 ELSE 2
    ELSE content = scenario.content /\ (phase = "seed" => seedAt = 0)

ProcessInv ==
    /\ ProcessTypeOK
    /\ phase = "migrate" => seedAt = 0
    /\ phase # "down" => conf \in Config
    /\ Seeded

(* A stored secret is encrypted with a key that is known, or was once. *)
Held == \A r \in Rows :
            stored[r] \in {NULL, Plain, Legacy, OwnKey, keyFile} \union lost \union overwritten

(* The Box has the key that the configuration says. *)
BoxIsConfigured ==
    phase \in {"encrypt", "cert", "run"} =>
        /\ conf.encryption = "off" => box = NULL
        /\ conf.encryption = "own" => box = OwnKey
        /\ conf.encryption = "file" => keyFile # NULL /\ box = keyFile

SecretsInv == SecretsTypeOK /\ Held /\ BoxIsConfigured /\ NothingPlain

-----------------------------------------------------------------------------
(* What a step of the server does to the process. *)

LEMMA NextOfProcess ==
    ASSUME [Next]_serverVars
    PROVE  \/ UNCHANGED processVars
           \/ Starts
           \/ OpenAndSeed
           \/ GoesTo("down")
           \/ phase # "down" /\ \E p \in {"encrypt", "cert", "run"} : GoesTo(p)
<1> USE DEF processVars, GoesTo
<1>1. CASE Ends
    BY <1>1 DEF Ends, Dies
<1>2. CASE Startup
    <2>1. CASE SetUpSecrets
        BY <2>1 DEF SetUpSecrets, LoadKey, NoKeyRead, CreateKey, CreateKeyFails, MigrateRow,
                    MigrateStops, MigrationDone
    <2>2. CASE TLSConfigDone
        BY <2>2 DEF TLSConfigDone
    <2> QED
        BY <1>2, <2>1, <2>2 DEF Startup
<1>3. CASE Tls
    BY <1>3 DEF Tls, TlsStep, CACertPEM, GetCertificate, Asks, EnsureCA, HaveCA, Fails,
                WriteCACert, LoadOrIssue, Serves, WriteServerCert, DiskFails, StatFiles,
                LoadFiles
<1>4. CASE Listening
    BY <1>4 DEF Listening, Run, Serve, RunStarts, ReceiveError, ReceiveDone, ShutdownCloses,
                ShutdownReturns, DeadlinePasses, Listen, ListenFails, RequestStarts,
                RequestEnds, Signal
<1>5. CASE Serving
    BY <1>5 DEF Serving, UseSecrets, CreateSecret, RewriteSecret, DeleteSecret, Stores,
                Provisioning, Provision, FindDevice, InsertDevice, GetDevice, FindAgain,
                DeviceCreate, DeviceDelete, Answers, Continues, TriesAgain,
                AssetStep, UploadStarts, FormOpens, UploadCopied, UploadFails, UploadSaved,
                FormSaved, SweepLists, SweepEnds, SweepRemoves, AssetAges
<1>6. CASE Outside
    BY <1>6 DEF Outside, LoseKey, RenewFile, LoseCA, TlsTime
<1>7. CASE UNCHANGED serverVars
    BY <1>7 DEF serverVars
<1> QED
    BY <1>1, <1>2, <1>3, <1>4, <1>5, <1>6, <1>7 DEF Next

LEMMA OpenAndSeedKeeps ==
    ASSUME ProcessInv, OpenAndSeed
    PROVE  ProcessInv'
<1> USE ProcessAssumption DEF ProcessInv, ProcessTypeOK, Phases, Tables
<1>1. CASE Migrate
    BY <1>1 DEF Migrate, Seeded
<1>2. CASE MigrateFails \/ MigrateDone \/ SeedFails
    BY <1>2 DEF MigrateFails, MigrateDone, SeedFails, GoesTo, Seeded
<1>3. CASE SeedStarts
    BY <1>3 DEF SeedStarts, IsFresh, Seeded
<1>4. CASE SeedStep
    <2>1. /\ phase = "seed" /\ seedAt \in 1..7 /\ UNCHANGED <<scenario, conf, schema>>
          /\ content' = [content EXCEPT ![SeedScript[seedAt]] = @ + 1]
          /\ \/ seedAt < 7 /\ seedAt' = seedAt + 1 /\ UNCHANGED phase
             \/ seedAt = 7 /\ phase' = "key" /\ UNCHANGED seedAt
        BY <1>4 DEF SeedStep, SeedScript
    <2>2. /\ seedAt = 1 => SeedScript[seedAt] = "playlists"
          /\ seedAt \in {2, 5} => SeedScript[seedAt] = "plugins"
          /\ seedAt \in {3, 6} => SeedScript[seedAt] = "screens"
          /\ seedAt \in {4, 7} => SeedScript[seedAt] = "items"
        BY DEF SeedScript
    <2>3. content \in [Tables -> Nat] /\ content' \in [Tables -> Nat]
        BY <2>1, <2>2
    <2>4. Seeded'
        <3>1. CASE seedAt = 1
            BY <2>1, <2>2, <2>3, <3>1 DEF Seeded
        <3>2. CASE seedAt \in {2, 4, 5, 7}
            BY <2>1, <2>2, <2>3, <3>2 DEF Seeded
        <3>3. CASE seedAt \in {3, 6}
            BY <2>1, <2>2, <2>3, <3>3 DEF Seeded
        <3> QED
            BY <2>1, <3>1, <3>2, <3>3
    <2> QED
        BY <2>1, <2>3, <2>4
<1> QED
    BY <1>1, <1>2, <1>3, <1>4 DEF OpenAndSeed

LEMMA NextKeepsProcess ==
    ASSUME ProcessInv, [Next]_serverVars
    PROVE  ProcessInv'
<1> USE DEF ProcessInv, ProcessTypeOK, Phases, Seeded
<1>1. CASE UNCHANGED processVars
    BY <1>1 DEF processVars
<1>2. CASE Starts
    <2>1. conf' \in Config
        BY <1>2, ServerAssumption DEF Starts
    <2> QED
        BY <1>2, <2>1 DEF Starts
<1>3. CASE OpenAndSeed
    BY <1>3, OpenAndSeedKeeps
<1>4. CASE GoesTo("down")
    BY <1>4 DEF GoesTo
<1>5. CASE phase # "down" /\ \E p \in {"encrypt", "cert", "run"} : GoesTo(p)
    BY <1>5 DEF GoesTo
<1> QED
    BY <1>1, <1>2, <1>3, <1>4, <1>5, NextOfProcess

LEMMA InitIsProcessInv ==
    ASSUME Init
    PROVE  ProcessInv
<1>1. scenario.schema \in 0..Migrations /\ scenario.content \in [Tables -> Nat]
    BY ServerAssumption DEF Init
<1>2. ProcessTypeOK
    BY <1>1 DEF Init, ProcessInit, ProcessTypeOK, Phases
<1>3. Seeded
    BY DEF Init, ProcessInit, Seeded
<1> QED
    BY <1>2, <1>3 DEF Init, ProcessInit, ProcessInv

(* The process is where its phases say, and the example content is what    *)
(* the seed has come to.                                                   *)
THEOREM ProcessInvariant == Spec => []ProcessInv
<1>1. Init => ProcessInv
    BY InitIsProcessInv
<1>2. ProcessInv /\ [Next]_serverVars => ProcessInv'
    BY NextKeepsProcess
<1> QED
    BY <1>1, <1>2, PTL DEF Spec

(* The example content is added once at most, and never to a database that *)
(* has content, after any number of crashes and failed starts.             *)
THEOREM ExampleAddedOnce == Spec => []ExampleOnce
<1>1. ProcessInv => ExampleOnce
    BY DEF ProcessInv, ProcessTypeOK, Tables, Seeded, ExampleOnce
<1> QED
    BY <1>1, ProcessInvariant, PTL

-----------------------------------------------------------------------------
(* What a step of the server does to the secrets. *)

(* The parts that hold no secret: they end the process, or leave it where  *)
(* it was, or go on to serve.                                              *)
Elsewhere ==
    /\ UNCHANGED secretVars
    /\ \/ phase' \in {"down", "migrate", "seed", "key"}
       \/ UNCHANGED <<phase, conf>>
       \/ phase = "cert" /\ phase' = "run" /\ UNCHANGED conf

LEMMA NextOfSecrets ==
    ASSUME ProcessInv, [Next]_serverVars
    PROVE  \/ Elsewhere
           \/ SecretsDie /\ phase' = "down"
           \/ SetUpSecrets
           \/ UseSecrets
           \/ LoseKey
<1> USE DEF Elsewhere
<1>1. CASE Ends
    BY <1>1 DEF Ends, Dies, GoesTo
<1>2. CASE Startup
    <2>1. CASE Starts /\ UNCHANGED ButProcess
        BY <2>1 DEF Starts, ButProcess
    <2>2. CASE OpenAndSeed /\ UNCHANGED ButProcess
        <3>1. phase' \in {"down", "migrate", "seed", "key"}
            BY <2>2 DEF OpenAndSeed, Migrate, MigrateFails, MigrateDone, SeedStarts, SeedStep,
                        SeedFails, GoesTo
        <3> QED
            BY <2>2, <3>1 DEF ButProcess
    <2>3. CASE TLSConfigDone /\ UNCHANGED ButTls
        BY <2>3 DEF TLSConfigDone, GoesTo, ButTls
    <2> QED
        BY <1>2, <2>1, <2>2, <2>3 DEF Startup
<1>3. CASE Tls
    <2>1. UNCHANGED processVars \/ phase' = "down"
        BY <1>3 DEF Tls, TlsStep, CACertPEM, GetCertificate, Asks, EnsureCA, HaveCA, Fails,
                    GoesTo, WriteCACert, LoadOrIssue, Serves, WriteServerCert, DiskFails,
                    StatFiles, LoadFiles
    <2>2. IF phase' = "down" THEN SecretsDie ELSE UNCHANGED secretVars
        BY <1>3 DEF Tls, ButTls
    <2> QED
        BY <2>1, <2>2 DEF processVars
<1>4. CASE Listening
    <2>1. UNCHANGED processVars
        BY <1>4 DEF Listening, Run, Serve, RunStarts, ReceiveError, ReceiveDone,
                ShutdownCloses, ShutdownReturns, DeadlinePasses, Listen, ListenFails,
                RequestStarts, RequestEnds, Signal
    <2> QED
        BY <1>4, <2>1 DEF Listening, ButListeners, processVars
<1>5. CASE Serving
    <2>1. CASE Provisioning /\ UNCHANGED ButProvisioning
        <3>1. UNCHANGED processVars
            BY <2>1 DEF Provisioning, Provision, FindDevice, InsertDevice, GetDevice,
                        FindAgain, DeviceCreate, DeviceDelete, Answers, Continues,
                        TriesAgain
        <3> QED
            BY <2>1, <3>1 DEF ButProvisioning, processVars
    <2>2. CASE AssetStep /\ UNCHANGED ButAssets
        <3>1. UNCHANGED processVars
            BY <2>2 DEF AssetStep, UploadStarts, FormOpens, UploadCopied, UploadFails,
                        UploadSaved, FormSaved, SweepLists, SweepEnds, SweepRemoves, AssetAges
        <3> QED
            BY <2>2, <3>1 DEF ButAssets, processVars
    <2> QED
        BY <1>5, <2>1, <2>2 DEF Serving
<1>6. CASE Outside
    BY <1>6 DEF Outside, RenewFile, LoseCA, TlsTime, ButTls, processVars
<1>7. CASE UNCHANGED serverVars
    BY <1>7 DEF serverVars, processVars
<1> QED
    BY <1>1, <1>2, <1>3, <1>4, <1>5, <1>6, <1>7 DEF Next

(* The key of a running Box is known, and is a key. *)
LEMMA BoxKnown ==
    ASSUME ProcessInv, SecretsInv, phase \in {"encrypt", "cert", "run"}
    PROVE  box \in {NULL, OwnKey, keyFile} /\ (box # NULL => box \in Keys)
BY SecretsAssumption DEF ProcessInv, Config, SecretsInv, BoxIsConfigured, SecretsTypeOK

(* A key that is overwritten is remembered. *)
LEMMA OverwriteKeepsHeld ==
    ASSUME SecretsTypeOK, Held, RecordsOverwrite, UNCHANGED <<stored, lost, gaveUp>>,
           keyFile' \in Keys \union {NULL}, box' \in Keys \union {NULL}
    PROVE  SecretsTypeOK' /\ Held'
BY DEF SecretsTypeOK, Held, RecordsOverwrite

LEMMA SetUpKeeps ==
    ASSUME ProcessInv, SecretsInv, SetUpSecrets
    PROVE  SecretsInv'
<1> USE DEF SecretsInv
<1>1. CASE LoadKey
    <2>1. /\ phase' = "encrypt" /\ UNCHANGED <<conf, keyFile, stored, lost, overwritten, gaveUp>>
          /\ conf \in Config
          /\ conf.encryption = "file" => keyFile # NULL
          /\ box' = CASE conf.encryption = "off" -> NULL
                      [] conf.encryption = "own" -> OwnKey
                      [] conf.encryption = "file" -> keyFile
        BY <1>1 DEF LoadKey, GoesTo, ProcessInv
    <2>2. /\ conf.encryption \in {"off", "own", "file"}
          /\ conf.encryption = "off" => box' = NULL
          /\ conf.encryption = "own" => box' = OwnKey
          /\ conf.encryption = "file" => box' = keyFile
        BY <2>1 DEF Config
    <2>3. SecretsTypeOK'
        BY <2>1, <2>2, SecretsAssumption DEF SecretsTypeOK
    <2> QED
        BY <2>1, <2>2, <2>3 DEF Held, BoxIsConfigured, NothingPlain
<1>2. CASE CreateKey
    <2>1. PICK k \in FreshKeys : keyFile' = k /\ box' = k
        BY <1>2 DEF CreateKey
    <2>2. k \in Keys /\ k # NULL
        BY SecretsAssumption DEF FreshKeys
    <2>3. /\ phase' = "encrypt" /\ UNCHANGED <<conf, stored, lost, gaveUp>>
          /\ conf.encryption = "file" /\ RecordsOverwrite
        BY <1>2 DEF CreateKey, NoKeyRead, GoesTo
    <2>4. SecretsTypeOK' /\ Held'
        BY <2>1, <2>2, <2>3, OverwriteKeepsHeld
    <2> QED
        BY <2>1, <2>2, <2>3, <2>4 DEF BoxIsConfigured, NothingPlain
<1>3. CASE CreateKeyFails
    <2>1. /\ phase' = "down" /\ UNCHANGED <<box, stored, lost, gaveUp>>
          /\ keyFile' \in Keys \union {NULL} /\ RecordsOverwrite
        BY <1>3 DEF CreateKeyFails, GoesTo, FreshKeys, SecretsTypeOK
    <2>2. SecretsTypeOK' /\ Held'
        BY <2>1, OverwriteKeepsHeld DEF SecretsTypeOK
    <2> QED
        BY <2>1, <2>2 DEF BoxIsConfigured, NothingPlain
<1>4. ASSUME NEW r \in Rows, MigrateRow(r) PROVE SecretsInv'
    <2>1. /\ phase = "encrypt" /\ phase' = phase
          /\ UNCHANGED <<conf, keyFile, box, lost, overwritten, gaveUp>>
          /\ stored' = [stored EXCEPT ![r] = box] /\ box # NULL
        BY <1>4 DEF MigrateRow, NeedsUpgrade, Decrypts, Encrypt
    <2>2. box \in {NULL, OwnKey, keyFile} /\ box \in Keys
        BY <2>1, BoxKnown
    <2> QED
        BY <2>1, <2>2 DEF SecretsTypeOK, Held, BoxIsConfigured, NothingPlain
<1>5. CASE MigrateStops
    BY <1>5 DEF MigrateStops, GoesTo, SecretsTypeOK, Held, BoxIsConfigured, NothingPlain
<1>6. CASE MigrationDone
    BY <1>6 DEF MigrationDone, NeedsUpgrade, GoesTo, secretVars, SecretsTypeOK, Held,
                BoxIsConfigured, NothingPlain
<1> QED
    BY <1>1, <1>2, <1>3, <1>4, <1>5, <1>6 DEF SetUpSecrets

LEMMA UseKeeps ==
    ASSUME ProcessInv, SecretsInv, UseSecrets
    PROVE  SecretsInv'
<1>1. PICK r \in Rows, v \in {Encrypt, NULL} : Stores(r, v)
    BY DEF UseSecrets, CreateSecret, RewriteSecret, DeleteSecret
<1>2. /\ phase = "run" /\ UNCHANGED <<phase, conf, keyFile, box, lost, overwritten, gaveUp>>
      /\ stored' = [stored EXCEPT ![r] = v]
    BY <1>1 DEF Stores, processVars
<1>3. /\ v \in {Plain, NULL, OwnKey, keyFile} /\ v \in Keys \union {Plain, NULL}
      /\ box # NULL => v # Plain
    BY <1>2, BoxKnown, SecretsAssumption DEF Encrypt
<1> QED
    BY <1>2, <1>3 DEF SecretsInv, SecretsTypeOK, Held, BoxIsConfigured, NothingPlain

LEMMA NextKeepsSecrets ==
    ASSUME ProcessInv, SecretsInv, [Next]_serverVars
    PROVE  SecretsInv'
<1> USE DEF SecretsInv, SecretsTypeOK, Held, BoxIsConfigured, NothingPlain
<1>1. CASE Elsewhere
    BY <1>1 DEF Elsewhere, secretVars
<1>2. CASE SecretsDie /\ phase' = "down"
    BY <1>2 DEF SecretsDie
<1>3. CASE SetUpSecrets
    BY <1>3, SetUpKeeps
<1>4. CASE UseSecrets
    BY <1>4, UseKeeps
<1>5. CASE LoseKey
    BY <1>5 DEF LoseKey, processVars
<1> QED
    BY <1>1, <1>2, <1>3, <1>4, <1>5, NextOfSecrets

LEMMA InitIsSecretsInv ==
    ASSUME Init
    PROVE  SecretsInv
<1>1. stored \in [Rows -> {OwnKey, Plain, Legacy, NULL}]
    BY ServerAssumption DEF Init, SecretsInit
<1>2. SecretsTypeOK /\ Held
    BY <1>1, SecretsAssumption DEF Init, SecretsInit, SecretsTypeOK, Held
<1> QED
    BY <1>2 DEF Init, ProcessInit, SecretsInv, BoxIsConfigured, NothingPlain

(* Every stored secret is encrypted with a known key, and every running    *)
(* process has the key of its configuration.                               *)
THEOREM SecretsInvariant == Spec => []SecretsInv
<1>1. Init => SecretsInv
    BY InitIsSecretsInv
<1>2. ProcessInv /\ SecretsInv /\ [Next]_serverVars => SecretsInv'
    BY NextKeepsSecrets
<1> QED
    BY <1>1, <1>2, ProcessInvariant, PTL DEF Spec

(* A key is overwritten only where a read of its file can fail. *)
OverwrittenUnread == ~Has("key.misread") => overwritten = {}

LEMMA NextKeepsUnread ==
    ASSUME ProcessInv, OverwrittenUnread, [Next]_serverVars
    PROVE  OverwrittenUnread'
<1>1. scenario' = scenario
    BY NextOfProcess DEF processVars, Starts, GoesTo, OpenAndSeed, Migrate, MigrateFails,
       MigrateDone, SeedStarts, SeedStep, SeedFails
<1>2. UNCHANGED overwritten \/ (NoKeyRead /\ RecordsOverwrite)
    BY NextOfSecrets DEF Elsewhere, secretVars, SecretsDie, SetUpSecrets, LoadKey, CreateKey,
       CreateKeyFails, MigrateRow, MigrateStops, MigrationDone, UseSecrets, CreateSecret,
       RewriteSecret, DeleteSecret, Stores, LoseKey
<1> QED
    BY <1>1, <1>2 DEF OverwrittenUnread, Has, NoKeyRead, RecordsOverwrite

(* A process that uses the key file can read every credential, except one  *)
(* encrypted with the operator's own key or with one that is gone: removed *)
(* by an operator or, if a read of the file can fail, overwritten.         *)
THEOREM CredentialsStayReadable == Spec => []UnreadableOnlyIfLost
<1>1. Init => OverwrittenUnread
    BY DEF Init, SecretsInit, OverwrittenUnread
<1>2. ProcessInv /\ OverwrittenUnread /\ [Next]_serverVars => OverwrittenUnread'
    BY NextKeepsUnread
<1>3. SecretsInv /\ OverwrittenUnread => UnreadableOnlyIfLost
    BY DEF SecretsInv, Held, BoxIsConfigured, OverwrittenUnread, UnreadableOnlyIfLost, Decrypts
<1> QED
    BY <1>1, <1>2, <1>3, ProcessInvariant, SecretsInvariant, PTL DEF Spec

(* With encryption on, nothing is in plaintext once the server has started.*)
THEOREM NothingStaysPlain == Spec => []NothingPlain
<1>1. SecretsInv => NothingPlain
    BY DEF SecretsInv
<1> QED
    BY <1>1, SecretsInvariant, PTL

-----------------------------------------------------------------------------
(***************************************************************************)
(* The certificate of the HTTPS listener, for any number of starts,        *)
(* crashes, failed writes, renewals and hosts.                             *)
(*                                                                         *)
(* What is served cannot be followed from the files alone: between the two *)
(* files of a pair the files disagree.  The invariant ties the job that    *)
(* holds the mutex to the files it has already written, and says that what *)
(* is in memory was checked only while no such job is under way.           *)
(***************************************************************************)
(* The purpose and the configuration each step of a job belongs to. *)
JobFits ==
    tls # NULL =>
        /\ tls.pc \in {"load", "serverCert", "stat", "loadFiles"} => tls.purpose = "serve"
        /\ tls.pc \in {"ensureCA", "caCert", "load", "serverCert"} => conf.https = "ca"
        /\ tls.pc \in {"stat", "loadFiles"} => conf.https = "files"
        /\ tls.purpose = "serve" => ~checked

(* A job is half way through the files it writes. *)
HalfWritten ==
    tls # NULL =>
        /\ tls.pc \in {"caCert", "load", "serverCert"} => tls.ca \in CAs
        /\ tls.pc = "caCert" => caCert = NULL
        /\ tls.pc = "serverCert" => tls.pair \in Pairs /\ srvKey = tls.pair

(* What was checked is in memory, in force, and in the files. *)
CheckedIsServed ==
    checked => /\ cert # NULL
               /\ conf.https = "ca" => /\ conf.hosts \subseteq cert.hosts /\ cert.age = 0
                                       /\ srvCert = cert /\ srvKey = cert.pair

(* Before the certificate is needed there is none in memory. *)
EmptyMemory == phase \notin {"cert", "run"} => cert = NULL /\ ~checked /\ tls = NULL

TlsInv == TlsTypeOK /\ JobFits /\ HalfWritten /\ CheckedIsServed /\ EmptyMemory

-----------------------------------------------------------------------------
(* The parts that have no certificate. *)
NoTls ==
    /\ UNCHANGED tlsVars
    /\ phase \in {"cert", "run"} => UNCHANGED conf /\ phase' \in {"cert", "run"}

LEMMA NextOfTls ==
    ASSUME [Next]_serverVars
    PROVE  \/ NoTls
           \/ TlsDie /\ phase' = "down"
           \/ TlsStep \/ CACertPEM
           \/ RenewFile \/ LoseCA \/ TlsTime
<1> USE DEF NoTls
<1>1. CASE Ends
    BY <1>1 DEF Ends, Dies, GoesTo
<1>2. CASE Startup
    <2>1. CASE Starts /\ UNCHANGED ButProcess
        BY <2>1 DEF Starts, ButProcess
    <2>2. CASE OpenAndSeed /\ UNCHANGED ButProcess
        BY <2>2 DEF OpenAndSeed, Migrate, MigrateFails, MigrateDone, SeedStarts, SeedStep,
                    SeedFails, GoesTo, ButProcess
    <2>3. CASE SetUpSecrets /\ UNCHANGED ButSecrets
        BY <2>3 DEF SetUpSecrets, LoadKey, NoKeyRead, CreateKey, CreateKeyFails, MigrateRow,
                    MigrateStops, MigrationDone, GoesTo, ButSecrets
    <2>4. CASE TLSConfigDone
        BY <2>4 DEF TLSConfigDone, GoesTo
    <2> QED
        BY <1>2, <2>1, <2>2, <2>3, <2>4 DEF Startup
<1>3. CASE Tls
    BY <1>3 DEF Tls
<1>4. CASE Listening
    <2>1. UNCHANGED processVars
        BY <1>4 DEF Listening, Run, Serve, RunStarts, ReceiveError, ReceiveDone,
                ShutdownCloses, ShutdownReturns, DeadlinePasses, Listen, ListenFails,
                RequestStarts, RequestEnds, Signal
    <2> QED
        BY <1>4, <2>1 DEF Listening, ButListeners, processVars
<1>5. CASE Serving
    <2>1. CASE UseSecrets /\ UNCHANGED ButSecrets
        BY <2>1 DEF UseSecrets, CreateSecret, RewriteSecret, DeleteSecret, Stores,
                    ButSecrets, processVars
    <2>2. CASE Provisioning /\ UNCHANGED ButProvisioning
        <3>1. UNCHANGED processVars
            BY <2>2 DEF Provisioning, Provision, FindDevice, InsertDevice, GetDevice,
                        FindAgain, DeviceCreate, DeviceDelete, Answers, Continues,
                        TriesAgain
        <3> QED
            BY <2>2, <3>1 DEF ButProvisioning, processVars
    <2>3. CASE AssetStep /\ UNCHANGED ButAssets
        <3>1. UNCHANGED processVars
            BY <2>3 DEF AssetStep, UploadStarts, FormOpens, UploadCopied, UploadFails,
                        UploadSaved, FormSaved, SweepLists, SweepEnds, SweepRemoves, AssetAges
        <3> QED
            BY <2>3, <3>1 DEF ButAssets, processVars
    <2> QED
        BY <1>5, <2>1, <2>2, <2>3 DEF Serving
<1>6. CASE Outside
    BY <1>6 DEF Outside, LoseKey, ButSecrets, processVars
<1>7. CASE UNCHANGED serverVars
    BY <1>7 DEF serverVars, processVars
<1> QED
    BY <1>1, <1>2, <1>3, <1>4, <1>5, <1>6, <1>7 DEF Next

-----------------------------------------------------------------------------
(* The ways a job goes on or ends. *)

LEMMA JobType ==
    ASSUME TlsInv, tls # NULL
    PROVE  /\ tls \in TlsJob
           /\ phase \in {"cert", "run"}
BY DEF TlsInv, TlsTypeOK, EmptyMemory

LEMMA AsksKeeps ==
    ASSUME TlsInv, NEW purpose \in {"serve", "download"},
           NEW pc \in {"ensureCA", "stat"}, Asks(purpose, pc),
           phase \in {"cert", "run"},
           conf.https = (IF pc = "stat" THEN "files" ELSE "ca"),
           pc = "stat" => purpose = "serve",
           purpose = "serve" => ~checked
    PROVE  TlsInv'
<1> DEFINE t == [pc |-> pc, purpose |-> purpose, ca |-> NULL, pair |-> NULL, mod |-> 0]
<1>1. t \in TlsJob /\ t # NULL
    BY TlsAssumption DEF TlsJob
<1>2. /\ tls' = t /\ t.pc = pc /\ t.purpose = purpose
      /\ UNCHANGED <<processVars, caFiles, srvFiles, userFiles, memory>>
    BY DEF Asks
<1> HIDE DEF t
<1>3. UNCHANGED <<phase, conf, caKey, caCert, srvKey, srvCert, userKey, userCert,
                  cert, checked, fileMod>>
    BY <1>2 DEF processVars, caFiles, srvFiles, userFiles, memory
<1>4. TlsTypeOK'
    BY <1>1, <1>2, <1>3 DEF TlsInv, TlsTypeOK
<1> QED
    BY <1>2, <1>3, <1>4 DEF TlsInv, JobFits, HalfWritten, CheckedIsServed, EmptyMemory

(* An error changes nothing but that the job is over; the process ends     *)
(* only without a certificate.                                             *)
LEMMA FailsKeeps ==
    ASSUME TlsInv, tls # NULL, Fails, UNCHANGED <<caFiles, srvFiles, userFiles>>
    PROVE  TlsInv'
<1>1. /\ tls' = NULL /\ UNCHANGED <<cert, checked, fileMod, conf>>
      /\ UNCHANGED <<caKey, caCert, srvKey, srvCert, userKey, userCert>>
      /\ phase' = phase \/ (phase' = "down" /\ cert = NULL)
    BY DEF Fails, GoesTo, processVars, memory, caFiles, srvFiles, userFiles
<1> QED
    BY <1>1 DEF TlsInv, TlsTypeOK, JobFits, HalfWritten, CheckedIsServed, EmptyMemory

(* The CA is there: the job is over, or goes on to the certificate. *)
LEMMA HaveCAKeeps ==
    ASSUME TlsInv, tls # NULL, tls.pc \in {"ensureCA", "caCert"}, NEW ca \in CAs,
           HaveCA(ca), UNCHANGED caKey, caCert' \in CAs \union {NULL}
    PROVE  TlsInv'
<1> DEFINE t == [tls EXCEPT !.pc = "load", !.ca = ca]
<1>1. tls \in TlsJob /\ phase \in {"cert", "run"}
    BY JobType
<1>2. t \in TlsJob /\ t.pc = "load" /\ t.ca = ca /\ t.purpose = tls.purpose
    BY <1>1 DEF TlsJob
<1>3. /\ IF tls.purpose = "download" THEN tls' = NULL ELSE tls' = t
      /\ tls.purpose \in {"serve", "download"}
      /\ UNCHANGED <<phase, conf, caKey, srvKey, srvCert, userKey, userCert,
                     cert, checked, fileMod>>
    BY <1>1 DEF HaveCA, TlsJob, processVars, srvFiles, userFiles, memory
<1> HIDE DEF t
<1>4. TlsTypeOK'
    BY <1>2, <1>3 DEF TlsInv, TlsTypeOK
<1>5. conf.https = "ca"
    BY DEF TlsInv, JobFits
<1> QED
    BY <1>1, <1>2, <1>3, <1>4, <1>5
    DEF TlsInv, JobFits, HalfWritten, CheckedIsServed, EmptyMemory

(* A certificate is served that is in force and in the files. *)
LEMMA ServesKeeps ==
    ASSUME TlsInv, tls # NULL, NEW c \in Certificate, NEW mod \in 0..(2 * MaxRenewals),
           Serves(c, mod), UNCHANGED <<caFiles, userFiles>>,
           srvKey' \in Pairs \union {NULL}, srvCert' \in Certificate \union {NULL},
           conf.https = "ca" => /\ conf.hosts \subseteq c.hosts /\ c.age = 0
                                /\ srvCert' = c /\ srvKey' = c.pair
    PROVE  TlsInv'
<1>1. /\ cert' = c /\ checked' = TRUE /\ fileMod' = mod /\ tls' = NULL
      /\ UNCHANGED <<phase, conf, caKey, caCert, userKey, userCert>>
    BY DEF Serves, processVars, caFiles, userFiles
<1>2. c # NULL /\ phase \in {"cert", "run"}
    BY TlsAssumption, JobType
<1>3. TlsTypeOK'
    BY <1>1 DEF TlsInv, TlsTypeOK
<1> QED
    BY <1>1, <1>2, <1>3 DEF TlsInv, JobFits, HalfWritten, CheckedIsServed, EmptyMemory

-----------------------------------------------------------------------------
(* The steps of a job. *)

LEMMA EnsureCAKeeps ==
    ASSUME TlsInv, EnsureCA
    PROVE  TlsInv'
<1>1. CASE caKey # NULL /\ caCert = caKey /\ HaveCA(caCert) /\ UNCHANGED caFiles
    <2>1. caCert \in CAs
        BY <1>1 DEF TlsInv, TlsTypeOK
    <2> QED
        BY <1>1, <2>1, HaveCAKeeps DEF EnsureCA, caFiles
<1>2. CASE /\ caKey = NULL /\ caCert = NULL
           /\ \E ca \in CAs \ SeenCAs :
                 caKey' = ca /\ tls' = [tls EXCEPT !.pc = "caCert", !.ca = ca]
           /\ UNCHANGED <<processVars, caCert, srvFiles, userFiles, memory>>
    <2>1. PICK ca \in CAs : caKey' = ca /\ tls' = [tls EXCEPT !.pc = "caCert", !.ca = ca]
        BY <1>2
    <2> DEFINE t == [tls EXCEPT !.pc = "caCert", !.ca = ca]
    <2>2. tls # NULL /\ tls.pc = "ensureCA" /\ tls \in TlsJob /\ phase \in {"cert", "run"}
        BY JobType DEF EnsureCA
    <2>3. t \in TlsJob /\ t.pc = "caCert" /\ t.ca = ca /\ t.purpose = tls.purpose
        BY <2>2 DEF TlsJob
    <2>4. /\ tls' = t /\ caKey' = ca /\ caCert = NULL
          /\ UNCHANGED <<phase, conf, caCert, srvKey, srvCert, userKey, userCert,
                         cert, checked, fileMod>>
        BY <1>2, <2>1 DEF processVars, srvFiles, userFiles, memory
    <2> HIDE DEF t
    <2>5. TlsTypeOK'
        BY <2>3, <2>4 DEF TlsInv, TlsTypeOK
    <2> QED
        BY <2>2, <2>3, <2>4, <2>5
        DEF TlsInv, JobFits, HalfWritten, CheckedIsServed, EmptyMemory
<1>3. CASE caKey # caCert /\ Fails /\ UNCHANGED <<caFiles, srvFiles, userFiles>>
    BY <1>3, FailsKeeps DEF EnsureCA
<1> QED
    BY <1>1, <1>2, <1>3 DEF EnsureCA

LEMMA WriteCACertKeeps ==
    ASSUME TlsInv, WriteCACert
    PROVE  TlsInv'
<1>1. tls.ca \in CAs
    BY DEF WriteCACert, TlsInv, HalfWritten
<1> QED
    BY <1>1, HaveCAKeeps DEF WriteCACert

LEMMA LoadOrIssueKeeps ==
    ASSUME TlsInv, LoadOrIssue
    PROVE  TlsInv'
<1>1. CASE Usable /\ Serves(srvCert, fileMod) /\ UNCHANGED srvKey
    <2>1. srvCert \in Certificate /\ fileMod \in 0..(2 * MaxRenewals)
        BY <1>1 DEF Usable, TlsInv, TlsTypeOK
    <2>2. srvKey \in Pairs \union {NULL}
        BY DEF TlsInv, TlsTypeOK
    <2> QED
        BY <1>1, <2>1, <2>2, ServesKeeps DEF LoadOrIssue, Usable, caFiles
<1>2. CASE /\ \E p \in Pairs \ SeenPairs :
                 srvKey' = p /\ tls' = [tls EXCEPT !.pc = "serverCert", !.pair = p]
           /\ UNCHANGED <<processVars, memory>>
    <2>1. PICK p \in Pairs :
              srvKey' = p /\ tls' = [tls EXCEPT !.pc = "serverCert", !.pair = p]
        BY <1>2
    <2> DEFINE t == [tls EXCEPT !.pc = "serverCert", !.pair = p]
    <2>2. tls # NULL /\ tls.pc = "load" /\ tls \in TlsJob /\ phase \in {"cert", "run"}
        BY JobType DEF LoadOrIssue
    <2>3. t \in TlsJob /\ t.pc = "serverCert" /\ t.pair = p /\ t.ca = tls.ca
              /\ t.purpose = tls.purpose
        BY <2>2 DEF TlsJob
    <2>4. /\ tls' = t /\ srvKey' = p
          /\ UNCHANGED <<phase, conf, caKey, caCert, srvCert, userKey, userCert,
                         cert, checked, fileMod>>
        BY <1>2, <2>1 DEF LoadOrIssue, processVars, caFiles, userFiles, memory
    <2>5. ~checked /\ t.purpose = "serve"
        BY <2>2, <2>3 DEF TlsInv, JobFits
    <2> HIDE DEF t
    <2>6. TlsTypeOK'
        BY <2>3, <2>4 DEF TlsInv, TlsTypeOK
    <2> QED
        BY <2>2, <2>3, <2>4, <2>5, <2>6
        DEF TlsInv, JobFits, HalfWritten, CheckedIsServed, EmptyMemory
<1> QED
    BY <1>1, <1>2 DEF LoadOrIssue

LEMMA WriteServerCertKeeps ==
    ASSUME ProcessInv, TlsInv, WriteServerCert
    PROVE  TlsInv'
<1> DEFINE c == [pair |-> tls.pair, ca |-> tls.ca, hosts |-> conf.hosts, age |-> 0]
<1>1. /\ tls # NULL /\ tls.ca \in CAs /\ tls.pair \in Pairs /\ srvKey = tls.pair
      /\ phase \in {"cert", "run"}
    BY JobType DEF WriteServerCert, TlsInv, HalfWritten
<1>2. conf.hosts \in SUBSET Hosts
    BY <1>1 DEF ProcessInv, Config
<1>3. c \in Certificate /\ c.hosts = conf.hosts /\ c.age = 0 /\ c.pair = tls.pair
    BY <1>1, <1>2 DEF Certificate
<1>4. srvCert' = c /\ Serves(c, fileMod) /\ UNCHANGED <<caFiles, srvKey, userFiles>>
    BY DEF WriteServerCert
<1>5. fileMod \in 0..(2 * MaxRenewals) /\ srvKey \in Pairs \union {NULL}
    BY DEF TlsInv, TlsTypeOK
<1> HIDE DEF c
<1> QED
    BY <1>1, <1>3, <1>4, <1>5, ServesKeeps

LEMMA FileStepsKeep ==
    ASSUME TlsInv, StatFiles \/ LoadFiles
    PROVE  TlsInv'
<1>1. /\ tls # NULL /\ tls \in TlsJob /\ phase \in {"cert", "run"}
      /\ conf.https = "files" /\ tls.purpose = "serve" /\ ~checked
    BY JobType DEF StatFiles, LoadFiles, TlsInv, JobFits
<1>2. /\ userKey \in 0..MaxRenewals /\ userCert \in 0..MaxRenewals
      /\ srvKey \in Pairs \union {NULL} /\ srvCert \in Certificate \union {NULL}
      /\ cert \in Certificate \union {NULL} /\ fileMod \in 0..(2 * MaxRenewals)
    BY DEF TlsInv, TlsTypeOK
<1>3. CASE StatFiles
    <2>1. CASE cert # NULL /\ NewestModTime <= fileMod
        BY <1>1, <1>2, <1>3, <2>1, ServesKeeps DEF StatFiles, srvFiles
    <2>2. CASE ~(cert # NULL /\ NewestModTime <= fileMod)
        <3> DEFINE t == [tls EXCEPT !.pc = "loadFiles", !.mod = NewestModTime]
        <3>1. NewestModTime \in 0..(2 * MaxRenewals)
            BY <1>2, TlsAssumption DEF NewestModTime
        <3>2. t \in TlsJob /\ t.pc = "loadFiles" /\ t.purpose = "serve"
            BY <1>1, <3>1 DEF TlsJob
        <3>3. /\ tls' = t
              /\ UNCHANGED <<phase, conf, caKey, caCert, srvKey, srvCert, userKey, userCert,
                             cert, checked, fileMod>>
            BY <1>3, <2>2 DEF StatFiles, processVars, caFiles, srvFiles, userFiles, memory
        <3> HIDE DEF t
        <3>4. TlsTypeOK'
            BY <3>2, <3>3 DEF TlsInv, TlsTypeOK
        <3> QED
            BY <1>1, <3>2, <3>3, <3>4
            DEF TlsInv, JobFits, HalfWritten, CheckedIsServed, EmptyMemory
    <2> QED
        BY <2>1, <2>2
<1>4. CASE LoadFiles
    <2>1. CASE userKey = userCert
        <3> DEFINE c == [pair |-> userCert, ca |-> NULL, hosts |-> {}, age |-> 0]
        <3>1. c \in Certificate
            BY <1>2 DEF Certificate
        <3>2. Serves(c, tls.mod) /\ UNCHANGED <<caFiles, srvFiles, userFiles>>
            BY <1>4, <2>1 DEF LoadFiles
        <3>3. tls.mod \in 0..(2 * MaxRenewals)
            BY <1>1 DEF TlsJob
        <3> HIDE DEF c
        <3> QED
            BY <1>1, <1>2, <3>1, <3>2, <3>3, ServesKeeps DEF srvFiles
    <2>2. CASE userKey # userCert
        BY <1>1, <1>4, <2>2, FailsKeeps DEF LoadFiles
    <2> QED
        BY <2>1, <2>2
<1> QED
    BY <1>3, <1>4

LEMMA GetCertificateKeeps ==
    ASSUME TlsInv, GetCertificate \/ CACertPEM
    PROVE  TlsInv'
<1>1. CASE GetCertificate
    <2>1. ~checked /\ phase \in {"cert", "run"}
        BY <1>1 DEF GetCertificate, NeedsCheck, TlsInv, CheckedIsServed
    <2>2. CASE conf.https = "ca" /\ Asks("serve", "ensureCA")
        BY <2>1, <2>2, AsksKeeps
    <2>3. CASE conf.https = "files" /\ Asks("serve", "stat")
        BY <2>1, <2>3, AsksKeeps
    <2> QED
        BY <1>1, <2>2, <2>3 DEF GetCertificate
<1>2. CASE CACertPEM
    BY <1>2, AsksKeeps DEF CACertPEM
<1> QED
    BY <1>1, <1>2

LEMMA TlsStepKeeps ==
    ASSUME ProcessInv, TlsInv, TlsStep \/ CACertPEM
    PROVE  TlsInv'
<1>1. CASE DiskFails
    BY <1>1, FailsKeeps DEF DiskFails
<1> QED
    BY <1>1, EnsureCAKeeps, WriteCACertKeeps, LoadOrIssueKeeps, WriteServerCertKeeps,
       FileStepsKeep, GetCertificateKeeps DEF TlsStep

-----------------------------------------------------------------------------
(* What comes from outside. *)

LEMMA OlderType ==
    ASSUME NEW c \in Certificate \union {NULL}
    PROVE  /\ Older(c) \in Certificate \union {NULL}
           /\ c # NULL => Older(c) # NULL
<1>1. CASE c = NULL
    BY <1>1 DEF Older
<1>2. CASE c # NULL
    <2>1. c \in Certificate
        BY <1>2
    <2>2. Older(c) = [c EXCEPT !.age = IF c.age < 2 THEN c.age + 1 ELSE 2]
        BY <1>2 DEF Older
    <2>3. Older(c) \in Certificate
        BY <2>1, <2>2 DEF Certificate
    <2> QED
        BY <2>3, TlsAssumption
<1> QED
    BY <1>1, <1>2

LEMMA OutsideKeepsTls ==
    ASSUME TlsInv, RenewFile \/ LoseCA \/ TlsTime
    PROVE  TlsInv'
<1> USE DEF TlsInv, JobFits, HalfWritten, CheckedIsServed, EmptyMemory
<1>1. CASE RenewFile
    <2>1. userKey' \in 0..MaxRenewals /\ userCert' \in 0..MaxRenewals
        BY <1>1, TlsAssumption DEF RenewFile, TlsTypeOK
    <2>2. UNCHANGED <<phase, conf, caKey, caCert, srvKey, srvCert, cert, checked, fileMod, tls>>
        BY <1>1 DEF RenewFile, processVars, caFiles, srvFiles, memory
    <2> QED
        BY <2>1, <2>2 DEF TlsTypeOK
<1>2. CASE LoseCA
    BY <1>2 DEF LoseCA, TlsTypeOK, processVars, srvFiles, userFiles, memory
<1>3. CASE TlsTime
    <2>1. /\ checked' = FALSE
          /\ UNCHANGED <<phase, conf, caKey, caCert, srvKey, userKey, userCert, fileMod, tls>>
          /\ \/ UNCHANGED <<cert, srvCert>>
             \/ cert' = Older(cert) /\ srvCert' = Older(srvCert)
        BY <1>3 DEF TlsTime, processVars, caFiles, userFiles
    <2>2. /\ cert' \in Certificate \union {NULL} /\ srvCert' \in Certificate \union {NULL}
          /\ cert = NULL => cert' = NULL
        BY <2>1, OlderType DEF TlsTypeOK, Older
    <2>3. TlsTypeOK'
        BY <2>1, <2>2 DEF TlsTypeOK
    <2> QED
        BY <2>1, <2>2, <2>3
<1> QED
    BY <1>1, <1>2, <1>3

LEMMA NoRenewalYet == 0 \in 0..MaxRenewals /\ 0 \in 0..(2 * MaxRenewals)
BY TlsAssumption

LEMMA NextKeepsTls ==
    ASSUME ProcessInv, TlsInv, [Next]_serverVars
    PROVE  TlsInv'
<1>1. CASE NoTls
    BY <1>1 DEF NoTls, tlsVars, caFiles, srvFiles, userFiles, memory, TlsInv, TlsTypeOK,
                JobFits, HalfWritten, CheckedIsServed, EmptyMemory
<1>2. CASE TlsDie /\ phase' = "down"
    <2>1. /\ cert' = NULL /\ checked' = FALSE /\ fileMod' = 0 /\ tls' = NULL
          /\ UNCHANGED <<caKey, caCert, srvKey, srvCert, userKey, userCert>>
        BY <1>2 DEF TlsDie, Memoryless, caFiles, srvFiles, userFiles
    <2>2. TlsTypeOK'
        BY <2>1, NoRenewalYet DEF TlsInv, TlsTypeOK
    <2> QED
        BY <2>1, <2>2 DEF TlsInv, JobFits, HalfWritten, CheckedIsServed, EmptyMemory
<1>3. CASE TlsStep \/ CACertPEM
    BY <1>3, TlsStepKeeps
<1>4. CASE RenewFile \/ LoseCA \/ TlsTime
    BY <1>4, OutsideKeepsTls
<1> QED
    BY <1>1, <1>2, <1>3, <1>4, NextOfTls

LEMMA InitIsTlsInv ==
    ASSUME Init
    PROVE  TlsInv
BY NoRenewalYet DEF Init, ProcessInit, TlsInit, TlsInv, TlsTypeOK, JobFits, HalfWritten,
                    CheckedIsServed, EmptyMemory

(* The job, the files and the memory fit together at every step. *)
THEOREM TlsInvariant == Spec => []TlsInv
<1>1. Init => TlsInv
    BY InitIsTlsInv
<1>2. ProcessInv /\ TlsInv /\ [Next]_serverVars => TlsInv'
    BY NextKeepsTls
<1> QED
    BY <1>1, <1>2, ProcessInvariant, PTL DEF Spec

(* A certificate checked within the hour covers the configured hosts, is   *)
(* in force, and is in the files with its key.                             *)
THEOREM CheckedCertificateServed == Spec => []ServedCertificate
<1>1. TlsInv => ServedCertificate
    BY DEF TlsInv, CheckedIsServed, ServedCertificate
<1> QED
    BY <1>1, TlsInvariant, PTL

(* The server never overwrites a file of its CA, whether it is whole or    *)
(* one half of it, and wherever it crashed before.                         *)
THEOREM CANeverReplaced == Spec => CAKept
<1>1. TlsInv /\ [Next]_serverVars
          => [/\ caKey # NULL => caKey' = caKey \/ LoseCA
              /\ caCert # NULL => caCert' = caCert \/ LoseCA]_serverVars
    <2> SUFFICES ASSUME TlsInv, [Next]_serverVars
                 PROVE  /\ caKey # NULL => caKey' = caKey \/ LoseCA
                        /\ caCert # NULL => caCert' = caCert \/ LoseCA
        OBVIOUS
    <2>1. CASE NoTls \/ TlsDie \/ RenewFile \/ TlsTime
        BY <2>1 DEF NoTls, tlsVars, TlsDie, RenewFile, TlsTime, caFiles
    <2>2. CASE EnsureCA
        BY <2>2 DEF EnsureCA, caFiles
    <2>3. CASE WriteCACert
        BY <2>3 DEF WriteCACert, TlsInv, HalfWritten
    <2>4. CASE GetCertificate \/ CACertPEM
        BY <2>4 DEF GetCertificate, CACertPEM, Asks, caFiles
    <2>5. CASE LoadOrIssue \/ WriteServerCert \/ DiskFails \/ StatFiles \/ LoadFiles
        BY <2>5 DEF LoadOrIssue, WriteServerCert, DiskFails, StatFiles, LoadFiles, caFiles
    <2> QED
        BY <2>1, <2>2, <2>3, <2>4, <2>5, NextOfTls DEF TlsStep
<1> QED
    BY <1>1, TlsInvariant, PTL DEF Spec, CAKept

(* A server that has a certificate goes on with one: no failed check or    *)
(* write takes it away.                                                    *)
THEOREM CertificateNeverDropped == Spec => KeepsServing
<1>1. TlsInv /\ TlsInv' /\ [Next]_serverVars
          => [cert # NULL /\ phase' = "run" => cert' # NULL]_serverVars
    <2> SUFFICES ASSUME TlsInv, TlsInv', [Next]_serverVars, cert # NULL, phase' = "run"
                 PROVE  cert' # NULL
        OBVIOUS
    <2>1. CASE NoTls \/ RenewFile \/ LoseCA
        BY <2>1 DEF NoTls, tlsVars, RenewFile, LoseCA, memory
    <2>2. CASE TlsTime
        BY <2>2, OlderType DEF TlsTime, TlsInv, TlsTypeOK
    <2>3. CASE GetCertificate \/ CACertPEM
        BY <2>3 DEF GetCertificate, CACertPEM, Asks, memory
    <2>4. CASE EnsureCA \/ WriteCACert \/ DiskFails
        BY <2>4 DEF EnsureCA, WriteCACert, DiskFails, HaveCA, Fails, memory
    <2>5. CASE LoadOrIssue \/ WriteServerCert \/ StatFiles \/ LoadFiles
        <3>1. UNCHANGED memory \/ checked'
            BY <2>5 DEF LoadOrIssue, WriteServerCert, StatFiles, LoadFiles, Serves, Fails
        <3> QED
            BY <3>1 DEF memory, TlsInv, CheckedIsServed
    <2>6. CASE TlsDie /\ phase' = "down"
        BY <2>6
    <2> QED
        BY <2>1, <2>2, <2>3, <2>4, <2>5, <2>6, NextOfTls DEF TlsStep
<1> QED
    BY <1>1, TlsInvariant, PTL DEF Spec, KeepsServing
=============================================================================
