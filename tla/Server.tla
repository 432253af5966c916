------------------------------- MODULE Server -------------------------------
(***************************************************************************)
(* A trmnld process from its start to its end, and the next one: the       *)
(* phases of Process with the secrets, the certificate, the listeners and  *)
(* what requests do to registrations and assets meanwhile.  A crash may    *)
(* come between any two steps.                                             *)
(***************************************************************************)
EXTENDS Secrets, TlsCert, Listeners, Provisioning, Assets

serverVars == <<processVars, secretVars, tlsVars, runVars, provisionVars, assetVars>>

ASSUME ServerAssumption ==
    \A s \in Scenarios :
        /\ s.schema \in 0..Migrations /\ s.content \in [Tables -> Nat]
        /\ s.confs \subseteq Config
        /\ s.stored \in [Rows -> {OwnKey, Plain, Legacy, NULL}]

Init ==
    /\ scenario \in Scenarios
    /\ ProcessInit /\ SecretsInit /\ TlsInit /\ ListenersOff
    /\ ProvisioningInit /\ AssetsInit

-----------------------------------------------------------------------------
ButProcess == <<secretVars, tlsVars, runVars, provisionVars, assetVars>>
ButSecrets == <<tlsVars, runVars, provisionVars, assetVars>>
ButTls == <<secretVars, runVars, provisionVars, assetVars>>
ButListeners == <<secretVars, tlsVars, provisionVars, assetVars>>
ButProvisioning == <<secretVars, tlsVars, runVars, assetVars>>
ButAssets == <<secretVars, tlsVars, runVars, provisionVars>>

(* The process ends: the Run of its listeners returned, or it crashes. *)
Ends ==
    /\ Returned \/ (Has("crash") /\ phase # "down")
    /\ Dies
    /\ SecretsDie /\ TlsDie /\ ListenersDie /\ ProvisioningDie /\ AssetsDie

(* Requests come in once a listener is open, and may go on while it is     *)
(* being shut down.                                                        *)
Answering == \E l \in All : lst[l] \notin {"off", "starting"}

Startup ==
    \/ Starts /\ UNCHANGED ButProcess
    \/ OpenAndSeed /\ UNCHANGED ButProcess
    \/ SetUpSecrets /\ UNCHANGED ButSecrets
    \/ TLSConfigDone /\ UNCHANGED ButTls

Tls ==
    /\ phase = "run" => Answering
    /\ TlsStep \/ CACertPEM
    /\ IF phase' = "down" THEN SecretsDie /\ UNCHANGED <<runVars, provisionVars, assetVars>>
       ELSE UNCHANGED ButTls

Listening == (Run \/ Serve) /\ ~Returned /\ UNCHANGED ButListeners

Serving ==
    /\ Answering
    /\ \/ UseSecrets /\ UNCHANGED ButSecrets
       \/ Provisioning /\ UNCHANGED ButProvisioning
       \/ AssetStep /\ UNCHANGED ButAssets

Outside ==
    \/ LoseKey /\ UNCHANGED ButSecrets
    \/ (RenewFile \/ LoseCA \/ TlsTime) /\ UNCHANGED ButTls

Next == Ends \/ Startup \/ Tls \/ Listening \/ Serving \/ Outside

Spec == Init /\ [][Next]_serverVars

(* Run goes on, and the process ends when it returns; time passes, and     *)
(* browsers keep coming.                                                   *)
Fairness ==
    /\ WF_serverVars(Run /\ ~Returned /\ UNCHANGED ButListeners)
    /\ WF_serverVars(Ends /\ Returned)
    /\ WF_serverVars(Tls)
    /\ WF_serverVars(TlsTime /\ UNCHANGED ButTls)

LiveSpec == Spec /\ Fairness

-----------------------------------------------------------------------------
ServerTypeOK ==
    /\ ProcessTypeOK /\ SecretsTypeOK /\ TlsTypeOK /\ ListenersTypeOK
    /\ ProvisioningTypeOK /\ AssetsTypeOK

(* A process that uses the key file can read every credential, however     *)
(* often it crashed, and in whichever write, except those encrypted with   *)
(* the operator's own key, or with a key that is gone: he removed it, or   *)
(* the server overwrote it.  It overwrites none as long as the file can be *)
(* read whenever it is there (see KeyKept).                                *)
UnreadableOnlyIfLost ==
    /\ ~Has("key.misread") => overwritten = {}
    /\ phase \in {"encrypt", "cert", "run"} /\ conf.encryption = "file"
           => \A r \in Rows :
                 stored[r] \notin {NULL, Legacy, OwnKey} \union lost \union overwritten
                     => Decrypts(stored[r])

(* "LoadOrCreateKey returns the key stored at path, creating it [...] when *)
(* absent or empty": the server itself never replaces a key.  The code     *)
(* does not keep it: it replaces one that is there and cannot be read      *)
(* (ServerKey.cfg).                                                        *)
KeyKept == [][keyFile # NULL => keyFile' = keyFile \/ LoseKey]_serverVars

(* With encryption on, no credential is left in plaintext once the server  *)
(* has started, not even one next to rows that cannot be read any more     *)
(* ("encrypts any plaintext stored secrets"); unless the store failed.     *)
NothingPlain ==
    phase \in {"cert", "run"} /\ box # NULL /\ ~gaveUp
        => \A r \in Rows : stored[r] # Plain

(* The example content is there at most once, and is never added to a      *)
(* database that has content, whatever a crash or an error left of it ("It *)
(* is a no-op once any screens or playlists exist").                       *)
ExampleOnce ==
    IF scenario.content["playlists"] = 0 /\ scenario.content["screens"] = 0
    THEN content["playlists"] <= 1 /\ content["screens"] <= 2
    ELSE content = scenario.content

(* "Refuse to silently replace half a CA: browsers may already trust it":  *)
(* the server never overwrites a file of the CA.                           *)
CAKept ==
    [][/\ caKey # NULL => caKey' = caKey \/ LoseCA
       /\ caCert # NULL => caCert' = caCert \/ LoseCA]_serverVars

(* The certificate in memory that was checked within the hour covers the   *)
(* hosts of the present configuration and does not expire soon, and is the *)
(* one a restart will find, complete with its key.                         *)
ServedCertificate ==
    checked /\ conf.https = "ca" =>
        /\ conf.hosts \subseteq cert.hosts /\ cert.age = 0
        /\ tls = NULL \/ tls.purpose = "download" => srvCert = cert /\ srvKey = cert.pair

(* "Keep serving the previous certificate rather than failing handshakes." *)
KeepsServing == [][cert # NULL /\ phase' = "run" => cert' # NULL]_serverVars

(* Renewed files are picked up without a restart, even if the server looks *)
(* at them when only one of the two is new (NewFromFiles).                 *)
RenewalPickedUp ==
    \A n \in 0..MaxRenewals :
        (<>[](phase = "run" /\ Answering /\ conf.https = "files" /\ userKey = n /\ userCert = n))
        => <>[](cert # NULL /\ cert.pair = n)

(* When Run returns, no listener is left open, whichever failed and        *)
(* whichever was slow; and it returns no error only if it was told to stop *)
(* and cut no request short.                                               *)
CleanExit ==
    Returned =>
        /\ \A l \in All : lst[l] \in {"failed", "closed"}
        /\ runErr = NULL => signal /\ busy = {}

(* A listener that fails ends the process ("If any listener fails, the     *)
(* others are shut down"), even if requests hang.                          *)
FailureEndsRun ==
    \A l \in All : lst[l] = "failed" ~> phase = "down"

(* Whoever adds a MAC is answered with its device: a lost race is not an   *)
(* error, and chance is tried again.  An error says that there is no such  *)
(* device, or that the store failed.  A request whose own row was deleted  *)
(* before it read it back is left out: see ProvisionAnswersItsDevice.      *)
LostRaceIsNoError ==
    [][\A r \in Requests :
          adding[r].pc # "done" /\ adding'[r].pc = "done" /\ ~adding[r].gone =>
              \/ adding'[r].answer \in WithMAC(adding[r].mac)
              \/ /\ adding'[r].answer = NULL
                 /\ adding'[r].failed \/ WithMAC(adding[r].mac) = {}]_serverVars

(* "Provision returns the device for mac": not another one.  The code does *)
(* not keep it: CreateDevice reads its row back by an id that may have     *)
(* been given to another device since (ServerProvision.cfg).               *)
ProvisionAnswersItsDevice ==
    [][\A r \in Requests :
          adding[r].pc # "done" /\ adding'[r].pc = "done" /\ adding'[r].answer # NULL
              => adding'[r].answer.mac = adding[r].mac]_serverVars

(* The sweep takes no image from a screen, however it runs into an upload; *)
(* only a form opened before an upload and saved after it may name a file  *)
(* that is gone.                                                           *)
ScreensFileExists ==
    \A s \in Screens : names[s] \in assets \union again \union {NULL}
=============================================================================
