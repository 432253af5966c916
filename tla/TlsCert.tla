------------------------------ MODULE TlsCert ------------------------------
(***************************************************************************)
(* The certificate of the HTTPS listener (tlscert.Source): issued by a     *)
(* local CA that is created on first use, or read from files the operator  *)
(* supplies.  The server keeps it in memory and checks it again, at the    *)
(* next handshake, once an hour has passed.  Every file is replaced        *)
(* atomically, but a key and its certificate are two files: the process    *)
(* may die between them, a write may fail, and the operator changes his    *)
(* files one after the other.  The mutex of Source is held all along, so   *)
(* there is one job.                                                       *)
(***************************************************************************)
EXTENDS Process

CONSTANTS
    CAs,          \* bound: CA key pairs
    Pairs,        \* bound: server key pairs the local CA signs
    MaxRenewals   \* bound: how often the operator renews his files

VARIABLES
    caKey, caCert,      \* ca.key and ca.crt: the CA in the file, or NULL
    srvKey, srvCert,    \* server.key and server.crt, or NULL
    userKey, userCert,  \* the operator's files: which renewal each holds
    cert,               \* Source.cert: the certificate served, or NULL
    checked,            \* less than an hour since checkedAt
    fileMod,            \* Source.fileMod
    tls                 \* the job that holds the mutex, or NULL

caFiles == <<caKey, caCert>>
srvFiles == <<srvKey, srvCert>>
userFiles == <<userKey, userCert>>
memory == <<cert, checked, fileMod>>
tlsVars == <<caFiles, srvFiles, userFiles, memory, tls>>

(* age: 0 is more than 30 days before the expiry, 2 is expired. *)
Certificate == [pair : Pairs \union (0..MaxRenewals), ca : CAs \union {NULL},
                hosts : SUBSET Hosts, age : 0..2]

(* purpose: a certificate for a listener, or the CA for the admin page. *)
TlsJob == [pc : {"ensureCA", "caCert", "load", "serverCert", "stat", "loadFiles"},
           purpose : {"serve", "download"}, ca : CAs \union {NULL},
           pair : Pairs \union {NULL}, mod : 0..(2 * MaxRenewals)]

ASSUME TlsAssumption == MaxRenewals \in Nat /\ NULL \notin Certificate \union TlsJob

TlsTypeOK ==
    /\ caKey \in CAs \union {NULL} /\ caCert \in CAs \union {NULL}
    /\ srvKey \in Pairs \union {NULL} /\ srvCert \in Certificate \union {NULL}
    /\ userKey \in 0..MaxRenewals /\ userCert \in 0..MaxRenewals
    /\ cert \in Certificate \union {NULL} /\ checked \in BOOLEAN
    /\ fileMod \in 0..(2 * MaxRenewals) /\ tls \in TlsJob \union {NULL}

Memoryless == cert' = NULL /\ checked' = FALSE /\ fileMod' = 0 /\ tls' = NULL

TlsInit ==
    /\ caKey = NULL /\ caCert = NULL /\ srvKey = NULL /\ srvCert = NULL
    /\ userKey = 0 /\ userCert = 0
    /\ cert = NULL /\ checked = FALSE /\ fileMod = 0 /\ tls = NULL

TlsDie == Memoryless /\ UNCHANGED <<caFiles, srvFiles, userFiles>>

-----------------------------------------------------------------------------
(* TLSConfig at the start, a handshake, and a request for /admin/https. *)
Asks(purpose, pc) ==
    /\ tls = NULL
    /\ tls' = [pc |-> pc, purpose |-> purpose, ca |-> NULL, pair |-> NULL, mod |-> 0]
    /\ UNCHANGED <<processVars, caFiles, srvFiles, userFiles, memory>>

BugLoadsOnce == cert = NULL              \* a certificate in memory is good for ever

NeedsCheck == cert = NULL \/ ~checked

GetCertificate ==
    /\ phase \in {"cert", "run"}
    /\ NeedsCheck
    /\ \/ conf.https = "ca" /\ Asks("serve", "ensureCA")
       \/ conf.https = "files" /\ Asks("serve", "stat")

CACertPEM ==
    /\ phase = "run" /\ conf.https = "ca" /\ Has("ca.download")
    /\ Asks("download", "ensureCA")

TLSConfigDone ==
    /\ phase = "cert"
    /\ conf.https = "off" \/ (cert # NULL /\ tls = NULL)
    /\ GoesTo("run")
    /\ UNCHANGED tlsVars

BugDropsCertificate ==                   \* an error forgets the certificate
    /\ tls' = NULL
    /\ cert' = IF tls.purpose = "serve" THEN NULL ELSE cert
    /\ UNCHANGED <<checked, fileMod>>
    /\ IF phase = "cert" THEN GoesTo("down") ELSE UNCHANGED processVars

(* An error: the certificate served before is kept, and without one the    *)
(* process does not start.                                                 *)
Fails ==
    /\ tls' = NULL
    /\ UNCHANGED memory
    /\ IF cert = NULL /\ tls.purpose = "serve" THEN GoesTo("down")
       ELSE UNCHANGED processVars

Serves(c, mod) ==
    /\ cert' = c /\ checked' = TRUE /\ fileMod' = mod /\ tls' = NULL
    /\ UNCHANGED processVars

-----------------------------------------------------------------------------
(* Random identities: not in any file and not in memory. *)
SeenCAs == {caKey, caCert} \union {c.ca : c \in {srvCert, cert} \ {NULL}}
SeenPairs == {srvKey} \union {c.pair : c \in {srvCert, cert} \ {NULL}}

HaveCA(ca) ==
    /\ tls' = IF tls.purpose = "download" THEN NULL ELSE [tls EXCEPT !.pc = "load", !.ca = ca]
    /\ UNCHANGED <<processVars, srvFiles, userFiles, memory>>

BugReplacesHalf ==                       \* a CA that is not complete is made anew
    /\ tls # NULL /\ tls.pc = "ensureCA"
    /\ \/ caKey # NULL /\ caCert = caKey /\ HaveCA(caCert) /\ UNCHANGED caFiles
       \/ /\ NULL \in {caKey, caCert}
          /\ \E ca \in CAs \ SeenCAs :
                caKey' = ca /\ tls' = [tls EXCEPT !.pc = "caCert", !.ca = ca]
          /\ UNCHANGED <<processVars, caCert, srvFiles, userFiles, memory>>

(* ensureCA: a complete CA is loaded, none at all is made, and half a CA   *)
(* is refused, as is one whose certificate and key do not match.           *)
EnsureCA ==
    /\ tls # NULL /\ tls.pc = "ensureCA"
    /\ \/ caKey # NULL /\ caCert = caKey /\ HaveCA(caCert) /\ UNCHANGED caFiles
       \/ /\ caKey = NULL /\ caCert = NULL
          /\ \E ca \in CAs \ SeenCAs :
                caKey' = ca /\ tls' = [tls EXCEPT !.pc = "caCert", !.ca = ca]
          /\ UNCHANGED <<processVars, caCert, srvFiles, userFiles, memory>>
       \/ caKey # caCert /\ Fails /\ UNCHANGED <<caFiles, srvFiles, userFiles>>

WriteCACert ==
    /\ tls # NULL /\ tls.pc = "caCert"
    /\ caCert' = tls.ca
    /\ HaveCA(tls.ca)
    /\ UNCHANGED caKey

BugUsable == srvCert # NULL /\ srvKey = srvCert.pair    \* any certificate will do
                /\ srvCert.ca = tls.ca /\ srvCert.age = 0

(* The stored certificate belongs to its key, is of this CA, does not      *)
(* expire within 30 days and covers every host.  (It begins an hour before *)
(* it is issued; that is left out, as only a clock set back could tell.)   *)
Usable ==
    /\ srvCert # NULL /\ srvKey = srvCert.pair
    /\ srvCert.ca = tls.ca
    /\ srvCert.age = 0
    /\ conf.hosts \subseteq srvCert.hosts

(* A pair that cannot be read is as good as none: a new one is issued. *)
LoadOrIssue ==
    /\ tls # NULL /\ tls.pc = "load"
    /\ \/ Usable /\ Serves(srvCert, fileMod) /\ UNCHANGED srvKey
       \/ /\ ~Usable \/ Has("disk.fail")
          /\ \E p \in Pairs \ SeenPairs :
                srvKey' = p /\ tls' = [tls EXCEPT !.pc = "serverCert", !.pair = p]
          /\ UNCHANGED <<processVars, memory>>
    /\ UNCHANGED <<caFiles, srvCert, userFiles>>

WriteServerCert ==
    /\ tls # NULL /\ tls.pc = "serverCert"
    /\ srvCert' = [pair |-> tls.pair, ca |-> tls.ca, hosts |-> conf.hosts, age |-> 0]
    /\ Serves(srvCert', fileMod)
    /\ UNCHANGED <<caFiles, srvKey, userFiles>>

(* A file cannot be read, or not be written, at any step of a job. *)
DiskFails ==
    /\ tls # NULL /\ Has("disk.fail")
    /\ Fails
    /\ UNCHANGED <<caFiles, srvFiles, userFiles>>

-----------------------------------------------------------------------------
(* loadFiles.  Every write of the operator is the newest modification so   *)
(* far, so their number is the time of the last one.                       *)
NewestModTime == userKey + userCert

StatFiles ==
    /\ tls # NULL /\ tls.pc = "stat"
    /\ IF cert # NULL /\ NewestModTime <= fileMod THEN Serves(cert, fileMod)
       ELSE /\ tls' = [tls EXCEPT !.pc = "loadFiles", !.mod = NewestModTime]
            /\ UNCHANGED <<processVars, memory>>
    /\ UNCHANGED <<caFiles, srvFiles, userFiles>>

LoadFiles ==
    /\ tls # NULL /\ tls.pc = "loadFiles"
    /\ IF userKey = userCert
       THEN Serves([pair |-> userCert, ca |-> NULL, hosts |-> {}, age |-> 0], tls.mod)
       ELSE Fails
    /\ UNCHANGED <<caFiles, srvFiles, userFiles>>

TlsStep ==
    \/ GetCertificate \/ EnsureCA \/ WriteCACert \/ LoadOrIssue \/ WriteServerCert
    \/ DiskFails \/ StatFiles \/ LoadFiles

-----------------------------------------------------------------------------
(* The operator renews the key and the certificate, in either order. *)
RenewFile ==
    /\ Has("files.renew")
    /\ \/ /\ userKey <= userCert /\ userKey < MaxRenewals
          /\ userKey' = userKey + 1 /\ UNCHANGED userCert
       \/ /\ userCert <= userKey /\ userCert < MaxRenewals
          /\ userCert' = userCert + 1 /\ UNCHANGED userKey
    /\ UNCHANGED <<processVars, caFiles, srvFiles, memory, tls>>

(* A file of the CA is removed, by accident or to make a new CA. *)
LoseCA ==
    /\ Has("ca.lose")
    /\ \/ caKey # NULL /\ caKey' = NULL /\ UNCHANGED caCert
       \/ caCert # NULL /\ caCert' = NULL /\ UNCHANGED caKey
    /\ UNCHANGED <<processVars, srvFiles, userFiles, memory, tls>>

Older(c) == IF c = NULL THEN NULL ELSE [c EXCEPT !.age = IF @ < 2 THEN @ + 1 ELSE 2]

(* An hour passes, or months. *)
TlsTime ==
    /\ checked' = FALSE
    /\ \/ checked /\ UNCHANGED <<cert, srvCert>>
       \/ /\ Has("age") /\ {srvCert, cert} # {NULL}
          /\ cert' = Older(cert) /\ srvCert' = Older(srvCert)
    /\ UNCHANGED <<processVars, caFiles, srvKey, userFiles, fileMod, tls>>
=============================================================================
