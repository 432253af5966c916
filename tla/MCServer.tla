------------------------------ MODULE MCServer ------------------------------
(***************************************************************************)
(* Small instances of the process for TLC: data directories to start from, *)
(* each with the configurations and the operations that meet there.        *)
(***************************************************************************)
EXTENDS Server, TLC

CONSTANTS own, r1, m1, typed, h1, h2

Canonical == [s \in Spellings |-> IF s = typed THEN m1 ELSE s]

With(encryption, https, hosts) ==
    [encryption |-> encryption, https |-> https, hosts |-> hosts]

Plainly == With("off", "off", {})

Empty == [t \in Tables |-> 0]

(* A new data directory: one configuration, nothing stored. *)
New == [schema |-> 0, content |-> Empty, stored |-> [r \in Rows |-> NULL],
        confs |-> {Plainly}, ops |-> {}]

Ready == [New EXCEPT !.schema = Migrations, !.content["screens"] = 1]

(* The first starts, which crash and fail; a directory with one screen. *)
Seeding == [New EXCEPT !.ops = {"crash", "store.fail"}]
NotSeeding == [Seeding EXCEPT !.content["screens"] = 1]

(* Plaintext next to a row of an older release, and every configuration. *)
Encrypting ==
    [Ready EXCEPT !.stored = [r \in Rows |-> IF r = r1 THEN Plain ELSE Legacy],
        !.confs = {With("off", "off", {}), With("file", "off", {}), With("own", "off", {})},
        !.ops = {"crash", "store.fail", "disk.fail", "key.lose", "secret.save"}]

(* A key file that is there, and that a start may fail to read. *)
Misreading ==
    [Encrypting EXCEPT !.confs = {With("file", "off", {})},
        !.ops = {"crash", "disk.fail", "key.misread", "secret.save"}]

(* Two configurations that differ in the hosts. *)
Certifying ==
    [Ready EXCEPT !.confs = {With("off", "ca", {h1}), With("off", "ca", {h1, h2})},
        !.ops = {"crash", "disk.fail", "age", "ca.lose", "ca.download"}]

Renewing ==
    [Ready EXCEPT !.confs = {With("off", "files", {})}, !.ops = {"files.renew", "crash"}]

Stopping == [Ready EXCEPT !.ops = {"listen.fail", "signal", "request"}]

Registering == [Ready EXCEPT !.ops = {"device.add", "device.remove", "store.fail"}]

Uploading ==
    [Ready EXCEPT !.ops = {"asset.upload", "form.save", "sweep", "disk.fail"}]

MisreadingOnly == {Misreading}
RegisteringOnly == {Registering}

AllScenarios == {Seeding, NotSeeding, Encrypting, Misreading, Certifying, Renewing, Stopping,
                 Registering, Uploading}
=============================================================================
