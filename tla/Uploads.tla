------------------------------ MODULE Uploads ------------------------------
(***************************************************************************)
(* The uploads directory, and the maintenance sweep that prunes it.        *)
(*                                                                         *)
(* A rendered picture is one file named after its hash (the BMP and its    *)
(* PNG twin are one unit here).  A file's age matters only against the     *)
(* sweep's grace period, so it is a flag: a file is old once the grace     *)
(* period has passed since its modification time.                          *)
(***************************************************************************)
EXTENDS Store

VARIABLES
    files,       \* the pictures in the directory
    old,         \* those of them whose grace period has passed
    sweep        \* the sweep: idle, or running with the hashes it will keep

uploadVars == <<files, old, sweep>>

SweepIdle == [on |-> FALSE, keep |-> {}]

UploadsTypeOK ==
    /\ files \in SUBSET Image
    /\ old \in SUBSET files
    /\ sweep \in [on : BOOLEAN, keep : SUBSET Image]

-----------------------------------------------------------------------------

(* render.writeIfAbsent: a file that is already there is left as it is, so *)
(* its modification time, and with it its age, does not change.            *)
BugWriteIfUnknown(img) ==            \* asks the tables, not the directory
    /\ files' = IF img \in ActiveRenderHashes THEN files ELSE files \union {img}
    /\ UNCHANGED <<old, sweep>>

WriteIfAbsent(img) ==
    /\ files' = files \union {img}
    /\ UNCHANGED <<old, sweep>>

(* sweepCache reads the hashes the tables refer to, and then walks the     *)
(* directory.                                                              *)
SweepStart ==
    /\ ~sweep.on
    /\ sweep' = [on |-> TRUE, keep |-> ActiveRenderHashes]
    /\ UNCHANGED <<storeVars, files, old>>

BugNoGrace(img) ==                   \* no grace period
    /\ sweep.on
    /\ img \in files
    /\ img \notin sweep.keep
    /\ files' = files \ {img}
    /\ old' = old \ {img}
    /\ UNCHANGED <<storeVars, sweep>>

BugInverted(img) ==                  \* Before(cutoff) for After(cutoff)
    /\ sweep.on
    /\ img \in files
    /\ img \notin sweep.keep
    /\ img \notin old
    /\ files' = files \ {img}
    /\ UNCHANGED <<storeVars, old, sweep>>

SweepRemove(img) ==
    /\ sweep.on
    /\ img \in files
    /\ img \notin sweep.keep
    /\ img \in old                   \* else it is too recent to prune
    /\ files' = files \ {img}
    /\ old' = old \ {img}
    /\ UNCHANGED <<storeVars, sweep>>

(* The walk visits every entry; failing: os.Remove may fail.               *)
SweepEnd(failing) ==
    /\ sweep.on
    /\ old \subseteq sweep.keep \/ failing
    /\ sweep' = SweepIdle
    /\ UNCHANGED <<storeVars, files, old>>

(* The grace period of a file passes.  The sweep compares every file with  *)
(* one cutoff taken when it starts, so nothing becomes old during a sweep. *)
(* held: the pictures whose files requests in flight have written; no      *)
(* request is taken to last as long as the grace period.                   *)
AgeFile(img, held) ==
    /\ ~sweep.on
    /\ img \in files \ old
    /\ img \notin held
    /\ old' = old \union {img}
    /\ UNCHANGED <<storeVars, files, sweep>>
=============================================================================
