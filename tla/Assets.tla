------------------------------- MODULE Assets -------------------------------
(***************************************************************************)
(* The images an administrator uploads for static-image screens: the       *)
(* upload (ScreenUpload), the form that saves a screen's settings as they  *)
(* were when it was opened (ScreenUpdate), and the sweep that removes the  *)
(* files no screen names (sweepAssets, uploads.SweepAssets).               *)
(***************************************************************************)
EXTENDS Process

CONSTANTS
    Screens,      \* the static-image screens
    Files         \* bound: names of uploaded files, random

VARIABLES
    names,        \* names[s]: the file in the settings of screen s, or NULL
    assets,       \* the files in the assets directory
    aged,         \* those older than the cleanup interval
    upload,       \* the upload in progress: [pc, screen, file], or NULL
    form,         \* an open form: [screen, file], or NULL
    keep,         \* the sweep in progress: the files it keeps, or NULL
    again         \* files a form has named that no screen named before

assetVars == <<names, assets, aged, upload, form, keep, again>>

AssetsTypeOK ==
    /\ names \in [Screens -> Files \union {NULL}]
    /\ assets \in SUBSET Files /\ aged \in SUBSET assets /\ again \in SUBSET Files
    /\ upload \in [pc : {"copy", "save"}, screen : Screens, file : Files] \union {NULL}
    /\ form \in [screen : Screens, file : Files \union {NULL}] \union {NULL}
    /\ keep \in (SUBSET Files) \union {NULL}

AssetsInit ==
    /\ names = [s \in Screens |-> NULL]
    /\ assets = {} /\ aged = {} /\ again = {}
    /\ upload = NULL /\ form = NULL /\ keep = NULL

(* The form is open in the browser. *)
AssetsDie == upload' = NULL /\ keep' = NULL /\ UNCHANGED <<names, assets, aged, form, again>>

Named == {names[s] : s \in Screens} \ {NULL}

-----------------------------------------------------------------------------
(* The file is created, filled and closed, and then the settings name it.  *)
UploadStarts(s) ==
    /\ phase = "run" /\ Has("asset.upload")
    /\ upload = NULL
    /\ \E f \in Files \ (assets \union Named \union again) :
          /\ form # NULL => form.file # f
          /\ upload' = [pc |-> "copy", screen |-> s, file |-> f]
          /\ assets' = assets \union {f}
    /\ UNCHANGED <<processVars, names, aged, form, keep, again>>

UploadCopied ==
    /\ upload # NULL /\ upload.pc = "copy"
    /\ upload' = [upload EXCEPT !.pc = "save"]
    /\ UNCHANGED <<processVars, names, assets, aged, form, keep, again>>

UploadFails ==                       \* the browser goes away, or the disk is full
    /\ upload # NULL
    /\ Has("disk.fail")
    /\ upload' = NULL
    /\ UNCHANGED <<processVars, names, assets, aged, form, keep, again>>

UploadSaved ==
    /\ upload # NULL /\ upload.pc = "save"
    /\ names' = [names EXCEPT ![upload.screen] = upload.file]
    /\ upload' = NULL
    /\ UNCHANGED <<processVars, assets, aged, form, keep, again>>

FormOpens(s) ==
    /\ phase = "run" /\ Has("form.save")
    /\ form' = [screen |-> s, file |-> names[s]]
    /\ UNCHANGED <<processVars, names, assets, aged, upload, keep, again>>

FormSaved ==
    /\ phase = "run" /\ form # NULL
    /\ names' = [names EXCEPT ![form.screen] = form.file]
    /\ again' = again \union ({form.file} \ (Named \union {NULL}))
    /\ form' = NULL
    /\ UNCHANGED <<processVars, assets, aged, upload, keep>>

-----------------------------------------------------------------------------
SweepLists ==
    /\ phase = "run" /\ Has("sweep")
    /\ keep = NULL
    /\ keep' = Named
    /\ UNCHANGED <<processVars, names, assets, aged, upload, form, again>>

BugNoAge(f) == f \in assets \ keep   \* without the grace period

Removable(f) == f \in aged \ keep

SweepRemoves(f) ==
    /\ keep # NULL
    /\ Removable(f)
    /\ assets' = assets \ {f} /\ aged' = aged \ {f}
    /\ UNCHANGED <<processVars, names, upload, form, keep, again>>

SweepEnds ==                         \* a file may also be left for the next time
    /\ keep # NULL
    /\ keep' = NULL
    /\ UNCHANGED <<processVars, names, assets, aged, upload, form, again>>

(* A file gets older than the interval between two sweeps, the grace; an   *)
(* upload, and a sweep, take less.                                         *)
AssetAges(f) ==
    /\ f \in assets \ aged
    /\ keep = NULL
    /\ upload # NULL => upload.file # f
    /\ aged' = aged \union {f}
    /\ UNCHANGED <<processVars, names, assets, upload, form, keep, again>>

AssetStep ==
    \/ \E s \in Screens : UploadStarts(s) \/ FormOpens(s)
    \/ UploadCopied \/ UploadFails \/ UploadSaved \/ FormSaved
    \/ SweepLists \/ SweepEnds
    \/ \E f \in Files : SweepRemoves(f) \/ AssetAges(f)
=============================================================================
