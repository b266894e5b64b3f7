----------------------------- MODULE ResultArchive -----------------------------
(***************************************************************************)
(* How the results of a campaign leave the cluster (src/brunner/cluster.py, *)
(* archive.py).  The controller's loop takes continuation requests, lets    *)
(* the engine advance, writes the result tree and its manifest, and makes   *)
(* the manifest known in an annotation of the results PVC and in the status *)
(* ConfigMap.  campaign-sync copies what the manifest lists into a staging  *)
(* directory beside the local archive and swaps the two; campaign-retire    *)
(* synchronises, verifies, and deletes everything remote.                   *)
(*                                                                         *)
(* A file is known by its version, a manifest by its content (for which the *)
(* code uses its SHA-256).  Controller and client may stop between any two  *)
(* steps: a crash, and a failed kubectl command, which neither survives.    *)
(***************************************************************************)
EXTENDS Naturals, Sequences, SequencesExt, FiniteSetsExt

CONSTANTS
    None, Torn,    \* no archive; one whose removal was cut off
    MaxRev,        \* bound: how often campaign.json changes
    Size,          \* how many chunks a file of a version has
    MaxRequests,   \* bound: continuation requests
    ClaimOrder,    \* the names of the campaign's PVCs, sorted
    ControllerStops, ClientStops   \* bounds: how often either stops

Versions == 1 .. MaxRev
ASSUME BoundsAssumption ==
    /\ MaxRev \in Nat \ {0} /\ MaxRequests \in Nat
    /\ ControllerStops \in Nat /\ ClientStops \in Nat
ASSUME SizeAssumption == Size \in [Versions -> Nat \ {0}]
ASSUME ClaimsAssumption ==
    /\ ClaimOrder \in Seq(STRING)
    /\ ToSet(ClaimOrder) = {"control", "results", "trials"}

VARIABLES
    control,   \* campaign.json on the control PVC
    tree,      \* the results PVC
    note,      \* the manifest its annotations name
    status,    \* the status ConfigMap
    ctl,       \* where the controller is
    requests,  \* continuation requests waiting, and those ever sent
    live,      \* what exists in the cluster
    cli,       \* the client's command
    dest,      \* the local archive
    backup,    \* ... and the one it replaces
    staging,   \* the directory that is being filled
    stops      \* how often controller and client may still stop

cluster == <<control, tree, note, status, ctl, requests, live>>
local == <<dest, backup, staging>>
vars == <<cluster, cli, local, stops>>

Files == {"campaign", "trials"}
TerminalStates == {"attention", "complete"}   \* complete: every trial is

Control ==
    [rev : Versions, status : {"running"} \union TerminalStates,
     due : BOOLEAN,           \* a trial's results are not published yet
     taken : Nat]             \* continuations accepted
Manifest ==
    [rev : Versions, status : {"running"} \union TerminalStates, taken : Nat,
     campaign : Versions, trials : Versions \union {None}]   \* files
Archive == [manifest : Manifest, campaign : Versions, trials : Versions \union {None}]
Staged == [whole : Versions \union {None}, part : Seq(Versions)]
Nothing == [whole |-> None, part |-> <<>>]

ASSUME NoneAssumption ==
    /\ None \notin Nat /\ None \notin Manifest /\ None \notin Archive
    /\ Torn # None /\ Torn \notin Archive

Resources == ToSet(ClaimOrder) \union {"deployment", "pods", "jobs", "rest"}
DeletionOrder == <<"deployment", "pods", "jobs">> \o ClaimOrder \o <<"rest">>

ControllerPlaces == {"down", "request", "gate", "removed", "decide", "inventory",
                     "annotate", "report"}
ClientPlaces == {"idle", "claims", "prepare", "status", "claim", "manifest", "download", "swap",
                 "swapping", "swapped", "discard", "verify", "confirm", "deployed", "delete"}
Client ==
    [at : ClientPlaces, tries : 0 .. 3,
     told : Manifest \union {None},      \* what the status ConfigMap says
     want : Manifest \union {None},      \* the identity to synchronise
     file : Files, step : 1 .. Len(DeletionOrder),
     retired : BOOLEAN]                  \* the last command was a retirement that succeeded
Resting == [at |-> "idle", tries |-> 0, told |-> None, want |-> None,
            file |-> "campaign", step |-> 1, retired |-> FALSE]

TypeOK ==
    /\ control \in Control
    /\ tree \in [campaign : Versions \union {None}, trials : Versions \union {None},
                 manifest : Manifest \union {None}]
    /\ note \in Manifest \union {None}
    /\ status \in [manifest : Manifest \union {None}, ready : BOOLEAN]
    /\ ctl \in ControllerPlaces
    /\ requests \in [waiting : BOOLEAN, sent : 0 .. MaxRequests]
    /\ live \subseteq Resources
    /\ cli \in Client
    /\ dest \in Archive \union {None} /\ backup \in Archive \union {None, Torn}
    /\ staging \in [Files -> Staged]
    /\ stops \in [controller : 0 .. ControllerStops, client : 0 .. ClientStops]

Init ==
    /\ control = [rev |-> 1, status |-> "running", due |-> TRUE, taken |-> 0]
    /\ tree = [campaign |-> None, trials |-> None, manifest |-> None]
    /\ note = None /\ status = [manifest |-> None, ready |-> FALSE]
    /\ ctl = "down" /\ requests = [waiting |-> FALSE, sent |-> 0]
    /\ live = Resources
    /\ cli = Resting /\ dest = None /\ backup = None
    /\ staging = [f \in Files |-> Nothing]
    /\ stops = [controller |-> ControllerStops, client |-> ClientStops]

-----------------------------------------------------------------------------
(* run_cluster_controller                                                     *)
Remote == UNCHANGED <<cli, local, stops>>
Goes(at) == ctl' = at

Starts ==
    /\ ctl = "down" /\ {"deployment", "pods"} \subseteq live
    /\ Goes("request")
    /\ UNCHANGED <<control, tree, note, status, requests, live>> /\ Remote

(* campaign-continue, up to the request ConfigMap.                            *)
Requests ==
    /\ "rest" \in live
    /\ ~requests.waiting /\ requests.sent < MaxRequests
    /\ requests' = [waiting |-> TRUE, sent |-> requests.sent + 1]
    /\ UNCHANGED <<control, tree, note, status, ctl, live>> /\ Remote

(* request_continuation accepts a request for a trial that has ended.         *)
TakesRequest ==
    /\ ctl = "request"
    /\ requests' = [requests EXCEPT !.waiting = FALSE]
    /\ control' = IF requests.waiting /\ control.status = "complete" /\ control.rev < MaxRev
                  THEN [rev |-> control.rev + 1, status |-> "running", due |-> TRUE,
                        taken |-> control.taken + 1]
                  ELSE control
    /\ Goes("gate")
    /\ UNCHANGED <<tree, note, status, live>> /\ Remote

(* The manifest in the tree is the one of the state.                          *)
Current == tree.manifest # None /\ tree.manifest.rev = control.rev

AtTerminal ==
    /\ ctl = "gate" /\ control.status \in TerminalStates /\ Current
    /\ status' = [manifest |-> tree.manifest, ready |-> TRUE]
    /\ Goes("request")
    /\ UNCHANGED <<control, tree, note, requests, live>> /\ Remote

PassesGate == ctl = "gate" /\ ~(control.status \in TerminalStates /\ Current)

(* The engine: nothing, any other progress, or the last of a publication; a
   campaign is complete when no publication is due.                           *)
Advances ==
    /\ PassesGate
    /\ \/ control' = control
       \/ /\ control.status = "running" /\ control.rev < MaxRev
          /\ \E s \in {"running"} \union TerminalStates :
                /\ s = "complete" => ~control.due
                /\ control' = [control EXCEPT !.rev = @ + 1, !.status = s]
    /\ Goes("decide")
    /\ UNCHANGED <<tree, note, status, requests, live>> /\ Remote

(* publish_trial_results: the old publication is removed, the new one renamed. *)
RemovesPublication ==
    /\ PassesGate /\ control.status = "running" /\ control.due /\ control.rev < MaxRev
    /\ tree' = [tree EXCEPT !.trials = None]
    /\ Goes("removed")
    /\ UNCHANGED <<control, note, status, requests, live>> /\ Remote

Publishes ==
    /\ ctl = "removed"
    /\ tree' = [tree EXCEPT !.trials = control.rev + 1]
    /\ \E s \in {"running", "complete"} :
        control' = [control EXCEPT !.rev = @ + 1, !.due = FALSE, !.status = s]
    /\ Goes("decide")
    /\ UNCHANGED <<note, status, requests, live>> /\ Remote

KeepsBundle ==
    /\ ctl = "decide" /\ Current
    /\ Goes("report")
    /\ UNCHANGED <<control, tree, note, status, requests, live>> /\ Remote

(* finalize_result_bundle: campaign.json and the dashboard, then the manifest. *)
KeepsOldState ==         \* mutant
    /\ ctl = "decide" /\ ~Current
    /\ tree' = [tree EXCEPT !.campaign = IF @ = None THEN control.rev ELSE @]
    /\ Goes("inventory")
    /\ UNCHANGED <<control, note, status, requests, live>> /\ Remote
WritesState ==
    /\ ctl = "decide" /\ ~Current
    /\ tree' = [tree EXCEPT !.campaign = control.rev]
    /\ Goes("inventory")
    /\ UNCHANGED <<control, note, status, requests, live>> /\ Remote

Inventory ==
    [rev |-> control.rev, status |-> control.status, taken |-> control.taken,
     campaign |-> tree.campaign, trials |-> tree.trials]
WritesManifest ==
    /\ ctl = "inventory"
    /\ tree' = [tree EXCEPT !.manifest = Inventory]
    /\ Goes("annotate")
    /\ UNCHANGED <<control, note, status, requests, live>> /\ Remote

Annotates ==
    /\ ctl = "annotate" /\ "results" \in live
    /\ note' = tree.manifest
    /\ Goes("report")
    /\ UNCHANGED <<control, tree, status, requests, live>> /\ Remote

Reports ==
    /\ ctl = "report"
    /\ status' = [manifest |-> tree.manifest, ready |-> control.status \in TerminalStates]
    /\ Goes("request")
    /\ UNCHANGED <<control, tree, note, requests, live>> /\ Remote

ControllerStopped ==
    /\ ctl # "down" /\ stops.controller > 0
    /\ Goes("down")
    /\ stops' = [stops EXCEPT !.controller = @ - 1]
    /\ UNCHANGED <<control, tree, note, status, requests, live, cli, local>>

Controller ==
    \/ Starts \/ TakesRequest \/ AtTerminal \/ Advances
    \/ RemovesPublication \/ Publishes \/ KeepsBundle \/ WritesState
    \/ WritesManifest \/ Annotates \/ Reports

-----------------------------------------------------------------------------
(* ClusterCampaignClient.sync; a retirement first looks at the claims and goes
   on when it has synchronised.                                               *)
Ends == cli' = Resting
Retired == cli' = [Resting EXCEPT !.retired = TRUE]
Here == UNCHANGED <<cluster, stops>>
Whole(archive) == archive \notin {None, Torn}

Begins ==
    /\ cli.at = "idle"
    /\ \E at \in {"prepare", "claims"} : cli' = [Resting EXCEPT !.at = at]
    /\ UNCHANGED local /\ Here

(* _prepare_local_sync recovers from a swap that was cut off; it does not get
   past a backup whose removal was.                                           *)
DropsBackup ==           \* mutant: the backup is always rubbish
    /\ cli.at = "prepare"
    /\ IF "results" \notin live
       THEN Ends /\ UNCHANGED local
       ELSE /\ backup' = None
            /\ cli' = [cli EXCEPT !.at = "status"]
            /\ UNCHANGED <<dest, staging>>
    /\ Here
Prepares ==
    /\ cli.at = "prepare"
    /\ IF backup = Torn \/ "results" \notin live
       THEN Ends /\ UNCHANGED local
       ELSE /\ dest' = IF dest = None THEN backup ELSE dest
            /\ backup' = None
            /\ cli' = [cli EXCEPT !.at = "status"]
            /\ UNCHANGED staging
    /\ Here

(* A failed attempt is repeated twice.                                        *)
Forever == cli' = [cli EXCEPT !.at = "status", !.want = None]    \* mutant
Again ==
    IF cli.tries >= 2 THEN Ends
    ELSE cli' = [cli EXCEPT !.at = "status", !.tries = @ + 1, !.file = "campaign", !.want = None]

ReadsStatus ==
    /\ cli.at = "status"
    /\ cli' = [cli EXCEPT !.at = "claim", !.told = status.manifest]
    /\ UNCHANGED local /\ Here

(* _remote_manifest_identity prefers the annotation.                          *)
ReadsClaim ==
    /\ cli.at = "claim"
    /\ LET identity == IF note # None THEN note ELSE cli.told
       IN  IF identity = None \/ "results" \notin live THEN Ends
           ELSE cli' = [cli EXCEPT !.at = "manifest", !.told = None, !.want = identity]
    /\ UNCHANGED local /\ Here

ReadsManifest ==
    /\ cli.at = "manifest"
    /\ IF tree.manifest = None THEN Ends
       ELSE IF tree.manifest # cli.want THEN Again
       ELSE cli' = [cli EXCEPT !.at = "download", !.file = "campaign"]
    /\ UNCHANGED local /\ Here

(* A file of the manifest: taken over from the local archive or fetched chunk
   by chunk, going on from what an earlier attempt left.                      *)
Wanted == IF cli.file = "campaign" THEN cli.want.campaign ELSE cli.want.trials
There == IF cli.file = "campaign" THEN tree.campaign ELSE tree.trials
Have == staging[cli.file]
AtHome ==
    dest # None /\ Wanted = IF cli.file = "campaign" THEN dest.campaign ELSE dest.trials
Downloading == cli.at = "download" /\ UNCHANGED <<dest, backup>> /\ Here

NextFile ==
    cli' = IF cli.file = "campaign" THEN [cli EXCEPT !.file = "trials"]
           ELSE [cli EXCEPT !.at = "swap", !.file = "campaign"]

SkipsFile ==     \* the manifest does not list it, or it is complete
    /\ Downloading
    /\ Wanted \in {None, Have.whole}
    /\ NextFile
    /\ UNCHANGED staging

SeedsFile ==
    /\ Downloading
    /\ Wanted # None /\ Have = Nothing /\ AtHome
    /\ staging' = [staging EXCEPT ![cli.file].whole = Wanted]
    /\ UNCHANGED cli

Fetches == Downloading /\ Wanted \notin {None, Have.whole} /\ ~(Have = Nothing /\ AtHome)

DropsOldFile ==
    /\ Fetches
    /\ \/ Have.whole # None \/ Len(Have.part) > Size[Wanted]
    /\ staging' = [staging EXCEPT ![cli.file] =
                    [whole |-> None,
                     part |-> IF Len(Have.part) > Size[Wanted] THEN <<>> ELSE Have.part]]
    /\ UNCHANGED cli

Ready == Fetches /\ Have.whole = None /\ Len(Have.part) <= Size[Wanted]

FetchesChunk ==
    /\ Ready /\ Len(Have.part) < Size[Wanted]
    /\ IF There = None THEN Ends /\ UNCHANGED staging
       ELSE IF Len(Have.part) >= Size[There] THEN Again /\ UNCHANGED staging
       ELSE /\ staging' = [staging EXCEPT ![cli.file].part = Append(@, There)]
            /\ UNCHANGED cli

Matches == ToSet(Have.part) = {Wanted}
ChecksFile ==
    /\ Ready /\ Len(Have.part) = Size[Wanted]
    /\ IF Matches
       THEN staging' = [staging EXCEPT ![cli.file] = [whole |-> Wanted, part |-> <<>>]]
            /\ UNCHANGED cli
       ELSE Again /\ UNCHANGED staging

(* _prune_staging_archive, the manifest, load_campaign_archive.               *)
Pruned(f) == IF f = "trials" /\ cli.want.trials = None THEN None ELSE staging[f].whole
Verified ==
    /\ Pruned("campaign") = cli.want.campaign /\ Pruned("trials") = cli.want.trials

(* _publish_local_archive: the old archive steps aside, the staging directory
   takes its place, the old one is removed file by file.                      *)
SetsAside ==
    /\ cli.at = "swap"
    /\ IF Verified
       THEN /\ backup' = dest /\ dest' = None
            /\ cli' = [cli EXCEPT !.at = "swapping"]
       ELSE Ends /\ UNCHANGED <<dest, backup>>
    /\ UNCHANGED staging /\ Here

NewArchive == [manifest |-> cli.want, campaign |-> Pruned("campaign"), trials |-> Pruned("trials")]
Swaps ==
    /\ cli.at = "swapping"
    /\ dest' = NewArchive
    /\ staging' = [f \in Files |-> Nothing]
    /\ cli' = [cli EXCEPT !.at = "swapped", !.want = None, !.tries = 0]
    /\ UNCHANGED backup /\ Here

BeginsDiscard ==
    /\ cli.at = "swapped"
    /\ backup' = IF backup = None THEN None ELSE Torn
    /\ cli' = [cli EXCEPT !.at = "discard"]
    /\ UNCHANGED <<dest, staging>> /\ Here

EndsDiscard ==
    /\ cli.at = "discard"
    /\ backup' = None
    /\ Ends \/ cli' = [cli EXCEPT !.at = "verify"]
    /\ UNCHANGED <<dest, staging>> /\ Here

-----------------------------------------------------------------------------
(* ClusterCampaignClient.retire                                               *)
Unfinished(a) == Whole(a) /\ a.manifest.status \in TerminalStates      \* mutant
Resumable(a) == Whole(a) /\ a.manifest.status = "complete"

ChecksClaims ==
    /\ cli.at = "claims"
    /\ IF {"control", "results"} \intersect live = {}
       THEN IF Resumable(dest) THEN Retired ELSE Ends
       ELSE IF "results" \notin live THEN Ends
       ELSE cli' = [cli EXCEPT !.at = "prepare"]
    /\ UNCHANGED local /\ Here

Verifies ==
    /\ cli.at = "verify"
    /\ IF Resumable(dest) /\ "results" \in live /\ note = dest.manifest
       THEN cli' = [cli EXCEPT !.at = "confirm"]
       ELSE Ends
    /\ UNCHANGED local /\ Here

(* The status is read before the Deployment is looked for.                    *)
ReadsConfirmation ==
    /\ cli.at = "confirm"
    /\ cli' = [cli EXCEPT !.at = "deployed",
                          !.told = IF status.ready THEN status.manifest ELSE None]
    /\ UNCHANGED local /\ Here

Confirms ==
    /\ cli.at = "deployed"
    /\ IF "deployment" \in live /\ cli.told # dest.manifest THEN Ends
       ELSE cli' = [cli EXCEPT !.at = "delete"]
    /\ UNCHANGED local /\ Here

(* Deleting the Pods stops the controller.                                    *)
Deletes ==
    /\ cli.at = "delete"
    /\ LET victim == DeletionOrder[cli.step]
       IN  /\ live' = live \ {victim}
           /\ ctl' = IF victim = "pods" THEN "down" ELSE ctl
    /\ IF cli.step = Len(DeletionOrder) THEN Retired
       ELSE cli' = [cli EXCEPT !.step = @ + 1]
    /\ UNCHANGED <<control, tree, note, status, requests, local, stops>>

ClientStopped ==
    /\ cli.at # "idle" /\ stops.client > 0
    /\ Ends
    /\ stops' = [stops EXCEPT !.client = @ - 1]
    /\ UNCHANGED <<cluster, local>>

ClientStep ==
    \/ Prepares \/ ReadsStatus \/ ReadsClaim \/ ReadsManifest
    \/ SkipsFile \/ SeedsFile \/ DropsOldFile \/ FetchesChunk \/ ChecksFile
    \/ SetsAside \/ Swaps \/ BeginsDiscard \/ EndsDiscard
    \/ ChecksClaims \/ Verifies \/ ReadsConfirmation \/ Confirms \/ Deletes

Next ==
    \/ Controller \/ Requests \/ ControllerStopped
    \/ Begins \/ ClientStep \/ ClientStopped

Spec == Init /\ [][Next]_vars

-----------------------------------------------------------------------------
(* The local archive, and the backup while it is whole, is a snapshot the
   controller has finalised: every file is the one its manifest lists, the
   manifest lists the campaign.json of its own state, and a complete state
   comes with the publication made for it, however the result tree changed
   while it was read.                                                        *)
ArchiveIsSnapshot ==
    \A a \in {dest, backup} \ {None, Torn} :
        /\ a.campaign = a.manifest.campaign /\ a.trials = a.manifest.trials
        /\ a.manifest.campaign = a.manifest.rev
        /\ a.manifest.status = "complete" =>
                a.trials # None /\ a.trials <= a.manifest.rev

(* A client that dies between two renames loses nothing: from the first
   synchronisation on there is a whole archive, here or in the backup, and the
   newest one is never replaced by an older.                                 *)
Newest == Max({0} \union {a.manifest.rev : a \in {dest, backup} \ {None, Torn}})
NothingIsForgotten == [][Newest' >= Newest]_vars

(* A claim is only deleted when the local archive is complete and holds the
   last state of the campaign, unless a continuation was accepted after it.   *)
RetiresOnlyArchived ==
    [][live' \intersect ToSet(ClaimOrder) # live \intersect ToSet(ClaimOrder) =>
        /\ dest # None /\ dest.manifest.status = "complete"
        /\ dest.manifest.rev = control.rev \/ dest.manifest.taken < control.taken]_vars

ControllerRuns == WF_vars(Controller)
ClientRuns == WF_vars(ClientStep)
FairSpec == Spec /\ ControllerRuns /\ ClientRuns

(* Every command ends, whatever the controller does to the files it reads.    *)
EveryCommandEnds == (cli.at # "idle") ~> (cli.at = "idle")
=============================================================================
