-------------------------- MODULE ResultPublication --------------------------
(***************************************************************************)
(* From a trial's volume to the results volume: the artifact collection Job *)
(* (src/brunner/backends/remote.py, artifacts.py), the backend that polls   *)
(* it (backends/kubernetes.py), and the controller that publishes the       *)
(* collected copy (cluster.py) and starts over when the trial is continued. *)
(* Job and controller run concurrently on the control volume, and each may  *)
(* stop between any two steps.                                              *)
(*                                                                         *)
(* A file is its version.  What the evaluation adds to the copy, and the    *)
(* phases around the collection, are in CampaignEngine and TrialCustody.    *)
(***************************************************************************)
EXTENDS Naturals, FiniteSets

CONSTANTS
    Staged,         \* the files of the challenge
    Made,           \* the files only the agent makes
    Diagnostics,    \* failure_diagnostic_globs
    Limit,          \* max_collection_bytes, in files
    Continuations,  \* bound
    JobFaults,      \* collection_max_attempts - 1
    Crashes,        \* bound: the controller stops, or the volume fails it
    None,
    Torn            \* a tree of which an interrupted rmtree left a part

Files == Staged \union Made
ASSUME FilesAssumption ==
    /\ Staged \intersect Made = {} /\ Diagnostics \subseteq Files
    /\ IsFiniteSet(Files)
ASSUME CountsAssumption ==
    Limit \in Nat /\ Continuations \in Nat /\ JobFaults \in Nat /\ Crashes \in Nat
ASSUME NoTreeAssumption ==
    {None, Torn} \intersect [Files -> Nat] = {} /\ None \notin [files : [Files -> Nat], listed : BOOLEAN]

VARIABLES
    content,    \* the trial's volume
    gen,        \* generation of the workload
    phase,      \* of the trial
    copy,       \* collected/<id>
    fresh,      \* collected/<id>.partial
    inventory,  \* collected/<id>-inventory.json
    summary,    \* collected/<id>-collection.json
    job,        \* the collection Job: its place, and the inventory it made
    results,    \* trials/<id> on the results volume
    next,       \* trials/<id>.partial, with its publication.json
    pub,        \* publish_trial_results: its place, and selected
    faults

trial == <<content, gen>>
collected == <<copy, fresh, inventory, summary>>
published == <<results, next>>
vars == <<trial, phase, collected, job, published, pub, faults>>

(* Versions: a staged file is 1, generation g writes g + 1.                   *)
Absent == 0
AsStaged == 1
Trees == [Files -> Nat]
Empty == [f \in Files |-> Absent]
NoJob == [at |-> "absent", list |-> Empty]
NoPub == [at |-> "idle", selected |-> Empty]
Partial(files, listed) == [files |-> files, listed |-> listed]

JobPlaces == {"absent", "list", "copy", "replace", "rename", "inventory", "summary",
              "complete", "failed"}
TypeOK ==
    /\ content \in Trees /\ gen \in 1 .. Continuations + 1
    /\ phase \in {"running", "collection", "publishing", "cleanup", "complete", "failed"}
    /\ copy \in Trees \union {None} /\ fresh \in Trees \union {None}
    /\ inventory \in Trees \union {None} /\ summary \in BOOLEAN
    /\ job \in [at : JobPlaces, list : Trees]
    /\ results \in Trees \union {None, Torn}
    /\ next \in [files : Trees, listed : BOOLEAN] \union {None}
    /\ pub \in [at : {"idle", "copy", "record", "remove"}, selected : Trees]
    /\ faults \in [job : 0 .. JobFaults + 1, crash : 0 .. Crashes]

Init ==
    /\ content = [f \in Files |-> IF f \in Staged THEN AsStaged ELSE Absent]
    /\ gen = 1 /\ phase = "running"
    /\ copy = None /\ fresh = None /\ inventory = None /\ summary = FALSE
    /\ job = NoJob
    /\ results = None /\ next = None /\ pub = NoPub
    /\ faults = [job |-> JobFaults + 1, crash |-> Crashes]

-----------------------------------------------------------------------------
(* The workload ends: what it changed, and what it removed.                   *)
WorkloadEnds ==
    /\ phase = "running"
    /\ \E changed \in SUBSET Files : \E removed \in SUBSET (Files \ changed) :
          content' = [f \in Files |-> IF f \in changed THEN gen + 1
                                      ELSE IF f \in removed THEN Absent ELSE content[f]]
    /\ phase' = "collection"
    /\ UNCHANGED <<gen, collected, job, published, pub, faults>>

-----------------------------------------------------------------------------
(* collect-copy, in the Job's Pod.                                            *)
JobOnly == UNCHANGED <<trial, phase, published, pub, faults>>
Runs(at) == job.at = at
Moves(at) == job' = [job EXCEPT !.at = at]

(* The staged files that are as they were need no transfer.                   *)
Transferred(list) == {f \in Files : list[f] # Absent /\ ~(f \in Staged /\ list[f] = AsStaged)}
CollectionInventory ==
    IF Cardinality(Transferred(content)) <= Limit THEN content
    ELSE [f \in Files |-> IF f \in Diagnostics THEN content[f] ELSE Absent]

(* Lists the trial, and keeps of the partial copy what is still right.        *)
JobLists ==
    /\ Runs("list")
    /\ LET list == CollectionInventory
       IN  /\ job' = [at |-> "copy", list |-> list]
           /\ fresh' = IF fresh = None THEN Empty
                       ELSE [f \in Files |-> IF fresh[f] = list[f] THEN list[f] ELSE Absent]
    /\ UNCHANGED <<copy, inventory, summary>> /\ JobOnly

JobCopies(f) ==
    /\ Runs("copy") /\ fresh[f] # job.list[f]
    /\ fresh' = [fresh EXCEPT ![f] = job.list[f]]
    /\ UNCHANGED <<copy, inventory, summary, job>> /\ JobOnly

JobVerifies ==
    /\ Runs("copy") /\ fresh = job.list
    /\ Moves("replace")
    /\ UNCHANGED collected /\ JobOnly

JobRemoves ==
    /\ Runs("replace")
    /\ copy' = None
    /\ Moves("rename")
    /\ UNCHANGED <<fresh, inventory, summary>> /\ JobOnly

JobRenames ==
    /\ Runs("rename")
    /\ copy' = fresh /\ fresh' = None
    /\ Moves("inventory")
    /\ UNCHANGED <<inventory, summary>> /\ JobOnly

JobWritesInventory ==
    /\ Runs("inventory")
    /\ inventory' = job.list
    /\ Moves("summary")
    /\ UNCHANGED <<copy, fresh, summary>> /\ JobOnly

JobWritesSummary ==
    /\ Runs("summary")
    /\ summary' = TRUE
    /\ Moves("complete")
    /\ UNCHANGED <<copy, fresh, inventory>> /\ JobOnly

JobFails ==
    /\ job.at \notin {"absent", "complete", "failed"} /\ faults.job > 0
    /\ Moves("failed")
    /\ faults' = [faults EXCEPT !.job = @ - 1]
    /\ UNCHANGED <<trial, phase, collected, published, pub>>

Job ==
    \/ JobLists \/ JobVerifies \/ JobRemoves \/ JobRenames \/ JobWritesInventory
    \/ JobWritesSummary \/ \E f \in Files : JobCopies(f)

-----------------------------------------------------------------------------
(* KubernetesBackend.collect                                                  *)
Collecting == phase = "collection" /\ UNCHANGED <<trial, collected, published, pub, faults>>
Available == copy # None /\ summary /\ inventory # None

FindsCollection ==
    /\ Collecting /\ Available
    /\ phase' = "publishing" /\ UNCHANGED job

SubmitsJob ==
    /\ Collecting /\ ~Available /\ Runs("absent")
    /\ job' = [NoJob EXCEPT !.at = "list"] /\ UNCHANGED phase

(* The Job is deleted; one failure too many ends the collection.              *)
FindsJobFailed ==
    /\ Collecting /\ ~Available /\ Runs("failed")
    /\ job' = NoJob
    /\ phase' = IF faults.job = 0 THEN "failed" ELSE phase

Collect == FindsCollection \/ SubmitsJob \/ FindsJobFailed

-----------------------------------------------------------------------------
(* publish_trial_results                                                      *)
Publishing(at) == phase = "publishing" /\ pub.at = at
PublisherOnly == UNCHANGED <<trial, collected, job, faults>>

(* A file the inventory lists as it was staged is left out.                   *)
OmitsByName(f) == f \in Staged     \* mutant: whatever became of it
Omitted(f) == f \in Staged /\ inventory[f] = AsStaged
Selects ==
    /\ Publishing("idle")
    /\ pub' = [at |-> "copy",
               selected |-> [f \in Files |-> IF Omitted(f) THEN Absent ELSE copy[f]]]
    /\ next' = IF next = None THEN Partial(Empty, FALSE) ELSE next
    /\ UNCHANGED <<phase, results>> /\ PublisherOnly

Publishes(f) ==
    /\ Publishing("copy")
    /\ pub.selected[f] # Absent /\ next.files[f] # pub.selected[f]
    /\ next' = [next EXCEPT !.files[f] = pub.selected[f]]
    /\ UNCHANGED <<phase, results, pub>> /\ PublisherOnly

Prunes ==
    /\ Publishing("copy")
    /\ \A f \in Files : pub.selected[f] # Absent => next.files[f] = pub.selected[f]
    /\ next' = [next EXCEPT !.files = pub.selected]
    /\ pub' = [pub EXCEPT !.at = "record"]
    /\ UNCHANGED <<phase, results>> /\ PublisherOnly

Records ==
    /\ Publishing("record")
    /\ next' = [next EXCEPT !.listed = TRUE]
    /\ pub' = [pub EXCEPT !.at = "remove"]
    /\ UNCHANGED <<phase, results>> /\ PublisherOnly

MayRemoveEarly == pub.at \in {"copy", "remove"}     \* mutant: room first
MayRemove == pub.at = "remove"
Removes ==
    /\ phase = "publishing" /\ MayRemove /\ results # None
    /\ results' = None
    /\ UNCHANGED <<phase, next, pub>> /\ PublisherOnly

Replaces ==
    /\ Publishing("remove") /\ results = None
    /\ results' = next.files /\ next' = None
    /\ pub' = NoPub /\ phase' = "cleanup"
    /\ PublisherOnly

Publish == Selects \/ Prunes \/ Records \/ Removes \/ Replaces \/ \E f \in Files : Publishes(f)

(* The controller stops, or the volume fails it: the publication starts over.
   A removal is interrupted anywhere.                                         *)
PublicationStops ==
    /\ phase = "publishing" /\ pub # NoPub /\ faults.crash > 0
    /\ faults' = [faults EXCEPT !.crash = @ - 1]
    /\ pub' = NoPub
    /\ results' \in IF pub.at = "remove" /\ results # None THEN {results, Torn} ELSE {results}
    /\ UNCHANGED <<trial, phase, collected, job, next>>

(* Cleanup deletes the collection Job with the rest.                          *)
CleansUp ==
    /\ phase = "cleanup"
    /\ job' = NoJob /\ phase' = "complete"
    /\ UNCHANGED <<trial, collected, published, pub, faults>>

(* A continuation removes the collected copy, but not the files beside it.    *)
Continues ==
    /\ phase = "complete" /\ gen <= Continuations
    /\ copy' = None
    /\ gen' = gen + 1 /\ phase' = "running"
    /\ UNCHANGED <<content, fresh, inventory, summary, job, published, pub, faults>>

Next ==
    \/ WorkloadEnds \/ Job \/ JobFails \/ Collect \/ Publish \/ PublicationStops \/ CleansUp
    \/ Continues

Spec == Init /\ [][Next]_vars

-----------------------------------------------------------------------------
(* A published trial holds the last version of every file the agent made or
   changed, however often the Job and the controller stopped in between: a
   file may be missing because it is as staged, or because only diagnostics
   were collected.  After a continuation a staged file may also be missing
   because an inventory of an earlier generation was taken for the copy's: that
   is the hole collect leaves when it meets the copy before its inventory.    *)
MayBeMissing(f) ==
    \/ f \in Staged /\ (content[f] = AsStaged \/ gen > 1)
    \/ f \notin Diagnostics /\ Cardinality(Transferred(content)) > Limit
PublishedIsCurrent ==
    phase = "complete" =>
        \A f \in Files : \/ results[f] = content[f]
                         \/ results[f] = Absent /\ MayBeMissing(f)

(* Once a trial was published, some whole publication of it is on the results
   volume, also while the next one takes its place and stops half way.        *)
PublicationSurvives ==
    [][(results \notin {None, Torn} \/ (next # None /\ next.listed)) =>
       (results' \notin {None, Torn} \/ (next' # None /\ next'.listed))]_vars
=============================================================================
