-------------------------- MODULE CampaignProperties --------------------------
(***************************************************************************)
(* What the reconciliation engine must never do, whatever the API loses,   *)
(* refuses or answers late and wherever the controller dies; and what it   *)
(* eventually does.  The sentences quoted are from docs/failure-model.md,  *)
(* docs/architecture.md and docs/integration.md.                           *)
(***************************************************************************)
EXTENDS CampaignEngine

(* A trial never has two workload Jobs running: an ambiguous submission or
   restart adopts the Job it may have created, and a new generation starts
   only after the previous Job is gone ("a failed old Pod cannot override an
   active replacement", Kubernetes mounts the trial PVC twice otherwise).   *)
OneLiveJob == \A t \in Trials : Cardinality(LiveJobs(site[t])) <= 1

(* The Jobs an entry of campaign.json leads a new controller to.            *)
Leads(e) ==
    {e.handle}
    \cup (IF e.phase \in {"submitting", "submission_retry_wait"} THEN {First} ELSE {})
    \cup (IF e.phase = "infrastructure_retrying" THEN {Restarted(e.infra)} ELSE {})
    \cup (IF e.phase = "continuation_retrying" THEN {Continued(e.cont)} ELSE {})

(* A running workload is never lost: after a crash at any point the saved
   entry still leads to it, unless the trial already asks for attention
   ("a later crash must not lose the identity of a workload that may already
   be running remotely", campaign.py).                                      *)
LiveJobTracked ==
    \A t \in Trials : \/ LiveJobs(site[t]) \subseteq Leads(disk[t])
                      \/ disk[t].phase = "attention_required"

Judged == {"evaluating", "evaluation_pending", "publishing", "publication_pending",
           "cleanup_pending", "complete"}

(* From evaluation on, no workload runs any more and the collected copy is
   the final state of the workload: a trial is never judged on evidence that
   a restart or a continuation has made stale.                              *)
EvidenceIsFinal ==
    \A t \in Trials : disk[t].phase \in Judged =>
        LiveJobs(site[t]) = {} /\ site[t].copy = site[t].work

(* "Trial PVCs are deleted only after collection, assessment, and reporting
   have produced durable results": once cleanup() has released a PVC, the
   results volume holds its last contents and campaign.json an outcome.     *)
ReleasedAfterPublication ==
    \A t \in Trials : site[t].pvc = "released" =>
        /\ site[t].published = site[t].work
        /\ disk[t].outcome # "none"
        /\ disk[t].phase \in {"cleanup_pending", "complete", "continuation_retrying",
                              "attention_required"}

(* "Cleanup remains durable until resources are deleted": a complete trial
   has no workload Job and no collection Job, and without retention no PVC. *)
CompleteIsClean ==
    \A t \in Trials : disk[t].phase = "complete" =>
        /\ LiveJobs(site[t]) = {}
        /\ site[t].transfer = "none"
        /\ ~Retain => site[t].pvc # "bound"

(* Admission never runs more workloads than max_parallel; the workloads of
   trials that ask for attention are the operator's.                        *)
WithinParallel ==
    Cardinality({t \in Trials : /\ LiveJobs(site[t]) # {}
                                /\ disk[t].phase # "attention_required"}) <= MaxParallel

-----------------------------------------------------------------------------
(* "The reconciliation engine persists phases before side effects": a Job
   only starts for the phase and the generation campaign.json already holds,
   so that no crash gives a trial a launch that was not charged to it.      *)
Launch(t, j) == site[t].jobs[j] = "absent" /\ site'[t].jobs[j] = "active"
Authorized(e) ==
    CASE e.phase = "submitting" -> {First}
      [] e.phase = "infrastructure_retrying" -> {Restarted(e.infra)}
      [] e.phase = "continuation_retrying" -> {Continued(e.cont)}
      [] OTHER -> {}
LaunchIsPersisted ==
    [][\A t \in Trials, j \in JobNames : Launch(t, j) => j \in Authorized(disk[t])]_vars

Decided == {"publishing", "publication_pending", "cleanup_pending", "complete"}

(* An outcome on its way to the results volume is final: no crash, lost
   answer or retry of publication or cleanup takes the trial back to be
   judged again, short of a continuation.                                   *)
OutcomeIsFinal ==
    [][\A t \in Trials : disk[t].phase \in Decided =>
            /\ disk'[t].phase \in Decided \cup {"attention_required", "continuation_retrying"}
            /\ disk'[t].outcome = disk[t].outcome]_vars

(* "Each Brunner workload generation runs exactly one Pod"
   (docs/architecture.md): a Job that campaign.json records as the workload
   of its trial is not started a second time.                               *)
OnePodPerGeneration ==
    [][\A t \in Trials, j \in JobNames : Launch(t, j) => disk[t].handle # j]_vars

(* "Pending collection and trusted evaluation take admission priority over
   new agent Jobs": no trial leaves pending for its first submission while
   campaign.json holds another one in collection or evaluation.             *)
EvaluationFirst ==
    [][\A t, u \in Trials :
        disk[t].phase = "pending" /\ disk'[t].phase = "submitting" =>
            disk[u].phase \notin EvaluationPriority]_vars

(* Terminal campaign states stop the controller's reconciliation ("never an
   invisible running state"): the saved status is only terminal when every
   trial of the saved state is complete or asks for attention.              *)
TerminalIsSettled ==
    status # "paused_backend_connectivity" /\ status # "running" =>
        /\ \A t \in Trials : disk[t].phase \in Stuck \cup {"complete"}
        /\ status = "complete" <=> \A t \in Trials : disk[t].phase = "complete"

(* The engine keeps the promise of TrialCustody for every trial: `stage` is
   read off campaign.json, the storage and the record off the cluster.      *)
StageOf(phase) ==
    CASE phase = "pending" -> "waiting"
      [] phase \in {"submitting", "submission_retry_wait"} -> "launching"
      [] phase \in {"submitted", "running", "infrastructure_retrying",
                   "continuation_retrying"} -> "executing"
      [] phase \in {"collecting", "collection_pending", "collection_retry_wait"} -> "collecting"
      [] phase \in {"evaluating", "evaluation_pending"} -> "judging"
      [] phase \in {"publishing", "publication_pending"} -> "publishing"
      [] phase = "cleanup_pending" -> "cleaning"
      [] phase = "complete" -> "closed"
      [] phase \in Stuck -> "stuck"
Custody == INSTANCE TrialCustody WITH
    Subjects <- Trials,
    stage    <- [t \in Trials |-> IF disk[t].phase = "pending" /\ disk[t].handle # NoJob
                                  THEN "executing" ELSE StageOf(disk[t].phase)],
    storage  <- [t \in Trials |-> IF site[t].pvc = "bound" THEN "held" ELSE site[t].pvc],
    recorded <- [t \in Trials |-> site[t].published = site[t].work]
KeepsCustody == Custody!CustodySpec

(* What lets a trial end.  The controller is one thread that always goes on
   and that its Deployment replaces; Jobs and collections end by their
   deadlines; the backend has room, the reviews end and a deletion succeeds
   when they are asked for often enough; and crashes and outages of the API,
   which CampaignPlan lets pause the campaign without limit, come to an end.  *)
Outage == ctl.call # "none" /\ ctl'.pass \notin Passes
Dies == Crash /\ ~FinishAdvance      \* dying at the end of a walk changes nothing
Admits == CapacityReturns /\ ctl'.slots > 0
Collected(t) == CollectReturns(t) /\ site[t].copy # "none"
                                 /\ disk'[t].phase # "collection_pending"
Reviewed(t) == EvaluateReturns(t) /\ disk'[t].phase # "evaluation_pending"
Deletes(t) == CleanupReturns(t) /\ disk'[t].phase = "complete"

Fairness ==
    /\ WF_vars(Walk \/ ControllerRestarts \/ \E t \in Trials : EngineStep(t))
    /\ SF_vars(Admits)
    /\ \A t \in Trials :
        /\ WF_vars(JobFinishes(t))
        /\ WF_vars(TransferFinishes(t))
        /\ WF_vars(RetryTimeArrives(t))
        /\ SF_vars(Collected(t))
        /\ SF_vars(Reviewed(t))
        /\ SF_vars(Deletes(t))
    /\ <>[][~Dies /\ ~Outage]_vars

FairSpec == Spec /\ Fairness

(* No trial waits invisibly: whatever fails, every trial ends complete or
   asks for attention, and stays there.                                     *)
EveryTrialSettles ==
    \A t \in Trials : <>[](disk[t].phase \in Stuck \cup {"complete"})

(* "Cleanup remains durable until resources are deleted": an interrupted
   cleanup is taken up again until the trial is complete.                   *)
CleanupFinishes ==
    \A t \in Trials : disk[t].phase = "cleanup_pending" ~> disk[t].phase = "complete"
=============================================================================
