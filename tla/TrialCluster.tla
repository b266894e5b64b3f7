---------------------------- MODULE TrialCluster ----------------------------
(***************************************************************************)
(* What the campaign controller finds outside its own memory for ONE       *)
(* trial, and what every backend call can do to it: the workload Jobs, the *)
(* trial PVC, the collection Job, backend/kubernetes.json, the collected   *)
(* copy on the control PVC and the published copy on the results PVC       *)
(* (src/brunner/backends/kubernetes.py, publish_trial_results of           *)
(* src/brunner/cluster.py).                                                *)
(*                                                                         *)
(* A backend call is a sequence of kubectl commands.  Each XReplies        *)
(* operator is the set of [res, site] pairs one call can end with:         *)
(*   "ok"     every command was answered;                                  *)
(*   "lost"   BackendConnectivityError: the API stopped answering after    *)
(*            some prefix of the commands, the last of which may have      *)
(*            taken effect although its answer never arrived;              *)
(*   "error"  any other failure: the API answered and refused a command,   *)
(*            after some prefix of the commands took effect.               *)
(* The module has no state: CampaignEngine keeps one site per trial.       *)
(***************************************************************************)
EXTENDS Integers

CONSTANTS
    MaxRestarts,       \* CampaignPlan.infrastructure_max_restarts
    MaxContinuations,  \* bound: continuation requests accepted per trial
    Retain,            \* KubernetesProfile.retain_failed_storage
    Faults             \* which faults this instance admits, see FaultKinds

(* "rejection"      the API server refuses a command                       *)
(* "overdue"        a workload outlives trial_timeout_seconds              *)
(* "job_loss"       a workload Job is deleted behind the controller        *)
(* "storage_loss"   the trial PVC disappears                               *)
(* "configuration"  the workload of a trial cannot be configured           *)
FaultKinds == {"rejection", "overdue", "job_loss", "storage_loss", "configuration"}

ASSUME MaxRestartsAssumption == MaxRestarts \in Nat
ASSUME MaxContinuationsAssumption == MaxContinuations \in Nat
ASSUME RetainAssumption == Retain \in BOOLEAN
ASSUME FaultsAssumption == Faults \subseteq FaultKinds

(* The deterministic Job names of one trial: the submission, infrastructure
   restart generations -rN and continuation generations -cN.               *)
First == <<"submission", 0>>
Restarted(n) == <<"restart", n>>
Continued(n) == <<"continuation", n>>
JobNames == {First} \cup {Restarted(n) : n \in 1 .. MaxRestarts}
                    \cup {Continued(n) : n \in 1 .. MaxContinuations}
NoJob == <<"none", 0>>
Handles == JobNames \cup {NoJob}

(* "failed" and "retryable" are both the Failed phase of inspect();
   "retryable" carries retryable_infrastructure = True.                    *)
JobStates == {"absent", "active", "succeeded", "failed", "retryable"}

(* What the runner's status.json holds: summarize_pipeline_state tells a
   terminal provider result, a terminal provider error and everything else
   (missing, running, interrupted, timeout) apart.                         *)
Work == {"incomplete", "result", "provider_error"}

(* "none" before submission; "released" deleted by cleanup(); "lost" gone
   by itself.  `work` keeps describing the last contents in both.          *)
PvcStates == {"none", "bound", "released", "lost"}
TransferStates == {"none", "active", "complete", "failed"}

Site == [jobs      : [JobNames -> JobStates],
         pvc       : PvcStates,
         work      : Work,
         file      : Handles,               \* backend/kubernetes.json
         gathered  : BOOLEAN,               \* ... its artifacts_collected_at
         transfer  : TransferStates,        \* the -collect Job
         copy      : Work \cup {"none"},    \* collected/<test-id>
         published : Work \cup {"none"}]    \* results/trials/<test-id>

EmptySite == [jobs |-> [j \in JobNames |-> "absent"], pvc |-> "none",
              work |-> "incomplete", file |-> NoJob, gathered |-> FALSE,
              transfer |-> "none", copy |-> "none", published |-> "none"]

LiveJobs(s) == {j \in JobNames : s.jobs[j] = "active"}

Reply(r, s) == [res |-> r, site |-> s]

(* A command sequence that stopped in one of the states `reached`.         *)
Unanswered(reached) == {Reply("lost", s) : s \in reached}
Refused(reached) ==
    IF "rejection" \in Faults THEN {Reply("error", s) : s \in reached} ELSE {}
Broken(reached) == Unanswered(reached) \cup Refused(reached)

-----------------------------------------------------------------------------
(* The workload.  load_state returns a terminal state as it is, and only a
   continuation Job reopens a provider error; but the Pod that finds a
   terminal state rewrites its status when it fails or gets a signal.       *)
Progress(j, w) ==
    {v \in Work : w = "provider_error" /\ j[1] # "continuation" => v # "result"}

(* The Job's Pod ends; a Job only succeeds with a provider result.          *)
JobEnds(s) ==
    UNION {{[s EXCEPT !.jobs[j] = e, !.work = w] :
                e \in {"succeeded", "failed", "retryable"}, w \in Progress(j, s.work)} :
           j \in LiveJobs(s)}
JobOutcomes(s) == {n \in JobEnds(s) :
    \A j \in LiveJobs(s) : n.jobs[j] = "succeeded" => n.work = "result"}

(* The state after the deletion of Job j, which may interrupt its Pod.      *)
Deleted(s, j) ==
    IF j \in JobNames
    THEN {[s EXCEPT !.jobs[j] = "absent", !.work = w] :
            w \in IF s.jobs[j] = "active" THEN Progress(j, s.work) ELSE {s.work}}
    ELSE {s}

JobVanishes(s) == UNION {Deleted(s, j) : j \in {k \in JobNames : s.jobs[k] # "absent"}}

StorageVanishes(s) ==
    [s EXCEPT !.pvc = "lost", !.jobs = [j \in JobNames |-> "absent"],
              !.transfer = IF @ = "active" THEN "failed" ELSE @]

(* The collection Job renames the finished copy into place on the control
   PVC and then ends; it may fail before and after that.                    *)
TransferOutcomes(s) ==
    {[s EXCEPT !.transfer = "failed"]} \cup
    (IF s.copy # "none" THEN {[s EXCEPT !.transfer = "complete"]}
     ELSE IF s.pvc = "bound" THEN {[s EXCEPT !.copy = s.work]} ELSE {})

-----------------------------------------------------------------------------
(* submit(): return the persisted handle, adopt the Job, or create the PVC
   when it is missing and then the Job.                                    *)
SubmitReplies(s) ==
    LET held    == IF s.pvc = "bound" THEN s
                   ELSE [s EXCEPT !.pvc = "bound", !.work = "incomplete"]
        started == [held EXCEPT !.jobs[First] = "active"]
        (* BackendConfigurationError is only raised before any command.    *)
        misconfigured == IF "configuration" \in Faults
                         THEN {Reply("misconfigured", s)} ELSE {}
    IN  misconfigured \cup
        IF s.file # NoJob
        THEN Broken({s}) \cup
             {Reply(IF s.file = First /\ (s.jobs[First] # "absent" => s.pvc = "bound")
                    THEN "ok" ELSE "error", s)}
        ELSE IF s.jobs[First] # "absent"
        THEN Broken({s}) \cup
             {IF s.pvc = "bound" THEN Reply("ok", [s EXCEPT !.file = First])
                                 ELSE Reply("error", s)}
        ELSE Broken({s, held}) \cup Unanswered({started}) \cup
             {Reply("ok", [started EXCEPT !.file = First, !.gathered = FALSE])}

(* restart(handle h, generation n): refuse generation 0 and a missing PVC,
   adopt the generation's Job, or replace Job h by it.                     *)
RestartReplies(s, h, kind, n) ==
    LET target == <<kind, n>>
        cleared == Deleted(s, h)
        started == {[c EXCEPT !.jobs[target] = "active"] : c \in cleared}
        Recorded(c) == Reply("ok", [c EXCEPT !.file = target, !.gathered = FALSE])
    IN  IF n < 1 \/ s.pvc # "bound"
        THEN Unanswered({s}) \cup {Reply("error", s)}
        ELSE IF s.jobs[target] # "absent"
        THEN Broken({s}) \cup {Recorded(s)}
        ELSE Broken({s} \cup cleared) \cup Unanswered(started)
                \cup {Recorded(c) : c \in started}

(* The phase inspect() reports for Job h; a missing Job is a failure,
   retryable as long as the PVC is there.                                  *)
Observed(s, h) ==
    IF h \notin JobNames \/ s.jobs[h] = "absent"
    THEN {IF s.pvc = "bound" THEN "retryable" ELSE "failed"}
    ELSE IF s.jobs[h] = "active" THEN {"pending", "running"} ELSE {s.jobs[h]}

InspectReplies(s, h) == Broken({s}) \cup {Reply(p, s) : p \in Observed(s, h)}

(* terminate(): inspect, delete the Job and wait for it.                    *)
TerminateReplies(s, h) ==
    Broken({s}) \cup Unanswered(Deleted(s, h)) \cup {Reply("ok", c) : c \in Deleted(s, h)}

(* logs(): everything but connectivity becomes a warning.                   *)
LogsReplies(s) == {Reply("ok", s), Reply("lost", s)}

(* collect(): reuse the collected copy, or else submit the durable Job, poll
   it and report it.  The reuse comes first, so the Job of a copy that is
   there is only looked at when the copy became visible after that look: no
   other call deletes the Job or records artifacts_collected_at.             *)
CollectReplies(s) ==
    LET submitted == [s EXCEPT !.transfer = "active"]
        removed   == [s EXCEPT !.transfer = "none"]
        reused    == IF s.copy # "none" THEN {Reply("ok", s)} ELSE {}
        polled    ==
            CASE s.transfer = "none" ->
                    IF s.copy # "none" THEN {}
                    ELSE {Reply("pending", submitted)} \cup Broken({s})
                            \cup Unanswered({submitted})
              [] s.transfer = "active" -> {Reply("pending", s)} \cup Broken({s})
              [] s.transfer = "failed" ->
                    {Reply("interrupted", removed)} \cup Broken({s}) \cup Unanswered({removed})
              [] s.transfer = "complete" ->
                    IF s.copy = "none" THEN {Reply("error", s)}
                    ELSE {Reply("pending", s), Reply("ok", [removed EXCEPT !.gathered = TRUE])}
                            \cup Broken({s}) \cup Unanswered({removed})
    IN  reused \cup polled

(* publish_trial_results(): the previous publication is removed before the
   new one takes its place; "unwritable" is an OSError, "error" any other
   failure.                                                                *)
PublishesOnce(s) ==          \* mutant: an existing publication is left alone
    LET new == [s EXCEPT !.published = IF @ = "none" THEN s.copy ELSE @]
    IN  IF s.copy = "none" THEN {Reply("error", s)} ELSE {Reply("ok", new)}
PublishReplies(s) ==
    LET new == [s EXCEPT !.published = s.copy]
        failed == {Reply("unwritable", c) : c \in {s, [s EXCEPT !.published = "none"]}}
    IN  IF s.copy = "none" THEN {Reply("error", s)}
        ELSE {Reply("ok", new)} \cup failed \cup Refused({s})

(* cleanup(handle h): delete the collection Job, Job h and, unless storage is
   retained, the PVC, whose deletion cannot finish while a Pod mounts it.   *)
IgnoresProfile(s, h, retain) ==      \* mutant: retention without the profile
    retain \/ (~s.gathered /\ Observed(s, h) \subseteq {"failed", "retryable"})
Keeps(s, h, retain) ==
    /\ Retain
    /\ retain \/ (~s.gathered /\ Observed(s, h) \subseteq {"failed", "retryable"})
CleanupReplies(s, h, retain) ==
    LET swept   == [s EXCEPT !.transfer = "none"]
        cleared == Deleted(swept, h)
        Gone(c) == [c EXCEPT !.pvc = IF @ = "bound" THEN "released" ELSE @]
        held    == {c \in cleared : LiveJobs(c) # {}}
    IN  Broken({s, swept} \cup cleared) \cup
        IF Keeps(s, h, retain) THEN {Reply("ok", c) : c \in cleared}
        ELSE {Reply("error", c) : c \in held} \cup
             Unanswered({Gone(c) : c \in cleared \ held}) \cup
             {Reply("ok", Gone(c)) : c \in cleared \ held}
=============================================================================
