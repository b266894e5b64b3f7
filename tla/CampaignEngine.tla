--------------------------- MODULE CampaignEngine ---------------------------
(***************************************************************************)
(* The reconciliation engine of src/brunner/campaign.py: one advance() is  *)
(* a walk over the trials in five passes, each external call of which can  *)
(* succeed, be refused or lose its answer, while the Jobs run and the      *)
(* controller can die at any point and start again from campaign.json.     *)
(*                                                                         *)
(* An action covers the code between two external calls: it applies the    *)
(* answer of the call in flight, updates the entry, saves the state where  *)
(* the code saves it and issues the next call.  A crash in a call lets the *)
(* call take effect and loses everything the engine would have done with   *)
(* the answer.                                                             *)
(***************************************************************************)
EXTENDS TrialCluster, FiniteSets

CONSTANTS
    NumTrials,              \* trials of the plan, in the order of its list
    MaxParallel,            \* CampaignPlan.max_parallel
    SubmissionMax,          \* CampaignPlan.submission_max_attempts
    CollectionMax,          \* CampaignPlan.collection_max_attempts
    PublicationMax,         \* CampaignPlan.publication_max_attempts
    AssessIncomplete,       \* some assessment has run_if_evaluation_failed
    PauseStatuses           \* how a pause may be reported, see Paused

ASSUME NumTrialsAssumption == NumTrials \in Nat \ {0}
ASSUME PlanAssumption ==
    {MaxParallel, SubmissionMax, CollectionMax, PublicationMax} \subseteq Nat \ {0}
ASSUME AssessAssumption == AssessIncomplete \in BOOLEAN
ASSUME PauseAssumption ==
    PauseStatuses \subseteq {"paused_backend_connectivity", "attention_required"}

VARIABLES
    disk,      \* the trial entries of campaign.json
    mem,       \* the entries the engine holds; those of `disk` when it is idle
    site,      \* what exists outside the engine, see TrialCluster
    waiting,   \* trials whose next_*_attempt_at lies in the future
    ctl,       \* where the engine is in advance()
    status     \* state["status"]

vars == <<disk, mem, site, waiting, ctl, status>>

Trials == 1 .. NumTrials

Phases == {"pending", "submitting", "submission_retry_wait", "submitted",
           "running", "infrastructure_retrying", "continuation_retrying",
           "collecting", "collection_pending", "collection_retry_wait",
           "collection_failed", "evaluating", "evaluation_pending",
           "publishing", "publication_pending", "cleanup_pending",
           "complete", "attention_required"}

EvaluationPriority == {"collecting", "collection_pending", "collection_retry_wait",
                       "evaluating", "evaluation_pending"}

Stuck == {"attention_required", "collection_failed"}

(* entry["outcome"] and entry["failure_class"] together.                    *)
Outcomes == {"none", "succeeded", "benchmark", "infrastructure"}

(* What a workload ended with, as far as the engine knows.                  *)
Endings == {"none", "succeeded", "failed"}

(* The attempt counters are only compared with their limit, so they stop
   there; `infra` and `cont` are the generation numbers.                    *)
Entry == [phase   : Phases,
          handle  : Handles,
          sub     : 0 .. SubmissionMax,
          coll    : 0 .. CollectionMax,
          pub     : 0 .. PublicationMax,
          infra   : 0 .. MaxRestarts,
          cont    : 0 .. MaxContinuations,
          live    : BOOLEAN,                            \* backend_workload_live
          backend : Endings,                            \* backend_phase
          pipe    : Work \cup {"none"},                 \* pipeline
          kept    : BOOLEAN,                            \* backend_storage_retained
          outcome : Outcomes]

NewEntry == [phase |-> "pending", handle |-> NoJob, sub |-> 0, coll |-> 0, pub |-> 0,
             infra |-> 0, cont |-> 0, live |-> FALSE, backend |-> "none",
             pipe |-> "none", kept |-> FALSE, outcome |-> "none"]

Passes == {"submit", "restart", "continue", "reconcile", "admit"}
Calls == {"none", "submit", "restart", "continue", "inspect", "terminate", "logs",
          "collect", "evaluate", "publish", "cleanup", "capacity"}

(* `bare` is set while the caller of the call in flight does not catch
   BackendConnectivityError; "raised" is an exception that left advance();
   `seen` is how the workload under reconciliation ended (snapshot.phase).  *)
Control == [pass  : Passes \cup {"idle", "raised"},
            at    : 1 .. NumTrials + 1,
            call  : Calls,
            slots : 0 .. MaxParallel,
            bare  : BOOLEAN,
            seen  : Endings]

Idle == [pass |-> "idle", at |-> 1, call |-> "none", slots |-> 0, bare |-> FALSE,
         seen |-> "none"]

Statuses == {"running", "complete", "attention_required", "paused_backend_connectivity"}

TypeOK ==
    /\ disk \in [Trials -> Entry]
    /\ mem \in [Trials -> Entry]
    /\ site \in [Trials -> Site]
    /\ waiting \subseteq Trials
    /\ ctl \in Control
    /\ status \in Statuses

Init ==
    /\ disk = [t \in Trials |-> NewEntry]
    /\ mem = disk
    /\ site = [t \in Trials |-> EmptySite]
    /\ waiting = {}
    /\ ctl = Idle
    /\ status = "running"

Charge(n, limit) == IF n < limit THEN n + 1 ELSE limit

-----------------------------------------------------------------------------
(* Vocabulary of the actions: what is saved, and where the walk goes next.  *)

Saved(m, s) == mem' = m /\ disk' = m /\ status' = s
Save(m) == Saved(m, "running")              \* the status of a walk that goes on
Keep(m) == mem' = m /\ UNCHANGED <<disk, status>>  \* in memory, not saved yet

Calling(c) == /\ ctl.call = c /\ ctl.pass \in Passes
Issue(c) == ctl' = [ctl EXCEPT !.call = c]
NextTrial == ctl' = [ctl EXCEPT !.at = @ + 1, !.call = "none", !.bare = FALSE,
                             !.seen = "none"]

Answered(t, r) == site' = [site EXCEPT ![t] = r.site]

(* _pause_connectivity: advance() saves what it has and returns; after
   max_pause_seconds the campaign asks for attention instead.               *)
Paused(m) ==
    /\ \E s \in PauseStatuses : Saved(m, s)
    /\ ctl' = Idle

(* A BackendConnectivityError nobody catches leaves advance().              *)
Raised(m) ==
    /\ Keep(m)
    /\ ctl' = [Idle EXCEPT !.pass = "raised"]

Escalated(m, t) == [m EXCEPT ![t].phase = "attention_required"]

-----------------------------------------------------------------------------
(* _initialize: phases that were interrupted resume where it is idempotent. *)
ForgetsEvaluation(m) ==      \* mutants: the recovery omits evaluating,
    [t \in Trials |->
        [m[t] EXCEPT !.phase = CASE @ = "collecting" -> "collection_pending"
                                 [] @ = "publishing" -> "publication_pending"
                                 [] OTHER -> @]]
SkipsPublication(m) ==       \* takes an interrupted publication for done,
    [t \in Trials |->
        [m[t] EXCEPT !.phase = CASE @ = "collecting" -> "collection_pending"
                                 [] @ = "evaluating" -> "evaluation_pending"
                                 [] @ = "publishing" -> "cleanup_pending"
                                 [] OTHER -> @]]
CollectsAgain(m) ==          \* goes back to the collection,
    [t \in Trials |->
        [m[t] EXCEPT !.phase = CASE @ \in {"collecting", "evaluating", "publishing"}
                                        -> "collection_pending"
                                 [] OTHER -> @]]
StartsOver(m) ==             \* or forgets an interrupted submission
    [t \in Trials |->
        [m[t] EXCEPT !.phase = CASE @ = "submitting" -> "pending"
                                 [] @ = "collecting" -> "collection_pending"
                                 [] @ = "evaluating" -> "evaluation_pending"
                                 [] @ = "publishing" -> "publication_pending"
                                 [] OTHER -> @]]
Recovered(m) ==
    [t \in Trials |->
        [m[t] EXCEPT !.phase = CASE @ = "collecting" -> "collection_pending"
                                 [] @ = "evaluating" -> "evaluation_pending"
                                 [] @ = "publishing" -> "publication_pending"
                                 [] OTHER -> @]]

StartAdvance ==
    /\ ctl.pass = "idle"
    /\ Saved(Recovered(disk), IF Recovered(disk) = disk THEN status ELSE "running")
    /\ ctl' = [Idle EXCEPT !.pass = "submit"]
    /\ UNCHANGED <<site, waiting>>

(* request_continuation, which the controller calls between two advances.   *)
RequestContinuation(t) ==
    /\ ctl.pass = "idle"
    /\ disk[t].phase = "complete"
    /\ disk[t].outcome \in {"benchmark", "infrastructure"}
    /\ disk[t].pipe = "provider_error"
    /\ disk[t].cont < MaxContinuations
    /\ Save([Recovered(disk) EXCEPT ![t].phase = "continuation_retrying",
                                    ![t].cont = @ + 1, ![t].live = FALSE])
    /\ UNCHANGED <<site, waiting, ctl>>

-----------------------------------------------------------------------------
(* The phases that have work in the reconcile pass.                         *)
ForgetsCleanup ==            \* mutant: cleanup is not taken up again
    {"submitted", "pending", "running", "collection_pending", "collection_retry_wait",
     "evaluation_pending", "publication_pending"}
Reconciled ==
    {"submitted", "pending", "running", "collection_pending", "collection_retry_wait",
     "evaluation_pending", "publication_pending", "cleanup_pending"}

(* The walk.  Due(p): the trials pass p still has to handle, from ctl.at on. *)
Wants(p, t) ==
    LET e == mem[t] IN
    CASE p = "submit" -> /\ e.phase \in {"submitting", "submission_retry_wait"}
                         /\ e.handle = NoJob
                         /\ e.phase = "submission_retry_wait" => t \notin waiting
      [] p = "restart" -> e.phase = "infrastructure_retrying"
      [] p = "continue" -> e.phase = "continuation_retrying"
      [] p = "reconcile" ->
            /\ e.phase \in Reconciled
            /\ e.phase = "pending" => e.handle # NoJob
            /\ e.phase \in {"collection_retry_wait", "publication_pending",
                            "cleanup_pending"} => t \notin waiting
      [] p = "admit" -> e.phase = "pending" /\ e.handle = NoJob /\ ctl.slots > 0

Due(p) == {t \in Trials : t >= ctl.at /\ Wants(p, t)}
Visits(p, t) == /\ ctl.pass = p /\ ctl.call = "none"
                /\ t \in Due(p) /\ \A u \in Due(p) : t <= u
Done(p) == ctl.pass = p /\ ctl.call = "none" /\ Due(p) = {}

At(t, c) == ctl' = [ctl EXCEPT !.at = t, !.call = c]

(* The slots max_parallel leaves for pending trials; none while a trial
   waits for collection or evaluation.                                      *)
Occupies(e) ==
    \/ e.phase \in {"submitting", "submission_retry_wait"}
    \/ /\ e.handle # NoJob
       /\ \/ e.phase \in {"submitted", "infrastructure_retrying", "pending", "running"}
          \/ e.live
IgnoresEvaluation ==         \* mutant: admission while evaluations wait
    LET active == Cardinality({t \in Trials : Occupies(mem[t])})
    IN  IF active >= MaxParallel THEN 0 ELSE MaxParallel - active
Room ==
    LET active == Cardinality({t \in Trials : Occupies(mem[t])})
    IN  IF \E t \in Trials : mem[t].phase \in EvaluationPriority \/ active >= MaxParallel
        THEN 0 ELSE MaxParallel - active

NextPass ==
    /\ \/ Done("submit")    /\ ctl' = [ctl EXCEPT !.pass = "restart", !.at = 1]
       \/ Done("restart")   /\ ctl' = [ctl EXCEPT !.pass = "continue", !.at = 1]
       \/ Done("continue")  /\ ctl' = [ctl EXCEPT !.pass = "reconcile", !.at = 1]
       \/ Done("reconcile") /\ Room = 0 /\ ctl' = [ctl EXCEPT !.pass = "admit", !.at = 1]
    /\ UNCHANGED <<disk, mem, site, waiting, status>>

(* The capacity is asked for the workload of the first pending trial that
   can be configured; those before it ask for attention.                    *)
AskCapacity ==
    /\ Done("reconcile") /\ Room > 0
    /\ \E configured \in Trials \cup {NumTrials + 1} :
        /\ "configuration" \notin Faults => configured = 1
        /\ Keep([t \in Trials |->
                    IF t < configured /\ mem[t].phase = "pending" /\ mem[t].handle = NoJob
                    THEN [mem[t] EXCEPT !.phase = "attention_required"] ELSE mem[t]])
    /\ ctl' = [ctl EXCEPT !.pass = "admit", !.at = 1, !.call = "capacity"]
    /\ UNCHANGED <<site, waiting>>

(* capacity(): what the backend reports free further limits the admission.  *)
CapacityReturns ==
    /\ Calling("capacity")
    /\ \/ /\ Paused(mem)
       \/ /\ \E free \in 0 .. Room : ctl' = [ctl EXCEPT !.call = "none", !.slots = free]
          /\ UNCHANGED <<disk, mem, status>>
    /\ UNCHANGED <<site, waiting>>

AttentionFirst(m) ==         \* mutant: one stuck trial ends the campaign
    LET phases == {m[t].phase : t \in Trials}
    IN  IF phases = {"complete"} THEN "complete"
        ELSE IF phases \cap Stuck # {} THEN "attention_required"
        ELSE "running"
Aggregate(m) ==
    LET phases == {m[t].phase : t \in Trials}
    IN  IF phases = {"complete"} THEN "complete"
        ELSE IF phases \subseteq Stuck \cup {"complete"} THEN "attention_required"
        ELSE "running"

FinishAdvance ==
    /\ Done("admit")
    /\ Saved(mem, Aggregate(mem))
    /\ ctl' = Idle
    /\ UNCHANGED <<site, waiting>>

-----------------------------------------------------------------------------
(* _submit_entry.  A trial of the admit pass takes one of the slots.        *)
SubmitsUnsaved(t) ==         \* mutant: the submission is not saved first
    Keep([mem EXCEPT ![t].phase = "submitting", ![t].sub = Charge(@, SubmissionMax)])
Submitting(t) ==
    Save([mem EXCEPT ![t].phase = "submitting", ![t].sub = Charge(@, SubmissionMax)])

BeginSubmit(t) ==
    /\ \E p \in {"submit", "admit"} : Visits(p, t)
    /\ \/ /\ Submitting(t)
          /\ At(t, "submit")
       \/ /\ "configuration" \in Faults
          /\ Save(Escalated(mem, t))
          /\ ctl' = [ctl EXCEPT !.at = t + 1]
    /\ UNCHANGED <<site, waiting>>

(* The walk moves on; a trial that still holds its slot gives none back.    *)
KeepsSlot(phase) ==          \* mutant: a submitted trial takes no slot
    ctl' = [ctl EXCEPT !.at = @ + 1, !.call = "none"]
AfterSubmit(phase) ==
    ctl' = [ctl EXCEPT !.at = @ + 1, !.call = "none",
                       !.slots = IF ctl.pass = "admit" /\ phase # "attention_required"
                                 THEN @ - 1 ELSE @]

SubmitReturns(t) ==
    /\ Calling("submit") /\ ctl.at = t
    /\ \E r \in SubmitReplies(site[t]) :
        /\ Answered(t, r)
        /\ \/ /\ r.res = "ok"
              /\ Save([mem EXCEPT ![t].handle = r.site.file, ![t].phase = "submitted"])
              /\ AfterSubmit("submitted")
              /\ UNCHANGED waiting
           \/ /\ r.res = "lost"
              /\ Paused(mem)
              /\ UNCHANGED waiting
           \/ /\ r.res = "misconfigured"
              /\ Save(Escalated(mem, t))
              /\ AfterSubmit("attention_required")
              /\ UNCHANGED waiting
           \/ /\ r.res = "error"
              /\ LET again == mem[t].sub < SubmissionMax
                     phase == IF again THEN "submission_retry_wait" ELSE "attention_required"
                 IN  /\ Save([mem EXCEPT ![t].phase = phase])
                     /\ waiting' = IF again THEN waiting \cup {t} ELSE waiting
                     /\ AfterSubmit(phase)

-----------------------------------------------------------------------------
(* _restart_infrastructure_entry.  A restart interrupted in the phase
   infrastructure_retrying repeats its generation; a new one is charged.    *)
ForgetsHandle(m, t, job) ==  \* mutants: the entry keeps the old Job,
    [m EXCEPT ![t].phase = "submitted", ![t].live = TRUE,
              ![t].pipe = "none", ![t].outcome = "none"]
RestartsAgain(m, t, job) ==  \* or stays in the phase that restarts it
    [m EXCEPT ![t].handle = job, ![t].live = TRUE, ![t].pipe = "none",
              ![t].outcome = "none"]
Relaunched(m, t, job) ==
    [m EXCEPT ![t].handle = job, ![t].phase = "submitted", ![t].live = TRUE,
              ![t].pipe = "none", ![t].outcome = "none"]

BeginRestart(t) ==
    /\ Visits("restart", t)
    /\ \/ /\ At(t, "restart")
          /\ UNCHANGED <<disk, mem, status>>
       \/ /\ "configuration" \in Faults
          /\ Save(Escalated(mem, t))
          /\ ctl' = [ctl EXCEPT !.at = t + 1]
    /\ UNCHANGED <<site, waiting>>

(* A restart that failed while the trial was being reconciled does not end
   its visit: the old workload's logs and artifacts are collected.          *)
RestartReturns(t) ==
    /\ Calling("restart") /\ ctl.at = t
    /\ \E r \in RestartReplies(site[t], mem[t].handle, "restart", mem[t].infra) :
        /\ Answered(t, r)
        /\ \/ /\ r.res = "ok"
              /\ Save(Relaunched(mem, t, r.site.file))
              /\ NextTrial
           \/ /\ r.res = "lost"
              /\ Paused(mem)
           \/ /\ r.res = "error"
              /\ Save(Escalated(mem, t))
              /\ IF ctl.pass = "reconcile" THEN Issue("logs") ELSE NextTrial
    /\ UNCHANGED waiting

KeepsCopy(s) == s            \* mutant: the old copy stays
Discarded(s) == [s EXCEPT !.copy = "none"]

(* _restart_continuation_entry: the collected copy is removed before the
   Job of the continuation is requested; a workload that cannot be
   configured raises out of advance().                                      *)
BeginContinue(t) ==
    /\ Visits("continue", t)
    /\ \/ /\ site' = [site EXCEPT ![t] = Discarded(@)]
          /\ At(t, "continue")
          /\ UNCHANGED <<disk, mem, status>>
       \/ /\ "configuration" \in Faults
          /\ Raised(mem)
          /\ UNCHANGED site
    /\ UNCHANGED waiting

ContinueReturns(t) ==
    /\ Calling("continue") /\ ctl.at = t
    /\ \E r \in RestartReplies(site[t], mem[t].handle, "continuation", mem[t].cont) :
        /\ Answered(t, r)
        /\ \/ /\ r.res = "ok"
              /\ Save(Relaunched(mem, t, r.site.file))
              /\ NextTrial
           \/ /\ r.res = "lost"
              /\ Paused(mem)
           \/ /\ r.res = "error"
              /\ Save(Escalated(mem, t))
              /\ NextTrial
    /\ UNCHANGED waiting

-----------------------------------------------------------------------------
(* The reconcile pass: inspect the workload of a trial that has one.        *)
BeginInspect(t) ==
    /\ Visits("reconcile", t)
    /\ mem[t].phase \in {"submitted", "pending", "running"}
    /\ At(t, "inspect")
    /\ UNCHANGED <<disk, mem, site, waiting, status>>

Budget(e) == e.infra < MaxRestarts

InspectReturns(t) ==
    /\ Calling("inspect") /\ ctl.at = t
    /\ \E r \in InspectReplies(site[t], mem[t].handle) :
        LET seen == [mem EXCEPT ![t].live = r.res \in {"pending", "running"}]
            Ended(c) == ctl' = [ctl EXCEPT !.call = c, !.seen =
                            IF r.res = "succeeded" THEN "succeeded" ELSE "failed"]
        IN
        \/ /\ r.res = "lost"
           /\ Paused(mem)
        \/ /\ r.res = "error"
           /\ Keep(Escalated(mem, t))
           /\ NextTrial
        \/ /\ r.res \in {"pending", "running"}
           /\ Keep([seen EXCEPT ![t].phase = r.res])
           /\ \/ NextTrial
              \/ "overdue" \in Faults /\ Issue("terminate")
        \/ /\ r.res = "retryable" /\ Budget(mem[t])
           /\ \/ /\ Save([seen EXCEPT ![t].infra = @ + 1,
                                      ![t].phase = "infrastructure_retrying"])
                 /\ Ended("restart")
              \/ /\ "configuration" \in Faults
                 /\ Save(Escalated(seen, t))
                 /\ Ended("logs")
        \/ /\ \/ r.res \in {"succeeded", "failed"}
              \/ r.res = "retryable" /\ ~Budget(mem[t])
           /\ Keep(seen)
           /\ Ended("logs")
    /\ UNCHANGED <<site, waiting>>

(* The deadline ends the workload; the restart it schedules is not charged. *)
TerminateReturns(t) ==
    /\ Calling("terminate") /\ ctl.at = t
    /\ \E r \in TerminateReplies(site[t], mem[t].handle) :
        /\ Answered(t, r)
        /\ \/ /\ r.res = "ok"
              /\ Save([mem EXCEPT ![t].live = FALSE, ![t].backend = "failed",
                                  ![t].phase = IF Budget(mem[t]) THEN "infrastructure_retrying"
                                                                 ELSE "collection_pending"])
              /\ NextTrial
           \/ /\ r.res = "lost"
              /\ Paused(mem)
           \/ /\ r.res = "error"
              /\ Save(Escalated(mem, t))
              /\ NextTrial
    /\ UNCHANGED waiting

-----------------------------------------------------------------------------
(* _begin_collection_attempt: a collection is only charged when it ends.    *)
Collecting(t, backend) ==
    /\ Save([mem EXCEPT ![t].phase = "collecting", ![t].backend = backend])
    /\ ctl' = [ctl EXCEPT !.at = t, !.call = "collect", !.seen = "none"]

LogsReturn(t) ==
    /\ Calling("logs") /\ ctl.at = t
    /\ \E r \in LogsReplies(site[t]) :
        \/ /\ r.res = "ok"
           /\ Collecting(t, ctl.seen)
        \/ /\ r.res = "lost"
           /\ Paused(mem)
    /\ UNCHANGED <<site, waiting>>

BeginCollect(t) ==
    /\ Visits("reconcile", t)
    /\ mem[t].phase \in {"collection_pending", "collection_retry_wait"}
    /\ Collecting(t, mem[t].backend)
    /\ UNCHANGED <<site, waiting>>

(* _collect_and_evaluate once the trial is collected: without a provider
   result the outcome is an infrastructure failure and only the reviews that
   accept incomplete runs are asked for.                                    *)
Assessed(m, t) ==
    LET e == [m[t] EXCEPT !.pipe = site[t].copy,
                          !.outcome = IF site[t].copy = "result" THEN @ ELSE "infrastructure"]
    IN  IF site[t].copy = "result" \/ AssessIncomplete
        THEN /\ Save([m EXCEPT ![t] = [e EXCEPT !.phase = "evaluating"]])
             /\ ctl' = [ctl EXCEPT !.at = t, !.call = "evaluate"]
        ELSE /\ Save([m EXCEPT ![t] = [e EXCEPT !.phase = "publishing"]])
             /\ ctl' = [ctl EXCEPT !.at = t, !.call = "publish"]

CollectReturns(t) ==
    /\ Calling("collect") /\ ctl.at = t
    /\ \E r \in CollectReplies(site[t]) :
        LET charged == [mem EXCEPT ![t].coll = Charge(@, CollectionMax)]
        IN
        /\ Answered(t, r)
        /\ \/ /\ r.res = "ok"
              /\ Assessed(charged, t)
              /\ UNCHANGED waiting
           \/ /\ r.res = "pending"
              /\ Save([mem EXCEPT ![t].phase = "collection_pending"])
              /\ NextTrial
              /\ UNCHANGED waiting
           \/ /\ r.res = "lost"
              /\ Paused(mem)
              /\ UNCHANGED waiting
           \/ /\ r.res = "interrupted"
              /\ LET again == charged[t].coll < CollectionMax
                 IN  /\ Save([charged EXCEPT ![t].phase =
                            IF again THEN "collection_retry_wait" ELSE "collection_failed"])
                     /\ waiting' = IF again THEN waiting \cup {t} ELSE waiting
              /\ NextTrial
           \/ /\ r.res = "error"
              /\ Save([charged EXCEPT ![t].phase = "collection_failed"])
              /\ NextTrial
              /\ UNCHANGED waiting

BeginEvaluate(t) ==
    /\ Visits("reconcile", t)
    /\ mem[t].phase = "evaluation_pending"
    /\ IF site[t].copy # "none"
       THEN Assessed(mem, t)
       ELSE /\ Save([mem EXCEPT ![t].phase = "collection_failed"])
            /\ ctl' = [ctl EXCEPT !.at = t + 1]
    /\ UNCHANGED <<site, waiting>>

(* The outcome of a trial whose provider result was evaluated: only the
   candidate can fail the benchmark.  `complete`: the trusted evaluation
   completed; `required`: so did every required assessment.                 *)
Verdict(backend, complete, candidate, required) ==
    CASE ~complete /\ candidate -> "benchmark"
      [] ~complete /\ ~candidate -> "infrastructure"
      [] complete /\ (backend # "succeeded" \/ ~required) -> "infrastructure"
      [] OTHER -> "succeeded"

(* evaluation_finalizer: the assessment Jobs are still running, connectivity
   was lost, finalization failed, or it decided the outcome.                *)
EvaluateReturns(t) ==
    /\ Calling("evaluate") /\ ctl.at = t
    /\ \/ /\ Save([mem EXCEPT ![t].phase = "evaluation_pending"])
          /\ NextTrial
       \/ Paused([mem EXCEPT ![t].phase = "evaluation_pending"])
       \/ /\ "rejection" \in Faults
          /\ Save(Escalated(mem, t))
          /\ NextTrial
       \/ \E complete, candidate, required \in BOOLEAN :
          /\ Save([mem EXCEPT ![t].phase = "publishing",
                              ![t].outcome = IF mem[t].pipe = "result"
                                THEN Verdict(mem[t].backend, complete, candidate, required)
                                ELSE @])
          /\ Issue("publish")
    /\ UNCHANGED <<site, waiting>>

-----------------------------------------------------------------------------
(* _publish_and_cleanup.  Resumed from publication_pending, its caller does
   not catch what the cleanup after it may raise.                           *)
BeginPublish(t) ==
    /\ Visits("reconcile", t)
    /\ mem[t].phase = "publication_pending"
    /\ Save([mem EXCEPT ![t].phase = "publishing"])
    /\ ctl' = [ctl EXCEPT !.at = t, !.call = "publish", !.bare = TRUE]
    /\ UNCHANGED <<site, waiting>>

(* _cleanup_entry persists cleanup_pending before it deletes anything.      *)
Cleaning(m, t) == Save([m EXCEPT ![t].phase = "cleanup_pending"])

PublishReturns(t) ==
    /\ Calling("publish") /\ ctl.at = t
    /\ \E r \in PublishReplies(site[t]) :
        LET charged == [mem EXCEPT ![t].pub = Charge(@, PublicationMax)]
            again == r.res = "unwritable" /\ charged[t].pub < PublicationMax
        IN
        /\ Answered(t, r)
        /\ \/ /\ r.res = "ok"
              /\ Cleaning(mem, t)
              /\ Issue("cleanup")
              /\ UNCHANGED waiting
           \/ /\ r.res # "ok"
              /\ Save([charged EXCEPT ![t].phase =
                        IF again THEN "publication_pending" ELSE "attention_required"])
              /\ waiting' = IF again THEN waiting \cup {t} ELSE waiting
              /\ NextTrial

BeginCleanup(t) ==
    /\ Visits("reconcile", t)
    /\ mem[t].phase = "cleanup_pending"
    /\ Cleaning(mem, t)
    /\ At(t, "cleanup")
    /\ UNCHANGED <<site, waiting>>

Retained(e) == Retain /\ e.pipe = "provider_error"

CleanupReturns(t) ==
    /\ Calling("cleanup") /\ ctl.at = t
    /\ \E r \in CleanupReplies(site[t], mem[t].handle, Retained(mem[t])) :
        LET marked == [mem EXCEPT ![t].kept = Retained(mem[t])]
        IN
        /\ Answered(t, r)
        /\ \/ /\ r.res = "ok"
              /\ Save([marked EXCEPT ![t].phase = "complete", ![t].live = FALSE])
              /\ NextTrial
              /\ UNCHANGED waiting
           \/ /\ r.res = "lost"
              /\ IF ctl.bare THEN Raised(marked) ELSE Paused(marked)
              /\ UNCHANGED waiting
           \/ /\ r.res = "error"
              /\ Save(marked)
              /\ waiting' = waiting \cup {t}
              /\ NextTrial

-----------------------------------------------------------------------------
(* The controller dies: between two calls, or in one that may still have
   its effect.  Its replacement starts from campaign.json.                  *)
Replies(t) ==
    CASE ctl.call = "submit"    -> SubmitReplies(site[t])
      [] ctl.call = "restart"   -> RestartReplies(site[t], mem[t].handle, "restart", mem[t].infra)
      [] ctl.call = "continue"  -> RestartReplies(site[t], mem[t].handle, "continuation", mem[t].cont)
      [] ctl.call = "terminate" -> TerminateReplies(site[t], mem[t].handle)
      [] ctl.call = "collect"   -> CollectReplies(site[t])
      [] ctl.call = "publish"   -> PublishReplies(site[t])
      [] ctl.call = "cleanup"   -> CleanupReplies(site[t], mem[t].handle, Retained(mem[t]))
      [] OTHER                  -> {Reply("ok", site[t])}

Crash ==
    /\ ctl.pass \in Passes
    /\ \/ UNCHANGED site
       \/ /\ ctl.at \in Trials
          /\ \E r \in Replies(ctl.at) : Answered(ctl.at, r)
    /\ mem' = disk
    /\ ctl' = Idle
    /\ UNCHANGED <<disk, waiting, status>>

(* Its Deployment also replaces a controller that an exception ended.       *)
ControllerRestarts ==
    /\ ctl.pass = "raised"
    /\ mem' = disk
    /\ ctl' = Idle
    /\ UNCHANGED <<disk, site, waiting, status>>

(* What happens around the controller.                                      *)
JobFinishes(t) ==
    /\ \E s \in JobOutcomes(site[t]) : site' = [site EXCEPT ![t] = s]
    /\ UNCHANGED <<disk, mem, waiting, ctl, status>>

TransferFinishes(t) ==
    /\ site[t].transfer = "active"
    /\ \E s \in TransferOutcomes(site[t]) : site' = [site EXCEPT ![t] = s]
    /\ UNCHANGED <<disk, mem, waiting, ctl, status>>

JobLoss(t) ==
    /\ "job_loss" \in Faults
    /\ \E s \in JobVanishes(site[t]) : site' = [site EXCEPT ![t] = s]
    /\ UNCHANGED <<disk, mem, waiting, ctl, status>>

StorageLoss(t) ==
    /\ "storage_loss" \in Faults
    /\ site[t].pvc = "bound"
    /\ site' = [site EXCEPT ![t] = StorageVanishes(site[t])]
    /\ UNCHANGED <<disk, mem, waiting, ctl, status>>

RetryTimeArrives(t) ==
    /\ t \in waiting
    /\ waiting' = waiting \ {t}
    /\ UNCHANGED <<disk, mem, site, ctl, status>>

-----------------------------------------------------------------------------
EngineStep(t) ==
    \/ BeginSubmit(t)   \/ SubmitReturns(t)
    \/ BeginRestart(t)  \/ RestartReturns(t)
    \/ BeginContinue(t) \/ ContinueReturns(t)
    \/ BeginInspect(t)  \/ InspectReturns(t)
    \/ TerminateReturns(t)
    \/ LogsReturn(t)
    \/ BeginCollect(t)  \/ CollectReturns(t)
    \/ BeginEvaluate(t) \/ EvaluateReturns(t)
    \/ BeginPublish(t)  \/ PublishReturns(t)
    \/ BeginCleanup(t)  \/ CleanupReturns(t)

Walk == StartAdvance \/ NextPass \/ AskCapacity \/ CapacityReturns \/ FinishAdvance

World(t) == JobFinishes(t) \/ TransferFinishes(t) \/ RetryTimeArrives(t)

Next ==
    \/ Walk
    \/ \E t \in Trials : EngineStep(t) \/ RequestContinuation(t)
    \/ Crash \/ ControllerRestarts
    \/ \E t \in Trials : World(t) \/ JobLoss(t) \/ StorageLoss(t)

Spec == Init /\ [][Next]_vars
=============================================================================
