--------------------------- MODULE TrialEvaluation ---------------------------
(***************************************************************************)
(* From the workspace of a trial to its outcome: the evaluator container   *)
(* of the workload Pod (evaluation.py), the assessment Job with its        *)
(* reviewers (assessment.py), the controller's finalizer that creates the  *)
(* Job, polls it and merges its output into the collected trial (cluster.  *)
(* py, KubernetesEvaluationFinalizer), and the outcome the engine derives  *)
(* (campaign.py).  The finalizer stops at every kubectl call and after     *)
(* every copied file; the Job runs beside it and time passes for it.       *)
(***************************************************************************)
EXTENDS Integers, Sequences, FiniteSets

CONSTANTS Order,         \* resolved_assessments(), in their order
          Required,      \* those with required=True
          Opted,         \* those with run_if_evaluation_failed=True
          Timeout,       \* timeout_seconds of each
          Slack,         \* the 300 seconds the Job gets on top of their sum
          StartDelay,    \* how long the Pod of a Job may take to start
          MaxAttempts,   \* max_attempts of a reviewer
          Troubles,      \* the trusted operations that may go wrong
          Faults,        \* how many calls, copies, Pods and reports may fail
          Deaths,        \* how often the controller may die
          None

ASSUME OrderAssumption == Order \in Seq(STRING)
ASSUME TimeAssumption == {Timeout, Slack, MaxAttempts} \subseteq Nat \ {0}
ASSUME BudgetAssumption == {Faults, Deaths, StartDelay} \subseteq Nat

VARIABLES truth,   \* what the evaluation of this trial runs into
          trial,   \* the collected trial: its results and assessments
          job,     \* the assessment Job
          out,     \* the output directory the Job writes to
          entry,   \* the trial in campaign.json
          fin,     \* where the finalizer is, and the files it still has to copy
          faults, deaths

vars == <<truth, trial, job, out, entry, fin, faults, deaths>>

Results == <<"results", "evaluation">>
ReviewOf(a) == <<"review", a>>          \* the file output_path names
VerdictOf(a) == <<"verdict", a>>        \* assessments/<a>/result.json
Assessments == {Order[i] : i \in 1 .. Len(Order)}
Files == {Results} \cup {ReviewOf(a) : a \in Assessments}
                   \cup {VerdictOf(a) : a \in Assessments}
NoFiles == [f \in Files |-> None]
ASSUME PlanAssumption == Required \cup Opted \subseteq Assessments

-----------------------------------------------------------------------------
(* The evaluator.  The operations of execute_evaluation in their order, and
   the domain their failure is attributed to.                               *)
Gates == <<[operation |-> "metadata",   domain |-> "integrity"],
           [operation |-> "reading",    domain |-> "candidate"],
           [operation |-> "submission", domain |-> "candidate"],
           [operation |-> "workspace",  domain |-> "evaluation"],
           [operation |-> "isolation",  domain |-> "integrity"],
           [operation |-> "reference",  domain |-> "integrity"],
           [operation |-> "validator",  domain |-> "evaluation"],
           [operation |-> "evaluator",  domain |-> "evaluation"],
           [operation |-> "answer",     domain |-> "candidate"]>>
Candidates == {"submission", "answer"}
ASSUME TroublesAssumption ==
    Troubles \subseteq {Gates[i].operation : i \in 1 .. Len(Gates)}

Truths == [provider : BOOLEAN, fails : SUBSET (Troubles \cup Candidates),
           pod : {"well", "killed_before", "killed_after"}]
Failing(t) == {i \in 1 .. Len(Gates) : Gates[i].operation \in t.fails}
First(S) == CHOOSE i \in S : \A j \in S : i <= j

Result(run, status, domain) ==
    [run |-> run, status |-> status, domain |-> domain, required |-> FALSE]

(* What the files hold: a review or the verdict on it, and the results.     *)
Reviews == [run : Nat, status : {"complete", "failed", "skipped"}]
Evaluations ==
    [run : Nat, status : {"complete", "failed", "not_run"}, required : BOOLEAN,
     domain : {"none", "provider", "integrity", "candidate", "evaluation"}]
ASSUME NoneAssumption == None \notin Reviews \cup Evaluations

Evaluated(t) ==
    IF Failing(t) = {} THEN Result(0, "complete", "none")
    ELSE Result(0, "failed", Gates[First(Failing(t))].domain)

(* The agent's container comes first, and the evaluator's only starts when it
   ended with a result; its exit code tells a failed candidate from trouble. *)
Leaves(t) == IF t.provider /\ t.pod # "killed_before" THEN Evaluated(t) ELSE None
Backend(t) ==
    IF /\ t.provider /\ t.pod = "well"
       /\ Evaluated(t).status = "complete" \/ Evaluated(t).domain = "candidate"
    THEN "succeeded" ELSE "failed"

Only == ~truth.provider      \* assessment_only
-----------------------------------------------------------------------------
Idle == [at |-> "idle", left |-> <<>>]
Absent == [phase |-> "absent", run |-> 0, i |-> 1, stage |-> "prepare",
           tried |-> 0, spent |-> 0, age |-> 0]

Init ==
    /\ truth \in {t \in Truths : ~t.provider => t.fails = {} /\ t.pod = "well"}
    /\ trial = [NoFiles EXCEPT ![Results] = Leaves(truth)]
    /\ job = Absent /\ out = NoFiles
    /\ entry = [phase |-> "collected", outcome |-> "none", class |-> "none"]
    /\ fin = Idle /\ faults = 0 /\ deaths = 0
-----------------------------------------------------------------------------
(* The assessment Job: finalize_evaluation, run_assessments and the loop of
   _run_reviewer.  Each of the three commands of an assessment is given the
   whole timeout of the assessment.                                         *)
JobOnly == UNCHANGED <<truth, trial, entry, fin, deaths>>

Selected == IF Only THEN Opted ELSE Assessments
Deadline == Cardinality(Selected) * Timeout + Slack

Base == IF Only THEN Result(job.run, "not_run", "provider")
        ELSE [trial[Results] EXCEPT !.run = job.run]

Boots ==
    /\ job.phase = "starting"
    /\ IF Only \/ trial[Results] # None
       THEN /\ job' = [job EXCEPT !.phase = "running", !.spent = 0]
            /\ out' = IF Only THEN [out EXCEPT ![Results] = Base] ELSE out
       ELSE job' = [job EXCEPT !.phase = "failed"] /\ UNCHANGED out
    /\ JobOnly /\ UNCHANGED faults

Current == Order[job.i]
Reviewing(stage) ==
    job.phase = "running" /\ job.i <= Len(Order) /\ job.stage = stage
Skipped(a) == Base.status # "complete" /\ a \notin Opted

Moves(stage) == job' = [job EXCEPT !.stage = stage, !.tried = 0, !.spent = 0]
NextAssessment ==
    job' = [job EXCEPT !.i = @ + 1, !.stage = "prepare", !.tried = 0, !.spent = 0]
Says(a, status) == [out EXCEPT ![VerdictOf(a)] = [run |-> job.run, status |-> status]]

Skips ==
    /\ Reviewing("prepare") /\ Skipped(Current)
    /\ out' = Says(Current, "skipped") /\ NextAssessment
    /\ JobOnly /\ UNCHANGED faults

Prepares ==
    /\ Reviewing("prepare") /\ ~Skipped(Current)
    /\ Moves("review") /\ UNCHANGED out
    /\ JobOnly /\ UNCHANGED faults

(* One attempt of a reviewer, or the command of an assessment without one. *)
AttemptPasses ==
    /\ Reviewing("review") /\ job.tried < MaxAttempts
    /\ out' = [out EXCEPT ![ReviewOf(Current)] = [run |-> job.run, status |-> "complete"]]
    /\ Moves("render")
    /\ JobOnly /\ UNCHANGED faults

AttemptFails ==
    /\ Reviewing("review") /\ job.tried + 1 < MaxAttempts /\ job.spent < Timeout
    /\ job' = [job EXCEPT !.tried = @ + 1]
    /\ UNCHANGED out /\ JobOnly /\ UNCHANGED faults

Renders ==
    /\ Reviewing("render")
    /\ out' = Says(Current, "complete") /\ NextAssessment
    /\ JobOnly /\ UNCHANGED faults

(* A command fails or is out of time, a reviewer is out of attempts, or its
   failure is terminal: the assessment has failed and the next one begins.  *)
AssessmentFails ==
    /\ \E stage \in {"prepare", "review", "render"} : Reviewing(stage)
    /\ ~Skipped(Current)
    /\ out' = Says(Current, "failed") /\ NextAssessment
    /\ JobOnly /\ UNCHANGED faults

AllComplete(S) == \A a \in S : out[VerdictOf(a)].status = "complete"

JobCompletes ==
    /\ job.phase = "running" /\ job.i > Len(Order)
    /\ out' = [out EXCEPT ![Results] =
                    [Base EXCEPT !.required = AllComplete(Required)]]
    /\ job' = [job EXCEPT !.phase = "complete"]
    /\ JobOnly /\ UNCHANGED faults

Live == job.phase \in {"starting", "unstartable", "running"}

Tick ==
    /\ Live /\ job.age < Deadline
    /\ job.phase = "starting" => job.age < StartDelay
    /\ job.phase = "running" => job.spent < Timeout
    /\ job' = [job EXCEPT !.age = @ + 1,
                          !.spent = IF job.phase = "running" THEN @ + 1 ELSE @]
    /\ UNCHANGED out /\ JobOnly /\ UNCHANGED faults

JobPastDeadline ==
    /\ Live /\ job.age = Deadline
    /\ job' = [job EXCEPT !.phase = "failed"]
    /\ UNCHANGED out /\ JobOnly /\ UNCHANGED faults

JobBreaks ==     \* an evicted Pod, or an image that cannot be pulled
    /\ faults < Faults /\ faults' = faults + 1
    /\ \/ Live /\ job' = [job EXCEPT !.phase = "failed"]
       \/ job.phase = "starting" /\ job' = [job EXCEPT !.phase = "unstartable"]
    /\ UNCHANGED out /\ JobOnly

Job == \/ Boots \/ Skips \/ Prepares \/ AttemptPasses \/ AttemptFails \/ Renders
       \/ AssessmentFails \/ JobCompletes \/ Tick \/ JobPastDeadline
-----------------------------------------------------------------------------
(* The finalizer, called by the engine until it neither raises
   EvaluationPending nor loses its connection.                              *)
Rest == UNCHANGED <<truth, faults, deaths>>
Goes(at) == fin' = [at |-> at, left |-> <<>>] /\ UNCHANGED entry
Returns(phase) == entry' = [entry EXCEPT !.phase = phase] /\ fin' = Idle
Pending == Returns("evaluation_pending")
Attention == Returns("attention_required")

Begins ==
    /\ fin = Idle /\ entry.phase \in {"collected", "evaluating", "evaluation_pending"}
    /\ IF Only /\ Opted = {}
       THEN /\ entry' = [phase |-> "publishing", outcome |-> "failed",
                         class |-> "infrastructure"]
            /\ UNCHANGED fin
       ELSE /\ entry' = IF Only THEN [phase |-> "evaluating", outcome |-> "failed",
                                      class |-> "infrastructure"]
                        ELSE [entry EXCEPT !.phase = "evaluating"]
            /\ fin' = [at |-> "policy", left |-> <<>>]
    /\ Rest /\ UNCHANGED <<trial, job, out>>

AppliesPolicy ==
    /\ fin.at = "policy" /\ Goes("looks")
    /\ Rest /\ UNCHANGED <<trial, job, out>>

FindsNoJob ==
    /\ fin.at = "looks" /\ job.phase = "absent" /\ Goes("clears")
    /\ Rest /\ UNCHANGED <<trial, job, out>>

StillRuns == fin.at = "looks" /\ job.phase = "failed" /\ Goes("pods")
JobFailed == fin.at = "looks" /\ job.phase = "failed" /\ Attention
FindsJobFailed == JobFailed /\ Rest /\ UNCHANGED <<trial, job, out>>

FindsJobLive ==
    /\ fin.at = "looks" /\ Live /\ Goes("pods")
    /\ Rest /\ UNCHANGED <<trial, job, out>>

LooksAtPods ==
    /\ fin.at = "pods"
    /\ IF job.phase = "unstartable" THEN Attention ELSE Pending
    /\ Rest /\ UNCHANGED <<trial, job, out>>

ClearsOutput ==
    /\ fin.at = "clears" /\ out' = NoFiles /\ Goes("creates")
    /\ Rest /\ UNCHANGED <<trial, job>>

New == [Absent EXCEPT !.phase = "starting", !.run = job.run + 1]
CreatesJob ==
    /\ fin.at = "creates" /\ job' = New /\ Pending
    /\ Rest /\ UNCHANGED <<trial, out>>

MergeOrder ==
    [k \in 1 .. 2 * Len(Order) + 1 |->
        IF k > 2 * Len(Order) THEN Results
        ELSE IF k % 2 = 1 THEN ReviewOf(Order[(k + 1) \div 2])
        ELSE VerdictOf(Order[k \div 2])]

DeletesFirst ==
    /\ fin.at = "looks" /\ job.phase = "complete" /\ out[Results] # None
    /\ fin' = [at |-> "merges", left |-> MergeOrder]
    /\ job' = [job EXCEPT !.phase = "absent"] /\ UNCHANGED <<entry, trial, out>>
FindsResults ==
    /\ fin.at = "looks" /\ job.phase = "complete"
    /\ IF out[Results] # None
       THEN fin' = [at |-> "merges", left |-> MergeOrder] /\ UNCHANGED entry
       ELSE Attention
    /\ UNCHANGED <<trial, job, out>>
FindsJobComplete == FindsResults /\ Rest

MergesFile ==
    /\ fin.at = "merges" /\ fin.left # <<>>
    /\ trial' = LET f == Head(fin.left)
                IN  IF out[f] # None THEN [trial EXCEPT ![f] = out[f]] ELSE trial
    /\ fin' = [fin EXCEPT !.left = Tail(@)]
    /\ Rest /\ UNCHANGED <<job, out, entry>>

WritesReport ==
    /\ fin.at = "merges" /\ fin.left = <<>> /\ Goes("deletes")
    /\ Rest /\ UNCHANGED <<trial, job, out>>

DeletesJob ==
    /\ fin.at = "deletes" /\ job' = [job EXCEPT !.phase = "absent"]
    /\ Goes("unpolices")
    /\ Rest /\ UNCHANGED <<trial, out>>

DeletesPolicy ==
    /\ fin.at = "unpolices" /\ Goes("removes")
    /\ Rest /\ UNCHANGED <<trial, job, out>>

RemovesOutput ==
    /\ fin.at = "removes" /\ out' = NoFiles /\ Goes("decides")
    /\ Rest /\ UNCHANGED <<trial, job>>

(* What the engine concludes from the results, in the order of its tests.   *)
IgnoresBackend(result) ==
    IF result.status # "complete"
    THEN [outcome |-> "failed", class |-> IF result.domain = "candidate"
                                          THEN "benchmark" ELSE "infrastructure"]
    ELSE IF result.required THEN [outcome |-> "succeeded", class |-> "none"]
    ELSE [outcome |-> "failed", class |-> "infrastructure"]
Outcome(result) ==
    IF result.status # "complete"
    THEN [outcome |-> "failed", class |-> IF result.domain = "candidate"
                                          THEN "benchmark" ELSE "infrastructure"]
    ELSE IF Backend(truth) = "succeeded" /\ result.required
    THEN [outcome |-> "succeeded", class |-> "none"]
    ELSE [outcome |-> "failed", class |-> "infrastructure"]

Decides ==
    /\ fin.at = "decides" /\ fin' = Idle
    /\ entry' = LET said == IF Only THEN entry ELSE Outcome(trial[Results])
                IN  [phase |-> "publishing", outcome |-> said.outcome,
                     class |-> said.class]
    /\ Rest /\ UNCHANGED <<trial, job, out>>

(* A call gets no answer, which pauses the campaign, whether or not it took
   effect; or it, a copy or the report fails, which asks for attention.     *)
Calls == {"policy", "looks", "pods", "creates", "deletes", "unpolices"}
Effect ==
    {job} \cup (IF fin.at = "creates" THEN {New} ELSE {})
          \cup (IF fin.at = "deletes" THEN {[job EXCEPT !.phase = "absent"]} ELSE {})

Unanswered ==
    /\ fin.at \in Calls /\ faults < Faults /\ faults' = faults + 1
    /\ job' \in Effect /\ Pending
    /\ UNCHANGED <<truth, trial, out, deaths>>

Fails ==
    /\ fin.at \in Calls \cup {"clears", "merges", "removes"}
    /\ faults < Faults /\ faults' = faults + 1 /\ Attention
    /\ UNCHANGED <<truth, trial, job, out, deaths>>

Dies ==
    /\ fin # Idle /\ deaths < Deaths /\ deaths' = deaths + 1
    /\ job' \in Effect /\ fin' = Idle
    /\ UNCHANGED <<truth, trial, out, entry, faults>>

Finalizer ==
    \/ Begins \/ AppliesPolicy \/ FindsNoJob \/ FindsJobFailed \/ FindsJobLive
    \/ LooksAtPods \/ ClearsOutput \/ CreatesJob \/ FindsJobComplete \/ MergesFile
    \/ WritesReport \/ DeletesJob \/ DeletesPolicy \/ RemovesOutput \/ Decides
    \/ Unanswered \/ Fails

Next == Job \/ JobBreaks \/ Finalizer \/ Dies

Spec == Init /\ [][Next]_vars
FairSpec == Spec /\ WF_vars(Job) /\ WF_vars(Finalizer)
-----------------------------------------------------------------------------
(* "Candidate failures require a valid terminal provider result and a trusted
   validation/evaluation decision" and "Trusted evaluator, reference,
   reviewer, reporting, and cleanup failures never become candidate failures"
   (docs/failure-model.md): only a candidate whose submission was refused or
   whose answer was wrong is failed by the benchmark.  And a trial only
   succeeds on a complete evaluation by a Pod that ended well, with all
   required reviews in the collected trial, all written by the one run the
   results are from, however often calls were lost and runs repeated.       *)
VerdictIsEarned ==
    /\ entry.class = "benchmark" =>
        /\ truth.provider /\ Failing(truth) # {}
        /\ Gates[First(Failing(truth))].operation \in Candidates
    /\ entry.outcome = "succeeded" =>
        /\ truth.provider /\ truth.fails = {} /\ truth.pod = "well"
        /\ \A a \in Required :
            /\ trial[VerdictOf(a)] = [run |-> trial[Results].run, status |-> "complete"]
            /\ trial[ReviewOf(a)] = trial[VerdictOf(a)]

(* What a Job has written leaves the output directory only when the collected
   trial holds it: a lost answer or a crash may repeat a paid review, but it
   never costs one that was not merged.                                     *)
NoReviewIsLost ==
    [][\A f \in Files : out[f] # None /\ out'[f] = None =>
            trial[f] # None /\ trial[f].run = out[f].run]_vars

(* No trial stays in evaluation: its Job ends by its deadline, and whatever
   it and the calls about it end with is a decision or asks for attention.  *)
EveryEvaluationEnds ==
    entry.phase \in {"evaluating", "evaluation_pending"}
        ~> entry.phase \in {"publishing", "attention_required"}

(* "Set `required=True` only when failure to obtain a valid assessment should
   make the campaign trial unsuccessful" (docs/integration.md): with optional
   assessments only, and nothing else going wrong, a trial that was evaluated
   completely is decided.                                                   *)
OptionalReviewsMayFail ==
    Required = {} /\ truth.provider /\ truth.fails = {} /\ truth.pod = "well"
        /\ faults = 0 => entry.phase # "attention_required"
=============================================================================
