--------------------------- MODULE EvaluationProofs ---------------------------
(***************************************************************************)
(* Proofs about TrialEvaluation: outcomes are earned, and no review that a *)
(* Job has written is thrown away before the collected trial holds it.     *)
(***************************************************************************)
EXTENDS TrialEvaluation, TLAPS

JobPhases == {"absent", "starting", "unstartable", "running", "failed", "complete"}
Places == {"idle", "policy", "looks", "pods", "clears", "creates", "merges", "deletes",
           "unpolices", "removes", "decides"}

Contents ==
    {m \in [Files -> Reviews \cup Evaluations \cup {None}] :
        /\ m[Results] \in Evaluations \cup {None}
        /\ \A a \in Assessments : /\ m[ReviewOf(a)] \in Reviews \cup {None}
                                  /\ m[VerdictOf(a)] \in Reviews \cup {None}}

JobType ==
    [phase : JobPhases, run : Nat, i : 1 .. Len(Order) + 1,
     stage : {"prepare", "review", "render"}, tried : Nat, spent : Nat, age : Nat]

TypeInv ==
    /\ truth \in Truths
    /\ trial \in Contents /\ out \in Contents
    /\ job \in JobType
    /\ entry \in [phase : {"collected", "evaluating", "evaluation_pending",
                           "attention_required", "publishing"},
                  outcome : {"none", "succeeded", "failed"},
                  class : {"none", "benchmark", "infrastructure"}]
    /\ fin \in [at : Places, left : Seq(Files)]

(* The finalizer only works on a trial in evaluation; it clears and creates
   when there is no Job, and merges the output of one that is complete.     *)
FinalizerPlaced ==
    /\ fin.at = "idle" => fin.left = <<>>
    /\ fin.at # "idle" => entry.phase = "evaluating" /\ entry.outcome # "succeeded"
    /\ fin.at \in {"clears", "creates", "unpolices", "removes", "decides"} =>
            job.phase = "absent"
    /\ fin.at \in {"merges", "deletes"} => job.phase = "complete"
    /\ fin.at = "creates" => out = NoFiles
    /\ fin.at \in {"merges", "deletes", "unpolices", "removes"} => out[Results] # None

(* Whatever is in the output directory is of the run of the last Job.       *)
OneRun ==
    /\ \A f \in Files : out[f] # None => out[f].run = job.run
    /\ job.phase \in {"starting", "unstartable"} => out = NoFiles
    /\ job.phase = "starting" => job.i = 1 /\ job.stage = "prepare"

(* A run works through the assessments in their order, and a verdict is only
   complete when its review is there.                                       *)
ReviewsOrdered ==
    /\ job.phase = "running" =>
        /\ \A k \in 1 .. Len(Order) : k < job.i => out[VerdictOf(Order[k])] # None
        /\ job.i <= Len(Order) /\ job.stage = "render" =>
                out[ReviewOf(Order[job.i])] # None
    /\ \A a \in Assessments :
        /\ out[ReviewOf(a)] # None => out[ReviewOf(a)].status = "complete"
        /\ out[VerdictOf(a)] # None /\ out[VerdictOf(a)].status = "complete" =>
                out[ReviewOf(a)] # None

(* Results say what the evaluator found, and that all required assessments
   are complete only when they are.                                         *)
Truthful(r) == r.status = Evaluated(truth).status /\ r.domain = Evaluated(truth).domain
ResultsTrue ==
    ~Only =>
        /\ trial[Results] # None => Truthful(trial[Results])
        /\ job.phase \in {"running", "complete"} => trial[Results] # None
        /\ out[Results] # None =>
            /\ job.phase \in {"complete", "absent"}
            /\ trial[Results] # None
            /\ Truthful(out[Results])
            /\ out[Results].required = TRUE =>
                \A a \in Required : /\ out[VerdictOf(a)] # None
                                    /\ out[VerdictOf(a)].status = "complete"

(* Where the collected trial holds what a Job has written.                  *)
Merged(f) == out[f] # None => trial[f] = out[f]
MergeKept ==
    /\ fin.at = "merges" =>
        \A f \in Files : Merged(f) \/ \E i \in 1 .. Len(fin.left) : fin.left[i] = f
    /\ fin.at \in {"deletes", "unpolices", "removes"} \/ job.phase = "absent" =>
        \A f \in Files : Merged(f)

(* The collected trial when the outcome is derived from it.                 *)
Supported ==
    trial[Results].required = TRUE =>
        \A a \in Required :
            /\ trial[VerdictOf(a)] = [run |-> trial[Results].run, status |-> "complete"]
            /\ trial[ReviewOf(a)] = trial[VerdictOf(a)]
DecisionReady ==
    fin.at = "decides" /\ ~Only => trial[Results] # None /\ Supported

OutcomeEarned ==
    /\ entry.class = "benchmark" =>
        /\ truth.provider = TRUE /\ Failing(truth) # {}
        /\ Gates[First(Failing(truth))].domain = "candidate"
    /\ entry.outcome = "succeeded" =>
        /\ entry.phase = "publishing"
        /\ truth.provider = TRUE /\ Failing(truth) = {} /\ truth.pod = "well"
        /\ trial[Results].required = TRUE /\ Supported

EvInv ==
    /\ TypeInv /\ FinalizerPlaced /\ OneRun /\ ReviewsOrdered /\ ResultsTrue
    /\ MergeKept /\ DecisionReady /\ OutcomeEarned

-----------------------------------------------------------------------------
(* The files are told apart by their kind and their assessment.             *)
LEMMA FilesApart ==
    /\ Results \in Files
    /\ \A a \in Assessments : ReviewOf(a) \in Files /\ VerdictOf(a) \in Files
    /\ \A f \in Files : \/ f = Results
                        \/ \E a \in Assessments : f \in {ReviewOf(a), VerdictOf(a)}
    /\ \A a \in Assessments : ReviewOf(a) # Results /\ VerdictOf(a) # Results
    /\ \A a, b \in Assessments : /\ ReviewOf(a) # VerdictOf(b)
                                 /\ ReviewOf(a) = ReviewOf(b) => a = b
                                 /\ VerdictOf(a) = VerdictOf(b) => a = b
BY DEF Files, Results, ReviewOf, VerdictOf

LEMMA OrderNamed ==
    /\ Len(Order) \in Nat
    /\ \A i \in 1 .. Len(Order) : Order[i] \in Assessments
    /\ \A a \in Assessments : \E i \in 1 .. Len(Order) : Order[i] = a
BY OrderAssumption DEF Assessments

(* A file written into a directory leaves the other files as they are.      *)
Written(m, f, c, n) == n = [m EXCEPT ![f] = c]

LEMMA OneFile ==
    ASSUME NEW m \in Contents, NEW f \in Files, NEW c \in Evaluations \cup Reviews, NEW n,
           Written(m, f, c, n),
           f = Results => c \in Evaluations,
           f # Results => c \in Reviews
    PROVE  /\ n \in Contents /\ n[f] = c /\ c # None
           /\ \A g \in Files : g # f => n[g] = m[g]
<1>1. m \in [Files -> Reviews \cup Evaluations \cup {None}]
    BY DEF Contents
<1>2. /\ n \in [Files -> Reviews \cup Evaluations \cup {None}]
      /\ n[f] = c
      /\ \A g \in Files : g # f => n[g] = m[g]
    BY <1>1 DEF Written
<1>3. n[Results] \in Evaluations \cup {None}
    BY <1>2, FilesApart DEF Contents
<1>4. ASSUME NEW a \in Assessments
      PROVE  n[ReviewOf(a)] \in Reviews \cup {None} /\ n[VerdictOf(a)] \in Reviews \cup {None}
    BY <1>2, FilesApart DEF Contents
<1>5. c # None
    BY NoneAssumption
<1> QED BY <1>2, <1>3, <1>4, <1>5 DEF Contents

LEMMA OneReview ==
    ASSUME NEW m \in Contents, NEW f \in Files, f # Results, NEW c \in Reviews, NEW n,
           Written(m, f, c, n)
    PROVE  /\ n \in Contents /\ n[f] = c /\ c # None
           /\ \A g \in Files : g # f => n[g] = m[g]
<1>1. c \in Evaluations \cup Reviews
    OBVIOUS
<1> QED BY <1>1, OneFile

LEMMA OneResult ==
    ASSUME NEW m \in Contents, NEW c \in Evaluations, NEW n, Written(m, Results, c, n)
    PROVE  /\ n \in Contents /\ n[Results] = c /\ c # None
           /\ \A g \in Files : g # Results => n[g] = m[g]
<1>1. c \in Evaluations \cup Reviews /\ Results \in Files
    BY FilesApart
<1> QED BY <1>1, OneFile

LEMMA NoFilesTyped == NoFiles \in Contents /\ \A f \in Files : NoFiles[f] = None
BY FilesApart DEF NoFiles, Contents

(* The first gate that fails is one of those that fail.                     *)
LEMMA FirstFailing ==
    ASSUME NEW t, Failing(t) # {}
    PROVE  First(Failing(t)) \in Failing(t)
<1>1. Failing(t) \subseteq 1 .. 9
    BY DEF Failing, Gates
<1> DEFINE S == Failing(t)
<1>2. \E i \in S : \A j \in S : i <= j
    <2> HIDE DEF S
    <2>0. S \subseteq 1 .. 9 /\ S # {} BY <1>1 DEF S
    <2> SUFFICES ASSUME \A i \in S : \E j \in S : j < i PROVE FALSE
        BY <2>0
    <2>1. 1 \notin S BY <2>0
    <2>2. 2 \notin S BY <2>0, <2>1
    <2>3. 3 \notin S BY <2>0, <2>1, <2>2
    <2>4. 4 \notin S BY <2>0, <2>1, <2>2, <2>3
    <2>5. 5 \notin S BY <2>0, <2>1, <2>2, <2>3, <2>4
    <2>6. 6 \notin S BY <2>0, <2>1, <2>2, <2>3, <2>4, <2>5
    <2>7. 7 \notin S BY <2>0, <2>1, <2>2, <2>3, <2>4, <2>5, <2>6
    <2>8. 8 \notin S BY <2>0, <2>1, <2>2, <2>3, <2>4, <2>5, <2>6, <2>7
    <2>9. 9 \notin S BY <2>0, <2>1, <2>2, <2>3, <2>4, <2>5, <2>6, <2>7, <2>8
    <2>10. \A i \in 1 .. 9 : i \in {1, 2, 3, 4, 5, 6, 7, 8, 9}
        OBVIOUS
    <2>11. PICK i \in S : i \in {1, 2, 3, 4, 5, 6, 7, 8, 9}
        BY <2>0, <2>10
    <2> QED BY <2>1, <2>2, <2>3, <2>4, <2>5, <2>6, <2>7, <2>8, <2>9, <2>11
<1> QED BY <1>2 DEF First

LEMMA GateDomains ==
    \A i \in 1 .. Len(Gates) : /\ Gates[i].domain \in {"integrity", "candidate", "evaluation"}
                               /\ Gates[i].domain = "candidate" =>
                                    Gates[i].operation \in Candidates \cup {"reading"}
BY DEF Gates, Candidates

LEMMA EvaluatedTyped ==
    ASSUME NEW t
    PROVE  /\ Evaluated(t) \in Evaluations
           /\ Evaluated(t).status = "complete" <=> Failing(t) = {}
           /\ Evaluated(t).domain = "candidate" <=>
                    Failing(t) # {} /\ Gates[First(Failing(t))].domain = "candidate"
<1>1. CASE Failing(t) = {}
    BY <1>1 DEF Evaluated, Result, Evaluations
<1>2. CASE Failing(t) # {}
    <2>1. First(Failing(t)) \in 1 .. Len(Gates)
        BY <1>2, FirstFailing DEF Failing
    <2> DEFINE d == Gates[First(Failing(t))].domain
    <2>2. d \in {"integrity", "candidate", "evaluation"}
        BY <2>1, GateDomains
    <2>3. Evaluated(t) = Result(0, "failed", d)
        BY <1>2 DEF Evaluated
    <2> HIDE DEF d
    <2>4. /\ Evaluated(t) \in Evaluations /\ Evaluated(t).status = "failed"
          /\ Evaluated(t).domain = d
        BY <2>2, <2>3 DEF Result, Evaluations
    <2> QED BY <1>2, <2>4 DEF d
<1> QED BY <1>1, <1>2

-----------------------------------------------------------------------------
LEMMA InitInvariant == Init => EvInv
<1> SUFFICES ASSUME Init PROVE EvInv
    OBVIOUS
<1>1. Leaves(truth) \in Evaluations \cup {None} /\ (Leaves(truth) # None => Leaves(truth) = Evaluated(truth))
    BY EvaluatedTyped DEF Leaves
<1>2. trial \in Contents /\ trial[Results] = Leaves(truth)
    <2>1. trial = [NoFiles EXCEPT ![Results] = Leaves(truth)]
        BY DEF Init
    <2>2. CASE Leaves(truth) # None
        <3>1. Leaves(truth) \in Evaluations /\ NoFiles \in Contents
            BY <1>1, <2>2, NoFilesTyped
        <3>2. Written(NoFiles, Results, Leaves(truth), trial)
            BY <2>1 DEF Written
        <3> QED BY <3>1, <3>2, OneResult
    <2>3. CASE Leaves(truth) = None
        <3>1. trial = NoFiles
            BY <2>1, <2>3, FilesApart DEF NoFiles
        <3> QED BY <2>3, <3>1, NoFilesTyped, FilesApart
    <2> QED BY <2>2, <2>3
<1>3. TypeInv
    <2>1. job \in JobType
        BY OrderNamed DEF Init, Absent, JobType, JobPhases
    <2>2. fin \in [at : Places, left : Seq(Files)]
        BY DEF Init, Idle, Places
    <2> QED BY <1>2, <2>1, <2>2, NoFilesTyped DEF Init, TypeInv
<1>4. out = NoFiles /\ job.phase = "absent" /\ fin.at = "idle" /\ fin.left = <<>>
    BY DEF Init, Idle, Absent
<1>5. FinalizerPlaced /\ OneRun /\ ReviewsOrdered /\ MergeKept /\ DecisionReady
    BY <1>4, NoFilesTyped, FilesApart DEF FinalizerPlaced, OneRun, ReviewsOrdered, MergeKept, Merged, DecisionReady
<1>6. ResultsTrue
    BY <1>1, <1>2, <1>4, NoFilesTyped, FilesApart DEF ResultsTrue, Truthful
<1>7. OutcomeEarned
    BY DEF Init, OutcomeEarned
<1> QED BY <1>3, <1>5, <1>6, <1>7 DEF EvInv

-----------------------------------------------------------------------------
(* While the Job lives the finalizer neither merges nor clears.             *)
LEMMA Apart == EvInv /\ Live => fin.at \in {"idle", "policy", "looks", "pods"}
BY DEF EvInv, TypeInv, Places, FinalizerPlaced, Live

(* What a step of the Job leaves to show, as long as it is not gone.        *)
LEMMA JobSteps ==
    ASSUME EvInv, Live, JobOnly, job' \in JobType, out' \in Contents,
           job'.phase # "absent", OneRun', ReviewsOrdered', ResultsTrue'
    PROVE  EvInv'
<1>1. TypeInv'
    BY DEF EvInv, TypeInv, JobOnly
<1>2. fin'.at \in {"idle", "policy", "looks", "pods"} /\ fin' = fin
    BY Apart DEF JobOnly
<1>3. FinalizerPlaced'
    BY <1>2 DEF EvInv, FinalizerPlaced, JobOnly
<1>4. MergeKept' /\ DecisionReady'
    BY <1>2 DEF MergeKept, DecisionReady
<1>5. OutcomeEarned'
    BY DEF EvInv, OutcomeEarned, Supported, JobOnly
<1> QED BY <1>1, <1>3, <1>4, <1>5 DEF EvInv

(* A step of a running Job that writes at most about its assessment.        *)
LEMMA RunningStep ==
    ASSUME EvInv, JobOnly, job.phase = "running",
           job' \in JobType, job'.phase = "running", job'.run = job.run,
           out' \in Contents, out'[Results] = out[Results],
           \A f \in Files : out'[f] # None => out'[f].run = job.run,
           ReviewsOrdered'
    PROVE  EvInv'
<1>1. OneRun'
    BY DEF OneRun
<1>2. ResultsTrue'
    BY DEF EvInv, ResultsTrue, Truthful, Only, JobOnly
<1> QED BY <1>1, <1>2, JobSteps DEF Live

LEMMA JobFields ==
    ASSUME EvInv
    PROVE  /\ job.phase \in JobPhases /\ job.run \in Nat /\ job.i \in 1 .. Len(Order) + 1
           /\ job.stage \in {"prepare", "review", "render"}
           /\ job.tried \in Nat /\ job.spent \in Nat /\ job.age \in Nat
           /\ out \in Contents /\ trial \in Contents
BY DEF EvInv, TypeInv, JobType

(* The two ways the Job goes on, and the entries of the directory.          *)
LEMMA MovesTyped ==
    ASSUME EvInv, NEW stage \in {"prepare", "review", "render"}, Moves(stage)
    PROVE  /\ job' \in JobType /\ job'.phase = job.phase /\ job'.run = job.run
           /\ job'.i = job.i /\ job'.stage = stage
BY DEF EvInv, TypeInv, JobType, Moves

LEMMA NextTyped ==
    ASSUME EvInv, job.i <= Len(Order), NextAssessment
    PROVE  /\ job' \in JobType /\ job'.phase = job.phase /\ job'.run = job.run
           /\ job'.i = job.i + 1 /\ job'.stage = "prepare"
<1>1. job.i + 1 \in 1 .. Len(Order) + 1
    BY JobFields, OrderNamed
<1> QED BY <1>1 DEF EvInv, TypeInv, JobType, NextAssessment

LEMMA CurrentNamed ==
    ASSUME EvInv, job.i <= Len(Order)
    PROVE  Current \in Assessments
BY JobFields, OrderNamed DEF Current

(* A verdict on the assessment of the Job ends its turn.                    *)
LEMMA VerdictStep ==
    ASSUME EvInv, JobOnly, job.phase = "running", job.i <= Len(Order), NextAssessment,
           NEW st \in {"complete", "failed", "skipped"}, out' = Says(Current, st),
           st = "complete" => out[ReviewOf(Current)] # None
    PROVE  EvInv'
<1> DEFINE a == Current
           v == [run |-> job.run, status |-> st]
<1>1. a \in Assessments /\ VerdictOf(a) \in Files
    BY CurrentNamed, FilesApart
<1>2. v \in Reviews /\ v.run = job.run /\ v.status = st
    BY JobFields DEF Reviews
<1>3. out' = [out EXCEPT ![VerdictOf(a)] = v]
    BY DEF Says
<1>4. VerdictOf(a) # Results
    BY <1>1, FilesApart
<1> HIDE DEF v
<1>5. /\ out' \in Contents /\ out'[VerdictOf(a)] = v /\ v # None
      /\ \A g \in Files : g # VerdictOf(a) => out'[g] = out[g]
    <2>1. out \in Contents
        BY JobFields
    <2>2. Written(out, VerdictOf(a), v, out')
        BY <1>3 DEF Written
    <2>3. v \in Reviews /\ VerdictOf(a) \in Files /\ VerdictOf(a) # Results
        BY <1>1, <1>2, <1>4
    <2> QED BY <2>1, <2>2, <2>3, OneReview
<1>6. /\ job' \in JobType /\ job'.phase = "running" /\ job'.run = job.run
      /\ job'.i = job.i + 1 /\ job'.stage = "prepare"
    BY NextTyped
<1>7. \A f \in Files : out'[f] # None => out'[f].run = job.run
    BY <1>2, <1>5 DEF EvInv, OneRun
<1>8. ReviewsOrdered'
    <2>1. ASSUME NEW k \in 1 .. Len(Order), k < job'.i
          PROVE  out'[VerdictOf(Order[k])] # None
        <3>1. Order[k] \in Assessments /\ VerdictOf(Order[k]) \in Files
            BY OrderNamed, FilesApart
        <3>2. CASE k = job.i
            BY <1>5, <3>2 DEF Current
        <3>3. CASE k # job.i
            <4>1. k < job.i BY <1>6, <2>1, <3>3, JobFields
            <4>2. out[VerdictOf(Order[k])] # None
                BY <4>1 DEF EvInv, ReviewsOrdered
            <4> QED BY <1>5, <3>1, <4>2
        <3> QED BY <3>2, <3>3
    <2>2. ASSUME NEW b \in Assessments
          PROVE  /\ out'[ReviewOf(b)] # None => out'[ReviewOf(b)].status = "complete"
                 /\ out'[VerdictOf(b)] # None /\ out'[VerdictOf(b)].status = "complete" =>
                        out'[ReviewOf(b)] # None
        <3>1. out'[ReviewOf(b)] = out[ReviewOf(b)]
            BY <1>1, <1>5, FilesApart
        <3>2. CASE b = a
            BY <1>1, <1>2, <1>5, <3>1, <3>2 DEF EvInv, ReviewsOrdered
        <3>3. CASE b # a
            <4>1. out'[VerdictOf(b)] = out[VerdictOf(b)]
                BY <1>1, <1>5, <3>3, FilesApart
            <4> QED BY <3>1, <4>1 DEF EvInv, ReviewsOrdered
        <3> QED BY <3>2, <3>3
    <2> QED BY <1>6, <2>1, <2>2 DEF ReviewsOrdered
<1>9. out'[Results] = out[Results]
    BY <1>4, <1>5, FilesApart
<1> QED BY <1>5, <1>6, <1>7, <1>8, <1>9, RunningStep

LEMMA SkipsStep == EvInv /\ Skips => EvInv'
<1> SUFFICES ASSUME EvInv, Skips PROVE EvInv'
    OBVIOUS
<1>1. job.phase = "running" /\ job.i <= Len(Order) /\ out' = Says(Current, "skipped")
        /\ NextAssessment /\ JobOnly
    BY DEF Skips, Reviewing
<1> QED BY <1>1, VerdictStep

LEMMA FailsStep == EvInv /\ AssessmentFails => EvInv'
<1> SUFFICES ASSUME EvInv, AssessmentFails PROVE EvInv'
    OBVIOUS
<1>1. job.phase = "running" /\ job.i <= Len(Order) /\ out' = Says(Current, "failed")
        /\ NextAssessment /\ JobOnly
    BY DEF AssessmentFails, Reviewing
<1> QED BY <1>1, VerdictStep

LEMMA RendersStep == EvInv /\ Renders => EvInv'
<1> SUFFICES ASSUME EvInv, Renders PROVE EvInv'
    OBVIOUS
<1>1. job.phase = "running" /\ job.i <= Len(Order) /\ out' = Says(Current, "complete")
        /\ NextAssessment /\ JobOnly /\ job.stage = "render"
    BY DEF Renders, Reviewing
<1>2. out[ReviewOf(Current)] # None
    BY <1>1 DEF EvInv, ReviewsOrdered, Current
<1> QED BY <1>1, <1>2, VerdictStep

(* Steps of a running Job that write nothing.                               *)
LEMMA SilentStep ==
    ASSUME EvInv, JobOnly, job.phase = "running", UNCHANGED out,
           job' \in JobType, job'.phase = "running", job'.run = job.run, job'.i = job.i,
           job'.stage = "render" => job.stage = "render"
    PROVE  EvInv'
<1>1. ReviewsOrdered'
    BY DEF EvInv, ReviewsOrdered
<1>2. \A f \in Files : out'[f] # None => out'[f].run = job.run
    BY DEF EvInv, OneRun
<1> QED BY <1>1, <1>2, JobFields, RunningStep

LEMMA PreparesStep == EvInv /\ Prepares => EvInv'
<1> SUFFICES ASSUME EvInv, Prepares PROVE EvInv'
    OBVIOUS
<1>1. job.phase = "running" /\ Moves("review") /\ UNCHANGED out /\ JobOnly
    BY DEF Prepares, Reviewing
<1> QED BY <1>1, MovesTyped, SilentStep

LEMMA AttemptFailsStep == EvInv /\ AttemptFails => EvInv'
<1> SUFFICES ASSUME EvInv, AttemptFails PROVE EvInv'
    OBVIOUS
<1>1. job.phase = "running" /\ UNCHANGED out /\ JobOnly /\ job' = [job EXCEPT !.tried = @ + 1]
    BY DEF AttemptFails, Reviewing
<1>2. job \in JobType
    BY DEF EvInv, TypeInv
<1>3. /\ job' \in JobType /\ job'.phase = "running" /\ job'.run = job.run
      /\ job'.i = job.i /\ job'.stage = job.stage
    BY <1>1, <1>2 DEF JobType
<1> QED BY <1>1, <1>3, SilentStep

LEMMA AttemptPassesStep == EvInv /\ AttemptPasses => EvInv'
<1> SUFFICES ASSUME EvInv, AttemptPasses PROVE EvInv'
    OBVIOUS
<1> DEFINE a == Current
           v == [run |-> job.run, status |-> "complete"]
<1>1. /\ job.phase = "running" /\ job.i <= Len(Order) /\ JobOnly
      /\ Moves("render") /\ out' = [out EXCEPT ![ReviewOf(a)] = v]
    BY DEF AttemptPasses, Reviewing
<1>2. v \in Reviews /\ v.run = job.run /\ v.status = "complete"
    BY JobFields DEF Reviews
<1>3. a \in Assessments /\ ReviewOf(a) \in Files /\ ReviewOf(a) # Results
    BY <1>1, CurrentNamed, FilesApart
<1> HIDE DEF v
<1>4. /\ out' \in Contents /\ out'[ReviewOf(a)] = v /\ v # None
      /\ \A g \in Files : g # ReviewOf(a) => out'[g] = out[g]
    <2>1. out \in Contents
        BY JobFields
    <2>2. Written(out, ReviewOf(a), v, out')
        BY <1>1 DEF Written
    <2>3. v \in Reviews /\ ReviewOf(a) \in Files /\ ReviewOf(a) # Results
        BY <1>2, <1>3
    <2> QED BY <2>1, <2>2, <2>3, OneReview
<1>5. /\ job' \in JobType /\ job'.phase = "running" /\ job'.run = job.run
      /\ job'.i = job.i /\ job'.stage = "render"
    BY <1>1, MovesTyped
<1>6. \A f \in Files : out'[f] # None => out'[f].run = job.run
    BY <1>2, <1>4 DEF EvInv, OneRun
<1>7. \A b \in Assessments : out'[VerdictOf(b)] = out[VerdictOf(b)]
    BY <1>3, <1>4, FilesApart
<1>8. \A b \in Assessments : out'[ReviewOf(b)] = v \/ out'[ReviewOf(b)] = out[ReviewOf(b)]
    BY <1>3, <1>4, FilesApart
<1>9. ReviewsOrdered'
    <2>1. \A k \in 1 .. Len(Order) : k < job'.i => out'[VerdictOf(Order[k])] # None
        BY <1>1, <1>5, <1>7, OrderNamed DEF EvInv, ReviewsOrdered
    <2>2. out'[ReviewOf(Order[job'.i])] # None
        BY <1>4, <1>5 DEF Current
    <2>3. ASSUME NEW b \in Assessments
          PROVE  /\ out'[ReviewOf(b)] # None => out'[ReviewOf(b)].status = "complete"
                 /\ out'[VerdictOf(b)] # None /\ out'[VerdictOf(b)].status = "complete" =>
                        out'[ReviewOf(b)] # None
        BY <1>2, <1>4, <1>7, <1>8 DEF EvInv, ReviewsOrdered
    <2> QED BY <2>1, <2>2, <2>3 DEF ReviewsOrdered
<1> QED BY <1>1, <1>3, <1>4, <1>5, <1>6, <1>9, FilesApart, RunningStep

LEMMA BaseTyped ==
    ASSUME EvInv, Only \/ trial[Results] # None
    PROVE  /\ Base \in Evaluations /\ Base.run = job.run
           /\ ~Only => /\ Base.status = trial[Results].status
                       /\ Base.domain = trial[Results].domain
<1>1. CASE Only
    BY <1>1, JobFields DEF Base, Result, Evaluations
<1>2. CASE ~Only
    <2>1. trial[Results] \in Evaluations
        BY <1>2, JobFields DEF Contents
    <2>2. Base = [trial[Results] EXCEPT !.run = job.run]
        BY <1>2 DEF Base
    <2> DEFINE r == trial[Results]
    <2> HIDE DEF r
    <2>3. r \in Evaluations /\ Base = [r EXCEPT !.run = job.run]
        BY <2>1, <2>2 DEF r
    <2>4. Base \in Evaluations /\ Base.run = job.run /\ Base.status = r.status /\ Base.domain = r.domain
        BY <2>3, JobFields DEF Evaluations
    <2> QED BY <2>4 DEF r
<1> QED BY <1>1, <1>2

LEMMA BootsStep == EvInv /\ Boots => EvInv'
<1> SUFFICES ASSUME EvInv, Boots PROVE EvInv'
    OBVIOUS
<1>1. job.phase = "starting" /\ JobOnly /\ out = NoFiles /\ job.i = 1 /\ job.stage = "prepare"
        /\ job \in JobType
    BY DEF Boots, EvInv, OneRun, TypeInv
<1>2. \A f \in Files : out[f] = None
    BY <1>1, NoFilesTyped
<1>3. CASE Only \/ trial[Results] # None
    <2>1. /\ job' = [job EXCEPT !.phase = "running", !.spent = 0]
          /\ out' = IF Only THEN [out EXCEPT ![Results] = Base] ELSE out
        BY <1>3 DEF Boots
    <2>2. /\ job' \in JobType /\ job'.phase = "running" /\ job'.run = job.run
          /\ job'.i = 1 /\ job'.stage = "prepare"
        BY <1>1, <2>1 DEF JobType, JobPhases
    <2>3. out' \in Contents /\ (\A f \in Files : f # Results => out'[f] = None)
            /\ (out'[Results] # None => Only /\ out'[Results].run = job.run)
        <3>1. CASE Only
            <4>1. Written(out, Results, Base, out')
                BY <2>1, <3>1 DEF Written
            <4> QED BY <1>2, <3>1, <4>1, BaseTyped, JobFields, OneResult
        <3>2. CASE ~Only
            BY <1>2, <2>1, <3>2, JobFields, FilesApart
        <3> QED BY <3>1, <3>2
    <2>4. OneRun'
        BY <2>2, <2>3 DEF OneRun
    <2>5. ReviewsOrdered'
        BY <2>2, <2>3, FilesApart DEF ReviewsOrdered
    <2>6. ResultsTrue'
        <3>1. ~Only => trial[Results] # None
            BY <1>3
        <3> QED BY <1>1, <2>3, <3>1 DEF EvInv, ResultsTrue, JobOnly, Only, Truthful
    <2> QED BY <1>1, <2>2, <2>3, <2>4, <2>5, <2>6, JobSteps DEF Live
<1>4. CASE ~(Only \/ trial[Results] # None)
    <2>1. job' = [job EXCEPT !.phase = "failed"] /\ out' = out
        BY <1>4 DEF Boots
    <2>2. /\ job' \in JobType /\ job'.phase = "failed" /\ job'.run = job.run
        BY <1>1, <2>1 DEF JobType, JobPhases
    <2>3. OneRun' /\ ReviewsOrdered'
        BY <1>2, <2>1, <2>2, FilesApart DEF OneRun, ReviewsOrdered
    <2>4. ResultsTrue'
        BY <1>1, <1>2, <2>1, <2>2, FilesApart DEF EvInv, ResultsTrue, JobOnly, Only, Truthful
    <2> QED BY <1>1, <2>1, <2>2, <2>3, <2>4, JobFields, JobSteps DEF Live
<1> QED BY <1>3, <1>4

(* A Job that only ends, or time that only passes.                          *)
LEMMA PhaseOnly ==
    ASSUME EvInv, Live, JobOnly, UNCHANGED out, job' \in JobType, job'.run = job.run,
           \/ /\ job'.phase = job.phase /\ job'.i = job.i /\ job'.stage = job.stage
           \/ job'.phase = "failed"
           \/ job.phase = "starting" /\ job'.phase = "unstartable"
    PROVE  EvInv'
<1>1. OneRun'
    BY DEF EvInv, OneRun
<1>2. ReviewsOrdered'
    BY DEF EvInv, ReviewsOrdered
<1>3. ResultsTrue'
    BY DEF EvInv, ResultsTrue, JobOnly, Only, Truthful, Live
<1>4. job'.phase # "absent"
    BY DEF Live
<1> QED BY <1>1, <1>2, <1>3, <1>4, JobFields, JobSteps

LEMMA TickStep == EvInv /\ Tick => EvInv'
<1> SUFFICES ASSUME EvInv, Tick PROVE EvInv'
    OBVIOUS
<1> DEFINE n == IF job.phase = "running" THEN job.spent + 1 ELSE job.spent
           g == job.age + 1
<1>1. Live /\ JobOnly /\ UNCHANGED out
    BY DEF Tick
<1>2. job \in JobType /\ n \in Nat /\ g \in Nat
    BY JobFields DEF EvInv, TypeInv
<1>3. job' = [job EXCEPT !.age = g, !.spent = n]
    BY DEF Tick
<1> HIDE DEF n, g
<1>4. /\ job' \in JobType /\ job'.phase = job.phase /\ job'.run = job.run
      /\ job'.i = job.i /\ job'.stage = job.stage
    BY <1>2, <1>3 DEF JobType
<1> QED BY <1>1, <1>4, PhaseOnly

LEMMA PhaseTyped ==
    ASSUME EvInv, NEW p \in JobPhases, job' = [job EXCEPT !.phase = p]
    PROVE  /\ job' \in JobType /\ job'.phase = p /\ job'.run = job.run /\ job'.i = job.i
           /\ job'.stage = job.stage
<1>1. job \in JobType
    BY DEF EvInv, TypeInv
<1> QED BY <1>1 DEF JobType

LEMMA EndsStep == EvInv /\ (JobPastDeadline \/ JobBreaks) => EvInv'
<1> SUFFICES ASSUME EvInv, JobPastDeadline \/ JobBreaks PROVE EvInv'
    OBVIOUS
<1>1. JobOnly /\ UNCHANGED out
    BY DEF JobPastDeadline, JobBreaks
<1>2. CASE Live /\ job' = [job EXCEPT !.phase = "failed"]
    BY <1>1, <1>2, PhaseTyped, PhaseOnly DEF JobPhases
<1>3. CASE job.phase = "starting" /\ job' = [job EXCEPT !.phase = "unstartable"]
    BY <1>1, <1>3, PhaseTyped, PhaseOnly DEF JobPhases, Live
<1> QED BY <1>2, <1>3 DEF JobPastDeadline, JobBreaks

(* The end of a Job: the results with its judgement of the reviews.         *)
LEMMA JobCompletesStep == EvInv /\ JobCompletes => EvInv'
<1> SUFFICES ASSUME EvInv, JobCompletes PROVE EvInv'
    OBVIOUS
<1> DEFINE b == AllComplete(Required)
           r == [Base EXCEPT !.required = b]
<1>1. /\ job.phase = "running" /\ job.i > Len(Order) /\ JobOnly
      /\ job' = [job EXCEPT !.phase = "complete"] /\ out' = [out EXCEPT ![Results] = r]
    BY DEF JobCompletes
<1>2. Only \/ trial[Results] # None
    BY <1>1 DEF EvInv, ResultsTrue
<1>3. b \in BOOLEAN /\ (b = TRUE => \A a \in Required : out[VerdictOf(a)].status = "complete")
    BY DEF AllComplete
<1> HIDE DEF b
<1>4. /\ r \in Evaluations /\ r.run = job.run /\ r.status = Base.status
      /\ r.domain = Base.domain /\ r.required = b
    BY <1>2, <1>3, BaseTyped DEF Evaluations
<1> HIDE DEF r
<1>5. /\ out' \in Contents /\ out'[Results] = r /\ r # None
      /\ \A g \in Files : g # Results => out'[g] = out[g]
    <2>1. Written(out, Results, r, out')
        BY <1>1 DEF Written
    <2> QED BY <1>4, <2>1, JobFields, OneResult
<1>6. job' \in JobType /\ job'.phase = "complete" /\ job'.run = job.run
    BY <1>1, PhaseTyped DEF JobPhases
<1>7. OneRun'
    BY <1>4, <1>5, <1>6 DEF EvInv, OneRun
<1>8. \A a \in Assessments : /\ out'[ReviewOf(a)] = out[ReviewOf(a)]
                             /\ out'[VerdictOf(a)] = out[VerdictOf(a)]
    BY <1>5, FilesApart
<1>9. ReviewsOrdered'
    BY <1>6, <1>8 DEF EvInv, ReviewsOrdered
<1>10. ResultsTrue'
    <2>1. \A a \in Required : a \in Assessments /\ out[VerdictOf(a)] # None
        BY <1>1, PlanAssumption, OrderNamed, JobFields DEF EvInv, ReviewsOrdered
    <2>2. b = TRUE => \A a \in Required : /\ out'[VerdictOf(a)] # None
                                          /\ out'[VerdictOf(a)].status = "complete"
        BY <1>3, <1>8, <2>1
    <2>3. ~Only => trial[Results] # None /\ Truthful(trial[Results])
        BY <1>2 DEF EvInv, ResultsTrue
    <2>4. ~Only => r.status = Evaluated(truth).status /\ r.domain = Evaluated(truth).domain
        BY <1>2, <1>4, <2>3, BaseTyped DEF Truthful
    <2> QED BY <1>1, <1>4, <1>5, <1>6, <2>2, <2>3, <2>4 DEF ResultsTrue, JobOnly, Only, Truthful
<1> QED BY <1>1, <1>5, <1>6, <1>7, <1>9, <1>10, JobSteps DEF Live

LEMMA JobPreserves == EvInv /\ (Job \/ JobBreaks) => EvInv'
BY BootsStep, SkipsStep, PreparesStep, AttemptPassesStep, AttemptFailsStep, RendersStep,
   FailsStep, JobCompletesStep, TickStep, EndsStep DEF Job

-----------------------------------------------------------------------------
EntryType == [phase : {"collected", "evaluating", "evaluation_pending",
                       "attention_required", "publishing"},
              outcome : {"none", "succeeded", "failed"},
              class : {"none", "benchmark", "infrastructure"}]
FinType == [at : Places, left : Seq(Files)]

LEMMA FinalizerFields ==
    ASSUME EvInv
    PROVE  entry \in EntryType /\ fin \in FinType /\ fin.at \in Places /\ fin.left \in Seq(Files)
BY DEF EvInv, TypeInv, EntryType, FinType

LEMMA GoesTyped ==
    ASSUME EvInv, NEW at \in Places, Goes(at)
    PROVE  fin' \in FinType /\ fin'.at = at /\ fin'.left = <<>> /\ entry' = entry
BY DEF Goes, FinType

LEMMA IdleTyped == Idle \in FinType /\ Idle.at = "idle" /\ Idle.left = <<>>
BY DEF Idle, FinType, Places

LEMMA NewTyped ==
    ASSUME EvInv
    PROVE  /\ New \in JobType /\ New.phase = "starting" /\ New.i = 1 /\ New.stage = "prepare"
<1> DEFINE n == job.run + 1
<1>1. n \in Nat
    BY JobFields
<1>2. Absent \in JobType /\ Absent.i = 1 /\ Absent.stage = "prepare"
    BY OrderNamed DEF Absent, JobType, JobPhases
<1>3. New = [Absent EXCEPT !.phase = "starting", !.run = n]
    BY DEF New
<1> HIDE DEF n
<1> QED BY <1>1, <1>2, <1>3 DEF JobType, JobPhases

(* A call of the finalizer that took effect: the Job is created in a cleared
   directory, or deleted when the collected trial holds its output.         *)
LEMMA EffectSafe ==
    ASSUME EvInv, job' \in Effect, UNCHANGED <<truth, trial, out>>
    PROVE  /\ job' \in JobType /\ OneRun' /\ ReviewsOrdered' /\ ResultsTrue'
           /\ job'.phase = "absent" => \A f \in Files : Merged(f)
           /\ fin.at = "idle" => job' = job
<1>1. CASE job' = job
    <2>1. job' \in JobType
        BY <1>1 DEF EvInv, TypeInv
    <2>2. OneRun' /\ ReviewsOrdered'
        BY <1>1 DEF EvInv, OneRun, ReviewsOrdered
    <2>3. ResultsTrue'
        BY <1>1 DEF EvInv, ResultsTrue, Only, Truthful
    <2>4. job'.phase = "absent" => \A f \in Files : Merged(f)
        BY <1>1 DEF EvInv, MergeKept
    <2> QED BY <1>1, <2>1, <2>2, <2>3, <2>4
<1>2. CASE fin.at = "creates" /\ job' = New
    <2>1. \A f \in Files : out[f] = None /\ out = NoFiles
        BY <1>2, NoFilesTyped DEF EvInv, FinalizerPlaced
    <2>2. OneRun' /\ ReviewsOrdered'
        BY <1>2, <2>1, NewTyped, FilesApart DEF OneRun, ReviewsOrdered
    <2>3. ResultsTrue'
        BY <1>2, <2>1, NewTyped, FilesApart DEF EvInv, ResultsTrue, Only, Truthful
    <2> QED BY <1>2, <2>2, <2>3, NewTyped
<1>3. CASE fin.at = "deletes" /\ job' = [job EXCEPT !.phase = "absent"]
    <2>1. job' \in JobType /\ job'.phase = "absent" /\ job'.run = job.run
        BY <1>3, PhaseTyped DEF JobPhases
    <2>2. OneRun' /\ ReviewsOrdered'
        BY <2>1 DEF EvInv, OneRun, ReviewsOrdered
    <2>3. ResultsTrue'
        BY <2>1 DEF EvInv, ResultsTrue, Only, Truthful
    <2>4. \A f \in Files : Merged(f)
        BY <1>3 DEF EvInv, MergeKept
    <2> QED BY <1>3, <2>1, <2>2, <2>3, <2>4
<1> QED BY <1>1, <1>2, <1>3 DEF Effect

(* The finalizer rests: its state is lost, the trial keeps no outcome.      *)
LEMMA RestsStep ==
    ASSUME EvInv, job' \in Effect, UNCHANGED <<truth, trial, out>>, fin' = Idle,
           entry' \in EntryType, entry'.class = entry.class, entry'.outcome = entry.outcome,
           entry.outcome = "succeeded" => entry'.phase = entry.phase
    PROVE  EvInv'
<1>1. fin' \in FinType /\ fin'.at = "idle" /\ fin'.left = <<>>
    BY IdleTyped
<1>2. TypeInv'
    BY <1>1, EffectSafe, JobFields DEF EvInv, TypeInv, EntryType, FinType
<1>3. FinalizerPlaced' /\ DecisionReady'
    BY <1>1 DEF FinalizerPlaced, DecisionReady
<1>4. MergeKept'
    <2>1. job'.phase = "absent" => \A f \in Files : Merged(f)'
        BY EffectSafe DEF Merged
    <2> QED BY <1>1, <2>1 DEF MergeKept
<1>5. OutcomeEarned'
    BY DEF EvInv, OutcomeEarned, Supported
<1> QED BY <1>2, <1>3, <1>4, <1>5, EffectSafe DEF EvInv

LEMMA EffectNone == job' = job => job' \in Effect
BY DEF Effect

LEMMA ReturnsStep ==
    ASSUME EvInv, fin.at # "idle", NEW phase \in {"evaluation_pending", "attention_required"},
           Returns(phase), job' \in Effect, UNCHANGED <<truth, trial, out>>
    PROVE  EvInv'
<1>1. entry' = [entry EXCEPT !.phase = phase] /\ fin' = Idle
    BY DEF Returns
<1>2. entry' \in EntryType /\ entry'.class = entry.class /\ entry'.outcome = entry.outcome
    BY <1>1, FinalizerFields DEF EntryType
<1>3. entry.outcome # "succeeded"
    BY DEF EvInv, FinalizerPlaced
<1> QED BY <1>1, <1>2, <1>3, RestsStep

LEMMA DiesStep == EvInv /\ Dies => EvInv'
<1> SUFFICES ASSUME EvInv, Dies PROVE EvInv'
    OBVIOUS
<1>1. job' \in Effect /\ UNCHANGED <<truth, trial, out>> /\ fin' = Idle /\ entry' = entry
    BY DEF Dies
<1> QED BY <1>1, FinalizerFields, RestsStep

LEMMA LostStep == EvInv /\ (Unanswered \/ Fails) => EvInv'
<1> SUFFICES ASSUME EvInv, Unanswered \/ Fails PROVE EvInv'
    OBVIOUS
<1>1. fin.at # "idle" /\ job' \in Effect /\ UNCHANGED <<truth, trial, out>>
    BY EffectNone DEF Unanswered, Fails, Calls
<1>2. Returns("evaluation_pending") \/ Returns("attention_required")
    BY DEF Unanswered, Fails, Pending, Attention
<1> QED BY <1>1, <1>2, ReturnsStep

(* A step of the finalizer that changes neither files nor Job.              *)
LEMMA GoesStep ==
    ASSUME EvInv, fin.at # "idle", NEW at \in {"looks", "pods", "clears"}, Goes(at),
           UNCHANGED <<truth, trial, job, out>>, at = "clears" => job.phase = "absent"
    PROVE  EvInv'
<1>1. fin' \in FinType /\ fin'.at = at /\ fin'.left = <<>> /\ entry' = entry
    BY GoesTyped DEF Places
<1>2. TypeInv'
    BY <1>1 DEF EvInv, TypeInv, FinType
<1>3. FinalizerPlaced' /\ DecisionReady'
    BY <1>1 DEF EvInv, FinalizerPlaced, DecisionReady
<1>4. MergeKept' /\ OutcomeEarned'
    BY <1>1 DEF EvInv, MergeKept, Merged, OutcomeEarned, Supported
<1>5. OneRun' /\ ReviewsOrdered' /\ ResultsTrue'
    BY EffectNone, EffectSafe
<1> QED BY <1>2, <1>3, <1>4, <1>5 DEF EvInv

LEMMA LooksStep ==
    EvInv /\ (AppliesPolicy \/ FindsNoJob \/ FindsJobFailed \/ FindsJobLive \/ LooksAtPods)
        => EvInv'
<1> SUFFICES ASSUME EvInv, AppliesPolicy \/ FindsNoJob \/ FindsJobFailed \/ FindsJobLive
                           \/ LooksAtPods
             PROVE  EvInv'
    OBVIOUS
<1>1. fin.at # "idle" /\ UNCHANGED <<truth, trial, job, out>>
    BY DEF AppliesPolicy, FindsNoJob, FindsJobFailed, JobFailed, FindsJobLive, LooksAtPods, Rest
<1>2. \/ \E at \in {"looks", "pods"} : Goes(at)
      \/ Goes("clears") /\ job.phase = "absent"
      \/ \E phase \in {"evaluation_pending", "attention_required"} : Returns(phase)
    BY DEF AppliesPolicy, FindsNoJob, FindsJobFailed, JobFailed, FindsJobLive, LooksAtPods,
           Pending, Attention
<1> QED BY <1>1, <1>2, GoesStep, ReturnsStep, EffectNone

LEMMA CreatesStep == EvInv /\ CreatesJob => EvInv'
<1> SUFFICES ASSUME EvInv, CreatesJob PROVE EvInv'
    OBVIOUS
<1>1. fin.at = "creates" /\ job' = New /\ Returns("evaluation_pending")
        /\ UNCHANGED <<truth, trial, out>>
    BY DEF CreatesJob, Pending, Rest
<1>2. job' \in Effect
    BY <1>1 DEF Effect
<1> QED BY <1>1, <1>2, ReturnsStep

LEMMA BeginsStep == EvInv /\ Begins => EvInv'
<1> SUFFICES ASSUME EvInv, Begins PROVE EvInv'
    OBVIOUS
<1>1. /\ fin = Idle /\ entry.phase \in {"collected", "evaluating", "evaluation_pending"}
      /\ UNCHANGED <<truth, trial, job, out>>
    BY DEF Begins, Rest
<1>2. entry.outcome # "succeeded" /\ entry \in EntryType
    BY <1>1, FinalizerFields DEF EvInv, OutcomeEarned
<1>3. /\ fin' \in FinType /\ fin'.at \in {"idle", "policy"} /\ fin'.left = <<>>
      /\ entry' \in EntryType /\ entry'.outcome # "succeeded"
      /\ entry'.class \in {entry.class, "infrastructure"}
      /\ fin'.at = "policy" => entry'.phase = "evaluating"
    <2>1. CASE Only /\ Opted = {}
        BY <1>1, <2>1, IdleTyped DEF Begins, EntryType
    <2>2. CASE ~(Only /\ Opted = {})
        <3>1. fin' = [at |-> "policy", left |-> <<>>]
            BY <2>2 DEF Begins
        <3>2. \/ entry' = [phase |-> "evaluating", outcome |-> "failed", class |-> "infrastructure"]
              \/ entry' = [entry EXCEPT !.phase = "evaluating"]
            BY <2>2 DEF Begins
        <3>3. fin' \in FinType /\ fin'.at = "policy" /\ fin'.left = <<>>
            BY <3>1 DEF FinType, Places
        <3>4. entry' \in EntryType /\ entry'.outcome # "succeeded" /\ entry'.phase = "evaluating"
                /\ entry'.class \in {entry.class, "infrastructure"}
            BY <1>2, <3>2 DEF EntryType
        <3> QED BY <3>3, <3>4
    <2> QED BY <2>1, <2>2
<1>4. TypeInv'
    BY <1>1, <1>3 DEF EvInv, TypeInv, EntryType, FinType
<1>5. FinalizerPlaced' /\ DecisionReady'
    BY <1>3 DEF FinalizerPlaced, DecisionReady
<1>6. MergeKept' /\ OutcomeEarned'
    BY <1>1, <1>3 DEF EvInv, MergeKept, Merged, OutcomeEarned
<1>7. OneRun' /\ ReviewsOrdered' /\ ResultsTrue'
    BY <1>1, EffectNone, EffectSafe
<1> QED BY <1>4, <1>5, <1>6, <1>7 DEF EvInv

LEMMA ClearsStep == EvInv /\ ClearsOutput => EvInv'
<1> SUFFICES ASSUME EvInv, ClearsOutput PROVE EvInv'
    OBVIOUS
<1>1. /\ fin.at = "clears" /\ out' = NoFiles /\ Goes("creates")
      /\ UNCHANGED <<truth, trial, job>> /\ job.phase = "absent"
    BY DEF ClearsOutput, Rest, EvInv, FinalizerPlaced
<1>2. fin' \in FinType /\ fin'.at = "creates" /\ fin'.left = <<>> /\ entry' = entry
    BY <1>1, GoesTyped DEF Places
<1>3. \A f \in Files : out'[f] = None
    BY <1>1, NoFilesTyped
<1>4. TypeInv'
    BY <1>1, <1>2, NoFilesTyped DEF EvInv, TypeInv, FinType
<1>5. FinalizerPlaced' /\ DecisionReady' /\ OneRun' /\ ReviewsOrdered' /\ MergeKept'
    BY <1>1, <1>2, <1>3, FilesApart
    DEF EvInv, FinalizerPlaced, DecisionReady, OneRun, ReviewsOrdered, MergeKept, Merged
<1>6. ResultsTrue'
    BY <1>1, <1>3, FilesApart DEF EvInv, ResultsTrue, Only, Truthful
<1>7. OutcomeEarned'
    BY <1>1, <1>2 DEF EvInv, OutcomeEarned, Supported
<1> QED BY <1>4, <1>5, <1>6, <1>7 DEF EvInv

(* Every file is in the order of the merge.                                 *)
LEMMA MergeCovers ==
    /\ MergeOrder \in Seq(Files)
    /\ \A f \in Files : \E k \in 1 .. Len(MergeOrder) : MergeOrder[k] = f
<1> DEFINE N == 2 * Len(Order) + 1
<1>1. N \in Nat /\ Len(Order) \in Nat
    BY OrderNamed
<1>2. ASSUME NEW k \in 1 .. N
      PROVE  /\ k > 2 * Len(Order) => MergeOrder[k] = Results
             /\ k <= 2 * Len(Order) /\ k % 2 = 1 => MergeOrder[k] = ReviewOf(Order[(k + 1) \div 2])
             /\ k <= 2 * Len(Order) /\ k % 2 = 0 => MergeOrder[k] = VerdictOf(Order[k \div 2])
             /\ MergeOrder[k] \in Files
    <2>1. MergeOrder[k] = IF k > 2 * Len(Order) THEN Results
                          ELSE IF k % 2 = 1 THEN ReviewOf(Order[(k + 1) \div 2])
                          ELSE VerdictOf(Order[k \div 2])
        BY DEF MergeOrder
    <2>2. k % 2 = 0 => k % 2 # 1
        OBVIOUS
    <2>3. k <= 2 * Len(Order) /\ k % 2 = 1 => (k + 1) \div 2 \in 1 .. Len(Order)
        BY <1>1
    <2>4. k <= 2 * Len(Order) /\ k % 2 # 1 => k \div 2 \in 1 .. Len(Order)
        BY <1>1
    <2>5. MergeOrder[k] \in Files
        BY <1>1, <2>1, <2>3, <2>4, OrderNamed, FilesApart
    <2> QED BY <1>1, <2>1, <2>2, <2>5
<1>3. MergeOrder \in Seq(Files) /\ Len(MergeOrder) = N
    <2>1. MergeOrder \in [1 .. N -> Files]
        BY <1>2 DEF MergeOrder
    <2> HIDE DEF N
    <2> QED BY <1>1, <2>1
<1>4. ASSUME NEW f \in Files
      PROVE  \E k \in 1 .. N : MergeOrder[k] = f
    <2>1. CASE f = Results
        BY <1>1, <1>2, <2>1
    <2>2. ASSUME NEW a \in Assessments, f \in {ReviewOf(a), VerdictOf(a)}
          PROVE  \E k \in 1 .. N : MergeOrder[k] = f
        <3>1. PICK i \in 1 .. Len(Order) : Order[i] = a
            BY OrderNamed
        <3>2. /\ 2 * i - 1 \in 1 .. N /\ 2 * i - 1 <= 2 * Len(Order)
              /\ (2 * i - 1) % 2 = 1 /\ ((2 * i - 1) + 1) \div 2 = i
            BY <1>1
        <3>3. 2 * i \in 1 .. N /\ 2 * i <= 2 * Len(Order) /\ (2 * i) % 2 = 0 /\ (2 * i) \div 2 = i
            BY <1>1
        <3>4. MergeOrder[2 * i - 1] = ReviewOf(a)
            BY <1>2, <3>1, <3>2
        <3>5. MergeOrder[2 * i] = VerdictOf(a)
            BY <1>2, <3>1, <3>3
        <3> QED BY <2>2, <3>2, <3>3, <3>4, <3>5
    <2> QED BY <2>1, <2>2, FilesApart
<1> QED BY <1>3, <1>4

LEMMA FindsCompleteStep == EvInv /\ FindsJobComplete => EvInv'
<1> SUFFICES ASSUME EvInv, FindsJobComplete PROVE EvInv'
    OBVIOUS
<1>1. fin.at = "looks" /\ job.phase = "complete" /\ UNCHANGED <<truth, trial, job, out>>
    BY DEF FindsJobComplete, FindsResults, Rest
<1>2. CASE out[Results] = None
    BY <1>1, <1>2, ReturnsStep, EffectNone DEF FindsJobComplete, FindsResults, Attention
<1>3. CASE out[Results] # None
    <2>1. fin' = [at |-> "merges", left |-> MergeOrder] /\ entry' = entry
        BY <1>3 DEF FindsJobComplete, FindsResults
    <2>2. fin' \in FinType /\ fin'.at = "merges" /\ fin'.left = MergeOrder
        BY <2>1, MergeCovers DEF FinType, Places
    <2>3. TypeInv'
        BY <1>1, <2>1, <2>2 DEF EvInv, TypeInv, FinType
    <2>4. FinalizerPlaced' /\ DecisionReady'
        BY <1>1, <1>3, <2>1, <2>2 DEF EvInv, FinalizerPlaced, DecisionReady
    <2>5. MergeKept'
        BY <1>1, <2>2, MergeCovers DEF MergeKept
    <2>6. OutcomeEarned'
        BY <1>1, <2>1 DEF EvInv, OutcomeEarned, Supported
    <2> QED BY <1>1, <2>3, <2>4, <2>5, <2>6, EffectNone, EffectSafe DEF EvInv
<1> QED BY <1>2, <1>3

LEMMA MergesStep == EvInv /\ MergesFile => EvInv'
<1> SUFFICES ASSUME EvInv, MergesFile PROVE EvInv'
    OBVIOUS
<1> DEFINE f == Head(fin.left)
           L == Len(fin.left)
<1>1. /\ fin.at = "merges" /\ fin.left # <<>>
      /\ trial' = IF out[f] # None THEN [trial EXCEPT ![f] = out[f]] ELSE trial
      /\ fin' = [fin EXCEPT !.left = Tail(fin.left)]
      /\ UNCHANGED <<truth, job, out, entry>>
    BY DEF MergesFile, Rest
<1>2. fin.left \in Seq(Files) /\ f \in Files /\ L \in Nat \ {0} /\ f = fin.left[1]
    BY <1>1, FinalizerFields
<1>3. /\ fin' \in FinType /\ fin'.at = "merges" /\ fin'.left \in Seq(Files)
      /\ Len(fin'.left) = L - 1
      /\ \A i \in 1 .. L - 1 : fin'.left[i] = fin.left[i + 1]
    <2> DEFINE T == Tail(fin.left)
    <2>1. T \in Seq(Files) /\ Len(T) = L - 1 /\ \A i \in 1 .. L - 1 : T[i] = fin.left[i + 1]
        BY <1>2
    <2>2. fin' = [fin EXCEPT !.left = T]
        BY <1>1
    <2> HIDE DEF T
    <2>3. fin' \in FinType /\ fin'.at = "merges" /\ fin'.left = T
        BY <1>1, <2>1, <2>2, FinalizerFields DEF FinType
    <2> QED BY <2>1, <2>3
<1> HIDE DEF f
<1>4. /\ trial' \in Contents
      /\ out[f] # None => trial'[f] = out[f]
      /\ \A g \in Files : trial'[g] = trial[g] \/ (g = f /\ out[f] # None /\ trial'[g] = out[f])
    <2>1. CASE out[f] = None
        BY <1>1, <2>1, JobFields
    <2>2. CASE out[f] # None
        <3>1. /\ out[f] \in Evaluations \cup Reviews
              /\ f = Results => out[f] \in Evaluations
              /\ f # Results => out[f] \in Reviews
            BY <1>2, <2>2, JobFields, FilesApart DEF Contents
        <3>2. Written(trial, f, out[f], trial')
            BY <1>1, <2>2 DEF Written
        <3> QED BY <1>2, <2>2, <3>1, <3>2, JobFields, OneFile
    <2> QED BY <2>1, <2>2
<1>5. \A g \in Files : trial'[g] = trial[g] \/ (out[g] # None /\ trial'[g] = out[g])
    BY <1>4
<1>6. TypeInv'
    BY <1>1, <1>3, <1>4 DEF EvInv, TypeInv, FinType
<1>7. FinalizerPlaced' /\ DecisionReady'
    BY <1>1, <1>3 DEF EvInv, FinalizerPlaced, DecisionReady
<1>8. OneRun' /\ ReviewsOrdered'
    BY <1>1 DEF EvInv, OneRun, ReviewsOrdered
<1>9. ResultsTrue'
    BY <1>1, <1>5, FilesApart DEF EvInv, ResultsTrue, Only, Truthful
<1>10. MergeKept'
    <2>1. job'.phase = "complete"
        BY <1>1 DEF EvInv, FinalizerPlaced
    <2>2. ASSUME NEW g \in Files
          PROVE  Merged(g)' \/ \E i \in 1 .. Len(fin'.left) : fin'.left[i] = g
        <3>1. CASE Merged(g)
            BY <1>1, <1>5, <3>1 DEF Merged
        <3>2. ASSUME NEW i \in 1 .. L, fin.left[i] = g
              PROVE  Merged(g)' \/ \E j \in 1 .. Len(fin'.left) : fin'.left[j] = g
            <4>1. CASE i = 1
                BY <1>1, <1>2, <1>4, <3>2, <4>1 DEF Merged
            <4>2. CASE i # 1
                <5>1. i - 1 \in 1 .. Len(fin'.left) /\ fin'.left[i - 1] = g
                    BY <1>2, <1>3, <3>2, <4>2
                <5> QED BY <5>1
            <4> QED BY <4>1, <4>2
        <3> QED BY <1>1, <3>1, <3>2 DEF EvInv, MergeKept
    <2> QED BY <1>3, <2>1, <2>2 DEF MergeKept
<1>11. OutcomeEarned'
    BY <1>1 DEF EvInv, OutcomeEarned, FinalizerPlaced
<1> QED BY <1>6, <1>7, <1>8, <1>9, <1>10, <1>11 DEF EvInv

(* After the merge the finalizer only takes away what the trial holds.      *)
LEMMA TidiesStep == EvInv /\ (WritesReport \/ DeletesJob \/ DeletesPolicy) => EvInv'
<1> SUFFICES ASSUME EvInv, WritesReport \/ DeletesJob \/ DeletesPolicy PROVE EvInv'
    OBVIOUS
<1>1. /\ UNCHANGED <<truth, trial, out>> /\ job' \in Effect
      /\ \/ fin.at = "merges" /\ fin.left = <<>> /\ Goes("deletes") /\ job' = job
         \/ /\ fin.at = "deletes" /\ Goes("unpolices")
            /\ job' = [job EXCEPT !.phase = "absent"]
         \/ fin.at = "unpolices" /\ Goes("removes") /\ job' = job
    BY EffectNone DEF WritesReport, DeletesJob, DeletesPolicy, Rest, Effect
<1>2. /\ fin' \in FinType /\ fin'.left = <<>> /\ entry' = entry
      /\ fin.at = "merges" => fin'.at = "deletes"
      /\ fin.at = "deletes" => fin'.at = "unpolices"
      /\ fin.at = "unpolices" => fin'.at = "removes"
    BY <1>1, GoesTyped DEF Places
<1>3. TypeInv'
    BY <1>1, <1>2, EffectSafe DEF EvInv, TypeInv, FinType
<1>4. job'.phase = IF fin.at = "deletes" THEN "absent" ELSE job.phase
    BY <1>1, PhaseTyped DEF JobPhases
<1>5. FinalizerPlaced' /\ DecisionReady'
    BY <1>1, <1>2, <1>4 DEF EvInv, FinalizerPlaced, DecisionReady
<1>6. \A f \in Files : Merged(f)
    <2>1. CASE fin.at = "merges"
        <3>1. fin.left = <<>> /\ Len(fin.left) = 0
            BY <1>1, <2>1
        <3>2. \A f \in Files : Merged(f) \/ \E i \in 1 .. 0 : fin.left[i] = f
            BY <2>1, <3>1 DEF EvInv, MergeKept
        <3> QED BY <3>2
    <2>2. CASE fin.at \in {"deletes", "unpolices"}
        BY <2>2 DEF EvInv, MergeKept
    <2> QED BY <1>1, <2>1, <2>2
<1>7. MergeKept'
    BY <1>1, <1>2, <1>6 DEF MergeKept, Merged
<1>8. OutcomeEarned'
    BY <1>1, <1>2 DEF EvInv, OutcomeEarned, Supported
<1> QED BY <1>1, <1>3, <1>5, <1>7, <1>8, EffectSafe DEF EvInv

(* A trial that holds the whole output of a run supports its judgement.     *)
LEMMA MergedSupports ==
    ASSUME EvInv, ~Only, out[Results] # None, \A f \in Files : Merged(f)
    PROVE  trial[Results] # None /\ Supported
<1>1. /\ trial[Results] = out[Results] /\ out[Results].run = job.run
    BY FilesApart DEF Merged, EvInv, OneRun
<1>2. ASSUME out[Results].required = TRUE, NEW a \in Required
      PROVE  /\ trial[VerdictOf(a)] = [run |-> trial[Results].run, status |-> "complete"]
             /\ trial[ReviewOf(a)] = trial[VerdictOf(a)]
    <2>1. a \in Assessments /\ ReviewOf(a) \in Files /\ VerdictOf(a) \in Files
        BY PlanAssumption, FilesApart
    <2>2. out[VerdictOf(a)] # None /\ out[VerdictOf(a)].status = "complete"
        BY <1>2 DEF EvInv, ResultsTrue
    <2>3. out[ReviewOf(a)] # None /\ out[ReviewOf(a)].status = "complete"
        BY <2>1, <2>2 DEF EvInv, ReviewsOrdered
    <2>4. out[ReviewOf(a)].run = job.run /\ out[VerdictOf(a)].run = job.run
        BY <2>1, <2>2, <2>3 DEF EvInv, OneRun
    <2>5. out[ReviewOf(a)] \in Reviews /\ out[VerdictOf(a)] \in Reviews
        BY <2>1, <2>2, <2>3, JobFields DEF Contents
    <2>6. \A r \in Reviews : r.run = job.run /\ r.status = "complete" =>
                r = [run |-> job.run, status |-> "complete"]
        BY DEF Reviews
    <2>7. /\ out[ReviewOf(a)] = [run |-> job.run, status |-> "complete"]
          /\ out[VerdictOf(a)] = [run |-> job.run, status |-> "complete"]
        BY <2>2, <2>3, <2>4, <2>5, <2>6
    <2>8. trial[ReviewOf(a)] = out[ReviewOf(a)] /\ trial[VerdictOf(a)] = out[VerdictOf(a)]
        BY <2>1, <2>2, <2>3 DEF Merged
    <2> QED BY <1>1, <2>7, <2>8
<1> QED BY <1>1, <1>2 DEF Supported

LEMMA RemovesStep == EvInv /\ RemovesOutput => EvInv'
<1> SUFFICES ASSUME EvInv, RemovesOutput PROVE EvInv'
    OBVIOUS
<1>1. /\ fin.at = "removes" /\ out' = NoFiles /\ Goes("decides")
      /\ UNCHANGED <<truth, trial, job>> /\ job.phase = "absent" /\ out[Results] # None
    BY DEF RemovesOutput, Rest, EvInv, FinalizerPlaced
<1>2. fin' \in FinType /\ fin'.at = "decides" /\ fin'.left = <<>> /\ entry' = entry
    BY <1>1, GoesTyped DEF Places
<1>3. \A f \in Files : out'[f] = None
    BY <1>1, NoFilesTyped
<1>4. TypeInv'
    BY <1>1, <1>2, NoFilesTyped DEF EvInv, TypeInv, FinType
<1>5. FinalizerPlaced' /\ OneRun' /\ ReviewsOrdered' /\ MergeKept'
    BY <1>1, <1>2, <1>3, FilesApart
    DEF EvInv, FinalizerPlaced, OneRun, ReviewsOrdered, MergeKept, Merged
<1>6. ResultsTrue'
    BY <1>1, <1>3, FilesApart DEF EvInv, ResultsTrue, Only, Truthful
<1>7. OutcomeEarned'
    BY <1>1, <1>2 DEF EvInv, OutcomeEarned, Supported
<1>8. DecisionReady'
    <2>1. \A f \in Files : Merged(f)
        BY <1>1 DEF EvInv, MergeKept
    <2> QED BY <1>1, <2>1, MergedSupports DEF DecisionReady, Supported, Only
<1> QED BY <1>4, <1>5, <1>6, <1>7, <1>8 DEF EvInv

(* The outcome: a failed evaluation blames the candidate only when the first
   gate that failed is one of the candidate's; success has all its grounds. *)
LEMMA DecidesStep == EvInv /\ Decides => EvInv'
<1> SUFFICES ASSUME EvInv, Decides PROVE EvInv'
    OBVIOUS
<1>1. fin.at = "decides" /\ fin' = Idle /\ UNCHANGED <<truth, trial, job, out>>
    BY DEF Decides, Rest
<1>2. fin' \in FinType /\ fin'.at = "idle" /\ fin'.left = <<>>
    BY <1>1, IdleTyped
<1>3. entry.outcome # "succeeded" /\ entry \in EntryType
    BY <1>1, FinalizerFields DEF EvInv, FinalizerPlaced
<1>4. entry' \in EntryType /\ entry'.phase = "publishing" /\ OutcomeEarned'
    <2>1. CASE Only
        <3>1. entry' = [phase |-> "publishing", outcome |-> entry.outcome, class |-> entry.class]
            BY <2>1 DEF Decides
        <3> QED BY <1>1, <1>3, <3>1 DEF EntryType, EvInv, OutcomeEarned
    <2>2. CASE ~Only
        <3> DEFINE said == Outcome(trial[Results])
        <3>1. entry' = [phase |-> "publishing", outcome |-> said.outcome, class |-> said.class]
            BY <2>2 DEF Decides
        <3>2. trial[Results] # None /\ Supported /\ Truthful(trial[Results])
            BY <1>1, <2>2 DEF EvInv, DecisionReady, ResultsTrue
        <3>3. trial[Results] \in Evaluations
            BY <3>2, JobFields DEF Contents
        <3>4. said \in [outcome : {"succeeded", "failed"},
                        class : {"none", "benchmark", "infrastructure"}]
            BY DEF Outcome
        <3>5. said.class = "benchmark" =>
                    trial[Results].status # "complete" /\ trial[Results].domain = "candidate"
            BY DEF Outcome
        <3>6. said.outcome = "succeeded" =>
                    /\ trial[Results].status = "complete" /\ trial[Results].required = TRUE
                    /\ Backend(truth) = "succeeded"
            BY <3>3 DEF Outcome, Evaluations
        <3>7. Backend(truth) = "succeeded" => truth.pod = "well"
            BY DEF Backend
        <3>8. truth.provider = TRUE
            BY <2>2 DEF Only, EvInv, TypeInv, Truths
        <3> HIDE DEF said
        <3>9. /\ entry' \in EntryType /\ entry'.phase = "publishing"
              /\ entry'.outcome = said.outcome /\ entry'.class = said.class
            BY <3>1, <3>4 DEF EntryType
        <3>10. said.class = "benchmark" =>
                    Failing(truth) # {} /\ Gates[First(Failing(truth))].domain = "candidate"
            BY <3>2, <3>5, EvaluatedTyped DEF Truthful
        <3>11. said.outcome = "succeeded" => Failing(truth) = {}
            BY <3>2, <3>6, EvaluatedTyped DEF Truthful
        <3> QED BY <1>1, <3>2, <3>6, <3>7, <3>8, <3>9, <3>10, <3>11 DEF OutcomeEarned, Supported
    <2> QED BY <2>1, <2>2
<1>5. TypeInv'
    BY <1>1, <1>2, <1>4 DEF EvInv, TypeInv, EntryType, FinType
<1>6. FinalizerPlaced' /\ DecisionReady' /\ MergeKept'
    BY <1>1, <1>2 DEF EvInv, FinalizerPlaced, DecisionReady, MergeKept, Merged
<1> QED BY <1>1, <1>4, <1>5, <1>6, EffectNone, EffectSafe DEF EvInv

LEMMA FinalizerPreserves == EvInv /\ Finalizer => EvInv'
BY BeginsStep, LooksStep, ClearsStep, CreatesStep, FindsCompleteStep, MergesStep, TidiesStep,
   RemovesStep, DecidesStep, LostStep DEF Finalizer

LEMMA StutterPreserves == EvInv /\ UNCHANGED vars => EvInv'
<1> SUFFICES ASSUME EvInv, UNCHANGED vars PROVE EvInv'
    OBVIOUS
<1>1. TypeInv' /\ FinalizerPlaced' /\ MergeKept' /\ DecisionReady' /\ OutcomeEarned'
    BY DEF vars, EvInv, TypeInv, FinalizerPlaced, MergeKept, Merged, DecisionReady, Supported,
           Only, OutcomeEarned
<1> QED BY <1>1, EffectNone, EffectSafe DEF vars, EvInv

LEMMA NextPreserves == EvInv /\ [Next]_vars => EvInv'
BY JobPreserves, FinalizerPreserves, DiesStep, StutterPreserves DEF Next

(* The finalizer and the Job keep the bookkeeping of runs, files and places
   that the two results below rest on.                                      *)
THEOREM EvaluationInvariant == Spec => []EvInv
BY InitInvariant, NextPreserves, PTL DEF Spec

(* Outcomes are earned, for any assessments, timeouts, faults and crashes:
   only a refused submission or a wrong answer fails a candidate, and success
   needs a complete evaluation, a Pod that ended well and every required
   review of the run the results are from.  A submission that cannot be read
   is blamed on the candidate too, so the theorem leaves that trouble out.  *)
THEOREM VerdictsAreEarned ==
    ASSUME "reading" \notin Troubles
    PROVE  Spec => []VerdictIsEarned
<1>1. ASSUME EvInv PROVE VerdictIsEarned
    <2>1. truth \in Truths /\ Failing(truth) \subseteq 1 .. Len(Gates)
        BY <1>1 DEF EvInv, TypeInv, Failing
    <2>2. ASSUME entry.class = "benchmark"
          PROVE  /\ truth.provider /\ Failing(truth) # {}
                 /\ Gates[First(Failing(truth))].operation \in Candidates
        <3> DEFINE i == First(Failing(truth))
        <3>1. truth.provider = TRUE /\ Failing(truth) # {} /\ Gates[i].domain = "candidate"
            BY <1>1, <2>2 DEF EvInv, OutcomeEarned
        <3>2. i \in Failing(truth) /\ i \in 1 .. Len(Gates)
            BY <2>1, <3>1, FirstFailing
        <3>3. Gates[i].operation \in truth.fails /\ truth.fails \subseteq Troubles \cup Candidates
            BY <2>1, <3>2 DEF Failing, Truths
        <3>4. Gates[i].operation \in Candidates \cup {"reading"}
            BY <3>1, <3>2, GateDomains
        <3>5. Gates[i].operation # "reading"
            BY <3>3 DEF Candidates
        <3> QED BY <3>1, <3>4, <3>5
    <2>3. ASSUME entry.outcome = "succeeded"
          PROVE  /\ truth.provider /\ truth.fails = {} /\ truth.pod = "well"
                 /\ \A a \in Required :
                     /\ trial[VerdictOf(a)] = [run |-> trial[Results].run, status |-> "complete"]
                     /\ trial[ReviewOf(a)] = trial[VerdictOf(a)]
        <3>1. /\ truth.provider = TRUE /\ Failing(truth) = {} /\ truth.pod = "well"
              /\ trial[Results].required = TRUE /\ Supported
            BY <1>1, <2>3 DEF EvInv, OutcomeEarned
        <3>2. Candidates \subseteq {Gates[i].operation : i \in 1 .. Len(Gates)}
            <4>1. /\ Gates[3].operation = "submission" /\ 3 \in 1 .. Len(Gates)
                  /\ Gates[9].operation = "answer" /\ 9 \in 1 .. Len(Gates)
                BY DEF Gates
            <4> QED BY <4>1 DEF Candidates
        <3>3. truth.fails \subseteq {Gates[i].operation : i \in 1 .. Len(Gates)}
            BY <2>1, <3>2, TroublesAssumption DEF Truths
        <3>4. truth.fails = {}
            BY <3>1, <3>3 DEF Failing
        <3> QED BY <3>1, <3>4 DEF Supported
    <2> QED BY <2>2, <2>3 DEF VerdictIsEarned
<1> QED BY <1>1, EvaluationInvariant, PTL

(* What a Job has written is only removed when the collected trial holds it,
   whatever call is lost and wherever the controller dies: no paid review
   disappears unmerged.                                                     *)
THEOREM ReviewsAreKept == Spec => NoReviewIsLost
<1>1. ASSUME EvInv, Next, NEW f \in Files, out[f] # None, out'[f] = None
      PROVE  trial[f] # None /\ trial[f].run = out[f].run
    <2>1. EvInv'
        BY <1>1, NextPreserves
    <2>2. CASE ClearsOutput \/ RemovesOutput
        <3>1. Merged(f)
            BY <1>1, <2>2 DEF EvInv, MergeKept, FinalizerPlaced, ClearsOutput, RemovesOutput
        <3> QED BY <1>1, <3>1 DEF Merged
    <2>3. CASE Boots
        <3>1. out = NoFiles
            BY <1>1, <2>3 DEF Boots, EvInv, OneRun
        <3> QED BY <1>1, <3>1, NoFilesTyped
    <2>4. CASE Skips \/ Renders \/ AssessmentFails \/ AttemptPasses \/ JobCompletes
        <3>1. PICK g \in Files, c \in Evaluations \cup Reviews : Written(out, g, c, out')
            <4>1. CASE JobCompletes
                <5> DEFINE b == AllComplete(Required)
                           r == [Base EXCEPT !.required = b]
                <5>1. Only \/ trial[Results] # None
                    BY <1>1, <4>1 DEF JobCompletes, EvInv, ResultsTrue
                <5>2. b \in BOOLEAN
                    BY DEF AllComplete
                <5> HIDE DEF b
                <5>3. r \in Evaluations
                    BY <1>1, <5>1, <5>2, BaseTyped DEF Evaluations
                <5>4. Written(out, Results, r, out')
                    BY <4>1 DEF JobCompletes, Written, b
                <5> HIDE DEF r
                <5> QED BY <5>3, <5>4, FilesApart
            <4>2. CASE AttemptPasses
                <5> DEFINE r == [run |-> job.run, status |-> "complete"]
                <5>1. r \in Reviews
                    BY <1>1, JobFields DEF Reviews
                <5>2. Written(out, ReviewOf(Current), r, out')
                    BY <4>2 DEF AttemptPasses, Written
                <5>3. ReviewOf(Current) \in Files
                    BY <1>1, <4>2, CurrentNamed, FilesApart DEF AttemptPasses, Reviewing
                <5> HIDE DEF r
                <5> QED BY <5>1, <5>2, <5>3
            <4>3. CASE Skips \/ Renders \/ AssessmentFails
                <5>1. PICK st \in {"complete", "failed", "skipped"} : out' = Says(Current, st)
                    BY <4>3 DEF Skips, Renders, AssessmentFails
                <5> DEFINE r == [run |-> job.run, status |-> st]
                <5>2. r \in Reviews
                    BY <1>1, JobFields DEF Reviews
                <5>3. Written(out, VerdictOf(Current), r, out')
                    BY <5>1 DEF Says, Written
                <5>4. VerdictOf(Current) \in Files
                    BY <1>1, <4>3, CurrentNamed, FilesApart
                    DEF Skips, Renders, AssessmentFails, Reviewing
                <5> HIDE DEF r
                <5> QED BY <5>2, <5>3, <5>4
            <4> QED BY <2>4, <4>1, <4>2, <4>3
        <3>2. out'[f] = out[f] \/ out'[f] = c
            <4>1. out \in [Files -> Reviews \cup Evaluations \cup {None}]
                BY <1>1, JobFields DEF Contents
            <4> QED BY <3>1, <4>1 DEF Written
        <3> QED BY <1>1, <3>2, NoneAssumption
    <2>5. CASE UNCHANGED out
        BY <1>1, <2>5
    <2>6. out' = out \/ ClearsOutput \/ RemovesOutput \/ Boots \/ Skips \/ Renders
            \/ AssessmentFails \/ AttemptPasses \/ JobCompletes
        BY <1>1 DEF Next, Job, JobBreaks, Finalizer, Dies, Prepares, AttemptFails, Tick,
            JobPastDeadline, Begins, AppliesPolicy, FindsNoJob, FindsJobFailed, JobFailed,
            FindsJobLive, LooksAtPods, CreatesJob, FindsJobComplete, FindsResults, MergesFile,
            WritesReport, DeletesJob, DeletesPolicy, Decides, Unanswered, Fails
    <2> QED BY <2>2, <2>3, <2>4, <2>5, <2>6
<1>2. EvInv /\ [Next]_vars =>
        [\A f \in Files : out[f] # None /\ out'[f] = None =>
            trial[f] # None /\ trial[f].run = out[f].run]_vars
    BY <1>1
<1> QED BY <1>2, EvaluationInvariant, PTL DEF Spec, NoReviewIsLost
=============================================================================
