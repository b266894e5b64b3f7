# Brunner: TLA+ models, model checking and proofs

Brunner runs benchmark campaigns of coding agents on Kubernetes. A campaign is a list
of trials; a controller Pod drives each of them from a Job that runs the agent, over the
collection of its artifacts and their trusted evaluation, to a published result. The
controller keeps nothing but `campaign.json` and a few ConfigMaps, every call to the
cluster may be refused or lose its answer, and every process may die anywhere. This
directory models what has to survive that, checks it with TLC and proves the most
important part of it with TLAPS. Every definition is translated from `src/brunner/`;
`PROJECT.json` ("map") names the lines. `docs/failure-model.md` is the normative list of
failures, `docs/architecture.md` and `docs/integration.md` state the promises quoted
above the properties.

    tlc -config MCTrialRetained.cfg MCCampaign.tla      # a run: see "Runs"
    tlapm CampaignProofs.tla                            # the proofs of a module

## 1. Inventory of the system

| Part | Source | State it keeps | Operations | Correct when |
|---|---|---|---|---|
| Campaign engine | `campaign.py` | `campaign.json`: per trial a phase, the backend handle, attempt counters, pipeline summary, outcome | `advance` (submit, restart, continue, reconcile, admit), `request_continuation` | no workload is duplicated or lost, no evidence is lost or judged when stale, every trial settles |
| Kubernetes backend | `backends/kubernetes.py` | the cluster: Jobs, PVCs, collection Jobs; `backend/kubernetes.json` | `submit`, `restart`, `inspect`, `terminate`, `logs`, `collect`, `cleanup`, `capacity` | repeating a call whose answer got lost adopts what it did |
| Controller lock | `cluster.py` `ConfigMapLock` | a lock ConfigMap, `_last_success`, `_lost` | acquire, renew, `assert_held` | one controller at a time, a dead holder is replaced |
| Continuation mailbox | `cluster.py`, `campaign.py` | a ConfigMap with a list of requests; `entry["continuations"]` | `continue_trial`, `_process_continuation_request` | no request lost, none carried out twice, replies are true |
| Controller process | `cluster.py` `run_cluster_controller`, `prepare_cluster_campaign` | the result tree, its manifest, the annotation and the status ConfigMap that name it | take a request, gate, advance, finalise, annotate, report | the published identity is the one of the tree |
| Artifact collection Job | `backends/remote.py`, `artifacts.py` | `collected/<id>`, its `.partial`, inventory and summary | list, copy, verify, rename | the copy is the volume's content |
| Result publication | `cluster.py` `publish_trial_results`, `finalize_result_bundle` | `trials/<id>` and its `.partial` on the results PVC | select, copy, prune, record, replace | the published result is complete and the current one |
| Trial runner | `runner.py`, `agent_cli.py`, `pipeline.py` | `status.json`: attempts, deadline, retry boundary, session, continuation | attempts with backoff, finalization, resume, continuation | attempts and time are bounded, waits and sessions are kept, a result stands |
| Evaluation and assessment | `evaluation.py`, `assessment.py`, `cluster.py` `KubernetesEvaluationFinalizer` | results of a trial, one Job, its output directory | evaluate, create, poll, merge, delete | only the candidate's failures are its own; no finished review is lost |
| Archive transfer | `archive_transfer.py`, `archive.py` | `.brunner-part` files, journal of a restore | need, append, ack, publish, complete | an interrupted stream resumes where it was, nothing is overwritten |
| Campaign client | `cluster.py` `ClusterCampaignClient` | the local archive, its staging directory and backup | submit, status, sync, continue, retire | nothing is deleted before it is archived |
| Trial staging | `backends/remote.py`, `staging.py`, `trial.py` | the trial's volume before the workload | copy, verify | |
| Timing | `timing.py`, `activity_cli.py` | activity log | merge, pair, partition intervals | the parts add up to the whole |
| Declarative input | `definition.py`, `contract.py`, `submission.py`, `reference.py`, `runtime_protocol.py` | digests | validate | |
| Container backend, providers, rendering, CLI, helpers | `backends/{container,squid}.py`, `providers/`, `dashboard.py`, `report.py`, `usage.py`, `cli.py`, `io.py`, `hashing.py`, `errors.py` | none | | |

The controller process takes the lock, and its main thread then alternates between one
continuation request, `advance()` and the finalization of the result tree. `advance()`
calls the backend, the evaluation finalizer and the publisher, each wrapped in fences
(`assert_held`). Laptops write to the mailbox ConfigMap, stream archives into a helper
Pod and read the results PVC through one. The runner is the process inside the workload
Job; the engine only sees its exit, its termination summary and, after the collection,
its `status.json`.

What is hard: an answer that is lost after the side effect; a crash between a side
effect and the save that records it; a step repeated after it half succeeded (restart,
cleanup, publication, restore, merge); phases, counters and generation numbers that
several branches maintain; a lock that expires while its holder is slow; files that are
read while somebody replaces them; a stream that breaks anywhere; deadlines inside
deadlines. `PROJECT.json` ("hazards") lists them at their lines with the properties that
look for them.

## 2. Modules

| Module | Models |
|---|---|
| `TrialCluster` | what exists outside the engine for one trial, and for every backend call the set of (answer, effect) pairs it can end with |
| `CampaignEngine` | `advance()` and `request_continuation`, crashes, the world around them |
| `CampaignProperties` | the properties of the engine, its fairness, the refinement mapping |
| `TrialCustody` | abstract specification: what a campaign promises for the evidence of a trial |
| `ControllerLock` | the lock, with discrete time |
| `ContinuationMailbox` | the requests of several commands about one trial, from the ConfigMap to `campaign.json` |
| `TrialRunner` | the process in the workload Pod over several Pods, with discrete time |
| `ResultPublication` | collection Job, poll, publication and continuation of one trial, file by file |
| `TrialEvaluation` | evaluator, assessment Job, finalizer and outcome of one trial |
| `ResultArchive` | the controller's loop over the result tree, `sync` and `retire` |
| `ArchiveRestore` | `submit --resume-from`: client, stream, receiver, preparation, a competing submission |
| `MCCampaign`, `MCLock`, `MCMailbox`, `MCRunner`, `MCPublication`, `MCEvaluation`, `MCArchive`, `MCRestore` | values of the constants for TLC |
| `CampaignProofs` (engine, backend calls, refinement of `TrialCustody`), `LockProofs`, `MailboxProofs`, `RunnerProofs`, `PublicationProofs` (also steps of `TrialCustody`), `EvaluationProofs`, `ArchiveProofs`, `RestoreProofs` | theorems |

The modules meet where one component sees another: `CampaignEngine` takes what a Job
leaves from the classes of `TrialRunner!Told`, what a collection or publication leaves
from the end states of `ResultPublication`, and a decided evaluation from
`TrialEvaluation`; `ResultArchive` lets the engine make any progress that changes
`campaign.json`. Each lower module checks in detail what the upper one takes for one call.

### CampaignEngine and TrialCluster

The state of a trial is in three places: `disk` is its entry in `campaign.json`, `mem`
the entry the running `advance()` works on, `site` what the cluster, the control PVC and
the results PVC hold. `ctl` is the program counter of `advance()`: the pass, the trial
under the loop and the external call in flight. An action runs from the return of one
external call to the next call, so that it contains exactly one decision of the code, the
assignments that follow from it and the saves in their order:

| Code | Actions |
|---|---|
| `_initialize`, start of `_advance` | `StartAdvance` (with `Recovered`) |
| `_submit_entry` in the submit and admit passes | `BeginSubmit`, `SubmitReturns` |
| `_restart_infrastructure_entry` | `BeginRestart`, `RestartReturns`, part of `InspectReturns` |
| `_restart_continuation_entry` | `BeginContinue`, `ContinueReturns` |
| reconcile: inspection, deadline, logs | `BeginInspect`, `InspectReturns`, `TerminateReturns`, `LogsReturn` |
| `_collect_and_evaluate` | `BeginCollect`, `CollectReturns`, `BeginEvaluate`, `EvaluateReturns` |
| `_publish_and_cleanup`, `_cleanup_entry` | `BeginPublish`, `PublishReturns`, `BeginCleanup`, `CleanupReturns` |
| capacity and admission, aggregation | `NextPass`, `AskCapacity`, `CapacityReturns`, `FinishAdvance` |
| `_pause_connectivity` | `Paused` in every action above that can lose an answer |
| death and replacement of the process | `Crash`, `ControllerRestarts` |
| workload and collection Jobs, retry clocks, faults | `JobFinishes`, `TransferFinishes`, `RetryTimeArrives`, `JobLoss`, `StorageLoss` |

A backend call is atomic here, but its result is any prefix of its kubectl commands, the
last of which may have taken effect without an answer. Nothing but the cluster itself
runs concurrently with one call, and the cluster's own steps (Jobs ending, storage
disappearing) commute with the prefix. `Crash` also lets the call in flight take any such
effect. `Work` is the three classes `summarize_pipeline_state` tells apart: a provider
result, a provider error and everything else. Attempt counters stop at their limit,
because the code only compares them with it; the generation numbers `infra` and `cont`
name the Jobs and are exact. What the pod leaves in `status.json` may change under a
terminal state, since `agent_cli.main` rewrites the status on a signal or a failure.

### ControllerLock

A lock attempt is a `get` and a `replace`, with the decision between them; `call`,
`timer` and `current` follow the attempt of each Pod, `since` is the age of
`_last_success`, `age` the age of the recorded `renewed_at`. `Tick` lets time pass but not
beyond the end of a kubectl call (`command_timeout_seconds`) or the pause of the renewal
thread. `Skew` is the distance of two wall clocks. `lost` is `_lost`; `Fence` is the
`assert_held` that ends the main thread, at any later time.

### ContinuationMailbox

`requests` is the list in the ConfigMap. A reader's version is `fresh` until anybody
replaces the list. `replaced` is a replace that took effect and whose answer is still
out: the code sees any failure of kubectl as `False`. `history` is
`entry["continuations"]`, `resumable` stands for the checks of `request_continuation`
that depend on the state of the trial.

### TrialRunner

`disk` is `status.json`, `mem` the `state` of the running process, `pod.at` its program
counter from the continuation preparer over the attempt loop to `main`'s last write.
`prov` is the process group (its leader, its other processes, the activity it declared)
and what was read from it; `watch` holds the two timers of `run_attempt`'s polling loop
and the reason it ended for. `Verdict` is the order of that loop's tests, and the actions
`FindsTampering` to `RetriesLater` are the tests that follow it, in their order. What a
provider writes is free: any terminal record, at any time, also none. `Killed` removes the
Pod anywhere, `Signal` sets `received_signal` anywhere, `HarnessFails` is an exception at
any point that writes and (`Unreadable`) at any that reads what the provider left: before the
launch, in every pass of the polling loop, in the judgement and in the accounting after the
terminal save (`account`). Out of the polling loop it passes by `terminate_process`, so the
provider goes on beside `main` until the container ends with it (`Exits`). `cap` is `max_attempts` in `metadata/agent-run.json`, which a
continuation rewrites after `status.json`; `torn` records a death between the two.

### ResultPublication

A file is its version: a staged file is 1, generation *g* writes *g* + 1. `copy`,
`fresh`, `inventory` and `summary` are `collected/<id>`, its `.partial`, and the two files
beside it; `results` and `next` are `trials/<id>` and its `.partial`. `Torn` is a tree of
which an interrupted `rmtree` left a part. The Job and the controller interleave at every
file operation; `Continues` is what a continuation does to the copy.

### TrialEvaluation

`truth` is drawn once: whether the provider left a result, which of `execute_evaluation`'s
operations (`Gates`, in their order with the domain in force) fail, and how the Pod ends.
`out` is the output directory of the assessment Job, `trial` the collected trial it is
merged into file by file (`MergesFile`), `fin` the finalizer's place. Every file carries
the number of the run that wrote it, so that outputs of two runs cannot be confused.
`job.age` runs against `activeDeadlineSeconds`, `job.spent` against `timeout_seconds`.
`Unanswered` is a kubectl call without an answer, `Dies` the controller's death; both may
leave the effect of the call in flight.

### ResultArchive

`control.rev` counts the versions of `campaign.json`; a manifest is its content, in the
place of its SHA-256. `tree` is the results PVC, `note` the manifest its annotation names,
`status` the status ConfigMap. The client's actions are the steps of `sync` and, after it,
of `retire`; a file is fetched chunk by chunk (`FetchesChunk`) while the controller may
replace it, and the swap of the local archive is three separate steps.
`ControllerStopped` and `ClientStopped` also stand for a kubectl command that fails, since
neither process survives one.

### ArchiveRestore

`up` and `down` are the two directions of the exec stream, with the messages of the code
(begin, need, append or restart, chunk, ack, done, complete, error). The receiver and the
client each have a program counter. When the stream breaks (`Breaks`) the receiver gets
any prefix of what was under way and goes on until it writes to the stream or times out;
a new one is refused while it holds the lock. The rest of the module is what may happen
beside it: a plain submission (`PlainChecks`, `PlainDeploys`), the preparation Job and a
controller that writes its own files.

## 3. Runs

| Run | Instance | Shows |
|---|---|---|
| `MCTrialRetained` | 1 trial, retention, 1 restart, 1 continuation, attempts 2, all faults; 0.9 million states | never two live Jobs; every live Job is found again after a crash; judged evidence is final; phases are saved before launches; decided outcomes stay; refinement of `TrialCustody` |
| `MCTrialReleased` | 1 trial, no retention, 1 restart, 1 continuation, all faults but deadlines, fair; 0.1 million | storage is released after publication; complete trials are clean; one Pod per generation; every trial settles; every cleanup is finished |
| `MCTwoTrials` | 2 trials, 1 slot; 2.7 million | `max_parallel`; evaluation goes first; terminal status only when all is settled |
| `MCLock` | 3 Pods, duration 3, interval 1, timeout 1, skew 1, fair; 90 thousand | leases exclude each other; staleness is bounded; no early takeover; the lock of a dead controller is taken over |
| `MCMailbox` | 2 commands, 2 tries, fair; 73 thousand | no request lost, one generation each, true replies; every request is decided |
| `MCRunner` | 3 Pods, 3 attempts, 1 continuation, timeout 3 with a finalization window of 1, backoff 1 to 2, kills, signals, failing writes, unreadable output, fair; 0.6 million | budgets, waits, sessions and results survive the Pods; the provider is contained; every Pod ends |
| `MCPublication` | 3 files (staged and changed, staged and unchanged, made), size limit 2, 1 continuation, 1 Job failure, 2 crashes; 0.15 million | the published files are the last versions; a whole publication always exists |
| `MCEvaluation` | 2 assessments (one required, one that also runs without an evaluation), 2 attempts, 1 fault, 1 death, fair; 0.7 million | verdicts are earned; finished reviews are merged before they are deleted; every evaluation ends |
| `MCArchive` | 3 versions of `campaign.json`, 2 chunks, 1 continuation, each side stops once, fair; 0.9 million | the archive is a snapshot; it never goes back; retirement only after the last state; commands end |
| `MCRestore` | 2 files, one of 2 chunks, 2 connection attempts, faults without end, 1 plain submission, an appended trial, fair; 76 thousand | nothing is overwritten; only whole campaigns are prepared; submissions end |
| `MCRestoreRepeated`, `MCEvaluationOptional` | as small as the case allows | see "Findings" |

Why the bounds are enough. The engine handles trials independently except for
admission, aggregation and the pause, which two trials and one slot exercise; everything
about one trial is checked with one trial and all faults. One restart tells "first" from
"another" and, with the budget of 1, reaches the limit. Attempt limits of 2 give one retry
and one exhaustion. The lock's quantities are only compared and added, so small numbers
with duration = 3 * interval, as in the code, reach every order of events; `Horizon` is
above every sum the code compares. Three Pods are the holder, its replacement and a third
that competes. Two commands race each other and the controller; with two tries one
conflict and the exhaustion are reached (the code tries five times).

The runner's times are only compared and added, too: a timeout of 3 leaves room for two
attempts, a wait inside the phase, one that crosses into the finalization window and one
the deadline ends. Three Pods allow a kill or signal in the first generation, a
continuation, and a restart of the continuation. Three attempts make the old budget larger
than that of a continuation after one, which is what a torn preparer leaves. A Pod that was
killed is replaced at once (`Horizon` 0): time that passes without a Pod is only seen by the
next one, like time that passed before the kill. The publication needs one file of each
kind (`Staged`, `Made`, and a limit that one more transfer exceeds), and a second crash to
hit the recovery of the first. Three versions of `campaign.json` let the controller change
the tree twice during one `sync`: once to start a transfer over, once more to leave mixed
chunks. In `MCRestore` a stream may break at every message for ever (`Endless`), which is
why the retry budget, not the fault bound, has to end a submission. In `MCEvaluation` one
fault and one death reach every pair of a lost answer and a repeated run.

Runs whose system really stops switch the deadlock check off: when all commands have
ended and all requests are decided (`MCMailbox`), when the bound on Pods is reached
(`MCRunner`), when the trial is published or its bounds are used up (`MCPublication`,
`MCEvaluation`), when the campaign is retired (`MCArchive`) or its controller runs with
nothing left to write (`MCRestore`). All other runs check for deadlock.

### Fairness

* Engine (`CampaignProperties!Fairness`): the controller is one thread, and its Deployment
  restarts it (weak fairness of its step). Jobs, collection Jobs and retry clocks end
  (deadlines; weak). The backend has room, reviews end and deletions succeed if they are
  asked for again and again (strong). Crashes and outages of the API come to an end: during
  an outage the documented behaviour is to wait.
* Lock: time passes, processes go on and are restarted; from some time on no process dies
  and an attempt only fails because of the lock's state.
* Mailbox: the controller goes on; from some time on it does not die and its replace fails
  only on a conflict.
* Runner: the process goes on (weak) and time passes (strong, since polling may disable a
  tick in between). No exception is owed but one that is certain (`Unfit`). Nothing is assumed of the provider, which may hang for ever.
* Evaluation: the Job and time go on, the engine calls the finalizer again (both weak).
  Nothing is assumed of reviewers; the Job's deadline ends them.
* Archive: the controller's loop and the client's command go on (weak).
* Restore: client, receiver, preparation and the end of a stream without a receiver (weak).
  The network owes nothing: faults need not end.

### Findings

Each is a run in which TLC reaches what the documentation excludes.

1. `MCRestoreRepeated`: after any restore the preparation rewrites the control state, since
   `_initialize` always saves (`cluster.py:2068`, `campaign.py:811`); with appended trials it also
   removes `manifest.json` and `campaign.json` from the results PVC (`cluster.py:2045-2050`). If `submit` then fails before the Deployment is applied, repeating
   the same `--resume-from` is refused for ever (`archive_transfer.py:408-416`), and the
   helper Pod that stays behind also blocks a plain `submit` (`cluster.py:2646`).
2. `MCEvaluationOptional`: the assessment Job's `activeDeadlineSeconds` counts every
   `timeout_seconds` once, but prepare, review and render of an assessment may each use it
   up, because nobody passes the `deadline_epoch` that `assessment.py:1433` is written for.
   Slow *optional* assessments then fail the Job and the trial asks for attention.

### Observations

Behaviour met while modelling that differs from what a document says or surprises,
contained in the models but not the question of a run:

* A continuation can pay for a new session (`runner.py:1729`; `architecture.md:518-519`). The
  preparer dies between `status.json` and `agent-run.json`, so the staged budget stays the old
  one; an infrastructure restart, which carries no request, launches under it; the provider has
  lost the session, which ends the trial and clears `session_started`; and SIGTERM while the
  runner leaves replaces that status by `interrupted`. If the old budget has an attempt left,
  the next restart launches without a session. It takes four Pods; `SessionKept` excludes it by
  `torn`; without that conjunct TLC finds it with three attempts and more than three Pods.
* An exception that leaves `run_attempt`'s polling loop passes by `terminate_process`
  (`runner.py:821`; only `process_started`, 727-731, is guarded). `terminal_success_ready`
  (1570-1588) catches `OSError` alone, but a submission manifest or run status that is not UTF-8
  raises `UnicodeDecodeError` (`submission.py:151`, `168`), as a transcript that begins with `[` and
  is no JSON raises `JSONDecodeError` (`usage.py:224`). `main` then saves `provider_error` and
  writes the termination summary while the provider's group is alive (`agent_cli.py:168-225`;
  `architecture.md:373-377`, `integration.md:419-421`); and the attempt gets no corrective
  continuation (`integration.md:416-419`). `ProviderContained` shows how far it goes: until the
  container ends, and never beside a result. Control files the provider may have changed by then
  are not restored, which the model leaves out.
* The same exceptions in the accounting after the terminal save (`runner.py:1304-1335`) replace
  a recorded result by `provider_error`, for instance when the first attempt was killed with its Pod
  after a transcript that begins with a line `[...`: it stays the beginning of
  `transcript/events.jsonl`, and the result of a later attempt is overwritten. It is the second of
  the two exceptions `ResultStands` names.
* The first deadline of a trial schedules a restart without charging it and asks for
  generation 0, which `restart()` refuses (`campaign.py:2742`, `kubernetes.py:2416`; compare
  `integration.md:1141-1144`). After a charged restart the same step launches the generation
  that ran last a second time, so `OnePodPerGeneration` is checked without deadlines.
* The `publication_pending` branch does not catch lost connectivity in the cleanup, which
  leaves `advance()` as an exception (`campaign.py:2604`; `failure-model.md:5-6`).
* A restart that cannot be configured saves `attention_required` and goes on collecting, which
  overwrites it (`campaign.py:2768`; `architecture.md:604`).
* A continuation is accepted although the PVC is gone (`campaign.py:666`; `integration.md:815-817`).
* A repeated cleanup takes the Job it deleted itself for a failed one and retains the PVC of
  a successful trial (`kubernetes.py:3738`; `architecture.md:499-500`).
* A slow holder goes on reconciling after the lock was taken over (`cluster.py:1182`;
  `failure-model.md:74`). For how long is what `StaleIsBounded` bounds.
* A request whose continuation runs is reported as rejected when only the backup of
  `campaign.json` could not be written (`cluster.py:1317`; `BackupFails` in the mailbox).
* `replace()` reports every failure of kubectl as a conflict, so a command whose replace took
  effect without an answer appends its request again, or ends with "changed concurrently;
  retry the command" although the request is stored. `OneGenerationPerRequest` holds in spite
  of the first; the second makes the retry a new request.
* A controller that dies between writing the manifest and annotating the PVC never annotates
  it afterwards: the terminal gate (`cluster.py:2366-2390`) and the reuse of a finished bundle
  (`2400-2411`) both go past it, and `sync` compares with the older annotation for ever.
* A full-size `.part` of an older file version fails its checksum on every attempt and is never
  removed (`cluster.py:3198`), so `sync` fails until somebody deletes the staging directory; a
  client that dies inside `rmtree(backup)` leaves a backup that every later `sync` refuses
  (`cluster.py:3269`).
* `retire` takes two missing PVCs for a finished retirement although the other resources remain
  (`cluster.py:3595-3620`; `failure-model.md:148`).
* `collect()` may take the old inventory and summary for those of a new copy that the Job has
  just renamed into place (`kubernetes.py:3574`); `PublishedIsCurrent` says which files the
  publication may then lack.
* A failure to write the run report asks for attention (`cluster.py:1986`), although "Reporting is
  presentation only and cannot control cleanup or outcome" (`failure-model.md`); the local path
  catches it (`evaluation.py:684`).
* An I/O error while the submission is read is attributed to the candidate (`evaluation.py:279`);
  `MCEvaluation` leaves this operation ("reading") out of `Troubles`.
* A lost answer to deleting the assessment Job, or a crash before the decision is saved, repeats the
  whole Job with its paid reviews.

## 4. Proofs

The theorems hold for every number of trials, Pods, commands and files and all limits and
durations; the assumptions are the named ASSUMEs of the modules (limits are positive
naturals, `Nobody` is no Pod, ...), which TLC evaluates in every run.

* `CampaignProofs` begins with the lemmas about the backend calls: each returns a well-formed
  site and starts no Job but the one it is asked for (`Faithful`, `StartsOnly`). Four inductive
  invariants follow, each relative to the ones before it, with one lemma per action.
  * `IInv`: the types; a submission of the admit pass has a slot left; the first three passes walk
    over saved entries, and an inspection belongs to the reconcile pass (`WalkSaved`); and while a
    call that starts a workload is in flight, memory and `campaign.json` agree and hold the phase
    of that call (`LaunchSaved`). Types alone are not inductive: a slot is given back where it was
    taken, and a restart only finds its generation among `JobNames` because it was charged below
    the limit. `TypeCorrect` and `PhasesBeforeSideEffects` (a launch is one the saved entry
    authorizes) follow.
  * `WInv`: `NoDuplicateWorkload` (`OneLiveJob`) and `NoLostWorkload` (`LiveJobTracked`) need each
    other, because a restart deletes only the Job its entry names, and more: the Jobs of
    generations that were not charged yet do not exist; while a trial waits for a restart or a
    continuation, its replacement exists only if nothing else runs (`Replaces`), so that a
    repeated restart may adopt it; and what the engine read before a call is still true at its
    answer: a call about a handle finds at most that Job running, a restart decided by an
    inspection finds none (`CallTracks`). `Tracks` is stated for `mem` and for `disk`, since a
    crash puts one in the place of the other.
  * `EInv`: memory is ahead of `campaign.json` only by what an inspection tells
    (`MemoryCurrent`), so that a crash forgets nothing about the evidence. What the storage, the
    collected copy and the published copy must be is then a function of the saved phase
    (`Evidence`) and of the call in flight (`CallEvidence`): before the first collection there is
    no copy, while artifacts are collected nothing runs and a copy is the final one, and a volume
    is released only under a published, decided trial. Each action is shown to preserve the
    invariant and to make only `Fine` moves of a trial (`Upheld`); that one statement gives the
    invariants `EvidenceIsFinal`, `ReleasedAfterPublication` and `CompleteIsClean`, the action
    property `OutcomeIsFinal`, and `CustodyIsKept`: every step of the engine is a step of
    `TrialCustody` or a stutter.
  * `AInv`: a place of `max_parallel` is taken from the save of `submitting` until the engine knows
    that the workload has ended, so the places taken in `campaign.json` by trials that were never
    continued, and those taken in memory with the slots left, stay within `max_parallel`
    (`Parallel`; a continuation starts its Job without asking for a place); slots are only given
    out while no trial waits for collection or evaluation (`Admission`); the saved status says what
    the saved entries are (`Settled`); an entry about to start a generation does not name it as its
    workload (`Sound`). It gives `EvaluationFirst` and `AdmittedBounded` without a hypothesis; the
    latter bounds the workloads of trials that were never continued, whatever runs beside them.
    Three theorems have one hypothesis each, which is necessary. `ParallelBounded` is
    `AdmittedBounded` for `MaxContinuations = 0`, where it bounds all workloads.
    `EachJobStartsOnce` assumes that no deadline passes (`"overdue"` not in `Faults`): the restart
    it asks for repeats a generation (see Observations). `TerminalOnlyWhenSettled` assumes that a
    pause is not reported as `attention_required` (`PauseStatuses`), which is a status with trials
    still on their way. The runs of these properties have these values of the constants.
* `LockProofs`: `LockInv` says that calls and pauses keep their deadlines, how old a lease may be
  in each part of an attempt, that a replace that can still land was decided on an expired lock or
  on one's own, and that a lease lasts as long as the lock cannot look expired. It gives
  `ExclusiveLease`, `BoundedStaleness` and `TakeoverAfterExpiry`.
* `MailboxProofs`: `MailInv` says that a fresh version is the current list, and that the
  request under work is still in the list and undecided; from it `NoRequestLost` and
  `OneGeneration`. `Truth` (what is accepted is in the history, what is in the history was not
  only rejected) gives `TruthfulReplies`, under the assumption that the backup write does not
  fail; with `BackupFails` it is false.
* `PublicationProofs`: `PubInv` follows a file from the volume to the results: the Job lists and
  copies only when no usable copy is there (`Replacing`); its list, a finished copy and, in the
  first generation, the inventory beside it are those of the unchanged volume (`Collected`); what
  a publication selects, stages and records is that version or may be missing, and the old
  results are only removed once the staged tree is listed (`Publishable`). `PublishedIsCurrent` is the last
  conjunct for a complete trial; `PublicationSurvives` needs the ones before it, since a crash may
  come between any two of them. Both hold for any files, limits, continuations and faults.
  `PublicationKeepsCustody` joins the two levels: the engine publishes a trial in one step, and
  every step of the detailed collection, publication and continuation is again a step of
  `TrialCustody` (from where custody has launched the trial; there is no launch or release in this
  module), so that what the engine takes as one step is not weaker than what the files do. "Recorded"
  means here, file by file, what `PublishedIsCurrent` says.
* `RestoreProofs`: `RestoreInv` says that a receiver on file n has verified or published all the
  files before it, that it announces the end only with everything and the control state in place,
  and that the journal says `complete` only then. A cut connection, a dead client and a second
  submission start a receiver from the beginning, where it says nothing, so it survives them.
  `PreparesWholeCampaigns` and `NothingIsOverwritten` follow, for any archive and any faults.
* `RunnerProofs`: `RunInv` says what `status.json` may hold wherever the runner stops (`Sound`):
  the launches are within the budget; a continuation is at most one launch ahead; and if that
  launch is still to come, there is no wait and no result and, unless a preparer was torn, there
  is a session. The staged budget is within the same bounds (`Capped`), every launch is counted in
  it but for those `lost` (`Counted`), and the runner remembers what it saved (`Remembered`), so
  that a kill, a signal or an exception anywhere leaves a sound file, and that a provider left
  alive by one is beside no result: in the polling loop none is on record, and what `main` adds is
  none. The five safety
  properties of the runner need no more: `AttemptsBounded`, `ProviderContained`, `SessionKept`,
  `WaitIsHonoured` and `ResultStands`, for any limits, times, requests and any number of Pods. The
  proof of `SessionKept` is where the observation about torn preparers below `MCRunner`'s bounds
  was found: without `~torn` the invariant is not inductive.

* `EvaluationProofs`: `EvInv` follows a review from the Job that wrote it into the collected
  trial. What the output directory holds is of the run of the last Job (`OneRun`), whose results say
  what the evaluator found and name the required assessments complete only when they are
  (`ResultsTrue`, which needs the order in which a run works: `ReviewsOrdered`); what is not in the
  trial yet is on the list of the merge (`MergeKept`). `ReviewsAreKept` needs no hypothesis.
  `VerdictsAreEarned` assumes that the submission can be read (`"reading"` not in `Troubles`), since
  the code attributes that failure to the candidate (see Observations).
* `ArchiveProofs`: `IInv` says that what a manifest told when it was written stays true unless a
  continuation was accepted since (`Final`), for every manifest that can be read anywhere: in the
  tree, in the annotation, in the status ConfigMap and in the client (`Known`). The tree is ready for
  the next manifest wherever the controller may stop (`Prepared`: a publication that is not due is
  in the tree, `campaign.json` is written before the inventory). The client's archives are snapshots
  no newer than the manifest in the tree, and what it wants is at least as new as what it holds
  (`Synced`); the middle link is that it starts to download only when the tree's manifest *is* the
  one it wants. From the swap on it has an archive or a verified staging directory. This gives
  `ArchiveIsSnapshot`, `NothingIsForgotten` and `RetiresOnlyArchived`, for files of any size, any
  number of versions, requests and stops of either side.

Only model-checked: the liveness properties (`EveryTrialSettles`, `CleanupFinishes`, the takeover of a
dead controller's lock, decided requests, ended commands, Pods, evaluations and submissions), which are
beyond this prover. Every safety property of the passing runs, and the refinement, has a theorem.

## 5. Not modelled

* Of the engine: recovery from `campaign.json.bak`, normalisation of entries of older
  versions, trials added to a running campaign (but see `Appended` in `ArchiveRestore`), the
  pause clock (a pause may be reported as either status), saves that fail (but see
  `BackupFails` in the mailbox), dashboards. The continuation pass starts its Job without
  asking for a slot, so `max_parallel` is checked without continuations.
* Of the backend: manifests, network policies, preflight, capacity arithmetic, identity
  annotations (a foreign PVC or Job).
* Of the lock: a malformed lock ConfigMap, clocks that run at different rates.
* Of the mailbox: requests about several trials in one list, which are decided one by one
  like those about one; `timeout_seconds` and `additional_attempts` (the runner has both).
* Of the runner: usage, activity and timing records, the prompts, the contents of a session; a
  clock that is set back.
* Of the publication: the files the evaluation adds to a copy, hashes of the manifest, quota,
  the resumption of one file at its offset, and the minute in which a collection whose Job has
  completed may not be visible yet (`kubernetes.py:3691-3704`).
* Of the evaluation: schemas, the reviewer's isolation and its baseline of the workspace.
* Of the archive: the dashboards in it, ownership of a local directory, helper Pods' images; of
  the restore, the adoption of files of other releases beyond a partial file of the wrong content.
* The loop of `ResultArchive` is not composed with `ControllerLock`: two controllers that write
  the tree at once, which `StaleIsBounded` leaves a bounded time for, are in neither module.
* The components listed as `not_modelled` in `PROJECT.json`, with the reasons there.

## 6. Plan

1. Done: the engine and its backend, lock, mailbox, runner, publication, evaluation, archive and
   restore, with a theorem for every safety property they are checked for.
2. The controller's loop composed with the lock: two writers of one result tree.
3. Pure algorithms against reference definitions: `timing.py` (interval merging and partition) and
   the staging of a challenge.
