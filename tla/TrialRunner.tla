------------------------------ MODULE TrialRunner ------------------------------
(***************************************************************************)
(* The process inside a workload Pod (src/brunner/agent_cli.py, runner.py,  *)
(* pipeline.py, and the continuation preparer of backends/kubernetes.py):   *)
(* it launches the provider again and again until there is a result, the    *)
(* attempts are used up or the deadline has passed, and leaves all it knows *)
(* in status.json, from which the next Pod of the trial goes on.  A Pod may *)
(* be killed anywhere, get SIGTERM anywhere and fail to write.              *)
(*                                                                         *)
(* Time is discrete.  While the provider runs, or a retry is waited for, a  *)
(* tick only passes when the polling loop has nothing left to do.           *)
(***************************************************************************)
EXTENDS Naturals, FiniteSetsExt

CONSTANTS
    MaxAttempts,    \* runtime.max_attempts, as staged
    Timeout,        \* timeout_seconds
    Finalization,   \* finalization_seconds
    RetryInitial, RetryMax,   \* backoff
    Resets,         \* how long a subscription reset may be away
    Grace,          \* provider_exit_grace_seconds
    Requests,       \* continuation requests
    Windows,        \* ... and the timeouts they may ask for
    None,
    Faults,         \* subset of {"kill", "signal", "write"}
    MaxPods,
    Horizon         \* until when the trial may be without a Pod

ASSUME TimesAssumption ==
    /\ MaxAttempts \in Nat \ {0} /\ Timeout \in Nat
    /\ Finalization \in 1 .. Timeout - 1
    /\ RetryInitial \in Nat \ {0} /\ RetryMax \in Nat /\ RetryInitial <= RetryMax
    /\ Grace \in Nat \ {0} /\ Horizon \in Nat /\ MaxPods \in Nat
    /\ Resets \subseteq Nat /\ Windows \subseteq 1 .. Timeout
ASSUME NoneAssumption == None \notin Nat \union Requests

VARIABLES
    disk,      \* status.json
    cap,       \* max_attempts in metadata/agent-run.json
    pod,       \* the agent's Pod
    mem,       \* `state` of the runner
    prov,      \* the provider's process group and what was read from it
    watch,     \* the timers of the polling loop, and why it ended
    now, pods, \* the clock, and how many Pods there were
    launches,  \* how often a provider process was started
    lost,      \* ... without the checkpoint that counts it
    torn       \* a preparer died between its two writes

vars == <<disk, cap, pod, mem, prov, watch, now, pods, launches, lost, torn>>
files == <<disk, cap>>
ghosts == <<launches, lost, torn>>

Final == {"complete", "failed"}         \* "partial" counts as complete
Terminal == Final \union {"provider_error", "timeout"}

Continuation == [request : Requests, target : Nat, status : {"running", "complete", "failed"}]
ASSUME NoContinuationAssumption == None \notin Continuation
State ==
    [status : Terminal \union {"missing", "pending", "running", "finalizing", "retrying",
                               "interrupted"},
     deadline : Nat, finalizing : BOOLEAN,
     notBefore : Nat \union {None}, backoff : (RetryInitial .. RetryMax) \union {None},
     session : BOOLEAN,                  \* session_started
     response : Final \union {None},     \* final_response
     launched : Nat,                     \* attempts with provider_started
     open : BOOLEAN,                     \* the last attempt is recorded as running
     cont : Continuation \union {None}]

Missing ==
    [status |-> "missing", deadline |-> 0, finalizing |-> FALSE, notBefore |-> None,
     backoff |-> None, session |-> FALSE, response |-> None, launched |-> 0,
     open |-> FALSE, cont |-> None]

(* summarize_pipeline_state: what the Pod tells in its termination log.      *)
Present(s) == s.status \in Final /\ s.response = s.status
Told(s) == IF Present(s) THEN "result"
           ELSE IF s.status \in {"timeout", "provider_error", "interrupted"} THEN s.status
           ELSE "incomplete"

Places == {"gone", "prepare", "prepared", "boot", "loop", "wait", "launch", "mark", "run",
           "judge", "artifacts", "account", "cli", "summary"}
Pod ==
    [at : Places, request : Requests \union {None}, window : Nat, stop : BOOLEAN,
     told : {"none", "killed", "refused", "result", "timeout", "provider_error",
             "interrupted", "incomplete"}]
Gone(told) == [at |-> "gone", request |-> pod.request, window |-> pod.window, stop |-> FALSE,
               told |-> told]

Provider ==
    [leader : BOOLEAN, others : BOOLEAN,   \* alive in the process group
     work : BOOLEAN,                       \* declared activity that has not ended
     terminal : {"none", "succeeded", "failed"},
     ready : BOOLEAN,                      \* terminal_exit_ready
     substituted : BOOLEAN]                \* another model answered
Silent == [leader |-> FALSE, others |-> FALSE, work |-> FALSE, terminal |-> "none",
           ready |-> FALSE, substituted |-> FALSE]
Alive == prov.leader \/ prov.others

Reasons == {"none", "model", "prompt", "grace", "stop", "deadline", "empty", "soft"}
Watch == [idle : Nat \union {None}, quiet : BOOLEAN, reason : Reasons, aborted : BOOLEAN]
Fresh == [idle |-> None, quiet |-> FALSE, reason |-> "none", aborted |-> FALSE]

TypeOK ==
    /\ disk \in State /\ mem \in State /\ cap \in Nat
    /\ pod \in Pod /\ prov \in Provider /\ watch \in Watch
    /\ now \in Nat /\ pods \in Nat
    /\ launches \in Nat /\ lost \in Nat /\ torn \in BOOLEAN

Init ==
    /\ disk = Missing /\ mem = Missing /\ cap = MaxAttempts
    /\ pod = [at |-> "gone", request |-> None, window |-> Timeout, stop |-> FALSE,
              told |-> "none"]
    /\ prov = Silent /\ watch = Fresh
    /\ now = 0 /\ pods = 0
    /\ launches = 0 /\ lost = 0 /\ torn = FALSE

GoesTo(at) == pod' = [pod EXCEPT !.at = at]
Saves(s) == mem' = s /\ disk' = s

-----------------------------------------------------------------------------
Continues(s, r) == s.cont # None /\ s.cont.request = r

(* The backend starts a Pod: for the first time, as an infrastructure restart,
   again after it disappeared, or for a continuation of a provider error.    *)
PodStarts(request, window) ==
    /\ pod' = [at |-> IF request = None THEN "boot" ELSE "prepare", request |-> request,
               window |-> window, stop |-> FALSE, told |-> "none"]
    /\ pods < MaxPods /\ pods' = pods + 1
    /\ UNCHANGED <<files, mem, prov, watch, now, ghosts>>

StartsPod ==
    /\ pod.at = "gone"
    /\ \/ /\ pod.told \in {"none", "killed", "refused", "interrupted", "incomplete"}
          /\ PodStarts(None, Timeout)
       \/ /\ pod.told = "killed" /\ pod.request # None
          /\ PodStarts(pod.request, pod.window)
       \/ /\ disk.status = "provider_error" /\ pod.told = "provider_error"
          /\ \E r \in Requests, w \in Windows :
                /\ ~Continues(disk, r)
                /\ PodStarts(r, w)

(* prepare_trial_continuation, and the preparer, which decides the same.     *)
ReopensAny(s, r) ==      \* mutant: with or without a session
    IF Continues(s, r) THEN ~(s.status \in Terminal /\ s.launched >= s.cont.target)
    ELSE s.status = "provider_error" /\ s.response = None /\ s.launched >= 1
ReopensFinished(s, r) == \* mutant: whatever came of the continuation
    Continues(s, r) \/ (s.status = "provider_error" /\ s.response = None
                        /\ s.session /\ s.launched >= 1)
MayReopen(s, r) ==
    IF Continues(s, r) THEN ~(s.status \in Terminal /\ s.launched >= s.cont.target)
    ELSE /\ s.status = "provider_error" /\ s.response = None
         /\ s.session /\ s.launched >= 1
Reopened(s, r, window) ==
    [s EXCEPT !.status = "retrying", !.deadline = now + window, !.finalizing = FALSE,
              !.notBefore = None, !.backoff = None,
              !.cont = IF Continues(s, r) THEN @
                       ELSE [request |-> r, target |-> s.launched + 1, status |-> "running"]]

PreparerRefuses ==
    /\ pod.at = "prepare" /\ ~MayReopen(disk, pod.request)
    /\ pod' = Gone("refused")
    /\ UNCHANGED <<files, mem, prov, watch, now, pods, ghosts>>

PreparerReopens ==
    /\ pod.at = "prepare" /\ MayReopen(disk, pod.request)
    /\ disk' = Reopened(disk, pod.request, pod.window)
    /\ GoesTo("prepared")
    /\ UNCHANGED <<cap, mem, prov, watch, now, pods, ghosts>>

PreparerCaps ==
    /\ pod.at = "prepared"
    /\ cap' = disk.cont.target
    /\ GoesTo("boot")
    /\ UNCHANGED <<disk, mem, prov, watch, now, pods, ghosts>>

-----------------------------------------------------------------------------
(* agent_cli.main up to the loop: the continuation is prepared once more, the
   runtime is validated, and load_state reads or creates the state.          *)
LoadedAnew(s) ==         \* mutant: a restarted runner does not wait
    IF s.status = "missing" THEN [Missing EXCEPT !.status = "pending", !.deadline = now + Timeout]
    ELSE IF s.status \in Terminal THEN s
    ELSE [s EXCEPT !.open = FALSE, !.notBefore = None]
Loaded(s) ==
    IF s.status = "missing" THEN [Missing EXCEPT !.status = "pending", !.deadline = now + Timeout]
    ELSE IF s.status \in Terminal THEN s
    ELSE [s EXCEPT !.open = FALSE]

(* A failure before the first save leaves a status.json without an identity. *)
Nameless(s) == s.status # "missing" /\ s.deadline = 0

Boots ==
    /\ pod.at = "boot" /\ ~Nameless(disk)
    /\ IF pod.request = None THEN disk' = disk
       ELSE /\ MayReopen(disk, pod.request) /\ Finalization < pod.window
            /\ disk' = Reopened(disk, pod.request, pod.window)
    /\ mem' = Loaded(disk')
    /\ GoesTo(IF mem'.status \in Terminal THEN "artifacts" ELSE "loop")
    /\ UNCHANGED <<cap, prov, watch, now, pods, ghosts>>

(* An exception ends the runner; main adds it to what the disk holds.  It is
   certain for an unfit window or a nameless state, possible wherever something
   is written, and wherever the files of the provider are read, which may be
   anything: no text, no JSON, a number that is too large.  Out of run_attempt,
   once the launch is counted, it comes past terminate_process.              *)
Broken(s) == [s EXCEPT !.status = IF pod.stop THEN "interrupted" ELSE "provider_error"]
Unfit == pod.at = "boot" /\ (Nameless(disk) \/ (pod.request # None /\ Finalization >= pod.window))
Unreadable == pod.at \in {"launch", "run", "judge", "account"}
HarnessFails ==
    /\ pod.at \in {"boot", "loop", "wait", "launch", "mark", "run", "judge", "artifacts", "account"}
    /\ Unfit \/ Unreadable \/ "write" \in Faults
    /\ mem' = Broken(disk)
    /\ \/ disk' = mem'
       \/ disk' = disk /\ "write" \in Faults
    /\ prov' = IF pod.at = "run"
               THEN [Silent EXCEPT !.leader = prov.leader, !.others = prov.others]
               ELSE Silent
    /\ watch' = Fresh
    /\ lost' = IF pod.at = "mark" THEN lost + 1 ELSE lost
    /\ GoesTo("cli")
    /\ UNCHANGED <<cap, now, pods, launches, torn>>

Limit == IF pod.request = None THEN cap ELSE mem.cont.target
PhaseDeadline == IF mem.finalizing THEN mem.deadline ELSE mem.deadline - Finalization
BackoffNow(s) == IF s.backoff = None THEN RetryInitial ELSE s.backoff
Over == now >= mem.deadline \/ pod.stop

(* A state that ends the run is saved, then write_terminal_artifacts follows. *)
Finishes(s) ==
    /\ Saves(s)
    /\ GoesTo("artifacts")

LoopEnds ==
    /\ pod.at = "loop" /\ Over
    /\ Finishes([mem EXCEPT !.status = IF pod.stop THEN "interrupted" ELSE "timeout"])
    /\ UNCHANGED <<cap, prov, watch, now, pods, ghosts>>

BeginsFinalization ==
    /\ pod.at = "loop" /\ ~Over
    /\ ~mem.finalizing /\ now >= PhaseDeadline
    /\ Saves([mem EXCEPT !.finalizing = TRUE, !.status = "finalizing",
                         !.notBefore = None, !.backoff = None])
    /\ UNCHANGED <<cap, pod, prov, watch, now, pods, ghosts>>

Proceeds == pod.at = "loop" /\ ~Over /\ now < PhaseDeadline

BeginsWait ==
    /\ Proceeds /\ mem.notBefore # None
    /\ Saves([mem EXCEPT !.status = "retrying"])
    /\ GoesTo("wait")
    /\ UNCHANGED <<cap, prov, watch, now, pods, ghosts>>

WaitIsOver == pod.stop \/ now >= mem.notBefore \/ now >= PhaseDeadline
WaitEnds ==
    /\ pod.at = "wait" /\ WaitIsOver
    /\ IF pod.stop THEN Finishes([mem EXCEPT !.status = "interrupted"])
       ELSE /\ Saves(IF now >= mem.notBefore THEN [mem EXCEPT !.notBefore = None] ELSE mem)
            /\ GoesTo("loop")
    /\ UNCHANGED <<cap, prov, watch, now, pods, ghosts>>

GivesUp ==
    /\ Proceeds /\ mem.notBefore = None /\ mem.launched >= Limit
    /\ Finishes([mem EXCEPT !.status = "provider_error"])
    /\ UNCHANGED <<cap, prov, watch, now, pods, ghosts>>

(* The attempt is checkpointed before the provider is launched ...           *)
Checkpoints ==
    /\ Proceeds /\ mem.notBefore = None /\ mem.launched < Limit
    /\ Saves([mem EXCEPT !.status = IF mem.finalizing THEN "finalizing" ELSE "running",
                         !.open = TRUE])
    /\ GoesTo("launch")
    /\ UNCHANGED <<cap, prov, watch, now, pods, ghosts>>

LaunchFails ==
    /\ pod.at = "launch"
    /\ Finishes([mem EXCEPT !.status = "provider_error", !.open = FALSE])
    /\ UNCHANGED <<cap, prov, watch, now, pods, ghosts>>

Launches ==
    /\ pod.at = "launch"
    /\ prov' = [Silent EXCEPT !.leader = TRUE]
    /\ launches' = launches + 1
    /\ GoesTo("mark")
    /\ UNCHANGED <<files, mem, watch, now, pods, lost, torn>>

(* ... and counted once it runs.                                             *)
ForgetsToCount ==        \* mutant
    /\ pod.at = "mark"
    /\ Saves(mem)
    /\ GoesTo("run")
    /\ UNCHANGED <<cap, prov, watch, now, pods, ghosts>>
Marks ==
    /\ pod.at = "mark"
    /\ Saves([mem EXCEPT !.launched = @ + 1])
    /\ GoesTo("run")
    /\ UNCHANGED <<cap, prov, watch, now, pods, ghosts>>

-----------------------------------------------------------------------------
(* What the provider does, and what is read of it.  The end of its output may
   be read after the loop has ended.  A failed end makes it ready to exit.
   After an exception it goes on until the container ends.                   *)
ProviderActs ==
    /\ pod.at \in {"run", "cli", "summary"}
    /\ \/ prov.leader /\ \E o \in BOOLEAN : prov' = [prov EXCEPT !.leader = FALSE, !.others = o]
       \/ prov.others /\ ~prov.leader /\ prov' = [prov EXCEPT !.others = FALSE]
       \/ pod.at = "run" /\ Alive /\ prov' = [prov EXCEPT !.work = ~@]
    /\ UNCHANGED <<files, pod, mem, watch, now, pods, ghosts>>

ProviderSpeaks ==
    /\ pod.at = "run" \/ (pod.at = "judge" /\ watch.reason # "none")
    /\ \/ /\ prov.terminal = "none"
          /\ \E t \in {"succeeded", "failed"} :
                /\ prov' = [prov EXCEPT !.terminal = t, !.ready = (t = "failed")]
                /\ watch' = IF t = "failed" THEN [watch EXCEPT !.idle = None] ELSE watch
       \/ /\ ~prov.substituted
          /\ prov' = [prov EXCEPT !.substituted = TRUE]
          /\ UNCHANGED watch
    /\ UNCHANGED <<files, pod, mem, now, pods, ghosts>>

(* terminal_success_ready finds a response with a matching submission.        *)
FindsOutput ==
    /\ pod.at = "run" /\ prov.terminal = "succeeded" /\ ~prov.ready
    /\ prov' = [prov EXCEPT !.ready = TRUE]
    /\ watch' = [watch EXCEPT !.idle = None]
    /\ UNCHANGED <<files, pod, mem, now, pods, ghosts>>

(* run_attempt's loop: one pass of it.                                        *)
Working == prov.work \/ (prov.others /\ ~prov.leader)
SoftDue == ~mem.finalizing /\ now >= PhaseDeadline /\ ~prov.ready
Waited == watch.idle # None /\ watch.idle >= Grace

IdlePastDeadline == now >= mem.deadline /\ ~Working      \* mutant
PastDeadline == now >= mem.deadline

Order == <<"model", "grace", "stop", "deadline", "empty", "soft">>
Applies(reason) ==
    \/ reason = "model" /\ prov.substituted
    \/ reason = "grace" /\ prov.ready /\ ~Working /\ prov.leader /\ Waited
    \/ reason = "stop" /\ pod.stop
    \/ reason = "deadline" /\ PastDeadline
    \/ reason = "empty" /\ ~Alive /\ watch.quiet
    \/ reason = "soft" /\ SoftDue /\ ~Working /\ Waited
Verdict ==
    LET holding == {i \in 1 .. 6 : Applies(Order[i])}
    IN  IF holding = {} THEN "none" ELSE Order[Min(holding)]

Since == IF watch.idle = None THEN 0 ELSE watch.idle
Looked ==
    [watch EXCEPT !.idle = IF prov.ready THEN IF Working \/ ~prov.leader THEN None ELSE Since
                           ELSE IF SoftDue THEN IF Working THEN None ELSE Since
                           ELSE @,
                  !.quiet = ~Alive]

Looks ==
    /\ pod.at = "run" /\ Verdict = "none" /\ Looked # watch
    /\ watch' = Looked
    /\ UNCHANGED <<files, pod, mem, prov, now, pods, ghosts>>

KillsLeader(reason) ==   \* mutant: not its process group
    /\ watch' = [Fresh EXCEPT !.reason = reason,
                              !.aborted = reason \in {"model", "stop", "deadline"} /\ Working]
    /\ prov' = [prov EXCEPT !.leader = FALSE, !.work = FALSE]
    /\ GoesTo("judge")
    /\ UNCHANGED <<files, mem, now, pods, ghosts>>
Stops(reason) ==
    /\ watch' = [Fresh EXCEPT !.reason = reason,
                              !.aborted = reason \in {"model", "stop", "deadline"} /\ Working]
    /\ prov' = [prov EXCEPT !.leader = FALSE, !.others = FALSE, !.work = FALSE]
    /\ GoesTo("judge")
    /\ UNCHANGED <<files, mem, now, pods, ghosts>>

(* Every end but that of an empty group terminates the group.                 *)
StopsProvider == pod.at = "run" /\ Verdict # "none" /\ Stops(Verdict)

PromptBreaks ==
    /\ pod.at = "run" /\ Verdict # "model" /\ prov.leader /\ prov.terminal = "none"
    /\ Stops("prompt")

-----------------------------------------------------------------------------
(* The outcome of an attempt, in the order of the code.                       *)
Accepted == prov.terminal = "succeeded" /\ ~watch.aborted /\ ~prov.substituted
Strict(s) == s.cont # None

(* What can be read of the provider: the session may turn out to be gone, and
   any record at all means that it was started.                               *)
Sessions == (IF mem.session THEN {"unavailable"} ELSE {})
            \union (IF prov.terminal = "none" THEN {"silent", "used"} ELSE {"used"})
WithSession(seen) ==
    [mem EXCEPT !.open = FALSE,
                !.session = IF seen = "unavailable" THEN FALSE
                            ELSE IF seen = "used" THEN TRUE ELSE @]
Closed(s, status) ==
    [s EXCEPT !.cont = IF s.cont = None THEN None ELSE [s.cont EXCEPT !.status = status]]

Judged == pod.at = "judge" /\ UNCHANGED <<cap, now, pods, ghosts>>
                           /\ prov' = Silent /\ watch' = Fresh

FindsTampering ==
    /\ Judged
    /\ Finishes([mem EXCEPT !.status = "provider_error", !.open = FALSE])

FindsSubstitution ==
    /\ Judged /\ prov.substituted
    /\ \E seen \in Sessions :
        Finishes([WithSession(seen) EXCEPT !.status = "provider_error"])

RefusesNewSession ==
    /\ Judged /\ ~prov.substituted /\ Strict(mem)
    /\ "unavailable" \in Sessions
    /\ Finishes([Closed(WithSession("unavailable"), "failed") EXCEPT !.status = "provider_error"])

(* A session that is gone ends a strict continuation and nothing else.        *)
Read == {seen \in Sessions : seen = "unavailable" => ~Strict(mem)}

AcceptsResponse ==
    /\ Judged /\ Accepted
    /\ \E seen \in Read, status \in Final :
        Finishes([Closed(WithSession(seen), "complete") EXCEPT !.status = status,
                                                               !.response = status])

(* No response, or not one that matches the submission.                       *)
NotAccepted == Judged /\ ~prov.substituted

FailsForGood ==
    /\ NotAccepted
    /\ \E seen \in Read \ {"unavailable"} :
        Finishes([WithSession(seen) EXCEPT !.status = "provider_error"])

IsInterrupted ==
    /\ NotAccepted /\ pod.stop
    /\ \E seen \in Read : Finishes([WithSession(seen) EXCEPT !.status = "interrupted"])

(* The time of the phase is over: the loop goes on, nothing is saved.         *)
RunsOut ==
    /\ NotAccepted /\ ~pod.stop /\ now >= PhaseDeadline
    /\ \E seen \in Read : mem' = WithSession(seen)
    /\ GoesTo("loop")
    /\ UNCHANGED disk

(* Output repair and a lost session are retried at once, a subscription at its
   reset, anything else after a wait that doubles.                            *)
Retry(s, wait, backoff) ==
    [s EXCEPT !.status = "retrying", !.notBefore = now + wait, !.backoff = backoff]
Doubled(b) == Min({2 * b, RetryMax})
RetriesLater ==
    /\ NotAccepted /\ ~pod.stop /\ now < PhaseDeadline
    /\ \E seen \in Read :
        LET s == WithSession(seen)
        IN  IF seen = "unavailable" \/ Accepted
            THEN Saves(Retry(s, 0, RetryInitial))
            ELSE \/ Saves(Retry(s, BackoffNow(s), Doubled(BackoffNow(s))))
                 \/ \E reset \in Resets : Saves(Retry(s, reset, RetryInitial))
    /\ GoesTo("loop")

-----------------------------------------------------------------------------
(* write_terminal_artifacts: a terminal state closes its continuation; what
   follows of the accounting reads the transcript and changes no state.      *)
WritesArtifacts ==
    /\ pod.at = "artifacts"
    /\ IF mem.status \in Terminal
       THEN Saves([Closed(mem, IF mem.status \in Final THEN "complete" ELSE "failed")
                        EXCEPT !.notBefore = None, !.backoff = None])
       ELSE UNCHANGED <<mem, disk>>
    /\ GoesTo("account")
    /\ UNCHANGED <<cap, prov, watch, now, pods, ghosts>>

(* main: a signal received until now replaces the status, ...                 *)
ChecksSignal ==
    /\ pod.at \in {"account", "cli"}
    /\ mem' = IF pod.stop THEN [mem EXCEPT !.status = "interrupted"] ELSE mem
    /\ \/ disk' = IF pod.stop THEN mem' ELSE disk
       \/ disk' = disk /\ "write" \in Faults
    /\ GoesTo("summary")
    /\ UNCHANGED <<cap, prov, watch, now, pods, ghosts>>

(* ... then the termination summary is derived from it.  The container ends
   with its main process, and with it whatever still runs there.             *)
Exits ==
    /\ pod.at = "summary"
    /\ pod' = Gone(Told(mem))
    /\ mem' = Missing /\ prov' = Silent
    /\ UNCHANGED <<files, watch, now, pods, ghosts>>

-----------------------------------------------------------------------------
Signal ==
    /\ "signal" \in Faults
    /\ pod.at \notin {"gone", "prepare", "prepared"} /\ ~pod.stop
    /\ pod' = [pod EXCEPT !.stop = TRUE]
    /\ UNCHANGED <<files, mem, prov, watch, now, pods, ghosts>>

(* The Pod is killed, and the provider with it.                               *)
Killed ==
    /\ "kill" \in Faults /\ pod.at # "gone"
    /\ pod' = Gone("killed")
    /\ mem' = Missing /\ prov' = Silent /\ watch' = Fresh
    /\ lost' = IF pod.at = "mark" THEN lost + 1 ELSE lost
    /\ torn' = (torn \/ pod.at = "prepared")
    /\ UNCHANGED <<files, now, pods, launches>>

(* Time passes while nothing is due; what the code does between two waits
   takes none.                                                                *)
Tick ==
    /\ IF pod.at = "gone" THEN now < Horizon ELSE now <= mem.deadline   \* bounds
    /\ \/ pod.at = "gone" /\ UNCHANGED watch
       \/ pod.at = "wait" /\ ~WaitIsOver /\ UNCHANGED watch
       \/ /\ pod.at = "run" /\ Verdict = "none" /\ Looked = watch
          /\ watch' = [watch EXCEPT !.idle = IF @ = None THEN None ELSE Min({@ + 1, Grace})]
    /\ now' = now + 1
    /\ UNCHANGED <<files, pod, mem, prov, pods, ghosts>>

Runner ==
    \/ PreparerRefuses \/ PreparerReopens \/ PreparerCaps \/ Boots
    \/ LoopEnds \/ BeginsFinalization \/ BeginsWait \/ WaitEnds \/ GivesUp
    \/ Checkpoints \/ LaunchFails \/ Launches \/ Marks \/ Looks \/ StopsProvider
    \/ FindsTampering \/ FindsSubstitution \/ RefusesNewSession \/ AcceptsResponse
    \/ FailsForGood \/ IsInterrupted \/ RunsOut \/ RetriesLater
    \/ WritesArtifacts \/ ChecksSignal \/ Exits

Next ==
    \/ Runner \/ HarnessFails \/ StartsPod \/ ProviderActs \/ ProviderSpeaks \/ FindsOutput \/ PromptBreaks
    \/ Signal \/ Killed \/ Tick

Spec == Init /\ [][Next]_vars

-----------------------------------------------------------------------------
(* The provider is started no more often than the budget of the trial, or of
   the continuation it is in, allows, whatever happens to the Pods.  A process
   whose Pod dies between Popen and the checkpoint is not counted; a
   continuation whose preparer dies between its writes has the old budget.   *)
AttemptsBounded ==
    LET budget == IF disk.cont = None THEN MaxAttempts
                  ELSE IF torn THEN Max({MaxAttempts, disk.cont.target})
                  ELSE disk.cont.target
    IN  launches <= budget + lost

(* Nothing of the provider's process group is alive when an attempt is judged,
   when its outcome is saved or its Pod is gone, nor after the deadline: nobody
   writes into the workspace while it is validated and collected.  An exception
   out of the polling loop does leave it behind, until main exits: then the
   runner neither has a result on record nor reports one.                    *)
ProviderContained ==
    Alive => \/ pod.at \in {"mark", "run"} /\ now <= mem.deadline
             \/ pod.at \in {"cli", "summary"} /\ ~Present(disk) /\ ~Present(mem)

(* A retry boundary in status.json is only dropped once it has passed, when the
   finalization window begins, with the end of the trial, by a new continuation
   or by an old one that has no attempt left: signals, kills and restarts do
   not shorten a wait.                                                       *)
WaitIsHonoured ==
    [][ /\ launches' > launches => disk.notBefore = None
        /\ disk.notBefore # None /\ disk'.notBefore = None =>
                \/ now >= disk.notBefore
                \/ disk'.finalizing /\ ~disk.finalizing
                \/ disk'.status \in Terminal
                \/ disk'.cont # disk.cont
                \/ disk'.cont # None /\ disk'.launched >= disk'.cont.target ]_vars

(* A continuation never pays for a new session: every launch under it, also
   after an infrastructure restart, resumes the saved one.  Unless its preparer
   died between its writes: then the old budget may allow one launch more after
   the refusal of a new session, if a signal hid the refusal.                *)
SessionKept == [][launches' > launches /\ disk.cont # None /\ ~torn => mem.session]_vars

(* A recorded provider result stays the result of the trial, through kills and
   repeated continuations.  Two ends of main can still replace it: a signal that
   arrives while the runner writes its artifacts, and an exception there (a
   write that fails, a transcript that cannot be read).                      *)
ResultStands == [][Present(disk) => Present(disk') \/ pod.stop \/ HarnessFails]_vars

(* The runner goes on by itself and time passes, whatever the provider does.
   Only an exception that is certain can be relied on.                        *)
Fairness == WF_vars(Runner \/ (Unfit /\ HarnessFails)) /\ SF_vars(Tick)
FairSpec == Spec /\ Fairness

(* Every Pod ends, even if the provider hangs, declares work that never ends or
   keeps failing.                                                            *)
EveryRunEnds == (pod.at # "gone") ~> (pod.at = "gone")
=============================================================================
