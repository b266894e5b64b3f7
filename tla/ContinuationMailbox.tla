-------------------------- MODULE ContinuationMailbox --------------------------
(***************************************************************************)
(* The way of a continuation request from an operator's laptop to the       *)
(* campaign (src/brunner/cluster.py: ClusterCampaignClient.continue_trial,  *)
(* _process_continuation_request; src/brunner/campaign.py:                  *)
(* request_continuation), for the requests about one trial.  The mailbox is *)
(* the request list of a ConfigMap, which the commands and the controller   *)
(* replace as a whole under resourceVersion compare-and-swap: whoever       *)
(* replaces it writes what it read, changed.                                *)
(***************************************************************************)
EXTENDS Sequences, Naturals

CONSTANTS
    Commands,    \* campaign-continue commands; each has its own request_id
    MaxTries,    \* how often a command tries (5 in the code)
    BackupFails  \* the write of campaign.json.bak may fail

ASSUME TriesAssumption == MaxTries \in Nat \ {0}
ASSUME BackupAssumption == BackupFails \in BOOLEAN

VARIABLES
    requests,    \* the ConfigMap's requests.json
    command,     \* the campaign-continue processes
    controller,  \* _process_continuation_request
    history,     \* campaign.json: request ids of entry["continuations"]
    resumable    \* ... the trial is complete with a retained provider error

vars == <<requests, command, controller, history, resumable>>

Request == [id : Commands, status : {"pending", "accepted", "rejected"}]

(* `fresh`: the list read, `seen`, is still the ConfigMap's version.         *)
Command == [at : {"get", "replace", "replaced", "stored", "exhausted", "raised"},
            tries : 0 .. MaxTries, seen : Seq(Request), fresh : BOOLEAN]
Controller == [at : {"idle", "decide", "reply"}, seen : Seq(Request), fresh : BOOLEAN,
               pick : Nat, verdict : {"pending", "accepted", "rejected"}]

(* A command that has read nothing, and a reader whose version is an old one. *)
Turn(at, tries) == [at |-> at, tries |-> tries, seen |-> <<>>, fresh |-> FALSE]
Outdated(reader) == [reader EXCEPT !.fresh = FALSE]
Resting == [at |-> "idle", seen |-> <<>>, fresh |-> FALSE, pick |-> 0,
            verdict |-> "pending"]

TypeOK ==
    /\ requests \in Seq(Request)
    /\ command \in [Commands -> Command]
    /\ controller \in Controller
    /\ history \in Seq(Commands)
    /\ resumable \in BOOLEAN

Init ==
    /\ requests = <<>>
    /\ command = [c \in Commands |-> Turn("get", 0)]
    /\ controller = Resting
    /\ history = <<>>
    /\ resumable = FALSE

-----------------------------------------------------------------------------
(* continue_trial                                                           *)
Reads(c) ==
    /\ command[c].at = "get"
    /\ command' = [command EXCEPT ![c] = [at |-> "replace", tries |-> @.tries,
                                          seen |-> requests, fresh |-> TRUE]]
    /\ UNCHANGED <<requests, controller, history, resumable>>

Overwrites(r) == TRUE        \* mutant: replace without resourceVersion
Current(r) == r.fresh

(* The replace lands: every other reader's version is now an old one.       *)
Stores(c) ==
    /\ command[c].at = "replace" /\ Current(command[c])
    /\ requests' = Append(command[c].seen, [id |-> c, status |-> "pending"])
    /\ command' = [d \in Commands |-> IF d = c THEN Turn("replaced", command[c].tries)
                                              ELSE Outdated(command[d])]
    /\ controller' = Outdated(controller)
    /\ UNCHANGED <<history, resumable>>

Ends(c, at) ==
    /\ command' = [command EXCEPT ![c] = Turn(at, @.tries)]
    /\ UNCHANGED <<requests, controller, history, resumable>>

Returns(c) == command[c].at = "replaced" /\ Ends(c, "stored")

Again(tries) == tries + 1 < MaxTries

(* kubectl replace exits with an error, a conflict or any other: the command
   reads the list again and appends its request again, as often as it may.  *)
Retries(c) ==
    /\ command[c].at \in {"replace", "replaced"}
    /\ LET n == command[c].tries
       IN  command' = [command EXCEPT ![c] =
                            Turn(IF Again(n) THEN "get" ELSE "exhausted", n + 1)]
    /\ UNCHANGED <<requests, controller, history, resumable>>

(* A kubectl that cannot read the list or times out ends the command.       *)
Raises(c) == command[c].at \in {"get", "replace", "replaced"} /\ Ends(c, "raised")

-----------------------------------------------------------------------------
(* The controller takes the first request that is pending.                  *)
Pending(i) == requests[i].status = "pending"
TakesHead(i) == i = 1        \* mutant: whatever its status
Taken(i) == Pending(i) /\ \A j \in 1 .. Len(requests) : Pending(j) => i <= j

Fetches ==
    /\ controller.at = "idle"
    /\ \E i \in 1 .. Len(requests) :
        /\ Taken(i)
        /\ controller' = [at |-> "decide", seen |-> requests, fresh |-> TRUE,
                          pick |-> i, verdict |-> "pending"]
    /\ UNCHANGED <<requests, command, history, resumable>>

Known(id) == \E i \in 1 .. Len(history) : history[i] = id

(* request_continuation: a request that is in the history is accepted again
   without a second generation.  It saves campaign.json and then its backup;
   what fails in between makes the request look rejected.                   *)
ForgetsHistory(id) ==        \* mutants: the history is not looked at,
    IF resumable THEN {"granted"} ELSE {"refused"}
ChecksPhaseFirst(id) ==      \* or only once the trial may be continued
    IF ~resumable THEN {"refused"} ELSE IF Known(id) THEN {"known"} ELSE {"granted"}
Judgement(id) ==
    IF Known(id) THEN {"known"}
    ELSE IF ~resumable THEN {"refused"}
    ELSE IF BackupFails THEN {"granted", "failed"} ELSE {"granted"}

Decides ==
    /\ controller.at = "decide"
    /\ LET id == controller.seen[controller.pick].id
       IN  \E j \in Judgement(id) :
            /\ controller' = [controller EXCEPT !.at = "reply",
                    !.verdict = IF j \in {"known", "granted"} THEN "accepted" ELSE "rejected"]
            /\ IF j \in {"granted", "failed"}
               THEN history' = Append(history, id) /\ resumable' = FALSE
               ELSE UNCHANGED <<history, resumable>>
    /\ UNCHANGED <<requests, command>>

Replies ==
    /\ controller.at = "reply" /\ Current(controller)
    /\ requests' = [controller.seen EXCEPT ![controller.pick].status = controller.verdict]
    /\ command' = [d \in Commands |-> Outdated(command[d])]
    /\ controller' = Resting
    /\ UNCHANGED <<history, resumable>>

(* The result of the replace is ignored, and the process may end at any point:
   the request is then taken up again.                                      *)
Drops ==
    /\ controller.at # "idle"
    /\ controller' = Resting
    /\ UNCHANGED <<requests, command, history, resumable>>

(* The trial, or a continuation of it, ends with a provider error.          *)
TrialStops ==
    /\ ~resumable
    /\ resumable' = TRUE
    /\ UNCHANGED <<requests, command, controller, history>>

-----------------------------------------------------------------------------
Sends(c) == Reads(c) \/ Stores(c) \/ Returns(c) \/ Retries(c) \/ Raises(c)
Handles == Fetches \/ Decides \/ Replies

Next == (\E c \in Commands : Sends(c)) \/ Handles \/ Drops \/ TrialStops

Spec == Init /\ [][Next]_vars

-----------------------------------------------------------------------------
(* "Exactly one additional provider launch is allowed" (docs/integration.md):
   however often a request is stored, processed or answered again, it gives
   its trial one continuation generation.                                   *)
OneGenerationPerRequest ==
    \A i, j \in 1 .. Len(history) : history[i] = history[j] => i = j

Said(c) == {requests[i].status : i \in {j \in 1 .. Len(requests) : requests[j].id = c}}

(* A request that is only rejected starts nothing: "Continuation is rejected
   for successful trials, candidate failures, non-provider failures, missing
   sessions, changed workload identity, or missing PVCs" (docs/integration.md). *)
RejectedIsNotRun == \A c \in Commands : Said(c) = {"rejected"} => ~Known(c)

(* What the ConfigMap says of a request is what campaign.json holds, although
   the decision is made again whenever the reply got lost.                  *)
RepliesAreTrue ==
    RejectedIsNotRun /\ \A c \in Commands : "accepted" \in Said(c) => Known(c)

(* The compare-and-swap loses no request and no reply: commands and controller
   only append to the list or decide what is pending.                       *)
RequestsSurvive ==
    [][/\ Len(requests') >= Len(requests)
       /\ \A i \in 1 .. Len(requests) :
            /\ requests'[i].id = requests[i].id
            /\ requests[i].status # "pending" => requests'[i] = requests[i]]_vars

(* The controller keeps running; from some time on it does not die, and its
   replace only fails on a list that has changed.                           *)
Conflict == controller.at = "reply" /\ ~Current(controller)
Fairness ==
    /\ WF_vars(Handles)
    /\ WF_vars(Drops /\ Conflict)
    /\ <>[][Drops => Conflict \/ Replies]_vars
FairSpec == Spec /\ Fairness

(* Every request that reaches the ConfigMap is decided.                     *)
EveryRequestDecided ==
    \A c \in Commands :
        (\E i \in 1 .. Len(requests) : requests[i].id = c) ~>
            (\E i \in 1 .. Len(requests) : requests[i].id = c
                                              /\ requests[i].status # "pending")
=============================================================================
