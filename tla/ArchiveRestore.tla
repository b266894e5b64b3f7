---------------------------- MODULE ArchiveRestore ----------------------------
(***************************************************************************)
(* campaign-submit --resume-from (src/brunner/cluster.py,                   *)
(* archive_transfer.py): the client sends a local archive through an exec   *)
(* stream to a receiver in a helper Pod, which writes it onto fresh PVCs,   *)
(* and then starts preparation and controller.  The stream may break at any *)
(* time, the helper may die, kubectl may fail between any two commands, the *)
(* operator repeats the command, and a plain campaign-submit of the same    *)
(* campaign may come in between.                                            *)
(*                                                                         *)
(* Time is left out: the retry budget of the client is counted in attempts, *)
(* and an inactive receiver gives up at some time.                          *)
(***************************************************************************)
EXTENDS Naturals, Sequences, SequencesExt

CONSTANTS
    Order,        \* the files of the archive, sorted
    Chunks,       \* how many chunks each has
    Retries,      \* connection attempts without progress (restore_retry_seconds)
    Appended,     \* the campaign has new trials, so another digest
    PlainSubmits, \* bound: submissions without an archive
    Faults,       \* how many faults there are, unless
    Endless       \* ... there is no end of them

Files == ToSet(Order)
ASSUME OrderAssumption == Order \in Seq(STRING)
ASSUME FilesAssumption == "campaign" \in Files /\ Chunks \in [Files -> Nat \ {0}]
ASSUME CountsAssumption ==
    /\ Retries \in Nat /\ PlainSubmits \in Nat /\ Faults \in Nat
    /\ Appended \in BOOLEAN /\ Endless \in BOOLEAN

VARIABLES
    results,   \* the files on the results PVC
    part,      \* ... and their .brunner-part files
    copies,    \* what is written after them, in the order of FinalCopies
    journal,   \* .brunner-restore.json on the control PVC
    pod,       \* the helper Pod
    rec,       \* the receiver that holds the lock in it
    snd,       \* the client
    up, down,  \* the two directions of the stream
    high, completed,   \* high_water, completed_files
    prep, deployment,  \* the preparation Job, the controller
    plain,     \* the other submission: its place, and how many may follow
    faults

disks == <<results, part, copies, journal>>
stream == <<up, down>>
progress == <<high, completed>>
remote == <<prep, deployment, plain>>
vars == <<disks, pod, rec, snd, stream, progress, remote, faults>>

Contents == {"none", "archived", "changed"}
FinalCopies == <<"control", "backup", "manifest", "marker">>
Receiver ==
    [at : {"gone", "begin", "file", "need", "recv", "ack", "verify", "unlink", "copy",
           "announce"},
     linked : BOOLEAN,       \* its stream is the client's
     strict : BOOLEAN,       \* already_complete
     next : Nat]             \* index of the file, or of the copy
NoReceiver == [at |-> "gone", linked |-> FALSE, strict |-> FALSE, next |-> 1]
Sender ==
    [at : {"idle", "check", "clear", "command", "helper", "connect", "exchange", "chunks",
           "await", "backoff", "cleanup", "prepare", "deploy"},
     left : 0 .. Retries, file : Files, off : Nat]
Idle == [at |-> "idle", left |-> Retries, file |-> "campaign", off |-> 0]

TypeOK ==
    /\ results \in [Files -> Contents]
    /\ part \in [Files -> [len : Nat, good : BOOLEAN]]
    /\ copies \in [ToSet(FinalCopies) -> Contents]
    /\ journal \in {"none", "restoring", "complete"}
    /\ pod \in {"absent", "running", "dead"}
    /\ rec \in Receiver /\ snd \in Sender
    /\ high \in [Files -> Nat] /\ completed \in SUBSET Files
    /\ prep \in {"absent", "running", "passed", "done", "failed"}
    /\ deployment \in BOOLEAN
    /\ plain \in [checked : BOOLEAN, left : 0 .. PlainSubmits]
    /\ faults \in 0 .. Faults

(* Fresh claims, or claims with a partial file of an older release.           *)
Empty == [len |-> 0, good |-> TRUE]
Init ==
    /\ results = [f \in Files |-> "none"]
    /\ part \in {p \in [Files -> {Empty, [len |-> 1, good |-> FALSE]}] : p["campaign"] = Empty}
    /\ copies = [c \in ToSet(FinalCopies) |-> "none"] /\ journal = "none"
    /\ pod = "absent" /\ rec = NoReceiver /\ snd = Idle
    /\ up = <<>> /\ down = <<>>
    /\ high = [f \in Files |-> 0] /\ completed = {}
    /\ prep = "absent" /\ deployment = FALSE
    /\ plain = [checked |-> FALSE, left |-> PlainSubmits]
    /\ faults = Faults

Fault == faults > 0 /\ faults' = IF Endless THEN faults ELSE faults - 1

-----------------------------------------------------------------------------
(* ClusterCampaignClient.submit                                               *)
SndGoes(at) == snd' = [snd EXCEPT !.at = at]
Gives == snd' = Idle
Cloud == UNCHANGED <<disks, rec, stream, progress, plain, faults>>

Submits ==
    /\ snd.at = "idle" /\ ~deployment
    /\ SndGoes("check")
    /\ high' = [f \in Files |-> 0] /\ completed' = {}
    /\ UNCHANGED <<disks, pod, rec, stream, remote, faults>>

ChecksDeployment ==
    /\ snd.at = "check"
    /\ IF deployment THEN Gives ELSE SndGoes("clear")
    /\ UNCHANGED <<pod, prep, deployment>> /\ Cloud

ClearsController ==
    /\ snd.at = "clear"
    /\ deployment' = FALSE /\ prep' = "absent"
    /\ SndGoes("command")
    /\ UNCHANGED pod /\ Cloud

(* _restore_archive.command, before every connection.                         *)
ChecksController ==
    /\ snd.at = "command"
    /\ IF deployment THEN Gives ELSE SndGoes("helper")
    /\ UNCHANGED <<pod, prep, deployment>> /\ Cloud

FindsHelper ==
    /\ snd.at = "helper"
    /\ pod' = "running"
    /\ SndGoes("connect")
    /\ UNCHANGED <<prep, deployment>> /\ Cloud

(* restore_archive_stream: a new receiver, unless the last one holds the lock. *)
Connects ==
    /\ snd.at = "connect"
    /\ IF pod = "running" /\ rec.at = "gone"
       THEN /\ SndGoes("exchange")
            /\ rec' = [NoReceiver EXCEPT !.at = "begin", !.linked = TRUE]
            /\ up' = <<[type |-> "begin"]>> /\ down' = <<>>
       ELSE SndGoes("backoff") /\ UNCHANGED <<rec, stream>>
    /\ UNCHANGED <<disks, pod, progress, remote, faults>>

BacksOff ==
    /\ snd.at = "backoff"
    /\ IF snd.left = 0 THEN Gives
       ELSE snd' = [snd EXCEPT !.at = "command", !.left = @ - 1]
    /\ UNCHANGED <<pod, prep, deployment>> /\ Cloud

(* _exchange, and report: the budget is renewed by progress.                  *)
Hears(type) == down # <<>> /\ Head(down).type = type
Heard == down' = Tail(down) /\ UNCHANGED <<disks, pod, rec, remote, faults>>

AnyEvent(f, off, done) == TRUE        \* mutant
Progress(f, off, done) == off > high[f] \/ (done /\ f \notin completed)
Renews(at, f, off, done) ==
    /\ snd' = [snd EXCEPT !.at = at, !.left = IF Progress(f, off, done) THEN Retries ELSE @,
                          !.file = f, !.off = off]
    /\ high' = [high EXCEPT ![f] = IF off > @ THEN off ELSE @]

HearsDone ==
    /\ snd.at = "exchange" /\ Hears("done")
    /\ LET f == Head(down).file
       IN  /\ Renews("exchange", f, Chunks[f], TRUE)
           /\ completed' = completed \union {f}
    /\ up' = up /\ Heard

(* The prefix the receiver has is compared with the local file.               *)
HearsNeed ==
    /\ snd.at = "exchange" /\ Hears("need")
    /\ LET m == Head(down)
           valid == m.good /\ m.off <= Chunks[m.file]
       IN  /\ up' = Append(up, [type |-> IF valid THEN "append" ELSE "restart"])
           /\ Renews("chunks", m.file, IF valid THEN m.off ELSE 0, FALSE)
    /\ UNCHANGED completed /\ Heard

SendsChunk ==
    /\ snd.at = "chunks" /\ snd.off < Chunks[snd.file]
    /\ up' = Append(up, [type |-> "chunk"])
    /\ SndGoes("await")
    /\ UNCHANGED <<disks, pod, rec, down, progress, remote, faults>>

HearsAck ==
    /\ snd.at = "await" /\ Hears("ack")
    /\ Renews("chunks", snd.file, Head(down).off, FALSE)
    /\ UNCHANGED <<up, completed>> /\ Heard

FileSent ==
    /\ snd.at = "chunks" /\ snd.off = Chunks[snd.file]
    /\ SndGoes("exchange")
    /\ UNCHANGED <<pod, prep, deployment>> /\ Cloud

HearsComplete ==
    /\ snd.at = "exchange" /\ Hears("complete")
    /\ SndGoes("cleanup")
    /\ UNCHANGED <<up, progress>> /\ Heard

HearsError ==
    /\ snd.at \in {"exchange", "await"} /\ Hears("error")
    /\ Gives
    /\ UNCHANGED <<up, progress>> /\ Heard

DeletesHelper ==
    /\ snd.at = "cleanup"
    /\ pod' = "absent" /\ rec' = NoReceiver
    /\ SndGoes("prepare")
    /\ UNCHANGED <<disks, stream, progress, remote, faults>>

AppliesPreparation ==
    /\ snd.at = "prepare"
    /\ prep' = "running"
    /\ SndGoes("deploy")
    /\ UNCHANGED <<pod, deployment>> /\ Cloud

AppliesDeployment ==
    /\ snd.at = "deploy"
    /\ deployment' = TRUE
    /\ Gives
    /\ UNCHANGED <<pod, prep>> /\ Cloud

(* A kubectl command fails for good, or the laptop goes away.                 *)
SubmitFails ==
    /\ snd.at # "idle" /\ Fault
    /\ Gives
    /\ rec' = [rec EXCEPT !.linked = FALSE]
    /\ UNCHANGED <<disks, pod, stream, progress, remote>>

Client ==
    \/ ChecksDeployment \/ ClearsController \/ ChecksController \/ FindsHelper \/ Connects
    \/ BacksOff \/ HearsDone \/ HearsNeed \/ SendsChunk \/ HearsAck \/ FileSent
    \/ HearsComplete \/ HearsError
    \/ DeletesHelper \/ AppliesPreparation \/ AppliesDeployment

-----------------------------------------------------------------------------
(* _restore_receiver: one process, under the lock of the helper.              *)
Site == UNCHANGED <<pod, snd, progress, remote, faults>>
Current == Order[rec.next]
Copy == FinalCopies[rec.next]
Goes(at) == rec' = [rec EXCEPT !.at = at]
Gets(type) == up # <<>> /\ Head(up).type = type

(* What it sends reaches the client, or ends it.                              *)
Says(message, then) ==
    IF rec.linked THEN down' = Append(down, message) /\ rec' = then
    ELSE rec' = NoReceiver /\ UNCHANGED down
Refuses == Says([type |-> "error"], NoReceiver) /\ UNCHANGED disks

ReceiverBegins ==
    /\ rec.at = "begin" /\ Gets("begin") /\ up' = Tail(up)
    /\ LET first == {copies["manifest"], copies["control"]}
           strict == journal = "complete"
       IN  IF "changed" \in first \/ (strict /\ "none" \in first)
           THEN Refuses
           ELSE /\ journal' = IF strict THEN journal ELSE "restoring"
                /\ rec' = [rec EXCEPT !.at = "file", !.strict = strict]
                /\ UNCHANGED <<results, part, copies, down>>
    /\ Site

Onwards ==     \* after a file
    IF rec.next = Len(Order) THEN [rec EXCEPT !.at = "copy", !.next = 1]
    ELSE [rec EXCEPT !.at = "file", !.next = @ + 1]
Done == [type |-> "done", file |-> Current]

ReusesFile ==
    /\ rec.at = "file" /\ results[Current] = "archived"
    /\ part' = IF rec.strict THEN part ELSE [part EXCEPT ![Current] = Empty]
    /\ Says(Done, Onwards)
    /\ UNCHANGED <<results, copies, journal, up>> /\ Site

RefusesFile ==
    /\ rec.at = "file"
    /\ results[Current] = "changed" \/ (results[Current] = "none" /\ rec.strict)
    /\ Refuses
    /\ UNCHANGED up /\ Site

NeedsFile ==
    /\ rec.at = "file" /\ results[Current] = "none" /\ ~rec.strict
    /\ Says([type |-> "need", file |-> Current, off |-> part[Current].len,
             good |-> part[Current].good],
            [rec EXCEPT !.at = "need"])
    /\ UNCHANGED <<disks, up>> /\ Site

Resumes ==
    /\ rec.at = "need" /\ (Gets("append") \/ Gets("restart")) /\ up' = Tail(up)
    /\ part' = IF Gets("append") THEN part ELSE [part EXCEPT ![Current] = Empty]
    /\ Goes("recv")
    /\ UNCHANGED <<results, copies, journal, down>> /\ Site

StoresChunk ==
    /\ rec.at = "recv" /\ part[Current].len < Chunks[Current]
    /\ Gets("chunk") /\ up' = Tail(up)
    /\ part' = [part EXCEPT ![Current].len = @ + 1]
    /\ Goes("ack")
    /\ UNCHANGED <<results, copies, journal, down>> /\ Site

Acknowledges ==
    /\ rec.at = "ack"
    /\ Says([type |-> "ack", off |-> part[Current].len], [rec EXCEPT !.at = "recv"])
    /\ UNCHANGED <<disks, up>> /\ Site

FileReceived ==
    /\ rec.at = "recv" /\ part[Current].len = Chunks[Current]
    /\ Goes("verify")
    /\ UNCHANGED <<disks, stream>> /\ Site

(* _publish links, so that nothing is ever overwritten.                       *)
Replaces(old) == TRUE    \* mutant: rename
MayLink(old) == old = "none"
PublishesFile ==
    /\ rec.at = "verify"
    /\ IF part[Current].good /\ MayLink(results[Current])
       THEN /\ results' = [results EXCEPT ![Current] = "archived"]
            /\ Goes("unlink")
            /\ UNCHANGED <<part, copies, journal, down>>
       ELSE Refuses
    /\ UNCHANGED up /\ Site

Unlinks ==
    /\ rec.at = "unlink"
    /\ part' = [part EXCEPT ![Current] = Empty]
    /\ Says(Done, Onwards)
    /\ UNCHANGED <<results, copies, journal, up>> /\ Site

(* The state and its backup on the control PVC, the manifest, the marker.     *)
CopiesLast ==
    /\ rec.at = "copy"
    /\ IF copies[Copy] = "changed" \/ (copies[Copy] = "none" /\ rec.strict)
       THEN Refuses
       ELSE /\ copies' = [copies EXCEPT ![Copy] = "archived"]
            /\ rec' = IF rec.next = Len(FinalCopies) THEN [rec EXCEPT !.at = "announce"]
                      ELSE [rec EXCEPT !.next = @ + 1]
            /\ UNCHANGED <<results, part, journal, down>>
    /\ UNCHANGED up /\ Site

Completes ==
    /\ rec.at = "announce"
    /\ journal' = "complete"
    /\ Says([type |-> "complete"], NoReceiver)
    /\ UNCHANGED <<results, part, copies, up>> /\ Site

(* A receiver nobody talks to any more ends with its inactivity timeout.      *)
ReceiverTimesOut ==
    /\ rec.at \in {"begin", "need", "recv"} /\ ~rec.linked
    /\ rec' = NoReceiver /\ up' = <<>>
    /\ UNCHANGED <<disks, down>> /\ Site

ReceiverSteps ==
    \/ ReceiverBegins \/ ReusesFile \/ RefusesFile \/ NeedsFile \/ Resumes \/ StoresChunk
    \/ Acknowledges \/ FileReceived \/ PublishesFile \/ Unlinks \/ CopiesLast \/ Completes
    \/ ReceiverTimesOut

-----------------------------------------------------------------------------
Talking == {"exchange", "chunks", "await"}

(* The stream breaks: the client backs off, unless an error was on its way.
   What the receiver was sent it may or may not get.                          *)
Breaks ==
    /\ snd.at \in Talking /\ ~Hears("error") /\ Fault
    /\ SndGoes("backoff")
    /\ rec' = [rec EXCEPT !.linked = FALSE]
    /\ \E n \in 0 .. Len(up) : up' = SubSeq(up, 1, n)
    /\ down' = <<>>
    /\ UNCHANGED <<disks, pod, progress, remote>>

(* Without a receiver the stream ends.                                        *)
StreamEnds ==
    /\ snd.at \in Talking /\ down = <<>> /\ ~rec.linked
    /\ SndGoes("backoff")
    /\ UNCHANGED <<pod, prep, deployment>> /\ Cloud

HelperDies ==
    /\ pod = "running" /\ Fault
    /\ pod' = "dead" /\ rec' = NoReceiver
    /\ UNCHANGED <<disks, snd, stream, progress, remote>>

-----------------------------------------------------------------------------
(* campaign-submit without an archive.                                        *)
Elsewhere == UNCHANGED <<pod, rec, snd, stream, progress, faults>>

PlainChecks ==
    /\ plain.left > 0 /\ ~plain.checked /\ pod = "absent"
    /\ plain' = [checked |-> TRUE, left |-> plain.left - 1]
    /\ UNCHANGED <<disks, prep, deployment>> /\ Elsewhere

PlainDeploys ==
    /\ plain.checked
    /\ plain' = [plain EXCEPT !.checked = FALSE]
    /\ prep' = "running" /\ deployment' = TRUE
    /\ UNCHANGED disks /\ Elsewhere

(* prepare_cluster_campaign                                                   *)
NeverMind == TRUE        \* mutant: the journal is not looked at
RestoreIsOver == journal # "restoring"
PreparationChecks ==
    /\ prep = "running"
    /\ prep' = IF RestoreIsOver THEN "passed" ELSE "failed"
    /\ UNCHANGED <<disks, deployment, plain>> /\ Elsewhere

(* With another digest the manifest and the state beside it are removed; the
   engine creates, or adds the new trials to, its state and saves it anyway.  *)
PreparationWrites ==
    /\ prep = "passed"
    /\ prep' = "done"
    /\ LET outdated == Appended /\ copies["manifest"] = "archived"
       IN  /\ results' = IF outdated THEN [results EXCEPT !["campaign"] = "none"] ELSE results
           /\ copies' = [copies EXCEPT
                    !["manifest"] = IF outdated THEN "none" ELSE @,
                    !["control"] = "changed", !["backup"] = "changed"]
    /\ UNCHANGED <<part, journal, deployment, plain>> /\ Elsewhere

(* The controller, once prepared.                                             *)
ControllerWrites ==
    /\ deployment /\ prep = "done"
    /\ results' = [results EXCEPT !["campaign"] = "changed"]
    /\ copies' = [copies EXCEPT !["manifest"] = "changed",
                                !["control"] = "changed", !["backup"] = "changed"]
    /\ UNCHANGED <<part, journal, remote>> /\ Elsewhere

Environment == PlainChecks \/ PlainDeploys
Campaign == PreparationChecks \/ PreparationWrites \/ ControllerWrites

Next ==
    \/ Submits \/ Client \/ SubmitFails \/ ReceiverSteps \/ Breaks \/ StreamEnds \/ HelperDies
    \/ Environment \/ Campaign

Spec == Init /\ [][Next]_vars

-----------------------------------------------------------------------------
(* What the campaign wrote itself is never replaced by the archive, not even
   when a controller starts in the middle of the restoration.                 *)
NothingIsOverwritten ==
    [][ /\ \A f \in Files : results[f] = "changed" => results'[f] # "archived"
        /\ \A c \in ToSet(FinalCopies) : copies[c] = "changed" => copies'[c] # "archived" ]_vars

(* A preparation only passes when no restoration has begun, or when there is a
   state and everything the trials left is in place, however often the stream
   broke.                                                                     *)
PreparesWholeCampaigns ==
    [][prep = "running" /\ prep' = "passed" =>
        \/ journal = "none"
        \/ /\ copies["control"] # "none"
           /\ \A f \in Files \ {"campaign"} : results[f] # "none"]_vars

Fairness ==
    /\ WF_vars(Client) /\ WF_vars(ReceiverSteps) /\ WF_vars(StreamEnds)
    /\ WF_vars(PreparationChecks) /\ WF_vars(PreparationWrites)
FairSpec == Spec /\ Fairness

(* A submission ends, even if the stream never stops breaking.                *)
EverySubmissionEnds == (snd.at # "idle") ~> (snd.at = "idle")

(* An operator who repeats the command after a failure has a controller in the
   end.                                                                       *)
RepeatingSpec == FairSpec /\ WF_vars(Submits)
RepeatingSucceeds == <>deployment
=============================================================================
