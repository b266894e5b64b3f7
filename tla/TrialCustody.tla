----------------------------- MODULE TrialCustody -----------------------------
(***************************************************************************)
(* What a campaign promises for the evidence of one trial, whatever it has *)
(* to do to keep the promise: the contents of the trial's storage are      *)
(* collected, judged and recorded on the results volume before the storage *)
(* may be released, and from judgement on they do not change unless the    *)
(* trial is explicitly resumed (docs/architecture.md: "Trial PVCs are      *)
(* deleted only after collection, assessment, and reporting have produced  *)
(* durable results").  CampaignEngine implements it, see CampaignProperties. *)
(***************************************************************************)

CONSTANT Subjects       \* the trials

VARIABLES
    stage,      \* how far each trial is
    storage,    \* its storage
    recorded    \* the results volume holds the last contents of the storage

custody == <<stage, storage, recorded>>

Stages == {"waiting", "launching", "executing", "collecting", "judging",
           "publishing", "cleaning", "closed", "stuck"}

CustodyTypeOK ==
    /\ stage \in [Subjects -> Stages]
    /\ storage \in [Subjects -> {"none", "held", "released", "lost"}]
    /\ recorded \in [Subjects -> BOOLEAN]

CustodyInit ==
    /\ stage = [t \in Subjects |-> "waiting"]
    /\ storage = [t \in Subjects |-> "none"]
    /\ recorded = [t \in Subjects |-> FALSE]

Stays(t) == stage'[t] = stage[t]
Held(t) == storage'[t] = storage[t]
Kept(t) == recorded'[t] = recorded[t]
Moves(t, from, to) == stage[t] \in from /\ stage'[t] = to /\ Held(t) /\ Kept(t)

(* The storage is provided while the trial launches, again if it was lost.  *)
Provide(t) ==
    /\ stage[t] = "launching" /\ storage[t] \in {"none", "lost"}
    /\ storage'[t] = "held" /\ recorded'[t] = FALSE
    /\ stage'[t] \in {"launching", "executing", "stuck"}
Lose(t) == storage[t] = "held" /\ storage'[t] = "lost" /\ Stays(t) /\ Kept(t)

(* A workload changes the contents while its trial executes, or when nobody
   answers for the trial any more; a deadline ends the workload and the
   execution together.                                                      *)
Change(t) ==
    /\ stage[t] \in {"launching", "executing", "stuck"} /\ storage[t] = "held"
    /\ Stays(t) \/ (stage[t] = "executing" /\ stage'[t] = "collecting")
    /\ Held(t)

(* Publication replaces the record as a whole and may lose the previous one;
   only a trial whose record is up to date gets to the cleanup.             *)
Record(t) ==
    /\ stage[t] = "publishing"
    /\ stage'[t] \in {"publishing", "stuck"} \/ (stage'[t] = "cleaning" /\ recorded'[t])
    /\ Held(t)

Release(t) ==
    /\ stage[t] = "cleaning" /\ recorded[t] /\ storage[t] = "held"
    /\ storage'[t] = "released" /\ stage'[t] \in {"cleaning", "closed"}
    /\ Kept(t)

(* An operator may resume a closed trial; one that waits, executes or is
   collected or judged may get stuck, and a stuck one whose artifacts are
   collected after all goes on.                                             *)
Advance(t) ==
    \/ Moves(t, {"waiting"}, "launching")
    \/ Moves(t, {"launching", "closed"}, "executing")
    \/ Moves(t, {"executing", "stuck"}, "collecting")
    \/ Moves(t, {"collecting"}, "judging")
    \/ Moves(t, {"collecting", "judging"}, "publishing")
    \/ Moves(t, {"cleaning"}, "closed")
    \/ Moves(t, Stages \ {"publishing", "cleaning", "closed"}, "stuck")

Step(t) == Provide(t) \/ Lose(t) \/ Change(t) \/ Record(t) \/ Release(t) \/ Advance(t)

(* One save of the campaign state can move several trials.                  *)
CustodyNext == \A t \in Subjects : Step(t) \/ (Stays(t) /\ Held(t) /\ Kept(t))

CustodySpec == CustodyInit /\ [][CustodyNext]_custody
=============================================================================
