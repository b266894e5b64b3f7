----------------------------- MODULE CampaignProofs -----------------------------
(***************************************************************************)
(* Theorems about the reconciliation engine for every number of trials,    *)
(* every limit of the plan and every set of faults.  Four invariants, each *)
(* of which needs the ones before it:                                      *)
(*                                                                         *)
(* Types and launches (IInv): a slot is only given out when one is left    *)
(* (SlotLeft), the three passes that start workloads run on an engine      *)
(* whose memory equals campaign.json (WalkSaved), and a call that starts a *)
(* workload is only in flight while campaign.json holds its phase          *)
(* (LaunchSaved).                                                          *)
(*                                                                         *)
(* Workloads (WInv): OneLiveJob and LiveJobTracked need each other, since  *)
(* a restart only deletes the Job its entry names.  They also need that    *)
(* the Job of a generation which was not charged yet does not exist, that  *)
(* the Job which replaces another one only exists once the other has       *)
(* stopped (Tracks), and what the engine knows while a call is in flight   *)
(* (CallTracks).                                                           *)
(*                                                                         *)
(* Evidence (EInv): campaign.json and the engine's memory differ only by   *)
(* what an inspection or a missing configuration tells, so that a crash    *)
(* forgets nothing about the evidence (MemoryCurrent).  What the storage,  *)
(* the collected copy and the published copy must be is a function of the  *)
(* saved phase (Evidence) and of the call in flight (CallEvidence).        *)
(*                                                                         *)
(* Admission (AInv): a place of max_parallel is taken from the moment a    *)
(* submission is saved until the workload is known to have ended, so the   *)
(* places taken by trials that were not continued and the slots left fit   *)
(* in it (Parallel); slots are only given out while no evaluation waits    *)
(* (Admission); the saved status says what the saved entries are           *)
(* (Settled); and an entry that is about to start a generation does not    *)
(* name it as its workload yet (Sound).                                    *)
(***************************************************************************)
EXTENDS CampaignProperties, FiniteSetTheorems, TLAPS

-----------------------------------------------------------------------------
(* What every backend call of TrialCluster guarantees, however it ends: the *)
(* site stays well formed, and the only Job it may start or create is the   *)
(* one it was asked for.                                                    *)

(* From s to n, no Job is started or appears but those of J.                *)
StartsOnly(J, s, n) ==
    \A j \in JobNames : j \notin J =>
        /\ n.jobs[j] = "active" => s.jobs[j] = "active"
        /\ s.jobs[j] = "absent" => n.jobs[j] = "absent"

(* A call's answers are well formed and start no other Job.                 *)
Faithful(J, s, replies) ==
    \A r \in replies : r.site \in Site /\ StartsOnly(J, s, r.site)

(* An answer that never came, or a refusal, leaves one of the states that
   were reached.                                                            *)
LEMMA UnansweredReached ==
    ASSUME NEW S, NEW r \in Unanswered(S)
    PROVE  r.site \in S
BY DEF Unanswered, Reply

LEMMA BrokenReached ==
    ASSUME NEW S, NEW r \in Broken(S)
    PROVE  r.site \in S
BY DEF Broken, Unanswered, Refused, Reply

(* A Job that takes another state leaves the site well formed.              *)
LEMMA JobSet ==
    ASSUME NEW s \in Site, NEW j \in JobNames, NEW x \in JobStates
    PROVE  /\ [s EXCEPT !.jobs[j] = x] \in Site
           /\ x # "active" /\ (s.jobs[j] = "absent" => x = "absent") =>
                StartsOnly({}, s, [s EXCEPT !.jobs[j] = x])
           /\ StartsOnly({j}, s, [s EXCEPT !.jobs[j] = x])
<1>1. [s.jobs EXCEPT ![j] = x] \in [JobNames -> JobStates]
  BY DEF Site
<1>. QED
  BY <1>1 DEF Site, StartsOnly

(* So does every other change a call makes to a site.                       *)
LEMMA FieldsSet ==
    ASSUME NEW s \in Site
    PROVE  /\ \A w \in Work : [s EXCEPT !.work = w] \in Site
           /\ [s EXCEPT !.pvc = "bound", !.work = "incomplete"] \in Site
           /\ [s EXCEPT !.pvc = IF @ = "bound" THEN "released" ELSE @] \in Site
           /\ \A x \in TransferStates : [s EXCEPT !.transfer = x] \in Site
           /\ \A h \in Handles : [s EXCEPT !.file = h] \in Site
           /\ \A h \in Handles : [s EXCEPT !.file = h, !.gathered = FALSE] \in Site
           /\ [s EXCEPT !.copy = "none"] \in Site
           /\ [s EXCEPT !.copy = s.work] \in Site
           /\ [s EXCEPT !.published = s.copy] \in Site
           /\ [s EXCEPT !.published = "none"] \in Site
           /\ [s EXCEPT !.transfer = "none", !.gathered = TRUE] \in Site
<1>1. "incomplete" \in Work /\ "bound" \in PvcStates /\ "released" \in PvcStates
  BY DEF Work, PvcStates
<1>2. "none" \in TransferStates
  BY DEF TransferStates
<1>. QED
  BY <1>1, <1>2 DEF Site

(* Deleting a Job keeps the site well formed and starts nothing.            *)
LEMMA DeletedFaithful ==
    ASSUME NEW s \in Site, NEW j, NEW c \in Deleted(s, j)
    PROVE  /\ c \in Site
           /\ StartsOnly({}, s, c)
<1>1. CASE j \notin JobNames
  BY <1>1 DEF Deleted, StartsOnly
<1>2. CASE j \in JobNames
  <2> DEFINE d == [s EXCEPT !.jobs[j] = "absent"]
  <2>1. PICK w \in Work : c = [s EXCEPT !.jobs[j] = "absent", !.work = w]
    BY <1>2 DEF Deleted, Progress, Site
  <2>2. c = [d EXCEPT !.work = w]
    BY <2>1 DEF Site
  <2>3. d \in Site /\ StartsOnly({}, s, d)
    BY <1>2, JobSet DEF JobStates
  <2>4. c \in Site /\ c.jobs = d.jobs
    BY <2>2, <2>3 DEF Site
  <2>. QED
    BY <2>3, <2>4 DEF StartsOnly
<1>. QED
  BY <1>1, <1>2

(* submit() starts nothing but the trial's first Job.                       *)
LEMMA SubmitFaithful ==
    ASSUME NEW s \in Site
    PROVE  Faithful({First}, s, SubmitReplies(s))
<1> DEFINE held    == IF s.pvc = "bound" THEN s
                      ELSE [s EXCEPT !.pvc = "bound", !.work = "incomplete"]
           started == [held EXCEPT !.jobs[First] = "active"]
           named   == [started EXCEPT !.file = First, !.gathered = FALSE]
           adopted == [s EXCEPT !.file = First]
<1>1. First \in JobNames /\ First \in Handles
  BY DEF JobNames, Handles
<1>2. held \in Site /\ held.jobs = s.jobs
  BY FieldsSet DEF Site
<1>3. started \in Site /\ StartsOnly({First}, held, started)
  <2>1. "active" \in JobStates
    BY DEF JobStates
  <2> HIDE DEF held
  <2>. QED
    BY <1>1, <1>2, <2>1, JobSet
<1>4. named \in Site /\ named.jobs = started.jobs
  <2> HIDE DEF started
  <2>. QED
    BY <1>1, <1>3, FieldsSet DEF Site
<1>5. adopted \in Site /\ adopted.jobs = s.jobs
  BY <1>1, FieldsSet DEF Site
<1>6. ASSUME NEW r \in SubmitReplies(s)
      PROVE  r.site \in {s, held, started, named, adopted}
  BY DEF SubmitReplies, Reply, Broken, Unanswered, Refused
<1> HIDE DEF held, started, named, adopted
<1>7. \A n \in {s, held, started, named, adopted} : n \in Site /\ StartsOnly({First}, s, n)
  BY <1>2, <1>3, <1>4, <1>5 DEF StartsOnly
<1>. QED
  BY <1>6, <1>7 DEF Faithful

(* restart() starts nothing but the Job of its generation, and nothing at all
   for generation 0.                                                        *)
LEMMA RestartFaithful ==
    ASSUME NEW s \in Site, NEW h, NEW kind, NEW n \in Nat,
           n >= 1 => <<kind, n>> \in JobNames
    PROVE  Faithful({<<kind, n>>}, s, RestartReplies(s, h, kind, n))
<1> DEFINE target  == <<kind, n>>
           cleared == Deleted(s, h)
           started == {[c EXCEPT !.jobs[target] = "active"] : c \in cleared}
           named   == {[c EXCEPT !.file = target, !.gathered = FALSE] :
                         c \in {s} \cup started}
<1>1. CASE n < 1 \/ s.pvc # "bound"
  <2>1. ASSUME NEW r \in RestartReplies(s, h, kind, n)
        PROVE  r.site = s
    <3>1. RestartReplies(s, h, kind, n) = Unanswered({s}) \cup {Reply("error", s)}
      BY <1>1 DEF RestartReplies
    <3>. QED
      BY <3>1 DEF Reply, Unanswered
  <2>. QED
    BY <2>1 DEF Faithful, StartsOnly
<1>2. CASE ~(n < 1 \/ s.pvc # "bound")
  <2>1. target \in JobNames /\ target \in Handles
    BY <1>2 DEF Handles
  <2>2. \A c \in cleared : c \in Site /\ StartsOnly({}, s, c)
    BY DeletedFaithful
  <2>3. \A c \in started : c \in Site /\ StartsOnly({target}, s, c)
    <3>1. SUFFICES ASSUME NEW c \in cleared
                   PROVE  /\ [c EXCEPT !.jobs[target] = "active"] \in Site
                          /\ StartsOnly({target}, s, [c EXCEPT !.jobs[target] = "active"])
      OBVIOUS
    <3> HIDE DEF cleared, target
    <3>2. "active" \in JobStates
      BY DEF JobStates
    <3>. QED
      BY <2>1, <2>2, <3>2, JobSet DEF StartsOnly
  <2>4. \A c \in named : c \in Site /\ StartsOnly({target}, s, c)
    <3>1. SUFFICES ASSUME NEW c \in {s} \cup started
                   PROVE  /\ [c EXCEPT !.file = target, !.gathered = FALSE] \in Site
                          /\ StartsOnly({target}, s, [c EXCEPT !.file = target, !.gathered = FALSE])
      OBVIOUS
    <3> HIDE DEF started, target
    <3>2. c \in Site /\ StartsOnly({target}, s, c)
      BY <2>3 DEF StartsOnly
    <3>3. [c EXCEPT !.file = target, !.gathered = FALSE].jobs = c.jobs
      BY <3>2 DEF Site
    <3>. QED
      BY <2>1, <3>2, <3>3, FieldsSet DEF StartsOnly
  <2>5. ASSUME NEW r \in RestartReplies(s, h, kind, n)
        PROVE  r.site \in {s} \cup cleared \cup started \cup named
    <3> DEFINE Recorded(c) == Reply("ok", [c EXCEPT !.file = target, !.gathered = FALSE])
    <3>1. CASE s.jobs[target] # "absent"
      <4>1. RestartReplies(s, h, kind, n) = Broken({s}) \cup {Recorded(s)}
        BY <1>2, <3>1 DEF RestartReplies
      <4>2. Recorded(s).site = [s EXCEPT !.file = target, !.gathered = FALSE]
        BY DEF Reply
      <4>3. Recorded(s).site \in named
        BY <4>2
      <4> HIDE DEF Recorded, named
      <4>. QED
        BY <4>1, <4>3, BrokenReached
    <3>2. CASE ~(s.jobs[target] # "absent")
      <4>1. RestartReplies(s, h, kind, n) =
                Broken({s} \cup cleared) \cup Unanswered(started)
                    \cup {Recorded(c) : c \in started}
        BY <1>2, <3>2 DEF RestartReplies
      <4> HIDE DEF cleared, started
      <4>2. \A c \in started :
                Recorded(c).site = [c EXCEPT !.file = target, !.gathered = FALSE]
        BY DEF Reply
      <4>3. \A c \in started : Recorded(c).site \in named
        BY <4>2
      <4> HIDE DEF Recorded, named
      <4>. QED
        BY <4>1, <4>3, BrokenReached, UnansweredReached
    <3>. QED
      BY <3>1, <3>2
  <2> HIDE DEF cleared, started, named, target
  <2>6. \A c \in {s} \cup cleared \cup started \cup named :
            c \in Site /\ StartsOnly({target}, s, c)
    BY <2>2, <2>3, <2>4 DEF StartsOnly
  <2>. QED
    BY <2>5, <2>6 DEF Faithful, target
<1>. QED
  BY <1>1, <1>2

(* terminate() starts nothing.                                              *)
LEMMA TerminateFaithful ==
    ASSUME NEW s \in Site, NEW h
    PROVE  Faithful({}, s, TerminateReplies(s, h))
<1>1. \A r \in TerminateReplies(s, h) : r.site \in {s} \cup Deleted(s, h)
  BY DEF TerminateReplies, Reply, Broken, Unanswered, Refused
<1>. QED
  BY <1>1, DeletedFaithful DEF Faithful, StartsOnly

(* collect() starts no workload.                                            *)
LEMMA CollectFaithful ==
    ASSUME NEW s \in Site
    PROVE  Faithful({}, s, CollectReplies(s))
<1> DEFINE submitted == [s EXCEPT !.transfer = "active"]
           removed   == [s EXCEPT !.transfer = "none"]
           gathered  == [removed EXCEPT !.gathered = TRUE]
<1>1. submitted \in Site /\ removed \in Site /\ gathered \in Site
  <2>1. gathered = [s EXCEPT !.transfer = "none", !.gathered = TRUE]
    BY DEF Site
  <2>2. {"active", "none"} \subseteq TransferStates
    BY DEF TransferStates
  <2>. QED
    BY <2>1, <2>2, FieldsSet
<1>2. submitted.jobs = s.jobs /\ removed.jobs = s.jobs /\ gathered.jobs = s.jobs
  BY DEF Site
<1>3. ASSUME NEW r \in CollectReplies(s)
      PROVE  r.site \in {s, submitted, removed, gathered}
  <2>1. s.transfer \in {"none", "active", "complete", "failed"}
    BY DEF Site, TransferStates
  <2>. QED
    BY <2>1 DEF CollectReplies, Reply, Broken, Unanswered, Refused
<1> HIDE DEF submitted, removed, gathered
<1>. QED
  BY <1>1, <1>2, <1>3 DEF Faithful, StartsOnly

(* publish_trial_results() starts nothing.                                  *)
LEMMA PublishFaithful ==
    ASSUME NEW s \in Site
    PROVE  Faithful({}, s, PublishReplies(s))
<1> DEFINE new  == [s EXCEPT !.published = s.copy]
           gone == [s EXCEPT !.published = "none"]
<1>1. new \in Site /\ gone \in Site /\ new.jobs = s.jobs /\ gone.jobs = s.jobs
  BY FieldsSet DEF Site
<1>2. ASSUME NEW r \in PublishReplies(s)
      PROVE  r.site \in {s, new, gone}
  BY DEF PublishReplies, Reply, Refused
<1> HIDE DEF new, gone
<1>. QED
  BY <1>1, <1>2 DEF Faithful, StartsOnly

(* cleanup() starts nothing.                                                *)
LEMMA CleanupFaithful ==
    ASSUME NEW s \in Site, NEW h, NEW retain
    PROVE  Faithful({}, s, CleanupReplies(s, h, retain))
<1> DEFINE swept   == [s EXCEPT !.transfer = "none"]
           cleared == Deleted(swept, h)
           Gone(c) == [c EXCEPT !.pvc = IF @ = "bound" THEN "released" ELSE @]
           emptied == {Gone(c) : c \in cleared}
<1>1. swept \in Site /\ swept.jobs = s.jobs
  <2>1. "none" \in TransferStates
    BY DEF TransferStates
  <2>. QED
    BY <2>1, FieldsSet DEF Site
<1>2. \A c \in cleared : c \in Site /\ StartsOnly({}, s, c)
  <2> HIDE DEF swept
  <2>. QED
    BY <1>1, DeletedFaithful DEF StartsOnly
<1>3. \A c \in emptied : c \in Site /\ StartsOnly({}, s, c)
  <2>1. SUFFICES ASSUME NEW c \in cleared
                 PROVE  Gone(c) \in Site /\ StartsOnly({}, s, Gone(c))
    OBVIOUS
  <2> HIDE DEF cleared
  <2>2. Gone(c) \in Site /\ Gone(c).jobs = c.jobs
    BY <1>2, FieldsSet DEF Site
  <2>. QED
    BY <1>2, <2>2 DEF StartsOnly
<1>4. ASSUME NEW r \in CleanupReplies(s, h, retain)
      PROVE  r.site \in {s, swept} \cup cleared \cup emptied
  BY DEF CleanupReplies, Reply, Broken, Unanswered, Refused
<1> HIDE DEF swept, cleared, emptied
<1>. QED
  BY <1>1, <1>2, <1>3, <1>4 DEF Faithful, StartsOnly

(* A Job that ends was running.                                             *)
LEMMA JobEnded ==
    ASSUME NEW s \in Site, NEW n \in JobOutcomes(s)
    PROVE  \E j \in LiveJobs(s), e \in {"succeeded", "failed", "retryable"}, w \in Work :
                n = [s EXCEPT !.jobs[j] = e, !.work = w]
<1> DEFINE End(j, e, w) == [s EXCEPT !.jobs[j] = e, !.work = w]
           Ends(j) == {End(j, e, w) : e \in {"succeeded", "failed", "retryable"},
                                      w \in Progress(j, s.work)}
<1>1. JobEnds(s) = UNION {Ends(j) : j \in LiveJobs(s)}
  BY DEF JobEnds
<1>2. PICK j \in LiveJobs(s) : n \in Ends(j)
  <2> HIDE DEF Ends
  <2>. QED
    BY <1>1 DEF JobOutcomes
<1>3. PICK e \in {"succeeded", "failed", "retryable"}, w \in Progress(j, s.work) :
        n = End(j, e, w)
  <2> HIDE DEF End
  <2>. QED
    BY <1>2
<1>4. w \in Work
  BY DEF Progress
<1>. QED
  BY <1>3, <1>4

(* What happens around the controller starts nothing either.                *)
LEMMA WorldFaithful ==
    ASSUME NEW s \in Site
    PROVE  /\ \A n \in JobOutcomes(s) \cup JobVanishes(s) \cup TransferOutcomes(s) :
                  n \in Site /\ StartsOnly({}, s, n)
           /\ StorageVanishes(s) \in Site /\ StartsOnly({}, s, StorageVanishes(s))
<1>1. ASSUME NEW n \in JobOutcomes(s)
      PROVE  n \in Site /\ StartsOnly({}, s, n)
  <2>1. PICK j \in LiveJobs(s), e \in {"succeeded", "failed", "retryable"}, w \in Work :
            n = [s EXCEPT !.jobs[j] = e, !.work = w]
    BY JobEnded
  <2> DEFINE d == [s EXCEPT !.jobs[j] = e]
  <2>2. n = [d EXCEPT !.work = w]
    BY <2>1 DEF Site
  <2>3. d \in Site /\ StartsOnly({}, s, d)
    <3>1. j \in JobNames /\ e \in JobStates /\ e # "active" /\ s.jobs[j] # "absent"
      BY <2>1 DEF JobStates, LiveJobs
    <3>. QED
      BY <3>1, JobSet
  <2> HIDE DEF d
  <2>4. n \in Site /\ n.jobs = d.jobs
    BY <2>2, <2>3, FieldsSet DEF Site
  <2>. QED
    BY <2>3, <2>4 DEF StartsOnly
<1>2. ASSUME NEW n \in JobVanishes(s)
      PROVE  n \in Site /\ StartsOnly({}, s, n)
  BY DeletedFaithful DEF JobVanishes
<1>3. ASSUME NEW n \in TransferOutcomes(s)
      PROVE  n \in Site /\ StartsOnly({}, s, n)
  <2>1. n \in {[s EXCEPT !.transfer = "failed"], [s EXCEPT !.transfer = "complete"],
               [s EXCEPT !.copy = s.work]}
    BY DEF TransferOutcomes
  <2>2. {"failed", "complete"} \subseteq TransferStates
    BY DEF TransferStates
  <2>3. n \in Site
    <3>1. \A x \in {"failed", "complete"} : [s EXCEPT !.transfer = x] \in Site
      BY <2>2, FieldsSet
    <3>. QED
      BY <2>1, <3>1, FieldsSet
  <2>4. n.jobs = s.jobs
    BY <2>1 DEF Site
  <2>. QED
    BY <2>3, <2>4 DEF StartsOnly
<1>4. StorageVanishes(s) \in Site /\ StartsOnly({}, s, StorageVanishes(s))
  BY DEF StorageVanishes, Site, StartsOnly, JobStates, PvcStates, TransferStates
<1>. QED
  BY <1>1, <1>2, <1>3, <1>4

-----------------------------------------------------------------------------
(* The engine.                                                              *)

SlotLeft == ctl.pass = "admit" /\ ctl.call = "submit" => ctl.slots > 0

WalkSaved ==
    /\ ctl.pass \in {"submit", "restart", "continue"} => mem = disk
    /\ ctl.call = "inspect" => ctl.pass = "reconcile"

LaunchCalls == {"submit", "restart", "continue"}
LaunchSaved ==
    ctl.call \in LaunchCalls =>
        /\ ctl.pass \in Passes /\ ctl.at \in Trials
        /\ mem = disk
        /\ ctl.call = "submit" => disk[ctl.at].phase = "submitting"
        /\ ctl.call = "restart" => disk[ctl.at].phase = "infrastructure_retrying"
        /\ ctl.call = "continue" => disk[ctl.at].phase = "continuation_retrying"

IInv == TypeOK /\ SlotLeft /\ WalkSaved /\ LaunchSaved

-----------------------------------------------------------------------------
(* Types.                                                                   *)

(* A trial's entry keeps its type when the engine sets one field of it.     *)
LEMMA OneField ==
    ASSUME NEW m \in [Trials -> Entry], NEW t \in Trials
    PROVE  /\ \A p \in Phases : [m EXCEPT ![t].phase = p] \in [Trials -> Entry]
           /\ \A h \in Handles : [m EXCEPT ![t].handle = h] \in [Trials -> Entry]
           /\ \A n \in 0 .. SubmissionMax : [m EXCEPT ![t].sub = n] \in [Trials -> Entry]
           /\ \A n \in 0 .. CollectionMax : [m EXCEPT ![t].coll = n] \in [Trials -> Entry]
           /\ \A n \in 0 .. PublicationMax : [m EXCEPT ![t].pub = n] \in [Trials -> Entry]
           /\ \A n \in 0 .. MaxRestarts : [m EXCEPT ![t].infra = n] \in [Trials -> Entry]
           /\ \A n \in 0 .. MaxContinuations : [m EXCEPT ![t].cont = n] \in [Trials -> Entry]
           /\ \A l \in BOOLEAN : [m EXCEPT ![t].live = l] \in [Trials -> Entry]
           /\ \A b \in Endings : [m EXCEPT ![t].backend = b] \in [Trials -> Entry]
           /\ \A w \in Work \cup {"none"} : [m EXCEPT ![t].pipe = w] \in [Trials -> Entry]
           /\ \A k \in BOOLEAN : [m EXCEPT ![t].kept = k] \in [Trials -> Entry]
           /\ \A o \in Outcomes : [m EXCEPT ![t].outcome = o] \in [Trials -> Entry]
<1>1. \A p \in Phases : [m EXCEPT ![t].phase = p] \in [Trials -> Entry]
  BY DEF Entry
<1>2. \A h \in Handles : [m EXCEPT ![t].handle = h] \in [Trials -> Entry]
  BY DEF Entry
<1>3. \A n \in 0 .. SubmissionMax : [m EXCEPT ![t].sub = n] \in [Trials -> Entry]
  BY DEF Entry
<1>4. \A n \in 0 .. CollectionMax : [m EXCEPT ![t].coll = n] \in [Trials -> Entry]
  BY DEF Entry
<1>5. \A n \in 0 .. PublicationMax : [m EXCEPT ![t].pub = n] \in [Trials -> Entry]
  BY DEF Entry
<1>6. \A n \in 0 .. MaxRestarts : [m EXCEPT ![t].infra = n] \in [Trials -> Entry]
  BY DEF Entry
<1>7. \A n \in 0 .. MaxContinuations : [m EXCEPT ![t].cont = n] \in [Trials -> Entry]
  BY DEF Entry
<1>8. \A l \in BOOLEAN : [m EXCEPT ![t].live = l] \in [Trials -> Entry]
  BY DEF Entry
<1>9. \A b \in Endings : [m EXCEPT ![t].backend = b] \in [Trials -> Entry]
  BY DEF Entry
<1>10. \A w \in Work \cup {"none"} : [m EXCEPT ![t].pipe = w] \in [Trials -> Entry]
  BY DEF Entry
<1>11. \A k \in BOOLEAN : [m EXCEPT ![t].kept = k] \in [Trials -> Entry]
  BY DEF Entry
<1>12. \A o \in Outcomes : [m EXCEPT ![t].outcome = o] \in [Trials -> Entry]
  BY DEF Entry
<1>. QED
  BY <1>1, <1>2, <1>3, <1>4, <1>5, <1>6, <1>7, <1>8, <1>9, <1>10, <1>11, <1>12

(* The combinations of fields the engine sets at once do not disturb it.    *)
LEMMA HandleSet ==
    ASSUME NEW m \in [Trials -> Entry], NEW t \in Trials, NEW p \in Phases, NEW h \in Handles
    PROVE  [m EXCEPT ![t].handle = h, ![t].phase = p] \in [Trials -> Entry]
<1>1. [m EXCEPT ![t].handle = h, ![t].phase = p]
        = [[m EXCEPT ![t].handle = h] EXCEPT ![t].phase = p]
  BY DEF Entry
<1>. QED
  BY <1>1, OneField

(* A relaunch.                                                              *)
LEMMA LaunchSet ==
    ASSUME NEW m \in [Trials -> Entry], NEW t \in Trials, NEW p \in Phases, NEW h \in Handles
    PROVE  [m EXCEPT ![t].handle = h, ![t].phase = p, ![t].live = TRUE,
                     ![t].pipe = "none", ![t].outcome = "none"] \in [Trials -> Entry]
<1> DEFINE n == [m EXCEPT ![t].handle = h, ![t].phase = p]
           k == [n EXCEPT ![t].live = TRUE]
           l == [k EXCEPT ![t].pipe = "none"]
<1>1. [m EXCEPT ![t].handle = h, ![t].phase = p, ![t].live = TRUE,
                ![t].pipe = "none", ![t].outcome = "none"]
        = [l EXCEPT ![t].outcome = "none"]
  BY DEF Entry
<1>2. n \in [Trials -> Entry]
  BY HandleSet
<1>3. k \in [Trials -> Entry]
  <2> HIDE DEF n
  <2>. QED
    BY <1>2, OneField
<1>4. l \in [Trials -> Entry]
  <2> HIDE DEF k
  <2>. QED
    BY <1>3, OneField
<1> HIDE DEF l
<1>. QED
  BY <1>1, <1>4, OneField DEF Outcomes

(* A submission attempt.                                                    *)
LEMMA ChargeSet ==
    ASSUME NEW m \in [Trials -> Entry], NEW t \in Trials, NEW p \in Phases, NEW n \in 0 .. SubmissionMax
    PROVE  [m EXCEPT ![t].phase = p, ![t].sub = n] \in [Trials -> Entry]
<1>1. [m EXCEPT ![t].phase = p, ![t].sub = n]
        = [[m EXCEPT ![t].phase = p] EXCEPT ![t].sub = n]
  BY DEF Entry
<1>. QED
  BY <1>1, OneField

(* An infrastructure restart.                                               *)
LEMMA GenerationSet ==
    ASSUME NEW m \in [Trials -> Entry], NEW t \in Trials, NEW p \in Phases, NEW n \in 0 .. MaxRestarts
    PROVE  [m EXCEPT ![t].infra = n, ![t].phase = p] \in [Trials -> Entry]
<1>1. [m EXCEPT ![t].infra = n, ![t].phase = p]
        = [[m EXCEPT ![t].infra = n] EXCEPT ![t].phase = p]
  BY DEF Entry
<1>. QED
  BY <1>1, OneField

(* A collection attempt.                                                    *)
LEMMA BackendSet ==
    ASSUME NEW m \in [Trials -> Entry], NEW t \in Trials, NEW p \in Phases, NEW b \in Endings
    PROVE  [m EXCEPT ![t].phase = p, ![t].backend = b] \in [Trials -> Entry]
<1>1. [m EXCEPT ![t].phase = p, ![t].backend = b]
        = [[m EXCEPT ![t].phase = p] EXCEPT ![t].backend = b]
  BY DEF Entry
<1>. QED
  BY <1>1, OneField

(* An ended workload.                                                       *)
LEMMA DeadlineSet ==
    ASSUME NEW m \in [Trials -> Entry], NEW t \in Trials, NEW p \in Phases
    PROVE  [m EXCEPT ![t].live = FALSE, ![t].backend = "failed", ![t].phase = p]
                \in [Trials -> Entry]
<1> DEFINE n == [m EXCEPT ![t].live = FALSE]
           k == [n EXCEPT ![t].backend = "failed"]
<1>1. [m EXCEPT ![t].live = FALSE, ![t].backend = "failed", ![t].phase = p]
        = [k EXCEPT ![t].phase = p]
  BY DEF Entry
<1>2. n \in [Trials -> Entry]
  BY OneField
<1>3. k \in [Trials -> Entry]
  <2> HIDE DEF n
  <2>. QED
    BY <1>2, OneField DEF Endings
<1> HIDE DEF k
<1>. QED
  BY <1>1, <1>3, OneField

(* An outcome.                                                              *)
LEMMA OutcomeSet ==
    ASSUME NEW m \in [Trials -> Entry], NEW t \in Trials, NEW p \in Phases, NEW o \in Outcomes
    PROVE  [m EXCEPT ![t].phase = p, ![t].outcome = o] \in [Trials -> Entry]
<1>1. [m EXCEPT ![t].phase = p, ![t].outcome = o]
        = [[m EXCEPT ![t].phase = p] EXCEPT ![t].outcome = o]
  BY DEF Entry
<1>. QED
  BY <1>1, OneField

(* A workload that is no longer live.                                       *)
LEMMA LiveSet ==
    ASSUME NEW m \in [Trials -> Entry], NEW t \in Trials, NEW p \in Phases
    PROVE  [m EXCEPT ![t].phase = p, ![t].live = FALSE] \in [Trials -> Entry]
<1>1. [m EXCEPT ![t].phase = p, ![t].live = FALSE]
        = [[m EXCEPT ![t].phase = p] EXCEPT ![t].live = FALSE]
  BY DEF Entry
<1>. QED
  BY <1>1, OneField

(* A counter never passes its limit.                                        *)
LEMMA ChargeBounded ==
    ASSUME NEW limit \in Nat, NEW n \in 0 .. limit
    PROVE  Charge(n, limit) \in 0 .. limit
BY DEF Charge

(* The slots an admission can give out are bounded by max_parallel.         *)
LEMMA RoomBounded == Room \in 0 .. MaxParallel
<1> DEFINE holders == {t \in Trials : Occupies(mem[t])}
<1>1. IsFiniteSet(Trials)
  BY NumTrialsAssumption, FS_Interval DEF Trials
<1>2. Cardinality(holders) \in Nat
  BY <1>1, FS_Subset, FS_CardinalityType
<1>3. MaxParallel \in Nat /\ 1 \in Trials
  BY NumTrialsAssumption, PlanAssumption DEF Trials
<1>4. \/ Room = 0
      \/ Room = MaxParallel - Cardinality(holders) /\ ~(Cardinality(holders) >= MaxParallel)
  BY <1>3 DEF Room
<1> HIDE DEF holders
<1>. QED
  BY <1>2, <1>3, <1>4

Table == [Trials -> Entry]

(* _initialize turns a well-formed table into a well-formed table.          *)
LEMMA RecoveredTyped ==
    ASSUME NEW m \in Table
    PROVE  Recovered(m) \in Table
<1> DEFINE Resumed(p) == CASE p = "collecting" -> "collection_pending"
                           [] p = "evaluating" -> "evaluation_pending"
                           [] p = "publishing" -> "publication_pending"
                           [] OTHER -> p
<1>1. \A p \in Phases : Resumed(p) \in Phases
  BY DEF Phases
<1>2. \A t \in Trials : [m[t] EXCEPT !.phase = Resumed(m[t].phase)] \in Entry
  <2> HIDE DEF Resumed
  <2>. QED
    BY <1>1 DEF Table, Entry
<1>. QED
  BY <1>2 DEF Recovered, Table

(* A step after which no call that starts a workload is in flight.          *)
LEMMA Quiet ==
    ASSUME mem' \in Table, disk' \in Table, site' \in [Trials -> Site],
           waiting' \subseteq Trials, status' \in Statuses, ctl' \in Control,
           ctl'.call \notin LaunchCalls,
           ctl'.call = "inspect" => ctl'.pass = "reconcile",
           ctl'.pass \in {"submit", "restart", "continue"} => mem' = disk'
    PROVE  IInv'
BY DEF IInv, TypeOK, SlotLeft, WalkSaved, LaunchSaved, LaunchCalls, Table

(* What the walk does between two trials leaves the control well formed.    *)
LEMMA Moves ==
    ASSUME ctl \in Control, ctl.at \in Trials
    PROVE  /\ NextTrial => ctl' \in Control /\ ctl'.call = "none" /\ ctl'.pass = ctl.pass
           /\ \A c \in Calls : Issue(c) =>
                ctl' \in Control /\ ctl'.call = c /\ ctl'.pass = ctl.pass /\ ctl'.at = ctl.at
<1>1. ctl.at + 1 \in 1 .. NumTrials + 1
  BY NumTrialsAssumption DEF Trials
<1>2. "none" \in Calls /\ "none" \in Endings
  BY DEF Calls, Endings
<1>. QED
  BY <1>1, <1>2 DEF NextTrial, Issue, Control

(* A trial the walk visits takes its place in the control.                  *)
LEMMA Visiting ==
    ASSUME ctl \in Control, NEW t \in Trials, NEW c \in Calls, At(t, c)
    PROVE  /\ ctl' \in Control /\ ctl'.call = c /\ ctl'.at = t
           /\ ctl'.pass = ctl.pass /\ ctl'.slots = ctl.slots
<1>1. t \in 1 .. NumTrials + 1 /\ t + 1 \in 1 .. NumTrials + 1
  BY NumTrialsAssumption DEF Trials
<1>. QED
  BY <1>1 DEF At, Control

(* The idle control.                                                        *)
LEMMA IdleTyped ==
    /\ Idle \in Control /\ Idle.call = "none" /\ Idle.pass = "idle"
    /\ [Idle EXCEPT !.pass = "raised"] \in Control
    /\ [Idle EXCEPT !.pass = "raised"].call = "none"
    /\ [Idle EXCEPT !.pass = "raised"].pass = "raised"
    /\ [Idle EXCEPT !.pass = "submit"] \in Control
    /\ [Idle EXCEPT !.pass = "submit"].call = "none"
    /\ [Idle EXCEPT !.pass = "submit"].pass = "submit"
<1>1. 1 \in 1 .. NumTrials + 1 /\ 0 \in 0 .. MaxParallel
  BY NumTrialsAssumption, PlanAssumption
<1>. QED
  BY <1>1 DEF Idle, Control, Calls, Passes, Endings

(* A pause and an exception end the walk.                                   *)
LEMMA Stops ==
    ASSUME NEW m \in Table, disk \in Table, status \in Statuses, Paused(m) \/ Raised(m)
    PROVE  /\ mem' \in Table /\ disk' \in Table /\ status' \in Statuses /\ ctl' \in Control
           /\ ctl'.call = "none" /\ ctl'.pass \in {"idle", "raised"}
<1>1. CASE Paused(m)
  BY <1>1, IdleTyped, PauseAssumption DEF Paused, Saved, Statuses
<1>2. CASE Raised(m)
  BY <1>2, IdleTyped DEF Raised, Keep
<1>. QED
  BY <1>1, <1>2

(* A saved table is the table in memory.                                    *)
LEMMA Saves ==
    ASSUME NEW m \in Table, Save(m)
    PROVE  mem' \in Table /\ disk' \in Table /\ mem' = disk' /\ mem' = m /\ status' \in Statuses
BY DEF Save, Saved, Statuses

(* The answer of a call that is faithful leaves the sites well formed.      *)
LEMMA AnswerTyped ==
    ASSUME site \in [Trials -> Site], NEW t \in Trials, NEW J, NEW S,
           Faithful(J, site[t], S), NEW r \in S, Answered(t, r)
    PROVE  site' \in [Trials -> Site]
BY DEF Faithful, Answered

-----------------------------------------------------------------------------
(* The walk.                                                                *)

(* Starting an advance preserves the invariant.                             *)
LEMMA StartAdvanceStep == IInv /\ StartAdvance => IInv'
<1> SUFFICES ASSUME IInv, StartAdvance PROVE IInv'
  OBVIOUS
<1>1. Recovered(disk) \in Table
  BY RecoveredTyped DEF IInv, TypeOK, Table
<1>2. /\ mem' = Recovered(disk) /\ disk' = mem' /\ status' \in Statuses
  BY DEF StartAdvance, Saved, Statuses, IInv, TypeOK
<1>3. ctl' \in Control /\ ctl'.call = "none"
  BY IdleTyped DEF StartAdvance
<1>4. site' \in [Trials -> Site] /\ waiting' \subseteq Trials
  BY DEF StartAdvance, IInv, TypeOK
<1>. QED
  BY <1>1, <1>2, <1>3, <1>4, Quiet DEF LaunchCalls

(* So does the request for a continuation.                                  *)
LEMMA RequestContinuationStep ==
    ASSUME IInv, NEW t \in Trials, RequestContinuation(t)
    PROVE  IInv'
<1> DEFINE m == Recovered(disk)
           n == [m EXCEPT ![t].phase = "continuation_retrying",
                          ![t].cont = @ + 1, ![t].live = FALSE]
<1>1. m \in Table
  BY RecoveredTyped DEF IInv, TypeOK, Table
<1>2. m[t].cont = disk[t].cont
  BY DEF Recovered, IInv, TypeOK, Entry
<1>3. m[t].cont + 1 \in 0 .. MaxContinuations
  BY <1>2, MaxContinuationsAssumption DEF IInv, TypeOK, Entry, RequestContinuation
<1>4. Save(n)
  BY DEF RequestContinuation
<1> HIDE DEF m
<1>5. n = [[[m EXCEPT ![t].phase = "continuation_retrying"] EXCEPT ![t].cont = m[t].cont + 1]
                EXCEPT ![t].live = FALSE]
  BY <1>1 DEF Table, Entry
<1>6. n \in Table
  <2>1. "continuation_retrying" \in Phases
    BY DEF Phases
  <2>. QED
    BY <1>1, <1>3, <1>5, <2>1, OneField DEF Table
<1>7. /\ mem' \in Table /\ disk' = mem' /\ status' \in Statuses
  <2> HIDE DEF n
  <2>. QED
    BY <1>4, <1>6, Saves
<1>8. ctl' = ctl /\ ctl.pass = "idle" /\ ctl \in Control
  BY DEF RequestContinuation, IInv, TypeOK
<1>9. ctl.call \notin LaunchCalls /\ ctl.call # "inspect"
  BY <1>8 DEF IInv, LaunchSaved, WalkSaved, Passes
<1>10. site' \in [Trials -> Site] /\ waiting' \subseteq Trials
  BY DEF RequestContinuation, IInv, TypeOK
<1>. QED
  BY <1>7, <1>8, <1>9, <1>10, Quiet

(* So does the change to the next pass, which leaves the tables alone.      *)
LEMMA NextPassStep == IInv /\ NextPass => IInv'
<1> SUFFICES ASSUME IInv, NextPass PROVE IInv'
  OBVIOUS
<1>1. UNCHANGED <<disk, mem, site, waiting, status>> /\ ctl.call = "none"
  BY DEF NextPass, Done
<1>2. PICK p \in {"restart", "continue", "reconcile", "admit"} :
        /\ ctl' = [ctl EXCEPT !.pass = p, !.at = 1]
        /\ p \in {"restart", "continue"} => ctl.pass \in {"submit", "restart"}
  BY DEF NextPass, Done
<1>3. ctl' \in Control /\ ctl'.call = "none" /\ ctl'.pass = p
  <2>1. 1 \in 1 .. NumTrials + 1
    BY NumTrialsAssumption
  <2>2. p \in Passes
    BY DEF Passes
  <2>. QED
    BY <1>1, <1>2, <2>1, <2>2 DEF IInv, TypeOK, Control
<1>4. ctl'.pass \in {"submit", "restart", "continue"} => mem' = disk'
  BY <1>1, <1>2, <1>3 DEF IInv, WalkSaved
<1>. QED
  BY <1>1, <1>3, <1>4, Quiet DEF IInv, TypeOK, Table, LaunchCalls

(* So do the question for the capacity, its answer and the end of the walk. *)
LEMMA AskCapacityStep == IInv /\ AskCapacity => IInv'
<1> SUFFICES ASSUME IInv, AskCapacity PROVE IInv'
  OBVIOUS
<1>1. PICK configured : Keep([t \in Trials |->
        IF t < configured /\ mem[t].phase = "pending" /\ mem[t].handle = NoJob
        THEN [mem[t] EXCEPT !.phase = "attention_required"] ELSE mem[t]])
  BY DEF AskCapacity
<1>2. \A t \in Trials : [mem[t] EXCEPT !.phase = "attention_required"] \in Entry
                        /\ mem[t] \in Entry
  <2>1. "attention_required" \in Phases
    BY DEF Phases
  <2>. QED
    BY <2>1 DEF IInv, TypeOK, Entry
<1>3. mem' \in Table /\ UNCHANGED <<disk, status, site, waiting>>
  BY <1>1, <1>2 DEF Keep, Table, AskCapacity
<1>4. ctl' = [ctl EXCEPT !.pass = "admit", !.at = 1, !.call = "capacity"]
  BY DEF AskCapacity
<1>5. ctl' \in Control /\ ctl'.call = "capacity" /\ ctl'.pass = "admit"
  <2>1. 1 \in 1 .. NumTrials + 1
    BY NumTrialsAssumption
  <2>. QED
    BY <1>4, <2>1 DEF IInv, TypeOK, Control, Passes, Calls
<1>. QED
  BY <1>3, <1>5, Quiet DEF IInv, TypeOK, Table, LaunchCalls

(* The answer to the capacity question gives out the slots.                 *)
LEMMA CapacityReturnsStep == IInv /\ CapacityReturns => IInv'
<1> SUFFICES ASSUME IInv, CapacityReturns PROVE IInv'
  OBVIOUS
<1>1. site' \in [Trials -> Site] /\ waiting' \subseteq Trials
  BY DEF CapacityReturns, IInv, TypeOK
<1>2. CASE Paused(mem)
  BY <1>1, <1>2, Stops, Quiet DEF IInv, TypeOK, Table, LaunchCalls
<1>3. CASE /\ \E free \in 0 .. Room : ctl' = [ctl EXCEPT !.call = "none", !.slots = free]
           /\ UNCHANGED <<disk, mem, status>>
  <2>1. PICK free \in 0 .. MaxParallel : ctl' = [ctl EXCEPT !.call = "none", !.slots = free]
    <3>1. \A n \in 0 .. Room : n \in 0 .. MaxParallel
      BY RoomBounded, PlanAssumption
    <3>. QED
      BY <1>3, <3>1
  <2>2. ctl' \in Control /\ ctl'.call = "none" /\ ctl'.pass = ctl.pass
    BY <2>1 DEF IInv, TypeOK, Control, Calls
  <2>. QED
    BY <1>1, <1>3, <2>2, Quiet DEF IInv, TypeOK, WalkSaved, Table, LaunchCalls
<1>. QED
  BY <1>2, <1>3 DEF CapacityReturns

(* The end of the walk saves the state.                                     *)
LEMMA FinishAdvanceStep == IInv /\ FinishAdvance => IInv'
<1> SUFFICES ASSUME IInv, FinishAdvance PROVE IInv'
  OBVIOUS
<1>1. mem' \in Table /\ disk' = mem' /\ status' \in Statuses
  BY DEF FinishAdvance, Saved, Aggregate, Statuses, IInv, TypeOK, Table
<1>. QED
  BY <1>1, IdleTyped, Quiet DEF FinishAdvance, IInv, TypeOK, LaunchCalls

-----------------------------------------------------------------------------
(* Submissions and restarts.                                                *)

(* A submission is saved before it is issued.                               *)
LEMMA BeginSubmitStep ==
    ASSUME IInv, NEW t \in Trials, BeginSubmit(t)
    PROVE  IInv'
<1> USE DEF IInv, TypeOK
<1>1. site' \in [Trials -> Site] /\ waiting' \subseteq Trials /\ mem \in Table
  BY DEF BeginSubmit, Table
<1>2. PICK p \in {"submit", "admit"} : Visits(p, t)
  BY DEF BeginSubmit
<1>3. CASE Submitting(t) /\ At(t, "submit")
  <2> DEFINE m == [mem EXCEPT ![t].phase = "submitting", ![t].sub = Charge(@, SubmissionMax)]
  <2>1. "submitting" \in Phases /\ "submit" \in Calls
    BY DEF Phases, Calls
  <2>2. Charge(mem[t].sub, SubmissionMax) \in 0 .. SubmissionMax
    BY ChargeBounded, PlanAssumption DEF Entry
  <2>3. m \in Table
    BY <1>1, <2>1, <2>2, ChargeSet DEF Table
  <2>7. m[t].phase = "submitting"
    BY <1>1 DEF Table, Entry
  <2>4. mem' \in Table /\ disk' \in Table /\ mem' = disk' /\ mem' = m /\ status' \in Statuses
    BY <1>3, <2>3, Saves DEF Submitting
  <2>5. /\ ctl' \in Control /\ ctl'.call = "submit" /\ ctl'.at = t
        /\ ctl'.pass = p /\ ctl'.slots = ctl.slots
    BY <1>2, <1>3, <2>1, Visiting DEF Visits
  <2>6. p = "admit" => ctl.slots > 0
    BY <1>2 DEF Visits, Due, Wants
  <2> HIDE DEF m
  <2>. QED
    BY <1>1, <2>3, <2>7, <2>4, <2>5, <2>6 DEF SlotLeft, WalkSaved, LaunchSaved, Passes, Table
<1>4. CASE Save(Escalated(mem, t)) /\ ctl' = [ctl EXCEPT !.at = t + 1]
  <2>1. Escalated(mem, t) \in Table
    BY <1>1, OneField DEF Escalated, Phases, Table
  <2>2. ctl' \in Control /\ ctl'.call = "none"
    <3>1. t + 1 \in 1 .. NumTrials + 1
      BY NumTrialsAssumption DEF Trials
    <3>. QED
      BY <1>2, <1>4, <3>1 DEF Visits, Control
  <2>. QED
    BY <1>1, <1>4, <2>1, <2>2, Saves, Quiet DEF LaunchCalls
<1>. QED
  BY <1>3, <1>4 DEF BeginSubmit

(* The answer to a submission takes its slot.                               *)
LEMMA SubmitReturnsStep ==
    ASSUME IInv, NEW t \in Trials, SubmitReturns(t)
    PROVE  IInv'
<1> USE DEF IInv, TypeOK
<1>1. ctl.call = "submit" /\ ctl.pass \in Passes /\ ctl.at = t /\ mem \in Table
  BY DEF SubmitReturns, Calling, Table
<1>2. PICK r \in SubmitReplies(site[t]) :
        /\ Answered(t, r)
        /\ \/ /\ r.res = "ok"
              /\ Save([mem EXCEPT ![t].handle = r.site.file, ![t].phase = "submitted"])
              /\ AfterSubmit("submitted")
              /\ UNCHANGED waiting
           \/ /\ r.res = "lost"
              /\ Paused(mem)
              /\ UNCHANGED waiting
           \/ /\ r.res = "misconfigured"
              /\ Save(Escalated(mem, t))
              /\ AfterSubmit("attention_required")
              /\ UNCHANGED waiting
           \/ /\ r.res = "error"
              /\ LET again == mem[t].sub < SubmissionMax
                     phase == IF again THEN "submission_retry_wait" ELSE "attention_required"
                 IN  /\ Save([mem EXCEPT ![t].phase = phase])
                     /\ waiting' = IF again THEN waiting \cup {t} ELSE waiting
                     /\ AfterSubmit(phase)
  BY DEF SubmitReturns
<1>3. site' \in [Trials -> Site] /\ r.site \in Site
  <2>1. Faithful({First}, site[t], SubmitReplies(site[t]))
    BY SubmitFaithful
  <2>. QED
    BY <1>2, <2>1, AnswerTyped DEF Faithful
<1>4. waiting' \subseteq Trials
  BY <1>2
<1>5. ASSUME NEW phase, AfterSubmit(phase)
      PROVE  ctl' \in Control /\ ctl'.call = "none"
  <2>1. ctl.at + 1 \in 1 .. NumTrials + 1
    BY <1>1, NumTrialsAssumption DEF Trials
  <2>2. ctl.pass = "admit" => ctl.slots - 1 \in 0 .. MaxParallel
    BY <1>1, PlanAssumption DEF SlotLeft, Control
  <2>3. "none" \in Calls
    BY DEF Calls
  <2>. QED
    BY <1>5, <2>1, <2>2, <2>3 DEF AfterSubmit, Control
<1>6. CASE Paused(mem)
  BY <1>1, <1>3, <1>4, <1>6, Stops, Quiet DEF Table, LaunchCalls
<1>7. ASSUME NEW m \in Table, Save(m), NEW phase, AfterSubmit(phase)
      PROVE  IInv'
  BY <1>3, <1>4, <1>5, <1>7, Saves, Quiet DEF LaunchCalls
<1>8. /\ [mem EXCEPT ![t].handle = r.site.file, ![t].phase = "submitted"] \in Table
      /\ \A p \in {"attention_required", "submission_retry_wait"} :
            [mem EXCEPT ![t].phase = p] \in Table
  <2>1. {"submitted", "attention_required", "submission_retry_wait"} \subseteq Phases
    BY DEF Phases
  <2>2. r.site.file \in Handles
    BY <1>3 DEF Site
  <2>3. \A p \in {"attention_required", "submission_retry_wait"} :
            [mem EXCEPT ![t].phase = p] \in Table
    BY <1>1, <2>1, OneField DEF Table
  <2>4. [mem EXCEPT ![t].handle = r.site.file, ![t].phase = "submitted"] \in Table
    BY <1>1, <2>1, <2>2, HandleSet DEF Table
  <2>. QED
    BY <2>3, <2>4
<1>9. Escalated(mem, t) \in Table
  BY <1>8 DEF Escalated
<1>. QED
  <2>1. CASE r.res = "ok"
    BY <1>2, <1>7, <1>8, <2>1
  <2>2. CASE r.res = "lost"
    BY <1>2, <1>6, <2>2
  <2>3. CASE r.res = "misconfigured"
    BY <1>2, <1>7, <1>9, <2>3
  <2>4. CASE r.res = "error"
    <3>1. PICK p \in {"attention_required", "submission_retry_wait"} :
            Save([mem EXCEPT ![t].phase = p]) /\ AfterSubmit(p)
      BY <1>2, <2>4
    <3>. QED
      BY <1>7, <1>8, <3>1
  <2>. QED
    BY <1>2, <2>1, <2>2, <2>3, <2>4

(* An infrastructure restart is issued for a saved phase.                   *)
LEMMA BeginRestartStep ==
    ASSUME IInv, NEW t \in Trials, BeginRestart(t)
    PROVE  IInv'
<1> USE DEF IInv, TypeOK
<1>1. site' \in [Trials -> Site] /\ waiting' \subseteq Trials /\ mem \in Table
  BY DEF BeginRestart, Table
<1>2. /\ ctl.pass = "restart" /\ ctl.call = "none" /\ mem = disk
      /\ mem[t].phase = "infrastructure_retrying"
  BY DEF BeginRestart, Visits, Due, Wants, WalkSaved
<1>3. CASE At(t, "restart") /\ UNCHANGED <<disk, mem, status>>
  <2>1. /\ ctl' \in Control /\ ctl'.call = "restart" /\ ctl'.at = t /\ ctl'.pass = "restart"
    BY <1>2, <1>3, Visiting DEF Calls
  <2>. QED
    BY <1>1, <1>2, <1>3, <2>1 DEF SlotLeft, WalkSaved, LaunchSaved, Passes
<1>4. CASE Save(Escalated(mem, t)) /\ ctl' = [ctl EXCEPT !.at = t + 1]
  <2>1. Escalated(mem, t) \in Table
    BY <1>1, OneField DEF Escalated, Phases, Table
  <2>2. ctl' \in Control /\ ctl'.call = "none"
    <3>1. t + 1 \in 1 .. NumTrials + 1
      BY NumTrialsAssumption DEF Trials
    <3>. QED
      BY <1>2, <1>4, <3>1 DEF Control
  <2>. QED
    BY <1>1, <1>4, <2>1, <2>2, Saves, Quiet DEF LaunchCalls
<1>. QED
  BY <1>3, <1>4 DEF BeginRestart

(* A generation number of an entry names one of the trial's Jobs.           *)
LEMMA GenerationNamed ==
    ASSUME NEW e \in Entry
    PROVE  /\ e.infra \in Nat /\ (e.infra >= 1 => Restarted(e.infra) \in JobNames)
           /\ e.cont \in Nat /\ (e.cont >= 1 => Continued(e.cont) \in JobNames)
BY MaxRestartsAssumption, MaxContinuationsAssumption DEF Entry, JobNames, Restarted, Continued

(* A relaunched trial keeps its type.                                       *)
LEMMA RelaunchedTyped ==
    ASSUME NEW m \in Table, NEW t \in Trials, NEW job \in Handles
    PROVE  Relaunched(m, t, job) \in Table /\ Escalated(m, t) \in Table
<1>1. "submitted" \in Phases /\ "attention_required" \in Phases
  BY DEF Phases
<1>. QED
  BY <1>1, OneField, LaunchSet DEF Relaunched, Escalated, Table

(* The answer to a restart preserves the invariant.                         *)
LEMMA RestartReturnsStep ==
    ASSUME IInv, NEW t \in Trials, RestartReturns(t)
    PROVE  IInv'
<1> USE DEF IInv, TypeOK
<1>1. ctl.pass \in Passes /\ ctl.at = t /\ mem \in Table /\ waiting' \subseteq Trials
  BY DEF RestartReturns, Calling, Table
<1>2. PICK r \in RestartReplies(site[t], mem[t].handle, "restart", mem[t].infra) :
        /\ Answered(t, r)
        /\ \/ Save(Relaunched(mem, t, r.site.file)) /\ NextTrial
           \/ Paused(mem)
           \/ /\ Save(Escalated(mem, t))
              /\ NextTrial \/ Issue("logs")
  BY DEF RestartReturns
<1>3. site' \in [Trials -> Site] /\ r.site \in Site
  <2>1. Faithful({Restarted(mem[t].infra)}, site[t],
                 RestartReplies(site[t], mem[t].handle, "restart", mem[t].infra))
    BY RestartFaithful, GenerationNamed DEF Restarted
  <2>. QED
    BY <1>2, <2>1, AnswerTyped DEF Faithful
<1>4. Relaunched(mem, t, r.site.file) \in Table /\ Escalated(mem, t) \in Table
  BY <1>1, <1>3, RelaunchedTyped DEF Site
<1>5. CASE Paused(mem)
  BY <1>1, <1>3, <1>5, Stops, Quiet DEF Table, LaunchCalls
<1>6. ASSUME NEW m \in Table, Save(m), NextTrial \/ Issue("logs")
      PROVE  IInv'
  <2>1. ctl' \in Control /\ ctl'.call \in {"none", "logs"}
    BY <1>1, <1>6, Moves DEF Calls
  <2>. QED
    BY <1>1, <1>3, <1>6, <2>1, Saves, Quiet DEF LaunchCalls
<1>. QED
  BY <1>2, <1>4, <1>5, <1>6

(* A continuation is issued for a saved phase.                              *)
LEMMA BeginContinueStep ==
    ASSUME IInv, NEW t \in Trials, BeginContinue(t)
    PROVE  IInv'
<1> USE DEF IInv, TypeOK
<1>1. waiting' \subseteq Trials /\ mem \in Table
  BY DEF BeginContinue, Table
<1>2. /\ ctl.pass = "continue" /\ ctl.call = "none" /\ mem = disk
      /\ mem[t].phase = "continuation_retrying"
  BY DEF BeginContinue, Visits, Due, Wants, WalkSaved
<1>3. CASE /\ site' = [site EXCEPT ![t] = Discarded(@)]
           /\ At(t, "continue")
           /\ UNCHANGED <<disk, mem, status>>
  <2>1. /\ ctl' \in Control /\ ctl'.call = "continue" /\ ctl'.at = t /\ ctl'.pass = "continue"
    BY <1>2, <1>3, Visiting DEF Calls
  <2>2. Discarded(site[t]) \in Site
    BY FieldsSet DEF Discarded
  <2>3. site' \in [Trials -> Site]
    BY <1>3, <2>2
  <2>. QED
    BY <1>1, <1>2, <1>3, <2>1, <2>3 DEF SlotLeft, WalkSaved, LaunchSaved, Passes
<1>4. CASE Raised(mem) /\ UNCHANGED site
  BY <1>1, <1>4, Stops, Quiet DEF Table, LaunchCalls
<1>. QED
  BY <1>3, <1>4 DEF BeginContinue

(* So does the answer to a continuation.                                    *)
LEMMA ContinueReturnsStep ==
    ASSUME IInv, NEW t \in Trials, ContinueReturns(t)
    PROVE  IInv'
<1> USE DEF IInv, TypeOK
<1>1. ctl.pass \in Passes /\ ctl.at = t /\ mem \in Table /\ waiting' \subseteq Trials
  BY DEF ContinueReturns, Calling, Table
<1>2. PICK r \in RestartReplies(site[t], mem[t].handle, "continuation", mem[t].cont) :
        /\ Answered(t, r)
        /\ \/ Save(Relaunched(mem, t, r.site.file)) /\ NextTrial
           \/ Paused(mem)
           \/ Save(Escalated(mem, t)) /\ NextTrial
  BY DEF ContinueReturns
<1>3. site' \in [Trials -> Site] /\ r.site \in Site
  <2>1. Faithful({Continued(mem[t].cont)}, site[t],
                 RestartReplies(site[t], mem[t].handle, "continuation", mem[t].cont))
    BY RestartFaithful, GenerationNamed DEF Continued
  <2>. QED
    BY <1>2, <2>1, AnswerTyped DEF Faithful
<1>4. Relaunched(mem, t, r.site.file) \in Table /\ Escalated(mem, t) \in Table
  BY <1>1, <1>3, RelaunchedTyped DEF Site
<1>5. CASE Paused(mem)
  BY <1>1, <1>3, <1>5, Stops, Quiet DEF Table, LaunchCalls
<1>6. ASSUME NEW m \in Table, Save(m), NextTrial
      PROVE  IInv'
  BY <1>1, <1>3, <1>6, Moves, Saves, Quiet DEF LaunchCalls
<1>. QED
  BY <1>2, <1>4, <1>5, <1>6

-----------------------------------------------------------------------------
(* Reconciliation.                                                          *)

(* The phases the reconcile pass gives out are phases.                      *)
LEMMA PhasesNamed ==
    /\ "pending" \in Phases /\ "running" \in Phases /\ "attention_required" \in Phases
    /\ "infrastructure_retrying" \in Phases /\ "collection_pending" \in Phases
    /\ "collecting" \in Phases /\ "collection_retry_wait" \in Phases
    /\ "collection_failed" \in Phases /\ "evaluating" \in Phases
    /\ "evaluation_pending" \in Phases /\ "publishing" \in Phases
    /\ "publication_pending" \in Phases /\ "cleanup_pending" \in Phases
    /\ "complete" \in Phases
BY DEF Phases

(* A saved step of the walk that only moves on, or that issues a call which
   starts no workload.                                                      *)
LEMMA SavedStep ==
    ASSUME NEW m \in Table, Save(m), ctl' \in Control,
           ctl'.call \notin LaunchCalls \cup {"inspect"},
           site' \in [Trials -> Site], waiting' \subseteq Trials
    PROVE  IInv'
BY Saves, Quiet

(* An inspection is only asked for by the reconcile pass.                   *)
LEMMA BeginInspectStep ==
    ASSUME IInv, NEW t \in Trials, BeginInspect(t)
    PROVE  IInv'
<1> USE DEF IInv, TypeOK
<1>1. ctl' \in Control /\ ctl'.call = "inspect" /\ ctl'.pass = "reconcile"
  BY Visiting DEF BeginInspect, Visits, Calls
<1>2. UNCHANGED <<disk, mem, site, waiting, status>>
  BY DEF BeginInspect
<1>. QED
  BY <1>1, <1>2, Quiet DEF Table, LaunchCalls

(* What an inspection finds is only in memory, except for the restart it
   decides on.                                                              *)
LEMMA InspectReturnsStep ==
    ASSUME IInv, NEW t \in Trials, InspectReturns(t)
    PROVE  IInv'
<1> USE DEF IInv, TypeOK
<1> DEFINE Seen(r) == [mem EXCEPT ![t].live = r \in {"pending", "running"}]
           Ended(c) == \E e \in Endings : ctl' = [ctl EXCEPT !.call = c, !.seen = e]
           Generation(r) == [Seen(r) EXCEPT ![t].infra = @ + 1,
                                            ![t].phase = "infrastructure_retrying"]
<1>1. /\ ctl.call = "inspect" /\ ctl.pass = "reconcile" /\ ctl.at = t
      /\ mem \in Table /\ disk \in Table
      /\ UNCHANGED <<site, waiting>>
  BY DEF InspectReturns, Calling, WalkSaved, Table
<1>2. PICK r :
        \/ Paused(mem)
        \/ Keep(Escalated(mem, t)) /\ NextTrial
        \/ /\ r \in {"pending", "running"}
           /\ Keep([Seen(r) EXCEPT ![t].phase = r])
           /\ NextTrial \/ Issue("terminate")
        \/ Budget(mem[t]) /\ Save(Generation(r)) /\ Ended("restart")
        \/ Save(Escalated(Seen(r), t)) /\ Ended("logs")
        \/ Keep(Seen(r)) /\ Ended("logs")
  BY DEF InspectReturns, Endings
<1>3. Seen(r) \in Table
  <2>1. \A l \in BOOLEAN : [mem EXCEPT ![t].live = l] \in Table
    BY <1>1, OneField DEF Table
  <2>2. CASE r \in {"pending", "running"}
    <3>1. Seen(r) = [mem EXCEPT ![t].live = TRUE]
      BY <2>2
    <3>. QED
      BY <2>1, <3>1
  <2>3. CASE r \notin {"pending", "running"}
    <3>1. (r \in {"pending", "running"}) = FALSE
      BY <2>3
    <3>2. Seen(r) = [mem EXCEPT ![t].live = FALSE]
      BY <3>1, Zenon
    <3>. QED
      BY <2>1, <3>2
  <2>. QED
    BY <2>2, <2>3
<1>4. ASSUME NEW c \in {"restart", "logs"}, Ended(c)
      PROVE  ctl' \in Control /\ ctl'.call = c /\ ctl'.at = t /\ ctl'.pass = "reconcile"
  BY <1>1, <1>4 DEF Control, Calls
<1>5. ASSUME NextTrial \/ Issue("terminate")
      PROVE  ctl' \in Control /\ ctl'.call \in {"none", "terminate"} /\ ctl'.pass = "reconcile"
  BY <1>1, <1>5, Moves DEF Calls
<1>6. ASSUME NEW m \in Table, Keep(m), ctl' \in Control, ctl'.pass = "reconcile",
             ctl'.call \in {"none", "terminate", "logs"}
      PROVE  IInv'
  BY <1>1, <1>6, Quiet DEF Keep, LaunchCalls, Table
<1>7. CASE Paused(mem)
  BY <1>1, <1>7, Stops, Quiet DEF Table, LaunchCalls
<1>8. CASE Keep(Escalated(mem, t)) /\ NextTrial
  <2>1. Escalated(mem, t) \in Table
    BY <1>1, PhasesNamed, OneField DEF Escalated, Table
  <2>. QED
    BY <1>5, <1>6, <1>8, <2>1
<1>9. CASE /\ r \in {"pending", "running"}
           /\ Keep([Seen(r) EXCEPT ![t].phase = r])
           /\ NextTrial \/ Issue("terminate")
  <2>1. r \in Phases
    BY <1>9, PhasesNamed
  <2> HIDE DEF Seen
  <2>2. [Seen(r) EXCEPT ![t].phase = r] \in Table
    BY <1>3, <2>1, OneField DEF Table
  <2>. QED
    BY <1>5, <1>6, <1>9, <2>2
<1>10. CASE Budget(mem[t]) /\ Save(Generation(r)) /\ Ended("restart")
  <2>1. Seen(r)[t].infra = mem[t].infra
    BY <1>1 DEF Table, Entry
  <2> HIDE DEF Seen
  <2>2. Seen(r)[t].infra + 1 \in 0 .. MaxRestarts
    BY <1>1, <1>10, <2>1, MaxRestartsAssumption DEF Budget, Table, Entry
  <2>3. Generation(r) \in Table
    BY <1>3, <2>2, PhasesNamed, GenerationSet DEF Table
  <2>4. Generation(r)[t].phase = "infrastructure_retrying"
    BY <1>3 DEF Table, Entry
  <2> HIDE DEF Generation
  <2>5. /\ mem' \in Table /\ disk' \in Table /\ mem' = disk' /\ status' \in Statuses
        /\ disk'[t].phase = "infrastructure_retrying"
    BY <1>10, <2>3, <2>4, Saves
  <2>6. ctl' \in Control /\ ctl'.call = "restart" /\ ctl'.at = t /\ ctl'.pass = "reconcile"
    BY <1>4, <1>10
  <2>. QED
    BY <1>1, <2>5, <2>6 DEF SlotLeft, WalkSaved, LaunchSaved, Passes, Table
<1>11. CASE Save(Escalated(Seen(r), t)) /\ Ended("logs")
  <2>1. Escalated(Seen(r), t) \in Table
    <3> HIDE DEF Seen
    <3>. QED
      BY <1>3, PhasesNamed, OneField DEF Escalated, Table
  <2> HIDE DEF Seen
  <2>. QED
    BY <1>1, <1>4, <1>11, <2>1, SavedStep DEF LaunchCalls
<1>12. CASE Keep(Seen(r)) /\ Ended("logs")
  <2> HIDE DEF Seen
  <2>. QED
    BY <1>3, <1>4, <1>6, <1>12
<1>. QED
  BY <1>2, <1>7, <1>8, <1>9, <1>10, <1>11, <1>12

(* The deadline.                                                            *)
LEMMA TerminateReturnsStep ==
    ASSUME IInv, NEW t \in Trials, TerminateReturns(t)
    PROVE  IInv'
<1> USE DEF IInv, TypeOK
<1> DEFINE Overdue(p) == [mem EXCEPT ![t].live = FALSE, ![t].backend = "failed",
                                     ![t].phase = p]
<1>1. ctl.at = t /\ mem \in Table /\ waiting' \subseteq Trials
  BY DEF TerminateReturns, Table
<1>2. PICK r \in TerminateReplies(site[t], mem[t].handle) :
        /\ Answered(t, r)
        /\ \/ /\ \E p \in {"infrastructure_retrying", "collection_pending"} : Save(Overdue(p))
              /\ NextTrial
           \/ Paused(mem)
           \/ Save(Escalated(mem, t)) /\ NextTrial
  BY DEF TerminateReturns
<1>3. site' \in [Trials -> Site]
  BY <1>2, TerminateFaithful, AnswerTyped
<1>4. CASE Paused(mem)
  BY <1>1, <1>3, <1>4, Stops, Quiet DEF Table, LaunchCalls
<1>5. ASSUME NEW m \in Table, Save(m), NextTrial
      PROVE  IInv'
  BY <1>1, <1>3, <1>5, Moves, SavedStep DEF LaunchCalls
<1>6. \A p \in {"infrastructure_retrying", "collection_pending"} : Overdue(p) \in Table
  <2>1. ASSUME NEW p \in Phases
        PROVE  Overdue(p) \in [Trials -> Entry]
    BY DeadlineSet
  <2> HIDE DEF Overdue
  <2>. QED
    BY <2>1, PhasesNamed DEF Table
<1>7. Escalated(mem, t) \in Table
  BY <1>1, PhasesNamed, OneField DEF Escalated, Table
<1> HIDE DEF Overdue
<1>. QED
  BY <1>2, <1>4, <1>5, <1>6, <1>7

(* A collection is saved before it is asked for.                            *)
LEMMA CollectingStep ==
    ASSUME IInv, NEW t \in Trials, NEW b \in Endings, Collecting(t, b),
           UNCHANGED <<site, waiting>>
    PROVE  IInv'
<1> USE DEF IInv, TypeOK
<1>1. [mem EXCEPT ![t].phase = "collecting", ![t].backend = b] \in Table
  BY PhasesNamed, BackendSet DEF Table
<1>2. ctl' \in Control /\ ctl'.call = "collect"
  <2>1. t \in 1 .. NumTrials + 1
    BY NumTrialsAssumption DEF Trials
  <2>. QED
    BY <2>1 DEF Collecting, Control, Calls, Endings
<1>. QED
  BY <1>1, <1>2, SavedStep DEF Collecting, LaunchCalls

(* The logs, and the collection that follows them.                          *)
LEMMA LogsReturnStep ==
    ASSUME IInv, NEW t \in Trials, LogsReturn(t)
    PROVE  IInv'
<1>1. ctl.seen \in Endings
  BY DEF IInv, TypeOK, Control
<1>2. CASE Collecting(t, ctl.seen)
  BY <1>1, <1>2, CollectingStep DEF LogsReturn
<1>3. CASE Paused(mem)
  BY <1>3, Stops, Quiet DEF LogsReturn, IInv, TypeOK, Table, LaunchCalls
<1>. QED
  BY <1>2, <1>3 DEF LogsReturn

(* A collection taken up again.                                             *)
LEMMA BeginCollectStep ==
    ASSUME IInv, NEW t \in Trials, BeginCollect(t)
    PROVE  IInv'
<1>1. mem[t].backend \in Endings
  BY DEF IInv, TypeOK, Entry
<1>. QED
  BY <1>1, CollectingStep DEF BeginCollect

(* What the collected copy decides is saved.                                *)
LEMMA AssessedStep ==
    ASSUME IInv, NEW t \in Trials, NEW m \in Table, Assessed(m, t),
           site' \in [Trials -> Site], waiting' \subseteq Trials
    PROVE  IInv'
<1> USE DEF IInv, TypeOK
<1> DEFINE e == [m[t] EXCEPT !.pipe = site[t].copy,
                             !.outcome = IF site[t].copy = "result" THEN @ ELSE "infrastructure"]
           put(p) == [m EXCEPT ![t] = [e EXCEPT !.phase = p]]
<1>1. e \in Entry
  <2>1. site[t].copy \in Work \cup {"none"}
    BY DEF Site
  <2>2. (IF site[t].copy = "result" THEN m[t].outcome ELSE "infrastructure") \in Outcomes
    BY DEF Table, Entry, Outcomes
  <2>. QED
    BY <2>1, <2>2 DEF Table, Entry
<1>2. PICK p \in {"evaluating", "publishing"}, c \in {"evaluate", "publish"} :
        Save(put(p)) /\ ctl' = [ctl EXCEPT !.at = t, !.call = c]
  BY DEF Assessed
<1> HIDE DEF e
<1>3. [e EXCEPT !.phase = p] \in Entry
  BY <1>1, PhasesNamed DEF Entry
<1>4. put(p) \in Table
  BY <1>3 DEF Table
<1>5. ctl' \in Control /\ ctl'.call = c
  <2>1. t \in 1 .. NumTrials + 1
    BY NumTrialsAssumption DEF Trials
  <2>. QED
    BY <1>2, <2>1 DEF Control, Calls
<1> HIDE DEF put
<1>. QED
  BY <1>2, <1>4, <1>5, SavedStep DEF LaunchCalls

(* The answer to a collection.                                              *)
LEMMA CollectReturnsStep ==
    ASSUME IInv, NEW t \in Trials, CollectReturns(t)
    PROVE  IInv'
<1> USE DEF IInv, TypeOK
<1> DEFINE charged == [mem EXCEPT ![t].coll = Charge(@, CollectionMax)]
           Set(m, p) == [m EXCEPT ![t].phase = p]
<1>1. ctl.at = t /\ mem \in Table /\ waiting' \subseteq Trials
  BY DEF CollectReturns, Table
<1>2. PICK r \in CollectReplies(site[t]) :
        /\ Answered(t, r)
        /\ \/ Assessed(charged, t)
           \/ Paused(mem)
           \/ /\ \/ Save(Set(mem, "collection_pending"))
                 \/ Save(Set(charged, "collection_retry_wait"))
                 \/ Save(Set(charged, "collection_failed"))
              /\ NextTrial
  BY DEF CollectReturns
<1>3. site' \in [Trials -> Site]
  BY <1>2, CollectFaithful, AnswerTyped
<1>4. charged \in Table
  <2>1. Charge(mem[t].coll, CollectionMax) \in 0 .. CollectionMax
    BY ChargeBounded, PlanAssumption DEF Entry
  <2>. QED
    BY <1>1, <2>1, OneField DEF Table
<1> HIDE DEF charged
<1>5. CASE Assessed(charged, t)
  BY <1>1, <1>3, <1>4, <1>5, AssessedStep
<1>6. CASE Paused(mem)
  BY <1>1, <1>3, <1>6, Stops, Quiet DEF Table, LaunchCalls
<1>7. ASSUME NEW m \in Table, Save(m), NextTrial
      PROVE  IInv'
  BY <1>1, <1>3, <1>7, Moves, SavedStep DEF LaunchCalls
<1>8. /\ Set(mem, "collection_pending") \in Table
      /\ Set(charged, "collection_retry_wait") \in Table
      /\ Set(charged, "collection_failed") \in Table
  BY <1>1, <1>4, PhasesNamed, OneField DEF Table
<1> HIDE DEF Set
<1>. QED
  BY <1>2, <1>5, <1>6, <1>7, <1>8

(* An evaluation taken up again, with or without its copy.                  *)
LEMMA BeginEvaluateStep ==
    ASSUME IInv, NEW t \in Trials, BeginEvaluate(t)
    PROVE  IInv'
<1> USE DEF IInv, TypeOK
<1>1. /\ site' \in [Trials -> Site] /\ waiting' \subseteq Trials /\ mem \in Table
      /\ ctl.call = "none"
  BY DEF BeginEvaluate, Visits, Table
<1>2. CASE Assessed(mem, t)
  BY <1>1, <1>2, AssessedStep
<1>3. CASE /\ Save([mem EXCEPT ![t].phase = "collection_failed"])
           /\ ctl' = [ctl EXCEPT !.at = t + 1]
  <2>1. [mem EXCEPT ![t].phase = "collection_failed"] \in Table
    BY <1>1, PhasesNamed, OneField DEF Table
  <2>2. ctl' \in Control /\ ctl'.call = "none"
    <3>1. t + 1 \in 1 .. NumTrials + 1
      BY NumTrialsAssumption DEF Trials
    <3>. QED
      BY <1>1, <1>3, <3>1 DEF Control
  <2>. QED
    BY <1>1, <1>3, <2>1, <2>2, SavedStep DEF LaunchCalls
<1>. QED
  BY <1>2, <1>3 DEF BeginEvaluate

(* The end of an evaluation.                                                *)
LEMMA EvaluateReturnsStep ==
    ASSUME IInv, NEW t \in Trials, EvaluateReturns(t)
    PROVE  IInv'
<1> USE DEF IInv, TypeOK
<1> DEFINE Decides(o) == [mem EXCEPT ![t].phase = "publishing", ![t].outcome = o]
           waits == [mem EXCEPT ![t].phase = "evaluation_pending"]
<1>1. /\ site' \in [Trials -> Site] /\ waiting' \subseteq Trials /\ mem \in Table
      /\ ctl.at = t
  BY DEF EvaluateReturns, Table
<1>2. \/ Save(waits) /\ NextTrial
      \/ Paused(waits)
      \/ Save(Escalated(mem, t)) /\ NextTrial
      \/ \E complete, candidate, required \in BOOLEAN :
            /\ Save(Decides(IF mem[t].pipe = "result"
                            THEN Verdict(mem[t].backend, complete, candidate, required)
                            ELSE mem[t].outcome))
            /\ Issue("publish")
  BY DEF EvaluateReturns
<1>3. waits \in Table /\ Escalated(mem, t) \in Table
  BY <1>1, PhasesNamed, OneField DEF Escalated, Table
<1>4. \A o \in Outcomes : Decides(o) \in [Trials -> Entry]
  BY PhasesNamed, OutcomeSet
<1>5. ASSUME NEW m \in Table, Save(m), NextTrial \/ Issue("publish")
      PROVE  IInv'
  <2>1. ctl' \in Control /\ ctl'.call \in {"none", "publish"}
    BY <1>1, <1>5, Moves DEF Calls
  <2>. QED
    BY <1>1, <1>5, <2>1, SavedStep DEF LaunchCalls
<1> HIDE DEF Decides, waits
<1>6. CASE Paused(waits)
  BY <1>1, <1>3, <1>6, Stops, Quiet DEF Table, LaunchCalls
<1>7. ASSUME NEW complete \in BOOLEAN, NEW candidate \in BOOLEAN, NEW required \in BOOLEAN,
             Save(Decides(IF mem[t].pipe = "result"
                          THEN Verdict(mem[t].backend, complete, candidate, required)
                          ELSE mem[t].outcome)),
             Issue("publish")
      PROVE  IInv'
  <2>1. Verdict(mem[t].backend, complete, candidate, required) \in Outcomes
    BY DEF Verdict, Outcomes
  <2>2. mem[t].outcome \in Outcomes
    BY DEF Entry
  <2>3. PICK o \in Outcomes : Save(Decides(o))
    BY <1>7, <2>1, <2>2
  <2>. QED
    BY <1>4, <1>5, <1>7, <2>3 DEF Table
<1>. QED
  BY <1>2, <1>3, <1>5, <1>6, <1>7

(* A publication taken up again.                                            *)
LEMMA BeginPublishStep ==
    ASSUME IInv, NEW t \in Trials, BeginPublish(t)
    PROVE  IInv'
<1> USE DEF IInv, TypeOK
<1>1. [mem EXCEPT ![t].phase = "publishing"] \in Table
  BY PhasesNamed, OneField DEF Table
<1>2. ctl' \in Control /\ ctl'.call = "publish"
  <2>1. t \in 1 .. NumTrials + 1
    BY NumTrialsAssumption DEF Trials
  <2>. QED
    BY <2>1 DEF BeginPublish, Control, Calls
<1>. QED
  BY <1>1, <1>2, SavedStep DEF BeginPublish, LaunchCalls

(* The end of a publication, and the cleanup that follows it.               *)
LEMMA PublishReturnsStep ==
    ASSUME IInv, NEW t \in Trials, PublishReturns(t)
    PROVE  IInv'
<1> USE DEF IInv, TypeOK
<1> DEFINE charged == [mem EXCEPT ![t].pub = Charge(@, PublicationMax)]
           Set(m, p) == [m EXCEPT ![t].phase = p]
<1>1. ctl.at = t /\ mem \in Table /\ waiting' \subseteq Trials
  BY DEF PublishReturns, Table
<1>2. PICK r \in PublishReplies(site[t]) :
        /\ Answered(t, r)
        /\ \/ Save(Set(mem, "cleanup_pending")) /\ Issue("cleanup")
           \/ /\ \E p \in {"publication_pending", "attention_required"} : Save(Set(charged, p))
              /\ NextTrial
  BY DEF PublishReturns, Cleaning
<1>3. site' \in [Trials -> Site]
  BY <1>2, PublishFaithful, AnswerTyped
<1>4. charged \in Table
  <2>1. Charge(mem[t].pub, PublicationMax) \in 0 .. PublicationMax
    BY ChargeBounded, PlanAssumption DEF Entry
  <2>. QED
    BY <1>1, <2>1, OneField DEF Table
<1> HIDE DEF charged
<1>5. \A m \in Table, p \in Phases : Set(m, p) \in Table
  BY OneField DEF Table
<1> HIDE DEF Set
<1>6. ASSUME NEW m \in Table, Save(m), NextTrial \/ Issue("cleanup")
      PROVE  IInv'
  <2>1. ctl' \in Control /\ ctl'.call \in {"none", "cleanup"}
    BY <1>1, <1>6, Moves DEF Calls
  <2>. QED
    BY <1>1, <1>3, <1>6, <2>1, SavedStep DEF LaunchCalls
<1>7. /\ Set(mem, "cleanup_pending") \in Table
      /\ \A p \in {"publication_pending", "attention_required"} : Set(charged, p) \in Table
  BY <1>1, <1>4, <1>5, PhasesNamed
<1>. QED
  BY <1>2, <1>6, <1>7

(* A cleanup taken up again, and its end.                                   *)
LEMMA BeginCleanupStep ==
    ASSUME IInv, NEW t \in Trials, BeginCleanup(t)
    PROVE  IInv'
<1> USE DEF IInv, TypeOK
<1>1. [mem EXCEPT ![t].phase = "cleanup_pending"] \in Table
  BY PhasesNamed, OneField DEF Table
<1>2. ctl' \in Control /\ ctl'.call = "cleanup"
  BY Visiting DEF BeginCleanup, Calls
<1>. QED
  BY <1>1, <1>2, SavedStep DEF BeginCleanup, Cleaning, LaunchCalls

(* The end of a cleanup.                                                    *)
LEMMA CleanupReturnsStep ==
    ASSUME IInv, NEW t \in Trials, CleanupReturns(t)
    PROVE  IInv'
<1> USE DEF IInv, TypeOK
<1> DEFINE marked == [mem EXCEPT ![t].kept = Retained(mem[t])]
           closed == [marked EXCEPT ![t].phase = "complete", ![t].live = FALSE]
<1>1. ctl.at = t /\ mem \in Table /\ waiting' \subseteq Trials
  BY DEF CleanupReturns, Table
<1>2. PICK r \in CleanupReplies(site[t], mem[t].handle, Retained(mem[t])) :
        /\ Answered(t, r)
        /\ \/ Save(closed) /\ NextTrial
           \/ Raised(marked) \/ Paused(marked)
           \/ Save(marked) /\ NextTrial
  BY DEF CleanupReturns
<1>3. site' \in [Trials -> Site]
  BY <1>2, CleanupFaithful, AnswerTyped
<1>4. marked \in Table
  <2>1. Retained(mem[t]) \in BOOLEAN
    BY RetainAssumption DEF Retained
  <2>2. \A k \in BOOLEAN : [mem EXCEPT ![t].kept = k] \in Table
    BY <1>1, OneField DEF Table
  <2>. QED
    BY <2>1, <2>2, Zenon
<1> HIDE DEF marked
<1>5. closed \in [Trials -> Entry]
  BY <1>4, PhasesNamed, LiveSet DEF Table
<1> HIDE DEF closed
<1>6. CASE Raised(marked) \/ Paused(marked)
  BY <1>1, <1>3, <1>4, <1>6, Stops, Quiet DEF Table, LaunchCalls
<1>7. ASSUME NEW m \in Table, Save(m), NextTrial
      PROVE  IInv'
  BY <1>1, <1>3, <1>7, Moves, SavedStep DEF LaunchCalls
<1>. QED
  BY <1>2, <1>4, <1>5, <1>6, <1>7 DEF Table

-----------------------------------------------------------------------------
(* Crashes and the world.                                                   *)

(* Whatever the call in flight does while the controller dies, it starts no
   Job but the one campaign.json authorizes.                                *)
LEMMA RepliesFaithful ==
    ASSUME IInv, ctl.at \in Trials
    PROVE  Faithful(IF ctl.call \in LaunchCalls THEN Authorized(disk[ctl.at]) ELSE {},
                    site[ctl.at], Replies(ctl.at))
<1> DEFINE t == ctl.at
           J == IF ctl.call \in LaunchCalls THEN Authorized(disk[ctl.at]) ELSE {}
<1> USE DEF IInv, TypeOK
<1>1. site[t] \in Site /\ mem[t] \in Entry
  OBVIOUS
<1>2. CASE ctl.call = "submit"
  <2>1. disk[t].phase = "submitting"
    BY <1>2 DEF LaunchSaved, LaunchCalls
  <2>2. J = {First} /\ Replies(t) = SubmitReplies(site[t])
    BY <1>2, <2>1 DEF LaunchCalls, Authorized, Replies
  <2>. QED
    BY <1>1, <2>2, SubmitFaithful
<1>3. CASE ctl.call = "restart"
  <2>1. disk[t].phase = "infrastructure_retrying" /\ mem = disk
    BY <1>3 DEF LaunchSaved, LaunchCalls
  <2>2. J = {Restarted(mem[t].infra)}
    BY <1>3, <2>1 DEF LaunchCalls, Authorized
  <2>3. Replies(t) = RestartReplies(site[t], mem[t].handle, "restart", mem[t].infra)
    BY <1>3 DEF Replies
  <2>. QED
    BY <1>1, <2>2, <2>3, RestartFaithful, GenerationNamed DEF Restarted
<1>4. CASE ctl.call = "continue"
  <2>1. disk[t].phase = "continuation_retrying" /\ mem = disk
    BY <1>4 DEF LaunchSaved, LaunchCalls
  <2>2. J = {Continued(mem[t].cont)}
    BY <1>4, <2>1 DEF LaunchCalls, Authorized
  <2>3. Replies(t) = RestartReplies(site[t], mem[t].handle, "continuation", mem[t].cont)
    BY <1>4 DEF Replies
  <2>. QED
    BY <1>1, <2>2, <2>3, RestartFaithful, GenerationNamed DEF Continued
<1>5. CASE ctl.call = "terminate"
  <2>1. J = {} /\ Replies(t) = TerminateReplies(site[t], mem[t].handle)
    BY <1>5 DEF LaunchCalls, Replies
  <2>. QED
    BY <1>1, <2>1, TerminateFaithful
<1>6. CASE ctl.call = "collect"
  <2>1. J = {} /\ Replies(t) = CollectReplies(site[t])
    BY <1>6 DEF LaunchCalls, Replies
  <2>. QED
    BY <1>1, <2>1, CollectFaithful
<1>7. CASE ctl.call = "publish"
  <2>1. J = {} /\ Replies(t) = PublishReplies(site[t])
    BY <1>7 DEF LaunchCalls, Replies
  <2>. QED
    BY <1>1, <2>1, PublishFaithful
<1>8. CASE ctl.call = "cleanup"
  <2>1. J = {} /\ Replies(t) = CleanupReplies(site[t], mem[t].handle, Retained(mem[t]))
    BY <1>8 DEF LaunchCalls, Replies
  <2>. QED
    BY <1>1, <2>1, CleanupFaithful
<1>9. CASE ctl.call \notin LaunchCalls \cup {"terminate", "collect", "publish", "cleanup"}
  <2>1. J = {} /\ Replies(t) = {Reply("ok", site[t])}
    BY <1>9 DEF LaunchCalls, Replies
  <2>. QED
    BY <1>1, <2>1 DEF Faithful, StartsOnly, Reply
<1>. QED
  BY <1>2, <1>3, <1>4, <1>5, <1>6, <1>7, <1>8, <1>9 DEF LaunchCalls

(* A new controller starts from campaign.json.                              *)
LEMMA CrashStep == IInv /\ (Crash \/ ControllerRestarts) => IInv'
<1> SUFFICES ASSUME IInv, Crash \/ ControllerRestarts PROVE IInv'
  OBVIOUS
<1> USE DEF IInv, TypeOK
<1>1. /\ mem' = disk /\ ctl' = Idle
      /\ UNCHANGED <<disk, waiting, status>>
  BY DEF Crash, ControllerRestarts
<1>2. site' \in [Trials -> Site]
  <2>1. CASE UNCHANGED site
    BY <2>1
  <2>2. CASE ctl.at \in Trials /\ \E r \in Replies(ctl.at) : Answered(ctl.at, r)
    BY <2>2, RepliesFaithful, AnswerTyped
  <2>. QED
    BY <2>1, <2>2 DEF Crash, ControllerRestarts
<1>. QED
  BY <1>1, <1>2, IdleTyped, Quiet DEF Table, LaunchCalls

(* What happens around the controller changes one site at most, and starts
   no Job.                                                                  *)
LEMMA WorldChanges ==
    ASSUME IInv, NEW t \in Trials, World(t) \/ JobLoss(t) \/ StorageLoss(t)
    PROVE  /\ UNCHANGED <<disk, mem, ctl, status>> /\ waiting' \subseteq Trials
           /\ \/ UNCHANGED site
              \/ \E s \in Site : /\ site' = [site EXCEPT ![t] = s]
                                 /\ StartsOnly({}, site[t], s)
<1>1. site[t] \in Site /\ waiting \subseteq Trials
  BY DEF IInv, TypeOK
<1>2. CASE JobFinishes(t)
  BY <1>1, <1>2, WorldFaithful DEF JobFinishes
<1>3. CASE TransferFinishes(t)
  BY <1>1, <1>3, WorldFaithful DEF TransferFinishes
<1>4. CASE RetryTimeArrives(t)
  BY <1>1, <1>4 DEF RetryTimeArrives
<1>5. CASE JobLoss(t)
  BY <1>1, <1>5, WorldFaithful DEF JobLoss
<1>6. CASE StorageLoss(t)
  BY <1>1, <1>6, WorldFaithful DEF StorageLoss
<1>. QED
  BY <1>2, <1>3, <1>4, <1>5, <1>6 DEF World

(* So it preserves the invariant.                                           *)
LEMMA WorldStep ==
    ASSUME IInv, NEW t \in Trials, World(t) \/ JobLoss(t) \/ StorageLoss(t)
    PROVE  IInv'
<1>1. /\ UNCHANGED <<disk, mem, ctl, status>> /\ waiting' \subseteq Trials
      /\ site' \in [Trials -> Site]
  BY WorldChanges DEF IInv, TypeOK
<1>. QED
  BY <1>1 DEF IInv, TypeOK, SlotLeft, WalkSaved, LaunchSaved

-----------------------------------------------------------------------------
(* The type invariant.                                                      *)

(* A new campaign satisfies the invariant.                                  *)
LEMMA InitInvariant == Init => IInv
<1> SUFFICES ASSUME Init PROVE IInv
  OBVIOUS
<1>1. NewEntry \in Entry
  <2>1. /\ 0 \in 0 .. SubmissionMax /\ 0 \in 0 .. CollectionMax /\ 0 \in 0 .. PublicationMax
        /\ 0 \in 0 .. MaxRestarts /\ 0 \in 0 .. MaxContinuations
    BY PlanAssumption, MaxRestartsAssumption, MaxContinuationsAssumption
  <2>. QED
    BY <2>1 DEF NewEntry, Entry, Phases, Handles, Endings, Work, Outcomes
<1>2. EmptySite \in Site
  BY DEF EmptySite, Site, JobStates, PvcStates, Work, Handles, TransferStates
<1>3. TypeOK
  BY <1>1, <1>2, IdleTyped DEF Init, TypeOK, Statuses
<1>. QED
  BY <1>3, IdleTyped DEF Init, IInv, SlotLeft, WalkSaved, LaunchSaved, LaunchCalls

(* Every step preserves it.                                                 *)
LEMMA NextInvariant == IInv /\ [Next]_vars => IInv'
<1> SUFFICES ASSUME IInv, [Next]_vars PROVE IInv'
  OBVIOUS
<1>1. CASE Walk
  BY <1>1, StartAdvanceStep, NextPassStep, AskCapacityStep, CapacityReturnsStep,
     FinishAdvanceStep DEF Walk
<1>2. ASSUME NEW t \in Trials, EngineStep(t)
      PROVE  IInv'
  <2>1. CASE BeginSubmit(t) \/ SubmitReturns(t)
    BY <2>1, BeginSubmitStep, SubmitReturnsStep
  <2>2. CASE BeginRestart(t) \/ RestartReturns(t)
    BY <2>2, BeginRestartStep, RestartReturnsStep
  <2>3. CASE BeginContinue(t) \/ ContinueReturns(t)
    BY <2>3, BeginContinueStep, ContinueReturnsStep
  <2>4. CASE BeginInspect(t) \/ InspectReturns(t) \/ TerminateReturns(t)
    BY <2>4, BeginInspectStep, InspectReturnsStep, TerminateReturnsStep
  <2>5. CASE LogsReturn(t) \/ BeginCollect(t) \/ CollectReturns(t)
    BY <2>5, LogsReturnStep, BeginCollectStep, CollectReturnsStep
  <2>6. CASE BeginEvaluate(t) \/ EvaluateReturns(t)
    BY <2>6, BeginEvaluateStep, EvaluateReturnsStep
  <2>7. CASE BeginPublish(t) \/ PublishReturns(t)
    BY <2>7, BeginPublishStep, PublishReturnsStep
  <2>8. CASE BeginCleanup(t) \/ CleanupReturns(t)
    BY <2>8, BeginCleanupStep, CleanupReturnsStep
  <2>. QED
    BY <1>2, <2>1, <2>2, <2>3, <2>4, <2>5, <2>6, <2>7, <2>8 DEF EngineStep
<1>3. ASSUME NEW t \in Trials, RequestContinuation(t)
      PROVE  IInv'
  BY <1>3, RequestContinuationStep
<1>4. CASE Crash \/ ControllerRestarts
  BY <1>4, CrashStep
<1>5. ASSUME NEW t \in Trials, World(t) \/ JobLoss(t) \/ StorageLoss(t)
      PROVE  IInv'
  BY <1>5, WorldStep
<1>6. CASE UNCHANGED vars
  BY <1>6 DEF vars, IInv, TypeOK, SlotLeft, WalkSaved, LaunchSaved
<1>. QED
  BY <1>1, <1>2, <1>3, <1>4, <1>5, <1>6 DEF Next

(* The invariant holds in every state of every campaign.                    *)
THEOREM Invariant == Spec => []IInv
<1>. QED
  BY InitInvariant, NextInvariant, PTL DEF Spec

(* Every variable of the engine keeps its type: no counter passes the limit
   its plan sets, no admission gives out more slots than max_parallel leaves,
   and no restart passes infrastructure_max_restarts.                       *)
THEOREM TypeCorrect == Spec => []TypeOK
<1>1. IInv => TypeOK
  BY DEF IInv
<1>. QED
  BY <1>1, Invariant, PTL

-----------------------------------------------------------------------------
(* Phases before side effects.                                              *)

LaunchesAuthorized ==
    \A t \in Trials, j \in JobNames : Launch(t, j) => j \in Authorized(disk[t])

(* A change of one site that starts no other Job starts no other Job.       *)
LEMMA OneSite ==
    ASSUME site \in [Trials -> Site], NEW t \in Trials, NEW s, NEW J,
           site' = [site EXCEPT ![t] = s], StartsOnly(J, site[t], s),
           J \subseteq Authorized(disk[t])
    PROVE  LaunchesAuthorized
<1> SUFFICES ASSUME NEW u \in Trials, NEW j \in JobNames, Launch(u, j)
             PROVE  j \in Authorized(disk[u])
  BY DEF LaunchesAuthorized
<1>1. site[u].jobs[j] # "active" /\ site'[u].jobs[j] = "active"
  BY DEF Launch
<1>2. u = t
  BY <1>1
<1>. QED
  BY <1>1, <1>2 DEF StartsOnly

(* A change of one site that starts nothing.                                *)
LEMMA SiteAtRest ==
    ASSUME site \in [Trials -> Site], NEW t \in Trials, NEW s,
           site' = [site EXCEPT ![t] = s], StartsOnly({}, site[t], s)
    PROVE  LaunchesAuthorized
<1>1. ~\E u \in Trials, j \in JobNames : Launch(u, j)
  BY DEF Launch, StartsOnly
<1>. QED
  BY <1>1 DEF LaunchesAuthorized

(* The answer of the call in flight starts an authorized Job or none.       *)
LEMMA AnswerAuthorized ==
    ASSUME IInv, ctl.at \in Trials, NEW r \in Replies(ctl.at), Answered(ctl.at, r)
    PROVE  LaunchesAuthorized
<1> DEFINE J == IF ctl.call \in LaunchCalls THEN Authorized(disk[ctl.at]) ELSE {}
<1>1. StartsOnly(J, site[ctl.at], r.site)
  BY RepliesFaithful DEF Faithful
<1>2. J \subseteq Authorized(disk[ctl.at])
  OBVIOUS
<1>3. site \in [Trials -> Site]
  BY DEF IInv, TypeOK
<1> HIDE DEF J
<1>. QED
  BY <1>1, <1>2, <1>3, OneSite DEF Answered

(* Without a change of a site nothing starts.                               *)
LEMMA NothingStarts == UNCHANGED site => LaunchesAuthorized
BY DEF LaunchesAuthorized, Launch

(* Every step only starts Jobs that campaign.json authorizes.               *)
LEMMA NextAuthorized == IInv /\ Next => LaunchesAuthorized
<1> SUFFICES ASSUME IInv, Next PROVE LaunchesAuthorized
  OBVIOUS
<1>1. CASE Walk
  <2>1. UNCHANGED site
    BY <1>1 DEF Walk, StartAdvance, NextPass, AskCapacity, CapacityReturns, FinishAdvance
  <2>. QED
    BY <2>1, NothingStarts
<1>2. ASSUME NEW t \in Trials, EngineStep(t)
      PROVE  LaunchesAuthorized
  <2>1. CASE SubmitReturns(t)
    <3>1. ctl.at = t /\ Replies(t) = SubmitReplies(site[t])
      BY <2>1 DEF SubmitReturns, Calling, Replies
    <3>. QED
      BY <2>1, <3>1, AnswerAuthorized DEF SubmitReturns
  <2>2. CASE RestartReturns(t)
    <3>1. /\ ctl.at = t
          /\ Replies(t) = RestartReplies(site[t], mem[t].handle, "restart", mem[t].infra)
      BY <2>2 DEF RestartReturns, Calling, Replies
    <3>. QED
      BY <2>2, <3>1, AnswerAuthorized DEF RestartReturns
  <2>3. CASE ContinueReturns(t)
    <3>1. /\ ctl.at = t
          /\ Replies(t) = RestartReplies(site[t], mem[t].handle, "continuation", mem[t].cont)
      BY <2>3 DEF ContinueReturns, Calling, Replies
    <3>. QED
      BY <2>3, <3>1, AnswerAuthorized DEF ContinueReturns
  <2>4. CASE TerminateReturns(t)
    <3>1. ctl.at = t /\ Replies(t) = TerminateReplies(site[t], mem[t].handle)
      BY <2>4 DEF TerminateReturns, Calling, Replies
    <3>. QED
      BY <2>4, <3>1, AnswerAuthorized DEF TerminateReturns
  <2>5. CASE CollectReturns(t)
    <3>1. ctl.at = t /\ Replies(t) = CollectReplies(site[t])
      BY <2>5 DEF CollectReturns, Calling, Replies
    <3>. QED
      BY <2>5, <3>1, AnswerAuthorized DEF CollectReturns
  <2>6. CASE PublishReturns(t)
    <3>1. ctl.at = t /\ Replies(t) = PublishReplies(site[t])
      BY <2>6 DEF PublishReturns, Calling, Replies
    <3>. QED
      BY <2>6, <3>1, AnswerAuthorized DEF PublishReturns
  <2>7. CASE CleanupReturns(t)
    <3>1. /\ ctl.at = t
          /\ Replies(t) = CleanupReplies(site[t], mem[t].handle, Retained(mem[t]))
      BY <2>7 DEF CleanupReturns, Calling, Replies
    <3>. QED
      BY <2>7, <3>1, AnswerAuthorized DEF CleanupReturns
  <2>8. CASE BeginContinue(t)
    <3>1. CASE UNCHANGED site
      BY <3>1, NothingStarts
    <3>2. CASE site' = [site EXCEPT ![t] = Discarded(@)]
      <4>1. StartsOnly({}, site[t], Discarded(site[t]))
        BY DEF StartsOnly, Discarded, IInv, TypeOK, Site
      <4>2. site' = [site EXCEPT ![t] = Discarded(site[t])] /\ site \in [Trials -> Site]
        BY <3>2 DEF IInv, TypeOK
      <4>. QED
        BY <4>1, <4>2, SiteAtRest
    <3>. QED
      BY <2>8, <3>1, <3>2 DEF BeginContinue
  <2>9. CASE \/ BeginSubmit(t) \/ BeginRestart(t) \/ BeginInspect(t) \/ InspectReturns(t)
             \/ LogsReturn(t) \/ BeginCollect(t) \/ BeginEvaluate(t) \/ EvaluateReturns(t)
             \/ BeginPublish(t) \/ BeginCleanup(t)
    <3>1. UNCHANGED site
      BY <2>9 DEF BeginSubmit, BeginRestart, BeginInspect, InspectReturns, LogsReturn,
                  BeginCollect, BeginEvaluate, EvaluateReturns, BeginPublish, BeginCleanup
    <3>. QED
      BY <3>1, NothingStarts
  <2>. QED
    BY <1>2, <2>1, <2>2, <2>3, <2>4, <2>5, <2>6, <2>7, <2>8, <2>9 DEF EngineStep
<1>3. ASSUME NEW t \in Trials, RequestContinuation(t)
      PROVE  LaunchesAuthorized
  BY <1>3, NothingStarts DEF RequestContinuation
<1>4. CASE Crash \/ ControllerRestarts
  BY <1>4, NothingStarts, AnswerAuthorized DEF Crash, ControllerRestarts
<1>5. ASSUME NEW t \in Trials, World(t) \/ JobLoss(t) \/ StorageLoss(t)
      PROVE  LaunchesAuthorized
  <2>1. site \in [Trials -> Site]
    BY DEF IInv, TypeOK
  <2>. QED
    BY <1>5, <2>1, WorldChanges, SiteAtRest, NothingStarts
<1>. QED
  BY <1>1, <1>2, <1>3, <1>4, <1>5 DEF Next

(* "The reconciliation engine persists phases before side effects": for every
   plan and every set of faults, a workload Job only starts for the phase and
   the generation that campaign.json already holds.                         *)
THEOREM PhasesBeforeSideEffects == Spec => LaunchIsPersisted
<1>1. IInv /\ [Next]_vars => [LaunchesAuthorized]_vars
  BY NextAuthorized
<1>. QED
  BY <1>1, Invariant, PTL DEF Spec, LaunchIsPersisted, LaunchesAuthorized

-----------------------------------------------------------------------------
(* The workloads of a trial.                                                *)

OneActive(s) == \A j, k \in LiveJobs(s) : j = k

LaunchPhases == {"submitting", "submission_retry_wait", "infrastructure_retrying",
                 "continuation_retrying"}

(* Once the replacement `job` exists, nothing else runs.                    *)
Replaces(s, job) == job \in JobNames /\ s.jobs[job] # "absent" => LiveJobs(s) \subseteq {job}

(* The entry e leads to what runs in s, and no later generation exists.     *)
Tracks(s, e) ==
    /\ e.phase # "attention_required" => LiveJobs(s) \subseteq Leads(e)
    /\ \A n \in 1 .. MaxRestarts : n > e.infra => s.jobs[Restarted(n)] = "absent"
    /\ \A n \in 1 .. MaxContinuations : n > e.cont => s.jobs[Continued(n)] = "absent"
    /\ e.phase = "infrastructure_retrying" => Replaces(s, Restarted(e.infra))
    /\ e.phase = "continuation_retrying" => Replaces(s, Continued(e.cont))

(* The calls about a workload that has a handle.                            *)
HandleCalls == {"inspect", "terminate", "logs", "collect", "evaluate", "publish", "cleanup"}

CallTracks ==
    /\ ctl.call = "none" \/ ctl.pass \in Passes
    /\ ctl.call \in HandleCalls =>
            ctl.at \in Trials /\ LiveJobs(site[ctl.at]) \subseteq {mem[ctl.at].handle}
    /\ ctl.call = "restart" /\ ctl.pass = "reconcile" => LiveJobs(site[ctl.at]) = {}
    /\ ctl.call = "submit" => mem[ctl.at].handle = NoJob

WInv ==
    /\ CallTracks
    /\ \A t \in Trials : /\ OneActive(site[t])
                         /\ Tracks(site[t], mem[t])
                         /\ Tracks(site[t], disk[t])

-----------------------------------------------------------------------------
(* Sites and entries.                                                       *)

(* No two generations share a name.                                         *)
LEMMA NamesDiffer ==
    /\ NoJob \notin JobNames
    /\ \A n \in Nat : /\ Restarted(n) # First /\ Continued(n) # First
                      /\ \A k \in Nat : /\ Restarted(n) # Continued(k)
                                        /\ Restarted(n) = Restarted(k) => n = k
                                        /\ Continued(n) = Continued(k) => n = k
    /\ First \in JobNames
    /\ \A n \in 1 .. MaxRestarts : Restarted(n) \in JobNames
    /\ \A n \in 1 .. MaxContinuations : Continued(n) \in JobNames
<1>1. /\ \A n \in Nat : NoJob # Restarted(n) /\ NoJob # Continued(n)
      /\ NoJob # First
  BY DEF NoJob, Restarted, Continued, First
<1>2. \A n \in 1 .. MaxRestarts : n \in Nat
  BY MaxRestartsAssumption
<1>3. \A n \in 1 .. MaxContinuations : n \in Nat
  BY MaxContinuationsAssumption
<1>4. NoJob \notin JobNames
  BY <1>1, <1>2, <1>3 DEF JobNames
<1>5. \A n \in Nat : /\ Restarted(n) # First /\ Continued(n) # First
                     /\ \A k \in Nat : /\ Restarted(n) # Continued(k)
                                       /\ Restarted(n) = Restarted(k) => n = k
                                       /\ Continued(n) = Continued(k) => n = k
  BY DEF Restarted, Continued, First
<1>. QED
  BY <1>4, <1>5 DEF JobNames

(* A step that starts nothing keeps every entry on track.                   *)
LEMMA Quieter ==
    ASSUME NEW s, NEW n, StartsOnly({}, s, n), NEW e
    PROVE  /\ LiveJobs(n) \subseteq LiveJobs(s)
           /\ OneActive(s) => OneActive(n)
           /\ Tracks(s, e) => Tracks(n, e)
<1>1. LiveJobs(n) \subseteq LiveJobs(s)
  BY DEF StartsOnly, LiveJobs
<1>2. OneActive(s) => OneActive(n)
  BY <1>1 DEF OneActive
<1>3. \A j \in JobNames : s.jobs[j] = "absent" => n.jobs[j] = "absent"
  BY DEF StartsOnly
<1>4. ASSUME NEW job, Replaces(s, job)
      PROVE  Replaces(n, job)
  BY <1>1, <1>3, <1>4 DEF Replaces
<1>5. Tracks(s, e) => Tracks(n, e)
  BY <1>1, <1>3, <1>4, NamesDiffer DEF Tracks
<1>. QED
  BY <1>1, <1>2, <1>5

(* The same Jobs, in whatever phase.                                        *)
SameJobs(e, f) == f.handle = e.handle /\ f.infra = e.infra /\ f.cont = e.cont

(* A trial whose only workload can be the one of its handle may take any
   phase that starts nothing, and a trial without a workload any phase.     *)
LEMMA Settles ==
    ASSUME NEW s, NEW e, NEW f, Tracks(s, e), SameJobs(e, f),
           \/ LiveJobs(s) = {}
           \/ f.phase \in {"attention_required", e.phase}
           \/ f.phase \notin LaunchPhases /\ LiveJobs(s) \subseteq {e.handle}
    PROVE  Tracks(s, f)
<1>1. /\ \A n \in 1 .. MaxRestarts : n > f.infra => s.jobs[Restarted(n)] = "absent"
      /\ \A n \in 1 .. MaxContinuations : n > f.cont => s.jobs[Continued(n)] = "absent"
  BY DEF Tracks, SameJobs
<1>2. CASE LiveJobs(s) = {}
  BY <1>1, <1>2 DEF Tracks, Replaces
<1>3. CASE f.phase = "attention_required"
  BY <1>1, <1>3 DEF Tracks
<1>4. CASE f.phase \notin LaunchPhases /\ LiveJobs(s) \subseteq {e.handle}
  <2>1. LiveJobs(s) \subseteq Leads(f)
    BY <1>4 DEF Leads, SameJobs
  <2>. QED
    BY <1>1, <1>4, <2>1 DEF Tracks, LaunchPhases
<1>5. CASE f.phase = e.phase
  BY <1>5 DEF SameJobs, Tracks, Leads
<1>. QED
  BY <1>2, <1>3, <1>4, <1>5

(* In a phase that starts nothing only the Job of the handle can run.       *)
LEMMA OnlyHandle ==
    ASSUME NEW s, NEW e, Tracks(s, e), e.phase \notin LaunchPhases \cup {"attention_required"}
    PROVE  LiveJobs(s) \subseteq {e.handle}
BY DEF Tracks, Leads, LaunchPhases

(* The deletion of the only workload leaves none.                           *)
LEMMA DeletedEmpty ==
    ASSUME NEW s \in Site, NEW h, LiveJobs(s) \subseteq {h}, NEW c \in Deleted(s, h)
    PROVE  LiveJobs(c) = {}
<1>1. StartsOnly({}, s, c) /\ c \in Site
  BY DeletedFaithful
<1>2. LiveJobs(c) \subseteq {h}
  BY <1>1, Quieter
<1>3. CASE h \notin JobNames
  BY <1>2, <1>3 DEF LiveJobs
<1>4. CASE h \in JobNames
  <2>1. PICK w \in Work : c = [s EXCEPT !.jobs[h] = "absent", !.work = w]
    BY <1>4 DEF Deleted, Progress, Site
  <2>2. c.jobs[h] = "absent"
    BY <1>4, <2>1 DEF Site
  <2>. QED
    BY <1>2, <2>2 DEF LiveJobs
<1>. QED
  BY <1>3, <1>4

-----------------------------------------------------------------------------
(* The calls that start workloads.                                          *)

(* submit() starts the first Job next to nothing else, and returns it.      *)
LEMMA SubmitSafe ==
    ASSUME NEW s \in Site, LiveJobs(s) \subseteq {First}, NEW r \in SubmitReplies(s)
    PROVE  /\ LiveJobs(r.site) \subseteq {First}
           /\ r.res = "ok" => r.site.file = First
<1>1. StartsOnly({First}, s, r.site) /\ r.site \in Site
  BY SubmitFaithful DEF Faithful
<1>2. LiveJobs(r.site) \subseteq {First}
  BY <1>1 DEF StartsOnly, LiveJobs
<1>3. ASSUME r.res = "ok"
      PROVE  r.site.file = First
  <2> DEFINE held    == IF s.pvc = "bound" THEN s
                        ELSE [s EXCEPT !.pvc = "bound", !.work = "incomplete"]
             started == [held EXCEPT !.jobs[First] = "active"]
             named   == [started EXCEPT !.file = First, !.gathered = FALSE]
             adopted == [s EXCEPT !.file = First]
  <2>1. \/ s.file = First /\ r.site = s
        \/ r.site = adopted
        \/ r.site = named
    BY <1>3 DEF SubmitReplies, Reply, Broken, Unanswered, Refused
  <2>2. held \in Site
    BY FieldsSet
  <2> HIDE DEF held
  <2>3. started \in Site
    <3>1. First \in JobNames /\ "active" \in JobStates
      BY NamesDiffer DEF JobStates
    <3>. QED
      BY <2>2, <3>1, JobSet
  <2> HIDE DEF started
  <2>4. adopted.file = First /\ named.file = First
    BY <2>3 DEF Site
  <2>. QED
    BY <2>1, <2>4
<1>. QED
  BY <1>2, <1>3

(* restart() leaves at most one of the old and the new Job running; the Job
   it returns is the only one; refused, it has started nothing.             *)
LEMMA RestartSafe ==
    ASSUME NEW s \in Site, NEW h, NEW kind, NEW n \in Nat,
           n >= 1 => <<kind, n>> \in JobNames,
           OneActive(s), LiveJobs(s) \subseteq {h, <<kind, n>>}, Replaces(s, <<kind, n>>),
           NEW r \in RestartReplies(s, h, kind, n)
    PROVE  /\ OneActive(r.site)
           /\ LiveJobs(r.site) \subseteq {h, <<kind, n>>}
           /\ Replaces(r.site, <<kind, n>>)
           /\ r.res = "ok" => r.site.file = <<kind, n>> /\ LiveJobs(r.site) \subseteq {<<kind, n>>}
           /\ r.res = "error" => StartsOnly({}, s, r.site)
<1> DEFINE target  == <<kind, n>>
           cleared == Deleted(s, h)
           Started(c) == [c EXCEPT !.jobs[target] = "active"]
           started == {Started(c) : c \in cleared}
           Recorded(c) == [c EXCEPT !.file = target, !.gathered = FALSE]
<1>1. CASE n < 1 \/ s.pvc # "bound"
  <2>1. RestartReplies(s, h, kind, n) = Unanswered({s}) \cup {Reply("error", s)}
    BY <1>1 DEF RestartReplies
  <2>2. r.site = s /\ r.res # "ok"
    BY <2>1 DEF Unanswered, Reply
  <2>. QED
    BY <2>2 DEF StartsOnly
<1>2. CASE ~(n < 1 \/ s.pvc # "bound") /\ s.jobs[target] # "absent"
  <2>1. target \in JobNames /\ target \in Handles
    BY <1>2 DEF Handles
  <2>2. RestartReplies(s, h, kind, n) = Broken({s}) \cup {Reply("ok", Recorded(s))}
    BY <1>2 DEF RestartReplies
  <2>3. \/ r.site = s /\ r.res # "ok"
        \/ r.site = Recorded(s) /\ r.res = "ok"
    <3> HIDE DEF Recorded
    <3>. QED
      BY <2>2 DEF Broken, Unanswered, Refused, Reply
  <2>4. Recorded(s).jobs = s.jobs /\ Recorded(s).file = target
    BY DEF Site
  <2>5. LiveJobs(s) \subseteq {target}
    BY <1>2, <2>1 DEF Replaces
  <2> HIDE DEF Recorded
  <2>6. LiveJobs(Recorded(s)) = LiveJobs(s)
    BY <2>4 DEF LiveJobs
  <2>7. OneActive(Recorded(s)) /\ Replaces(Recorded(s), target)
    BY <2>4, <2>5, <2>6 DEF OneActive, Replaces
  <2>8. r.res = "error" => StartsOnly({}, s, r.site)
    BY <2>3 DEF StartsOnly
  <2>. QED
    BY <2>3, <2>4, <2>5, <2>6, <2>7, <2>8
<1>3. CASE ~(n < 1 \/ s.pvc # "bound") /\ ~(s.jobs[target] # "absent")
  <2>1. target \in JobNames /\ target \in Handles
    BY <1>3 DEF Handles
  <2>2. LiveJobs(s) \subseteq {h}
    BY <1>3 DEF LiveJobs
  <2>3. \A c \in cleared : /\ c \in Site /\ LiveJobs(c) = {} /\ StartsOnly({}, s, c)
    BY <2>2, DeletedEmpty, DeletedFaithful
  <2>4. ASSUME NEW c \in cleared
        PROVE  /\ Started(c) \in Site /\ LiveJobs(Started(c)) \subseteq {target}
               /\ LiveJobs(Recorded(Started(c))) \subseteq {target}
               /\ Recorded(Started(c)).file = target
    <3>1. Started(c) \in Site /\ StartsOnly({target}, c, Started(c))
      BY <2>1, <2>3, JobSet DEF JobStates
    <3>2. LiveJobs(Started(c)) \subseteq {target}
      BY <2>3, <3>1 DEF StartsOnly, LiveJobs
    <3> HIDE DEF Started
    <3>3. Recorded(Started(c)).jobs = Started(c).jobs /\ Recorded(Started(c)).file = target
      BY <3>1 DEF Site
    <3> HIDE DEF Recorded
    <3>. QED
      BY <3>1, <3>2, <3>3 DEF LiveJobs
  <2>5. RestartReplies(s, h, kind, n) =
            Broken({s} \cup cleared) \cup Unanswered(started)
                \cup {Reply("ok", Recorded(c)) : c \in started}
    BY <1>3 DEF RestartReplies
  <2> HIDE DEF cleared, Started, Recorded
  <2>6. \/ r.site = s /\ r.res # "ok"
        \/ r.site \in cleared /\ r.res # "ok"
        \/ r.res = "lost" /\ \E c \in cleared : r.site = Started(c)
        \/ r.res = "ok" /\ \E c \in cleared : r.site = Recorded(Started(c))
    BY <2>5 DEF Broken, Unanswered, Refused, Reply
  <2>7. CASE r.site = s /\ r.res # "ok"
    BY <2>7 DEF StartsOnly
  <2>8. CASE r.site \in cleared /\ r.res # "ok"
    BY <2>3, <2>8 DEF OneActive, Replaces
  <2>9. CASE r.res = "lost" /\ \E c \in cleared : r.site = Started(c)
    BY <2>4, <2>9 DEF OneActive, Replaces
  <2>10. CASE r.res = "ok" /\ \E c \in cleared : r.site = Recorded(Started(c))
    BY <2>4, <2>10 DEF OneActive, Replaces
  <2>. QED
    BY <2>6, <2>7, <2>8, <2>9, <2>10
<1>. QED
  BY <1>1, <1>2, <1>3

(* A call that starts a workload keeps the entry it was issued for on track. *)
LEMMA LaunchTracks ==
    ASSUME IInv, WInv, NEW t \in Trials, ctl.at = t, ctl.call \in LaunchCalls,
           NEW r \in Replies(t)
    PROVE  /\ OneActive(r.site) /\ Tracks(r.site, mem[t]) /\ mem = disk
           /\ ctl.call = "submit" /\ r.res = "ok" =>
                r.site.file = First /\ LiveJobs(r.site) \subseteq {First}
           /\ ctl.call = "restart" /\ r.res = "ok" =>
                /\ r.site.file = Restarted(mem[t].infra)
                /\ LiveJobs(r.site) \subseteq {Restarted(mem[t].infra)}
           /\ ctl.call = "continue" /\ r.res = "ok" =>
                /\ r.site.file = Continued(mem[t].cont)
                /\ LiveJobs(r.site) \subseteq {Continued(mem[t].cont)}
           /\ ctl.call # "submit" /\ r.res = "error" => StartsOnly({}, site[t], r.site)
<1> DEFINE s == site[t]
           e == mem[t]
<1>1. s \in Site /\ e \in Entry /\ mem = disk /\ Tracks(s, e) /\ OneActive(s)
  BY DEF IInv, TypeOK, LaunchSaved, WInv
<1>2. Faithful(Authorized(e), s, Replies(t))
  BY <1>1, RepliesFaithful
<1>3. CASE ctl.call = "submit"
  <2>1. e.phase = "submitting" /\ e.handle = NoJob
    BY <1>1, <1>3 DEF IInv, LaunchSaved, LaunchCalls, WInv, CallTracks
  <2>2. LiveJobs(s) \subseteq {First}
    BY <1>1, <2>1, NamesDiffer DEF Tracks, Leads, LiveJobs
  <2>3. r \in SubmitReplies(s)
    BY <1>3 DEF Replies
  <2>4. StartsOnly({First}, s, r.site)
    BY <1>2, <2>1 DEF Faithful, Authorized
  <2>5. LiveJobs(r.site) \subseteq {First} /\ (r.res = "ok" => r.site.file = First)
    BY <1>1, <2>2, <2>3, SubmitSafe
  <2>6. Tracks(r.site, e)
    BY <1>1, <2>1, <2>4, <2>5, NamesDiffer, MaxRestartsAssumption, MaxContinuationsAssumption
       DEF Tracks, Leads, StartsOnly
  <2>. QED
    BY <1>1, <1>3, <2>5, <2>6 DEF OneActive
<1>4. CASE ctl.call = "restart"
  <2>1. e.phase = "infrastructure_retrying"
    BY <1>1, <1>4 DEF IInv, LaunchSaved, LaunchCalls
  <2>2. /\ LiveJobs(s) \subseteq {e.handle, Restarted(e.infra)}
        /\ Replaces(s, Restarted(e.infra))
    BY <1>1, <2>1 DEF Tracks, Leads
  <2>3. r \in RestartReplies(s, e.handle, "restart", e.infra)
    BY <1>4 DEF Replies
  <2>4. StartsOnly({Restarted(e.infra)}, s, r.site)
    BY <1>2, <2>1 DEF Faithful, Authorized
  <2>5. e.infra \in Nat /\ (e.infra >= 1 => Restarted(e.infra) \in JobNames)
    BY <1>1, GenerationNamed
  <2>6. /\ OneActive(r.site)
        /\ LiveJobs(r.site) \subseteq {e.handle, Restarted(e.infra)}
        /\ Replaces(r.site, Restarted(e.infra))
        /\ r.res = "ok" => /\ r.site.file = Restarted(e.infra)
                           /\ LiveJobs(r.site) \subseteq {Restarted(e.infra)}
        /\ r.res = "error" => StartsOnly({}, s, r.site)
    <3> HIDE DEF s, e
    <3>. QED
      BY <1>1, <2>2, <2>3, <2>5, RestartSafe DEF Restarted
  <2>7. Tracks(r.site, e)
    <3>1. \A n \in 1 .. MaxRestarts : n > e.infra => r.site.jobs[Restarted(n)] = "absent"
      BY <1>1, <2>4, <2>5, NamesDiffer, MaxRestartsAssumption DEF Tracks, StartsOnly
    <3>2. \A n \in 1 .. MaxContinuations : n > e.cont => r.site.jobs[Continued(n)] = "absent"
      BY <1>1, <2>4, <2>5, NamesDiffer, MaxContinuationsAssumption DEF Tracks, StartsOnly
    <3>. QED
      BY <2>1, <2>6, <3>1, <3>2 DEF Tracks, Leads
  <2>. QED
    BY <1>1, <1>4, <2>6, <2>7
<1>5. CASE ctl.call = "continue"
  <2>1. e.phase = "continuation_retrying"
    BY <1>1, <1>5 DEF IInv, LaunchSaved, LaunchCalls
  <2>2. /\ LiveJobs(s) \subseteq {e.handle, Continued(e.cont)}
        /\ Replaces(s, Continued(e.cont))
    BY <1>1, <2>1 DEF Tracks, Leads
  <2>3. r \in RestartReplies(s, e.handle, "continuation", e.cont)
    BY <1>5 DEF Replies
  <2>4. StartsOnly({Continued(e.cont)}, s, r.site)
    BY <1>2, <2>1 DEF Faithful, Authorized
  <2>5. e.cont \in Nat /\ (e.cont >= 1 => Continued(e.cont) \in JobNames)
    BY <1>1, GenerationNamed
  <2>6. /\ OneActive(r.site)
        /\ LiveJobs(r.site) \subseteq {e.handle, Continued(e.cont)}
        /\ Replaces(r.site, Continued(e.cont))
        /\ r.res = "ok" => /\ r.site.file = Continued(e.cont)
                           /\ LiveJobs(r.site) \subseteq {Continued(e.cont)}
        /\ r.res = "error" => StartsOnly({}, s, r.site)
    <3> HIDE DEF s, e
    <3>. QED
      BY <1>1, <2>2, <2>3, <2>5, RestartSafe DEF Continued
  <2>7. Tracks(r.site, e)
    <3>1. \A n \in 1 .. MaxContinuations : n > e.cont => r.site.jobs[Continued(n)] = "absent"
      BY <1>1, <2>4, <2>5, NamesDiffer, MaxContinuationsAssumption DEF Tracks, StartsOnly
    <3>2. \A n \in 1 .. MaxRestarts : n > e.infra => r.site.jobs[Restarted(n)] = "absent"
      BY <1>1, <2>4, <2>5, NamesDiffer, MaxRestartsAssumption DEF Tracks, StartsOnly
    <3>. QED
      BY <2>1, <2>6, <3>1, <3>2 DEF Tracks, Leads
  <2>. QED
    BY <1>1, <1>5, <2>6, <2>7
<1>. QED
  BY <1>3, <1>4, <1>5 DEF LaunchCalls

-----------------------------------------------------------------------------
(* How the steps change the tables.                                         *)

(* The entry of one trial is set; the others are at most saved.             *)
OthersKept(t) ==
    \A u \in Trials : u # t => /\ site'[u] = site[u] /\ mem'[u] = mem[u]
                               /\ disk'[u] \in {disk[u], mem[u]}

(* It suffices to look at the trial of the step and the call in flight.     *)
LEMMA Assemble ==
    ASSUME WInv, NEW t \in Trials, OthersKept(t),
           OneActive(site'[t]), Tracks(site'[t], mem'[t]), Tracks(site'[t], disk'[t]),
           CallTracks'
    PROVE  WInv'
<1>1. ASSUME NEW u \in Trials, u # t
      PROVE  OneActive(site'[u]) /\ Tracks(site'[u], mem'[u]) /\ Tracks(site'[u], disk'[u])
  BY <1>1 DEF WInv, OthersKept
<1>. QED
  BY <1>1 DEF WInv

(* The entries of t hold the same Jobs before and after the step.           *)
Touches(t) ==
    /\ \A u \in Trials : u # t => mem'[u] = mem[u] /\ disk'[u] \in {disk[u], mem[u]}
    /\ SameJobs(mem[t], mem'[t])
    /\ disk'[t] \in {disk[t], mem'[t]}

(* A new table that only sets fields of t, in memory or saved.              *)
LEMMA Touched ==
    ASSUME NEW t \in Trials, NEW m, Save(m) \/ Keep(m) \/ Paused(m) \/ Raised(m),
           \A u \in Trials : u # t => m[u] = mem[u], SameJobs(mem[t], m[t])
    PROVE  Touches(t) /\ mem' = m
BY DEF Save, Saved, Keep, Paused, Raised, Touches

(* The handling of a trial: whatever runs is the Job of its handle.         *)
LEMMA HandledStep ==
    ASSUME IInv, WInv, NEW t \in Trials, Touches(t),
           LiveJobs(site[t]) \subseteq {mem[t].handle},
           NEW s, StartsOnly({}, site[t], s), site' = [site EXCEPT ![t] = s],
           mem'[t].phase \notin LaunchPhases \/ mem'[t].phase = mem[t].phase \/ LiveJobs(s) = {},
           ctl'.call \notin LaunchCalls, ctl'.call = "none" \/ ctl'.pass \in Passes,
           ctl'.call \in HandleCalls => ctl'.at = t
    PROVE  WInv'
<1>1. /\ site'[t] = s /\ \A u \in Trials : u # t => site'[u] = site[u]
  BY DEF IInv, TypeOK
<1>2. /\ OneActive(s) /\ Tracks(s, mem[t]) /\ Tracks(s, disk[t])
      /\ LiveJobs(s) \subseteq {mem[t].handle}
  BY Quieter DEF WInv
<1>3. Tracks(s, mem'[t])
  BY <1>2, Settles DEF Touches
<1>4. Tracks(s, disk'[t])
  BY <1>2, <1>3 DEF Touches
<1>5. CallTracks'
  BY <1>1, <1>2 DEF CallTracks, Touches, SameJobs, LaunchCalls
<1>6. OthersKept(t)
  BY <1>1 DEF OthersKept, Touches
<1>. QED
  BY <1>1, <1>2, <1>3, <1>4, <1>5, <1>6, Assemble

(* A step of the engine that leaves the sites alone.                        *)
LEMMA HandledStill ==
    ASSUME IInv, WInv, NEW t \in Trials, Touches(t),
           LiveJobs(site[t]) \subseteq {mem[t].handle}, UNCHANGED site,
           mem'[t].phase \notin LaunchPhases,
           ctl'.call \notin LaunchCalls, ctl'.call = "none" \/ ctl'.pass \in Passes,
           ctl'.call \in HandleCalls => ctl'.at = t
    PROVE  WInv'
<1>1. site' = [site EXCEPT ![t] = site[t]] /\ StartsOnly({}, site[t], site[t])
  BY DEF IInv, TypeOK, StartsOnly
<1>. QED
  BY <1>1, HandledStep

(* The engine asks for attention, or pauses, with no call left in flight.   *)
LEMMA EscalatedStep ==
    ASSUME IInv, WInv, NEW t \in Trials, Touches(t),
           NEW s, OneActive(s), Tracks(s, mem[t]), Tracks(s, disk[t]),
           site' = [site EXCEPT ![t] = s],
           mem'[t].phase \in {"attention_required", mem[t].phase}, ctl'.call = "none"
    PROVE  WInv'
<1>1. /\ site'[t] = s /\ \A u \in Trials : u # t => site'[u] = site[u]
  BY DEF IInv, TypeOK
<1>2. Tracks(s, mem'[t])
  <2>1. CASE mem'[t].phase = "attention_required"
    BY <2>1, Settles DEF Touches
  <2>2. CASE mem'[t].phase = mem[t].phase
    BY <2>2 DEF Touches, SameJobs, Tracks, Leads
  <2>. QED
    BY <2>1, <2>2
<1>3. Tracks(s, disk'[t])
  BY <1>2 DEF Touches
<1>4. CallTracks'
  BY DEF CallTracks, HandleCalls
<1>5. OthersKept(t)
  BY <1>1 DEF OthersKept, Touches
<1>. QED
  BY <1>1, <1>2, <1>3, <1>4, <1>5, Assemble

(* A step after which no call is in flight, the tables are old ones and no
   site has started anything: pauses, crashes, the ends of passes.          *)
LEMMA IdleStep ==
    ASSUME WInv, \A t \in Trials : StartsOnly({}, site[t], site'[t]),
           mem' \in {mem, disk}, disk' \in {mem, disk}, ctl'.call = "none"
    PROVE  WInv'
<1>1. ASSUME NEW t \in Trials
      PROVE  OneActive(site'[t]) /\ Tracks(site'[t], mem'[t]) /\ Tracks(site'[t], disk'[t])
  BY Quieter DEF WInv
<1>2. CallTracks'
  BY DEF CallTracks, HandleCalls
<1>. QED
  BY <1>1, <1>2 DEF WInv

(* An answer that starts nothing leaves every site quieter.                 *)
LEMMA QuietAnswer ==
    ASSUME IInv, NEW t \in Trials, NEW s, StartsOnly({}, site[t], s),
           site' = [site EXCEPT ![t] = s]
    PROVE  \A u \in Trials : StartsOnly({}, site[u], site'[u])
BY DEF IInv, TypeOK, StartsOnly

(* So does a step that leaves them alone.                                   *)
LEMMA QuietStill ==
    ASSUME UNCHANGED site
    PROVE  \A u \in Trials : StartsOnly({}, site[u], site'[u])
BY DEF StartsOnly

-----------------------------------------------------------------------------
(* The walk.                                                                *)

(* Recovery keeps the entries on track.                                     *)
LEMMA RecoveredTracks ==
    ASSUME NEW m \in Table, NEW t \in Trials, NEW s, Tracks(s, m[t])
    PROVE  Tracks(s, Recovered(m)[t]) /\ SameJobs(m[t], Recovered(m)[t])
<1> DEFINE f == Recovered(m)[t]
<1>1. /\ SameJobs(m[t], f)
      /\ \/ f.phase = m[t].phase
         \/ /\ m[t].phase \in {"collecting", "evaluating", "publishing"}
            /\ f.phase \in {"collection_pending", "evaluation_pending", "publication_pending"}
  BY DEF Recovered, SameJobs, Table, Entry
<1> HIDE DEF f
<1>2. CASE f.phase = m[t].phase
  BY <1>1, <1>2 DEF SameJobs, Tracks, Leads, f
<1>3. CASE f.phase # m[t].phase
  <2>1. LiveJobs(s) \subseteq {m[t].handle}
    BY <1>1, <1>3, OnlyHandle DEF LaunchPhases
  <2>2. f.phase \notin LaunchPhases
    BY <1>1, <1>3 DEF LaunchPhases
  <2>. QED
    BY <1>1, <2>1, <2>2, Settles DEF f
<1>. QED
  BY <1>1, <1>2, <1>3 DEF f

(* The start of an advance.                                                 *)
LEMMA StartAdvanceTracks ==
    ASSUME IInv, WInv, StartAdvance
    PROVE  WInv'
<1>1. /\ mem' = Recovered(disk) /\ disk' = Recovered(disk) /\ site' = site
      /\ ctl' = [Idle EXCEPT !.pass = "submit"] /\ disk \in Table
  BY DEF StartAdvance, Saved, IInv, TypeOK, Table
<1>2. ctl'.call = "none"
  BY <1>1, IdleTyped
<1>3. CallTracks'
  BY <1>2 DEF CallTracks, HandleCalls
<1>4. ASSUME NEW t \in Trials
      PROVE  OneActive(site'[t]) /\ Tracks(site'[t], mem'[t]) /\ Tracks(site'[t], disk'[t])
  BY <1>1, RecoveredTracks DEF WInv
<1>. QED
  BY <1>3, <1>4 DEF WInv

(* A continuation is only accepted for a trial that is complete, so that at
   most the Job of its handle runs, and its generation is a new one.        *)
LEMMA RequestContinuationTracks ==
    ASSUME IInv, WInv, NEW t \in Trials, RequestContinuation(t)
    PROVE  WInv'
<1> DEFINE m == Recovered(disk)
           n == [m EXCEPT ![t].phase = "continuation_retrying",
                          ![t].cont = @ + 1, ![t].live = FALSE]
<1>1. /\ disk \in Table /\ m \in Table /\ site' = site /\ ctl' = ctl /\ ctl.pass = "idle"
      /\ disk[t].phase = "complete" /\ disk[t].cont < MaxContinuations
      /\ mem' = n /\ disk' = n
  BY RecoveredTyped DEF RequestContinuation, Save, Saved, IInv, TypeOK, Table
<1>2. \A u \in Trials : Tracks(site[u], m[u]) /\ SameJobs(disk[u], m[u])
  BY <1>1, RecoveredTracks DEF WInv
<1> HIDE DEF m
<1>3. /\ \A u \in Trials : u # t => n[u] = m[u]
      /\ n[t].phase = "continuation_retrying" /\ n[t].cont = m[t].cont + 1
      /\ n[t].handle = m[t].handle /\ n[t].infra = m[t].infra
  BY <1>1 DEF Table, Entry
<1> HIDE DEF n
<1>4. m[t].cont + 1 \in 1 .. MaxContinuations /\ m[t].cont \in Nat
  BY <1>1, <1>2, MaxContinuationsAssumption DEF SameJobs, Table, Entry
<1>5. LiveJobs(site[t]) \subseteq {m[t].handle}
  <2>1. LiveJobs(site[t]) \subseteq {disk[t].handle}
    BY <1>1, OnlyHandle DEF WInv, LaunchPhases
  <2>. QED
    BY <1>2, <2>1 DEF SameJobs
<1>6. site[t].jobs[Continued(m[t].cont + 1)] = "absent"
  BY <1>2, <1>4 DEF Tracks
<1>7. Tracks(site[t], n[t])
  <2>1. \A k \in 1 .. MaxContinuations : k > n[t].cont => site[t].jobs[Continued(k)] = "absent"
    BY <1>2, <1>3, <1>4, MaxContinuationsAssumption DEF Tracks
  <2>. QED
    BY <1>2, <1>3, <1>5, <1>6, <2>1 DEF Tracks, Leads, Replaces
<1>8. CallTracks'
  <2>1. ctl.call = "none"
    BY <1>1 DEF WInv, CallTracks, Passes
  <2>. QED
    BY <1>1, <2>1 DEF CallTracks, HandleCalls
<1>9. ASSUME NEW u \in Trials
      PROVE  OneActive(site'[u]) /\ Tracks(site'[u], mem'[u]) /\ Tracks(site'[u], disk'[u])
  <2>1. CASE u = t
    BY <1>1, <1>7, <2>1 DEF WInv
  <2>2. CASE u # t
    BY <1>1, <1>2, <1>3, <2>2 DEF WInv
  <2>. QED
    BY <2>1, <2>2
<1>. QED
  BY <1>8, <1>9 DEF WInv

(* The ends of passes and of the walk, and the answer about the capacity.   *)
LEMMA PassTracks ==
    ASSUME IInv, WInv, NextPass \/ CapacityReturns \/ FinishAdvance
    PROVE  WInv'
<1>1. site' = site /\ mem' = mem /\ disk' \in {mem, disk}
  BY DEF NextPass, CapacityReturns, FinishAdvance, Paused, Saved
<1>2. ctl'.call = "none"
  <2>1. ctl \in Control
    BY DEF IInv, TypeOK
  <2>. QED
    BY <2>1, IdleTyped DEF NextPass, CapacityReturns, FinishAdvance, Done, Paused, Control
<1>. QED
  BY <1>1, <1>2, QuietStill, IdleStep

(* Trials that cannot be configured ask for attention.                      *)
LEMMA AskCapacityTracks ==
    ASSUME IInv, WInv, AskCapacity
    PROVE  WInv'
<1>1. site' = site /\ disk' = disk /\ mem \in Table
  BY DEF AskCapacity, Keep, IInv, TypeOK, Table
<1>2. ctl'.call = "capacity" /\ ctl'.pass = "admit"
  BY DEF AskCapacity, IInv, TypeOK, Control
<1>3. ASSUME NEW u \in Trials
      PROVE  mem'[u] = mem[u] \/ mem'[u] = [mem[u] EXCEPT !.phase = "attention_required"]
  BY <1>3 DEF AskCapacity, Keep
<1>4. ASSUME NEW u \in Trials
      PROVE  Tracks(site[u], mem'[u])
  <2>1. Tracks(site[u], mem[u]) /\ mem[u] \in Entry
    BY <1>1 DEF WInv, Table
  <2>2. Tracks(site[u], [mem[u] EXCEPT !.phase = "attention_required"])
    BY <2>1, Settles DEF SameJobs, Entry
  <2>. QED
    BY <1>3, <2>1, <2>2
<1>5. CallTracks'
  BY <1>2 DEF CallTracks, HandleCalls, Passes
<1>. QED
  BY <1>1, <1>4, <1>5 DEF WInv

-----------------------------------------------------------------------------
(* Submissions and restarts.                                                *)

(* A trial is escalated before its workload is asked for.                   *)
LEMMA EscalatedEntry ==
    ASSUME mem \in Table, NEW t \in Trials, NEW m \in Table,
           \A u \in Trials : u # t => m[u] = mem[u], SameJobs(mem[t], m[t])
    PROVE  /\ \A u \in Trials : u # t => Escalated(m, t)[u] = mem[u]
           /\ SameJobs(mem[t], Escalated(m, t)[t])
           /\ Escalated(m, t)[t].phase = "attention_required"
BY DEF Escalated, SameJobs, Table, Entry

(* A trial that asks for attention instead of a workload.                   *)
LEMMA RefusedStep ==
    ASSUME IInv, WInv, NEW t \in Trials, Save(Escalated(mem, t)),
           NEW s, OneActive(s), Tracks(s, mem[t]), Tracks(s, disk[t]),
           site' = [site EXCEPT ![t] = s], ctl'.call = "none"
    PROVE  WInv'
<1>1. mem \in Table
  BY DEF IInv, TypeOK, Table
<1>2. /\ \A u \in Trials : u # t => Escalated(mem, t)[u] = mem[u]
      /\ SameJobs(mem[t], Escalated(mem, t)[t])
      /\ Escalated(mem, t)[t].phase = "attention_required"
  BY <1>1, EscalatedEntry DEF SameJobs
<1>3. Touches(t) /\ mem' = Escalated(mem, t)
  BY <1>2, Touched
<1>. QED
  BY <1>2, <1>3, EscalatedStep

(* So it is when the workload cannot be configured.                         *)
LEMMA MisconfiguredStep ==
    ASSUME IInv, WInv, NEW t \in Trials, Save(Escalated(mem, t)), UNCHANGED site,
           ctl.call = "none", ctl' = [ctl EXCEPT !.at = t + 1]
    PROVE  WInv'
<1>1. ctl'.call = "none" /\ site' = [site EXCEPT ![t] = site[t]]
  BY DEF IInv, TypeOK, Control
<1>. QED
  BY <1>1, RefusedStep DEF WInv

(* A submission is only issued for a trial without a handle.                *)
LEMMA BeginSubmitTracks ==
    ASSUME IInv, WInv, NEW t \in Trials, BeginSubmit(t)
    PROVE  WInv'
<1>1. PICK p \in {"submit", "admit"} : Visits(p, t)
  BY DEF BeginSubmit
<1>2. /\ mem[t].phase \in {"submitting", "submission_retry_wait", "pending"}
      /\ mem[t].handle = NoJob /\ ctl.call = "none" /\ ctl.pass = p
  BY <1>1 DEF Visits, Due, Wants
<1>3. CASE Submitting(t) /\ At(t, "submit")
  <2> DEFINE m == [mem EXCEPT ![t].phase = "submitting", ![t].sub = Charge(@, SubmissionMax)]
  <2>1. /\ \A u \in Trials : u # t => m[u] = mem[u]
        /\ SameJobs(mem[t], m[t]) /\ m[t].phase = "submitting"
    BY DEF IInv, TypeOK, Entry, SameJobs
  <2>2. mem' = m /\ disk' = m /\ site' = site
    BY <1>3 DEF Submitting, Save, Saved, BeginSubmit
  <2> HIDE DEF m
  <2>3. LiveJobs(site[t]) \subseteq {First}
    BY <1>2, NamesDiffer DEF WInv, Tracks, Leads, LiveJobs
  <2>4. Tracks(site[t], m[t])
    BY <2>1, <2>3 DEF WInv, Tracks, Leads, SameJobs
  <2>5. ctl'.call = "submit" /\ ctl'.at = t /\ ctl'.pass \in Passes
    BY <1>2, <1>3, Visiting DEF IInv, TypeOK, Calls, Passes
  <2>6. CallTracks'
    BY <1>2, <2>1, <2>2, <2>5 DEF CallTracks, HandleCalls, SameJobs
  <2>7. OthersKept(t)
    BY <2>1, <2>2 DEF OthersKept
  <2>. QED
    BY <2>2, <2>4, <2>6, <2>7, Assemble DEF WInv
<1>4. CASE Save(Escalated(mem, t)) /\ ctl' = [ctl EXCEPT !.at = t + 1]
  BY <1>2, <1>4, MisconfiguredStep DEF BeginSubmit
<1>. QED
  BY <1>3, <1>4 DEF BeginSubmit

(* The walk moves on from a submission.                                     *)
LEMMA SubmitMoves ==
    ASSUME IInv, NEW phase, AfterSubmit(phase)
    PROVE  ctl'.call = "none"
BY DEF AfterSubmit, IInv, TypeOK, Control

(* The answer to a launch that saved what it found.                         *)
LEMMA LaunchedStep ==
    ASSUME IInv, WInv, NEW t \in Trials, NEW s, NEW m, Save(m),
           site' = [site EXCEPT ![t] = s], OneActive(s), Tracks(s, m[t]),
           \A u \in Trials : u # t => m[u] = mem[u], ctl'.call = "none"
    PROVE  WInv'
<1>1. /\ site'[t] = s /\ \A u \in Trials : u # t => site'[u] = site[u]
      /\ mem' = m /\ disk' = m
  BY DEF IInv, TypeOK, Save, Saved
<1>2. OthersKept(t)
  BY <1>1 DEF OthersKept
<1>3. CallTracks'
  BY DEF CallTracks, HandleCalls
<1>. QED
  BY <1>1, <1>2, <1>3, Assemble

(* A pause after an answer that may have started a workload.                *)
LEMMA PausedLaunch ==
    ASSUME IInv, WInv, NEW t \in Trials, NEW s, Paused(mem), mem = disk,
           site' = [site EXCEPT ![t] = s], OneActive(s), Tracks(s, mem[t])
    PROVE  WInv'
<1>1. mem' = mem /\ disk' = mem /\ ctl'.call = "none"
  BY IdleTyped DEF Paused, Saved
<1>2. Touches(t)
  BY <1>1 DEF Touches, SameJobs
<1>. QED
  BY <1>1, <1>2, EscalatedStep

(* The answer to a submission.                                              *)
LEMMA SubmitReturnsTracks ==
    ASSUME IInv, WInv, NEW t \in Trials, SubmitReturns(t)
    PROVE  WInv'
<1> USE DEF IInv, TypeOK
<1>1. ctl.call = "submit" /\ ctl.at = t /\ mem \in Table
  BY DEF SubmitReturns, Calling, Table
<1>2. PICK r \in SubmitReplies(site[t]) :
        /\ Answered(t, r)
        /\ \/ /\ r.res = "ok"
              /\ Save([mem EXCEPT ![t].handle = r.site.file, ![t].phase = "submitted"])
              /\ AfterSubmit("submitted")
           \/ Paused(mem)
           \/ Save(Escalated(mem, t)) /\ AfterSubmit("attention_required")
           \/ \E p \in {"submission_retry_wait", "attention_required"} :
                Save([mem EXCEPT ![t].phase = p]) /\ AfterSubmit(p)
  BY DEF SubmitReturns
<1>3. r \in Replies(t)
  BY <1>1 DEF Replies
<1>4. /\ OneActive(r.site) /\ Tracks(r.site, mem[t]) /\ mem = disk
      /\ r.res = "ok" => r.site.file = First /\ LiveJobs(r.site) \subseteq {First}
  BY <1>1, <1>3, LaunchTracks DEF LaunchCalls
<1>5. site' = [site EXCEPT ![t] = r.site]
  BY <1>2 DEF Answered
<1>6. CASE /\ r.res = "ok"
           /\ Save([mem EXCEPT ![t].handle = r.site.file, ![t].phase = "submitted"])
           /\ AfterSubmit("submitted")
  <2> DEFINE m == [mem EXCEPT ![t].handle = First, ![t].phase = "submitted"]
  <2>1. /\ \A u \in Trials : u # t => m[u] = mem[u]
        /\ m[t].handle = First /\ m[t].phase = "submitted"
        /\ m[t].infra = mem[t].infra /\ m[t].cont = mem[t].cont
    BY <1>1 DEF Table, Entry
  <2>2. Save(m)
    BY <1>4, <1>6
  <2> HIDE DEF m
  <2>3. Tracks(r.site, m[t])
    BY <1>4, <1>6, <2>1 DEF Tracks, Leads
  <2>. QED
    BY <1>4, <1>5, <1>6, <2>1, <2>2, <2>3, SubmitMoves, LaunchedStep
<1>7. CASE Paused(mem)
  BY <1>4, <1>5, <1>7, PausedLaunch
<1>8. CASE Save(Escalated(mem, t)) /\ AfterSubmit("attention_required")
  BY <1>4, <1>5, <1>8, SubmitMoves, RefusedStep
<1>9. ASSUME NEW p \in {"submission_retry_wait", "attention_required"},
             Save([mem EXCEPT ![t].phase = p]), AfterSubmit(p)
      PROVE  WInv'
  <2> DEFINE m == [mem EXCEPT ![t].phase = p]
  <2>1. /\ \A u \in Trials : u # t => m[u] = mem[u]
        /\ SameJobs(mem[t], m[t]) /\ m[t].phase = p
    BY <1>1 DEF Table, Entry, SameJobs
  <2>2. Save(m)
    BY <1>9
  <2> HIDE DEF m
  <2>3. mem[t].phase = "submitting"
    BY <1>1, <1>4 DEF LaunchSaved, LaunchCalls
  <2>4. Tracks(r.site, m[t])
    BY <1>4, <2>1, <2>3 DEF Tracks, Leads, SameJobs
  <2>. QED
    BY <1>4, <1>5, <1>9, <2>1, <2>2, <2>4, SubmitMoves, LaunchedStep
<1>. QED
  BY <1>2, <1>6, <1>7, <1>8, <1>9

(* A restart or a continuation is issued.                                   *)
LEMMA RelaunchIssued ==
    ASSUME IInv, WInv, NEW t \in Trials, NEW c \in {"restart", "continue"}, At(t, c),
           ctl.pass \in {"restart", "continue"},
           UNCHANGED <<disk, mem>>, \A u \in Trials : StartsOnly({}, site[u], site'[u])
    PROVE  WInv'
<1>1. ctl'.call = c /\ ctl'.pass = ctl.pass
  BY Visiting DEF IInv, TypeOK, Calls
<1>2. CallTracks'
  BY <1>1 DEF CallTracks, HandleCalls, Passes
<1>3. ASSUME NEW u \in Trials
      PROVE  OneActive(site'[u]) /\ Tracks(site'[u], mem'[u]) /\ Tracks(site'[u], disk'[u])
  BY Quieter DEF WInv
<1>. QED
  BY <1>2, <1>3 DEF WInv

(* An infrastructure restart.                                               *)
LEMMA BeginRestartTracks ==
    ASSUME IInv, WInv, NEW t \in Trials, BeginRestart(t)
    PROVE  WInv'
<1>1. ctl.pass = "restart" /\ ctl.call = "none" /\ UNCHANGED site
  BY DEF BeginRestart, Visits
<1>2. CASE At(t, "restart") /\ UNCHANGED <<disk, mem, status>>
  BY <1>1, <1>2, QuietStill, RelaunchIssued
<1>3. CASE Save(Escalated(mem, t)) /\ ctl' = [ctl EXCEPT !.at = t + 1]
  BY <1>1, <1>3, MisconfiguredStep
<1>. QED
  BY <1>2, <1>3 DEF BeginRestart

(* A continuation.                                                          *)
LEMMA BeginContinueTracks ==
    ASSUME IInv, WInv, NEW t \in Trials, BeginContinue(t)
    PROVE  WInv'
<1>1. ctl.pass = "continue" /\ ctl.call = "none"
  BY DEF BeginContinue, Visits
<1>2. CASE /\ site' = [site EXCEPT ![t] = Discarded(@)]
           /\ At(t, "continue")
           /\ UNCHANGED <<disk, mem, status>>
  <2>1. StartsOnly({}, site[t], Discarded(site[t]))
    BY DEF StartsOnly, Discarded, IInv, TypeOK, Site
  <2>2. site' = [site EXCEPT ![t] = Discarded(site[t])]
    BY <1>2
  <2>3. \A u \in Trials : StartsOnly({}, site[u], site'[u])
    BY <2>1, <2>2, QuietAnswer
  <2>. QED
    BY <1>1, <1>2, <2>3, RelaunchIssued
<1>3. CASE Raised(mem) /\ UNCHANGED site
  BY <1>3, QuietStill, IdleStep, IdleTyped DEF Raised, Keep
<1>. QED
  BY <1>2, <1>3 DEF BeginContinue

(* The relaunched entry leads to its new Job.                               *)
LEMMA RelaunchedTracks ==
    ASSUME mem \in Table, NEW t \in Trials, NEW s, Tracks(s, mem[t]),
           NEW job \in Handles, LiveJobs(s) \subseteq {job}
    PROVE  /\ Tracks(s, Relaunched(mem, t, job)[t])
           /\ \A u \in Trials : u # t => Relaunched(mem, t, job)[u] = mem[u]
<1> DEFINE m == Relaunched(mem, t, job)
<1>1. /\ \A u \in Trials : u # t => m[u] = mem[u]
      /\ m[t].handle = job /\ m[t].phase = "submitted"
      /\ m[t].infra = mem[t].infra /\ m[t].cont = mem[t].cont
  BY DEF Relaunched, Table, Entry
<1> HIDE DEF m
<1>2. Tracks(s, m[t])
  BY <1>1 DEF Tracks, Leads
<1>. QED
  BY <1>1, <1>2 DEF m

(* The answer to a restart.  One that is refused while the trial is being
   reconciled leaves a trial without a workload.                            *)
LEMMA RestartReturnsTracks ==
    ASSUME IInv, WInv, NEW t \in Trials, RestartReturns(t)
    PROVE  WInv'
<1>1. ctl.call = "restart" /\ ctl.at = t /\ mem \in Table /\ ctl \in Control
  BY DEF RestartReturns, Calling, Table, IInv, TypeOK
<1>2. PICK r \in RestartReplies(site[t], mem[t].handle, "restart", mem[t].infra) :
        /\ Answered(t, r)
        /\ \/ r.res = "ok" /\ Save(Relaunched(mem, t, r.site.file)) /\ NextTrial
           \/ Paused(mem)
           \/ /\ r.res = "error"
              /\ Save(Escalated(mem, t))
              /\ IF ctl.pass = "reconcile" THEN Issue("logs") ELSE NextTrial
  BY DEF RestartReturns
<1>3. r \in Replies(t)
  BY <1>1, <1>2 DEF Replies
<1>4. /\ OneActive(r.site) /\ Tracks(r.site, mem[t]) /\ mem = disk
      /\ r.res = "ok" => /\ r.site.file = Restarted(mem[t].infra)
                         /\ LiveJobs(r.site) \subseteq {Restarted(mem[t].infra)}
      /\ r.res = "error" => StartsOnly({}, site[t], r.site)
  BY <1>1, <1>3, LaunchTracks DEF LaunchCalls
<1>5. site' = [site EXCEPT ![t] = r.site] /\ r.site \in Site
  <2>1. Faithful(Authorized(disk[t]), site[t], Replies(t))
    BY <1>1, RepliesFaithful DEF LaunchCalls
  <2>. QED
    BY <1>2, <1>3, <2>1 DEF Answered, Faithful
<1>6. CASE r.res = "ok" /\ Save(Relaunched(mem, t, r.site.file)) /\ NextTrial
  <2>1. r.site.file \in Handles /\ LiveJobs(r.site) \subseteq {r.site.file}
    BY <1>4, <1>5, <1>6 DEF Site
  <2>2. ctl'.call = "none"
    BY <1>1, <1>6, Moves
  <2> DEFINE m == Relaunched(mem, t, r.site.file)
  <2>3. /\ Tracks(r.site, m[t])
        /\ \A u \in Trials : u # t => m[u] = mem[u]
    BY <1>1, <1>4, <2>1, RelaunchedTracks
  <2>4. Save(m)
    BY <1>6
  <2> HIDE DEF m
  <2>. QED
    BY <1>4, <1>5, <2>2, <2>3, <2>4, LaunchedStep
<1>7. CASE Paused(mem)
  BY <1>4, <1>5, <1>7, PausedLaunch
<1>8. CASE r.res = "error" /\ Save(Escalated(mem, t)) /\ NextTrial
  <2>1. ctl'.call = "none"
    BY <1>1, <1>8, Moves
  <2>. QED
    BY <1>4, <1>5, <1>8, <2>1, RefusedStep
<1>9. CASE r.res = "error" /\ Save(Escalated(mem, t)) /\ ctl.pass = "reconcile" /\ Issue("logs")
  <2>1. LiveJobs(site[t]) = {}
    BY <1>1, <1>9 DEF WInv, CallTracks
  <2>2. ctl'.call = "logs" /\ ctl'.at = t /\ ctl'.pass \in Passes
    BY <1>1, <1>9, Moves DEF Calls, Passes
  <2>3. /\ \A u \in Trials : u # t => Escalated(mem, t)[u] = mem[u]
        /\ SameJobs(mem[t], Escalated(mem, t)[t])
        /\ Escalated(mem, t)[t].phase = "attention_required"
    BY <1>1, EscalatedEntry DEF SameJobs
  <2>4. Touches(t) /\ mem' = Escalated(mem, t)
    BY <1>9, <2>3, Touched
  <2>5. mem'[t].phase \notin LaunchPhases
    BY <2>3, <2>4 DEF LaunchPhases
  <2>. QED
    BY <1>4, <1>5, <1>9, <2>1, <2>2, <2>4, <2>5, HandledStep DEF LaunchCalls
<1>. QED
  BY <1>2, <1>6, <1>7, <1>8, <1>9

(* The answer to a continuation.                                            *)
LEMMA ContinueReturnsTracks ==
    ASSUME IInv, WInv, NEW t \in Trials, ContinueReturns(t)
    PROVE  WInv'
<1>1. ctl.call = "continue" /\ ctl.at = t /\ mem \in Table /\ ctl \in Control
  BY DEF ContinueReturns, Calling, Table, IInv, TypeOK
<1>2. PICK r \in RestartReplies(site[t], mem[t].handle, "continuation", mem[t].cont) :
        /\ Answered(t, r)
        /\ \/ r.res = "ok" /\ Save(Relaunched(mem, t, r.site.file)) /\ NextTrial
           \/ Paused(mem)
           \/ Save(Escalated(mem, t)) /\ NextTrial
  BY DEF ContinueReturns
<1>3. r \in Replies(t)
  BY <1>1, <1>2 DEF Replies
<1>4. /\ OneActive(r.site) /\ Tracks(r.site, mem[t]) /\ mem = disk
      /\ r.res = "ok" => /\ r.site.file = Continued(mem[t].cont)
                         /\ LiveJobs(r.site) \subseteq {Continued(mem[t].cont)}
  BY <1>1, <1>3, LaunchTracks DEF LaunchCalls
<1>5. site' = [site EXCEPT ![t] = r.site] /\ r.site \in Site
  <2>1. Faithful(Authorized(disk[t]), site[t], Replies(t))
    BY <1>1, RepliesFaithful DEF LaunchCalls
  <2>. QED
    BY <1>2, <1>3, <2>1 DEF Answered, Faithful
<1>6. CASE r.res = "ok" /\ Save(Relaunched(mem, t, r.site.file)) /\ NextTrial
  <2>1. r.site.file \in Handles /\ LiveJobs(r.site) \subseteq {r.site.file}
    BY <1>4, <1>5, <1>6 DEF Site
  <2>2. ctl'.call = "none"
    BY <1>1, <1>6, Moves
  <2> DEFINE m == Relaunched(mem, t, r.site.file)
  <2>3. /\ Tracks(r.site, m[t])
        /\ \A u \in Trials : u # t => m[u] = mem[u]
    BY <1>1, <1>4, <2>1, RelaunchedTracks
  <2>4. Save(m)
    BY <1>6
  <2> HIDE DEF m
  <2>. QED
    BY <1>4, <1>5, <2>2, <2>3, <2>4, LaunchedStep
<1>7. CASE Paused(mem)
  BY <1>4, <1>5, <1>7, PausedLaunch
<1>8. CASE Save(Escalated(mem, t)) /\ NextTrial
  <2>1. ctl'.call = "none"
    BY <1>1, <1>8, Moves
  <2>. QED
    BY <1>4, <1>5, <1>8, <2>1, RefusedStep
<1>. QED
  BY <1>2, <1>6, <1>7, <1>8
-----------------------------------------------------------------------------
(* The reconciliation of a trial with a handle.                             *)

(* Either no call is left in flight, or one about the handle of t.          *)
HandleNext(t) == \/ ctl'.call = "none"
                 \/ ctl'.call \in HandleCalls /\ ctl'.at = t /\ ctl'.pass \in Passes

(* The ways a step goes on.                                                 *)
LEMMA HandleMoves ==
    ASSUME ctl \in Control, NEW t \in Trials, ctl.at = t, ctl.pass \in Passes
    PROVE  /\ NextTrial => HandleNext(t)
           /\ \A c \in HandleCalls : Issue(c) => HandleNext(t)
           /\ \A m : Paused(m) \/ Raised(m) => HandleNext(t)
<1>1. HandleCalls \subseteq Calls
  BY DEF HandleCalls, Calls
<1>. QED
  BY <1>1, Moves, IdleTyped DEF HandleNext, Paused, Raised

(* A step that changes the entry of t in memory, and may save it.           *)
LEMMA HandledAnswer ==
    ASSUME IInv, WInv, NEW t \in Trials, LiveJobs(site[t]) \subseteq {mem[t].handle},
           NEW m, Save(m) \/ Keep(m) \/ Paused(m) \/ Raised(m),
           \A u \in Trials : u # t => m[u] = mem[u], SameJobs(mem[t], m[t]),
           NEW s, StartsOnly({}, site[t], s), site' = [site EXCEPT ![t] = s],
           m[t].phase \notin LaunchPhases \/ m[t].phase = mem[t].phase \/ LiveJobs(s) = {},
           HandleNext(t)
    PROVE  WInv'
<1>1. Touches(t) /\ mem' = m
  BY Touched
<1>2. /\ ctl'.call \notin LaunchCalls
      /\ ctl'.call = "none" \/ ctl'.pass \in Passes
      /\ ctl'.call \in HandleCalls => ctl'.at = t
  BY DEF HandleNext, HandleCalls, LaunchCalls
<1>3. mem'[t].phase \notin LaunchPhases \/ mem'[t].phase = mem[t].phase \/ LiveJobs(s) = {}
  BY <1>1
<1>. QED
  BY <1>1, <1>2, <1>3, HandledStep

(* The call in flight concerns the only workload of its trial.              *)
LEMMA InCall ==
    ASSUME IInv, WInv, NEW t \in Trials, ctl.at = t, ctl.call \in HandleCalls
    PROVE  /\ LiveJobs(site[t]) \subseteq {mem[t].handle} /\ ctl.pass \in Passes
           /\ mem \in Table /\ ctl \in Control /\ site[t] \in Site
           /\ site = [site EXCEPT ![t] = site[t]] /\ StartsOnly({}, site[t], site[t])
BY DEF WInv, CallTracks, HandleCalls, IInv, TypeOK, Table, StartsOnly

(* Its answer starts nothing.                                               *)
LEMMA InAnswer ==
    ASSUME IInv, NEW t \in Trials, ctl.at = t, ctl.call \in HandleCalls,
           NEW r \in Replies(t), Answered(t, r)
    PROVE  site' = [site EXCEPT ![t] = r.site] /\ StartsOnly({}, site[t], r.site)
<1>1. ctl.call \notin LaunchCalls
  BY DEF HandleCalls, LaunchCalls
<1>2. Faithful({}, site[t], Replies(t))
  BY <1>1, RepliesFaithful
<1>. QED
  BY <1>2 DEF Faithful, Answered

(* A visit of the reconcile pass finds at most the Job of the handle.       *)
LEMMA InVisit ==
    ASSUME IInv, WInv, NEW t \in Trials, Visits("reconcile", t)
    PROVE  /\ LiveJobs(site[t]) \subseteq {mem[t].handle} /\ ctl.pass \in Passes
           /\ mem[t].phase \notin LaunchPhases /\ mem \in Table /\ ctl \in Control
           /\ ctl.call = "none"
           /\ site = [site EXCEPT ![t] = site[t]] /\ StartsOnly({}, site[t], site[t])
<1>1. mem[t].phase \in Reconciled /\ ctl.pass = "reconcile" /\ ctl.call = "none"
  BY DEF Visits, Due, Wants
<1>2. mem[t].phase \notin LaunchPhases \cup {"attention_required"}
  BY <1>1 DEF Reconciled, LaunchPhases
<1>3. LiveJobs(site[t]) \subseteq {mem[t].handle}
  BY <1>2, OnlyHandle DEF WInv
<1>. QED
  BY <1>1, <1>2, <1>3 DEF Passes, IInv, TypeOK, Table, StartsOnly

(* One field of one entry is set.                                           *)
LEMMA PhaseSet ==
    ASSUME NEW m \in Table, NEW t \in Trials, NEW p
    PROVE  /\ \A u \in Trials : u # t => [m EXCEPT ![t].phase = p][u] = m[u]
           /\ SameJobs(m[t], [m EXCEPT ![t].phase = p][t])
           /\ [m EXCEPT ![t].phase = p][t].phase = p
BY DEF Table, Entry, SameJobs

(* An inspection.                                                           *)
LEMMA BeginInspectTracks ==
    ASSUME IInv, WInv, NEW t \in Trials, BeginInspect(t)
    PROVE  WInv'
<1>1. Visits("reconcile", t) /\ At(t, "inspect") /\ UNCHANGED <<disk, mem, site>>
  BY DEF BeginInspect
<1>2. /\ LiveJobs(site[t]) \subseteq {mem[t].handle} /\ mem[t].phase \notin LaunchPhases
      /\ ctl \in Control /\ ctl.pass \in Passes
  BY <1>1, InVisit
<1>3. ctl'.call = "inspect" /\ ctl'.at = t /\ ctl'.pass \in Passes
  BY <1>1, <1>2, Visiting DEF Calls
<1>4. Touches(t)
  BY <1>1 DEF Touches, SameJobs
<1>. QED
  BY <1>1, <1>2, <1>3, <1>4, HandledStill DEF LaunchCalls

(* A workload that may be restarted has stopped.                            *)
LEMMA RetryableStopped ==
    ASSUME NEW s, NEW h, LiveJobs(s) \subseteq {h},
           NEW r \in InspectReplies(s, h), r.res = "retryable"
    PROVE  LiveJobs(s) = {}
<1>1. "retryable" \in Observed(s, h)
  BY DEF InspectReplies, Broken, Unanswered, Refused, Reply
<1>2. h \notin JobNames \/ s.jobs[h] # "active"
  BY <1>1 DEF Observed
<1>. QED
  BY <1>2 DEF LiveJobs

(* A restart that is charged takes a generation that does not exist yet.    *)
LEMMA ChargedRestart ==
    ASSUME IInv, WInv, NEW t \in Trials, LiveJobs(site[t]) = {}, Budget(mem[t]),
           NEW m, Save(m), \A u \in Trials : u # t => m[u] = mem[u],
           m[t].infra = mem[t].infra + 1, m[t].cont = mem[t].cont,
           m[t].phase = "infrastructure_retrying", UNCHANGED site,
           ctl'.call = "restart", ctl'.at = t, ctl'.pass = "reconcile"
    PROVE  WInv'
<1>1. mem' = m /\ disk' = m
  BY DEF Save, Saved
<1>2. mem[t].infra \in Nat /\ MaxRestarts \in Nat /\ mem[t].infra < MaxRestarts
  BY MaxRestartsAssumption DEF Budget, IInv, TypeOK, Entry
<1>3. \A n \in 1 .. MaxRestarts : n > m[t].infra => site[t].jobs[Restarted(n)] = "absent"
  BY <1>2 DEF WInv, Tracks
<1>4. \A n \in 1 .. MaxContinuations : n > m[t].cont => site[t].jobs[Continued(n)] = "absent"
  BY DEF WInv, Tracks
<1>5. Tracks(site[t], m[t])
  BY <1>3, <1>4 DEF Tracks, Replaces
<1>6. CallTracks'
  BY DEF CallTracks, HandleCalls, Passes
<1>7. OthersKept(t)
  BY <1>1 DEF OthersKept
<1>. QED
  BY <1>1, <1>5, <1>6, <1>7, Assemble DEF WInv

(* What an inspection finds.                                                *)
LEMMA InspectReturnsTracks ==
    ASSUME IInv, WInv, NEW t \in Trials, InspectReturns(t)
    PROVE  WInv'
<1> DEFINE Seen(r) == [mem EXCEPT ![t].live = r \in {"pending", "running"}]
           Ended(c) == \E e \in Endings : ctl' = [ctl EXCEPT !.call = c, !.seen = e]
           Generation(m) == [m EXCEPT ![t].infra = @ + 1, ![t].phase = "infrastructure_retrying"]
<1>1. ctl.call = "inspect" /\ ctl.pass = "reconcile" /\ ctl.at = t /\ UNCHANGED site
  BY DEF InspectReturns, Calling, IInv, WalkSaved
<1>2. /\ LiveJobs(site[t]) \subseteq {mem[t].handle} /\ mem \in Table /\ ctl \in Control
      /\ site' = [site EXCEPT ![t] = site[t]] /\ StartsOnly({}, site[t], site[t])
  BY <1>1, InCall DEF HandleCalls
<1>3. PICK q \in InspectReplies(site[t], mem[t].handle) :
        \/ Paused(mem)
        \/ Keep(Escalated(mem, t)) /\ NextTrial
        \/ /\ q.res \in {"pending", "running"}
           /\ Keep([Seen(q.res) EXCEPT ![t].phase = q.res])
           /\ NextTrial \/ Issue("terminate")
        \/ /\ q.res = "retryable" /\ Budget(mem[t])
           /\ Save(Generation(Seen(q.res))) /\ Ended("restart")
        \/ Save(Escalated(Seen(q.res), t)) /\ Ended("logs")
        \/ Keep(Seen(q.res)) /\ Ended("logs")
  BY DEF InspectReturns, Endings
<1> DEFINE r == q.res
<1>30. r = "retryable" => LiveJobs(site[t]) = {}
  BY <1>2, RetryableStopped
<1>4. /\ \A u \in Trials : u # t => Seen(r)[u] = mem[u]
      /\ SameJobs(mem[t], Seen(r)[t]) /\ Seen(r)[t].phase = mem[t].phase
  BY <1>2 DEF Table, Entry, SameJobs
<1>5. Seen(r) \in Table
  <2>1. \A l \in BOOLEAN : [mem EXCEPT ![t].live = l] \in Table
    BY <1>2, OneField DEF Table
  <2>2. CASE r \in {"pending", "running"}
    <3>1. Seen(r) = [mem EXCEPT ![t].live = TRUE]
      BY <2>2
    <3>. QED
      BY <2>1, <3>1
  <2>3. CASE r \notin {"pending", "running"}
    <3>1. (r \in {"pending", "running"}) = FALSE
      BY <2>3
    <3>2. Seen(r) = [mem EXCEPT ![t].live = FALSE]
      BY <3>1, Zenon
    <3>. QED
      BY <2>1, <3>2
  <2>. QED
    BY <2>2, <2>3
<1>6. ASSUME Ended("logs")
      PROVE  HandleNext(t)
  BY <1>1, <1>2, <1>6 DEF HandleNext, HandleCalls, Passes, Control
<1>7. CASE Paused(mem)
  BY <1>1, <1>7, QuietStill, IdleStep, IdleTyped DEF Paused, Saved
<1>8. CASE Keep(Escalated(mem, t)) /\ NextTrial
  <2>1. HandleNext(t)
    BY <1>1, <1>2, <1>8, HandleMoves DEF Passes
  <2> DEFINE m == Escalated(mem, t)
  <2>2. /\ \A u \in Trials : u # t => m[u] = mem[u]
        /\ SameJobs(mem[t], m[t]) /\ m[t].phase = "attention_required"
    BY <1>2, PhaseSet DEF Escalated
  <2>3. Keep(m)
    BY <1>8
  <2> HIDE DEF m
  <2>. QED
    BY <1>2, <2>1, <2>2, <2>3, HandledAnswer DEF LaunchPhases
<1>9. CASE /\ r \in {"pending", "running"}
           /\ Keep([Seen(r) EXCEPT ![t].phase = r])
           /\ NextTrial \/ Issue("terminate")
  <2>1. HandleNext(t)
    BY <1>1, <1>2, <1>9, HandleMoves DEF Passes, HandleCalls
  <2> DEFINE n == Seen(r)
             m == [n EXCEPT ![t].phase = r]
  <2>2. /\ \A u \in Trials : u # t => m[u] = mem[u]
        /\ SameJobs(mem[t], m[t]) /\ m[t].phase = r
    <3>1. m[t].phase = r /\ SameJobs(n[t], m[t]) /\ \A u \in Trials : u # t => m[u] = n[u]
      <4>1. n \in Table
        BY <1>5
      <4> HIDE DEF n
      <4>. QED
        BY <4>1, PhaseSet
    <3>. QED
      BY <1>4, <3>1 DEF SameJobs
  <2>3. Keep(m)
    BY <1>9
  <2>4. r \notin LaunchPhases
    BY <1>9 DEF LaunchPhases
  <2> HIDE DEF m
  <2>. QED
    BY <1>2, <2>1, <2>2, <2>3, <2>4, HandledAnswer
<1>10. CASE r = "retryable" /\ Budget(mem[t]) /\ Save(Generation(Seen(r))) /\ Ended("restart")
  <2> DEFINE n == Seen(r)
             m == Generation(n)
  <2>1. n \in Table
    BY <1>5
  <2>2. Save(m)
    BY <1>10
  <2>3. /\ \A u \in Trials : u # t => n[u] = mem[u]
        /\ SameJobs(mem[t], n[t])
    BY <1>4
  <2> HIDE DEF n
  <2>4. /\ \A u \in Trials : u # t => m[u] = mem[u]
        /\ m[t].infra = mem[t].infra + 1 /\ m[t].cont = mem[t].cont
        /\ m[t].phase = "infrastructure_retrying"
    BY <2>1, <2>3 DEF Table, Entry, SameJobs
  <2>5. ctl'.call = "restart" /\ ctl'.at = t /\ ctl'.pass = "reconcile"
    BY <1>1, <1>2, <1>10 DEF Control
  <2> HIDE DEF m
  <2>. QED
    BY <1>1, <1>10, <1>30, <2>2, <2>4, <2>5, ChargedRestart
<1>11. CASE Save(Escalated(Seen(r), t)) /\ Ended("logs")
  <2> DEFINE n == Seen(r)
             m == Escalated(n, t)
  <2>1. /\ n \in Table /\ Save(m) /\ SameJobs(mem[t], n[t])
        /\ \A u \in Trials : u # t => n[u] = mem[u]
    BY <1>4, <1>5, <1>11
  <2> HIDE DEF n
  <2>2. /\ \A u \in Trials : u # t => m[u] = mem[u]
        /\ SameJobs(mem[t], m[t]) /\ m[t].phase = "attention_required"
    BY <2>1, PhaseSet DEF Escalated, SameJobs
  <2>3. m[t].phase \notin LaunchPhases
    BY <2>2 DEF LaunchPhases
  <2> HIDE DEF m
  <2>. QED
    BY <1>2, <1>6, <1>11, <2>1, <2>2, <2>3, HandledAnswer
<1>12. CASE Keep(Seen(r)) /\ Ended("logs")
  <2> DEFINE m == Seen(r)
  <2>1. /\ Keep(m) /\ \A u \in Trials : u # t => m[u] = mem[u]
        /\ SameJobs(mem[t], m[t]) /\ m[t].phase = mem[t].phase
    BY <1>4, <1>12
  <2> HIDE DEF m
  <2>. QED
    BY <1>2, <1>6, <1>12, <2>1, HandledAnswer
<1>. QED
  BY <1>3, <1>7, <1>8, <1>9, <1>10, <1>11, <1>12

(* The answer to a call about a handle, and what is done with it.           *)
LEMMA ReturnedStep ==
    ASSUME IInv, WInv, NEW t \in Trials, ctl.at = t, ctl.call \in HandleCalls,
           NEW r \in Replies(t), Answered(t, r),
           NEW m, Save(m) \/ Keep(m) \/ Paused(m) \/ Raised(m),
           \A u \in Trials : u # t => m[u] = mem[u], SameJobs(mem[t], m[t]),
           m[t].phase \notin LaunchPhases \/ m[t].phase = mem[t].phase \/ LiveJobs(r.site) = {},
           HandleNext(t)
    PROVE  WInv'
<1>1. LiveJobs(site[t]) \subseteq {mem[t].handle}
  BY InCall
<1>2. site' = [site EXCEPT ![t] = r.site] /\ StartsOnly({}, site[t], r.site)
  BY InAnswer
<1>. QED
  BY <1>1, <1>2, HandledAnswer

(* The same of a call that leaves the site alone, and of a visit.           *)
LEMMA QuietReturn ==
    ASSUME IInv, WInv, NEW t \in Trials, UNCHANGED site,
           Visits("reconcile", t) \/ (ctl.at = t /\ ctl.call \in HandleCalls),
           NEW m, Save(m) \/ Keep(m) \/ Paused(m) \/ Raised(m),
           \A u \in Trials : u # t => m[u] = mem[u], SameJobs(mem[t], m[t]),
           m[t].phase \notin LaunchPhases \/ m[t].phase = mem[t].phase,
           HandleNext(t)
    PROVE  WInv'
<1>1. /\ LiveJobs(site[t]) \subseteq {mem[t].handle} /\ StartsOnly({}, site[t], site[t])
      /\ site' = [site EXCEPT ![t] = site[t]]
  BY InCall, InVisit
<1>. QED
  BY <1>1, HandledAnswer

(* A step that sets the control.                                            *)
LEMMA HandleSetNext ==
    ASSUME ctl \in Control, NEW t \in Trials, ctl.pass \in Passes
    PROVE  /\ \A c \in HandleCalls : ctl' = [ctl EXCEPT !.at = t, !.call = c] => HandleNext(t)
           /\ \A c \in HandleCalls : \A b : ctl' = [ctl EXCEPT !.at = t, !.call = c, !.bare = b]
                                            => HandleNext(t)
           /\ \A c \in HandleCalls : \A b : ctl' = [ctl EXCEPT !.at = t, !.call = c, !.seen = b]
                                            => HandleNext(t)
           /\ ctl.call = "none" /\ ctl' = [ctl EXCEPT !.at = t + 1] => HandleNext(t)
BY DEF HandleNext, Control

(* The deadline.                                                            *)
LEMMA TerminateReturnsTracks ==
    ASSUME IInv, WInv, NEW t \in Trials, TerminateReturns(t)
    PROVE  WInv'
<1> DEFINE Overdue(p) == [mem EXCEPT ![t].live = FALSE, ![t].backend = "failed",
                                     ![t].phase = p]
<1>1. ctl.at = t /\ ctl.call = "terminate" /\ ctl.call \in HandleCalls
  BY DEF TerminateReturns, Calling, HandleCalls
<1>2. /\ LiveJobs(site[t]) \subseteq {mem[t].handle} /\ ctl.pass \in Passes
      /\ mem \in Table /\ ctl \in Control /\ site[t] \in Site
  BY <1>1, InCall
<1>3. PICK r \in TerminateReplies(site[t], mem[t].handle) :
        /\ Answered(t, r)
        /\ \/ /\ r.res = "ok"
              /\ \E p \in {"infrastructure_retrying", "collection_pending"} : Save(Overdue(p))
              /\ NextTrial
           \/ Paused(mem)
           \/ Save(Escalated(mem, t)) /\ NextTrial
  BY DEF TerminateReturns
<1>4. r \in Replies(t)
  BY <1>1, <1>3 DEF Replies
<1>5. ASSUME r.res = "ok"
      PROVE  LiveJobs(r.site) = {}
  <2>1. r.site \in Deleted(site[t], mem[t].handle)
    BY <1>3, <1>5 DEF TerminateReplies, Broken, Unanswered, Refused, Reply
  <2>. QED
    BY <1>2, <2>1, DeletedEmpty
<1>6. ASSUME r.res = "ok", NEW p, Save(Overdue(p)), NextTrial
      PROVE  WInv'
  <2> DEFINE m == Overdue(p)
  <2>1. /\ \A u \in Trials : u # t => m[u] = mem[u]
        /\ SameJobs(mem[t], m[t])
    BY <1>2 DEF Table, Entry, SameJobs
  <2>2. Save(m) /\ HandleNext(t)
    BY <1>1, <1>2, <1>6, HandleMoves
  <2> HIDE DEF m
  <2>. QED
    BY <1>1, <1>3, <1>4, <1>5, <1>6, <2>1, <2>2, ReturnedStep
<1>7. CASE Paused(mem)
  BY <1>1, <1>2, <1>3, <1>4, <1>7, HandleMoves, ReturnedStep DEF SameJobs
<1>8. CASE Save(Escalated(mem, t)) /\ NextTrial
  <2>1. /\ \A u \in Trials : u # t => Escalated(mem, t)[u] = mem[u]
        /\ SameJobs(mem[t], Escalated(mem, t)[t])
        /\ Escalated(mem, t)[t].phase \notin LaunchPhases
    BY <1>2, PhaseSet DEF Escalated, LaunchPhases
  <2>2. HandleNext(t)
    BY <1>1, <1>2, <1>8, HandleMoves
  <2>. QED
    BY <1>1, <1>3, <1>4, <1>8, <2>1, <2>2, ReturnedStep
<1> HIDE DEF Overdue
<1>. QED
  BY <1>3, <1>6, <1>7, <1>8

(* A collection is asked for.                                               *)
LEMMA CollectingTracks ==
    ASSUME IInv, WInv, NEW t \in Trials, NEW b, Collecting(t, b), UNCHANGED site,
           Visits("reconcile", t) \/ (ctl.at = t /\ ctl.call \in HandleCalls)
    PROVE  WInv'
<1> DEFINE m == [mem EXCEPT ![t].phase = "collecting", ![t].backend = b]
<1>1. mem \in Table /\ ctl \in Control /\ ctl.pass \in Passes
  BY InCall, InVisit
<1>2. /\ \A u \in Trials : u # t => m[u] = mem[u]
      /\ SameJobs(mem[t], m[t]) /\ m[t].phase = "collecting"
  BY <1>1 DEF Table, Entry, SameJobs
<1>3. Save(m) /\ HandleNext(t)
  BY <1>1 DEF Collecting, HandleNext, HandleCalls, Control
<1>4. m[t].phase \notin LaunchPhases
  BY <1>2 DEF LaunchPhases
<1> HIDE DEF m
<1>. QED
  BY <1>2, <1>3, <1>4, QuietReturn

(* The logs.                                                                *)
LEMMA LogsReturnTracks ==
    ASSUME IInv, WInv, NEW t \in Trials, LogsReturn(t)
    PROVE  WInv'
<1>1. ctl.at = t /\ ctl.call \in HandleCalls /\ UNCHANGED site
  BY DEF LogsReturn, Calling, HandleCalls
<1>2. CASE Collecting(t, ctl.seen)
  BY <1>1, <1>2, CollectingTracks
<1>3. CASE Paused(mem)
  <2>1. HandleNext(t)
    BY <1>1, <1>3, InCall, HandleMoves
  <2>. QED
    BY <1>1, <1>3, <2>1, QuietReturn DEF SameJobs
<1>. QED
  BY <1>2, <1>3 DEF LogsReturn

(* A collection taken up again.                                             *)
LEMMA BeginCollectTracks ==
    ASSUME IInv, WInv, NEW t \in Trials, BeginCollect(t)
    PROVE  WInv'
<1>1. Visits("reconcile", t) /\ Collecting(t, mem[t].backend) /\ UNCHANGED site
  BY DEF BeginCollect
<1>. QED
  BY <1>1, CollectingTracks

(* The entry a collected copy decides on.                                   *)
LEMMA AssessedEntry ==
    ASSUME NEW t \in Trials, NEW m \in Table, Assessed(m, t),
           ctl \in Control, ctl.pass \in Passes
    PROVE  /\ HandleNext(t)
           /\ \E n : /\ Save(n) /\ SameJobs(m[t], n[t]) /\ n[t].phase \notin LaunchPhases
                     /\ \A u \in Trials : u # t => n[u] = m[u]
<1> DEFINE e == [m[t] EXCEPT !.pipe = site[t].copy,
                             !.outcome = IF site[t].copy = "result" THEN @ ELSE "infrastructure"]
           put(p) == [m EXCEPT ![t] = [e EXCEPT !.phase = p]]
<1>1. PICK p \in {"evaluating", "publishing"}, c \in {"evaluate", "publish"} :
        Save(put(p)) /\ ctl' = [ctl EXCEPT !.at = t, !.call = c]
  BY DEF Assessed
<1>2. HandleNext(t)
  BY <1>1, HandleSetNext DEF HandleCalls
<1>3. /\ \A u \in Trials : u # t => put(p)[u] = m[u]
      /\ put(p)[t].phase = p /\ SameJobs(m[t], put(p)[t])
  BY DEF Table, Entry, SameJobs
<1>4. p \notin LaunchPhases
  BY DEF LaunchPhases
<1> HIDE DEF put
<1>. QED
  BY <1>1, <1>2, <1>3, <1>4

(* The answer to a collection.                                              *)
LEMMA CollectReturnsTracks ==
    ASSUME IInv, WInv, NEW t \in Trials, CollectReturns(t)
    PROVE  WInv'
<1> DEFINE charged == [mem EXCEPT ![t].coll = Charge(@, CollectionMax)]
           Set(m, p) == [m EXCEPT ![t].phase = p]
<1>1. ctl.at = t /\ ctl.call = "collect" /\ ctl.call \in HandleCalls
  BY DEF CollectReturns, Calling, HandleCalls
<1>2. ctl.pass \in Passes /\ mem \in Table /\ ctl \in Control
  BY <1>1, InCall
<1>3. PICK r \in CollectReplies(site[t]) :
        /\ Answered(t, r)
        /\ \/ Assessed(charged, t)
           \/ Paused(mem)
           \/ /\ \E p \in {"collection_pending", "collection_retry_wait", "collection_failed"} :
                    Save(Set(mem, p)) \/ Save(Set(charged, p))
              /\ NextTrial
  BY DEF CollectReturns
<1>4. r \in Replies(t)
  BY <1>1, <1>3 DEF Replies
<1>5. /\ \A u \in Trials : u # t => charged[u] = mem[u]
      /\ SameJobs(mem[t], charged[t])
  BY <1>2 DEF Table, Entry, SameJobs
<1>6. charged \in Table
  <2>1. Charge(mem[t].coll, CollectionMax) \in 0 .. CollectionMax
    BY <1>2, ChargeBounded, PlanAssumption DEF Table, Entry
  <2>. QED
    BY <1>2, <2>1, OneField DEF Table
<1> HIDE DEF charged
<1>7. CASE Assessed(charged, t)
  <2>1. HandleNext(t)
    BY <1>2, <1>6, <1>7, AssessedEntry
  <2>2. PICK n : /\ Save(n) /\ SameJobs(charged[t], n[t]) /\ n[t].phase \notin LaunchPhases
                 /\ \A u \in Trials : u # t => n[u] = charged[u]
    BY <1>2, <1>6, <1>7, AssessedEntry
  <2>3. SameJobs(mem[t], n[t]) /\ \A u \in Trials : u # t => n[u] = mem[u]
    BY <1>5, <2>2 DEF SameJobs
  <2>. QED
    BY <1>1, <1>3, <1>4, <2>1, <2>2, <2>3, ReturnedStep
<1>8. CASE Paused(mem)
  BY <1>1, <1>2, <1>3, <1>4, <1>8, HandleMoves, ReturnedStep DEF SameJobs
<1>9. ASSUME NEW p \in {"collection_pending", "collection_retry_wait", "collection_failed"},
             NEW m \in {mem, charged}, Save(Set(m, p)), NextTrial
      PROVE  WInv'
  <2>1. m \in Table /\ SameJobs(mem[t], m[t]) /\ \A u \in Trials : u # t => m[u] = mem[u]
    BY <1>2, <1>5, <1>6 DEF SameJobs
  <2> DEFINE n == Set(m, p)
  <2>2. /\ \A u \in Trials : u # t => n[u] = mem[u]
        /\ SameJobs(mem[t], n[t]) /\ n[t].phase = p
    BY <2>1, PhaseSet DEF SameJobs
  <2>3. Save(n) /\ HandleNext(t) /\ p \notin LaunchPhases
    BY <1>1, <1>2, <1>9, HandleMoves DEF LaunchPhases
  <2> HIDE DEF n
  <2>. QED
    BY <1>1, <1>3, <1>4, <2>2, <2>3, ReturnedStep
<1> HIDE DEF Set
<1>. QED
  BY <1>3, <1>7, <1>8, <1>9

(* A phase that starts nothing is saved, at a visit or at an answer.        *)
LEMMA PhaseStep ==
    ASSUME IInv, WInv, NEW t \in Trials, UNCHANGED site,
           Visits("reconcile", t) \/ (ctl.at = t /\ ctl.call \in HandleCalls),
           NEW p, p \notin LaunchPhases,
           Save([mem EXCEPT ![t].phase = p]) \/ Paused([mem EXCEPT ![t].phase = p]),
           HandleNext(t)
    PROVE  WInv'
<1> DEFINE m == [mem EXCEPT ![t].phase = p]
<1>1. mem \in Table
  BY DEF IInv, TypeOK, Table
<1>2. /\ \A u \in Trials : u # t => m[u] = mem[u]
      /\ SameJobs(mem[t], m[t]) /\ m[t].phase = p
  BY <1>1, PhaseSet
<1>3. Save(m) \/ Paused(m)
  OBVIOUS
<1> HIDE DEF m
<1>. QED
  BY <1>2, <1>3, QuietReturn

(* An evaluation taken up again.                                            *)
LEMMA BeginEvaluateTracks ==
    ASSUME IInv, WInv, NEW t \in Trials, BeginEvaluate(t)
    PROVE  WInv'
<1>1. Visits("reconcile", t) /\ UNCHANGED site
  BY DEF BeginEvaluate
<1>2. ctl.pass \in Passes /\ mem \in Table /\ ctl \in Control /\ ctl.call = "none"
  BY <1>1, InVisit
<1>3. CASE Assessed(mem, t)
  <2>1. HandleNext(t)
    BY <1>2, <1>3, AssessedEntry
  <2>2. PICK n : /\ Save(n) /\ SameJobs(mem[t], n[t]) /\ n[t].phase \notin LaunchPhases
                 /\ \A u \in Trials : u # t => n[u] = mem[u]
    BY <1>2, <1>3, AssessedEntry
  <2>. QED
    BY <1>1, <2>1, <2>2, QuietReturn
<1>4. CASE /\ Save([mem EXCEPT ![t].phase = "collection_failed"])
           /\ ctl' = [ctl EXCEPT !.at = t + 1]
  <2>1. HandleNext(t) /\ "collection_failed" \notin LaunchPhases
    BY <1>2, <1>4, HandleSetNext DEF LaunchPhases
  <2>. QED
    BY <1>1, <1>4, <2>1, PhaseStep
<1>. QED
  BY <1>3, <1>4 DEF BeginEvaluate

(* The end of an evaluation.                                                *)
LEMMA EvaluateReturnsTracks ==
    ASSUME IInv, WInv, NEW t \in Trials, EvaluateReturns(t)
    PROVE  WInv'
<1> DEFINE Decides(o) == [mem EXCEPT ![t].phase = "publishing", ![t].outcome = o]
           waits == [mem EXCEPT ![t].phase = "evaluation_pending"]
<1>1. ctl.at = t /\ ctl.call \in HandleCalls /\ UNCHANGED site
  BY DEF EvaluateReturns, Calling, HandleCalls
<1>2. ctl.pass \in Passes /\ mem \in Table /\ ctl \in Control
  BY <1>1, InCall
<1>3. \/ Save(waits) /\ NextTrial
      \/ Paused(waits)
      \/ Save(Escalated(mem, t)) /\ NextTrial
      \/ \E o : Save(Decides(o)) /\ Issue("publish")
  BY DEF EvaluateReturns
<1>4. HandleNext(t)
  BY <1>1, <1>2, <1>3, HandleMoves DEF HandleCalls
<1>5. CASE Save(waits) \/ Paused(waits)
  <2>1. "evaluation_pending" \notin LaunchPhases
    BY DEF LaunchPhases
  <2>. QED
    BY <1>1, <1>4, <1>5, <2>1, PhaseStep
<1>6. CASE Save(Escalated(mem, t))
  <2>1. "attention_required" \notin LaunchPhases
    BY DEF LaunchPhases
  <2>2. Escalated(mem, t) = [mem EXCEPT ![t].phase = "attention_required"]
    BY DEF Escalated
  <2>. QED
    BY <1>1, <1>4, <1>6, <2>1, <2>2, PhaseStep
<1>7. ASSUME NEW o, Save(Decides(o))
      PROVE  WInv'
  <2> DEFINE m == Decides(o)
  <2>1. /\ \A u \in Trials : u # t => m[u] = mem[u]
        /\ SameJobs(mem[t], m[t]) /\ m[t].phase = "publishing"
    BY <1>2 DEF Table, Entry, SameJobs
  <2>2. Save(m)
    BY <1>7
  <2>3. m[t].phase \notin LaunchPhases
    BY <2>1 DEF LaunchPhases
  <2> HIDE DEF m
  <2>. QED
    BY <1>1, <1>4, <2>1, <2>2, <2>3, QuietReturn
<1> HIDE DEF Decides, waits
<1>. QED
  BY <1>3, <1>5, <1>6, <1>7

(* A publication taken up again.                                            *)
LEMMA BeginPublishTracks ==
    ASSUME IInv, WInv, NEW t \in Trials, BeginPublish(t)
    PROVE  WInv'
<1>1. Visits("reconcile", t) /\ UNCHANGED site
  BY DEF BeginPublish
<1>2. HandleNext(t)
  BY <1>1, InVisit, HandleSetNext DEF BeginPublish, HandleCalls
<1>3. "publishing" \notin LaunchPhases
  BY DEF LaunchPhases
<1>4. Save([mem EXCEPT ![t].phase = "publishing"])
  BY DEF BeginPublish
<1>. QED
  BY <1>1, <1>2, <1>3, <1>4, PhaseStep

(* The end of a publication.                                                *)
LEMMA PublishReturnsTracks ==
    ASSUME IInv, WInv, NEW t \in Trials, PublishReturns(t)
    PROVE  WInv'
<1> DEFINE charged == [mem EXCEPT ![t].pub = Charge(@, PublicationMax)]
           Set(m, p) == [m EXCEPT ![t].phase = p]
<1>1. ctl.at = t /\ ctl.call = "publish" /\ ctl.call \in HandleCalls
  BY DEF PublishReturns, Calling, HandleCalls
<1>2. ctl.pass \in Passes /\ mem \in Table /\ ctl \in Control
  BY <1>1, InCall
<1>3. PICK r \in PublishReplies(site[t]) :
        /\ Answered(t, r)
        /\ \E p \in {"cleanup_pending", "publication_pending", "attention_required"} :
                Save(Set(mem, p)) \/ Save(Set(charged, p))
        /\ NextTrial \/ Issue("cleanup")
  BY DEF PublishReturns, Cleaning
<1>4. r \in Replies(t)
  BY <1>1, <1>3 DEF Replies
<1>5. /\ \A u \in Trials : u # t => charged[u] = mem[u]
      /\ SameJobs(mem[t], charged[t])
  BY <1>2 DEF Table, Entry, SameJobs
<1>6. charged \in Table
  <2>1. Charge(mem[t].pub, PublicationMax) \in 0 .. PublicationMax
    BY <1>2, ChargeBounded, PlanAssumption DEF Table, Entry
  <2>. QED
    BY <1>2, <2>1, OneField DEF Table
<1> HIDE DEF charged
<1>7. HandleNext(t)
  BY <1>1, <1>2, <1>3, HandleMoves DEF HandleCalls
<1>8. ASSUME NEW p \in {"cleanup_pending", "publication_pending", "attention_required"},
             NEW m \in {mem, charged}, Save(Set(m, p))
      PROVE  WInv'
  <2>1. m \in Table /\ SameJobs(mem[t], m[t]) /\ \A u \in Trials : u # t => m[u] = mem[u]
    BY <1>2, <1>5, <1>6 DEF SameJobs
  <2> DEFINE n == Set(m, p)
  <2>2. /\ \A u \in Trials : u # t => n[u] = mem[u]
        /\ SameJobs(mem[t], n[t]) /\ n[t].phase = p
    BY <2>1, PhaseSet DEF SameJobs
  <2>3. Save(n) /\ p \notin LaunchPhases
    BY <1>8 DEF LaunchPhases
  <2> HIDE DEF n
  <2>. QED
    BY <1>1, <1>3, <1>4, <1>7, <2>2, <2>3, ReturnedStep
<1> HIDE DEF Set
<1>. QED
  BY <1>3, <1>8

(* A cleanup taken up again.                                                *)
LEMMA BeginCleanupTracks ==
    ASSUME IInv, WInv, NEW t \in Trials, BeginCleanup(t)
    PROVE  WInv'
<1>1. Visits("reconcile", t) /\ UNCHANGED site /\ At(t, "cleanup")
  BY DEF BeginCleanup
<1>2. HandleNext(t)
  BY <1>1, InVisit, HandleSetNext DEF At, HandleCalls
<1>3. "cleanup_pending" \notin LaunchPhases
  BY DEF LaunchPhases
<1>4. Save([mem EXCEPT ![t].phase = "cleanup_pending"])
  BY DEF BeginCleanup, Cleaning
<1>. QED
  BY <1>1, <1>2, <1>3, <1>4, PhaseStep

(* The end of a cleanup.                                                    *)
LEMMA CleanupReturnsTracks ==
    ASSUME IInv, WInv, NEW t \in Trials, CleanupReturns(t)
    PROVE  WInv'
<1> DEFINE marked == [mem EXCEPT ![t].kept = Retained(mem[t])]
           closed == [marked EXCEPT ![t].phase = "complete", ![t].live = FALSE]
<1>1. ctl.at = t /\ ctl.call = "cleanup" /\ ctl.call \in HandleCalls
  BY DEF CleanupReturns, Calling, HandleCalls
<1>2. ctl.pass \in Passes /\ mem \in Table /\ ctl \in Control
  BY <1>1, InCall
<1>3. PICK r \in CleanupReplies(site[t], mem[t].handle, Retained(mem[t])) :
        /\ Answered(t, r)
        /\ \/ Save(closed) /\ NextTrial
           \/ Raised(marked) \/ Paused(marked)
           \/ Save(marked) /\ NextTrial
  BY DEF CleanupReturns
<1>4. r \in Replies(t)
  BY <1>1, <1>3 DEF Replies
<1>5. /\ \A u \in Trials : u # t => marked[u] = mem[u]
      /\ SameJobs(mem[t], marked[t]) /\ marked[t].phase = mem[t].phase
  BY <1>2 DEF Table, Entry, SameJobs
<1>6. marked \in Table
  <2>1. Retained(mem[t]) \in BOOLEAN
    BY RetainAssumption DEF Retained
  <2>2. \A k \in BOOLEAN : [mem EXCEPT ![t].kept = k] \in Table
    BY <1>2, OneField DEF Table
  <2>. QED
    BY <2>1, <2>2, Zenon
<1> HIDE DEF marked
<1>7. /\ \A u \in Trials : u # t => closed[u] = mem[u]
      /\ SameJobs(mem[t], closed[t]) /\ closed[t].phase = "complete"
  BY <1>5, <1>6 DEF Table, Entry, SameJobs
<1> HIDE DEF closed
<1>8. HandleNext(t)
  BY <1>1, <1>2, <1>3, HandleMoves
<1>9. CASE Save(closed)
  <2>1. closed[t].phase \notin LaunchPhases
    BY <1>7 DEF LaunchPhases
  <2>. QED
    BY <1>1, <1>3, <1>4, <1>7, <1>8, <1>9, <2>1, ReturnedStep
<1>10. CASE Save(marked) \/ Raised(marked) \/ Paused(marked)
  BY <1>1, <1>3, <1>4, <1>5, <1>8, <1>10, ReturnedStep
<1>. QED
  BY <1>3, <1>9, <1>10

-----------------------------------------------------------------------------
(* Crashes and the world.                                                   *)

(* A new controller starts from campaign.json, whatever the call in flight
   did.                                                                     *)
LEMMA CrashTracks ==
    ASSUME IInv, WInv, Crash \/ ControllerRestarts
    PROVE  WInv'
<1>1. mem' = disk /\ disk' = disk /\ ctl'.call = "none"
  BY IdleTyped DEF Crash, ControllerRestarts
<1>2. CASE UNCHANGED site
  BY <1>1, <1>2, QuietStill, IdleStep
<1>3. ASSUME ctl.at \in Trials, NEW r \in Replies(ctl.at), Answered(ctl.at, r)
      PROVE  WInv'
  <2> DEFINE t == ctl.at
  <2>1. site' = [site EXCEPT ![t] = r.site]
    BY <1>3 DEF Answered
  <2>2. CASE ctl.call \in LaunchCalls
    <3>1. OneActive(r.site) /\ Tracks(r.site, mem[t]) /\ mem = disk
      BY <1>3, <2>2, LaunchTracks
    <3>2. Touches(t) /\ mem'[t].phase = mem[t].phase
      BY <1>1, <3>1 DEF Touches, SameJobs
    <3>. QED
      BY <1>1, <1>3, <2>1, <3>1, <3>2, EscalatedStep
  <2>3. CASE ctl.call \notin LaunchCalls
    <3>1. Faithful({}, site[t], Replies(t))
      BY <1>3, <2>3, RepliesFaithful
    <3>2. StartsOnly({}, site[t], r.site)
      BY <1>3, <3>1 DEF Faithful
    <3>3. \A u \in Trials : StartsOnly({}, site[u], site'[u])
      BY <1>3, <2>1, <3>2, QuietAnswer
    <3>. QED
      BY <1>1, <3>3, IdleStep
  <2>. QED
    BY <2>2, <2>3
<1>. QED
  BY <1>2, <1>3 DEF Crash, ControllerRestarts

(* What happens around the controller starts nothing.                       *)
LEMMA WorldTracks ==
    ASSUME IInv, WInv, NEW t \in Trials, World(t) \/ JobLoss(t) \/ StorageLoss(t)
    PROVE  WInv'
<1>1. UNCHANGED <<disk, mem, ctl>>
  BY WorldChanges
<1>2. \A u \in Trials : StartsOnly({}, site[u], site'[u])
  <2>1. CASE UNCHANGED site
    BY <2>1, QuietStill
  <2>2. CASE \E s \in Site : site' = [site EXCEPT ![t] = s] /\ StartsOnly({}, site[t], s)
    BY <2>2, QuietAnswer
  <2>. QED
    BY <2>1, <2>2, WorldChanges
<1>3. ASSUME NEW u \in Trials
      PROVE  /\ LiveJobs(site'[u]) \subseteq LiveJobs(site[u])
             /\ OneActive(site'[u]) /\ Tracks(site'[u], mem[u]) /\ Tracks(site'[u], disk[u])
  BY <1>2, Quieter DEF WInv
<1>4. CallTracks'
  <2>1. ctl.call \in HandleCalls =>
            ctl.at \in Trials /\ LiveJobs(site'[ctl.at]) \subseteq {mem[ctl.at].handle}
    BY <1>3 DEF WInv, CallTracks
  <2>2. ctl.call = "restart" /\ ctl.pass = "reconcile" => LiveJobs(site'[ctl.at]) = {}
    <3>1. ctl.call = "restart" => ctl.at \in Trials
      BY DEF IInv, LaunchSaved, LaunchCalls
    <3>. QED
      BY <1>3, <3>1 DEF WInv, CallTracks
  <2>. QED
    BY <1>1, <2>1, <2>2 DEF WInv, CallTracks
<1>. QED
  BY <1>1, <1>3, <1>4 DEF WInv

-----------------------------------------------------------------------------
(* The theorems.                                                            *)

(* A new campaign runs nothing.                                             *)
LEMMA InitTracks == Init => WInv
<1> SUFFICES ASSUME Init PROVE WInv
  OBVIOUS
<1>1. ASSUME NEW t \in Trials
      PROVE  /\ OneActive(site[t]) /\ Tracks(site[t], mem[t]) /\ Tracks(site[t], disk[t])
  <2>1. /\ site[t] = EmptySite /\ mem[t] = NewEntry /\ disk[t] = NewEntry
    BY DEF Init
  <2>2. /\ LiveJobs(EmptySite) = {}
        /\ \A j \in JobNames : EmptySite.jobs[j] = "absent"
        /\ NewEntry.phase = "pending"
    BY DEF LiveJobs, EmptySite, NewEntry
  <2>3. Tracks(EmptySite, NewEntry)
    BY <2>2, NamesDiffer DEF Tracks
  <2>. QED
    BY <2>1, <2>2, <2>3 DEF OneActive
<1>2. CallTracks
  BY IdleTyped DEF Init, CallTracks, HandleCalls
<1>. QED
  BY <1>1, <1>2 DEF WInv

(* Every step keeps the workloads tracked.                                  *)
LEMMA NextTracks == IInv /\ WInv /\ [Next]_vars => WInv'
<1> SUFFICES ASSUME IInv, WInv, [Next]_vars PROVE WInv'
  OBVIOUS
<1>1. CASE Walk
  BY <1>1, StartAdvanceTracks, PassTracks, AskCapacityTracks DEF Walk
<1>2. ASSUME NEW t \in Trials, EngineStep(t)
      PROVE  WInv'
  <2>1. CASE BeginSubmit(t) \/ SubmitReturns(t)
    BY <2>1, BeginSubmitTracks, SubmitReturnsTracks
  <2>2. CASE BeginRestart(t) \/ RestartReturns(t)
    BY <2>2, BeginRestartTracks, RestartReturnsTracks
  <2>3. CASE BeginContinue(t) \/ ContinueReturns(t)
    BY <2>3, BeginContinueTracks, ContinueReturnsTracks
  <2>4. CASE BeginInspect(t) \/ InspectReturns(t) \/ TerminateReturns(t)
    BY <2>4, BeginInspectTracks, InspectReturnsTracks, TerminateReturnsTracks
  <2>5. CASE LogsReturn(t) \/ BeginCollect(t) \/ CollectReturns(t)
    BY <2>5, LogsReturnTracks, BeginCollectTracks, CollectReturnsTracks
  <2>6. CASE BeginEvaluate(t) \/ EvaluateReturns(t)
    BY <2>6, BeginEvaluateTracks, EvaluateReturnsTracks
  <2>7. CASE BeginPublish(t) \/ PublishReturns(t)
    BY <2>7, BeginPublishTracks, PublishReturnsTracks
  <2>8. CASE BeginCleanup(t) \/ CleanupReturns(t)
    BY <2>8, BeginCleanupTracks, CleanupReturnsTracks
  <2>. QED
    BY <1>2, <2>1, <2>2, <2>3, <2>4, <2>5, <2>6, <2>7, <2>8 DEF EngineStep
<1>3. ASSUME NEW t \in Trials, RequestContinuation(t)
      PROVE  WInv'
  BY <1>3, RequestContinuationTracks
<1>4. CASE Crash \/ ControllerRestarts
  BY <1>4, CrashTracks
<1>5. ASSUME NEW t \in Trials, World(t) \/ JobLoss(t) \/ StorageLoss(t)
      PROVE  WInv'
  BY <1>5, WorldTracks
<1>6. CASE UNCHANGED vars
  BY <1>6 DEF vars, WInv, CallTracks
<1>. QED
  BY <1>1, <1>2, <1>3, <1>4, <1>5, <1>6 DEF Next

(* The strengthened invariant holds throughout every campaign.              *)
THEOREM WorkloadsTracked == Spec => []WInv
<1>1. Spec => []IInv
  BY Invariant
<1>. QED
  BY <1>1, InitTracks, NextTracks, PTL DEF Spec

(* A set with at most one element.                                          *)
LEMMA AtMostOne ==
    ASSUME NEW S, \A j, k \in S : j = k
    PROVE  Cardinality(S) <= 1
<1>1. CASE S = {}
  BY <1>1, FS_EmptySet
<1>2. CASE S # {}
  <2>1. PICK j : S = {j}
    BY <1>2
  <2>. QED
    BY <2>1, FS_Singleton
<1>. QED
  BY <1>1, <1>2

(* A trial never has two running workloads, whatever fails, however answers
   are lost and wherever the controller dies: submissions, restarts and
   continuations adopt or replace, they never duplicate.                    *)
THEOREM NoDuplicateWorkload == Spec => []OneLiveJob
<1>1. WInv => OneLiveJob
  BY AtMostOne DEF WInv, OneActive, OneLiveJob
<1>. QED
  BY <1>1, WorkloadsTracked, PTL

(* The workload that runs is one campaign.json leads a new controller to,
   unless the trial already asks for attention.                             *)
THEOREM NoLostWorkload == Spec => []LiveJobTracked
<1>1. WInv => LiveJobTracked
  BY DEF WInv, Tracks, LiveJobTracked
<1>. QED
  BY <1>1, WorkloadsTracked, PTL

-----------------------------------------------------------------------------
(* The evidence of a trial.                                                 *)

(* The phases only an inspection changes without a save.                    *)
Lagging == {"pending", "submitted", "running"}

(* Before the first collection, and while the artifacts are collected.      *)
Early == Lagging \cup {"submitting", "submission_retry_wait", "infrastructure_retrying"}
Gathering == {"collecting", "collection_pending", "collection_retry_wait", "collection_failed"}

(* The trial's first workload was not confirmed yet.                        *)
Unlaunched(e) == \/ e.phase \in {"submitting", "submission_retry_wait"}
                 \/ e.phase = "pending" /\ e.handle = NoJob

(* The entry in memory m is ahead of the saved entry d.                     *)
Lagged(m, d) ==
    /\ d.phase \in Lagging /\ m.phase \in Lagging \cup {"attention_required"}
    /\ SameJobs(d, m) /\ m.pipe = d.pipe /\ m.outcome = d.outcome
    /\ Unlaunched(m) => Unlaunched(d)
    /\ Unlaunched(d) => Unlaunched(m) \/ m.phase = "attention_required"

Current(m, d) == m = d \/ Lagged(m, d)

MemoryCurrent == ctl.pass # "raised" => \A t \in Trials : Current(mem[t], disk[t])

(* What the site s must be for the entry e.                                 *)
Evidence(s, e) ==
    /\ s.pvc # "bound" => LiveJobs(s) = {}
    /\ Unlaunched(e) => s.published = "none"
    /\ e.phase = "infrastructure_retrying" => LiveJobs(s) \subseteq {Restarted(e.infra)}
    /\ e.phase = "continuation_retrying" => LiveJobs(s) \subseteq {Continued(e.cont)}
    /\ e.phase \in Early => s.copy = "none"
    /\ e.phase \in Early \cup {"continuation_retrying", "complete"} => s.transfer = "none"
    /\ e.phase \in Gathering => s.copy \in {"none", s.work}
    /\ e.phase \in Gathering \cup Judged => LiveJobs(s) = {}
    /\ e.phase \in Judged => s.copy = s.work
    /\ e.phase \in {"evaluating", "evaluation_pending"} => e.pipe = "result" \/ e.outcome # "none"
    /\ e.phase \in Decided => e.outcome # "none"
    /\ e.phase \in {"cleanup_pending", "complete"} => s.published = s.work
    /\ e.phase = "complete" /\ ~Retain => s.pvc # "bound"
    /\ s.pvc = "released" =>
        /\ s.published = s.work /\ e.outcome # "none"
        /\ e.phase \in {"cleanup_pending", "complete", "continuation_retrying",
                        "attention_required"}

(* What the engine knows while a call about a trial is in flight.           *)
CallEvidence ==
    LET s == site[ctl.at]
        e == mem[ctl.at]
    IN  /\ ctl.call \in {"inspect", "terminate"} => e.phase \in Lagging /\ ~Unlaunched(e)
        /\ ctl.call = "logs" => /\ e.phase \in Lagging \cup {"attention_required"}
                                /\ ~Unlaunched(disk[ctl.at])
                                /\ LiveJobs(s) = {} /\ s.copy = "none" /\ s.transfer = "none"
                                /\ s.pvc # "released"
        /\ ctl.call = "continue" => s.copy = "none"
        /\ ctl.call = "collect" => e.phase = "collecting"
        /\ ctl.call = "evaluate" => e.phase = "evaluating"
        /\ ctl.call = "publish" => e.phase = "publishing"
        /\ ctl.call = "cleanup" => e.phase = "cleanup_pending"

EInv ==
    /\ MemoryCurrent
    /\ \A t \in Trials : Evidence(site[t], disk[t])
    /\ CallEvidence

-----------------------------------------------------------------------------
(* What the calls do to the evidence.                                       *)

(* Everything but the Jobs and the contents of the storage is the same.     *)
Beside(s, n) == /\ n.copy = s.copy /\ n.transfer = s.transfer
                /\ n.pvc = s.pvc /\ n.published = s.published

(* The deletion of a Job can only change the contents its Pod was writing.  *)
LEMMA DeletedEvidence ==
    ASSUME NEW s \in Site, NEW h, NEW c \in Deleted(s, h)
    PROVE  Beside(s, c) /\ (h \notin LiveJobs(s) => c.work = s.work)
<1>1. CASE h \notin JobNames
  BY <1>1 DEF Deleted, Beside
<1>2. CASE h \in JobNames
  <2> DEFINE W == IF s.jobs[h] = "active" THEN Progress(h, s.work) ELSE {s.work}
             Del(w) == [s EXCEPT !.jobs[h] = "absent", !.work = w]
  <2>1. PICK w \in W : c = Del(w)
    <3>1. Deleted(s, h) = {Del(w) : w \in W}
      BY <1>2 DEF Deleted
    <3> HIDE DEF W, Del
    <3>. QED
      BY <3>1
  <2>2. h \notin LiveJobs(s) => w = s.work
    BY <1>2 DEF LiveJobs
  <2>3. Beside(s, Del(w)) /\ Del(w).work = w
    BY DEF Beside, Site
  <2>. QED
    BY <2>1, <2>2, <2>3
<1>. QED
  BY <1>1, <1>2

(* A submission leaves the copies alone and the contents as well, unless it
   provides a new storage.                                                  *)
LEMMA SubmitEvidence ==
    ASSUME NEW s \in Site, NEW r \in SubmitReplies(s)
    PROVE  /\ r.site.copy = s.copy /\ r.site.transfer = s.transfer
           /\ r.site.published = s.published
           /\ \/ r.site.pvc = s.pvc /\ r.site.work = s.work
              \/ s.pvc # "bound" /\ r.site.pvc = "bound" /\ r.site.work = "incomplete"
           /\ r.site.pvc # "bound" => r.site.jobs = s.jobs
<1> DEFINE held    == IF s.pvc = "bound" THEN s
                      ELSE [s EXCEPT !.pvc = "bound", !.work = "incomplete"]
           started == [held EXCEPT !.jobs[First] = "active"]
           named   == [started EXCEPT !.file = First, !.gathered = FALSE]
           adopted == [s EXCEPT !.file = First]
           Same(n) == /\ n.copy = s.copy /\ n.transfer = s.transfer
                      /\ n.published = s.published
                      /\ \/ n.pvc = s.pvc /\ n.work = s.work
                         \/ s.pvc # "bound" /\ n.pvc = "bound" /\ n.work = "incomplete"
                      /\ n.pvc # "bound" => n.jobs = s.jobs
<1>1. r.site \in {s, held, started, named, adopted}
  BY DEF SubmitReplies, Reply, Broken, Unanswered, Refused
<1>2. Same(s) /\ Same(adopted)
  BY DEF Site
<1>3. held \in Site /\ Same(held) /\ held.pvc = "bound"
  BY FieldsSet DEF Site
<1>4. Same(started) /\ started.pvc = "bound" /\ started \in Site
  <2>1. First \in JobNames /\ "active" \in JobStates
    BY NamesDiffer DEF JobStates
  <2> HIDE DEF held
  <2>2. started \in Site
    BY <1>3, <2>1, JobSet
  <2>. QED
    BY <1>3, <2>2 DEF Site
<1>5. Same(named)
  <2> HIDE DEF started
  <2>. QED
    BY <1>4 DEF Site
<1>6. \A n \in {s, held, started, named, adopted} : Same(n)
  <2> HIDE DEF held, started, named, adopted, Same
  <2>. QED
    BY <1>2, <1>3, <1>4, <1>5
<1>. QED
  BY <1>1, <1>6

(* A restart only changes Jobs when its replacement is the only one that may
   run, and does nothing without a storage.                                 *)
LEMMA RestartEvidence ==
    ASSUME NEW s \in Site, NEW h, NEW kind, NEW n \in Nat,
           n >= 1 => <<kind, n>> \in JobNames, LiveJobs(s) \subseteq {<<kind, n>>},
           NEW r \in RestartReplies(s, h, kind, n)
    PROVE  /\ Beside(s, r.site) /\ r.site.work = s.work
           /\ s.pvc # "bound" => r.site = s /\ r.res # "ok"
<1> DEFINE target  == <<kind, n>>
           cleared == Deleted(s, h)
           Started(c) == [c EXCEPT !.jobs[target] = "active"]
           started == {Started(c) : c \in cleared}
           Recorded(c) == [c EXCEPT !.file = target, !.gathered = FALSE]
<1>1. CASE n < 1 \/ s.pvc # "bound"
  <2>1. RestartReplies(s, h, kind, n) = Unanswered({s}) \cup {Reply("error", s)}
    BY <1>1 DEF RestartReplies
  <2>2. r.site = s /\ r.res # "ok"
    BY <2>1 DEF Unanswered, Reply
  <2>. QED
    BY <2>2 DEF Beside
<1>2. CASE ~(n < 1 \/ s.pvc # "bound") /\ s.jobs[target] # "absent"
  <2>1. RestartReplies(s, h, kind, n) = Broken({s}) \cup {Reply("ok", Recorded(s))}
    BY <1>2 DEF RestartReplies
  <2>2. r.site = s \/ r.site = Recorded(s)
    <3> HIDE DEF Recorded
    <3>. QED
      BY <2>1 DEF Broken, Unanswered, Refused, Reply
  <2>. QED
    BY <1>2, <2>2 DEF Beside, Site
<1>3. CASE ~(n < 1 \/ s.pvc # "bound") /\ s.jobs[target] = "absent"
  <2>1. target \in JobNames
    BY <1>3
  <2>2. h \notin LiveJobs(s)
    BY <1>3 DEF LiveJobs
  <2>3. \A c \in cleared : c \in Site /\ Beside(s, c) /\ c.work = s.work
    BY <2>2, DeletedEvidence, DeletedFaithful
  <2>4. ASSUME NEW c \in cleared
        PROVE  /\ Beside(s, Started(c)) /\ Started(c).work = s.work
               /\ Beside(s, Recorded(Started(c))) /\ Recorded(Started(c)).work = s.work
    <3>1. Started(c) \in Site
      BY <2>1, <2>3, JobSet DEF JobStates
    <3>2. Beside(s, Started(c)) /\ Started(c).work = s.work
      BY <2>3 DEF Beside, Site
    <3> HIDE DEF Started
    <3>3. Beside(s, Recorded(Started(c))) /\ Recorded(Started(c)).work = s.work
      BY <3>1, <3>2 DEF Beside, Site
    <3>. QED
      BY <3>2, <3>3
  <2>5. RestartReplies(s, h, kind, n) =
            Broken({s} \cup cleared) \cup Unanswered(started)
                \cup {Reply("ok", Recorded(c)) : c \in started}
    BY <1>3 DEF RestartReplies
  <2> HIDE DEF cleared, Started, Recorded
  <2>6. \/ r.site = s
        \/ r.site \in cleared
        \/ \E c \in cleared : r.site = Started(c) \/ r.site = Recorded(Started(c))
    BY <2>5 DEF Broken, Unanswered, Refused, Reply
  <2>. QED
    BY <1>3, <2>3, <2>4, <2>6 DEF Beside
<1>. QED
  BY <1>1, <1>2, <1>3

(* A refused termination has changed nothing.                               *)
LEMMA TerminateEvidence ==
    ASSUME NEW s \in Site, NEW h, NEW r \in TerminateReplies(s, h)
    PROVE  /\ r.site = s \/ r.site \in Deleted(s, h)
           /\ r.res = "ok" => r.site \in Deleted(s, h)
           /\ r.res = "error" => r.site = s
           /\ Beside(s, r.site)
<1>1. /\ r.site = s \/ r.site \in Deleted(s, h)
      /\ r.res = "ok" => r.site \in Deleted(s, h)
      /\ r.res = "error" => r.site = s
  BY DEF TerminateReplies, Reply, Broken, Unanswered, Refused
<1>2. Beside(s, r.site)
  BY <1>1, DeletedEvidence DEF Beside
<1>. QED
  BY <1>1, <1>2

(* A collection touches the collection Job only, and succeeds with a copy.  *)
LEMMA CollectEvidence ==
    ASSUME NEW s \in Site, NEW r \in CollectReplies(s)
    PROVE  /\ r.site.jobs = s.jobs /\ r.site.work = s.work /\ r.site.pvc = s.pvc
           /\ r.site.copy = s.copy /\ r.site.published = s.published
           /\ r.res = "ok" => s.copy # "none"
<1> DEFINE submitted == [s EXCEPT !.transfer = "active"]
           removed   == [s EXCEPT !.transfer = "none"]
           gathered  == [removed EXCEPT !.gathered = TRUE]
           Same(n) == /\ n.jobs = s.jobs /\ n.work = s.work /\ n.pvc = s.pvc
                      /\ n.copy = s.copy /\ n.published = s.published
<1>1. /\ r.site \in {s, submitted, removed, gathered}
      /\ r.res = "ok" => s.copy # "none"
  <2>1. s.transfer \in {"none", "active", "complete", "failed"}
    BY DEF Site, TransferStates
  <2>. QED
    BY <2>1 DEF CollectReplies, Reply, Broken, Unanswered, Refused
<1>2. \A n \in {s, submitted, removed, gathered} : Same(n)
  BY DEF Site
<1> HIDE DEF submitted, removed, gathered
<1>. QED
  BY <1>1, <1>2

(* A publication touches the results volume only.                           *)
LEMMA PublishEvidence ==
    ASSUME NEW s \in Site, NEW r \in PublishReplies(s)
    PROVE  /\ r.site.jobs = s.jobs /\ r.site.work = s.work /\ r.site.pvc = s.pvc
           /\ r.site.copy = s.copy /\ r.site.transfer = s.transfer
           /\ r.res = "ok" => r.site.published = s.copy
<1> DEFINE new  == [s EXCEPT !.published = s.copy]
           gone == [s EXCEPT !.published = "none"]
           Same(n) == /\ n.jobs = s.jobs /\ n.work = s.work /\ n.pvc = s.pvc
                      /\ n.copy = s.copy /\ n.transfer = s.transfer
<1>1. /\ r.site \in {s, new, gone}
      /\ r.res = "ok" => r.site = new
  BY DEF PublishReplies, Reply, Refused
<1>2. new.published = s.copy /\ \A n \in {s, new, gone} : Same(n)
  BY DEF Site
<1> HIDE DEF new, gone
<1>. QED
  BY <1>1, <1>2

(* A cleanup of a trial without a workload changes nothing that was
   collected or published; it releases the storage unless it is retained.   *)
LEMMA CleanupEvidence ==
    ASSUME NEW s \in Site, NEW h, NEW retain, LiveJobs(s) = {},
           NEW r \in CleanupReplies(s, h, retain)
    PROVE  /\ LiveJobs(r.site) = {} /\ r.site.work = s.work
           /\ r.site.copy = s.copy /\ r.site.published = s.published
           /\ r.site.transfer \in {s.transfer, "none"}
           /\ r.site.pvc = s.pvc \/ (s.pvc = "bound" /\ r.site.pvc = "released")
           /\ r.res = "ok" => r.site.transfer = "none" /\ (~Retain => r.site.pvc # "bound")
<1> DEFINE swept   == [s EXCEPT !.transfer = "none"]
           cleared == Deleted(swept, h)
           Gone(c) == [c EXCEPT !.pvc = IF @ = "bound" THEN "released" ELSE @]
           Same(n) == /\ LiveJobs(n) = {} /\ n.work = s.work
                      /\ n.copy = s.copy /\ n.published = s.published
                      /\ n.transfer \in {s.transfer, "none"}
                      /\ n.pvc = s.pvc \/ (s.pvc = "bound" /\ n.pvc = "released")
<1>1. swept \in Site /\ LiveJobs(swept) = {} /\ Same(swept) /\ swept.transfer = "none"
  <2>1. "none" \in TransferStates
    BY DEF TransferStates
  <2>2. swept \in Site
    BY <2>1, FieldsSet
  <2>3. /\ swept.jobs = s.jobs /\ swept.work = s.work /\ swept.copy = s.copy /\ swept.pvc = s.pvc
        /\ swept.published = s.published /\ swept.transfer = "none"
    BY DEF Site
  <2> HIDE DEF swept
  <2>. QED
    BY <2>2, <2>3 DEF LiveJobs
<1>2. ASSUME NEW c \in cleared
      PROVE  c \in Site /\ LiveJobs(c) = {} /\ c.transfer = "none" /\ Same(c)
  <2> HIDE DEF swept
  <2>1. c \in Site /\ StartsOnly({}, swept, c) /\ Beside(swept, c) /\ c.work = swept.work
    BY <1>1, DeletedFaithful, DeletedEvidence
  <2>2. LiveJobs(c) = {}
    BY <1>1, <2>1, Quieter
  <2>. QED
    BY <1>1, <2>1, <2>2 DEF Beside
<1>3. ASSUME NEW c \in cleared
      PROVE  Same(Gone(c)) /\ Gone(c).transfer = "none" /\ Gone(c).pvc # "bound"
  <2> HIDE DEF cleared
  <2>1. c \in Site /\ LiveJobs(c) = {} /\ c.transfer = "none" /\ Same(c)
    BY <1>2
  <2>2. /\ Gone(c).jobs = c.jobs /\ Gone(c).work = c.work /\ Gone(c).copy = c.copy
        /\ Gone(c).published = c.published /\ Gone(c).transfer = c.transfer
        /\ Gone(c).pvc = IF c.pvc = "bound" THEN "released" ELSE c.pvc
    BY <2>1 DEF Site
  <2> HIDE DEF Gone
  <2>. QED
    BY <2>1, <2>2 DEF LiveJobs
<1>4. CASE Keeps(s, h, retain)
  <2>1. CleanupReplies(s, h, retain) =
            Broken({s, swept} \cup cleared) \cup {Reply("ok", c) : c \in cleared}
    BY <1>4 DEF CleanupReplies
  <2>2. Retain
    BY <1>4 DEF Keeps
  <2> HIDE DEF swept, cleared
  <2>3. /\ r.site \in {s, swept} \cup cleared
        /\ r.res = "ok" => r.site \in cleared
    BY <2>1 DEF Reply, Broken, Unanswered, Refused
  <2>. QED
    BY <1>1, <1>2, <2>2, <2>3
<1>5. CASE ~Keeps(s, h, retain)
  <2> DEFINE held == {c \in cleared : LiveJobs(c) # {}}
  <2>1. CleanupReplies(s, h, retain) =
            Broken({s, swept} \cup cleared) \cup
            ({Reply("error", c) : c \in held} \cup
             Unanswered({Gone(c) : c \in cleared \ held}) \cup
             {Reply("ok", Gone(c)) : c \in cleared \ held})
    BY <1>5 DEF CleanupReplies
  <2> HIDE DEF swept, cleared, Gone
  <2>2. /\ r.site \in {s, swept} \cup cleared \/ \E c \in cleared : r.site = Gone(c)
        /\ r.res = "ok" => \E c \in cleared : r.site = Gone(c)
    BY <2>1 DEF Reply, Broken, Unanswered, Refused
  <2>. QED
    BY <1>1, <1>2, <1>3, <2>2
<1>. QED
  BY <1>4, <1>5

-----------------------------------------------------------------------------
(* What a step may do to a trial.                                           *)

(* The custody of TrialCustody, of one entry and one site.                  *)
Stage(e) == IF e.phase = "pending" /\ e.handle # NoJob THEN "executing" ELSE StageOf(e.phase)
Storage(s) == IF s.pvc = "bound" THEN "held" ELSE s.pvc
OnRecord(s) == s.published = s.work

(* One step of the custody: the stage goes from a to b, the storage from u
   to v, and the record was and is (p, q) up to date.                       *)
CustodyStep(a, b, u, v, p, q) ==
    \/ a = b /\ u = v /\ (p <=> q)
    \/ /\ a = "launching" /\ u \in {"none", "lost"} /\ v = "held" /\ ~q
       /\ b \in {"launching", "executing", "stuck"}
    \/ u = "held" /\ v = "lost" /\ a = b /\ (p <=> q)
    \/ /\ a \in {"launching", "executing", "stuck"} /\ u = "held" /\ v = "held"
       /\ a = b \/ (a = "executing" /\ b = "collecting")
    \/ /\ a = "publishing" /\ u = v
       /\ b \in {"publishing", "stuck"} \/ (b = "cleaning" /\ q)
    \/ /\ a = "cleaning" /\ p /\ q /\ u = "held" /\ v = "released"
       /\ b \in {"cleaning", "closed"}
    \/ /\ u = v /\ (p <=> q)
       /\ \/ a = "waiting" /\ b = "launching"
          \/ a \in {"launching", "closed"} /\ b = "executing"
          \/ a \in {"executing", "stuck"} /\ b = "collecting"
          \/ a = "collecting" /\ b = "judging"
          \/ a \in {"collecting", "judging"} /\ b = "publishing"
          \/ a = "cleaning" /\ b = "closed"
          \/ a \in Custody!Stages \ {"publishing", "cleaning", "closed"} /\ b = "stuck"

(* A decided trial keeps its outcome.                                       *)
Turn(e, f) ==
    e.phase \in Decided => /\ f.phase \in Decided \cup {"attention_required",
                                                        "continuation_retrying"}
                           /\ f.outcome = e.outcome

Fine(s, e, n, f) ==
    /\ CustodyStep(Stage(e), Stage(f), Storage(s), Storage(n), OnRecord(s), OnRecord(n))
    /\ Turn(e, f)

(* What every step upholds.                                                 *)
Upheld == EInv' /\ \A t \in Trials : Fine(site[t], disk[t], site'[t], disk'[t])

(* The stages of the phases.                                                *)
LEMMA Staged ==
    ASSUME NEW e
    PROVE  /\ e.phase = "pending" /\ e.handle = NoJob => Stage(e) = "waiting"
           /\ e.phase = "pending" /\ e.handle # NoJob => Stage(e) = "executing"
           /\ e.phase \in {"submitting", "submission_retry_wait"} => Stage(e) = "launching"
           /\ e.phase \in {"submitted", "running", "infrastructure_retrying",
                           "continuation_retrying"} => Stage(e) = "executing"
           /\ e.phase \in {"collecting", "collection_pending", "collection_retry_wait"}
                => Stage(e) = "collecting"
           /\ e.phase \in {"evaluating", "evaluation_pending"} => Stage(e) = "judging"
           /\ e.phase \in {"publishing", "publication_pending"} => Stage(e) = "publishing"
           /\ e.phase = "cleanup_pending" => Stage(e) = "cleaning"
           /\ e.phase = "complete" => Stage(e) = "closed"
           /\ e.phase \in {"attention_required", "collection_failed"} => Stage(e) = "stuck"
<1>1. StageOf("pending") = "waiting"
  BY DEF StageOf, Stuck
<1>2. StageOf("submitting") = "launching" /\ StageOf("submission_retry_wait") = "launching"
  BY DEF StageOf, Stuck
<1>3. /\ StageOf("submitted") = "executing" /\ StageOf("running") = "executing"
      /\ StageOf("infrastructure_retrying") = "executing"
      /\ StageOf("continuation_retrying") = "executing"
  BY DEF StageOf, Stuck
<1>4. /\ StageOf("collecting") = "collecting" /\ StageOf("collection_pending") = "collecting"
      /\ StageOf("collection_retry_wait") = "collecting"
  BY DEF StageOf, Stuck
<1>5. StageOf("evaluating") = "judging" /\ StageOf("evaluation_pending") = "judging"
  BY DEF StageOf, Stuck
<1>6. StageOf("publishing") = "publishing" /\ StageOf("publication_pending") = "publishing"
  BY DEF StageOf, Stuck
<1>7. StageOf("cleanup_pending") = "cleaning"
  BY DEF StageOf, Stuck
<1>8. StageOf("complete") = "closed"
  BY DEF StageOf, Stuck
<1>9. StageOf("attention_required") = "stuck" /\ StageOf("collection_failed") = "stuck"
  BY DEF StageOf, Stuck
<1>. QED
  BY <1>1, <1>2, <1>3, <1>4, <1>5, <1>6, <1>7, <1>8, <1>9 DEF Stage

(* The entry in memory is backed by the same evidence as the saved one, and
   saving it is a step of the custody.                                      *)
LEMMA CurrentEvident ==
    ASSUME NEW s, NEW m, NEW d, Current(m, d), Evidence(s, d)
    PROVE  Evidence(s, m)
<1>1. CASE Lagged(m, d)
  <2>1. d.phase \in Lagging /\ m.phase \in Lagging \cup {"attention_required"}
    BY <1>1 DEF Lagged
  <2>2. s.pvc # "released" /\ s.copy = "none" /\ s.transfer = "none"
    BY <2>1 DEF Evidence, Lagging, Early
  <2>3. Unlaunched(m) => s.published = "none"
    BY <1>1 DEF Lagged, Evidence
  <2>4. /\ m.phase \notin {"infrastructure_retrying", "continuation_retrying", "complete",
                           "cleanup_pending", "evaluating", "evaluation_pending"}
        /\ m.phase \notin Gathering /\ m.phase \notin Judged /\ m.phase \notin Decided
    BY <2>1 DEF Lagging, Gathering, Judged, Decided
  <2>. QED
    BY <2>2, <2>3, <2>4 DEF Evidence
<1>. QED
  BY <1>1 DEF Current

LEMMA CurrentFine ==
    ASSUME NEW s, NEW m, NEW d, Current(m, d)
    PROVE  Fine(s, d, s, m)
<1>1. CASE m = d
  BY <1>1 DEF Fine, CustodyStep, Turn
<1>2. CASE Lagged(m, d)
  <2>1. d.phase \in Lagging /\ m.phase \in Lagging \cup {"attention_required"}
    BY <1>2 DEF Lagged
  <2>2. Stage(d) \in {"waiting", "executing"}
    BY <2>1, Staged DEF Lagging
  <2>3. Stage(m) \in {Stage(d), "stuck"}
    <3>1. CASE m.phase = "attention_required"
      BY <3>1, Staged
    <3>2. CASE m.phase # "attention_required"
      <4>1. Unlaunched(m) <=> Unlaunched(d)
        BY <1>2, <3>2 DEF Lagged
      <4>. QED
        BY <2>1, <3>2, <4>1, Staged DEF Lagging, Unlaunched
    <3>. QED
      BY <3>1, <3>2
  <2>4. CustodyStep(Stage(d), Stage(m), Storage(s), Storage(s), OnRecord(s), OnRecord(s))
    BY <2>2, <2>3 DEF CustodyStep, Custody!Stages
  <2>5. Turn(d, m)
    BY <2>1 DEF Turn, Lagging, Decided
  <2>. QED
    BY <2>4, <2>5 DEF Fine
<1>. QED
  BY <1>1, <1>2 DEF Current

(* In a phase the engine only takes with a save, the two entries agree.     *)
LEMMA Agreed ==
    ASSUME MemoryCurrent, ctl.pass # "raised", NEW t \in Trials,
           mem[t].phase \notin Lagging \cup {"attention_required"}
    PROVE  mem[t] = disk[t]
BY DEF MemoryCurrent, Current, Lagged

(* The calls that need nothing of the evidence.                             *)
LEMMA NoCallEvidence ==
    ASSUME ctl'.call \in {"none", "submit", "restart", "capacity"}
    PROVE  CallEvidence'
BY DEF CallEvidence

(* It suffices to look at the trial whose entry is saved.                   *)
LEMMA SavedUp ==
    ASSUME IInv, EInv, ctl.pass # "raised", NEW t \in Trials, NEW m, NEW x, Saved(m, x),
           \A u \in Trials : u # t => m[u] = mem[u],
           NEW s, site' = [site EXCEPT ![t] = s],
           Evidence(s, m[t]), Fine(site[t], disk[t], s, m[t]), CallEvidence'
    PROVE  Upheld
<1>1. /\ site'[t] = s /\ \A u \in Trials : u # t => site'[u] = site[u]
      /\ mem' = m /\ disk' = m
  BY DEF IInv, TypeOK, Saved
<1>2. MemoryCurrent'
  BY <1>1 DEF MemoryCurrent, Current
<1>3. ASSUME NEW u \in Trials
      PROVE  Evidence(site'[u], disk'[u]) /\ Fine(site[u], disk[u], site'[u], disk'[u])
  <2>1. CASE u = t
    BY <1>1, <2>1
  <2>2. CASE u # t
    <3>1. Current(mem[u], disk[u]) /\ Evidence(site[u], disk[u])
      BY DEF EInv, MemoryCurrent
    <3>2. site'[u] = site[u] /\ disk'[u] = mem[u]
      BY <1>1, <2>2
    <3>. QED
      BY <3>1, <3>2, CurrentEvident, CurrentFine
  <2>. QED
    BY <2>1, <2>2
<1>. QED
  BY <1>2, <1>3 DEF Upheld, EInv

(* The same of a trial whose two entries agree.                             *)
LEMMA AgreedUp ==
    ASSUME IInv, EInv, ctl.pass # "raised", NEW t \in Trials, mem[t] = disk[t],
           NEW m, NEW x, Saved(m, x),
           \A u \in Trials : u # t => m[u] = mem[u],
           NEW s, site' = [site EXCEPT ![t] = s],
           Evidence(s, m[t]), Fine(site[t], mem[t], s, m[t]), CallEvidence'
    PROVE  Upheld
BY SavedUp

(* A pause saves the memory as it is.                                       *)
LEMMA PausedUp ==
    ASSUME IInv, EInv, ctl.pass # "raised", NEW t \in Trials, Paused(mem),
           NEW s, site' = [site EXCEPT ![t] = s],
           Evidence(s, mem[t]), Fine(site[t], disk[t], s, mem[t])
    PROVE  Upheld
<1>1. PICK x \in PauseStatuses : Saved(mem, x)
  BY DEF Paused
<1>2. ctl'.call = "none"
  BY IdleTyped DEF Paused
<1>. QED
  BY <1>1, <1>2, NoCallEvidence, SavedUp

LEMMA PausedStill ==
    ASSUME IInv, EInv, ctl.pass # "raised", NEW t \in Trials, Paused(mem), UNCHANGED site
    PROVE  Upheld
<1>1. site' = [site EXCEPT ![t] = site[t]]
  BY DEF IInv, TypeOK
<1>2. Current(mem[t], disk[t]) /\ Evidence(site[t], disk[t])
  BY DEF EInv, MemoryCurrent
<1>. QED
  BY <1>1, <1>2, CurrentEvident, CurrentFine, PausedUp

(* What is only kept in memory stays close to what is saved.                *)
LEMMA KeptUp ==
    ASSUME IInv, EInv, ctl.pass # "raised", NEW m, mem' = m, UNCHANGED <<disk, site>>,
           \A u \in Trials : m[u] = mem[u] \/ Current(m[u], disk[u]), CallEvidence'
    PROVE  Upheld
<1>1. MemoryCurrent'
  BY DEF EInv, MemoryCurrent
<1>2. \A u \in Trials : Fine(site[u], disk[u], site[u], disk[u])
  BY CurrentFine DEF Current
<1>. QED
  BY <1>1, <1>2 DEF Upheld, EInv

(* A step that leaves the entries alone.                                    *)
LEMMA SiteUp ==
    ASSUME IInv, EInv, UNCHANGED <<disk, mem>>,
           ctl.pass # "raised" \/ ctl'.pass = "raised", NEW t \in Trials,
           NEW s, site' = [site EXCEPT ![t] = s],
           Evidence(s, disk[t]), Fine(site[t], disk[t], s, disk[t]), CallEvidence'
    PROVE  Upheld
<1>1. site'[t] = s /\ \A u \in Trials : u # t => site'[u] = site[u]
  BY DEF IInv, TypeOK
<1>2. MemoryCurrent'
  BY DEF EInv, MemoryCurrent
<1>3. \A u \in Trials : Fine(site[u], disk[u], site[u], disk[u])
  BY CurrentFine DEF Current
<1>. QED
  BY <1>1, <1>2, <1>3 DEF Upheld, EInv

-----------------------------------------------------------------------------
(* The walk.                                                                *)

(* Recovery resumes a phase where its evidence still holds.                 *)
LEMMA RecoveredEvident ==
    ASSUME NEW m \in Table, NEW t \in Trials, NEW s, Evidence(s, m[t])
    PROVE  LET f == Recovered(m)[t]
           IN  /\ Evidence(s, f) /\ Fine(s, m[t], s, f)
               /\ f.outcome = m[t].outcome /\ f.pipe = m[t].pipe
               /\ m[t].phase = "complete" => f = m[t]
<1> DEFINE e == m[t]
           f == Recovered(m)[t]
<1>1. /\ SameJobs(e, f) /\ f.outcome = e.outcome /\ f.pipe = e.pipe
      /\ \/ f = e
         \/ e.phase = "collecting" /\ f.phase = "collection_pending"
         \/ e.phase = "evaluating" /\ f.phase = "evaluation_pending"
         \/ e.phase = "publishing" /\ f.phase = "publication_pending"
  BY DEF Recovered, SameJobs, Table, Entry
<1> HIDE DEF f, e
<1>2. Evidence(s, f)
  BY <1>1 DEF SameJobs, Evidence, Unlaunched, Lagging, Early, Gathering, Judged, Decided, e
<1>3. Stage(f) = Stage(e)
  BY <1>1, Staged
<1>4. Turn(e, f)
  BY <1>1 DEF Turn, Decided
<1>5. Fine(s, e, s, f)
  BY <1>3, <1>4 DEF Fine, CustodyStep
<1>. QED
  BY <1>1, <1>2, <1>5 DEF e, f

(* The start of an advance.                                                 *)
LEMMA StartAdvanceUp ==
    ASSUME IInv, EInv, StartAdvance
    PROVE  Upheld
<1>1. /\ mem' = Recovered(disk) /\ disk' = Recovered(disk) /\ site' = site
      /\ ctl' = [Idle EXCEPT !.pass = "submit"] /\ disk \in Table
  BY DEF StartAdvance, Saved, IInv, TypeOK, Table
<1>2. CallEvidence'
  BY <1>1, IdleTyped, NoCallEvidence
<1>3. MemoryCurrent'
  BY <1>1 DEF MemoryCurrent, Current
<1>4. \A u \in Trials : /\ Evidence(site'[u], disk'[u])
                        /\ Fine(site[u], disk[u], site'[u], disk'[u])
  BY <1>1, RecoveredEvident DEF EInv
<1>. QED
  BY <1>2, <1>3, <1>4 DEF Upheld, EInv

(* A continuation reopens a trial without a workload.                       *)
LEMMA RequestContinuationUp ==
    ASSUME IInv, WInv, EInv, NEW t \in Trials, RequestContinuation(t)
    PROVE  Upheld
<1> DEFINE m == Recovered(disk)
           n == [m EXCEPT ![t].phase = "continuation_retrying",
                          ![t].cont = @ + 1, ![t].live = FALSE]
<1>1. /\ disk \in Table /\ m \in Table /\ site' = site /\ ctl' = ctl /\ ctl.pass = "idle"
      /\ disk[t].phase = "complete" /\ mem' = n /\ disk' = n
  BY RecoveredTyped DEF RequestContinuation, Save, Saved, IInv, TypeOK, Table
<1>2. \A u \in Trials : Evidence(site[u], m[u]) /\ Fine(site[u], disk[u], site[u], m[u])
  BY <1>1, RecoveredEvident DEF EInv
<1>3. m[t] = disk[t]
  BY <1>1, RecoveredEvident DEF EInv
<1> HIDE DEF m
<1>4. /\ \A u \in Trials : u # t => n[u] = m[u]
      /\ n[t].phase = "continuation_retrying" /\ n[t].handle = m[t].handle
      /\ n[t].outcome = m[t].outcome
  BY <1>1 DEF Table, Entry
<1> HIDE DEF n
<1>5. Evidence(site[t], n[t])
  BY <1>1, <1>2, <1>3, <1>4
     DEF Evidence, Unlaunched, Lagging, Early, Gathering, Judged, Decided
<1>6. Fine(site[t], disk[t], site[t], n[t])
  <2>1. Stage(disk[t]) = "closed" /\ Stage(n[t]) = "executing"
    BY <1>1, <1>4, Staged
  <2>2. Turn(disk[t], n[t])
    BY <1>3, <1>4 DEF Turn
  <2>. QED
    BY <2>1, <2>2 DEF Fine, CustodyStep
<1>7. CallEvidence'
  <2>1. ctl.call = "none"
    BY <1>1 DEF WInv, CallTracks, Passes, IInv, LaunchSaved
  <2>. QED
    BY <1>1, <2>1, NoCallEvidence
<1>8. MemoryCurrent'
  BY <1>1 DEF MemoryCurrent, Current
<1>9. ASSUME NEW u \in Trials
      PROVE  Evidence(site'[u], disk'[u]) /\ Fine(site[u], disk[u], site'[u], disk'[u])
  <2>1. CASE u = t
    BY <1>1, <1>5, <1>6, <2>1
  <2>2. CASE u # t
    BY <1>1, <1>2, <1>4, <2>2
  <2>. QED
    BY <2>1, <2>2
<1>. QED
  BY <1>7, <1>8, <1>9 DEF Upheld, EInv

(* The ends of passes and of the walk, and the answer about the capacity.   *)
LEMMA PassUp ==
    ASSUME IInv, EInv, NextPass \/ CapacityReturns \/ FinishAdvance
    PROVE  Upheld
<1>1. site' = site /\ mem' = mem /\ disk' \in {mem, disk} /\ ctl.pass # "raised"
  BY DEF NextPass, CapacityReturns, FinishAdvance, Paused, Saved, Done, Calling, Passes
<1>2. ctl'.call = "none"
  <2>1. ctl \in Control
    BY DEF IInv, TypeOK
  <2>. QED
    BY <2>1, IdleTyped DEF NextPass, CapacityReturns, FinishAdvance, Done, Paused, Control
<1>3. CallEvidence'
  BY <1>2, NoCallEvidence
<1>4. MemoryCurrent'
  BY <1>1 DEF EInv, MemoryCurrent, Current
<1>5. ASSUME NEW u \in Trials
      PROVE  Evidence(site[u], disk'[u]) /\ Fine(site[u], disk[u], site[u], disk'[u])
  <2>1. Current(mem[u], disk[u]) /\ Current(disk[u], disk[u]) /\ Evidence(site[u], disk[u])
    BY <1>1 DEF EInv, MemoryCurrent, Current
  <2>. QED
    BY <1>1, <2>1, CurrentEvident, CurrentFine
<1>. QED
  BY <1>1, <1>3, <1>4, <1>5 DEF Upheld, EInv

(* Trials that cannot be configured ask for attention.                      *)
LEMMA AskCapacityUp ==
    ASSUME IInv, EInv, AskCapacity
    PROVE  Upheld
<1>1. site' = site /\ disk' = disk /\ ctl.pass # "raised" /\ mem \in Table
  BY DEF AskCapacity, Keep, Done, IInv, TypeOK, Table
<1>2. ctl'.call = "capacity"
  BY DEF AskCapacity, IInv, TypeOK, Control
<1>3. ASSUME NEW u \in Trials
      PROVE  mem'[u] = mem[u] \/ Current(mem'[u], disk[u])
  <2>1. \/ mem'[u] = mem[u]
        \/ /\ mem[u].phase = "pending" /\ mem[u].handle = NoJob
           /\ mem'[u] = [mem[u] EXCEPT !.phase = "attention_required"]
    BY DEF AskCapacity, Keep
  <2>2. CASE /\ mem[u].phase = "pending" /\ mem[u].handle = NoJob
             /\ mem'[u] = [mem[u] EXCEPT !.phase = "attention_required"]
    <3>1. /\ mem'[u].phase = "attention_required" /\ SameJobs(mem[u], mem'[u])
          /\ mem'[u].pipe = mem[u].pipe /\ mem'[u].outcome = mem[u].outcome
      BY <1>1, <2>2 DEF Table, Entry, SameJobs
    <3>2. Current(mem[u], disk[u])
      BY <1>1 DEF EInv, MemoryCurrent
    <3>3. Lagged(mem'[u], disk[u])
      BY <2>2, <3>1, <3>2 DEF Current, Lagged, Lagging, SameJobs, Unlaunched
    <3>. QED
      BY <3>3 DEF Current
  <2>. QED
    BY <2>1, <2>2
<1>4. CallEvidence'
  BY <1>2, NoCallEvidence
<1>. QED
  BY <1>1, <1>3, <1>4, KeptUp

-----------------------------------------------------------------------------
(* Submissions and restarts.                                                *)

(* A trial that asks for attention needs no evidence but for its storage.   *)
LEMMA AttentionEvident ==
    ASSUME NEW s, NEW e, Evidence(s, e), NEW f,
           f.phase = "attention_required", f.outcome = e.outcome
    PROVE  Evidence(s, f)
BY DEF Evidence, Unlaunched, Lagging, Early, Gathering, Judged, Decided

(* Until it is decided it may ask for attention at any time.                *)
LEMMA AttentionFine ==
    ASSUME NEW s, NEW n, Beside(s, n), n.work = s.work,
           NEW e, e.phase \in Phases \ Decided, NEW f, f.phase = "attention_required"
    PROVE  Fine(s, e, n, f)
<1>1. Stage(f) = "stuck"
  BY Staged
<1>2. Stage(e) \in Custody!Stages \ {"publishing", "cleaning", "closed"}
  <2>1. \/ e.phase = "pending" /\ e.handle = NoJob
        \/ e.phase = "pending" /\ e.handle # NoJob
        \/ e.phase \in {"submitting", "submission_retry_wait"}
        \/ e.phase \in {"submitted", "running", "infrastructure_retrying",
                        "continuation_retrying"}
        \/ e.phase \in {"collecting", "collection_pending", "collection_retry_wait"}
        \/ e.phase \in {"evaluating", "evaluation_pending"}
        \/ e.phase \in {"attention_required", "collection_failed"}
    BY DEF Phases, Decided
  <2>. QED
    BY <2>1, Staged DEF Custody!Stages
<1>3. Storage(n) = Storage(s) /\ (OnRecord(s) <=> OnRecord(n))
  BY DEF Beside, Storage, OnRecord
<1>4. Turn(e, f)
  BY DEF Turn
<1>. QED
  BY <1>1, <1>2, <1>3, <1>4 DEF Fine, CustodyStep

(* The escalated entry.                                                     *)
LEMMA EscalatedTo ==
    ASSUME NEW t \in Trials, NEW m \in Table
    PROVE  /\ \A u \in Trials : u # t => Escalated(m, t)[u] = m[u]
           /\ Escalated(m, t)[t].phase = "attention_required"
           /\ Escalated(m, t)[t].outcome = m[t].outcome
           /\ SameJobs(m[t], Escalated(m, t)[t]) /\ Escalated(m, t)[t].pipe = m[t].pipe
BY DEF Escalated, SameJobs, Table, Entry

(* The engine asks for attention after an answer.                           *)
LEMMA EscalatedUp ==
    ASSUME IInv, EInv, ctl.pass # "raised", NEW t \in Trials,
           NEW m \in Table, Save(Escalated(m, t)),
           \A u \in Trials : u # t => m[u] = mem[u], m[t].outcome = mem[t].outcome,
           disk[t].phase \notin Decided,
           NEW s, site' = [site EXCEPT ![t] = s], Beside(site[t], s), s.work = site[t].work,
           Evidence(s, mem[t]), CallEvidence'
    PROVE  Upheld
<1> DEFINE n == Escalated(m, t)
<1>1. /\ \A u \in Trials : u # t => n[u] = mem[u]
      /\ n[t].phase = "attention_required" /\ n[t].outcome = mem[t].outcome
  BY EscalatedTo
<1>2. Saved(n, "running")
  BY DEF Save
<1> HIDE DEF n
<1>3. Evidence(s, n[t])
  BY <1>1, AttentionEvident
<1>4. disk[t].phase \in Phases \ Decided
  BY DEF IInv, TypeOK, Entry
<1>5. Fine(site[t], disk[t], s, n[t])
  BY <1>1, <1>4, AttentionFine
<1>. QED
  BY <1>1, <1>2, <1>3, <1>5, SavedUp

(* So it does when a workload cannot be configured.                         *)
LEMMA MisconfiguredUp ==
    ASSUME IInv, EInv, NEW t \in Trials, ctl.call = "none", ctl.pass \in Passes,
           mem[t].phase \notin Decided, Save(Escalated(mem, t)), UNCHANGED site,
           ctl' = [ctl EXCEPT !.at = t + 1]
    PROVE  Upheld
<1>1. /\ ctl.pass # "raised" /\ mem \in Table /\ ctl'.call = "none"
      /\ site' = [site EXCEPT ![t] = site[t]]
  BY DEF Passes, IInv, TypeOK, Table, Control
<1>2. Current(mem[t], disk[t]) /\ Evidence(site[t], disk[t])
  BY <1>1 DEF EInv, MemoryCurrent
<1>3. disk[t].phase \notin Decided
  BY <1>2 DEF Current, Lagged, Lagging, Decided
<1>4. Evidence(site[t], mem[t]) /\ CallEvidence'
  BY <1>1, <1>2, CurrentEvident, NoCallEvidence
<1>. QED
  BY <1>1, <1>3, <1>4, EscalatedUp DEF Beside

(* A submission is issued.                                                  *)
LEMMA BeginSubmitUp ==
    ASSUME IInv, EInv, NEW t \in Trials, BeginSubmit(t)
    PROVE  Upheld
<1>1. PICK p \in {"submit", "admit"} : Visits(p, t)
  BY DEF BeginSubmit
<1>2. /\ mem[t].phase \in {"submitting", "submission_retry_wait", "pending"}
      /\ mem[t].handle = NoJob /\ ctl.call = "none" /\ ctl.pass = p
  BY <1>1 DEF Visits, Due, Wants
<1>3. ctl.pass \in Passes /\ ctl.pass # "raised" /\ site' = site
  BY <1>2 DEF Passes, BeginSubmit
<1>4. CASE Submitting(t) /\ At(t, "submit")
  <2> DEFINE m == [mem EXCEPT ![t].phase = "submitting", ![t].sub = Charge(@, SubmissionMax)]
  <2>1. /\ \A u \in Trials : u # t => m[u] = mem[u]
        /\ m[t].phase = "submitting" /\ m[t].handle = mem[t].handle
    BY DEF IInv, TypeOK, Entry
  <2>2. Saved(m, "running")
    BY <1>4 DEF Submitting, Save
  <2> HIDE DEF m
  <2>3. Current(mem[t], disk[t]) /\ Evidence(site[t], disk[t])
    BY <1>3 DEF EInv, MemoryCurrent
  <2>4. Evidence(site[t], mem[t]) /\ Unlaunched(mem[t])
    BY <1>2, <2>3, CurrentEvident DEF Unlaunched
  <2>5. Evidence(site[t], m[t])
    BY <1>2, <2>1, <2>4
       DEF Evidence, Unlaunched, Lagging, Early, Gathering, Judged, Decided
  <2>6. Stage(disk[t]) \in {"waiting", "launching"} /\ disk[t].phase \notin Decided
    <3>1. CASE mem[t] = disk[t]
      BY <1>2, <3>1, Staged DEF Decided
    <3>2. CASE Lagged(mem[t], disk[t])
      BY <2>4, <3>2, Staged DEF Lagged, Unlaunched, Lagging, Decided
    <3>. QED
      BY <2>3, <3>1, <3>2 DEF Current
  <2>7. Fine(site[t], disk[t], site[t], m[t])
    <3>1. Stage(m[t]) = "launching"
      BY <2>1, Staged
    <3>. QED
      BY <2>6, <3>1 DEF Fine, CustodyStep, Turn
  <2>8. ctl'.call = "submit"
    BY <1>4, Visiting DEF IInv, TypeOK, Calls
  <2>9. site' = [site EXCEPT ![t] = site[t]]
    BY <1>3 DEF IInv, TypeOK
  <2>. QED
    BY <1>3, <2>1, <2>2, <2>5, <2>7, <2>8, <2>9, NoCallEvidence, SavedUp
<1>5. CASE Save(Escalated(mem, t)) /\ ctl' = [ctl EXCEPT !.at = t + 1]
  <2>1. mem[t].phase \notin Decided
    BY <1>2 DEF Decided
  <2>. QED
    BY <1>2, <1>3, <1>5, <2>1, MisconfiguredUp
<1>. QED
  BY <1>4, <1>5 DEF BeginSubmit

(* However a submission ends, it is a step of the custody.                  *)
LEMMA SubmitFine ==
    ASSUME NEW s \in Site, NEW e, e.phase = "submitting", Evidence(s, e),
           NEW r \in SubmitReplies(s),
           NEW f, f.outcome = e.outcome,
           f.phase \in {"submitting", "submitted", "submission_retry_wait", "attention_required"}
    PROVE  Evidence(r.site, f) /\ Fine(s, e, r.site, f)
<1>1. /\ s.copy = "none" /\ s.transfer = "none" /\ s.published = "none" /\ s.pvc # "released"
      /\ s.pvc # "bound" => LiveJobs(s) = {}
  BY DEF Evidence, Unlaunched, Lagging, Early
<1>2. /\ r.site.copy = s.copy /\ r.site.transfer = s.transfer
      /\ r.site.published = s.published
      /\ \/ r.site.pvc = s.pvc /\ r.site.work = s.work
         \/ s.pvc # "bound" /\ r.site.pvc = "bound" /\ r.site.work = "incomplete"
      /\ r.site.pvc # "bound" => r.site.jobs = s.jobs
  BY SubmitEvidence
<1>3. r.site.pvc # "bound" => LiveJobs(r.site) = {}
  <2>1. r.site.pvc # "bound" => r.site.jobs = s.jobs /\ s.pvc # "bound"
    BY <1>2
  <2>. QED
    BY <1>1, <2>1 DEF LiveJobs
<1>4. Evidence(r.site, f)
  BY <1>1, <1>2, <1>3 DEF Evidence, Unlaunched, Lagging, Early, Gathering, Judged, Decided
<1>5. Stage(e) = "launching" /\ Stage(f) \in {"launching", "executing", "stuck"}
  BY Staged
<1>6. s.pvc \in {"none", "bound", "lost"}
  BY <1>1 DEF Site, PvcStates
<1>7. CustodyStep(Stage(e), Stage(f), Storage(s), Storage(r.site), OnRecord(s), OnRecord(r.site))
  <2>1. CASE r.site.pvc = s.pvc /\ r.site.work = s.work
    <3>1. Storage(r.site) = Storage(s) /\ (OnRecord(s) <=> OnRecord(r.site))
      BY <1>2, <2>1 DEF Storage, OnRecord
    <3>. QED
      BY <1>5, <3>1 DEF CustodyStep, Custody!Stages
  <2>2. CASE s.pvc # "bound" /\ r.site.pvc = "bound" /\ r.site.work = "incomplete"
    <3>1. Storage(s) \in {"none", "lost"} /\ Storage(r.site) = "held" /\ ~OnRecord(r.site)
      BY <1>1, <1>2, <1>6, <2>2 DEF Storage, OnRecord
    <3>. QED
      BY <1>5, <3>1 DEF CustodyStep
  <2>. QED
    BY <1>2, <2>1, <2>2
<1>8. Turn(e, f)
  BY DEF Turn, Decided
<1>. QED
  BY <1>4, <1>7, <1>8 DEF Fine

(* The answer to a submission.                                              *)
LEMMA SubmitReturnsUp ==
    ASSUME IInv, EInv, NEW t \in Trials, SubmitReturns(t)
    PROVE  Upheld
<1>1. /\ ctl.call = "submit" /\ ctl.at = t /\ mem \in Table /\ ctl.pass # "raised"
      /\ mem = disk /\ mem[t].phase = "submitting" /\ site[t] \in Site
  BY DEF SubmitReturns, Calling, Passes, IInv, TypeOK, Table, LaunchSaved, LaunchCalls
<1>2. PICK r \in SubmitReplies(site[t]) :
        /\ Answered(t, r)
        /\ \/ /\ Save([mem EXCEPT ![t].handle = r.site.file, ![t].phase = "submitted"])
              /\ AfterSubmit("submitted")
           \/ Paused(mem)
           \/ Save(Escalated(mem, t)) /\ AfterSubmit("attention_required")
           \/ \E p \in {"submission_retry_wait", "attention_required"} :
                Save([mem EXCEPT ![t].phase = p]) /\ AfterSubmit(p)
  BY DEF SubmitReturns
<1>3. site' = [site EXCEPT ![t] = r.site] /\ Evidence(site[t], mem[t])
  BY <1>1, <1>2 DEF Answered, EInv
<1>4. ASSUME NEW m, Save(m), \A u \in Trials : u # t => m[u] = mem[u],
             m[t].outcome = mem[t].outcome, NEW p, AfterSubmit(p),
             m[t].phase \in {"submitted", "submission_retry_wait", "attention_required"}
      PROVE  Upheld
  <2>1. Evidence(r.site, m[t]) /\ Fine(site[t], mem[t], r.site, m[t])
    BY <1>1, <1>3, <1>4, SubmitFine
  <2>2. CallEvidence'
    BY <1>4, SubmitMoves, NoCallEvidence
  <2>3. Saved(m, "running")
    BY <1>4 DEF Save
  <2>. QED
    BY <1>1, <1>3, <1>4, <2>1, <2>2, <2>3, AgreedUp
<1>5. CASE /\ Save([mem EXCEPT ![t].handle = r.site.file, ![t].phase = "submitted"])
           /\ AfterSubmit("submitted")
  <2> DEFINE m == [mem EXCEPT ![t].handle = r.site.file, ![t].phase = "submitted"]
  <2>1. /\ \A u \in Trials : u # t => m[u] = mem[u]
        /\ m[t].phase = "submitted" /\ m[t].outcome = mem[t].outcome
    BY <1>1 DEF Table, Entry
  <2>2. Save(m)
    BY <1>5
  <2> HIDE DEF m
  <2>. QED
    BY <1>4, <1>5, <2>1, <2>2
<1>6. CASE Paused(mem)
  <2>1. Evidence(r.site, mem[t]) /\ Fine(site[t], disk[t], r.site, mem[t])
    BY <1>1, <1>3, SubmitFine
  <2>. QED
    BY <1>1, <1>3, <1>6, <2>1, PausedUp
<1>7. CASE Save(Escalated(mem, t)) /\ AfterSubmit("attention_required")
  BY <1>1, <1>4, <1>7, EscalatedTo
<1>8. ASSUME NEW p \in {"submission_retry_wait", "attention_required"},
             Save([mem EXCEPT ![t].phase = p]), AfterSubmit(p)
      PROVE  Upheld
  <2> DEFINE m == [mem EXCEPT ![t].phase = p]
  <2>1. /\ \A u \in Trials : u # t => m[u] = mem[u]
        /\ m[t].phase = p /\ m[t].outcome = mem[t].outcome
    BY <1>1 DEF Table, Entry
  <2>2. Save(m)
    BY <1>8
  <2> HIDE DEF m
  <2>. QED
    BY <1>4, <1>8, <2>1, <2>2
<1>. QED
  BY <1>2, <1>5, <1>6, <1>7, <1>8

(* A restart or a continuation keeps the contents; confirmed, its trial has
   no copy yet.                                                             *)
LEMMA RelaunchEvidence ==
    ASSUME NEW s \in Site, NEW e, NEW h, NEW kind, NEW n \in Nat,
           n >= 1 => <<kind, n>> \in JobNames,
           \/ e.phase = "infrastructure_retrying" /\ <<kind, n>> = Restarted(e.infra)
           \/ e.phase = "continuation_retrying" /\ <<kind, n>> = Continued(e.cont),
           Evidence(s, e), s.copy = "none",
           NEW r \in RestartReplies(s, h, kind, n), StartsOnly({<<kind, n>>}, s, r.site)
    PROVE  /\ Beside(s, r.site) /\ r.site.work = s.work
           /\ Evidence(r.site, e) /\ Fine(s, e, r.site, e)
           /\ \A f : r.res = "ok" /\ f.phase = "submitted" =>
                        Evidence(r.site, f) /\ Fine(s, e, r.site, f)
<1> DEFINE job == <<kind, n>>
<1>1. LiveJobs(s) \subseteq {job} /\ s.transfer = "none"
  BY DEF Evidence, Lagging, Early
<1>2. /\ Beside(s, r.site) /\ r.site.work = s.work
      /\ s.pvc # "bound" => r.site = s /\ r.res # "ok"
  BY <1>1, RestartEvidence
<1>3. LiveJobs(r.site) \subseteq {job}
  BY <1>1 DEF StartsOnly, LiveJobs
<1>4. Evidence(r.site, e)
  <2>1. CASE s.pvc # "bound"
    BY <1>2, <2>1
  <2>2. CASE s.pvc = "bound"
    BY <1>1, <1>2, <1>3, <2>2
       DEF Beside, Evidence, Unlaunched, Lagging, Early, Gathering, Judged, Decided
  <2>. QED
    BY <2>1, <2>2
<1>5. Storage(r.site) = Storage(s) /\ (OnRecord(s) <=> OnRecord(r.site))
  BY <1>2 DEF Beside, Storage, OnRecord
<1>6. Fine(s, e, r.site, e)
  BY <1>5 DEF Fine, CustodyStep, Turn
<1>7. ASSUME NEW f, r.res = "ok", f.phase = "submitted"
      PROVE  Evidence(r.site, f) /\ Fine(s, e, r.site, f)
  <2>1. s.pvc = "bound"
    BY <1>2, <1>7
  <2>2. Evidence(r.site, f)
    BY <1>1, <1>2, <1>7, <2>1
       DEF Beside, Evidence, Unlaunched, Lagging, Early, Gathering, Judged, Decided
  <2>3. Stage(e) = "executing" /\ Stage(f) = "executing"
    BY <1>7, Staged
  <2>4. Turn(e, f)
    BY DEF Turn, Decided
  <2>. QED
    BY <1>5, <2>2, <2>3, <2>4 DEF Fine, CustodyStep
<1>. QED
  BY <1>2, <1>4, <1>6, <1>7

(* An infrastructure restart.                                               *)
LEMMA BeginRestartUp ==
    ASSUME IInv, EInv, NEW t \in Trials, BeginRestart(t)
    PROVE  Upheld
<1>1. /\ ctl.pass = "restart" /\ ctl.call = "none" /\ UNCHANGED site
      /\ mem[t].phase = "infrastructure_retrying"
  BY DEF BeginRestart, Visits, Due, Wants
<1>2. CASE At(t, "restart") /\ UNCHANGED <<disk, mem, status>>
  <2>1. ctl'.call = "restart"
    BY <1>2, Visiting DEF IInv, TypeOK, Calls
  <2>2. ctl.pass # "raised" /\ mem' = mem
    BY <1>1, <1>2
  <2>3. \A u \in Trials : mem[u] = mem[u] \/ Current(mem[u], disk[u])
    OBVIOUS
  <2>. QED
    BY <1>1, <1>2, <2>1, <2>2, <2>3, NoCallEvidence, KeptUp
<1>3. CASE Save(Escalated(mem, t)) /\ ctl' = [ctl EXCEPT !.at = t + 1]
  <2>1. ctl.pass \in Passes /\ mem[t].phase \notin Decided
    BY <1>1 DEF Passes, Decided
  <2>. QED
    BY <1>1, <1>3, <2>1, MisconfiguredUp
<1>. QED
  BY <1>2, <1>3 DEF BeginRestart

(* A relaunch that is confirmed.                                            *)
LEMMA RelaunchedTo ==
    ASSUME NEW t \in Trials, mem \in Table, NEW job \in Handles
    PROVE  /\ \A u \in Trials : u # t => Relaunched(mem, t, job)[u] = mem[u]
           /\ Relaunched(mem, t, job)[t].phase = "submitted"
BY DEF Relaunched, Table, Entry

LEMMA RelaunchedUp ==
    ASSUME IInv, EInv, ctl.pass # "raised", NEW t \in Trials, mem = disk, NEW s \in Site,
           Save(Relaunched(mem, t, s.file)), site' = [site EXCEPT ![t] = s],
           \A f : f.phase = "submitted" => Evidence(s, f) /\ Fine(site[t], mem[t], s, f),
           ctl'.call = "none"
    PROVE  Upheld
<1> DEFINE m == Relaunched(mem, t, s.file)
<1>1. mem \in Table /\ s.file \in Handles
  BY DEF IInv, TypeOK, Table, Site
<1>2. /\ \A u \in Trials : u # t => m[u] = mem[u]
      /\ m[t].phase = "submitted"
  BY <1>1, RelaunchedTo
<1>3. Saved(m, "running")
  BY DEF Save
<1> HIDE DEF m
<1>4. Evidence(s, m[t]) /\ Fine(site[t], mem[t], s, m[t])
  BY <1>2
<1>. QED
  BY <1>2, <1>3, <1>4, NoCallEvidence, AgreedUp

(* A restart that is under way.                                             *)
LEMMA RestartAnswered ==
    ASSUME IInv, EInv, NEW t \in Trials, ctl.call = "restart", ctl.at = t,
           NEW r \in RestartReplies(site[t], mem[t].handle, "restart", mem[t].infra)
    PROVE  /\ r \in Replies(t) /\ r.site \in Site /\ site[t].copy = "none"
           /\ site[t].transfer = "none" /\ site[t].pvc # "released"
           /\ Beside(site[t], r.site) /\ r.site.work = site[t].work
           /\ Evidence(r.site, mem[t]) /\ Fine(site[t], mem[t], r.site, mem[t])
           /\ \A f : r.res = "ok" /\ f.phase = "submitted" =>
                        Evidence(r.site, f) /\ Fine(site[t], mem[t], r.site, f)
<1>1. /\ mem = disk /\ mem[t].phase = "infrastructure_retrying"
      /\ site[t] \in Site /\ mem[t] \in Entry /\ Evidence(site[t], mem[t])
  BY DEF IInv, TypeOK, LaunchSaved, LaunchCalls, EInv
<1>2. r \in Replies(t)
  BY DEF Replies
<1>3. r.site \in Site /\ StartsOnly({Restarted(mem[t].infra)}, site[t], r.site)
  <2>1. Faithful(Authorized(disk[t]), site[t], Replies(t))
    BY RepliesFaithful DEF LaunchCalls
  <2>. QED
    BY <1>1, <1>2, <2>1 DEF Faithful, Authorized
<1>4. site[t].copy = "none" /\ site[t].transfer = "none" /\ site[t].pvc # "released"
  BY <1>1 DEF Evidence, Lagging, Early
<1> DEFINE e == mem[t]
           n == e.infra
<1>5. /\ n \in Nat /\ (n >= 1 => <<"restart", n>> \in JobNames)
      /\ \/ e.phase = "infrastructure_retrying" /\ <<"restart", n>> = Restarted(e.infra)
         \/ e.phase = "continuation_retrying" /\ <<"restart", n>> = Continued(e.cont)
      /\ StartsOnly({<<"restart", n>>}, site[t], r.site)
  BY <1>1, <1>3, GenerationNamed DEF Restarted
<1>6. r \in RestartReplies(site[t], e.handle, "restart", n)
  OBVIOUS
<1> HIDE DEF n, e
<1>7. site[t] \in Site /\ Evidence(site[t], e) /\ site[t].copy = "none"
  BY <1>1, <1>4 DEF e
<1>8. /\ Beside(site[t], r.site) /\ r.site.work = site[t].work
      /\ Evidence(r.site, e) /\ Fine(site[t], e, r.site, e)
      /\ \A f : r.res = "ok" /\ f.phase = "submitted" =>
                      Evidence(r.site, f) /\ Fine(site[t], e, r.site, f)
  BY <1>5, <1>6, <1>7, RelaunchEvidence
<1>. QED
  BY <1>2, <1>3, <1>4, <1>8 DEF e

(* The answer to a restart.                                                 *)
LEMMA RestartReturnsUp ==
    ASSUME IInv, WInv, EInv, NEW t \in Trials, RestartReturns(t)
    PROVE  Upheld
<1>1. /\ ctl.call = "restart" /\ ctl.at = t /\ mem \in Table /\ ctl \in Control
      /\ ctl.pass # "raised" /\ mem = disk /\ mem[t].phase = "infrastructure_retrying"
      /\ site[t] \in Site /\ mem[t] \in Entry /\ Evidence(site[t], mem[t])
  BY DEF RestartReturns, Calling, Passes, IInv, TypeOK, Table, LaunchSaved, LaunchCalls, EInv
<1>2. PICK r \in RestartReplies(site[t], mem[t].handle, "restart", mem[t].infra) :
        /\ Answered(t, r)
        /\ \/ r.res = "ok" /\ Save(Relaunched(mem, t, r.site.file)) /\ NextTrial
           \/ Paused(mem)
           \/ /\ r.res = "error"
              /\ Save(Escalated(mem, t))
              /\ IF ctl.pass = "reconcile" THEN Issue("logs") ELSE NextTrial
  BY DEF RestartReturns
<1>4. site' = [site EXCEPT ![t] = r.site]
  BY <1>2 DEF Answered
<1>7. /\ r \in Replies(t) /\ r.site \in Site /\ site[t].copy = "none"
      /\ site[t].transfer = "none" /\ site[t].pvc # "released"
      /\ Beside(site[t], r.site) /\ r.site.work = site[t].work
      /\ Evidence(r.site, mem[t]) /\ Fine(site[t], mem[t], r.site, mem[t])
      /\ \A f : r.res = "ok" /\ f.phase = "submitted" =>
                        Evidence(r.site, f) /\ Fine(site[t], mem[t], r.site, f)
  BY <1>1, <1>2, RestartAnswered
<1>8. CASE r.res = "ok" /\ Save(Relaunched(mem, t, r.site.file)) /\ NextTrial
  <2>1. ctl'.call = "none"
    BY <1>1, <1>8, Moves
  <2>2. \A f : f.phase = "submitted" => Evidence(r.site, f) /\ Fine(site[t], mem[t], r.site, f)
    BY <1>7, <1>8
  <2>. QED
    BY <1>1, <1>4, <1>7, <1>8, <2>1, <2>2, RelaunchedUp
<1>9. CASE Paused(mem)
  BY <1>1, <1>4, <1>7, <1>9, PausedUp
<1>10. CASE /\ r.res = "error"
            /\ Save(Escalated(mem, t))
            /\ IF ctl.pass = "reconcile" THEN Issue("logs") ELSE NextTrial
  <2>1. CallEvidence'
    <3>1. CASE NextTrial
      BY <1>1, <3>1, Moves, NoCallEvidence
    <3>2. CASE ctl.pass = "reconcile" /\ Issue("logs")
      <4>1. ctl'.call = "logs" /\ ctl'.at = t
        BY <1>1, <3>2, Moves DEF Calls
      <4>2. LiveJobs(site[t]) = {}
        BY <1>1, <3>2 DEF WInv, CallTracks
      <4>3. StartsOnly({}, site[t], r.site)
        BY <1>1, <1>7, <1>10, LaunchTracks DEF LaunchCalls
      <4>4. LiveJobs(r.site) = {}
        BY <4>2, <4>3, Quieter
      <4>5. mem'[t].phase = "attention_required" /\ disk'[t].phase = "attention_required"
        BY <1>1, <1>10, EscalatedTo DEF Save, Saved
      <4>6. /\ site'[t] = r.site /\ r.site.copy = "none" /\ r.site.transfer = "none"
            /\ r.site.pvc # "released"
        BY <1>4, <1>7 DEF Beside, IInv, TypeOK
      <4>. QED
        BY <4>1, <4>4, <4>5, <4>6 DEF CallEvidence, Unlaunched
    <3>. QED
      BY <1>10, <3>1, <3>2
  <2>2. disk[t].phase \notin Decided
    BY <1>1 DEF Decided
  <2>. QED
    BY <1>1, <1>4, <1>7, <1>10, <2>1, <2>2, EscalatedUp
<1>. QED
  BY <1>2, <1>8, <1>9, <1>10

(* A continuation discards the collected copy first.                        *)
LEMMA BeginContinueUp ==
    ASSUME IInv, EInv, NEW t \in Trials, BeginContinue(t)
    PROVE  Upheld
<1>1. /\ ctl.pass = "continue" /\ ctl.call = "none" /\ ctl.pass # "raised"
      /\ mem[t].phase = "continuation_retrying" /\ site[t] \in Site
  BY DEF BeginContinue, Visits, Due, Wants, IInv, TypeOK
<1>2. mem[t] = disk[t] /\ Evidence(site[t], disk[t])
  BY <1>1, Agreed DEF EInv, Lagging
<1>3. CASE /\ site' = [site EXCEPT ![t] = Discarded(@)]
           /\ At(t, "continue")
           /\ UNCHANGED <<disk, mem, status>>
  <2> DEFINE n == Discarded(site[t])
  <2>1. /\ n.copy = "none" /\ n.jobs = site[t].jobs /\ n.pvc = site[t].pvc
        /\ n.transfer = site[t].transfer /\ n.published = site[t].published
        /\ n.work = site[t].work
    BY <1>1 DEF Discarded, Site
  <2>2. site' = [site EXCEPT ![t] = n]
    BY <1>3
  <2> HIDE DEF n
  <2>3. LiveJobs(n) = LiveJobs(site[t])
    BY <2>1 DEF LiveJobs
  <2>4. Evidence(n, disk[t])
    BY <1>1, <1>2, <2>1, <2>3
       DEF Evidence, Unlaunched, Lagging, Early, Gathering, Judged, Decided
  <2>5. Fine(site[t], disk[t], n, disk[t])
    BY <2>1 DEF Fine, CustodyStep, Turn, Storage, OnRecord
  <2>6. ctl'.call = "continue" /\ ctl'.at = t
    BY <1>3, Visiting DEF IInv, TypeOK, Calls
  <2>7. CallEvidence'
    <3>1. site'[t].copy = "none"
      BY <2>1, <2>2 DEF IInv, TypeOK
    <3>. QED
      BY <2>6, <3>1 DEF CallEvidence
  <2>. QED
    BY <1>1, <1>3, <2>2, <2>4, <2>5, <2>7, SiteUp
<1>4. CASE Raised(mem) /\ UNCHANGED site
  <2>1. /\ ctl'.call = "none" /\ ctl'.pass = "raised" /\ UNCHANGED <<disk, mem>>
        /\ site' = [site EXCEPT ![t] = site[t]]
    BY <1>4, IdleTyped DEF Raised, Keep, IInv, TypeOK
  <2>2. Fine(site[t], disk[t], site[t], disk[t])
    BY CurrentFine DEF Current
  <2>. QED
    BY <1>2, <2>1, <2>2, NoCallEvidence, SiteUp
<1>. QED
  BY <1>3, <1>4 DEF BeginContinue

(* A continuation that is under way.                                        *)
LEMMA ContinueAnswered ==
    ASSUME IInv, EInv, NEW t \in Trials, ctl.call = "continue", ctl.at = t,
           NEW r \in RestartReplies(site[t], mem[t].handle, "continuation", mem[t].cont)
    PROVE  /\ r \in Replies(t) /\ r.site \in Site
           /\ Beside(site[t], r.site) /\ r.site.work = site[t].work
           /\ Evidence(r.site, mem[t]) /\ Fine(site[t], mem[t], r.site, mem[t])
           /\ \A f : r.res = "ok" /\ f.phase = "submitted" =>
                        Evidence(r.site, f) /\ Fine(site[t], mem[t], r.site, f)
<1>1. /\ mem = disk /\ mem[t].phase = "continuation_retrying"
      /\ site[t] \in Site /\ mem[t] \in Entry /\ Evidence(site[t], mem[t])
  BY DEF IInv, TypeOK, LaunchSaved, LaunchCalls, EInv
<1>2. r \in Replies(t)
  BY DEF Replies
<1>3. r.site \in Site /\ StartsOnly({Continued(mem[t].cont)}, site[t], r.site)
  <2>1. Faithful(Authorized(disk[t]), site[t], Replies(t))
    BY RepliesFaithful DEF LaunchCalls
  <2>. QED
    BY <1>1, <1>2, <2>1 DEF Faithful, Authorized
<1>4. site[t].copy = "none"
  BY DEF EInv, CallEvidence
<1> DEFINE e == mem[t]
           n == e.cont
<1>5. /\ n \in Nat /\ (n >= 1 => <<"continuation", n>> \in JobNames)
      /\ \/ e.phase = "infrastructure_retrying" /\ <<"continuation", n>> = Restarted(e.infra)
         \/ e.phase = "continuation_retrying" /\ <<"continuation", n>> = Continued(e.cont)
      /\ StartsOnly({<<"continuation", n>>}, site[t], r.site)
  BY <1>1, <1>3, GenerationNamed DEF Continued
<1>6. r \in RestartReplies(site[t], e.handle, "continuation", n)
  OBVIOUS
<1> HIDE DEF n, e
<1>7. site[t] \in Site /\ Evidence(site[t], e) /\ site[t].copy = "none"
  BY <1>1, <1>4 DEF e
<1>8. /\ Beside(site[t], r.site) /\ r.site.work = site[t].work
      /\ Evidence(r.site, e) /\ Fine(site[t], e, r.site, e)
      /\ \A f : r.res = "ok" /\ f.phase = "submitted" =>
                      Evidence(r.site, f) /\ Fine(site[t], e, r.site, f)
  BY <1>5, <1>6, <1>7, RelaunchEvidence
<1>. QED
  BY <1>2, <1>3, <1>8 DEF e

(* The answer to a continuation.                                            *)
LEMMA ContinueReturnsUp ==
    ASSUME IInv, EInv, NEW t \in Trials, ContinueReturns(t)
    PROVE  Upheld
<1>1. /\ ctl.call = "continue" /\ ctl.at = t /\ mem \in Table /\ ctl \in Control
      /\ ctl.pass # "raised" /\ mem = disk /\ mem[t].phase = "continuation_retrying"
      /\ site[t] \in Site /\ mem[t] \in Entry /\ Evidence(site[t], mem[t])
  BY DEF ContinueReturns, Calling, Passes, IInv, TypeOK, Table, LaunchSaved, LaunchCalls, EInv
<1>2. PICK r \in RestartReplies(site[t], mem[t].handle, "continuation", mem[t].cont) :
        /\ Answered(t, r)
        /\ \/ r.res = "ok" /\ Save(Relaunched(mem, t, r.site.file)) /\ NextTrial
           \/ Paused(mem)
           \/ Save(Escalated(mem, t)) /\ NextTrial
  BY DEF ContinueReturns
<1>4. site' = [site EXCEPT ![t] = r.site]
  BY <1>2 DEF Answered
<1>7. /\ r \in Replies(t) /\ r.site \in Site
      /\ Beside(site[t], r.site) /\ r.site.work = site[t].work
      /\ Evidence(r.site, mem[t]) /\ Fine(site[t], mem[t], r.site, mem[t])
      /\ \A f : r.res = "ok" /\ f.phase = "submitted" =>
                        Evidence(r.site, f) /\ Fine(site[t], mem[t], r.site, f)
  BY <1>1, <1>2, ContinueAnswered
<1>8. CASE r.res = "ok" /\ Save(Relaunched(mem, t, r.site.file)) /\ NextTrial
  <2>1. ctl'.call = "none"
    BY <1>1, <1>8, Moves
  <2>2. \A f : f.phase = "submitted" => Evidence(r.site, f) /\ Fine(site[t], mem[t], r.site, f)
    BY <1>7, <1>8
  <2>. QED
    BY <1>1, <1>4, <1>7, <1>8, <2>1, <2>2, RelaunchedUp
<1>9. CASE Paused(mem)
  BY <1>1, <1>4, <1>7, <1>9, PausedUp
<1>10. CASE Save(Escalated(mem, t)) /\ NextTrial
  <2>1. CallEvidence'
    BY <1>1, <1>10, Moves, NoCallEvidence
  <2>2. disk[t].phase \notin Decided
    BY <1>1 DEF Decided
  <2>. QED
    BY <1>1, <1>4, <1>7, <1>10, <2>1, <2>2, EscalatedUp
<1>. QED
  BY <1>2, <1>8, <1>9, <1>10

-----------------------------------------------------------------------------
(* The reconciliation of a trial with a workload.                           *)

(* A workload that is inspected belongs to a trial that executes.           *)
LEMMA Executing ==
    ASSUME EInv, ctl.pass # "raised", NEW t \in Trials,
           mem[t].phase \in Lagging, ~Unlaunched(mem[t])
    PROVE  /\ Stage(mem[t]) = "executing" /\ Stage(disk[t]) = "executing"
           /\ disk[t].phase \in Lagging /\ ~Unlaunched(disk[t]) /\ disk[t].phase \notin Decided
           /\ SameJobs(disk[t], mem[t]) /\ mem[t].pipe = disk[t].pipe
           /\ mem[t].outcome = disk[t].outcome /\ Current(mem[t], disk[t])
           /\ Evidence(site[t], mem[t]) /\ Evidence(site[t], disk[t])
           /\ site[t].copy = "none" /\ site[t].transfer = "none" /\ site[t].pvc # "released"
<1>1. Current(mem[t], disk[t]) /\ Evidence(site[t], disk[t])
  BY DEF EInv, MemoryCurrent
<1>2. Evidence(site[t], mem[t])
  BY <1>1, CurrentEvident
<1>3. /\ disk[t].phase \in Lagging /\ ~Unlaunched(disk[t])
      /\ SameJobs(disk[t], mem[t]) /\ mem[t].pipe = disk[t].pipe
      /\ mem[t].outcome = disk[t].outcome
  BY <1>1 DEF Current, Lagged, Lagging, SameJobs
<1>4. site[t].copy = "none" /\ site[t].transfer = "none" /\ site[t].pvc # "released"
  BY <1>1, <1>3 DEF Evidence, Lagging, Early
<1>5. \A e : e.phase \in Lagging /\ ~Unlaunched(e) => Stage(e) = "executing"
  BY Staged DEF Lagging, Unlaunched
<1>6. disk[t].phase \notin Decided
  BY <1>3 DEF Lagging, Decided
<1>. QED
  BY <1>1, <1>2, <1>3, <1>4, <1>5, <1>6

(* An inspection is issued.                                                 *)
LEMMA BeginInspectUp ==
    ASSUME IInv, EInv, NEW t \in Trials, BeginInspect(t)
    PROVE  Upheld
<1>1. /\ Visits("reconcile", t) /\ At(t, "inspect") /\ UNCHANGED <<disk, mem, site>>
      /\ ctl.pass # "raised"
  BY DEF BeginInspect, Visits
<1>2. mem[t].phase \in Lagging /\ ~Unlaunched(mem[t])
  BY <1>1 DEF BeginInspect, Visits, Due, Wants, Lagging, Unlaunched
<1>3. ctl'.call = "inspect" /\ ctl'.at = t
  BY <1>1, Visiting DEF IInv, TypeOK, Calls
<1>4. CallEvidence'
  BY <1>1, <1>2, <1>3 DEF CallEvidence
<1>5. mem' = mem
  BY <1>1
<1>. QED
  BY <1>1, <1>4, <1>5, KeptUp

(* A workload that has ended, and one that runs.                            *)
LEMMA ObservedJob ==
    ASSUME NEW s, NEW h, LiveJobs(s) \subseteq {h}, NEW r \in InspectReplies(s, h)
    PROVE  /\ r.res \in {"succeeded", "failed", "retryable"} => LiveJobs(s) = {}
           /\ r.res \in {"pending", "running"} => h \in JobNames
<1>1. r.res \in {"lost", "error"} \/ r.res \in Observed(s, h)
  BY DEF InspectReplies, Broken, Unanswered, Refused, Reply
<1>2. r.res \in {"succeeded", "failed", "retryable"} => h \notin JobNames \/ s.jobs[h] # "active"
  BY <1>1 DEF Observed
<1>3. r.res \in {"pending", "running"} => h \in JobNames
  BY <1>1 DEF Observed
<1>. QED
  BY <1>2, <1>3 DEF LiveJobs

(* What an inspection finds.                                                *)
LEMMA InspectReturnsUp ==
    ASSUME IInv, WInv, EInv, NEW t \in Trials, InspectReturns(t)
    PROVE  Upheld
<1> DEFINE Seen(r) == [mem EXCEPT ![t].live = r \in {"pending", "running"}]
           Ended(c) == \E e \in Endings : ctl' = [ctl EXCEPT !.call = c, !.seen = e]
           Generation(m) == [m EXCEPT ![t].infra = @ + 1, ![t].phase = "infrastructure_retrying"]
           Over == {"succeeded", "failed", "retryable"}
           s == site[t]
           d == disk[t]
           e == mem[t]
<1>1. /\ ctl.call = "inspect" /\ ctl.pass # "raised" /\ ctl.at = t /\ UNCHANGED site
      /\ mem \in Table /\ ctl \in Control /\ site' = [site EXCEPT ![t] = s]
  BY DEF InspectReturns, Calling, Passes, IInv, TypeOK, Table
<1>2. LiveJobs(s) \subseteq {e.handle}
  BY <1>1, InCall DEF HandleCalls
<1>3. PICK q \in InspectReplies(site[t], mem[t].handle) :
        \/ Paused(mem)
        \/ Keep(Escalated(mem, t)) /\ NextTrial
        \/ /\ q.res \in {"pending", "running"}
           /\ Keep([Seen(q.res) EXCEPT ![t].phase = q.res])
           /\ NextTrial \/ Issue("terminate")
        \/ /\ q.res \in Over
           /\ Save(Generation(Seen(q.res))) /\ Ended("restart")
        \/ q.res \in Over /\ Save(Escalated(Seen(q.res), t)) /\ Ended("logs")
        \/ q.res \in Over /\ Keep(Seen(q.res)) /\ Ended("logs")
  BY DEF InspectReturns, Endings
<1>4. e.phase \in Lagging /\ ~Unlaunched(e)
  BY <1>1 DEF EInv, CallEvidence
<1>5. /\ Stage(d) = "executing"
      /\ d.phase \in Lagging /\ ~Unlaunched(d) /\ d.phase \notin Decided
      /\ SameJobs(d, e) /\ e.pipe = d.pipe
      /\ e.outcome = d.outcome /\ Current(e, d)
      /\ Evidence(s, e) /\ Evidence(s, d)
      /\ s.copy = "none" /\ s.transfer = "none" /\ s.pvc # "released"
  BY <1>1, <1>4, Executing
<1> DEFINE r == q.res
           n == Seen(r)
<1>6. /\ r \in Over => LiveJobs(s) = {}
      /\ r \in {"pending", "running"} => e.handle # NoJob
  BY <1>2, ObservedJob, NamesDiffer
<1>7. /\ \A u \in Trials : u # t => n[u] = mem[u]
      /\ SameJobs(e, n[t]) /\ n[t].phase = e.phase /\ n[t].pipe = e.pipe
      /\ n[t].outcome = e.outcome
  BY <1>1 DEF Table, Entry, SameJobs
<1>8. n \in Table
  <2>1. \A l \in BOOLEAN : [mem EXCEPT ![t].live = l] \in Table
    BY <1>1, OneField DEF Table
  <2>2. (r \in {"pending", "running"}) \in BOOLEAN
    OBVIOUS
  <2>. QED
    BY <2>1, <2>2, Zenon
<1>9. ASSUME NEW m, SameJobs(e, m), m.pipe = e.pipe, m.outcome = e.outcome,
             m.phase \in Lagging \cup {"attention_required"}, ~Unlaunched(m)
      PROVE  Current(m, d)
  <2> HIDE DEF d, e
  <2>. QED
    BY <1>5, <1>9 DEF Current, Lagged, SameJobs
<1>10. ASSUME Ended("logs"), r \in Over, mem'[t].phase \in Lagging \cup {"attention_required"},
              ~Unlaunched(disk'[t])
       PROVE  CallEvidence'
  <2>1. ctl'.call = "logs" /\ ctl'.at = t
    BY <1>1, <1>10 DEF Control
  <2>. QED
    BY <1>1, <1>5, <1>6, <1>10, <2>1 DEF CallEvidence
<1>11. CASE Paused(mem)
  BY <1>1, <1>11, PausedStill
<1>12. CASE Keep(Escalated(mem, t)) /\ NextTrial
  <2> DEFINE m == Escalated(mem, t)
  <2>1. /\ \A u \in Trials : u # t => m[u] = mem[u]
        /\ m[t].phase = "attention_required" /\ m[t].outcome = e.outcome
        /\ SameJobs(e, m[t]) /\ m[t].pipe = e.pipe
    BY <1>1, EscalatedTo
  <2>2. mem' = m /\ disk' = disk
    BY <1>12 DEF Keep
  <2> HIDE DEF m
  <2>3. Current(m[t], d)
    BY <1>9, <2>1 DEF Unlaunched
  <2>4. CallEvidence'
    BY <1>1, <1>12, Moves, NoCallEvidence
  <2>. QED
    BY <1>1, <2>1, <2>2, <2>3, <2>4, KeptUp
<1>13. CASE /\ r \in {"pending", "running"}
            /\ Keep([n EXCEPT ![t].phase = r])
            /\ NextTrial \/ Issue("terminate")
  <2> DEFINE m == [n EXCEPT ![t].phase = r]
  <2>1. mem' = m /\ disk' = disk
    BY <1>13 DEF Keep
  <2> HIDE DEF n
  <2>2. /\ \A u \in Trials : u # t => m[u] = mem[u]
        /\ SameJobs(e, m[t]) /\ m[t].phase = r /\ m[t].pipe = e.pipe
        /\ m[t].outcome = e.outcome
    BY <1>7, <1>8 DEF Table, Entry, SameJobs
  <2> HIDE DEF m
  <2>3. m[t].phase \in Lagging /\ ~Unlaunched(m[t])
    BY <1>6, <1>13, <2>2 DEF Lagging, SameJobs, Unlaunched
  <2>4. Current(m[t], d)
    BY <1>9, <2>2, <2>3
  <2>5. CallEvidence'
    <3>1. CASE NextTrial
      BY <1>1, <3>1, Moves, NoCallEvidence
    <3>2. CASE Issue("terminate")
      <4>1. ctl'.call = "terminate" /\ ctl'.at = t
        BY <1>1, <3>2, Moves DEF Calls
      <4>. QED
        BY <2>1, <2>3, <4>1 DEF CallEvidence
    <3>. QED
      BY <1>13, <3>1, <3>2
  <2>. QED
    BY <1>1, <2>1, <2>2, <2>4, <2>5, KeptUp
<1>14. CASE r \in Over /\ Save(Generation(n)) /\ Ended("restart")
  <2> DEFINE m == Generation(n)
  <2>1. Saved(m, "running")
    BY <1>14 DEF Save
  <2> HIDE DEF n
  <2>2. /\ \A u \in Trials : u # t => m[u] = mem[u]
        /\ m[t].phase = "infrastructure_retrying"
    BY <1>7, <1>8 DEF Table, Entry
  <2> HIDE DEF m
  <2>3. LiveJobs(s) = {}
    BY <1>6, <1>14
  <2>4. Evidence(s, m[t])
    <3> HIDE DEF s
    <3>. QED
      BY <1>5, <2>2, <2>3 DEF Evidence, Unlaunched, Lagging, Early, Gathering, Judged, Decided
  <2>5. Fine(s, d, s, m[t])
    <3>1. Stage(m[t]) = "executing"
      BY <2>2, Staged
    <3>. QED
      BY <1>5, <3>1 DEF Fine, CustodyStep, Turn
  <2>6. ctl'.call = "restart"
    BY <1>1, <1>14 DEF Control
  <2>. QED
    BY <1>1, <2>1, <2>2, <2>4, <2>5, <2>6, NoCallEvidence, SavedUp
<1>15. CASE r \in Over /\ Save(Escalated(n, t)) /\ Ended("logs")
  <2>1. Save(Escalated(n, t))
    BY <1>15
  <2> HIDE DEF n
  <2>2. mem'[t].phase = "attention_required" /\ disk'[t].phase = "attention_required"
    BY <1>8, <2>1, EscalatedTo DEF Save, Saved
  <2>3. CallEvidence'
    BY <1>10, <1>15, <2>2 DEF Unlaunched
  <2>. QED
    BY <1>1, <1>5, <1>7, <1>8, <2>1, <2>3, EscalatedUp DEF Beside
<1>16. CASE r \in Over /\ Keep(n) /\ Ended("logs")
  <2>1. mem' = n /\ disk' = disk
    BY <1>16 DEF Keep
  <2> HIDE DEF n
  <2>2. n[t].phase \in Lagging /\ ~Unlaunched(n[t])
    BY <1>4, <1>7 DEF SameJobs, Unlaunched
  <2>3. Current(n[t], d)
    BY <1>7, <1>9, <2>2
  <2>4. CallEvidence'
    BY <1>5, <1>10, <1>16, <2>1, <2>2
  <2>. QED
    BY <1>1, <1>7, <2>1, <2>3, <2>4, KeptUp
<1>. QED
  BY <1>3, <1>11, <1>12, <1>13, <1>14, <1>15, <1>16

(* The deadline.                                                            *)
LEMMA TerminateReturnsUp ==
    ASSUME IInv, WInv, EInv, NEW t \in Trials, TerminateReturns(t)
    PROVE  Upheld
<1> DEFINE Overdue(p) == [mem EXCEPT ![t].live = FALSE, ![t].backend = "failed",
                                     ![t].phase = p]
           s == site[t]
           d == disk[t]
           e == mem[t]
<1>1. /\ ctl.at = t /\ ctl.call = "terminate" /\ ctl.pass # "raised"
      /\ mem \in Table /\ ctl \in Control /\ s \in Site
  BY DEF TerminateReturns, Calling, Passes, IInv, TypeOK, Table
<1>2. LiveJobs(s) \subseteq {e.handle}
  BY <1>1, InCall DEF HandleCalls
<1>3. PICK r \in TerminateReplies(s, e.handle) :
        /\ Answered(t, r)
        /\ \/ /\ r.res = "ok"
              /\ \E p \in {"infrastructure_retrying", "collection_pending"} : Save(Overdue(p))
              /\ NextTrial
           \/ Paused(mem)
           \/ r.res = "error" /\ Save(Escalated(mem, t)) /\ NextTrial
  BY DEF TerminateReturns
<1>4. e.phase \in Lagging /\ ~Unlaunched(e)
  BY <1>1 DEF EInv, CallEvidence
<1>5. /\ Stage(e) = "executing" /\ Stage(d) = "executing" /\ d.phase \notin Decided
      /\ e.outcome = d.outcome /\ Evidence(s, e)
      /\ s.copy = "none" /\ s.transfer = "none" /\ s.pvc # "released"
  BY <1>1, <1>4, Executing
<1> DEFINE c == r.site
<1>6. /\ c = s \/ c \in Deleted(s, e.handle)
      /\ r.res = "ok" => c \in Deleted(s, e.handle)
      /\ r.res = "error" => c = s
      /\ Beside(s, c) /\ site' = [site EXCEPT ![t] = c]
  BY <1>1, <1>3, TerminateEvidence DEF Answered
<1>7. LiveJobs(c) \subseteq LiveJobs(s)
  BY <1>1, <1>6, DeletedFaithful, Quieter
<1>8. LiveJobs(s) = {} => c.work = s.work
  BY <1>1, <1>6, DeletedEvidence
<1>9. s.pvc # "bound" => LiveJobs(s) = {}
  BY <1>5 DEF Evidence
<1>10. ASSUME NEW f, f.outcome = e.outcome, Stage(f) \in {"executing", "collecting"}
       PROVE  Fine(s, d, c, f)
  <2>1. Storage(c) = Storage(s)
    BY <1>6 DEF Beside, Storage
  <2>2. CASE LiveJobs(s) = {}
    <3>1. OnRecord(s) <=> OnRecord(c)
      BY <1>6, <1>8, <2>2 DEF Beside, OnRecord
    <3>. QED
      BY <1>5, <1>10, <2>1, <3>1 DEF Fine, CustodyStep, Turn
  <2>3. CASE LiveJobs(s) # {}
    <3>1. Storage(s) = "held"
      BY <1>9, <2>3 DEF Storage
    <3>. QED
      BY <1>5, <1>10, <2>1, <3>1 DEF Fine, CustodyStep, Turn
  <2>. QED
    BY <2>2, <2>3
<1>11. ASSUME NEW p \in {"infrastructure_retrying", "collection_pending"},
              r.res = "ok", Save(Overdue(p)), NextTrial
       PROVE  Upheld
  <2> DEFINE m == Overdue(p)
  <2>1. /\ \A u \in Trials : u # t => m[u] = mem[u]
        /\ m[t].phase = p /\ m[t].outcome = e.outcome
    BY <1>1 DEF Table, Entry
  <2>2. Saved(m, "running")
    BY <1>11 DEF Save
  <2> HIDE DEF m
  <2>3. LiveJobs(c) = {}
    BY <1>1, <1>2, <1>6, <1>11, DeletedEmpty
  <2>4. Evidence(c, m[t])
    <3> HIDE DEF c, s
    <3>. QED
      BY <1>5, <1>6, <2>1, <2>3
         DEF Beside, Evidence, Unlaunched, Lagging, Early, Gathering, Judged, Decided
  <2>5. Fine(s, d, c, m[t])
    <3>1. Stage(m[t]) \in {"executing", "collecting"}
      BY <2>1, Staged
    <3>. QED
      BY <1>10, <2>1, <3>1
  <2>6. CallEvidence'
    BY <1>1, <1>11, Moves, NoCallEvidence
  <2>. QED
    BY <1>1, <1>6, <2>1, <2>2, <2>4, <2>5, <2>6, SavedUp
<1>12. CASE Paused(mem)
  <2>1. Evidence(c, e)
    <3> HIDE DEF c, s, e
    <3>. QED
      BY <1>4, <1>5, <1>6, <1>7, <1>9
         DEF Beside, Evidence, Unlaunched, Lagging, Early, Gathering, Judged, Decided
  <2>2. Fine(s, d, c, e)
    BY <1>5, <1>10
  <2>. QED
    BY <1>1, <1>6, <1>12, <2>1, <2>2, PausedUp
<1>13. CASE r.res = "error" /\ Save(Escalated(mem, t)) /\ NextTrial
  <2>1. CallEvidence'
    BY <1>1, <1>13, Moves, NoCallEvidence
  <2>2. Beside(site[t], c) /\ c.work = site[t].work /\ Evidence(c, mem[t])
    BY <1>5, <1>6, <1>13
  <2>3. Save(Escalated(mem, t))
    BY <1>13
  <2>. QED
    BY <1>1, <1>5, <1>6, <2>1, <2>2, <2>3, EscalatedUp
<1> HIDE DEF Overdue
<1>. QED
  BY <1>3, <1>11, <1>12, <1>13

(* A collection is asked for, of a trial without a workload.                *)
LEMMA CollectingUp ==
    ASSUME IInv, EInv, ctl.pass # "raised", NEW t \in Trials, NEW b, Collecting(t, b),
           UNCHANGED site, LiveJobs(site[t]) = {}, site[t].pvc # "released",
           site[t].copy \in {"none", site[t].work}, disk[t].phase \notin Decided,
           Stage(disk[t]) \in {"executing", "collecting", "stuck"}
    PROVE  Upheld
<1> DEFINE m == [mem EXCEPT ![t].phase = "collecting", ![t].backend = b]
<1>1. mem \in Table /\ ctl \in Control /\ site' = [site EXCEPT ![t] = site[t]]
  BY DEF IInv, TypeOK, Table
<1>2. /\ \A u \in Trials : u # t => m[u] = mem[u]
      /\ m[t].phase = "collecting"
  BY <1>1 DEF Table, Entry
<1>3. Saved(m, "running")
  BY DEF Collecting, Save
<1> HIDE DEF m
<1>4. Evidence(site[t], m[t])
  BY <1>2 DEF Evidence, Unlaunched, Lagging, Early, Gathering, Judged, Decided
<1>5. Fine(site[t], disk[t], site[t], m[t])
  <2>1. Stage(m[t]) = "collecting"
    BY <1>2, Staged
  <2>. QED
    BY <2>1 DEF Fine, CustodyStep, Turn
<1>6. CallEvidence'
  <2>1. ctl'.call = "collect" /\ ctl'.at = t /\ mem' = m
    BY <1>1, <1>3 DEF Collecting, Control, Saved
  <2>. QED
    BY <1>2, <2>1 DEF CallEvidence
<1>. QED
  BY <1>1, <1>2, <1>3, <1>4, <1>5, <1>6, SavedUp

(* The logs.                                                                *)
LEMMA LogsReturnUp ==
    ASSUME IInv, EInv, NEW t \in Trials, LogsReturn(t)
    PROVE  Upheld
<1>1. ctl.at = t /\ ctl.call = "logs" /\ UNCHANGED site /\ ctl.pass # "raised"
  BY DEF LogsReturn, Calling, Passes
<1>2. CASE Collecting(t, ctl.seen)
  <2>1. /\ mem[t].phase \in Lagging \cup {"attention_required"} /\ ~Unlaunched(disk[t])
        /\ LiveJobs(site[t]) = {} /\ site[t].copy = "none" /\ site[t].pvc # "released"
    BY <1>1 DEF EInv, CallEvidence
  <2>2. disk[t].phase \in Lagging \cup {"attention_required"}
    BY <1>1, <2>1 DEF EInv, MemoryCurrent, Current, Lagged
  <2>3. Stage(disk[t]) \in {"executing", "stuck"} /\ disk[t].phase \notin Decided
    BY <2>1, <2>2, Staged DEF Lagging, Unlaunched, Decided
  <2>. QED
    BY <1>1, <1>2, <2>1, <2>3, CollectingUp
<1>3. CASE Paused(mem)
  BY <1>1, <1>3, PausedStill
<1>. QED
  BY <1>2, <1>3 DEF LogsReturn

(* A collection taken up again.                                             *)
LEMMA BeginCollectUp ==
    ASSUME IInv, EInv, NEW t \in Trials, BeginCollect(t)
    PROVE  Upheld
<1>1. /\ ctl.pass # "raised" /\ Collecting(t, mem[t].backend) /\ UNCHANGED site
      /\ mem[t].phase \in {"collection_pending", "collection_retry_wait"}
  BY DEF BeginCollect, Visits
<1>2. mem[t] = disk[t] /\ Evidence(site[t], disk[t])
  BY <1>1, Agreed DEF EInv, Lagging
<1>3. /\ LiveJobs(site[t]) = {} /\ site[t].pvc # "released"
      /\ site[t].copy \in {"none", site[t].work} /\ disk[t].phase \notin Decided
  BY <1>1, <1>2 DEF Evidence, Gathering, Decided
<1>4. Stage(disk[t]) = "collecting"
  BY <1>1, <1>2, Staged
<1>. QED
  BY <1>1, <1>3, <1>4, CollectingUp

-----------------------------------------------------------------------------
(* Collection and judgement.                                                *)

(* The phase of one entry is set.                                           *)
Phased(m, t, p) == [m EXCEPT ![t].phase = p]

(* The site s is evidence enough for the phase p, and p a fine next phase.  *)
Fits(t, s, p) ==
    \A f : f.phase = p /\ f.outcome = mem[t].outcome /\ f.pipe = mem[t].pipe =>
            Evidence(s, f) /\ Fine(site[t], mem[t], s, f)

(* The phase of a trial whose two entries agree is saved.                   *)
LEMMA PhaseUp ==
    ASSUME IInv, EInv, ctl.pass # "raised", NEW t \in Trials, mem[t] = disk[t],
           NEW m \in Table, \A u \in Trials : u # t => m[u] = mem[u],
           m[t].outcome = mem[t].outcome, m[t].pipe = mem[t].pipe,
           NEW p, NEW x, Saved(Phased(m, t, p), x),
           NEW s, site' = [site EXCEPT ![t] = s], Fits(t, s, p), CallEvidence'
    PROVE  Upheld
<1> DEFINE n == Phased(m, t, p)
<1>1. /\ \A u \in Trials : u # t => n[u] = mem[u]
      /\ n[t].phase = p /\ n[t].outcome = mem[t].outcome /\ n[t].pipe = mem[t].pipe
  BY DEF Phased, Table, Entry
<1>2. Saved(n, x)
  OBVIOUS
<1> HIDE DEF n
<1>3. Evidence(s, n[t]) /\ Fine(site[t], mem[t], s, n[t])
  BY <1>1 DEF Fits
<1>. QED
  BY <1>1, <1>2, <1>3, AgreedUp

(* A collection that is under way.                                          *)
LEMMA CollectAnswered ==
    ASSUME NEW s \in Site, NEW e, e.phase = "collecting", Evidence(s, e),
           NEW r \in CollectReplies(s)
    PROVE  /\ \A f : f.phase \in Gathering =>
                Evidence(r.site, f) /\ Fine(s, e, r.site, f)
           /\ LiveJobs(r.site) = {} /\ r.site.pvc = s.pvc /\ s.pvc # "released"
           /\ r.site.copy = s.copy /\ r.site.work = s.work /\ r.site.published = s.published
           /\ r.res = "ok" => s.copy # "none" /\ s.copy = s.work
<1>1. LiveJobs(s) = {} /\ s.copy \in {"none", s.work} /\ s.pvc # "released"
  BY DEF Evidence, Gathering
<1>2. /\ r.site.jobs = s.jobs /\ r.site.work = s.work /\ r.site.pvc = s.pvc
      /\ r.site.copy = s.copy /\ r.site.published = s.published
      /\ r.res = "ok" => s.copy # "none"
  BY CollectEvidence
<1>3. LiveJobs(r.site) = {}
  BY <1>1, <1>2 DEF LiveJobs
<1>4. ASSUME NEW f, f.phase \in Gathering
      PROVE  Evidence(r.site, f) /\ Fine(s, e, r.site, f)
  <2>1. Evidence(r.site, f)
    BY <1>1, <1>2, <1>3, <1>4
       DEF Evidence, Unlaunched, Lagging, Early, Gathering, Judged, Decided
  <2>2. Stage(e) = "collecting" /\ Stage(f) \in {"collecting", "stuck"}
    BY <1>4, Staged DEF Gathering
  <2>3. Storage(r.site) = Storage(s) /\ (OnRecord(s) <=> OnRecord(r.site))
    BY <1>2 DEF Storage, OnRecord
  <2>4. Turn(e, f)
    BY DEF Turn, Decided
  <2>. QED
    BY <2>1, <2>2, <2>3, <2>4 DEF Fine, CustodyStep, Custody!Stages
<1>. QED
  BY <1>1, <1>2, <1>3, <1>4

(* The trial is judged on what was collected.                               *)
LEMMA AssessedUp ==
    ASSUME IInv, EInv, ctl.pass # "raised", NEW t \in Trials, mem[t] = disk[t],
           mem[t].phase \in {"collecting", "evaluation_pending"},
           NEW m \in Table, \A u \in Trials : u # t => m[u] = mem[u],
           m[t].outcome = mem[t].outcome, Assessed(m, t),
           NEW s, site' = [site EXCEPT ![t] = s],
           LiveJobs(s) = {}, s.pvc = site[t].pvc, s.pvc # "released",
           s.copy = site[t].copy, s.work = site[t].work, s.published = site[t].published,
           site[t].copy # "none", site[t].copy = site[t].work
    PROVE  Upheld
<1> DEFINE e == [m[t] EXCEPT !.pipe = site[t].copy,
                             !.outcome = IF site[t].copy = "result" THEN @ ELSE "infrastructure"]
           put(p) == [m EXCEPT ![t] = [e EXCEPT !.phase = p]]
<1>1. PICK p : /\ Save(put(p))
               /\ \/ p = "evaluating" /\ ctl' = [ctl EXCEPT !.at = t, !.call = "evaluate"]
                  \/ /\ p = "publishing" /\ site[t].copy # "result"
                     /\ ctl' = [ctl EXCEPT !.at = t, !.call = "publish"]
  BY DEF Assessed
<1>2. /\ \A u \in Trials : u # t => put(p)[u] = mem[u]
      /\ put(p)[t].phase = p /\ put(p)[t].pipe = site[t].copy
      /\ put(p)[t].outcome = IF site[t].copy = "result" THEN mem[t].outcome ELSE "infrastructure"
  BY DEF Table, Entry
<1> DEFINE n == put(p)
<1>3. Saved(n, "running")
  BY <1>1 DEF Save
<1>4. /\ \A u \in Trials : u # t => n[u] = mem[u]
      /\ n[t].phase \in {"evaluating", "publishing"}
      /\ n[t].phase = "evaluating" => n[t].pipe = "result" \/ n[t].outcome # "none"
      /\ n[t].phase = "publishing" => n[t].outcome # "none"
  BY <1>1, <1>2
<1>5. CallEvidence'
  <2>1. /\ ctl'.at = t
        /\ \/ ctl'.call = "evaluate" /\ p = "evaluating"
           \/ ctl'.call = "publish" /\ p = "publishing"
    <3>1. \/ p = "evaluating" /\ ctl' = [ctl EXCEPT !.at = t, !.call = "evaluate"]
          \/ p = "publishing" /\ ctl' = [ctl EXCEPT !.at = t, !.call = "publish"]
      BY <1>1
    <3>2. ctl \in Control
      BY DEF IInv, TypeOK
    <3> HIDE DEF e, put, n
    <3>. QED
      BY <3>1, <3>2 DEF Control
  <2>2. mem' = n
    BY <1>3 DEF Saved
  <2>. QED
    BY <1>2, <2>1, <2>2 DEF CallEvidence
<1> HIDE DEF n
<1>6. Evidence(s, n[t])
  BY <1>4 DEF Evidence, Unlaunched, Lagging, Early, Gathering, Judged, Decided
<1>7. Fine(site[t], mem[t], s, n[t])
  <2>1. Stage(mem[t]) \in {"collecting", "judging"} /\ Stage(n[t]) \in {"judging", "publishing"}
    BY <1>4, Staged
  <2>2. Storage(s) = Storage(site[t]) /\ (OnRecord(site[t]) <=> OnRecord(s))
    BY DEF Storage, OnRecord
  <2>3. Turn(mem[t], n[t])
    BY DEF Turn, Decided
  <2>. QED
    BY <2>1, <2>2, <2>3 DEF Fine, CustodyStep
<1>. QED
  BY <1>3, <1>4, <1>5, <1>6, <1>7, AgreedUp

(* A counter of the entry is charged.                                       *)
LEMMA ChargedTo ==
    ASSUME mem \in Table, NEW t \in Trials
    PROVE  /\ LET m == [mem EXCEPT ![t].coll = Charge(@, CollectionMax)]
              IN  /\ m \in Table /\ \A u \in Trials : u # t => m[u] = mem[u]
                  /\ m[t].outcome = mem[t].outcome /\ m[t].pipe = mem[t].pipe
           /\ LET m == [mem EXCEPT ![t].pub = Charge(@, PublicationMax)]
              IN  /\ m \in Table /\ \A u \in Trials : u # t => m[u] = mem[u]
                  /\ m[t].outcome = mem[t].outcome /\ m[t].pipe = mem[t].pipe
<1>1. Charge(mem[t].coll, CollectionMax) \in 0 .. CollectionMax
  BY ChargeBounded, PlanAssumption DEF Table, Entry
<1>2. Charge(mem[t].pub, PublicationMax) \in 0 .. PublicationMax
  BY ChargeBounded, PlanAssumption DEF Table, Entry
<1>3. [mem EXCEPT ![t].coll = Charge(@, CollectionMax)] \in Table
  BY <1>1, OneField DEF Table
<1>4. [mem EXCEPT ![t].pub = Charge(@, PublicationMax)] \in Table
  BY <1>2, OneField DEF Table
<1>. QED
  BY <1>3, <1>4 DEF Table, Entry

(* The answer to a collection.                                              *)
LEMMA CollectReturnsUp ==
    ASSUME IInv, EInv, NEW t \in Trials, CollectReturns(t)
    PROVE  Upheld
<1> DEFINE charged == [mem EXCEPT ![t].coll = Charge(@, CollectionMax)]
           Set(m, p) == [m EXCEPT ![t].phase = p]
           Ends == {"collection_pending", "collection_retry_wait", "collection_failed"}
<1>1. /\ ctl.at = t /\ ctl.call = "collect" /\ ctl.pass # "raised" /\ mem \in Table
      /\ ctl \in Control /\ site[t] \in Site
  BY DEF CollectReturns, Calling, Passes, IInv, TypeOK, Table
<1>2. mem[t].phase = "collecting"
  BY <1>1 DEF EInv, CallEvidence
<1>3. mem[t] = disk[t] /\ Evidence(site[t], mem[t])
  BY <1>1, <1>2, Agreed DEF EInv, Lagging
<1>4. PICK r \in CollectReplies(site[t]) :
        /\ Answered(t, r)
        /\ \/ r.res = "ok" /\ Assessed(charged, t)
           \/ Paused(mem)
           \/ /\ \E p \in Ends : Save(Set(mem, p)) \/ Save(Set(charged, p))
              /\ NextTrial
  BY DEF CollectReturns
<1> DEFINE c == r.site
<1>5. /\ \A f : f.phase \in Gathering => Evidence(c, f) /\ Fine(site[t], mem[t], c, f)
      /\ LiveJobs(c) = {} /\ c.pvc = site[t].pvc /\ site[t].pvc # "released"
      /\ c.copy = site[t].copy /\ c.work = site[t].work /\ c.published = site[t].published
      /\ r.res = "ok" => site[t].copy # "none" /\ site[t].copy = site[t].work
  BY <1>1, <1>2, <1>3, CollectAnswered
<1>6. site' = [site EXCEPT ![t] = c]
  BY <1>4 DEF Answered
<1>7. /\ charged \in Table /\ \A u \in Trials : u # t => charged[u] = mem[u]
      /\ charged[t].outcome = mem[t].outcome /\ charged[t].pipe = mem[t].pipe
  BY <1>1, ChargedTo
<1> HIDE DEF charged, c
<1>8. CASE r.res = "ok" /\ Assessed(charged, t)
  <2>1. /\ LiveJobs(c) = {} /\ c.pvc = site[t].pvc /\ c.pvc # "released"
        /\ c.copy = site[t].copy /\ c.work = site[t].work /\ c.published = site[t].published
        /\ site[t].copy # "none" /\ site[t].copy = site[t].work
        /\ mem[t].phase \in {"collecting", "evaluation_pending"}
    BY <1>2, <1>5, <1>8
  <2>. QED
    BY <1>1, <1>3, <1>6, <1>7, <1>8, <2>1, AssessedUp
<1>9. CASE Paused(mem)
  <2>1. Evidence(c, mem[t]) /\ Fine(site[t], disk[t], c, mem[t])
    BY <1>2, <1>3, <1>5 DEF Gathering
  <2>. QED
    BY <1>1, <1>6, <1>9, <2>1, PausedUp
<1>10. ASSUME NEW p \in Ends, NEW m \in {mem, charged}, Save(Set(m, p)), NextTrial
       PROVE  Upheld
  <2>1. /\ m \in Table /\ \A u \in Trials : u # t => m[u] = mem[u]
        /\ m[t].outcome = mem[t].outcome /\ m[t].pipe = mem[t].pipe
    BY <1>1, <1>7
  <2>2. Saved(Phased(m, t, p), "running")
    BY <1>10 DEF Save, Phased
  <2>3. Fits(t, c, p)
    BY <1>5 DEF Gathering, Fits
  <2>4. CallEvidence'
    BY <1>1, <1>10, Moves, NoCallEvidence
  <2>. QED
    BY <1>1, <1>3, <1>6, <2>1, <2>2, <2>3, <2>4, PhaseUp
<1> HIDE DEF Set
<1>. QED
  BY <1>4, <1>8, <1>9, <1>10

(* An evaluation taken up again.                                            *)
LEMMA BeginEvaluateUp ==
    ASSUME IInv, EInv, NEW t \in Trials, BeginEvaluate(t)
    PROVE  Upheld
<1>1. /\ ctl.pass # "raised" /\ UNCHANGED site /\ mem \in Table /\ ctl.call = "none"
      /\ mem[t].phase = "evaluation_pending" /\ ctl \in Control /\ site[t] \in Site
      /\ site' = [site EXCEPT ![t] = site[t]]
  BY DEF BeginEvaluate, Visits, IInv, TypeOK, Table
<1>2. mem[t] = disk[t] /\ Evidence(site[t], mem[t])
  BY <1>1, Agreed DEF EInv, Lagging
<1>3. /\ LiveJobs(site[t]) = {} /\ site[t].copy = site[t].work /\ site[t].pvc # "released"
      /\ site[t].copy # "none"
  BY <1>1, <1>2 DEF Evidence, Judged, Site, Work
<1>4. Assessed(mem, t)
  BY <1>3 DEF BeginEvaluate
<1>5. /\ \A u \in Trials : u # t => mem[u] = mem[u]
      /\ mem[t].phase \in {"collecting", "evaluation_pending"}
  BY <1>1
<1>. QED
  BY <1>1, <1>2, <1>3, <1>4, <1>5, AssessedUp

(* Every verdict is an outcome.                                             *)
LEMMA VerdictDecides ==
    ASSUME NEW b, NEW complete \in BOOLEAN, NEW candidate \in BOOLEAN, NEW required \in BOOLEAN
    PROVE  Verdict(b, complete, candidate, required) # "none"
<1>1. CASE ~complete /\ candidate
  BY <1>1 DEF Verdict
<1>2. CASE ~complete /\ ~candidate
  BY <1>2 DEF Verdict
<1>3. CASE complete /\ (b # "succeeded" \/ ~required)
  BY <1>3 DEF Verdict
<1>4. CASE complete /\ ~(b # "succeeded" \/ ~required)
  BY <1>4 DEF Verdict
<1>. QED
  BY <1>1, <1>2, <1>3, <1>4

(* The end of an evaluation.                                                *)
LEMMA EvaluateReturnsUp ==
    ASSUME IInv, EInv, NEW t \in Trials, EvaluateReturns(t)
    PROVE  Upheld
<1> DEFINE Decides(o) == [mem EXCEPT ![t].phase = "publishing", ![t].outcome = o]
           waits == [mem EXCEPT ![t].phase = "evaluation_pending"]
           s == site[t]
<1>1. /\ ctl.at = t /\ ctl.call = "evaluate" /\ ctl.pass # "raised" /\ mem \in Table
      /\ UNCHANGED site /\ ctl \in Control /\ site' = [site EXCEPT ![t] = s]
  BY DEF EvaluateReturns, Calling, Passes, IInv, TypeOK, Table
<1>2. mem[t].phase = "evaluating"
  BY <1>1 DEF EInv, CallEvidence
<1>3. mem[t] = disk[t] /\ Evidence(s, mem[t])
  BY <1>1, <1>2, Agreed DEF EInv, Lagging
<1>4. /\ LiveJobs(s) = {} /\ s.copy = s.work /\ s.pvc # "released"
      /\ mem[t].pipe = "result" \/ mem[t].outcome # "none"
  BY <1>2, <1>3 DEF Evidence, Judged
<1>5. Stage(mem[t]) = "judging" /\ mem[t].phase \notin Decided
  BY <1>2, Staged DEF Decided
<1> HIDE DEF s
<1>6. CASE (Save(waits) /\ NextTrial) \/ Paused(waits)
  <2>1. PICK x : Saved(Phased(mem, t, "evaluation_pending"), x)
    BY <1>6 DEF Save, Paused, Phased
  <2>2. CallEvidence'
    BY <1>1, <1>6, Moves, IdleTyped, NoCallEvidence DEF Paused
  <2>3. ASSUME NEW f, f.phase = "evaluation_pending", f.outcome = mem[t].outcome,
               f.pipe = mem[t].pipe
        PROVE  Evidence(s, f) /\ Fine(s, mem[t], s, f)
    <3>1. Evidence(s, f)
      BY <1>4, <2>3 DEF Evidence, Unlaunched, Lagging, Early, Gathering, Judged, Decided
    <3>2. Stage(f) = "judging"
      BY <2>3, Staged
    <3>. QED
      BY <1>5, <3>1, <3>2 DEF Fine, CustodyStep, Turn
  <2>4. /\ \A u \in Trials : u # t => mem[u] = mem[u]
        /\ mem[t].outcome = mem[t].outcome /\ mem[t].pipe = mem[t].pipe
    OBVIOUS
  <2>5. Fits(t, s, "evaluation_pending")
    BY <1>5, <2>3 DEF Fits, s
  <2>. QED
    BY <1>1, <1>3, <2>1, <2>2, <2>4, <2>5, PhaseUp
<1>7. CASE Save(Escalated(mem, t)) /\ NextTrial
  <2>1. CallEvidence'
    BY <1>1, <1>7, Moves, NoCallEvidence
  <2>2. disk[t].phase \notin Decided /\ Beside(site[t], s) /\ s.work = site[t].work
    BY <1>3, <1>5 DEF Beside, s
  <2>. QED
    BY <1>1, <1>3, <1>7, <2>1, <2>2, EscalatedUp
<1>8. ASSUME NEW o, o # "none", Save(Decides(o)), Issue("publish")
      PROVE  Upheld
  <2> DEFINE m == Decides(o)
  <2>1. /\ \A u \in Trials : u # t => m[u] = mem[u]
        /\ m[t].phase = "publishing" /\ (m[t].outcome = o \/ ~(o \in Outcomes))
    BY <1>1 DEF Table, Entry
  <2>2. m[t].outcome = o
    BY <1>1 DEF Table, Entry
  <2>3. Saved(m, "running")
    BY <1>8 DEF Save
  <2> HIDE DEF m
  <2>4. Evidence(s, m[t])
    BY <1>4, <1>8, <2>1, <2>2
       DEF Evidence, Unlaunched, Lagging, Early, Gathering, Judged, Decided
  <2>5. Fine(s, mem[t], s, m[t])
    <3>1. Stage(m[t]) = "publishing"
      BY <2>1, Staged
    <3>. QED
      BY <1>5, <3>1 DEF Fine, CustodyStep, Turn
  <2>6. CallEvidence'
    <3>1. ctl'.call = "publish" /\ ctl'.at = t
      BY <1>1, <1>8, Moves DEF Calls
    <3>2. mem' = m
      BY <2>3 DEF Saved
    <3>. QED
      BY <2>1, <3>1, <3>2 DEF CallEvidence
  <2>. QED
    BY <1>1, <1>3, <2>1, <2>3, <2>4, <2>5, <2>6, AgreedUp DEF s
<1>9. ASSUME NEW complete \in BOOLEAN, NEW candidate \in BOOLEAN, NEW required \in BOOLEAN,
             Save([mem EXCEPT ![t].phase = "publishing",
                              ![t].outcome = IF mem[t].pipe = "result"
                                THEN Verdict(mem[t].backend, complete, candidate, required)
                                ELSE @]),
             Issue("publish")
      PROVE  Upheld
  <2> DEFINE o == IF mem[t].pipe = "result"
                  THEN Verdict(mem[t].backend, complete, candidate, required)
                  ELSE mem[t].outcome
  <2>1. o # "none"
    BY <1>4, VerdictDecides
  <2>2. Save(Decides(o))
    <3>1. Decides(o) = [mem EXCEPT ![t].phase = "publishing",
                              ![t].outcome = IF mem[t].pipe = "result"
                                THEN Verdict(mem[t].backend, complete, candidate, required)
                                ELSE @]
      BY <1>1 DEF Table, Entry
    <3>. QED
      BY <1>9, <3>1
  <2> HIDE DEF o, Decides
  <2>. QED
    BY <1>8, <1>9, <2>1, <2>2
<1> HIDE DEF Decides, waits
<1>10. \/ Save(waits) /\ NextTrial
       \/ Paused(waits)
       \/ Save(Escalated(mem, t)) /\ NextTrial
       \/ \E complete, candidate, required \in BOOLEAN :
          /\ Save([mem EXCEPT ![t].phase = "publishing",
                              ![t].outcome = IF mem[t].pipe = "result"
                                THEN Verdict(mem[t].backend, complete, candidate, required)
                                ELSE @])
          /\ Issue("publish")
  BY DEF EvaluateReturns, waits
<1>. QED
  BY <1>6, <1>7, <1>9, <1>10

-----------------------------------------------------------------------------
(* Publication and cleanup.                                                 *)

(* A publication taken up again.                                            *)
LEMMA BeginPublishUp ==
    ASSUME IInv, EInv, NEW t \in Trials, BeginPublish(t)
    PROVE  Upheld
<1> DEFINE s == site[t]
<1>1. /\ ctl.pass # "raised" /\ mem \in Table /\ ctl \in Control
      /\ mem[t].phase = "publication_pending" /\ site' = [site EXCEPT ![t] = s]
  BY DEF BeginPublish, Visits, IInv, TypeOK, Table
<1>2. mem[t] = disk[t] /\ Evidence(s, mem[t])
  BY <1>1, Agreed DEF EInv, Lagging
<1>3. /\ LiveJobs(s) = {} /\ s.copy = s.work /\ s.pvc # "released" /\ mem[t].outcome # "none"
  BY <1>1, <1>2 DEF Evidence, Judged, Decided
<1>4. ASSUME NEW f, f.phase = "publishing", f.outcome = mem[t].outcome, f.pipe = mem[t].pipe
      PROVE  Evidence(s, f) /\ Fine(s, mem[t], s, f)
  <2> HIDE DEF s
  <2>1. Evidence(s, f)
    BY <1>3, <1>4 DEF Evidence, Unlaunched, Lagging, Early, Gathering, Judged, Decided
  <2>2. Stage(mem[t]) = "publishing" /\ Stage(f) = "publishing"
    BY <1>1, <1>4, Staged
  <2>3. Turn(mem[t], f)
    BY <1>4 DEF Turn, Decided
  <2>. QED
    BY <2>1, <2>2, <2>3 DEF Fine, CustodyStep
<1>5. Saved(Phased(mem, t, "publishing"), "running")
  BY DEF BeginPublish, Save, Phased
<1>6. CallEvidence'
  <2>1. ctl'.call = "publish" /\ ctl'.at = t
    BY <1>1 DEF BeginPublish, Control
  <2>2. mem'[t].phase = "publishing"
    BY <1>1, <1>5 DEF Saved, Phased, Table, Entry
  <2>. QED
    BY <2>1, <2>2 DEF CallEvidence
<1>7. Fits(t, s, "publishing")
  BY <1>4 DEF Fits
<1>8. /\ \A u \in Trials : u # t => mem[u] = mem[u]
      /\ mem[t].outcome = mem[t].outcome /\ mem[t].pipe = mem[t].pipe
  OBVIOUS
<1>. QED
  BY <1>1, <1>2, <1>5, <1>6, <1>7, <1>8, PhaseUp

(* A publication that is under way.                                         *)
LEMMA PublishAnswered ==
    ASSUME NEW s \in Site, NEW e, e.phase = "publishing", Evidence(s, e),
           NEW r \in PublishReplies(s)
    PROVE  /\ \A f : /\ f.phase \in {"publishing", "publication_pending", "attention_required"}
                     /\ f.outcome = e.outcome
                => Evidence(r.site, f) /\ Fine(s, e, r.site, f)
           /\ r.res = "ok" =>
                \A f : f.phase = "cleanup_pending" /\ f.outcome = e.outcome
                    => Evidence(r.site, f) /\ Fine(s, e, r.site, f)
<1> DEFINE c == r.site
<1>1. /\ LiveJobs(s) = {} /\ s.copy = s.work /\ s.pvc # "released" /\ e.outcome # "none"
  BY DEF Evidence, Judged, Decided
<1>2. /\ c.jobs = s.jobs /\ c.work = s.work /\ c.pvc = s.pvc
      /\ c.copy = s.copy /\ c.transfer = s.transfer
      /\ r.res = "ok" => c.published = s.copy
  BY PublishEvidence
<1> HIDE DEF c
<1>3. LiveJobs(c) = {}
  BY <1>1, <1>2 DEF LiveJobs
<1>4. ASSUME NEW f, f.outcome = e.outcome,
             \/ f.phase \in {"publishing", "publication_pending", "attention_required"}
             \/ f.phase = "cleanup_pending" /\ r.res = "ok"
      PROVE  Evidence(c, f) /\ Fine(s, e, c, f)
  <2>1. Evidence(c, f)
    BY <1>1, <1>2, <1>3, <1>4
       DEF Evidence, Unlaunched, Lagging, Early, Gathering, Judged, Decided
  <2>2. Stage(e) = "publishing" /\ Storage(c) = Storage(s)
    BY <1>2, Staged DEF Storage
  <2>3. Stage(f) \in {"publishing", "stuck"} \/ (Stage(f) = "cleaning" /\ OnRecord(c))
    BY <1>1, <1>2, <1>4, Staged DEF OnRecord
  <2>4. Turn(e, f)
    BY <1>4 DEF Turn, Decided
  <2>. QED
    BY <2>1, <2>2, <2>3, <2>4 DEF Fine, CustodyStep
<1>. QED
  BY <1>4 DEF c

(* The end of a publication.                                                *)
LEMMA PublishReturnsUp ==
    ASSUME IInv, EInv, NEW t \in Trials, PublishReturns(t)
    PROVE  Upheld
<1> DEFINE charged == [mem EXCEPT ![t].pub = Charge(@, PublicationMax)]
<1>1. /\ ctl.at = t /\ ctl.call = "publish" /\ ctl.pass # "raised" /\ mem \in Table
      /\ ctl \in Control /\ site[t] \in Site
  BY DEF PublishReturns, Calling, Passes, IInv, TypeOK, Table
<1>2. mem[t].phase = "publishing"
  BY <1>1 DEF EInv, CallEvidence
<1>3. mem[t] = disk[t] /\ Evidence(site[t], mem[t])
  BY <1>1, <1>2, Agreed DEF EInv, Lagging
<1>4. PICK r \in PublishReplies(site[t]) :
        /\ Answered(t, r)
        /\ \/ r.res = "ok" /\ Cleaning(mem, t) /\ Issue("cleanup")
           \/ /\ \E p \in {"publication_pending", "attention_required"} :
                    Save(Phased(charged, t, p))
              /\ NextTrial
  BY DEF PublishReturns, Phased
<1> DEFINE c == r.site
<1>5. /\ \A f : /\ f.phase \in {"publishing", "publication_pending", "attention_required"}
                /\ f.outcome = mem[t].outcome
           => Evidence(c, f) /\ Fine(site[t], mem[t], c, f)
      /\ r.res = "ok" =>
           \A f : f.phase = "cleanup_pending" /\ f.outcome = mem[t].outcome
               => Evidence(c, f) /\ Fine(site[t], mem[t], c, f)
  <2> DEFINE s == site[t]
             e == mem[t]
  <2>1. s \in Site /\ e.phase = "publishing" /\ Evidence(s, e) /\ r \in PublishReplies(s)
    BY <1>1, <1>2, <1>3
  <2> HIDE DEF s, e
  <2>2. /\ \A f : /\ f.phase \in {"publishing", "publication_pending", "attention_required"}
                  /\ f.outcome = e.outcome
             => Evidence(r.site, f) /\ Fine(s, e, r.site, f)
        /\ r.res = "ok" =>
             \A f : f.phase = "cleanup_pending" /\ f.outcome = e.outcome
                 => Evidence(r.site, f) /\ Fine(s, e, r.site, f)
    BY <2>1, PublishAnswered
  <2>. QED
    BY <2>2 DEF s, e
<1>6. site' = [site EXCEPT ![t] = c]
  BY <1>4 DEF Answered
<1>7. /\ charged \in Table /\ \A u \in Trials : u # t => charged[u] = mem[u]
      /\ charged[t].outcome = mem[t].outcome /\ charged[t].pipe = mem[t].pipe
  BY <1>1, ChargedTo
<1> HIDE DEF charged, c
<1>8. CASE r.res = "ok" /\ Cleaning(mem, t) /\ Issue("cleanup")
  <2>1. Saved(Phased(mem, t, "cleanup_pending"), "running")
    BY <1>8 DEF Cleaning, Save, Phased
  <2>2. Fits(t, c, "cleanup_pending")
    BY <1>5, <1>8 DEF Fits
  <2>3. CallEvidence'
    <3>1. ctl'.call = "cleanup" /\ ctl'.at = t
      BY <1>1, <1>8, Moves DEF Calls
    <3>2. mem'[t].phase = "cleanup_pending"
      BY <1>1, <2>1 DEF Saved, Phased, Table, Entry
    <3>. QED
      BY <3>1, <3>2 DEF CallEvidence
  <2>4. /\ \A u \in Trials : u # t => mem[u] = mem[u]
        /\ mem[t].outcome = mem[t].outcome /\ mem[t].pipe = mem[t].pipe
    OBVIOUS
  <2>. QED
    BY <1>1, <1>3, <1>6, <2>1, <2>2, <2>3, <2>4, PhaseUp
<1>9. ASSUME NEW p \in {"publication_pending", "attention_required"},
             Save(Phased(charged, t, p)), NextTrial
      PROVE  Upheld
  <2>1. Saved(Phased(charged, t, p), "running")
    BY <1>9 DEF Save
  <2>2. Fits(t, c, p)
    BY <1>5 DEF Fits
  <2>3. CallEvidence'
    BY <1>1, <1>9, Moves, NoCallEvidence
  <2>. QED
    BY <1>1, <1>3, <1>6, <1>7, <2>1, <2>2, <2>3, PhaseUp
<1>. QED
  BY <1>4, <1>8, <1>9

(* A cleanup taken up again.                                                *)
LEMMA BeginCleanupUp ==
    ASSUME IInv, EInv, NEW t \in Trials, BeginCleanup(t)
    PROVE  Upheld
<1> DEFINE s == site[t]
<1>1. /\ ctl.pass # "raised" /\ mem \in Table /\ ctl \in Control
      /\ mem[t].phase = "cleanup_pending" /\ site' = [site EXCEPT ![t] = s]
      /\ At(t, "cleanup")
  BY DEF BeginCleanup, Visits, IInv, TypeOK, Table
<1>2. mem[t] = disk[t] /\ Evidence(s, mem[t])
  BY <1>1, Agreed DEF EInv, Lagging
<1>3. ASSUME NEW f, f.phase = "cleanup_pending", f.outcome = mem[t].outcome,
             f.pipe = mem[t].pipe
      PROVE  Evidence(s, f) /\ Fine(s, mem[t], s, f)
  <2> HIDE DEF s
  <2>1. Evidence(s, f)
    BY <1>1, <1>2, <1>3 DEF Evidence, Unlaunched, Lagging, Early, Gathering, Judged, Decided
  <2>2. Stage(mem[t]) = "cleaning" /\ Stage(f) = "cleaning"
    BY <1>1, <1>3, Staged
  <2>3. Turn(mem[t], f)
    BY <1>3 DEF Turn, Decided
  <2>. QED
    BY <2>1, <2>2, <2>3 DEF Fine, CustodyStep
<1>4. Saved(Phased(mem, t, "cleanup_pending"), "running")
  BY DEF BeginCleanup, Cleaning, Save, Phased
<1>5. CallEvidence'
  <2>1. ctl'.call = "cleanup" /\ ctl'.at = t
    BY <1>1, Visiting DEF Calls
  <2>2. mem'[t].phase = "cleanup_pending"
    BY <1>1, <1>4 DEF Saved, Phased, Table, Entry
  <2>. QED
    BY <2>1, <2>2 DEF CallEvidence
<1>6. Fits(t, s, "cleanup_pending")
  BY <1>3 DEF Fits
<1>7. /\ \A u \in Trials : u # t => mem[u] = mem[u]
      /\ mem[t].outcome = mem[t].outcome /\ mem[t].pipe = mem[t].pipe
  OBVIOUS
<1>. QED
  BY <1>1, <1>2, <1>4, <1>5, <1>6, <1>7, PhaseUp

(* A cleanup that is under way.                                             *)
LEMMA CleanupAnswered ==
    ASSUME NEW s \in Site, NEW e, e.phase = "cleanup_pending", Evidence(s, e),
           NEW h, NEW retain, NEW r \in CleanupReplies(s, h, retain)
    PROVE  /\ \A f : f.phase = "cleanup_pending" /\ f.outcome = e.outcome
                => Evidence(r.site, f) /\ Fine(s, e, r.site, f)
           /\ r.res = "ok" =>
                \A f : f.phase = "complete" /\ f.outcome = e.outcome
                    => Evidence(r.site, f) /\ Fine(s, e, r.site, f)
<1> DEFINE c == r.site
<1>1. /\ LiveJobs(s) = {} /\ s.copy = s.work /\ e.outcome # "none" /\ s.published = s.work
  BY DEF Evidence, Judged, Decided
<1>2. /\ LiveJobs(c) = {} /\ c.work = s.work
      /\ c.copy = s.copy /\ c.published = s.published
      /\ c.pvc = s.pvc \/ (s.pvc = "bound" /\ c.pvc = "released")
      /\ r.res = "ok" => c.transfer = "none" /\ (~Retain => c.pvc # "bound")
  BY <1>1, CleanupEvidence
<1> HIDE DEF c
<1>3. ASSUME NEW f, f.outcome = e.outcome,
             f.phase \in {"cleanup_pending", "complete"}, f.phase = "complete" => r.res = "ok"
      PROVE  Evidence(c, f) /\ Fine(s, e, c, f)
  <2>1. Evidence(c, f)
    BY <1>1, <1>2, <1>3
       DEF Evidence, Unlaunched, Lagging, Early, Gathering, Judged, Decided
  <2>2. Stage(e) = "cleaning" /\ Stage(f) \in {"cleaning", "closed"}
    BY <1>3, Staged
  <2>3. /\ OnRecord(s) /\ OnRecord(c)
        /\ \/ Storage(c) = Storage(s)
           \/ Storage(s) = "held" /\ Storage(c) = "released"
    BY <1>1, <1>2 DEF OnRecord, Storage
  <2>4. Turn(e, f)
    BY <1>3 DEF Turn, Decided
  <2>. QED
    BY <2>1, <2>2, <2>3, <2>4 DEF Fine, CustodyStep
<1>. QED
  BY <1>3 DEF c

(* What is in memory is of no use to a controller that has to restart.      *)
LEMMA RestoredUp ==
    ASSUME IInv, EInv, disk' = disk, mem' = disk \/ ctl'.pass = "raised", NEW t \in Trials,
           NEW s, site' = [site EXCEPT ![t] = s],
           Evidence(s, disk[t]), Fine(site[t], disk[t], s, disk[t]), ctl'.call = "none"
    PROVE  Upheld
<1>1. site'[t] = s /\ \A u \in Trials : u # t => site'[u] = site[u]
  BY DEF IInv, TypeOK
<1>2. MemoryCurrent'
  BY DEF MemoryCurrent, Current
<1>3. \A u \in Trials : Fine(site[u], disk[u], site[u], disk[u])
  BY CurrentFine DEF Current
<1>. QED
  BY <1>1, <1>2, <1>3, NoCallEvidence DEF Upheld, EInv

(* The end of a cleanup.                                                    *)
LEMMA CleanupReturnsUp ==
    ASSUME IInv, EInv, NEW t \in Trials, CleanupReturns(t)
    PROVE  Upheld
<1> DEFINE marked == [mem EXCEPT ![t].kept = Retained(mem[t])]
           closed == [marked EXCEPT ![t].phase = "complete", ![t].live = FALSE]
<1>1. /\ ctl.at = t /\ ctl.call = "cleanup" /\ ctl.pass # "raised" /\ mem \in Table
      /\ ctl \in Control /\ site[t] \in Site
  BY DEF CleanupReturns, Calling, Passes, IInv, TypeOK, Table
<1>2. mem[t].phase = "cleanup_pending"
  BY <1>1 DEF EInv, CallEvidence
<1>3. mem[t] = disk[t] /\ Evidence(site[t], mem[t])
  BY <1>1, <1>2, Agreed DEF EInv, Lagging
<1>4. PICK r \in CleanupReplies(site[t], mem[t].handle, Retained(mem[t])) :
        /\ Answered(t, r)
        /\ \/ r.res = "ok" /\ Save(closed) /\ NextTrial
           \/ Raised(marked)
           \/ Paused(marked)
           \/ Save(marked) /\ NextTrial
  BY DEF CleanupReturns
<1> DEFINE c == r.site
<1>5. /\ \A f : f.phase = "cleanup_pending" /\ f.outcome = mem[t].outcome
           => Evidence(c, f) /\ Fine(site[t], mem[t], c, f)
      /\ r.res = "ok" =>
           \A f : f.phase = "complete" /\ f.outcome = mem[t].outcome
               => Evidence(c, f) /\ Fine(site[t], mem[t], c, f)
  <2> DEFINE s == site[t]
             e == mem[t]
  <2>1. /\ s \in Site /\ e.phase = "cleanup_pending" /\ Evidence(s, e)
        /\ r \in CleanupReplies(s, e.handle, Retained(e))
    BY <1>1, <1>2, <1>3, <1>4
  <2> HIDE DEF s, e
  <2>2. /\ \A f : f.phase = "cleanup_pending" /\ f.outcome = e.outcome
             => Evidence(r.site, f) /\ Fine(s, e, r.site, f)
        /\ r.res = "ok" =>
             \A f : f.phase = "complete" /\ f.outcome = e.outcome
                 => Evidence(r.site, f) /\ Fine(s, e, r.site, f)
    BY <2>1, CleanupAnswered
  <2>. QED
    BY <2>2 DEF s, e
<1>6. site' = [site EXCEPT ![t] = c]
  BY <1>4 DEF Answered
<1>7. /\ \A u \in Trials : u # t => marked[u] = mem[u]
      /\ marked[t].phase = "cleanup_pending" /\ marked[t].outcome = mem[t].outcome
  BY <1>1, <1>2 DEF Table, Entry
<1>8. /\ \A u \in Trials : u # t => closed[u] = mem[u]
      /\ closed[t].phase = "complete" /\ closed[t].outcome = mem[t].outcome
  BY <1>1, <1>2 DEF Table, Entry
<1> HIDE DEF marked, closed, c
<1>9. CASE r.res = "ok" /\ Save(closed) /\ NextTrial
  <2>1. Saved(closed, "running")
    BY <1>9 DEF Save
  <2>2. Evidence(c, closed[t]) /\ Fine(site[t], mem[t], c, closed[t])
    BY <1>5, <1>8, <1>9
  <2>3. CallEvidence'
    BY <1>1, <1>9, Moves, NoCallEvidence
  <2>. QED
    BY <1>1, <1>3, <1>6, <1>8, <2>1, <2>2, <2>3, AgreedUp
<1>10. CASE Raised(marked)
  <2>1. disk' = disk /\ ctl'.pass = "raised" /\ ctl'.call = "none"
    BY <1>10, IdleTyped DEF Raised, Keep
  <2>2. Evidence(c, disk[t]) /\ Fine(site[t], disk[t], c, disk[t])
    BY <1>2, <1>3, <1>5
  <2>. QED
    BY <1>6, <2>1, <2>2, RestoredUp
<1>11. CASE Paused(marked) \/ (Save(marked) /\ NextTrial)
  <2>1. PICK x : Saved(marked, x)
    BY <1>11 DEF Paused, Save
  <2>2. Evidence(c, marked[t]) /\ Fine(site[t], mem[t], c, marked[t])
    BY <1>5, <1>7
  <2>3. CallEvidence'
    BY <1>1, <1>11, Moves, IdleTyped, NoCallEvidence DEF Paused
  <2>. QED
    BY <1>1, <1>3, <1>6, <1>7, <2>1, <2>2, <2>3, AgreedUp
<1>. QED
  BY <1>4, <1>9, <1>10, <1>11

-----------------------------------------------------------------------------
(* Crashes and the world.                                                   *)

(* What happens to the Jobs of a trial.                                     *)
LEMMA JobsEvident ==
    ASSUME IInv, WInv, EInv, NEW t \in Trials, NEW n, Beside(site[t], n),
           LiveJobs(n) \subseteq LiveJobs(site[t]),
           LiveJobs(site[t]) = {} => n.work = site[t].work
    PROVE  Evidence(n, disk[t]) /\ Fine(site[t], disk[t], n, disk[t])
<1> DEFINE s == site[t]
           d == disk[t]
<1>1. Evidence(s, d) /\ Storage(n) = Storage(s)
  BY DEF EInv, Beside, Storage
<1>2. CASE LiveJobs(s) = {}
  <2>1. LiveJobs(n) = {} /\ n.work = s.work
    BY <1>2
  <2>2. OnRecord(s) <=> OnRecord(n)
    BY <2>1 DEF Beside, OnRecord
  <2>3. Beside(s, n)
    OBVIOUS
  <2> HIDE DEF s, d
  <2>4. Evidence(n, d)
    BY <1>1, <1>2, <2>1, <2>3 DEF Beside, Evidence
  <2>5. Fine(s, d, n, d)
    BY <1>1, <2>2 DEF Fine, CustodyStep, Turn
  <2>. QED
    BY <2>4, <2>5 DEF s, d
<1>3. CASE LiveJobs(s) # {}
  <2>1. s.pvc = "bound" /\ d.phase \notin Gathering \cup Judged
    BY <1>1, <1>3 DEF Evidence
  <2>2. ~(d.phase = "pending" /\ d.handle = NoJob)
    <3>1. d.phase = "pending" => LiveJobs(s) \subseteq {d.handle}
      BY DEF WInv, Tracks, Leads
    <3>2. NoJob \notin LiveJobs(s)
      BY NamesDiffer DEF LiveJobs
    <3>. QED
      BY <1>3, <3>1, <3>2
  <2>3. LiveJobs(n) \subseteq LiveJobs(s) /\ Beside(s, n)
    OBVIOUS
  <2>4. d.phase \in Phases
    BY DEF IInv, TypeOK, Entry
  <2> HIDE DEF s, d
  <2>5. Evidence(n, d)
    BY <1>1, <2>1, <2>3 DEF Beside, Evidence, Judged, Decided
  <2>6. Stage(d) \in {"launching", "executing", "stuck"}
    <3>1. \/ d.phase = "pending" /\ d.handle # NoJob
          \/ d.phase \in {"submitting", "submission_retry_wait"}
          \/ d.phase \in {"submitted", "running", "infrastructure_retrying",
                          "continuation_retrying"}
          \/ d.phase \in {"attention_required", "collection_failed"}
      BY <2>1, <2>2, <2>4 DEF Phases, Gathering, Judged
    <3>. QED
      BY <3>1, Staged
  <2>7. Storage(s) = "held"
    BY <2>1 DEF Storage
  <2>8. Fine(s, d, n, d)
    BY <1>1, <2>6, <2>7 DEF Fine, CustodyStep, Turn
  <2>. QED
    BY <2>5, <2>8 DEF s, d
<1>. QED
  BY <1>2, <1>3

(* The call in flight when the controller dies leaves the evidence of the
   saved entry.                                                             *)
LEMMA CrashEvident ==
    ASSUME IInv, WInv, EInv, ctl.pass \in Passes, ctl.at \in Trials, NEW r \in Replies(ctl.at)
    PROVE  /\ Evidence(r.site, disk[ctl.at])
           /\ Fine(site[ctl.at], disk[ctl.at], r.site, disk[ctl.at])
<1> DEFINE t == ctl.at
<1>1. /\ ctl.pass # "raised" /\ t \in Trials /\ site[t] \in Site
      /\ Evidence(site[t], disk[t])
  BY DEF Passes, IInv, TypeOK, EInv
<1>2. CASE ctl.call = "submit"
  <2>1. disk[t].phase = "submitting" /\ r \in SubmitReplies(site[t])
    BY <1>2 DEF IInv, LaunchSaved, LaunchCalls, Replies
  <2>. QED
    BY <1>1, <2>1, SubmitFine
<1>3. CASE ctl.call = "restart"
  <2>1. mem = disk
    BY <1>3 DEF IInv, LaunchSaved, LaunchCalls
  <2>2. r \in RestartReplies(site[t], mem[t].handle, "restart", mem[t].infra)
    BY <1>3 DEF Replies
  <2>3. Evidence(r.site, mem[t]) /\ Fine(site[t], mem[t], r.site, mem[t])
    BY <1>3, <2>2, RestartAnswered
  <2>. QED
    BY <2>1, <2>3
<1>4. CASE ctl.call = "continue"
  <2>1. mem = disk
    BY <1>4 DEF IInv, LaunchSaved, LaunchCalls
  <2>2. r \in RestartReplies(site[t], mem[t].handle, "continuation", mem[t].cont)
    BY <1>4 DEF Replies
  <2>3. Evidence(r.site, mem[t]) /\ Fine(site[t], mem[t], r.site, mem[t])
    BY <1>4, <2>2, ContinueAnswered
  <2>. QED
    BY <2>1, <2>3
<1>5. CASE ctl.call = "terminate"
  <2> DEFINE h == mem[t].handle
  <2>1. r \in TerminateReplies(site[t], h)
    BY <1>5 DEF Replies
  <2> HIDE DEF h
  <2>2. /\ r.site = site[t] \/ r.site \in Deleted(site[t], h)
        /\ Beside(site[t], r.site)
    BY <1>1, <2>1, TerminateEvidence
  <2>3. /\ LiveJobs(r.site) \subseteq LiveJobs(site[t])
        /\ LiveJobs(site[t]) = {} => r.site.work = site[t].work
    BY <1>1, <2>2, DeletedFaithful, DeletedEvidence, Quieter
  <2>. QED
    BY <1>1, <2>2, <2>3, JobsEvident
<1>6. CASE ctl.call = "collect"
  <2>1. mem[t].phase = "collecting" /\ r \in CollectReplies(site[t])
    BY <1>6 DEF EInv, CallEvidence, Replies
  <2>2. mem[t] = disk[t]
    BY <1>1, <2>1, Agreed DEF EInv, Lagging
  <2>3. disk[t].phase = "collecting"
    BY <2>1, <2>2
  <2>. QED
    BY <1>1, <2>1, <2>3, CollectAnswered DEF Gathering
<1>7. CASE ctl.call = "publish"
  <2>1. mem[t].phase = "publishing" /\ r \in PublishReplies(site[t])
    BY <1>7 DEF EInv, CallEvidence, Replies
  <2>2. mem[t] = disk[t]
    BY <1>1, <2>1, Agreed DEF EInv, Lagging
  <2>3. disk[t].phase = "publishing"
    BY <2>1, <2>2
  <2>. QED
    BY <1>1, <2>1, <2>3, PublishAnswered
<1>8. CASE ctl.call = "cleanup"
  <2>1. mem[t].phase = "cleanup_pending"
    BY <1>8 DEF EInv, CallEvidence
  <2>2. mem[t] = disk[t]
    BY <1>1, <2>1, Agreed DEF EInv, Lagging
  <2>3. disk[t].phase = "cleanup_pending"
    BY <2>1, <2>2
  <2>4. r \in CleanupReplies(site[t], mem[t].handle, Retained(mem[t]))
    BY <1>8 DEF Replies
  <2>. QED
    BY <1>1, <2>3, <2>4, CleanupAnswered
<1>9. CASE ctl.call \notin {"submit", "restart", "continue", "terminate", "collect",
                            "publish", "cleanup"}
  <2>1. r.site = site[t]
    BY <1>9 DEF Replies, Reply
  <2>. QED
    BY <1>1, <2>1, CurrentFine DEF Current
<1>. QED
  BY <1>2, <1>3, <1>4, <1>5, <1>6, <1>7, <1>8, <1>9

(* A new controller starts from campaign.json.                              *)
LEMMA CrashUp ==
    ASSUME IInv, WInv, EInv, Crash \/ ControllerRestarts
    PROVE  Upheld
<1>1. disk' = disk /\ mem' = disk /\ ctl'.call = "none"
  BY IdleTyped DEF Crash, ControllerRestarts
<1>2. CASE UNCHANGED site
  <2>1. 1 \in Trials
    BY NumTrialsAssumption DEF Trials
  <2>2. /\ site' = [site EXCEPT ![1] = site[1]]
        /\ Evidence(site[1], disk[1]) /\ Fine(site[1], disk[1], site[1], disk[1])
    BY <1>2, <2>1, CurrentFine DEF IInv, TypeOK, EInv, Current
  <2>. QED
    BY <1>1, <2>1, <2>2, RestoredUp
<1>3. ASSUME ctl.pass \in Passes, ctl.at \in Trials,
             NEW r \in Replies(ctl.at), Answered(ctl.at, r)
      PROVE  Upheld
  <2> DEFINE t == ctl.at
  <2>1. Evidence(r.site, disk[t]) /\ Fine(site[t], disk[t], r.site, disk[t])
    BY <1>3, CrashEvident
  <2>2. site' = [site EXCEPT ![t] = r.site] /\ t \in Trials
    BY <1>3 DEF Answered
  <2> HIDE DEF t
  <2>. QED
    BY <1>1, <2>1, <2>2, RestoredUp
<1>. QED
  BY <1>2, <1>3 DEF Crash, ControllerRestarts

(* Where nothing about the trials changes.                                  *)
LEMMA StillUp ==
    ASSUME EInv, UNCHANGED <<disk, mem, site, ctl>>
    PROVE  Upheld
<1>1. EInv'
  BY DEF EInv, MemoryCurrent, CallEvidence
<1>2. \A u \in Trials : Fine(site[u], disk[u], site'[u], disk'[u])
  BY CurrentFine DEF Current
<1>. QED
  BY <1>1, <1>2 DEF Upheld

(* What happens to one site around the engine.                              *)
LEMMA AroundUp ==
    ASSUME IInv, WInv, EInv, NEW t \in Trials, UNCHANGED <<disk, mem, ctl>>,
           NEW n, site' = [site EXCEPT ![t] = n],
           Evidence(n, disk[t]), Fine(site[t], disk[t], n, disk[t]),
           LiveJobs(n) \subseteq LiveJobs(site[t]),
           site[t].transfer = "none" => n.transfer = "none" /\ n.copy = site[t].copy,
           n.pvc = "released" => site[t].pvc = "released"
    PROVE  Upheld
<1>1. site'[t] = n /\ \A u \in Trials : u # t => site'[u] = site[u]
  BY DEF IInv, TypeOK
<1> DEFINE s == site[ctl.at]
           v == site'[ctl.at]
<1>2. ctl.call \in {"logs", "continue"} =>
        /\ ctl.at \in Trials /\ s.transfer = "none" /\ v.transfer = "none"
        /\ s.copy = "none" /\ v.copy = "none"
        /\ LiveJobs(v) \subseteq LiveJobs(s)
        /\ v.pvc = "released" => s.pvc = "released"
  <2>1. ctl.call \in {"logs", "continue"} => ctl.at \in Trials
    BY DEF WInv, CallTracks, HandleCalls, IInv, LaunchSaved, LaunchCalls
  <2>2. ctl.call = "logs" => s.copy = "none" /\ s.transfer = "none"
    BY DEF EInv, CallEvidence
  <2>3. ctl.call = "continue" => s.copy = "none" /\ s.transfer = "none"
    <3>1. ctl.call = "continue" =>
            ctl.at \in Trials /\ disk[ctl.at].phase = "continuation_retrying"
      BY DEF IInv, LaunchSaved, LaunchCalls
    <3>. QED
      BY <3>1 DEF EInv, CallEvidence, Evidence
  <2>. QED
    BY <1>1, <2>1, <2>2, <2>3
<1>3. CallEvidence'
  BY <1>2 DEF EInv, CallEvidence
<1>4. ctl.pass # "raised" \/ ctl'.pass = "raised"
  OBVIOUS
<1>. QED
  BY <1>3, <1>4, SiteUp

(* A Job ends or is deleted.                                                *)
LEMMA JobFinishesUp ==
    ASSUME IInv, WInv, EInv, NEW t \in Trials, JobFinishes(t) \/ JobLoss(t)
    PROVE  Upheld
<1> DEFINE s == site[t]
<1>1. s \in Site /\ UNCHANGED <<disk, mem, ctl>>
  BY DEF IInv, TypeOK, JobFinishes, JobLoss
<1>2. PICK n \in JobOutcomes(s) \cup JobVanishes(s) : site' = [site EXCEPT ![t] = n]
  BY DEF JobFinishes, JobLoss
<1>3. /\ Beside(s, n) /\ LiveJobs(n) \subseteq LiveJobs(s)
      /\ LiveJobs(s) = {} => n.work = s.work
  <2>1. CASE n \in JobOutcomes(s)
    <3>1. PICK j \in LiveJobs(s), e \in {"succeeded", "failed", "retryable"}, w \in Work :
            n = [s EXCEPT !.jobs[j] = e, !.work = w]
      <4> HIDE DEF s
      <4>. QED
        BY <1>1, <2>1, JobEnded
    <3>2. Beside(s, n)
      BY <1>1, <3>1 DEF Site, Beside
    <3>3. StartsOnly({}, s, n)
      BY <1>1, <2>1, WorldFaithful
    <3>. QED
      BY <1>1, <3>1, <3>2, <3>3, Quieter
  <2>2. CASE n \in JobVanishes(s)
    <3>1. PICK k : n \in Deleted(s, k)
      BY <2>2 DEF JobVanishes
    <3>2. StartsOnly({}, s, n)
      BY <1>1, <2>2, WorldFaithful
    <3>. QED
      BY <1>1, <3>1, <3>2, DeletedEvidence, Quieter
  <2>. QED
    BY <1>2, <2>1, <2>2
<1>4. Evidence(n, disk[t]) /\ Fine(s, disk[t], n, disk[t])
  BY <1>3, JobsEvident
<1>. QED
  BY <1>1, <1>2, <1>3, <1>4, AroundUp DEF Beside

(* A collection Job ends.                                                   *)
LEMMA TransferFinishesUp ==
    ASSUME IInv, WInv, EInv, NEW t \in Trials, TransferFinishes(t)
    PROVE  Upheld
<1> DEFINE s == site[t]
           d == disk[t]
<1>1. /\ s \in Site /\ UNCHANGED <<disk, mem, ctl>> /\ s.transfer = "active"
      /\ Evidence(s, d)
  BY DEF IInv, TypeOK, TransferFinishes, EInv
<1>2. PICK n \in TransferOutcomes(s) : site' = [site EXCEPT ![t] = n]
  BY DEF TransferFinishes
<1>3. /\ n.jobs = s.jobs /\ n.pvc = s.pvc /\ n.work = s.work /\ n.published = s.published
      /\ n.copy = s.copy \/ (s.copy = "none" /\ n.copy = s.work)
  <2>1. \/ n \in {[s EXCEPT !.transfer = "failed"], [s EXCEPT !.transfer = "complete"]}
        \/ s.copy = "none" /\ n = [s EXCEPT !.copy = s.work]
    <3> HIDE DEF s
    <3>. QED
      BY DEF TransferOutcomes
  <2>2. s \in Site
    BY <1>1
  <2> HIDE DEF s
  <2>. QED
    BY <2>1, <2>2 DEF Site
<1>4. LiveJobs(n) = LiveJobs(s)
  BY <1>3 DEF LiveJobs
<1>5. Evidence(n, d)
  <2>1. d.phase \notin Early \cup {"continuation_retrying", "complete"}
    BY <1>1 DEF Evidence
  <2>2. s.work # "none"
    BY <1>1 DEF Site, Work
  <2> HIDE DEF s, d
  <2>. QED
    BY <1>1, <1>3, <1>4, <2>1, <2>2 DEF Evidence
<1>6. Fine(s, d, n, d)
  BY <1>3 DEF Fine, CustodyStep, Turn, Storage, OnRecord
<1>. QED
  BY <1>1, <1>2, <1>3, <1>4, <1>5, <1>6, AroundUp

(* A storage is lost.                                                       *)
LEMMA StorageLossUp ==
    ASSUME IInv, WInv, EInv, NEW t \in Trials, StorageLoss(t)
    PROVE  Upheld
<1> DEFINE s == site[t]
           d == disk[t]
           n == StorageVanishes(s)
<1>1. /\ s \in Site /\ UNCHANGED <<disk, mem, ctl>> /\ s.pvc = "bound"
      /\ Evidence(s, d) /\ site' = [site EXCEPT ![t] = n]
  BY DEF IInv, TypeOK, StorageLoss, EInv
<1>2. /\ n.pvc = "lost" /\ n.work = s.work /\ n.published = s.published /\ n.copy = s.copy
      /\ \A j \in JobNames : n.jobs[j] = "absent"
      /\ s.transfer = "none" => n.transfer = "none"
  BY <1>1 DEF StorageVanishes, Site
<1> HIDE DEF n
<1>3. LiveJobs(n) = {}
  BY <1>2 DEF LiveJobs
<1>4. Evidence(n, d)
  <2> HIDE DEF s, d
  <2>. QED
    BY <1>1, <1>2, <1>3 DEF Evidence
<1>5. Fine(s, d, n, d)
  BY <1>1, <1>2 DEF Fine, CustodyStep, Turn, Storage, OnRecord
<1>. QED
  BY <1>1, <1>2, <1>3, <1>4, <1>5, AroundUp

-----------------------------------------------------------------------------
(* The invariant.                                                           *)

(* A new campaign holds no evidence.                                        *)
LEMMA InitEvident == Init => EInv
<1> SUFFICES ASSUME Init PROVE EInv
  OBVIOUS
<1>1. ASSUME NEW t \in Trials
      PROVE  Evidence(site[t], disk[t])
  <2>1. site[t] = EmptySite /\ disk[t] = NewEntry
    BY DEF Init
  <2>2. /\ LiveJobs(EmptySite) = {} /\ EmptySite.published = "none" /\ EmptySite.pvc = "none"
        /\ EmptySite.copy = "none" /\ EmptySite.transfer = "none"
        /\ NewEntry.phase = "pending"
    BY DEF LiveJobs, EmptySite, NewEntry
  <2>3. Evidence(EmptySite, NewEntry)
    BY <2>2 DEF Evidence, Gathering, Judged, Decided
  <2>. QED
    BY <2>1, <2>3
<1>2. MemoryCurrent
  BY DEF Init, MemoryCurrent, Current
<1>3. CallEvidence
  BY IdleTyped DEF Init, CallEvidence
<1>. QED
  BY <1>1, <1>2, <1>3 DEF EInv

(* Every step upholds the evidence and is a step of every trial's custody.  *)
LEMMA NextUp == IInv /\ WInv /\ EInv /\ [Next]_vars => Upheld
<1> SUFFICES ASSUME IInv, WInv, EInv, [Next]_vars PROVE Upheld
  OBVIOUS
<1>1. CASE Walk
  BY <1>1, StartAdvanceUp, PassUp, AskCapacityUp DEF Walk
<1>2. ASSUME NEW t \in Trials, EngineStep(t)
      PROVE  Upheld
  <2>1. CASE BeginSubmit(t) \/ SubmitReturns(t)
    BY <2>1, BeginSubmitUp, SubmitReturnsUp
  <2>2. CASE BeginRestart(t) \/ RestartReturns(t)
    BY <2>2, BeginRestartUp, RestartReturnsUp
  <2>3. CASE BeginContinue(t) \/ ContinueReturns(t)
    BY <2>3, BeginContinueUp, ContinueReturnsUp
  <2>4. CASE BeginInspect(t) \/ InspectReturns(t) \/ TerminateReturns(t)
    BY <2>4, BeginInspectUp, InspectReturnsUp, TerminateReturnsUp
  <2>5. CASE LogsReturn(t) \/ BeginCollect(t) \/ CollectReturns(t)
    BY <2>5, LogsReturnUp, BeginCollectUp, CollectReturnsUp
  <2>6. CASE BeginEvaluate(t) \/ EvaluateReturns(t)
    BY <2>6, BeginEvaluateUp, EvaluateReturnsUp
  <2>7. CASE BeginPublish(t) \/ PublishReturns(t)
    BY <2>7, BeginPublishUp, PublishReturnsUp
  <2>8. CASE BeginCleanup(t) \/ CleanupReturns(t)
    BY <2>8, BeginCleanupUp, CleanupReturnsUp
  <2>. QED
    BY <1>2, <2>1, <2>2, <2>3, <2>4, <2>5, <2>6, <2>7, <2>8 DEF EngineStep
<1>3. ASSUME NEW t \in Trials, RequestContinuation(t)
      PROVE  Upheld
  BY <1>3, RequestContinuationUp
<1>4. CASE Crash \/ ControllerRestarts
  BY <1>4, CrashUp
<1>5. ASSUME NEW t \in Trials, World(t) \/ JobLoss(t) \/ StorageLoss(t)
      PROVE  Upheld
  <2>1. CASE RetryTimeArrives(t)
    BY <2>1, StillUp DEF RetryTimeArrives
  <2>. QED
    BY <1>5, <2>1, JobFinishesUp, TransferFinishesUp, StorageLossUp DEF World
<1>6. CASE UNCHANGED vars
  BY <1>6, StillUp DEF vars
<1>. QED
  BY <1>1, <1>2, <1>3, <1>4, <1>5, <1>6 DEF Next

-----------------------------------------------------------------------------
(* The theorems.                                                            *)

(* The evidence every trial is judged on and released after is there in
   every state of every campaign, wherever calls are lost or refused and
   wherever the controller dies.                                            *)
THEOREM EvidenceInvariant == Spec => []EInv
<1>1. IInv /\ WInv /\ EInv /\ [Next]_vars => EInv'
  BY NextUp DEF Upheld
<1>. QED
  BY <1>1, Invariant, WorkloadsTracked, InitEvident, PTL DEF Spec

(* No trial is judged, published or cleaned up while a workload of it runs,
   or on a copy that is not what its workload left.                         *)
THEOREM JudgedOnFinalEvidence == Spec => []EvidenceIsFinal
<1>1. EInv => EvidenceIsFinal
  BY DEF EInv, Evidence, EvidenceIsFinal
<1>. QED
  BY <1>1, EvidenceInvariant, PTL

(* A released storage left its last contents on the results volume and its
   outcome in campaign.json, and its trial never goes back to run on it
   unless an operator continues it.                                         *)
THEOREM ReleasedOnceRecorded == Spec => []ReleasedAfterPublication
<1>1. EInv => ReleasedAfterPublication
  BY DEF EInv, Evidence, ReleasedAfterPublication
<1>. QED
  BY <1>1, EvidenceInvariant, PTL

(* A complete trial leaves no workload Job, no collection Job and, without
   retention, no storage behind.                                            *)
THEOREM CompleteLeavesNothing == Spec => []CompleteIsClean
<1>1. EInv => CompleteIsClean
  BY DEF EInv, Evidence, CompleteIsClean, Judged
<1>. QED
  BY <1>1, EvidenceInvariant, PTL

(* Once decided, an outcome is never judged again: the trial is published,
   cleaned up, complete or asks for attention with that outcome, until it is
   continued.                                                               *)
THEOREM DecisionsStand == Spec => OutcomeIsFinal
<1>1. Upheld => (\A t \in Trials : disk[t].phase \in Decided =>
            /\ disk'[t].phase \in Decided \cup {"attention_required", "continuation_retrying"}
            /\ disk'[t].outcome = disk[t].outcome)
  BY DEF Upheld, Fine, Turn
<1>2. IInv /\ WInv /\ EInv /\ [Next]_vars =>
        [\A t \in Trials : disk[t].phase \in Decided =>
            /\ disk'[t].phase \in Decided \cup {"attention_required", "continuation_retrying"}
            /\ disk'[t].outcome = disk[t].outcome]_vars
  BY <1>1, NextUp
<1>. QED
  BY <1>2, Invariant, WorkloadsTracked, EvidenceInvariant, PTL DEF Spec, OutcomeIsFinal

-----------------------------------------------------------------------------
(* The custody.                                                             *)

(* A step of one trial's custody, read off the entries and the sites.       *)
LEMMA CustodyRead ==
    ASSUME NEW t \in Trials
    PROVE  /\ Custody!Stays(t) <=> Stage(disk'[t]) = Stage(disk[t])
           /\ Custody!Held(t) <=> Storage(site'[t]) = Storage(site[t])
           /\ Custody!Kept(t) <=> (OnRecord(site'[t]) <=> OnRecord(site[t]))
<1>1. Custody!Stays(t) <=> Stage(disk'[t]) = Stage(disk[t])
  BY DEF Custody!Stays, Stage
<1>2. Custody!Held(t) <=> Storage(site'[t]) = Storage(site[t])
  BY DEF Custody!Held, Storage
<1>3. Custody!Kept(t) <=> (OnRecord(site'[t]) <=> OnRecord(site[t]))
  BY DEF Custody!Kept, OnRecord
<1>. QED
  BY <1>1, <1>2, <1>3

(* Every move of a trial is a move of its custody.                          *)
LEMMA CustodyMoves ==
    ASSUME NEW t \in Trials,
           CustodyStep(Stage(disk[t]), Stage(disk'[t]), Storage(site[t]), Storage(site'[t]),
                       OnRecord(site[t]), OnRecord(site'[t]))
    PROVE  Custody!Step(t) \/ (Custody!Stays(t) /\ Custody!Held(t) /\ Custody!Kept(t))
<1> DEFINE a == Stage(disk[t])
           b == Stage(disk'[t])
           u == Storage(site[t])
           v == Storage(site'[t])
           p == OnRecord(site[t])
           q == OnRecord(site'[t])
<1>1. ASSUME NEW from, NEW to, a \in from, b = to, u = v, p <=> q
      PROVE  Custody!Moves(t, from, to)
  <2>1. Custody!Held(t) /\ Custody!Kept(t)
    BY <1>1, CustodyRead
  <2>. QED
    BY <1>1, <2>1 DEF Custody!Moves, Stage
<1>2. CASE a = b /\ u = v /\ (p <=> q)
  BY <1>2, CustodyRead
<1>3. CASE /\ a = "launching" /\ u \in {"none", "lost"} /\ v = "held" /\ ~q
           /\ b \in {"launching", "executing", "stuck"}
  BY <1>3 DEF Custody!Provide, Custody!Step, Stage, Storage, OnRecord
<1>4. CASE u = "held" /\ v = "lost" /\ a = b /\ (p <=> q)
  <2>1. Custody!Stays(t) /\ Custody!Kept(t)
    BY <1>4, CustodyRead
  <2>. QED
    BY <1>4, <2>1 DEF Custody!Lose, Custody!Step, Storage
<1>5. CASE /\ a \in {"launching", "executing", "stuck"} /\ u = "held" /\ v = "held"
           /\ a = b \/ (a = "executing" /\ b = "collecting")
  <2>1. Custody!Held(t) /\ (a = b => Custody!Stays(t))
    BY <1>5, CustodyRead
  <2>. QED
    BY <1>5, <2>1 DEF Custody!Change, Custody!Step, Stage, Storage
<1>6. CASE /\ a = "publishing" /\ u = v
           /\ b \in {"publishing", "stuck"} \/ (b = "cleaning" /\ q)
  <2>1. Custody!Held(t)
    BY <1>6, CustodyRead
  <2>. QED
    BY <1>6, <2>1 DEF Custody!Record, Custody!Step, Stage, OnRecord
<1>7. CASE /\ a = "cleaning" /\ p /\ q /\ u = "held" /\ v = "released"
           /\ b \in {"cleaning", "closed"}
  <2>1. Custody!Kept(t)
    BY <1>7, CustodyRead
  <2>. QED
    BY <1>7, <2>1 DEF Custody!Release, Custody!Step, Stage, Storage, OnRecord
<1>8. CASE /\ u = v /\ (p <=> q)
           /\ \/ a = "waiting" /\ b = "launching"
              \/ a \in {"launching", "closed"} /\ b = "executing"
              \/ a \in {"executing", "stuck"} /\ b = "collecting"
              \/ a = "collecting" /\ b = "judging"
              \/ a \in {"collecting", "judging"} /\ b = "publishing"
              \/ a = "cleaning" /\ b = "closed"
              \/ a \in Custody!Stages \ {"publishing", "cleaning", "closed"} /\ b = "stuck"
  <2>1. Custody!Advance(t)
    <3> HIDE DEF a, b, u, v, p, q
    <3>. QED
      BY <1>1, <1>8 DEF Custody!Advance
  <2>. QED
    BY <2>1 DEF Custody!Step
<1>. QED
  BY <1>2, <1>3, <1>4, <1>5, <1>6, <1>7, <1>8 DEF CustodyStep

(* The engine implements TrialCustody: it keeps the evidence of every trial
   as the custody promises, from the launch to the release of its storage.  *)
THEOREM CustodyIsKept == Spec => KeepsCustody
<1>1. Init => Custody!CustodyInit
  <2> SUFFICES ASSUME Init PROVE Custody!CustodyInit
    OBVIOUS
  <2>1. ASSUME NEW t \in Trials
        PROVE  /\ Stage(disk[t]) = "waiting" /\ Storage(site[t]) = "none"
               /\ OnRecord(site[t]) = FALSE
    <3>1. site[t] = EmptySite /\ disk[t] = NewEntry
      BY DEF Init
    <3>2. /\ EmptySite.published = "none" /\ EmptySite.pvc = "none"
          /\ EmptySite.work = "incomplete"
          /\ NewEntry.phase = "pending" /\ NewEntry.handle = NoJob
      BY DEF EmptySite, NewEntry
    <3>. QED
      BY <3>1, <3>2, Staged DEF Storage, OnRecord
  <2>. QED
    BY <2>1 DEF Custody!CustodyInit, Stage, Storage, OnRecord
<1>2. IInv /\ WInv /\ EInv /\ [Next]_vars => [Custody!CustodyNext]_(Custody!custody)
  <2> SUFFICES ASSUME IInv, WInv, EInv, [Next]_vars PROVE Custody!CustodyNext
    OBVIOUS
  <2>1. Upheld
    BY NextUp
  <2>2. ASSUME NEW t \in Trials
        PROVE  Custody!Step(t) \/ (Custody!Stays(t) /\ Custody!Held(t) /\ Custody!Kept(t))
    BY <2>1, CustodyMoves DEF Upheld, Fine
  <2>. QED
    BY <2>2 DEF Custody!CustodyNext
<1>. QED
  BY <1>1, <1>2, Invariant, WorkloadsTracked, EvidenceInvariant, PTL
     DEF Spec, KeepsCustody, Custody!CustodySpec

-----------------------------------------------------------------------------
(* Admission.                                                               *)

(* The trials that take one of the max_parallel places and got it by asking:
   a continuation starts its Job without asking for a place.                *)
Occupied(m) == {t \in Trials : Occupies(m[t]) /\ m[t].cont = 0}

(* What the fields of one entry say about each other: a workload has a handle
   from the moment it was confirmed, the handle names a generation that was
   charged, a generation that is about to start is not the one of the handle,
   and only a launched trial was continued.                                 *)
Sound(e) ==
    /\ e.phase \in {"submitting", "submission_retry_wait"} => e.handle = NoJob
    /\ e.phase \in {"submitted", "running", "infrastructure_retrying"} => e.handle # NoJob
    /\ \A n \in Nat : /\ e.handle = Restarted(n) => n <= e.infra
                      /\ e.handle = Continued(n) => n <= e.cont
    /\ e.phase = "infrastructure_retrying" /\ "overdue" \notin Faults =>
            e.handle # Restarted(e.infra)
    /\ e.phase = "continuation_retrying" =>
            e.handle # Continued(e.cont) /\ e.cont # 0
    /\ Unlaunched(e) => e.cont = 0

(* Slots are only given out in the admit pass and while no trial waits for
   collection or evaluation, and workloads are only ended when overdue.     *)
Admission ==
    /\ ctl.call = "capacity" => ctl.pass = "admit" /\ ctl.slots = 0
    /\ ctl.pass = "admit" => ctl.call \in {"none", "submit", "capacity"}
    /\ ctl.slots > 0 => ctl.pass = "admit"
    /\ ctl.call = "terminate" => "overdue" \in Faults
    /\ ctl.slots > 0 \/ ctl.call = "capacity" =>
            \A t \in Trials : /\ mem[t].phase \notin EvaluationPriority
                              /\ disk[t].phase \notin EvaluationPriority

(* The slots nobody has taken yet.                                          *)
Free == IF ctl.pass = "admit" /\ ctl.call = "submit" THEN ctl.slots - 1 ELSE ctl.slots

(* The places taken and the slots left never exceed max_parallel.           *)
Parallel ==
    /\ Cardinality(Occupied(disk)) <= MaxParallel
    /\ Cardinality(Occupied(mem)) + Free <= MaxParallel

(* What the saved status says, unless a pause says it.                      *)
Settled ==
    /\ status = "complete" => \A t \in Trials : disk[t].phase = "complete"
    /\ status = "attention_required" /\ "attention_required" \notin PauseStatuses =>
            /\ \A t \in Trials : disk[t].phase \in Stuck \cup {"complete"}
            /\ \E t \in Trials : disk[t].phase # "complete"

AInv ==
    /\ Admission /\ Parallel /\ Settled
    /\ \A t \in Trials : Sound(mem[t]) /\ Sound(disk[t])

(* Collection and evaluation go before new workloads.                       *)
Priority ==
    \A t, u \in Trials : disk[t].phase = "pending" /\ disk'[t].phase = "submitting" =>
        disk[u].phase \notin EvaluationPriority

InOrder == AInv' /\ Priority

-----------------------------------------------------------------------------
(* Most steps take no place and give out no slot.                           *)

(* Counting.                                                                *)
LEMMA PlacesCounted ==
    /\ \A m : Cardinality(Occupied(m)) \in Nat
    /\ \A m, n : Occupied(n) \subseteq Occupied(m) =>
            Cardinality(Occupied(n)) <= Cardinality(Occupied(m))
    /\ \A m, n, t : Occupied(n) \subseteq Occupied(m) \cup {t} =>
            Cardinality(Occupied(n)) <= Cardinality(Occupied(m)) + 1
    /\ \A m, n : \A t \in Occupied(m) : Occupied(n) \subseteq Occupied(m) \ {t} =>
            Cardinality(Occupied(n)) <= Cardinality(Occupied(m)) - 1
<1>1. IsFiniteSet(Trials)
  BY NumTrialsAssumption, FS_Interval DEF Trials
<1>2. ASSUME NEW m
      PROVE  IsFiniteSet(Occupied(m)) /\ Cardinality(Occupied(m)) \in Nat
  <2>1. Occupied(m) \subseteq Trials
    BY DEF Occupied
  <2>. QED
    BY <1>1, <2>1, FS_Subset, FS_CardinalityType
<1>3. ASSUME NEW m, NEW n, Occupied(n) \subseteq Occupied(m)
      PROVE  Cardinality(Occupied(n)) <= Cardinality(Occupied(m))
  BY <1>2, <1>3, FS_Subset
<1>4. ASSUME NEW m, NEW n, NEW t, Occupied(n) \subseteq Occupied(m) \cup {t}
      PROVE  Cardinality(Occupied(n)) <= Cardinality(Occupied(m)) + 1
  <2>1. /\ IsFiniteSet(Occupied(m) \cup {t})
        /\ Cardinality(Occupied(m) \cup {t}) \in
                {Cardinality(Occupied(m)), Cardinality(Occupied(m)) + 1}
    BY <1>2, FS_AddElement
  <2>2. Cardinality(Occupied(n)) <= Cardinality(Occupied(m) \cup {t})
    BY <1>4, <2>1, FS_Subset
  <2>. QED
    BY <1>2, <2>1, <2>2
<1>5. ASSUME NEW m, NEW n, NEW t \in Occupied(m), Occupied(n) \subseteq Occupied(m) \ {t}
      PROVE  Cardinality(Occupied(n)) <= Cardinality(Occupied(m)) - 1
  <2>1. /\ IsFiniteSet(Occupied(m) \ {t})
        /\ Cardinality(Occupied(m) \ {t}) = Cardinality(Occupied(m)) - 1
    BY <1>2, FS_RemoveElement
  <2>2. Cardinality(Occupied(n)) <= Cardinality(Occupied(m) \ {t})
    BY <1>5, <2>1, FS_Subset
  <2>. QED
    BY <2>1, <2>2
<1>. QED
  BY <1>2, <1>3, <1>4, <1>5

(* No slot is left and none is asked for.                                   *)
Course ==
    /\ ctl'.slots = 0 /\ ctl'.call # "capacity"
    /\ ctl'.call = "terminate" => "overdue" \in Faults
    /\ ctl'.pass = "admit" => ctl'.call = "none"

(* What is saved goes on or is a pause.                                     *)
Stated == \/ disk' = mem' /\ status' \in {"running"} \cup PauseStatuses
          \/ UNCHANGED <<disk, status>>

(* The entry e may become f.                                                *)
Kept(e, f) ==
    /\ Sound(f)
    /\ Occupies(f) /\ f.cont = 0 => Occupies(e) /\ e.cont = 0
    /\ f.phase = "submitting" => e.phase \in {"submitting", "submission_retry_wait"}

(* The phases of a trial that takes no place.                               *)
Resting == {"collecting", "collection_pending", "collection_retry_wait", "collection_failed",
            "evaluating", "evaluation_pending", "publishing", "publication_pending",
            "cleanup_pending", "complete", "attention_required"}

(* A trial that goes on without a new workload.                             *)
LEMMA RestsKept ==
    ASSUME NEW e, Sound(e), NEW f, SameJobs(e, f), f.live => e.live,
           f.phase \in Resting \cup {e.phase}
    PROVE  Kept(e, f)
<1>1. Sound(f)
  BY DEF Sound, SameJobs, Resting, Unlaunched
<1>2. Occupies(f) => Occupies(e)
  <2>1. CASE f.phase = e.phase
    BY <2>1 DEF Occupies, SameJobs
  <2>2. CASE f.phase \in Resting
    BY <2>2 DEF Occupies, SameJobs, Resting
  <2>. QED
    BY <2>1, <2>2
<1>. QED
  BY <1>1, <1>2 DEF Kept, Resting, SameJobs

(* As many slots are free as the control holds, or one less.                *)
LEMMA FreeBounded ==
    ASSUME IInv
    PROVE  Free \in Nat
BY DEF IInv, TypeOK, Control, SlotLeft, Free

(* It leaves nothing to give out.                                           *)
LEMMA CourseAdmits ==
    ASSUME Course
    PROVE  Admission' /\ Free' = 0
BY DEF Course, Admission, Free

(* A status that is saved while the walk goes on says nothing.              *)
LEMMA StatedSettles ==
    ASSUME AInv, Stated
    PROVE  Settled' /\ (disk' = mem' \/ disk' = disk)
BY PauseAssumption DEF Stated, AInv, Settled

(* The invariant after a step from the entries `base` of memory or disk.    *)
LEMMA Upkeep ==
    ASSUME IInv, AInv, Admission', Free' = 0, Settled', disk' = mem' \/ disk' = disk,
           NEW base \in {mem, disk}, \A t \in Trials : Kept(base[t], mem'[t])
    PROVE  AInv'
<1>1. Parallel'
  <2> SUFFICES /\ Cardinality(Occupied(disk')) <= MaxParallel
               /\ Cardinality(Occupied(mem')) + Free' <= MaxParallel
    BY DEF Parallel, Occupied
  <2>1. Occupied(mem') \subseteq Occupied(base)
    BY DEF Occupied, Kept
  <2>2. Cardinality(Occupied(disk)) <= MaxParallel /\ Cardinality(Occupied(base)) <= MaxParallel
    <3>1. Cardinality(Occupied(mem)) \in Nat /\ Free \in Nat /\ MaxParallel \in Nat
      BY PlacesCounted, FreeBounded, PlanAssumption
    <3>2. /\ Cardinality(Occupied(disk)) <= MaxParallel
          /\ Cardinality(Occupied(mem)) + Free <= MaxParallel
      BY DEF AInv, Parallel
    <3>3. Cardinality(Occupied(mem)) <= MaxParallel
      BY <3>1, <3>2
    <3>. QED
      BY <3>2, <3>3
  <2>3. Cardinality(Occupied(mem')) <= MaxParallel
    BY <2>1, <2>2, PlacesCounted, PlanAssumption
  <2>4. Cardinality(Occupied(disk')) <= MaxParallel
    BY <2>2, <2>3
  <2>. QED
    BY <2>3, <2>4, PlacesCounted
<1>2. \A t \in Trials : Sound(mem'[t]) /\ Sound(disk'[t])
  BY DEF AInv, Kept
<1>. QED
  BY <1>1, <1>2 DEF AInv

(* No trial is admitted by a step that takes no new submission up.          *)
LEMMA PriorityKept ==
    ASSUME EInv, ctl.pass # "raised", disk' = mem' \/ disk' = disk,
           \A t \in Trials : mem'[t].phase = "submitting" =>
                mem[t].phase \in {"submitting", "submission_retry_wait"}
    PROVE  Priority
<1>1. ASSUME NEW t \in Trials, disk[t].phase = "pending", disk'[t].phase = "submitting"
      PROVE  FALSE
  <2>1. mem[t].phase \in {"submitting", "submission_retry_wait"}
    BY <1>1
  <2>2. mem[t] = disk[t]
    BY <2>1, Agreed DEF EInv, Lagging
  <2>. QED
    BY <1>1, <2>1, <2>2
<1>. QED
  BY <1>1 DEF Priority

(* So it suffices to look at the trial whose entry changes,                 *)
LEMMA TrialAdmits ==
    ASSUME IInv, EInv, AInv, ctl.pass # "raised", Stated, Course, NEW t \in Trials,
           \A u \in Trials : u # t => mem'[u] = mem[u], Kept(mem[t], mem'[t])
    PROVE  InOrder
<1>1. ASSUME NEW u \in Trials
      PROVE  Kept(mem[u], mem'[u])
  BY DEF Kept, AInv
<1>2. Settled' /\ (disk' = mem' \/ disk' = disk) /\ Admission' /\ Free' = 0
  BY StatedSettles, CourseAdmits
<1>3. AInv'
  BY <1>1, <1>2, Upkeep
<1>4. Priority
  BY <1>1, <1>2, PriorityKept DEF Kept
<1>. QED
  BY <1>3, <1>4 DEF InOrder

(* which mostly goes on without a new workload.                             *)
Rests(e, f) == SameJobs(e, f) /\ (f.live => e.live) /\ f.phase \in Resting \cup {e.phase}
LEMMA RestsAdmits ==
    ASSUME IInv, EInv, AInv, ctl.pass # "raised", Stated, Course, NEW t \in Trials,
           \A u \in Trials : u # t => mem'[u] = mem[u], Rests(mem[t], mem'[t])
    PROVE  InOrder
<1>1. Kept(mem[t], mem'[t])
  BY RestsKept DEF AInv, Rests
<1>. QED
  BY <1>1, TrialAdmits

LEMMA StillAdmits ==
    ASSUME IInv, EInv, AInv, ctl.pass # "raised", Stated, Course, UNCHANGED mem
    PROVE  InOrder
<1>1. 1 \in Trials /\ Rests(mem[1], mem'[1])
  BY NumTrialsAssumption DEF Trials, Rests, SameJobs
<1>. QED
  BY <1>1, RestsAdmits

(* Where the control goes outside the admit pass.                           *)
LEMMA Courses ==
    ASSUME IInv, AInv, ctl.pass # "admit"
    PROVE  /\ NextTrial => Course
           /\ \A n : ctl' = [ctl EXCEPT !.at = n] => Course
           /\ \A c \in Calls \ {"capacity", "terminate"} :
                /\ Issue(c) => Course
                /\ \A n : At(n, c) => Course
                /\ \A x : ctl' = [ctl EXCEPT !.call = c, !.seen = x] => Course
                /\ \A n, x : ctl' = [ctl EXCEPT !.at = n, !.call = c, !.seen = x] => Course
                /\ \A n, x : ctl' = [ctl EXCEPT !.at = n, !.call = c, !.bare = x] => Course
           /\ "overdue" \in Faults => (Issue("terminate") => Course)
<1>1. /\ ctl \in Control /\ ctl.slots = 0 /\ ctl.call # "capacity"
      /\ ctl.call = "terminate" => "overdue" \in Faults
  BY DEF IInv, TypeOK, Control, AInv, Admission
<1>. QED
  BY <1>1 DEF Course, NextTrial, Issue, At, Control

(* The walk ends.                                                           *)
LEMMA EndsCourse ==
    /\ ctl' = Idle => Course
    /\ ctl' = [Idle EXCEPT !.pass = "raised"] => Course
    /\ ctl' = [Idle EXCEPT !.pass = "submit"] => Course
BY DEF Course, Idle

(* What the vocabulary of the actions saves and says.                       *)
LEMMA Says ==
    /\ \A m : Save(m) => mem' = m /\ Stated
    /\ \A m : Keep(m) => mem' = m /\ Stated
    /\ \A m : Paused(m) => mem' = m /\ Stated /\ Course
    /\ \A m : Raised(m) => mem' = m /\ Stated /\ Course
<1>1. \A m, x : Saved(m, x) /\ x \in {"running"} \cup PauseStatuses => mem' = m /\ Stated
  BY DEF Saved, Stated
<1>2. ASSUME NEW m, Paused(m)
      PROVE  mem' = m /\ Stated /\ Course
  BY <1>1, <1>2, EndsCourse DEF Paused
<1>. QED
  BY <1>1, <1>2, EndsCourse DEF Save, Keep, Raised, Stated

-----------------------------------------------------------------------------
(* The walk.                                                                *)

LEMMA RecoveredRests ==
    ASSUME NEW m \in Table, NEW t \in Trials
    PROVE  Rests(m[t], Recovered(m)[t])
<1> DEFINE e == m[t]
           f == Recovered(m)[t]
<1>1. /\ SameJobs(e, f) /\ f.live = e.live
      /\ \/ f.phase = e.phase
         \/ f.phase \in {"collection_pending", "evaluation_pending", "publication_pending"}
  BY DEF Recovered, SameJobs, Table, Entry
<1> HIDE DEF e, f
<1>2. Rests(e, f)
  BY <1>1 DEF Rests, Resting
<1>. QED
  BY <1>2 DEF e, f

LEMMA StartAdvanceAdmits ==
    ASSUME IInv, EInv, AInv, StartAdvance
    PROVE  InOrder
<1>1. /\ mem' = Recovered(disk) /\ disk' = mem' /\ disk \in Table /\ ctl.pass # "raised"
      /\ Course /\ Stated
  BY EndsCourse DEF StartAdvance, Saved, Stated, IInv, TypeOK, Table
<1>2. ASSUME NEW t \in Trials
      PROVE  Kept(disk[t], mem'[t])
  BY <1>1, RecoveredRests, RestsKept DEF AInv, Rests
<1>3. AInv'
  BY <1>1, <1>2, StatedSettles, CourseAdmits, Upkeep
<1>4. Priority
  BY <1>1, <1>2 DEF Priority, Kept
<1>. QED
  BY <1>3, <1>4 DEF InOrder

LEMMA RequestContinuationAdmits ==
    ASSUME IInv, EInv, AInv, NEW t \in Trials, RequestContinuation(t)
    PROVE  InOrder
<1> DEFINE m == Recovered(disk)
           n == [m EXCEPT ![t].phase = "continuation_retrying",
                          ![t].cont = @ + 1, ![t].live = FALSE]
<1>1. /\ disk \in Table /\ m \in Table /\ ctl' = ctl /\ ctl.pass = "idle"
      /\ disk[t].cont < MaxContinuations /\ disk[t].cont \in Nat /\ mem' = n /\ disk' = n
      /\ Stated
  BY RecoveredTyped DEF RequestContinuation, Save, Saved, Stated, IInv, TypeOK, Table, Entry
<1>2. Course
  BY <1>1 DEF IInv, TypeOK, Control, AInv, Admission, Course
<1>3. \A u \in Trials : Rests(disk[u], m[u])
  BY <1>1, RecoveredRests
<1> HIDE DEF m
<1>4. /\ \A u \in Trials : u # t => n[u] = m[u]
      /\ n[t].phase = "continuation_retrying" /\ n[t].handle = m[t].handle
      /\ n[t].infra = m[t].infra /\ n[t].cont = m[t].cont + 1
  BY <1>1 DEF Table, Entry
<1> HIDE DEF n
<1>5. ASSUME NEW u \in Trials
      PROVE  Kept(disk[u], mem'[u])
  <2>1. CASE u = t
    <3>1. /\ n[t].handle = disk[t].handle /\ n[t].infra = disk[t].infra
          /\ n[t].cont = disk[t].cont + 1
      BY <1>3, <1>4 DEF Rests, SameJobs
    <3>2. Sound(disk[t])
      BY DEF AInv
    <3>3. n[t].cont # 0
      BY <1>1, <3>1
    <3>4. Sound(n[t])
      <4>1. \A k \in Nat : /\ n[t].handle = Restarted(k) => k <= n[t].infra
                           /\ n[t].handle = Continued(k) => k <= disk[t].cont
        BY <3>1, <3>2 DEF Sound
      <4>2. disk[t].handle # Continued(disk[t].cont + 1)
        BY <1>1, <3>1, <4>1
      <4>. QED
        BY <1>1, <1>4, <3>1, <3>3, <4>1, <4>2 DEF Sound, Unlaunched
    <3>. QED
      BY <1>1, <1>4, <2>1, <3>3, <3>4 DEF Kept
  <2>2. CASE u # t
    BY <1>1, <1>3, <1>4, <2>2, RestsKept DEF AInv, Rests
  <2>. QED
    BY <2>1, <2>2
<1>6. AInv'
  BY <1>1, <1>2, <1>5, StatedSettles, CourseAdmits, Upkeep
<1>7. Priority
  BY <1>1, <1>5 DEF Priority, Kept
<1>. QED
  BY <1>6, <1>7 DEF InOrder

LEMMA NextPassAdmits ==
    ASSUME IInv, EInv, AInv, NextPass
    PROVE  InOrder
<1>1. /\ ctl.pass \in Passes \ {"admit"} /\ ctl.call = "none" /\ UNCHANGED <<disk, mem, status>>
      /\ ctl'.slots = ctl.slots /\ ctl'.call = "none" /\ ctl \in Control
  BY DEF NextPass, Done, Passes, IInv, TypeOK, Control
<1>2. Course
  BY <1>1 DEF Control, AInv, Admission, Course
<1>. QED
  BY <1>1, <1>2, StillAdmits DEF Stated, Passes

(* Room is only left when no trial waits for collection or evaluation.      *)
LEMMA RoomLeft ==
    ASSUME Room > 0
    PROVE  /\ \A t \in Trials : mem[t].phase \notin EvaluationPriority
           /\ Room <= MaxParallel - Cardinality(Occupied(mem))
<1> DEFINE active == {t \in Trials : Occupies(mem[t])}
<1>1. /\ \A t \in Trials : mem[t].phase \notin EvaluationPriority
      /\ Room = MaxParallel - Cardinality(active)
  BY DEF Room
<1>2. IsFiniteSet(active)
  <2>1. IsFiniteSet(Trials) /\ active \subseteq Trials
    BY NumTrialsAssumption, FS_Interval DEF Trials
  <2>. QED
    BY <2>1, FS_Subset
<1>3. Occupied(mem) \subseteq active
  BY DEF Occupied
<1> HIDE DEF active
<1>4. /\ Cardinality(Occupied(mem)) <= Cardinality(active)
      /\ Cardinality(active) \in Nat /\ Cardinality(Occupied(mem)) \in Nat
  BY <1>2, <1>3, FS_Subset, FS_CardinalityType, PlacesCounted
<1>. QED
  BY <1>1, <1>4, PlanAssumption

LEMMA AskCapacityAdmits ==
    ASSUME IInv, EInv, AInv, AskCapacity
    PROVE  InOrder
<1>1. /\ ctl.pass = "reconcile" /\ Room > 0 /\ disk' = disk /\ status' = status
      /\ ctl \in Control /\ mem \in Table
      /\ ctl' = [ctl EXCEPT !.pass = "admit", !.at = 1, !.call = "capacity"]
  BY DEF AskCapacity, Done, Keep, IInv, TypeOK, Table
<1>2. /\ ctl'.pass = "admit" /\ ctl'.call = "capacity" /\ ctl'.slots = 0
  BY <1>1 DEF Control, AInv, Admission
<1>3. ASSUME NEW u \in Trials
      PROVE  Rests(mem[u], mem'[u]) /\ mem'[u].phase \in {mem[u].phase, "attention_required"}
  <2>1. \/ mem'[u] = mem[u]
        \/ mem'[u] = [mem[u] EXCEPT !.phase = "attention_required"]
    BY DEF AskCapacity, Keep
  <2>. QED
    BY <1>1, <2>1 DEF Table, Entry, Rests, Resting, SameJobs
<1>4. ASSUME NEW u \in Trials
      PROVE  mem'[u].phase \notin EvaluationPriority /\ disk'[u].phase \notin EvaluationPriority
  <2>1. mem[u].phase \notin EvaluationPriority
    BY <1>1, RoomLeft
  <2>2. Current(mem[u], disk[u])
    BY <1>1 DEF EInv, MemoryCurrent
  <2>. QED
    BY <1>1, <1>3, <2>1, <2>2 DEF Current, Lagged, Lagging, EvaluationPriority
<1>5. Admission' /\ Free' = 0
  BY <1>2, <1>4 DEF Admission, Free
<1>6. Settled'
  BY <1>1, StatedSettles DEF Stated
<1>7. \A u \in Trials : Kept(mem[u], mem'[u])
  BY <1>3, RestsKept DEF AInv, Rests
<1>8. AInv'
  BY <1>1, <1>5, <1>6, <1>7, Upkeep
<1>. QED
  BY <1>1, <1>8 DEF InOrder, Priority

LEMMA CapacityReturnsAdmits ==
    ASSUME IInv, EInv, AInv, CapacityReturns
    PROVE  InOrder
<1>1. /\ ctl.pass = "admit" /\ ctl.call = "capacity" /\ ctl.slots = 0 /\ ctl \in Control
      /\ \A t \in Trials : /\ mem[t].phase \notin EvaluationPriority
                           /\ disk[t].phase \notin EvaluationPriority
  BY DEF CapacityReturns, Calling, AInv, Admission, IInv, TypeOK
<1>2. CASE Paused(mem)
  BY <1>1, <1>2, Says, StillAdmits
<1>3. ASSUME NEW free \in 0 .. Room, ctl' = [ctl EXCEPT !.call = "none", !.slots = free],
             UNCHANGED <<disk, mem, status>>
      PROVE  InOrder
  <2>1. ctl'.pass = "admit" /\ ctl'.call = "none" /\ ctl'.slots = free
    BY <1>1, <1>3 DEF Control
  <2>2. Admission' /\ Free' = free
    BY <1>1, <1>3, <2>1 DEF Admission, Free
  <2>3. Parallel'
    <3> SUFFICES /\ Cardinality(Occupied(disk)) <= MaxParallel
                 /\ Cardinality(Occupied(mem)) + free <= MaxParallel
      BY <1>3, <2>2 DEF Parallel, Occupied
    <3>1. /\ Cardinality(Occupied(disk)) <= MaxParallel
          /\ Cardinality(Occupied(mem)) + Free <= MaxParallel
      BY DEF AInv, Parallel
    <3>2. Free = 0 /\ Cardinality(Occupied(mem)) \in Nat /\ MaxParallel \in Nat /\ Room \in Nat
      BY <1>1, PlacesCounted, PlanAssumption, RoomBounded DEF Free
    <3>3. CASE Room > 0
      BY <3>1, <3>2, <3>3, RoomLeft
    <3>4. CASE Room = 0
      BY <3>1, <3>2, <3>4
    <3>. QED
      BY <3>1, <3>2, <3>3, <3>4
  <2>4. Settled' /\ \A t \in Trials : Sound(mem'[t]) /\ Sound(disk'[t])
    BY <1>3 DEF AInv, Settled
  <2>. QED
    BY <1>3, <2>2, <2>3, <2>4 DEF InOrder, AInv, Priority
<1>. QED
  BY <1>2, <1>3 DEF CapacityReturns

(* The status of a finished walk is what its trials are.                    *)
LEMMA FinishAdvanceAdmits ==
    ASSUME IInv, EInv, AInv, FinishAdvance
    PROVE  InOrder
<1>1. /\ mem' = mem /\ disk' = mem /\ status' = Aggregate(mem) /\ Course
      /\ ctl.pass # "raised"
  BY EndsCourse DEF FinishAdvance, Saved, Done
<1>2. Settled'
  <2> DEFINE phases == {mem[t].phase : t \in Trials}
  <2>1. 1 \in Trials
    BY NumTrialsAssumption DEF Trials
  <2>2. \/ status' = "complete" /\ phases = {"complete"}
        \/ /\ status' = "attention_required" /\ phases \subseteq Stuck \cup {"complete"}
           /\ phases # {"complete"}
        \/ status' = "running"
    BY <1>1 DEF Aggregate
  <2>3. phases # {"complete"} => \E t \in Trials : mem[t].phase # "complete"
    BY <2>1
  <2>. QED
    BY <1>1, <2>2, <2>3 DEF Settled
<1>3. ASSUME NEW u \in Trials
      PROVE  Kept(mem[u], mem'[u])
  BY <1>1 DEF Kept, AInv
<1>4. AInv'
  BY <1>1, <1>2, <1>3, CourseAdmits, Upkeep
<1>5. Priority
  BY <1>1, <1>3, PriorityKept DEF Kept
<1>. QED
  BY <1>4, <1>5 DEF InOrder

-----------------------------------------------------------------------------
(* Submissions.                                                             *)

(* A step of the admit pass that holds on to the slots it has.              *)
LEMMA AdmitAdmits ==
    ASSUME IInv, AInv, ctl.pass = "admit", ctl.slots > 0,
           ctl'.pass = "admit", ctl'.call \in {"none", "submit"},
           disk' = mem', status' = "running", NEW t \in Trials,
           \A u \in Trials : u # t => mem'[u] = mem[u],
           mem'[t].phase \notin EvaluationPriority, Sound(mem'[t]),
           Free' \in Nat,
           Cardinality(Occupied(mem')) + Free' <= Cardinality(Occupied(mem)) + Free
    PROVE  InOrder
<1>1. \A u \in Trials : /\ mem[u].phase \notin EvaluationPriority
                        /\ disk[u].phase \notin EvaluationPriority
  BY DEF AInv, Admission
<1>2. Admission'
  BY <1>1 DEF Admission
<1>3. Parallel'
  <2> SUFFICES /\ Cardinality(Occupied(mem')) <= MaxParallel
               /\ Cardinality(Occupied(mem')) + Free' <= MaxParallel
    BY DEF Parallel, Occupied
  <2>1. /\ Cardinality(Occupied(mem')) + Free' <= Cardinality(Occupied(mem)) + Free
        /\ Cardinality(Occupied(mem)) + Free <= MaxParallel
    BY DEF AInv, Parallel
  <2>2. /\ Cardinality(Occupied(mem')) \in Nat /\ Cardinality(Occupied(mem)) \in Nat
        /\ Free \in Nat /\ MaxParallel \in Nat
    BY PlacesCounted, FreeBounded, PlanAssumption
  <2>. QED
    BY <2>1, <2>2
<1>4. Settled' /\ \A u \in Trials : Sound(mem'[u]) /\ Sound(disk'[u])
  BY DEF AInv, Settled
<1>5. Priority
  BY <1>1 DEF Priority
<1>. QED
  BY <1>2, <1>3, <1>4, <1>5 DEF AInv, InOrder

(* An escalated trial takes no place.                                       *)
LEMMA EscalatedRests ==
    ASSUME NEW m \in Table, NEW t \in Trials
    PROVE  /\ \A u \in Trials : u # t => Escalated(m, t)[u] = m[u]
           /\ SameJobs(m[t], Escalated(m, t)[t]) /\ Escalated(m, t)[t].live = m[t].live
           /\ Escalated(m, t)[t].phase = "attention_required"
           /\ Rests(m[t], Escalated(m, t)[t])
<1>1. /\ \A u \in Trials : u # t => Escalated(m, t)[u] = m[u]
      /\ SameJobs(m[t], Escalated(m, t)[t]) /\ Escalated(m, t)[t].live = m[t].live
      /\ Escalated(m, t)[t].phase = "attention_required"
  BY DEF Escalated, SameJobs, Table, Entry
<1>. QED
  BY <1>1 DEF Rests, Resting

LEMMA BeginSubmitAdmits ==
    ASSUME IInv, EInv, AInv, NEW t \in Trials, BeginSubmit(t)
    PROVE  InOrder
<1>1. PICK p \in {"submit", "admit"} : Visits(p, t)
  BY DEF BeginSubmit
<1>2. /\ ctl.call = "none" /\ ctl.pass = p /\ mem \in Table /\ ctl \in Control
      /\ mem[t].handle = NoJob
      /\ p = "submit" => mem[t].phase \in {"submitting", "submission_retry_wait"}
      /\ p = "admit" => mem[t].phase = "pending" /\ ctl.slots > 0
      /\ ctl.slots \in Nat /\ ctl.pass # "raised"
  <2>1. ctl.call = "none" /\ ctl.pass = p /\ Wants(p, t)
    BY <1>1 DEF Visits, Due
  <2>2. mem \in Table /\ ctl \in Control /\ ctl.slots \in Nat
    BY DEF IInv, TypeOK, Table, Control
  <2>3. CASE p = "submit"
    BY <2>1, <2>2, <2>3 DEF Wants
  <2>4. CASE p = "admit"
    BY <2>1, <2>2, <2>4 DEF Wants
  <2>. QED
    BY <2>3, <2>4
<1>3. CASE Submitting(t) /\ At(t, "submit")
  <2> DEFINE m == [mem EXCEPT ![t].phase = "submitting", ![t].sub = Charge(@, SubmissionMax)]
  <2>1. /\ \A u \in Trials : u # t => m[u] = mem[u]
        /\ m[t].phase = "submitting" /\ SameJobs(mem[t], m[t])
    BY <1>2 DEF Table, Entry, SameJobs
  <2>2. mem' = m /\ disk' = m /\ status' = "running"
    BY <1>3 DEF Submitting, Save, Saved
  <2> HIDE DEF m
  <2>3. Sound(m[t])
    BY <1>2, <2>1 DEF AInv, Sound, Unlaunched, SameJobs
  <2>4. CASE p = "submit"
    <3>1. Kept(mem[t], m[t])
      BY <1>2, <2>1, <2>3, <2>4 DEF Kept, Occupies, AInv, Sound, Unlaunched, SameJobs
    <3>2. Course
      BY <1>2, <1>3, <2>4, Courses DEF Calls
    <3>. QED
      BY <1>2, <2>1, <2>2, <3>1, <3>2, TrialAdmits DEF Stated
  <2>5. CASE p = "admit"
    <3>1. ctl'.pass = "admit" /\ ctl'.call = "submit" /\ ctl'.slots = ctl.slots
      BY <1>2, <1>3, <2>5 DEF At, Control
    <3>2. Free = ctl.slots /\ Free' = ctl.slots - 1
      BY <1>2, <3>1 DEF Free
    <3>3. Cardinality(Occupied(mem')) <= Cardinality(Occupied(mem)) + 1
      <4>1. Occupied(mem') \subseteq Occupied(mem) \cup {t}
        BY <2>1, <2>2 DEF Occupied
      <4>. QED
        BY <4>1, PlacesCounted
    <3>4. Cardinality(Occupied(mem')) \in Nat /\ Cardinality(Occupied(mem)) \in Nat
      BY PlacesCounted
    <3>5. mem'[t].phase \notin EvaluationPriority
      BY <2>1, <2>2 DEF EvaluationPriority
    <3>6. /\ Free' \in Nat
          /\ Cardinality(Occupied(mem')) + Free' <= Cardinality(Occupied(mem)) + Free
      BY <1>2, <2>5, <3>2, <3>3, <3>4
    <3>. QED
      BY <1>2, <2>1, <2>2, <2>3, <2>5, <3>1, <3>5, <3>6, AdmitAdmits
  <2>. QED
    BY <2>4, <2>5
<1>4. CASE Save(Escalated(mem, t)) /\ ctl' = [ctl EXCEPT !.at = t + 1]
  <2> DEFINE m == Escalated(mem, t)
  <2>1. /\ \A u \in Trials : u # t => m[u] = mem[u]
        /\ SameJobs(mem[t], m[t]) /\ m[t].phase = "attention_required"
        /\ Rests(mem[t], m[t])
    BY <1>2, EscalatedRests
  <2>2. mem' = m /\ disk' = m /\ status' = "running" /\ Stated
    BY <1>4, Says DEF Save, Saved
  <2> HIDE DEF m
  <2>3. CASE p = "submit"
    <3>1. Course
      BY <1>2, <1>4, <2>3, Courses
    <3>. QED
      BY <1>2, <2>1, <2>2, <3>1, RestsAdmits
  <2>4. CASE p = "admit"
    <3>1. ctl'.pass = "admit" /\ ctl'.call = "none" /\ ctl'.slots = ctl.slots
      BY <1>2, <1>4, <2>4 DEF Control
    <3>2. Free = ctl.slots /\ Free' = ctl.slots
      BY <1>2, <3>1 DEF Free
    <3>3. Sound(m[t]) /\ Kept(mem[t], m[t])
      BY <2>1, RestsKept DEF AInv, Rests, Kept
    <3>4. Cardinality(Occupied(mem')) <= Cardinality(Occupied(mem))
      <4>1. Occupied(mem') \subseteq Occupied(mem)
        BY <2>1, <2>2, <3>3 DEF Occupied, Kept
      <4>. QED
        BY <4>1, PlacesCounted
    <3>5. Cardinality(Occupied(mem')) \in Nat /\ Cardinality(Occupied(mem)) \in Nat
      BY PlacesCounted
    <3>6. mem'[t].phase \notin EvaluationPriority
      BY <2>1, <2>2 DEF EvaluationPriority
    <3>7. /\ Free' \in Nat
          /\ Cardinality(Occupied(mem')) + Free' <= Cardinality(Occupied(mem)) + Free
      BY <1>2, <3>2, <3>4, <3>5
    <3>. QED
      BY <1>2, <2>1, <2>2, <2>4, <3>1, <3>3, <3>6, <3>7, AdmitAdmits
  <2>. QED
    BY <2>3, <2>4
<1>. QED
  BY <1>3, <1>4 DEF BeginSubmit

(* A submission that ended holds its slot or gives its place back.          *)
LEMMA SubmittedAdmits ==
    ASSUME IInv, EInv, AInv, NEW t \in Trials, ctl.at = t, ctl.call = "submit",
           mem[t].handle = NoJob, NEW p, AfterSubmit(p), Stated, disk' = mem',
           status' = "running", \A u \in Trials : u # t => mem'[u] = mem[u],
           mem'[t].phase = p, mem'[t].infra = mem[t].infra, mem'[t].cont = mem[t].cont,
           \/ p = "submitted" /\ mem'[t].handle = First
           \/ p \in {"submission_retry_wait", "attention_required"} /\ mem'[t].handle = NoJob
    PROVE  InOrder
<1>1. /\ mem[t].phase = "submitting" /\ ctl \in Control /\ ctl.pass \in Passes
      /\ ctl.slots \in Nat
  BY DEF IInv, TypeOK, LaunchSaved, LaunchCalls, Control
<1>2. Occupies(mem[t]) /\ Sound(mem[t]) /\ mem[t].cont = 0
  BY <1>1 DEF Occupies, AInv, Sound, Unlaunched
<1>3. Sound(mem'[t])
  <2>1. \A n \in Nat : /\ NoJob # Restarted(n) /\ NoJob # Continued(n)
                       /\ First # Restarted(n) /\ First # Continued(n)
    BY DEF NoJob, First, Restarted, Continued
  <2>2. First # NoJob
    BY DEF NoJob, First
  <2>. QED
    BY <1>2, <2>1, <2>2 DEF Sound, Unlaunched
<1>4. p = "attention_required" => ~Occupies(mem'[t])
  BY DEF Occupies
<1>5. CASE ctl.pass # "admit"
  <2>1. Course
    BY <1>1, <1>5 DEF AfterSubmit, Control, AInv, Admission, Course
  <2>2. Kept(mem[t], mem'[t])
    BY <1>2, <1>3 DEF Kept
  <2>. QED
    BY <1>1, <2>1, <2>2, TrialAdmits DEF Passes
<1>6. CASE ctl.pass = "admit"
  <2>1. /\ ctl'.pass = "admit" /\ ctl'.call = "none"
        /\ ctl'.slots = IF p # "attention_required" THEN ctl.slots - 1 ELSE ctl.slots
    BY <1>1, <1>6 DEF AfterSubmit, Control
  <2>2. ctl.slots > 0
    BY <1>6 DEF IInv, SlotLeft
  <2>3. Free = ctl.slots - 1 /\ Free' = ctl'.slots
    BY <1>6, <2>1 DEF Free
  <2>4. /\ Cardinality(Occupied(mem')) <= Cardinality(Occupied(mem))
        /\ p = "attention_required" =>
                Cardinality(Occupied(mem')) <= Cardinality(Occupied(mem)) - 1
    <3>1. t \in Occupied(mem) /\ Occupied(mem') \subseteq Occupied(mem)
      BY <1>2 DEF Occupied
    <3>2. p = "attention_required" => Occupied(mem') \subseteq Occupied(mem) \ {t}
      BY <1>4, <3>1 DEF Occupied
    <3>. QED
      BY <3>1, <3>2, PlacesCounted
  <2>5. Cardinality(Occupied(mem')) \in Nat /\ Cardinality(Occupied(mem)) \in Nat
    BY PlacesCounted
  <2>6. /\ Free' \in Nat
        /\ Cardinality(Occupied(mem')) + Free' <= Cardinality(Occupied(mem)) + Free
    BY <1>1, <2>1, <2>2, <2>3, <2>4, <2>5
  <2>7. mem'[t].phase \notin EvaluationPriority
    BY DEF EvaluationPriority
  <2>. QED
    BY <1>3, <1>6, <2>1, <2>2, <2>6, <2>7, AdmitAdmits
<1>. QED
  BY <1>5, <1>6

LEMMA SubmitReturnsAdmits ==
    ASSUME IInv, WInv, EInv, AInv, NEW t \in Trials, SubmitReturns(t)
    PROVE  InOrder
<1> DEFINE submitted(r) == [mem EXCEPT ![t].handle = r.site.file, ![t].phase = "submitted"]
           failed(p) == [mem EXCEPT ![t].phase = p]
<1>1. /\ ctl.at = t /\ ctl.call = "submit" /\ ctl.pass # "raised" /\ mem \in Table
      /\ mem[t].handle = NoJob /\ mem[t].phase = "submitting" /\ site[t] \in Site
  BY DEF SubmitReturns, Calling, Passes, IInv, TypeOK, Table, WInv, CallTracks, LaunchSaved,
         LaunchCalls
<1>2. PICK r \in SubmitReplies(site[t]) :
        \/ r.res = "ok" /\ Save(submitted(r)) /\ AfterSubmit("submitted")
        \/ Paused(mem)
        \/ Save(Escalated(mem, t)) /\ AfterSubmit("attention_required")
        \/ \E p \in {"submission_retry_wait", "attention_required"} :
                Save(failed(p)) /\ AfterSubmit(p)
  BY DEF SubmitReturns
<1>3. CASE r.res = "ok" /\ Save(submitted(r)) /\ AfterSubmit("submitted")
  <2>1. r.site.file = First
    <3>1. LiveJobs(site[t]) \subseteq {First}
      <4>1. LiveJobs(site[t]) \subseteq Leads(mem[t]) /\ LiveJobs(site[t]) \subseteq JobNames
        BY <1>1 DEF WInv, Tracks, LiveJobs
      <4>. QED
        BY <1>1, <4>1, NamesDiffer DEF Leads
    <3>. QED
      BY <1>1, <1>3, <3>1, SubmitSafe
  <2> DEFINE m == submitted(r)
  <2>2. /\ \A u \in Trials : u # t => m[u] = mem[u]
        /\ m[t].phase = "submitted" /\ m[t].handle = First
        /\ m[t].infra = mem[t].infra /\ m[t].cont = mem[t].cont
    BY <1>1, <2>1 DEF Table, Entry
  <2>3. Save(m)
    BY <1>3
  <2> HIDE DEF m
  <2>4. mem' = m /\ disk' = m /\ status' = "running" /\ Stated
    BY <2>3, Says DEF Save, Saved
  <2>. QED
    BY <1>1, <1>3, <2>2, <2>4, SubmittedAdmits
<1>4. CASE Paused(mem)
  BY <1>1, <1>4, Says, StillAdmits
<1>5. ASSUME NEW p \in {"submission_retry_wait", "attention_required"},
             NEW m \in {Escalated(mem, t), failed(p)},
             m = Escalated(mem, t) => p = "attention_required",
             Save(m), AfterSubmit(p)
      PROVE  InOrder
  <2>1. /\ \A u \in Trials : u # t => m[u] = mem[u]
        /\ m[t].phase = p /\ m[t].handle = mem[t].handle
        /\ m[t].infra = mem[t].infra /\ m[t].cont = mem[t].cont
    BY <1>1, <1>5 DEF Escalated, Table, Entry
  <2>2. mem' = m /\ disk' = m /\ status' = "running" /\ Stated
    BY <1>5, Says DEF Save, Saved
  <2>. QED
    BY <1>1, <1>5, <2>1, <2>2, SubmittedAdmits
<1> HIDE DEF submitted
<1>6. CASE Save(Escalated(mem, t)) /\ AfterSubmit("attention_required")
  BY <1>5, <1>6
<1>7. ASSUME NEW p \in {"submission_retry_wait", "attention_required"},
             Save(failed(p)), AfterSubmit(p)
      PROVE  InOrder
  <2>1. failed(p) = Escalated(mem, t) => p = "attention_required"
    BY <1>1 DEF Escalated, Table, Entry
  <2>. QED
    BY <1>5, <1>7, <2>1
<1>. QED
  BY <1>2, <1>3, <1>4, <1>6, <1>7

-----------------------------------------------------------------------------
(* Restarts and continuations.                                              *)

LEMMA BeginRestartAdmits ==
    ASSUME IInv, EInv, AInv, NEW t \in Trials, BeginRestart(t)
    PROVE  InOrder
<1>1. ctl.pass = "restart" /\ mem \in Table /\ ctl.pass # "raised"
  BY DEF BeginRestart, Visits, IInv, TypeOK, Table
<1>2. CASE At(t, "restart") /\ UNCHANGED <<disk, mem, status>>
  BY <1>1, <1>2, Courses, StillAdmits DEF Calls, Stated
<1>3. CASE Save(Escalated(mem, t)) /\ ctl' = [ctl EXCEPT !.at = t + 1]
  <2>1. Course
    BY <1>1, <1>3, Courses
  <2>2. mem' = Escalated(mem, t) /\ Stated
    BY <1>3, Says
  <2>. QED
    BY <1>1, <2>1, <2>2, EscalatedRests, RestsAdmits
<1>. QED
  BY <1>2, <1>3 DEF BeginRestart

LEMMA BeginContinueAdmits ==
    ASSUME IInv, EInv, AInv, NEW t \in Trials, BeginContinue(t)
    PROVE  InOrder
<1>1. ctl.pass = "continue" /\ ctl.pass # "raised"
  BY DEF BeginContinue, Visits
<1>2. CASE At(t, "continue") /\ UNCHANGED <<disk, mem, status>>
  BY <1>1, <1>2, Courses, StillAdmits DEF Calls, Stated
<1>3. CASE Raised(mem)
  BY <1>1, <1>3, Says, StillAdmits
<1>. QED
  BY <1>2, <1>3 DEF BeginContinue

(* The relaunched trial keeps the place it has.                             *)
LEMMA RelaunchedAdmits ==
    ASSUME IInv, EInv, AInv, NEW t \in Trials, ctl.pass # "raised", ctl.pass # "admit",
           NEW job \in {Restarted(mem[t].infra), Continued(mem[t].cont)},
           mem[t].phase \in {"infrastructure_retrying", "continuation_retrying"},
           Save(Relaunched(mem, t, job)), NextTrial
    PROVE  InOrder
<1> DEFINE m == Relaunched(mem, t, job)
           e == mem[t]
<1>1. /\ \A u \in Trials : u # t => m[u] = mem[u]
      /\ m[t].phase = "submitted" /\ m[t].handle = job
      /\ m[t].infra = e.infra /\ m[t].cont = e.cont
  BY DEF Relaunched, IInv, TypeOK, Table, Entry
<1>2. mem' = m /\ Stated /\ Course
  BY Says, Courses
<1> HIDE DEF m
<1>3. e.infra \in Nat /\ e.cont \in Nat
  BY MaxRestartsAssumption, MaxContinuationsAssumption DEF IInv, TypeOK, Entry
<1>4. Sound(m[t])
  <2>1. job # NoJob
    BY DEF NoJob, Restarted, Continued
  <2>2. \A n \in Nat : /\ job = Restarted(n) => n <= e.infra
                       /\ job = Continued(n) => n <= e.cont
    BY <1>3 DEF Restarted, Continued
  <2>. QED
    BY <1>1, <2>1, <2>2 DEF Sound, Unlaunched
<1>5. e.cont = 0 => Occupies(e)
  BY DEF AInv, Sound, Occupies
<1>6. Kept(e, m[t])
  BY <1>1, <1>4, <1>5 DEF Kept
<1>. QED
  BY <1>1, <1>2, <1>6, TrialAdmits

LEMMA RestartReturnsAdmits ==
    ASSUME IInv, WInv, EInv, AInv, NEW t \in Trials, RestartReturns(t)
    PROVE  InOrder
<1>1. /\ ctl.call = "restart" /\ ctl.pass # "raised" /\ ctl.pass # "admit" /\ mem \in Table
      /\ ctl.at = t /\ site[t] \in Site /\ mem[t].phase = "infrastructure_retrying"
  BY DEF RestartReturns, Calling, Passes, IInv, TypeOK, Table, LaunchSaved, LaunchCalls,
         AInv, Admission
<1>2. PICK r \in RestartReplies(site[t], mem[t].handle, "restart", mem[t].infra) :
        \/ r.res = "ok" /\ Save(Relaunched(mem, t, r.site.file)) /\ NextTrial
        \/ Paused(mem)
        \/ Save(Escalated(mem, t)) /\ (Issue("logs") \/ NextTrial)
  BY DEF RestartReturns
<1>3. CASE r.res = "ok" /\ Save(Relaunched(mem, t, r.site.file)) /\ NextTrial
  <2>1. r.site.file = Restarted(mem[t].infra)
    BY <1>1, <1>3, LaunchTracks DEF LaunchCalls, Replies
  <2>. QED
    BY <1>1, <1>3, <2>1, RelaunchedAdmits
<1>4. CASE Paused(mem)
  BY <1>1, <1>4, Says, StillAdmits
<1>5. CASE Save(Escalated(mem, t)) /\ (Issue("logs") \/ NextTrial)
  <2>1. Course
    BY <1>1, <1>5, Courses DEF Calls
  <2>. QED
    BY <1>1, <1>5, <2>1, Says, EscalatedRests, RestsAdmits
<1>. QED
  BY <1>2, <1>3, <1>4, <1>5

LEMMA ContinueReturnsAdmits ==
    ASSUME IInv, WInv, EInv, AInv, NEW t \in Trials, ContinueReturns(t)
    PROVE  InOrder
<1>1. /\ ctl.call = "continue" /\ ctl.pass # "raised" /\ ctl.pass # "admit" /\ mem \in Table
      /\ ctl.at = t /\ site[t] \in Site /\ mem[t].phase = "continuation_retrying"
  BY DEF ContinueReturns, Calling, Passes, IInv, TypeOK, Table, LaunchSaved, LaunchCalls,
         AInv, Admission
<1>2. PICK r \in RestartReplies(site[t], mem[t].handle, "continuation", mem[t].cont) :
        \/ r.res = "ok" /\ Save(Relaunched(mem, t, r.site.file)) /\ NextTrial
        \/ Paused(mem)
        \/ Save(Escalated(mem, t)) /\ NextTrial
  BY DEF ContinueReturns
<1>3. CASE r.res = "ok" /\ Save(Relaunched(mem, t, r.site.file)) /\ NextTrial
  <2>1. r.site.file = Continued(mem[t].cont)
    BY <1>1, <1>3, LaunchTracks DEF LaunchCalls, Replies
  <2>. QED
    BY <1>1, <1>3, <2>1, RelaunchedAdmits
<1>4. CASE Paused(mem)
  BY <1>1, <1>4, Says, StillAdmits
<1>5. CASE Save(Escalated(mem, t)) /\ NextTrial
  BY <1>1, <1>5, Courses, Says, EscalatedRests, RestsAdmits
<1>. QED
  BY <1>2, <1>3, <1>4, <1>5

-----------------------------------------------------------------------------
(* Inspection.                                                              *)

LEMMA BeginInspectAdmits ==
    ASSUME IInv, EInv, AInv, NEW t \in Trials, BeginInspect(t)
    PROVE  InOrder
<1>1. ctl.pass = "reconcile" /\ ctl.pass # "raised" /\ At(t, "inspect")
  BY DEF BeginInspect, Visits
<1>. QED
  BY <1>1, Courses, StillAdmits DEF BeginInspect, Calls, Stated

(* A trial whose workload is inspected holds its place.                     *)
LEMMA InspectedHolds ==
    ASSUME NEW e, Sound(e), e.phase \in Lagging, ~Unlaunched(e)
    PROVE  e.handle # NoJob /\ Occupies(e)
BY DEF Sound, Lagging, Unlaunched, Occupies

(* The workload of an inspected trial goes on, is restarted or is collected. *)
LEMMA InspectedKept ==
    ASSUME NEW e, Sound(e), e.phase \in Lagging, ~Unlaunched(e), e.infra \in Nat,
           NEW f, f.handle = e.handle, f.cont = e.cont,
           \/ f.phase \in Lagging \cup Resting /\ f.infra = e.infra
           \/ f.phase = "infrastructure_retrying" /\ f.infra = e.infra + 1
           \/ /\ f.phase = "infrastructure_retrying" /\ f.infra = e.infra
              /\ "overdue" \in Faults
    PROVE  Kept(e, f)
<1>1. e.handle # NoJob /\ Occupies(e)
  BY InspectedHolds
<1>2. Sound(f)
  <2>1. \A n \in Nat : /\ f.handle = Restarted(n) => n <= f.infra
                       /\ f.handle = Continued(n) => n <= f.cont
    BY DEF Sound
  <2>2. f.infra = e.infra + 1 => f.handle # Restarted(f.infra)
    BY DEF Sound
  <2>3. f.phase # "continuation_retrying"
    BY DEF Lagging, Resting
  <2>4. f.phase = "infrastructure_retrying" /\ "overdue" \notin Faults => f.infra = e.infra + 1
    BY DEF Lagging, Resting
  <2>5. f.phase \notin {"submitting", "submission_retry_wait"}
    BY DEF Lagging, Resting
  <2>. QED
    BY <1>1, <2>1, <2>2, <2>3, <2>4, <2>5 DEF Sound, Unlaunched
<1>3. f.phase # "submitting"
  BY DEF Lagging, Resting
<1>. QED
  BY <1>1, <1>2, <1>3 DEF Kept

LEMMA InspectReturnsAdmits ==
    ASSUME IInv, EInv, AInv, NEW t \in Trials, InspectReturns(t)
    PROVE  InOrder
<1> DEFINE Seen(r) == [mem EXCEPT ![t].live = r \in {"pending", "running"}]
           Ended(c) == \E e \in Endings : ctl' = [ctl EXCEPT !.call = c, !.seen = e]
           Generation(m) == [m EXCEPT ![t].infra = @ + 1, ![t].phase = "infrastructure_retrying"]
           e == mem[t]
<1>1. /\ ctl.call = "inspect" /\ ctl.pass # "raised" /\ ctl.pass # "admit" /\ ctl.at = t
      /\ mem \in Table
  BY DEF InspectReturns, Calling, Passes, IInv, TypeOK, Table, AInv, Admission
<1>2. PICK q \in InspectReplies(site[t], mem[t].handle) :
        \/ Paused(mem)
        \/ Keep(Escalated(mem, t)) /\ NextTrial
        \/ /\ q.res \in {"pending", "running"}
           /\ Keep([Seen(q.res) EXCEPT ![t].phase = q.res])
           /\ NextTrial \/ ("overdue" \in Faults /\ Issue("terminate"))
        \/ Save(Generation(Seen(q.res))) /\ Ended("restart")
        \/ Save(Escalated(Seen(q.res), t)) /\ Ended("logs")
        \/ Keep(Seen(q.res)) /\ Ended("logs")
  BY DEF InspectReturns, Endings
<1>3. e.phase \in Lagging /\ ~Unlaunched(e) /\ Sound(e) /\ e.infra \in Nat
  BY <1>1, MaxRestartsAssumption DEF EInv, CallEvidence, AInv, Table, Entry
<1> DEFINE n == Seen(q.res)
<1>4. /\ \A u \in Trials : u # t => n[u] = mem[u]
      /\ SameJobs(e, n[t]) /\ n[t].phase = e.phase
  BY <1>1 DEF Table, Entry, SameJobs
<1>5. n \in Table
  <2>1. \A l \in BOOLEAN : [mem EXCEPT ![t].live = l] \in Table
    BY <1>1, OneField DEF Table
  <2>2. (q.res \in {"pending", "running"}) \in BOOLEAN
    OBVIOUS
  <2>. QED
    BY <2>1, <2>2, Zenon
<1>6. ASSUME NEW m, mem' = m, Stated, Course, \A u \in Trials : u # t => m[u] = mem[u],
             m[t].handle = e.handle, m[t].cont = e.cont,
             \/ m[t].phase \in Lagging \cup Resting /\ m[t].infra = e.infra
             \/ m[t].phase = "infrastructure_retrying" /\ m[t].infra = e.infra + 1
      PROVE  InOrder
  <2>1. Kept(e, m[t])
    BY <1>3, <1>6, InspectedKept
  <2>. QED
    BY <1>1, <1>6, <2>1, TrialAdmits
<1>7. \A c \in {"restart", "logs"} : Ended(c) => Course
  BY <1>1, Courses DEF Calls
<1>8. CASE Paused(mem)
  BY <1>1, <1>8, Says, StillAdmits
<1>9. CASE Keep(Escalated(mem, t)) /\ NextTrial
  BY <1>1, <1>9, Courses, Says, EscalatedRests, RestsAdmits
<1>10. CASE /\ q.res \in {"pending", "running"}
            /\ Keep([n EXCEPT ![t].phase = q.res])
            /\ NextTrial \/ ("overdue" \in Faults /\ Issue("terminate"))
  <2> DEFINE m == [n EXCEPT ![t].phase = q.res]
  <2>1. mem' = m /\ Stated
    BY <1>10, Says
  <2>2. Course
    BY <1>1, <1>10, Courses
  <2> HIDE DEF n
  <2>3. /\ \A u \in Trials : u # t => m[u] = mem[u]
        /\ m[t].handle = e.handle /\ m[t].cont = e.cont /\ m[t].infra = e.infra
        /\ m[t].phase \in Lagging
    BY <1>4, <1>5, <1>10 DEF Table, Entry, SameJobs, Lagging
  <2> HIDE DEF m
  <2>. QED
    BY <1>6, <2>1, <2>2, <2>3
<1>11. CASE Save(Generation(n)) /\ Ended("restart")
  <2> DEFINE m == Generation(n)
  <2>1. mem' = m /\ Stated /\ Course
    BY <1>7, <1>11, Says
  <2> HIDE DEF n
  <2>2. /\ \A u \in Trials : u # t => m[u] = mem[u]
        /\ m[t].handle = e.handle /\ m[t].cont = e.cont /\ m[t].infra = e.infra + 1
        /\ m[t].phase = "infrastructure_retrying"
    BY <1>4, <1>5 DEF Table, Entry, SameJobs
  <2> HIDE DEF m
  <2>. QED
    BY <1>6, <2>1, <2>2
<1>12. CASE Save(Escalated(n, t)) /\ Ended("logs")
  <2> DEFINE m == Escalated(n, t)
  <2>1. mem' = m /\ Stated /\ Course
    BY <1>7, <1>12, Says
  <2> HIDE DEF n
  <2>2. /\ \A u \in Trials : u # t => m[u] = n[u]
        /\ SameJobs(n[t], m[t]) /\ m[t].phase = "attention_required"
    BY <1>5, EscalatedRests
  <2> HIDE DEF m
  <2>3. /\ m[t].handle = e.handle /\ m[t].cont = e.cont /\ m[t].infra = e.infra
        /\ m[t].phase \in Resting
    BY <1>4, <2>2 DEF SameJobs, Resting
  <2>. QED
    BY <1>4, <1>6, <2>1, <2>2, <2>3
<1>13. CASE Keep(n) /\ Ended("logs")
  <2>1. mem' = n /\ Stated /\ Course
    BY <1>7, <1>13, Says
  <2> HIDE DEF n
  <2>. QED
    BY <1>3, <1>4, <1>6, <2>1 DEF SameJobs
<1>. QED
  BY <1>2, <1>8, <1>9, <1>10, <1>11, <1>12, <1>13

(* The deadline ended a workload.                                           *)
LEMMA TerminateReturnsAdmits ==
    ASSUME IInv, EInv, AInv, NEW t \in Trials, TerminateReturns(t)
    PROVE  InOrder
<1> DEFINE ended(p) == [mem EXCEPT ![t].live = FALSE, ![t].backend = "failed", ![t].phase = p]
           e == mem[t]
<1>1. /\ ctl.call = "terminate" /\ ctl.pass # "raised" /\ ctl.pass # "admit" /\ ctl.at = t
      /\ mem \in Table /\ "overdue" \in Faults
  BY DEF TerminateReturns, Calling, Passes, IInv, TypeOK, Table, AInv, Admission
<1>2. e.phase \in Lagging /\ ~Unlaunched(e) /\ Sound(e) /\ e.infra \in Nat
  BY <1>1, MaxRestartsAssumption DEF EInv, CallEvidence, AInv, Table, Entry
<1>3. \/ \E p \in {"infrastructure_retrying", "collection_pending"} :
            Save(ended(p)) /\ NextTrial
      \/ Paused(mem)
      \/ Save(Escalated(mem, t)) /\ NextTrial
  BY DEF TerminateReturns
<1>4. ASSUME NEW p \in {"infrastructure_retrying", "collection_pending"},
             Save(ended(p)), NextTrial
      PROVE  InOrder
  <2> DEFINE m == ended(p)
  <2>1. mem' = m /\ Stated /\ Course
    BY <1>1, <1>4, Says, Courses
  <2>2. /\ \A u \in Trials : u # t => m[u] = mem[u]
        /\ m[t].handle = e.handle /\ m[t].cont = e.cont /\ m[t].infra = e.infra
        /\ m[t].phase = p
    BY <1>1 DEF Table, Entry
  <2> HIDE DEF m
  <2>3. Kept(e, m[t])
    BY <1>1, <1>2, <2>2, InspectedKept DEF Resting
  <2>. QED
    BY <1>1, <2>1, <2>2, <2>3, TrialAdmits
<1>5. CASE Paused(mem)
  BY <1>1, <1>5, Says, StillAdmits
<1>6. CASE Save(Escalated(mem, t)) /\ NextTrial
  BY <1>1, <1>6, Courses, Says, EscalatedRests, RestsAdmits
<1> HIDE DEF ended
<1>. QED
  BY <1>3, <1>4, <1>5, <1>6

-----------------------------------------------------------------------------
(* Collection and evaluation.                                               *)

(* An entry that only changes in what it knows of itself.                   *)
LEMMA PhaseRests ==
    ASSUME NEW m \in Table, NEW t \in Trials, NEW p \in Resting
    PROVE  /\ \A u \in Trials : u # t => [m EXCEPT ![t].phase = p][u] = m[u]
           /\ Rests(m[t], [m EXCEPT ![t].phase = p][t])
BY DEF Rests, SameJobs, Table, Entry

LEMMA RestsOn ==
    ASSUME NEW d, NEW e, NEW f, Rests(d, e), Rests(e, f), e.phase = d.phase
    PROVE  Rests(d, f)
BY DEF Rests, SameJobs

LEMMA CollectingAdmits ==
    ASSUME IInv, EInv, AInv, NEW t \in Trials, ctl.pass \notin {"raised", "admit"},
           NEW b, Collecting(t, b)
    PROVE  InOrder
<1> DEFINE m == [mem EXCEPT ![t].phase = "collecting", ![t].backend = b]
<1>1. mem \in Table
  BY DEF IInv, TypeOK, Table
<1>2. /\ \A u \in Trials : u # t => m[u] = mem[u]
      /\ Rests(mem[t], m[t])
  BY <1>1 DEF Rests, SameJobs, Resting, Table, Entry
<1>3. mem' = m /\ Stated /\ Course
  BY Says, Courses DEF Collecting, Calls
<1> HIDE DEF m
<1>. QED
  BY <1>2, <1>3, RestsAdmits

LEMMA LogsReturnAdmits ==
    ASSUME IInv, EInv, AInv, NEW t \in Trials, LogsReturn(t)
    PROVE  InOrder
<1>1. ctl.pass \notin {"raised", "admit"}
  BY DEF LogsReturn, Calling, Passes, AInv, Admission
<1>2. Collecting(t, ctl.seen) \/ Paused(mem)
  BY DEF LogsReturn
<1>3. CASE Collecting(t, ctl.seen)
  BY <1>1, <1>3, CollectingAdmits
<1>4. CASE Paused(mem)
  BY <1>1, <1>4, Says, StillAdmits
<1>. QED
  BY <1>2, <1>3, <1>4

LEMMA BeginCollectAdmits ==
    ASSUME IInv, EInv, AInv, NEW t \in Trials, BeginCollect(t)
    PROVE  InOrder
BY CollectingAdmits DEF BeginCollect, Visits

(* The collected trial is assessed, or published when there is nothing to
   assess.                                                                  *)
LEMMA AssessedAdmits ==
    ASSUME IInv, EInv, AInv, NEW t \in Trials, ctl.pass \notin {"raised", "admit"},
           NEW m \in Table, \A u \in Trials : u # t => m[u] = mem[u],
           Rests(mem[t], m[t]), m[t].phase = mem[t].phase, Assessed(m, t)
    PROVE  InOrder
<1> DEFINE e == [m[t] EXCEPT !.pipe = site[t].copy,
                             !.outcome = IF site[t].copy = "result" THEN @ ELSE "infrastructure"]
           f(p) == [e EXCEPT !.phase = p]
           n(p) == [m EXCEPT ![t] = f(p)]
<1>1. \E p \in {"evaluating", "publishing"}, c \in {"evaluate", "publish"} :
        Save(n(p)) /\ ctl' = [ctl EXCEPT !.at = t, !.call = c]
  BY DEF Assessed
<1>2. PICK p \in {"evaluating", "publishing"}, c \in {"evaluate", "publish"} :
        Save(n(p)) /\ ctl' = [ctl EXCEPT !.at = t, !.call = c]
  BY <1>1
<1>3. m[t] \in Entry
  BY DEF Table
<1>4. Rests(m[t], f(p))
  BY <1>3 DEF Rests, SameJobs, Resting, Entry
<1> HIDE DEF f
<1>5. /\ \A u \in Trials : u # t => n(p)[u] = mem[u]
      /\ n(p)[t] = f(p)
  BY DEF Table
<1>6. Rests(mem[t], n(p)[t])
  BY <1>4, <1>5, RestsOn
<1>7. mem' = n(p) /\ Stated
  BY <1>2, Says
<1>8. Course
  BY <1>2, Courses DEF At, Calls
<1> HIDE DEF n
<1>. QED
  BY <1>5, <1>6, <1>7, <1>8, RestsAdmits

LEMMA CollectReturnsAdmits ==
    ASSUME IInv, EInv, AInv, NEW t \in Trials, CollectReturns(t)
    PROVE  InOrder
<1> DEFINE charged == [mem EXCEPT ![t].coll = Charge(@, CollectionMax)]
<1>1. ctl.pass \notin {"raised", "admit"} /\ mem \in Table
  BY DEF CollectReturns, Calling, Passes, IInv, TypeOK, Table, AInv, Admission
<1>2. /\ charged \in Table
      /\ \A u \in Trials : u # t => charged[u] = mem[u]
      /\ Rests(mem[t], charged[t]) /\ charged[t].phase = mem[t].phase
  <2>1. Charge(mem[t].coll, CollectionMax) \in 0 .. CollectionMax
    BY <1>1, PlanAssumption DEF Charge, Table, Entry
  <2>2. charged \in Table
    BY <1>1, <2>1, OneField DEF Table
  <2>3. /\ \A u \in Trials : u # t => charged[u] = mem[u]
        /\ SameJobs(mem[t], charged[t]) /\ charged[t].phase = mem[t].phase
        /\ charged[t].live = mem[t].live
    BY <1>1 DEF SameJobs, Table, Entry
  <2> HIDE DEF charged
  <2>. QED
    BY <2>2, <2>3 DEF Rests
<1>3. \/ Assessed(charged, t)
      \/ Paused(mem)
      \/ /\ \/ Save([mem EXCEPT ![t].phase = "collection_pending"])
            \/ Save([charged EXCEPT ![t].phase = "collection_retry_wait"])
            \/ Save([charged EXCEPT ![t].phase = "collection_failed"])
         /\ NextTrial
  <2> HIDE DEF charged
  <2>. QED
    BY DEF CollectReturns, charged
<1> HIDE DEF charged
<1>4. CASE Assessed(charged, t)
  BY <1>1, <1>2, <1>4, AssessedAdmits
<1>5. CASE Paused(mem)
  BY <1>1, <1>5, Says, StillAdmits
<1>6. ASSUME NEW b \in {mem, charged}, NextTrial,
             NEW p \in {"collection_pending", "collection_retry_wait", "collection_failed"},
             Save([b EXCEPT ![t].phase = p])
      PROVE  InOrder
  <2> DEFINE m == [b EXCEPT ![t].phase = p]
  <2>1. b \in Table /\ p \in Resting
    BY <1>1, <1>2 DEF Resting
  <2>2. (\A u \in Trials : u # t => m[u] = b[u]) /\ Rests(b[t], m[t])
    BY <2>1, PhaseRests
  <2>3. mem' = m /\ Stated
    BY <1>6, Says
  <2>4. Course
    BY <1>1, <1>6, Courses
  <2> HIDE DEF m
  <2>5. Rests(mem[t], m[t]) /\ \A u \in Trials : u # t => m[u] = mem[u]
    BY <1>2, <2>2, RestsOn
  <2>. QED
    BY <1>1, <2>3, <2>4, <2>5, RestsAdmits
<1>. QED
  BY <1>3, <1>4, <1>5, <1>6

(* A step that saves one new phase for the trial.                           *)
LEMMA PhaseAdmits ==
    ASSUME IInv, EInv, AInv, ctl.pass # "raised", NEW t \in Trials, NEW p \in Resting,
           Course, Save([mem EXCEPT ![t].phase = p])
    PROVE  InOrder
<1> DEFINE m == [mem EXCEPT ![t].phase = p]
<1>1. mem \in Table
  BY DEF IInv, TypeOK, Table
<1>2. (\A u \in Trials : u # t => m[u] = mem[u]) /\ Rests(mem[t], m[t])
  BY <1>1, PhaseRests
<1>3. mem' = m /\ Stated
  BY Says
<1> HIDE DEF m
<1>. QED
  BY <1>2, <1>3, RestsAdmits

LEMMA BeginEvaluateAdmits ==
    ASSUME IInv, EInv, AInv, NEW t \in Trials, BeginEvaluate(t)
    PROVE  InOrder
<1>1. ctl.pass \notin {"raised", "admit"} /\ mem \in Table
  BY DEF BeginEvaluate, Visits, IInv, TypeOK, Table
<1>2. CASE Assessed(mem, t)
  <2>1. Rests(mem[t], mem[t])
    BY DEF Rests, SameJobs
  <2>. QED
    BY <1>1, <1>2, <2>1, AssessedAdmits
<1>3. CASE /\ Save([mem EXCEPT ![t].phase = "collection_failed"])
           /\ ctl' = [ctl EXCEPT !.at = t + 1]
  <2>1. Course
    BY <1>1, <1>3, Courses
  <2>. QED
    BY <1>1, <1>3, <2>1, PhaseAdmits DEF Resting
<1>. QED
  BY <1>2, <1>3 DEF BeginEvaluate

LEMMA EvaluateReturnsAdmits ==
    ASSUME IInv, EInv, AInv, NEW t \in Trials, EvaluateReturns(t)
    PROVE  InOrder
<1> DEFINE pending == [mem EXCEPT ![t].phase = "evaluation_pending"]
           published(o) == [mem EXCEPT ![t].phase = "publishing", ![t].outcome = o]
<1>1. ctl.pass \notin {"raised", "admit"} /\ mem \in Table
  BY DEF EvaluateReturns, Calling, Passes, IInv, TypeOK, Table, AInv, Admission
<1>2. \/ Save(pending) /\ NextTrial
      \/ Paused(pending)
      \/ Save(Escalated(mem, t)) /\ NextTrial
      \/ \E o : Save(published(o)) /\ Issue("publish")
  <2>1. ASSUME NEW complete \in BOOLEAN, NEW candidate \in BOOLEAN, NEW required \in BOOLEAN,
               Save([mem EXCEPT ![t].phase = "publishing",
                                ![t].outcome = IF mem[t].pipe = "result"
                                  THEN Verdict(mem[t].backend, complete, candidate, required)
                                  ELSE @])
        PROVE  \E o : Save(published(o))
    <3> DEFINE o == IF mem[t].pipe = "result"
                    THEN Verdict(mem[t].backend, complete, candidate, required)
                    ELSE mem[t].outcome
    <3>1. Save(published(o))
      BY <1>1, <2>1 DEF Table
    <3> HIDE DEF o, published
    <3>. QED
      BY <3>1
  <2> HIDE DEF published
  <2>. QED
    BY <2>1 DEF EvaluateReturns
<1>3. CASE Save(pending) /\ NextTrial
  <2>1. Course
    BY <1>1, <1>3, Courses
  <2>. QED
    BY <1>1, <1>3, <2>1, PhaseAdmits DEF Resting
<1>4. CASE Paused(pending)
  <2>1. (\A u \in Trials : u # t => pending[u] = mem[u]) /\ Rests(mem[t], pending[t])
    BY <1>1, PhaseRests DEF Resting
  <2> HIDE DEF pending
  <2>. QED
    BY <1>1, <1>4, <2>1, Says, RestsAdmits
<1>5. CASE Save(Escalated(mem, t)) /\ NextTrial
  <2>1. Course
    BY <1>1, <1>5, Courses
  <2>. QED
    BY <1>1, <1>5, <2>1, PhaseAdmits DEF Escalated, Resting
<1>6. ASSUME NEW o, Save(published(o)), Issue("publish")
      PROVE  InOrder
  <2>1. /\ \A u \in Trials : u # t => published(o)[u] = mem[u]
        /\ Rests(mem[t], published(o)[t])
    BY <1>1 DEF Rests, SameJobs, Resting, Table, Entry
  <2>2. mem' = published(o) /\ Stated
    BY <1>6, Says
  <2>3. Course
    BY <1>1, <1>6, Courses DEF Calls
  <2> HIDE DEF published
  <2>. QED
    BY <1>1, <2>1, <2>2, <2>3, RestsAdmits
<1> HIDE DEF pending, published
<1>. QED
  BY <1>2, <1>3, <1>4, <1>5, <1>6

-----------------------------------------------------------------------------
(* Publication and cleanup.                                                 *)

LEMMA BeginPublishAdmits ==
    ASSUME IInv, EInv, AInv, NEW t \in Trials, BeginPublish(t)
    PROVE  InOrder
<1>1. ctl.pass \notin {"raised", "admit"}
  BY DEF BeginPublish, Visits
<1>2. Course
  BY <1>1, Courses DEF BeginPublish, Calls
<1>. QED
  BY <1>1, <1>2, PhaseAdmits DEF BeginPublish, Resting

LEMMA PublishReturnsAdmits ==
    ASSUME IInv, EInv, AInv, NEW t \in Trials, PublishReturns(t)
    PROVE  InOrder
<1> DEFINE charged == [mem EXCEPT ![t].pub = Charge(@, PublicationMax)]
<1>1. ctl.pass \notin {"raised", "admit"} /\ mem \in Table
  BY DEF PublishReturns, Calling, Passes, IInv, TypeOK, Table, AInv, Admission
<1>2. /\ charged \in Table
      /\ \A u \in Trials : u # t => charged[u] = mem[u]
      /\ Rests(mem[t], charged[t]) /\ charged[t].phase = mem[t].phase
  <2>1. Charge(mem[t].pub, PublicationMax) \in 0 .. PublicationMax
    BY <1>1, PlanAssumption DEF Charge, Table, Entry
  <2>2. charged \in Table
    BY <1>1, <2>1, OneField DEF Table
  <2>3. /\ \A u \in Trials : u # t => charged[u] = mem[u]
        /\ SameJobs(mem[t], charged[t]) /\ charged[t].phase = mem[t].phase
        /\ charged[t].live = mem[t].live
    BY <1>1 DEF SameJobs, Table, Entry
  <2> HIDE DEF charged
  <2>. QED
    BY <2>2, <2>3 DEF Rests
<1>3. \/ Cleaning(mem, t) /\ Issue("cleanup")
      \/ \E p \in {"publication_pending", "attention_required"} :
            Save([charged EXCEPT ![t].phase = p]) /\ NextTrial
  <2> HIDE DEF charged
  <2>. QED
    BY DEF PublishReturns, charged
<1> HIDE DEF charged
<1>4. CASE Cleaning(mem, t) /\ Issue("cleanup")
  <2>1. Course
    BY <1>1, <1>4, Courses DEF Calls
  <2>. QED
    BY <1>1, <1>4, <2>1, PhaseAdmits DEF Cleaning, Resting
<1>5. ASSUME NEW p \in {"publication_pending", "attention_required"},
             Save([charged EXCEPT ![t].phase = p]), NextTrial
      PROVE  InOrder
  <2> DEFINE m == [charged EXCEPT ![t].phase = p]
  <2> p \in Resting
    BY DEF Resting
  <2>1. (\A u \in Trials : u # t => m[u] = charged[u]) /\ Rests(charged[t], m[t])
    BY <1>2, PhaseRests
  <2>2. mem' = m /\ Stated
    BY <1>5, Says
  <2>3. Course
    BY <1>1, <1>5, Courses
  <2> HIDE DEF m
  <2>4. Rests(mem[t], m[t]) /\ \A u \in Trials : u # t => m[u] = mem[u]
    BY <1>2, <2>1, RestsOn
  <2>. QED
    BY <1>1, <2>2, <2>3, <2>4, RestsAdmits
<1>. QED
  BY <1>3, <1>4, <1>5

LEMMA BeginCleanupAdmits ==
    ASSUME IInv, EInv, AInv, NEW t \in Trials, BeginCleanup(t)
    PROVE  InOrder
<1>1. ctl.pass \notin {"raised", "admit"}
  BY DEF BeginCleanup, Visits
<1>2. Course
  BY <1>1, Courses DEF BeginCleanup, Calls
<1>. QED
  BY <1>1, <1>2, PhaseAdmits DEF BeginCleanup, Cleaning, Resting

LEMMA CleanupReturnsAdmits ==
    ASSUME IInv, EInv, AInv, NEW t \in Trials, CleanupReturns(t)
    PROVE  InOrder
<1> DEFINE marked == [mem EXCEPT ![t].kept = Retained(mem[t])]
           done == [marked EXCEPT ![t].phase = "complete", ![t].live = FALSE]
<1>1. ctl.pass \notin {"raised", "admit"} /\ mem \in Table
  BY DEF CleanupReturns, Calling, Passes, IInv, TypeOK, Table, AInv, Admission
<1>2. /\ \A u \in Trials : u # t => marked[u] = mem[u] /\ done[u] = mem[u]
      /\ Rests(mem[t], marked[t]) /\ Rests(mem[t], done[t])
  BY <1>1 DEF Rests, SameJobs, Resting, Table, Entry
<1>3. \/ Save(done) /\ NextTrial
      \/ Raised(marked)
      \/ Paused(marked)
      \/ Save(marked) /\ NextTrial
  <2> HIDE DEF marked
  <2>. QED
    BY DEF CleanupReturns, marked
<1> HIDE DEF marked, done
<1>4. CASE Save(done) /\ NextTrial
  BY <1>1, <1>2, <1>4, Courses, Says, RestsAdmits
<1>5. CASE Raised(marked)
  BY <1>1, <1>2, <1>5, Says, RestsAdmits
<1>6. CASE Paused(marked)
  BY <1>1, <1>2, <1>6, Says, RestsAdmits
<1>7. CASE Save(marked) /\ NextTrial
  BY <1>1, <1>2, <1>7, Courses, Says, RestsAdmits
<1>. QED
  BY <1>3, <1>4, <1>5, <1>6, <1>7

-----------------------------------------------------------------------------
(* Every step.                                                              *)

(* What is neither saved nor held does not count.                           *)
LEMMA BesideAdmits ==
    ASSUME AInv, UNCHANGED <<disk, mem, ctl, status>>
    PROVE  InOrder
<1>1. AInv'
  BY DEF AInv, Admission, Parallel, Settled, Free, Occupied
<1>2. Priority
  BY DEF Priority
<1>. QED
  BY <1>1, <1>2 DEF InOrder

LEMMA CrashAdmits ==
    ASSUME IInv, AInv, Crash \/ ControllerRestarts
    PROVE  InOrder
<1>1. mem' = disk /\ ctl' = Idle /\ UNCHANGED <<disk, status>>
  BY DEF Crash, ControllerRestarts
<1>2. Course /\ Stated
  BY <1>1, EndsCourse DEF Stated
<1>3. Settled' /\ Admission' /\ Free' = 0
  BY <1>2, StatedSettles, CourseAdmits
<1>4. \A t \in Trials : Kept(disk[t], mem'[t])
  BY <1>1 DEF Kept, AInv
<1>5. AInv'
  BY <1>1, <1>3, <1>4, Upkeep
<1>6. Priority
  BY <1>1 DEF Priority
<1>. QED
  BY <1>5, <1>6 DEF InOrder

LEMMA NextAdmits == IInv /\ WInv /\ EInv /\ AInv /\ [Next]_vars => InOrder
<1> SUFFICES ASSUME IInv, WInv, EInv, AInv, [Next]_vars PROVE InOrder
  OBVIOUS
<1>1. CASE Walk
  BY <1>1, StartAdvanceAdmits, NextPassAdmits, AskCapacityAdmits, CapacityReturnsAdmits,
     FinishAdvanceAdmits DEF Walk
<1>2. ASSUME NEW t \in Trials, EngineStep(t)
      PROVE  InOrder
  <2>1. CASE BeginSubmit(t) \/ SubmitReturns(t)
    BY <2>1, BeginSubmitAdmits, SubmitReturnsAdmits
  <2>2. CASE BeginRestart(t) \/ RestartReturns(t)
    BY <2>2, BeginRestartAdmits, RestartReturnsAdmits
  <2>3. CASE BeginContinue(t) \/ ContinueReturns(t)
    BY <2>3, BeginContinueAdmits, ContinueReturnsAdmits
  <2>4. CASE BeginInspect(t) \/ InspectReturns(t) \/ TerminateReturns(t)
    BY <2>4, BeginInspectAdmits, InspectReturnsAdmits, TerminateReturnsAdmits
  <2>5. CASE LogsReturn(t) \/ BeginCollect(t) \/ CollectReturns(t)
    BY <2>5, LogsReturnAdmits, BeginCollectAdmits, CollectReturnsAdmits
  <2>6. CASE BeginEvaluate(t) \/ EvaluateReturns(t)
    BY <2>6, BeginEvaluateAdmits, EvaluateReturnsAdmits
  <2>7. CASE BeginPublish(t) \/ PublishReturns(t)
    BY <2>7, BeginPublishAdmits, PublishReturnsAdmits
  <2>8. CASE BeginCleanup(t) \/ CleanupReturns(t)
    BY <2>8, BeginCleanupAdmits, CleanupReturnsAdmits
  <2>. QED
    BY <1>2, <2>1, <2>2, <2>3, <2>4, <2>5, <2>6, <2>7, <2>8 DEF EngineStep
<1>3. ASSUME NEW t \in Trials, RequestContinuation(t)
      PROVE  InOrder
  BY <1>3, RequestContinuationAdmits
<1>4. CASE Crash \/ ControllerRestarts
  BY <1>4, CrashAdmits
<1>5. ASSUME NEW t \in Trials, World(t) \/ JobLoss(t) \/ StorageLoss(t)
      PROVE  InOrder
  BY <1>5, BesideAdmits
     DEF World, JobFinishes, TransferFinishes, RetryTimeArrives, JobLoss, StorageLoss
<1>6. CASE UNCHANGED vars
  BY <1>6, BesideAdmits DEF vars
<1>. QED
  BY <1>1, <1>2, <1>3, <1>4, <1>5, <1>6 DEF Next

(* A new campaign has taken no place.                                       *)
LEMMA InitAdmits == Init => AInv
<1> SUFFICES ASSUME Init PROVE AInv
  OBVIOUS
<1>1. /\ \A t \in Trials : mem[t] = NewEntry /\ disk[t] = NewEntry
      /\ ctl = Idle /\ status = "running" /\ mem = disk
  BY DEF Init
<1>2. Admission /\ Settled /\ Free = 0
  BY <1>1 DEF Admission, Settled, Free, Idle
<1>3. NewEntry.phase = "pending" /\ NewEntry.handle = NoJob /\ NewEntry.live = FALSE
  BY DEF NewEntry
<1>4. Sound(NewEntry) /\ ~Occupies(NewEntry)
  BY <1>3 DEF Sound, Occupies, Unlaunched, NewEntry, NoJob, Restarted, Continued
<1>5. Occupied(disk) = {} /\ Occupied(mem) = {}
  BY <1>1, <1>4 DEF Occupied
<1>6. Parallel
  <2>1. Cardinality({}) = 0
    BY FS_EmptySet
  <2>. QED
    BY <1>2, <1>5, <2>1, PlanAssumption DEF Parallel
<1>. QED
  BY <1>1, <1>2, <1>4, <1>6 DEF AInv

-----------------------------------------------------------------------------
(* The theorems.                                                            *)

(* The places taken, the slots given out, the saved status and the entries
   agree in every state of every campaign.                                  *)
THEOREM AdmissionInvariant == Spec => []AInv
<1>1. IInv /\ WInv /\ EInv /\ AInv /\ [Next]_vars => AInv'
  BY NextAdmits DEF InOrder
<1>. QED
  BY <1>1, Invariant, WorkloadsTracked, EvidenceInvariant, InitAdmits, PTL DEF Spec

(* No trial is admitted while campaign.json holds another one in collection
   or evaluation.                                                           *)
THEOREM EvaluationGoesFirst == Spec => EvaluationFirst
<1>1. IInv /\ WInv /\ EInv /\ AInv /\ [Next]_vars =>
        [\A t, u \in Trials :
            disk[t].phase = "pending" /\ disk'[t].phase = "submitting" =>
                disk[u].phase \notin EvaluationPriority]_vars
  BY NextAdmits DEF InOrder, Priority
<1>. QED
  BY <1>1, Invariant, WorkloadsTracked, EvidenceInvariant, AdmissionInvariant, PTL
     DEF Spec, EvaluationFirst

(* Unless a pause is reported as a request for attention, a saved status is
   only terminal when every trial of the saved state is complete or stuck.  *)
THEOREM TerminalOnlyWhenSettled ==
    ASSUME "attention_required" \notin PauseStatuses
    PROVE  Spec => []TerminalIsSettled
<1>1. ASSUME IInv, AInv
      PROVE  TerminalIsSettled
  <2>1. status \in {"running", "complete", "attention_required", "paused_backend_connectivity"}
    BY <1>1 DEF IInv, TypeOK, Statuses
  <2>. QED
    BY <1>1, <2>1 DEF AInv, Settled, TerminalIsSettled
<1>. QED
  BY <1>1, Invariant, AdmissionInvariant, PTL

(* The places of a trial with a running workload.                           *)
LEMMA RunningOccupies ==
    ASSUME IInv, WInv, EInv, AInv, NEW t \in Trials,
           LiveJobs(site[t]) # {}, disk[t].phase # "attention_required",
           disk[t].cont = 0
    PROVE  Occupies(disk[t])
<1> DEFINE e == disk[t]
<1>1. /\ e \in Entry /\ LiveJobs(site[t]) \subseteq JobNames
      /\ LiveJobs(site[t]) \subseteq Leads(e)
  BY DEF IInv, TypeOK, WInv, Tracks, LiveJobs
<1>2. e.phase \notin Gathering \cup Judged
  BY DEF EInv, Evidence
<1>3. e.phase \in {"pending", "submitting", "submission_retry_wait", "submitted", "running",
                   "infrastructure_retrying"}
  BY <1>1, <1>2 DEF Entry, Phases, Gathering, Judged, AInv, Sound
<1>4. CASE e.phase = "pending"
  <2>1. e.handle # NoJob
    BY <1>1, <1>4, NamesDiffer DEF Leads
  <2>. QED
    BY <1>4, <2>1 DEF Occupies
<1>5. CASE e.phase # "pending"
  BY <1>3, <1>5 DEF Occupies, AInv, Sound
<1>. QED
  BY <1>4, <1>5

(* No more than max_parallel workloads run of the trials that were never
   continued and do not ask for attention: a submission that may have started
   a Job keeps its place until it is known to have failed, and a restart keeps
   the place of the workload it replaces.                                   *)
AdmittedWithinParallel ==
    Cardinality({t \in Trials : /\ LiveJobs(site[t]) # {}
                                /\ disk[t].phase # "attention_required"
                                /\ disk[t].cont = 0}) <= MaxParallel
THEOREM AdmittedBounded == Spec => []AdmittedWithinParallel
<1>1. ASSUME IInv, WInv, EInv, AInv
      PROVE  AdmittedWithinParallel
  <2> DEFINE running == {t \in Trials : /\ LiveJobs(site[t]) # {}
                                        /\ disk[t].phase # "attention_required"
                                        /\ disk[t].cont = 0}
  <2>1. running \subseteq Occupied(disk)
    BY <1>1, RunningOccupies DEF Occupied
  <2>2. IsFiniteSet(Occupied(disk))
    <3>1. IsFiniteSet(Trials)
      BY NumTrialsAssumption, FS_Interval DEF Trials
    <3>2. Occupied(disk) \subseteq Trials
      BY DEF Occupied
    <3>. QED
      BY <3>1, <3>2, FS_Subset
  <2>3. /\ Cardinality(running) <= Cardinality(Occupied(disk))
        /\ Cardinality(running) \in Nat /\ Cardinality(Occupied(disk)) \in Nat
    BY <2>1, <2>2, FS_Subset, FS_CardinalityType
  <2>4. Cardinality(Occupied(disk)) <= MaxParallel /\ MaxParallel \in Nat
    BY <1>1, PlanAssumption DEF AInv, Parallel
  <2>5. Cardinality(running) <= MaxParallel
    BY <2>3, <2>4
  <2>. QED
    BY <2>5 DEF AdmittedWithinParallel
<1>. QED
  BY <1>1, Invariant, WorkloadsTracked, EvidenceInvariant, AdmissionInvariant, PTL

(* So without continuations max_parallel bounds all the workloads, but for
   those of trials that ask for attention.                                  *)
THEOREM ParallelBounded ==
    ASSUME MaxContinuations = 0
    PROVE  Spec => []WithinParallel
<1>1. ASSUME IInv, AdmittedWithinParallel
      PROVE  WithinParallel
  <2>1. \A t \in Trials : disk[t].cont = 0
    BY <1>1 DEF IInv, TypeOK, Entry
  <2>2. {t \in Trials : LiveJobs(site[t]) # {} /\ disk[t].phase # "attention_required"} =
        {t \in Trials : /\ LiveJobs(site[t]) # {} /\ disk[t].phase # "attention_required"
                        /\ disk[t].cont = 0}
    BY <2>1
  <2>. QED
    BY <1>1, <2>2 DEF AdmittedWithinParallel, WithinParallel
<1>. QED
  BY <1>1, Invariant, AdmittedBounded, PTL

(* Unless a workload can outlive its deadline, whose restart repeats the
   generation it ended, the Job campaign.json records for a trial is never
   started a second time.                                                   *)
THEOREM EachJobStartsOnce ==
    ASSUME "overdue" \notin Faults
    PROVE  Spec => OnePodPerGeneration
<1>1. ASSUME IInv, AInv, Next, NEW t \in Trials, NEW j \in JobNames, Launch(t, j)
      PROVE  disk[t].handle # j
  <2>1. j \in Authorized(disk[t])
    BY <1>1, NextAuthorized DEF LaunchesAuthorized
  <2>2. Sound(disk[t])
    BY <1>1 DEF AInv
  <2>3. CASE disk[t].phase = "submitting"
    BY <2>2, <2>3, <1>1, NamesDiffer DEF Sound
  <2>4. CASE disk[t].phase = "infrastructure_retrying"
    BY <2>1, <2>2, <2>4 DEF Sound, Authorized
  <2>5. CASE disk[t].phase = "continuation_retrying"
    BY <2>1, <2>2, <2>5 DEF Sound, Authorized
  <2>. QED
    BY <2>1, <2>3, <2>4, <2>5 DEF Authorized
<1>2. IInv /\ AInv /\ [Next]_vars =>
        [\A t \in Trials, j \in JobNames : Launch(t, j) => disk[t].handle # j]_vars
  BY <1>1
<1>. QED
  BY <1>2, Invariant, AdmissionInvariant, PTL DEF Spec, OnePodPerGeneration

=============================================================================
