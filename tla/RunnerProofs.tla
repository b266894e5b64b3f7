------------------------------ MODULE RunnerProofs ------------------------------
(***************************************************************************)
(* Budgets, waits, sessions and results survive the Pods of a trial, and    *)
(* the provider is contained: for any limits, times, requests and faults.   *)
(***************************************************************************)
EXTENDS TrialRunner, TLAPS

Active == {"loop", "wait", "launch", "mark", "run", "judge"}
Ceiling(s) == IF s.cont = None THEN MaxAttempts ELSE Max({MaxAttempts, s.cont.target})
Budget(s) == IF s.cont # None /\ ~torn THEN s.cont.target ELSE Ceiling(s)

RunnerTypes ==
    /\ disk \in State /\ mem \in State /\ cap \in Nat
    /\ pod \in Pod /\ prov \in Provider
    /\ now \in Nat /\ launches \in Nat /\ lost \in Nat /\ torn \in BOOLEAN

(* What status.json may say, wherever the runner stops.  A continuation whose
   attempt was not launched has a session and no wait or result.             *)
Pending(s) == s.cont # None /\ s.launched < s.cont.target
Sound(s) ==
    /\ s.status = "missing" => s = Missing
    /\ s.launched <= Budget(s)
    /\ s.cont # None => s.launched + 1 >= s.cont.target
    /\ Pending(s) => s.notBefore = None /\ s.status \notin Final /\ (~torn => s.session)

Capped ==
    /\ cap <= Ceiling(disk)
    /\ pod.at # "prepared" => cap <= Budget(disk)
    /\ pod.at \in {"prepared", "boot"} /\ pod.request # None => Continues(disk, pod.request)
    /\ pod.at \in {"prepare", "prepared"} => pod.request # None

Counted == launches <= disk.launched + lost + (IF pod.at = "mark" THEN 1 ELSE 0)

(* The runner's memory of what it has saved.                                 *)
Remembered ==
    /\ pod.at \in Active =>
            /\ mem.launched = disk.launched /\ mem.cont = disk.cont
            /\ mem.notBefore = disk.notBefore /\ mem.finalizing = disk.finalizing
            /\ disk.status \notin Final /\ mem.status \notin Final \union {"missing"}
            /\ pod.request # None => mem.cont # None
            /\ Pending(mem) /\ ~torn => mem.session
    /\ pod.at = "artifacts" => mem = disk /\ disk.status # "missing"
    /\ pod.at \in {"account", "cli"} =>
            mem = [disk EXCEPT !.status = mem.status] /\ mem.status # "missing"
    /\ pod.at \in {"launch", "mark"} => disk.launched < Budget(disk)
    /\ pod.at \in {"launch", "mark", "run", "judge"} => disk.notBefore = None
    /\ pod.at \in {"run", "judge"} => ~Pending(disk)

Contained ==
    /\ pod.at = "launch" => now <= mem.deadline
    /\ ProviderContained

RunInv == RunnerTypes /\ Sound(disk) /\ Capped /\ Counted /\ Remembered /\ Contained

USE TimesAssumption, NoneAssumption, NoContinuationAssumption

LEMMA MaxOf ==
    ASSUME NEW a \in Nat, NEW b \in Nat
    PROVE  Max({a, b}) \in Nat /\ Max({a, b}) >= a /\ Max({a, b}) >= b
                             /\ (Max({a, b}) = a \/ Max({a, b}) = b)
<1>1. \E x \in {a, b} : \A y \in {a, b} : x >= y
  OBVIOUS
<1> QED
  BY <1>1 DEF Max

LEMMA MinOf ==
    ASSUME NEW a \in Nat, NEW b \in Nat
    PROVE  /\ Min({a, b}) \in Nat /\ Min({a, b}) <= a /\ Min({a, b}) <= b
           /\ Min({a, b}) = a \/ Min({a, b}) = b
<1>1. \E x \in {a, b} : \A y \in {a, b} : x <= y
  OBVIOUS
<1> QED
  BY <1>1 DEF Min

LEMMA MissingIsState == Missing \in State
BY DEF Missing, State, Final, Terminal

LEMMA InitRunner == Init => RunInv
<1> SUFFICES ASSUME Init PROVE RunInv
  OBVIOUS
<1>1. RunnerTypes
  BY MissingIsState DEF Init, RunnerTypes, Pod, Places, Provider, Silent
<1>2. Sound(disk) /\ Capped /\ Counted
  BY DEF Init, Sound, Capped, Counted, Missing, Pending, Budget, Ceiling
<1>3. Remembered /\ Contained
  BY DEF Init, Remembered, Contained, ProviderContained, Active, Alive, Silent
<1> QED
  BY <1>1, <1>2, <1>3 DEF RunInv

(* What the loop saves: it keeps the launches and the continuation that were
   saved, and agrees with where it goes.                                      *)
SameBudget(s) ==
    /\ s.launched = disk.launched
    /\ \/ s.cont = disk.cont
       \/ /\ s.cont # None /\ disk.cont # None
          /\ s.cont.target = disk.cont.target /\ s.cont.request = disk.cont.request

LEMMA SameCeiling ==
    ASSUME NEW s, SameBudget(s)
    PROVE  Budget(s) = Budget(disk) /\ Ceiling(s) = Ceiling(disk)
BY DEF SameBudget, Budget, Ceiling

LEMMA SaveInv ==
    ASSUME RunInv, NEW s \in State, SameBudget(s), s.status # "missing",
           Pending(s) => s.notBefore = None /\ s.status \notin Final /\ (~torn => s.session),
           pod.at \in {"loop", "wait", "launch", "judge", "artifacts"},
           NEW at \in {"loop", "wait", "launch", "artifacts", "account"}, GoesTo(at), Saves(s),
           at \in {"loop", "wait", "launch"} =>
                s.status \notin Final /\ pod.at \in Active,
           at = "launch" =>
                s.launched < Budget(s) /\ s.notBefore = None /\ now <= s.deadline,
           prov' \in {prov, Silent}, UNCHANGED <<cap, now, ghosts>>
    PROVE  RunInv'
<1>1. /\ mem' = s /\ disk' = s /\ pod' = [pod EXCEPT !.at = at]
      /\ cap' = cap /\ now' = now /\ launches' = launches /\ lost' = lost /\ torn' = torn
  BY DEF Saves, GoesTo, ghosts
<1>2. RunnerTypes /\ Sound(disk) /\ Capped /\ Counted /\ Remembered /\ Contained
  BY DEF RunInv
<1>3. pod'.at = at /\ pod'.request = pod.request /\ pod' \in Pod
  BY <1>1, <1>2 DEF RunnerTypes, Pod, Places
<1>4. RunnerTypes'
  <2>3. Silent \in Provider
    BY DEF Silent, Provider
  <2>1. prov' \in Provider
    BY <2>3, <1>2 DEF RunnerTypes
  <2>2. mem' \in State /\ disk' \in State
    BY <1>1
  <2> QED
    BY <1>1, <1>2, <1>3, <2>1, <2>2 DEF RunnerTypes
<1>5. Budget(s) = Budget(disk) /\ Ceiling(s) = Ceiling(disk) /\ Budget(s)' = Budget(s)
                               /\ Ceiling(s)' = Ceiling(s)
  BY <1>1, SameCeiling DEF Budget, Ceiling
<1>6. (s.cont = None) <=> (disk.cont = None)
  BY DEF SameBudget
<1>7. Sound(disk)'
  BY <1>1, <1>2, <1>5, <1>6 DEF Sound, SameBudget, Pending
<1>8. Capped'
  BY <1>1, <1>2, <1>3, <1>5, <1>6 DEF Capped, SameBudget
<1>9. Counted'
  BY <1>1, <1>2, <1>3 DEF Counted, SameBudget
<1>10. s = [s EXCEPT !.status = s.status]
  BY DEF State
<1>11. Remembered'
  BY <1>1, <1>2, <1>3, <1>5, <1>6, <1>10 DEF Remembered, SameBudget, Pending, Active
<1>12. Contained'
  BY <1>1, <1>2, <1>3 DEF Contained, ProviderContained, Alive, Silent
<1> QED
  BY <1>4, <1>7, <1>8, <1>9, <1>11, <1>12 DEF RunInv

LEMMA CheckpointsInv == RunInv /\ Checkpoints => RunInv'
<1> SUFFICES ASSUME RunInv, Checkpoints PROVE RunInv'
  OBVIOUS
<1> DEFINE st == IF mem.finalizing THEN "finalizing" ELSE "running"
           s == [mem EXCEPT !.status = st, !.open = TRUE]
<1>1. RunnerTypes /\ Sound(disk) /\ Capped /\ Counted /\ Remembered /\ Contained
  BY DEF RunInv
<1>2. st \in Terminal \union {"missing", "pending", "running", "finalizing", "retrying", "interrupted"}
  OBVIOUS
<1> HIDE DEF st
<1>3. s \in State
  BY <1>1, <1>2 DEF State, RunnerTypes
<1>4. /\ s.status = st /\ s.launched = mem.launched /\ s.cont = mem.cont /\ s.session = mem.session
      /\ s.notBefore = mem.notBefore /\ s.deadline = mem.deadline
  BY <1>1 DEF State, RunnerTypes
<1>5. pod.at = "loop" /\ mem.notBefore = None /\ mem.launched < Limit /\ ~Over
  BY DEF Checkpoints, Proceeds
<1>6. SameBudget(s)
  BY <1>1, <1>4, <1>5 DEF SameBudget, Remembered, Active
<1>7. Saves(s) /\ GoesTo("launch") /\ UNCHANGED <<cap, now, ghosts>> /\ prov' = prov
  BY DEF Checkpoints, s, st
<1>8. mem.launched < Budget(s)
  <2>1. CASE pod.request = None
    <3>1. mem.launched < cap /\ cap <= Budget(s)
      BY <2>1, <1>1, <1>5, <1>6, SameCeiling DEF Limit, Capped
    <3>2. Budget(s) \in Nat
      BY <1>3, MaxOf DEF Budget, Ceiling, State, Continuation
    <3> QED
      BY <1>1, <3>1, <3>2 DEF RunnerTypes, State
  <2>2. CASE pod.request # None
    <3>1. mem.cont # None /\ mem.cont.target \in Nat /\ mem.launched < mem.cont.target
      BY <2>2, <1>1, <1>5 DEF Limit, Remembered, Active, RunnerTypes, State, Continuation
    <3>2. Max({MaxAttempts, mem.cont.target}) \in Nat /\ Max({MaxAttempts, mem.cont.target}) >= mem.cont.target
      BY <3>1, MaxOf
    <3>3. mem.launched \in Nat
      BY <1>1 DEF RunnerTypes, State
    <3> QED
      BY <3>1, <3>2, <3>3, <1>4 DEF Budget, Ceiling
  <2> QED
    BY <2>1, <2>2
<1>9. now <= s.deadline
  BY <1>1, <1>4, <1>5 DEF Over, RunnerTypes, State
<1>10. st \notin Final \union {"missing"} /\ "launch" # "artifacts"
  BY DEF Final, st
<1>11. Pending(s) => s.notBefore = None /\ s.status \notin Final /\ (~torn => s.session)
  BY <1>1, <1>4, <1>5, <1>10 DEF Pending, Remembered, Active
<1> HIDE DEF s, st
<1> QED
  BY <1>3, <1>4, <1>5, <1>6, <1>7, <1>8, <1>9, <1>10, <1>11, SaveInv DEF Active

(* Saves of the loop that only move the phase or drop the wait.              *)
LEMMA LoopSaveInv ==
    ASSUME RunInv, pod.at \in {"loop", "wait", "launch"},
           NEW s \in State, NEW at \in {"loop", "wait", "artifacts"}, GoesTo(at), Saves(s),
           s.launched = mem.launched, s.cont = mem.cont, s.session = mem.session,
           s.notBefore \in {mem.notBefore, None}, s.status \notin Final \union {"missing"},
           UNCHANGED <<cap, prov, now, ghosts>>
    PROVE  RunInv'
<1>1. Sound(disk) /\ Remembered /\ pod.at \in Active
  BY DEF RunInv, Active
<1>2. SameBudget(s)
  BY <1>1 DEF SameBudget, Remembered
<1>3. Pending(s) => s.notBefore = None /\ s.status \notin Final /\ (~torn => s.session)
  BY <1>1 DEF Remembered, Sound, Pending
<1> QED
  BY <1>1, <1>2, <1>3, SaveInv

LEMMA LoopEndsInv == RunInv /\ LoopEnds => RunInv'
<1> SUFFICES ASSUME RunInv, LoopEnds PROVE RunInv'
  OBVIOUS
<1> DEFINE st == IF pod.stop THEN "interrupted" ELSE "timeout"
           s == [mem EXCEPT !.status = st]
<1>1. st \in {"interrupted", "timeout"}
  OBVIOUS
<1>2. Saves(s) /\ GoesTo("artifacts") /\ pod.at = "loop" /\ UNCHANGED <<cap, prov, now, ghosts>>
  BY DEF LoopEnds, Finishes
<1> HIDE DEF st
<1>3. /\ s \in State /\ s.status = st /\ s.launched = mem.launched /\ s.cont = mem.cont
      /\ s.session = mem.session /\ s.notBefore = mem.notBefore
  BY <1>1 DEF RunInv, RunnerTypes, State, Terminal
<1>4. s.status \notin Final \union {"missing"}
  BY <1>1, <1>3 DEF Final
<1> HIDE DEF s
<1> QED
  BY <1>2, <1>3, <1>4, LoopSaveInv

LEMMA BeginsFinalizationInv == RunInv /\ BeginsFinalization => RunInv'
<1> SUFFICES ASSUME RunInv, BeginsFinalization PROVE RunInv'
  OBVIOUS
<1> DEFINE s == [mem EXCEPT !.finalizing = TRUE, !.status = "finalizing",
                            !.notBefore = None, !.backoff = None]
<1>1. Saves(s) /\ pod.at = "loop" /\ pod' = pod /\ UNCHANGED <<cap, prov, now, ghosts>>
  BY DEF BeginsFinalization
<1>2. GoesTo("loop")
  BY <1>1 DEF GoesTo, RunInv, RunnerTypes, Pod
<1>3. /\ s \in State /\ s.status = "finalizing" /\ s.launched = mem.launched
      /\ s.cont = mem.cont /\ s.session = mem.session /\ s.notBefore = None
  BY DEF RunInv, RunnerTypes, State, Terminal
<1> HIDE DEF s
<1> QED
  BY <1>1, <1>2, <1>3, LoopSaveInv DEF Final

LEMMA BeginsWaitInv == RunInv /\ BeginsWait => RunInv'
<1> SUFFICES ASSUME RunInv, BeginsWait PROVE RunInv'
  OBVIOUS
<1> DEFINE s == [mem EXCEPT !.status = "retrying"]
<1>1. Saves(s) /\ pod.at = "loop" /\ GoesTo("wait") /\ UNCHANGED <<cap, prov, now, ghosts>>
  BY DEF BeginsWait, Proceeds
<1>2. /\ s \in State /\ s.status = "retrying" /\ s.launched = mem.launched
      /\ s.cont = mem.cont /\ s.session = mem.session /\ s.notBefore = mem.notBefore
  BY DEF RunInv, RunnerTypes, State, Terminal
<1> HIDE DEF s
<1> QED
  BY <1>1, <1>2, LoopSaveInv DEF Final

LEMMA WaitEndsInv == RunInv /\ WaitEnds => RunInv'
<1> SUFFICES ASSUME RunInv, WaitEnds PROVE RunInv'
  OBVIOUS
<1>1. pod.at = "wait" /\ UNCHANGED <<cap, prov, now, ghosts>>
  BY DEF WaitEnds
<1>2. mem \in State /\ mem.status \notin Final \union {"missing"}
  BY <1>1 DEF RunInv, RunnerTypes, Remembered, Active
<1>3. CASE pod.stop
  <2> DEFINE s == [mem EXCEPT !.status = "interrupted"]
  <2>1. Saves(s) /\ GoesTo("artifacts")
    BY <1>3 DEF WaitEnds, Finishes
  <2>2. /\ s \in State /\ s.status = "interrupted" /\ s.launched = mem.launched
        /\ s.cont = mem.cont /\ s.session = mem.session /\ s.notBefore = mem.notBefore
    BY <1>2 DEF State, Terminal
  <2> HIDE DEF s
  <2> QED
    BY <1>1, <2>1, <2>2, LoopSaveInv DEF Final
<1>4. CASE ~pod.stop /\ now >= mem.notBefore
  <2> DEFINE s == [mem EXCEPT !.notBefore = None]
  <2>1. Saves(s) /\ GoesTo("loop")
    BY <1>4 DEF WaitEnds
  <2>2. /\ s \in State /\ s.status = mem.status /\ s.launched = mem.launched
        /\ s.cont = mem.cont /\ s.session = mem.session /\ s.notBefore = None
    BY <1>2 DEF State
  <2> HIDE DEF s
  <2> QED
    BY <1>1, <1>2, <2>1, <2>2, LoopSaveInv
<1>5. CASE ~pod.stop /\ ~(now >= mem.notBefore)
  <2>1. Saves(mem) /\ GoesTo("loop")
    BY <1>5 DEF WaitEnds
  <2> QED
    BY <1>1, <1>2, <2>1, LoopSaveInv
<1> QED
  BY <1>3, <1>4, <1>5

LEMMA GivesUpInv == RunInv /\ GivesUp => RunInv'
<1> SUFFICES ASSUME RunInv, GivesUp PROVE RunInv'
  OBVIOUS
<1> DEFINE s == [mem EXCEPT !.status = "provider_error"]
<1>1. Saves(s) /\ pod.at = "loop" /\ GoesTo("artifacts") /\ UNCHANGED <<cap, prov, now, ghosts>>
  BY DEF GivesUp, Proceeds, Finishes
<1>2. /\ s \in State /\ s.status = "provider_error" /\ s.launched = mem.launched
      /\ s.cont = mem.cont /\ s.session = mem.session /\ s.notBefore = mem.notBefore
  BY DEF RunInv, RunnerTypes, State, Terminal
<1> HIDE DEF s
<1> QED
  BY <1>1, <1>2, LoopSaveInv DEF Final

LEMMA LaunchFailsInv == RunInv /\ LaunchFails => RunInv'
<1> SUFFICES ASSUME RunInv, LaunchFails PROVE RunInv'
  OBVIOUS
<1> DEFINE s == [mem EXCEPT !.status = "provider_error", !.open = FALSE]
<1>1. Saves(s) /\ pod.at = "launch" /\ GoesTo("artifacts") /\ UNCHANGED <<cap, prov, now, ghosts>>
  BY DEF LaunchFails, Finishes
<1>2. /\ s \in State /\ s.status = "provider_error" /\ s.launched = mem.launched
      /\ s.cont = mem.cont /\ s.session = mem.session /\ s.notBefore = mem.notBefore
  BY DEF RunInv, RunnerTypes, State, Terminal
<1> HIDE DEF s
<1> QED
  BY <1>1, <1>2, LoopSaveInv DEF Final

LEMMA LaunchesInv == RunInv /\ Launches => RunInv'
<1> SUFFICES ASSUME RunInv, Launches PROVE RunInv'
  OBVIOUS
<1>1. RunnerTypes /\ Sound(disk) /\ Capped /\ Counted /\ Remembered /\ Contained
  BY DEF RunInv
<1>2. /\ pod.at = "launch" /\ pod' = [pod EXCEPT !.at = "mark"] /\ launches' = launches + 1
      /\ prov' = [Silent EXCEPT !.leader = TRUE]
      /\ disk' = disk /\ cap' = cap /\ mem' = mem /\ now' = now /\ lost' = lost /\ torn' = torn
  BY DEF Launches, GoesTo, files
<1>3. pod'.at = "mark" /\ pod'.request = pod.request /\ pod' \in Pod /\ prov' \in Provider
  BY <1>1, <1>2 DEF RunnerTypes, Pod, Places, Provider, Silent
<1>4. RunnerTypes'
  BY <1>1, <1>2, <1>3 DEF RunnerTypes
<1>5. Sound(disk)' /\ Budget(disk)' = Budget(disk) /\ Ceiling(disk)' = Ceiling(disk)
  BY <1>1, <1>2 DEF Sound, Budget, Ceiling, Pending
<1>6. Capped' /\ Counted'
  BY <1>1, <1>2, <1>3, <1>5 DEF Capped, Counted, RunnerTypes, State
<1>7. Remembered'
  BY <1>1, <1>2, <1>3, <1>5 DEF Remembered, Active, Pending
<1>8. Contained'
  BY <1>1, <1>2, <1>3 DEF Contained, ProviderContained
<1> QED
  BY <1>4, <1>5, <1>6, <1>7, <1>8 DEF RunInv

LEMMA MarksInv == RunInv /\ Marks => RunInv'
<1> SUFFICES ASSUME RunInv, Marks PROVE RunInv'
  OBVIOUS
<1> DEFINE s == [mem EXCEPT !.launched = @ + 1]
<1>1. RunnerTypes /\ Sound(disk) /\ Capped /\ Counted /\ Remembered /\ Contained
  BY DEF RunInv
<1>2. /\ pod.at = "mark" /\ pod' = [pod EXCEPT !.at = "run"] /\ mem' = s /\ disk' = s
      /\ prov' = prov /\ cap' = cap /\ now' = now
      /\ launches' = launches /\ lost' = lost /\ torn' = torn
  BY DEF Marks, GoesTo, Saves, ghosts
<1>3. pod'.at = "run" /\ pod'.request = pod.request /\ pod' \in Pod
  BY <1>1, <1>2 DEF RunnerTypes, Pod, Places
<1>4. /\ s \in State /\ s.launched = mem.launched + 1 /\ s.status = mem.status
      /\ s.cont = mem.cont /\ s.session = mem.session /\ s.notBefore = mem.notBefore
      /\ s.finalizing = mem.finalizing /\ s.deadline = mem.deadline
  BY <1>1 DEF RunnerTypes, State
<1> HIDE DEF s
<1>5. RunnerTypes'
  BY <1>1, <1>2, <1>3, <1>4 DEF RunnerTypes
<1>6. /\ mem.cont = disk.cont /\ mem.launched = disk.launched /\ disk.launched < Budget(disk)
      /\ mem.notBefore = None /\ mem.status \notin Final \union {"missing"} /\ disk.launched \in Nat
      /\ (pod.request # None => mem.cont # None)
      /\ (disk.cont # None => disk.cont.target \in Nat /\ disk.launched + 1 >= disk.cont.target)
  BY <1>1, <1>2 DEF Remembered, Active, Sound, RunnerTypes, State, Continuation
<1>7. Budget(disk)' = Budget(disk) /\ Ceiling(disk)' = Ceiling(disk) /\ Budget(disk) \in Nat
  <2>1. Budget(disk)' = Budget(disk) /\ Ceiling(disk)' = Ceiling(disk)
    BY <1>2, <1>4, <1>6 DEF Budget, Ceiling
  <2> QED
    BY <2>1, <1>6, MaxOf DEF Budget, Ceiling
<1>8. Sound(disk)' /\ ~Pending(disk)'
  BY <1>2, <1>4, <1>6, <1>7 DEF Sound, Pending
<1>9. Capped' /\ Counted'
  BY <1>1, <1>2, <1>3, <1>4, <1>6, <1>7 DEF Capped, Counted, RunnerTypes
<1>10. Remembered'
  BY <1>2, <1>3, <1>4, <1>6, <1>8 DEF Remembered, Active, Pending
<1>11. Contained'
  BY <1>1, <1>2, <1>3, <1>4 DEF Contained, ProviderContained, Alive
<1> QED
  BY <1>5, <1>8, <1>9, <1>10, <1>11 DEF RunInv

(* Steps of the provider: at most it dies.                                   *)
LEMMA ProviderStep ==
    ASSUME RunInv, prov' \in Provider, Alive' => Alive,
           UNCHANGED <<files, pod, mem, now, ghosts>>
    PROVE  RunInv'
<1>1. /\ disk' = disk /\ cap' = cap /\ pod' = pod /\ mem' = mem /\ now' = now
      /\ launches' = launches /\ lost' = lost /\ torn' = torn
  BY DEF files, ghosts
<1>2. RunnerTypes'
  BY <1>1 DEF RunInv, RunnerTypes
<1>3. Sound(disk)' /\ Capped' /\ Counted'
  BY <1>1 DEF RunInv, Sound, Capped, Counted, Budget, Ceiling, Pending, Continues
<1>4. Remembered'
  BY <1>1 DEF RunInv, Remembered, Budget, Ceiling, Pending
<1>5. Contained'
  BY <1>1 DEF RunInv, Contained, ProviderContained, Present
<1> QED
  BY <1>2, <1>3, <1>4, <1>5 DEF RunInv

LEMMA ProviderActsInv == RunInv /\ ProviderActs => RunInv'
<1> SUFFICES ASSUME RunInv, ProviderActs PROVE RunInv'
  OBVIOUS
<1>1. prov' \in Provider /\ (Alive' => Alive)
  BY DEF RunInv, RunnerTypes, ProviderActs, Alive, Provider
<1> QED
  BY <1>1, ProviderStep DEF ProviderActs

LEMMA ProviderSpeaksInv == RunInv /\ ProviderSpeaks => RunInv'
<1> SUFFICES ASSUME RunInv, ProviderSpeaks PROVE RunInv'
  OBVIOUS
<1>1. prov \in Provider
  BY DEF RunInv, RunnerTypes
<1>2. \/ \E t \in {"succeeded", "failed"}, ready \in BOOLEAN :
             prov' = [prov EXCEPT !.terminal = t, !.ready = ready]
      \/ prov' = [prov EXCEPT !.substituted = TRUE]
  BY DEF ProviderSpeaks
<1>3. prov' \in Provider /\ prov'.leader = prov.leader /\ prov'.others = prov.others
  BY <1>1, <1>2 DEF Provider
<1> QED
  BY <1>3, ProviderStep DEF ProviderSpeaks, Alive

LEMMA FindsOutputInv == RunInv /\ FindsOutput => RunInv'
<1> SUFFICES ASSUME RunInv, FindsOutput PROVE RunInv'
  OBVIOUS
<1>1. prov' \in Provider /\ (Alive' => Alive)
  BY DEF RunInv, RunnerTypes, FindsOutput, Alive, Provider
<1> QED
  BY <1>1, ProviderStep DEF FindsOutput

LEMMA LooksInv == RunInv /\ Looks => RunInv'
<1> SUFFICES ASSUME RunInv, Looks PROVE RunInv'
  OBVIOUS
<1>1. prov' \in Provider /\ (Alive' => Alive)
  BY DEF RunInv, RunnerTypes, Looks, Alive
<1> QED
  BY <1>1, ProviderStep DEF Looks

LEMMA StopsInv == ASSUME RunInv, pod.at = "run", NEW reason, Stops(reason) PROVE RunInv'
<1>1. RunnerTypes /\ Sound(disk) /\ Capped /\ Counted /\ Remembered /\ Contained
  BY DEF RunInv
<1>2. /\ pod' = [pod EXCEPT !.at = "judge"]
      /\ prov' = [prov EXCEPT !.leader = FALSE, !.others = FALSE, !.work = FALSE]
      /\ disk' = disk /\ cap' = cap /\ mem' = mem /\ now' = now
      /\ launches' = launches /\ lost' = lost /\ torn' = torn
  BY DEF Stops, GoesTo, files, ghosts
<1>3. /\ pod'.at = "judge" /\ pod'.request = pod.request /\ pod' \in Pod
      /\ prov' \in Provider /\ ~Alive'
  BY <1>1, <1>2 DEF RunnerTypes, Pod, Places, Provider, Alive
<1>4. RunnerTypes'
  BY <1>1, <1>2, <1>3 DEF RunnerTypes
<1>5. Sound(disk)' /\ Capped' /\ Counted'
  BY <1>1, <1>2, <1>3 DEF Sound, Capped, Counted, Budget, Ceiling, Pending
<1>6. Remembered'
  BY <1>1, <1>2, <1>3 DEF Remembered, Active, Pending
<1>7. Contained'
  BY <1>3 DEF Contained, ProviderContained
<1> QED
  BY <1>4, <1>5, <1>6, <1>7 DEF RunInv

LEMMA StopsProviderInv == RunInv /\ (StopsProvider \/ PromptBreaks) => RunInv'
BY StopsInv DEF StopsProvider, PromptBreaks

-----------------------------------------------------------------------------
LEMMA WithSessionFields ==
    ASSUME mem \in State, NEW seen
    PROVE  /\ WithSession(seen) \in State
           /\ WithSession(seen).status = mem.status /\ WithSession(seen).launched = mem.launched
           /\ WithSession(seen).cont = mem.cont /\ WithSession(seen).notBefore = mem.notBefore
           /\ WithSession(seen).finalizing = mem.finalizing
           /\ WithSession(seen).deadline = mem.deadline
<1> DEFINE se == IF seen = "unavailable" THEN FALSE
                 ELSE IF seen = "used" THEN TRUE ELSE mem.session
<1>1. se \in BOOLEAN
  BY DEF State
<1>2. WithSession(seen) = [mem EXCEPT !.open = FALSE, !.session = se]
  BY DEF WithSession
<1> HIDE DEF se
<1> QED
  BY <1>1, <1>2 DEF State

LEMMA ClosedFields ==
    ASSUME NEW s \in State, NEW status \in {"complete", "failed"}
    PROVE  /\ Closed(s, status) \in State
           /\ Closed(s, status).status = s.status /\ Closed(s, status).launched = s.launched
           /\ Closed(s, status).notBefore = s.notBefore /\ Closed(s, status).session = s.session
           /\ \/ Closed(s, status).cont = s.cont
              \/ /\ s.cont # None /\ Closed(s, status).cont # None
                 /\ Closed(s, status).cont.target = s.cont.target
                 /\ Closed(s, status).cont.request = s.cont.request
<1> DEFINE c == IF s.cont = None THEN None ELSE [s.cont EXCEPT !.status = status]
<1>1. c \in Continuation \union {None}
  BY DEF State, Continuation
<1>2. \/ c = s.cont
      \/ s.cont # None /\ c # None /\ c.target = s.cont.target /\ c.request = s.cont.request
  <2>1. CASE s.cont # None
    <3>1. s.cont \in Continuation /\ c = [s.cont EXCEPT !.status = status]
      BY <2>1 DEF State
    <3>2. c \in Continuation /\ c.target = s.cont.target /\ c.request = s.cont.request
      BY <3>1 DEF Continuation
    <3> QED
      BY <2>1, <3>2
  <2> QED
    BY <2>1
<1>3. Closed(s, status) = [s EXCEPT !.cont = c]
  BY DEF Closed
<1> HIDE DEF c
<1> QED
  BY <1>1, <1>2, <1>3 DEF State

(* The judgement of an attempt: its continuation has had its launch.          *)
LEMMA JudgeSaveInv ==
    ASSUME RunInv, pod.at = "judge", NEW s \in State, NEW at \in {"loop", "artifacts"},
           s.launched = mem.launched,
           \/ s.cont = mem.cont
           \/ /\ s.cont # None /\ mem.cont # None
              /\ s.cont.target = mem.cont.target /\ s.cont.request = mem.cont.request,
           s.status # "missing", at = "loop" => s.status \notin Final,
           GoesTo(at), Saves(s), prov' = Silent, UNCHANGED <<cap, now, ghosts>>
    PROVE  RunInv'
<1>1. Remembered /\ pod.at \in Active
  BY DEF RunInv, Active
<1>2. SameBudget(s)
  BY <1>1 DEF Remembered, SameBudget
<1>3. ~Pending(s)
  BY <1>1, <1>2 DEF Remembered, SameBudget, Pending
<1> QED
  BY <1>1, <1>2, <1>3, SaveInv

LEMMA FindsTamperingInv == RunInv /\ FindsTampering => RunInv'
<1> SUFFICES ASSUME RunInv, FindsTampering PROVE RunInv'
  OBVIOUS
<1> DEFINE s == [mem EXCEPT !.status = "provider_error", !.open = FALSE]
<1>1. /\ Saves(s) /\ pod.at = "judge" /\ GoesTo("artifacts") /\ prov' = Silent
      /\ UNCHANGED <<cap, now, ghosts>>
  BY DEF FindsTampering, Judged, Finishes
<1>2. /\ s \in State /\ s.status = "provider_error" /\ s.launched = mem.launched
      /\ s.cont = mem.cont
  BY DEF RunInv, RunnerTypes, State, Terminal
<1> HIDE DEF s
<1> QED
  BY <1>1, <1>2, JudgeSaveInv

(* Those that save what was read and a status, ...                            *)
LEMMA EndsWithInv ==
    ASSUME RunInv, NEW seen, NEW st \in Terminal \union {"interrupted"}, Judged,
           Finishes([WithSession(seen) EXCEPT !.status = st])
    PROVE  RunInv'
<1> DEFINE s == [WithSession(seen) EXCEPT !.status = st]
<1>1. /\ Saves(s) /\ pod.at = "judge" /\ GoesTo("artifacts") /\ prov' = Silent
      /\ UNCHANGED <<cap, now, ghosts>>
  BY DEF Judged, Finishes
<1>2. mem \in State
  BY DEF RunInv, RunnerTypes
<1>3. /\ s \in State /\ s.status = st /\ s.launched = mem.launched /\ s.cont = mem.cont
  BY <1>2, WithSessionFields DEF State, Terminal
<1>4. st # "missing"
  BY DEF Terminal, Final
<1> HIDE DEF s
<1> QED
  BY <1>1, <1>3, <1>4, JudgeSaveInv

LEMMA FindsSubstitutionInv == RunInv /\ FindsSubstitution => RunInv'
BY EndsWithInv DEF FindsSubstitution, Terminal

LEMMA FailsForGoodInv == RunInv /\ FailsForGood => RunInv'
BY EndsWithInv DEF FailsForGood, NotAccepted, Terminal

LEMMA IsInterruptedInv == RunInv /\ IsInterrupted => RunInv'
BY EndsWithInv DEF IsInterrupted, NotAccepted

(* ... those that close the continuation, ...                                 *)
LEMMA RefusesNewSessionInv == RunInv /\ RefusesNewSession => RunInv'
<1> SUFFICES ASSUME RunInv, RefusesNewSession PROVE RunInv'
  OBVIOUS
<1> DEFINE c == Closed(WithSession("unavailable"), "failed")
           s == [c EXCEPT !.status = "provider_error"]
<1>1. /\ Saves(s) /\ pod.at = "judge" /\ GoesTo("artifacts") /\ prov' = Silent
      /\ UNCHANGED <<cap, now, ghosts>>
  BY DEF RefusesNewSession, Judged, Finishes
<1>2. mem \in State
  BY DEF RunInv, RunnerTypes
<1>3. /\ c \in State /\ c.launched = mem.launched
      /\ \/ c.cont = mem.cont
         \/ /\ c.cont # None /\ mem.cont # None
            /\ c.cont.target = mem.cont.target /\ c.cont.request = mem.cont.request
  BY <1>2, WithSessionFields, ClosedFields
<1> HIDE DEF c
<1>4. s \in State /\ s.status = "provider_error" /\ s.launched = c.launched /\ s.cont = c.cont
  BY <1>3 DEF State, Terminal
<1> HIDE DEF s
<1> QED
  BY <1>1, <1>3, <1>4, JudgeSaveInv

LEMMA AcceptsResponseInv == RunInv /\ AcceptsResponse => RunInv'
<1> SUFFICES ASSUME RunInv, AcceptsResponse PROVE RunInv'
  OBVIOUS
<1>1. PICK seen \in Read, status \in Final :
        Finishes([Closed(WithSession(seen), "complete") EXCEPT !.status = status,
                                                               !.response = status])
  BY DEF AcceptsResponse
<1> DEFINE c == Closed(WithSession(seen), "complete")
           s == [c EXCEPT !.status = status, !.response = status]
<1>2. /\ Saves(s) /\ pod.at = "judge" /\ GoesTo("artifacts") /\ prov' = Silent
      /\ UNCHANGED <<cap, now, ghosts>>
  BY <1>1 DEF AcceptsResponse, Judged, Finishes
<1>3. mem \in State
  BY DEF RunInv, RunnerTypes
<1>4. /\ c \in State /\ c.launched = mem.launched
      /\ \/ c.cont = mem.cont
         \/ /\ c.cont # None /\ mem.cont # None
            /\ c.cont.target = mem.cont.target /\ c.cont.request = mem.cont.request
  BY <1>3, WithSessionFields, ClosedFields
<1> HIDE DEF c
<1>5. s \in State /\ s.status = status /\ s.launched = c.launched /\ s.cont = c.cont
  BY <1>4 DEF State, Terminal
<1>6. status # "missing"
  BY DEF Final
<1> HIDE DEF s
<1> QED
  BY <1>2, <1>4, <1>5, <1>6, JudgeSaveInv

(* ... and those that go on.                                                  *)
LEMMA RetryInv ==
    ASSUME RunInv, Judged, NEW seen, NEW wait \in Nat, NEW backoff \in RetryInitial .. RetryMax,
           Saves(Retry(WithSession(seen), wait, backoff)), GoesTo("loop")
    PROVE  RunInv'
<1> DEFINE w == WithSession(seen)
           n == now + wait
           s == [w EXCEPT !.status = "retrying", !.notBefore = n, !.backoff = backoff]
<1>1. Saves(s) /\ pod.at = "judge" /\ prov' = Silent /\ UNCHANGED <<cap, now, ghosts>>
  BY DEF Judged, Retry
<1>2. mem \in State /\ n \in Nat
  BY DEF RunInv, RunnerTypes
<1>3. w \in State /\ w.launched = mem.launched /\ w.cont = mem.cont
  BY <1>2, WithSessionFields
<1> HIDE DEF w, n
<1>4. s \in State /\ s.status = "retrying" /\ s.launched = w.launched /\ s.cont = w.cont
  BY <1>2, <1>3 DEF State
<1> HIDE DEF s
<1> QED
  BY <1>1, <1>3, <1>4, JudgeSaveInv DEF Final

LEMMA RetriesLaterInv == RunInv /\ RetriesLater => RunInv'
<1> SUFFICES ASSUME RunInv, RetriesLater PROVE RunInv'
  OBVIOUS
<1>1. Judged /\ GoesTo("loop")
  BY DEF RetriesLater, NotAccepted
<1>2. PICK seen \in Read :
        LET s == WithSession(seen)
        IN  IF seen = "unavailable" \/ Accepted
            THEN Saves(Retry(s, 0, RetryInitial))
            ELSE \/ Saves(Retry(s, BackoffNow(s), Doubled(BackoffNow(s))))
                 \/ \E reset \in Resets : Saves(Retry(s, reset, RetryInitial))
  BY DEF RetriesLater
<1> DEFINE b == BackoffNow(WithSession(seen))
<1>3. b \in RetryInitial .. RetryMax
  <2>1. WithSession(seen) \in State
    BY WithSessionFields DEF RunInv, RunnerTypes
  <2> QED
    BY <2>1 DEF BackoffNow, State
<1>4. Doubled(b) \in RetryInitial .. RetryMax
  <2>1. 2 * b \in Nat /\ 2 * b >= RetryInitial
    BY <1>3
  <2> QED
    BY <2>1, MinOf DEF Doubled
<1>5. RetryInitial \in RetryInitial .. RetryMax /\ RetryInitial \in Nat /\ b \in Nat
  BY <1>3
<1>6. \/ Saves(Retry(WithSession(seen), 0, RetryInitial))
      \/ Saves(Retry(WithSession(seen), b, Doubled(b)))
      \/ \E reset \in Resets : Saves(Retry(WithSession(seen), reset, RetryInitial))
  BY <1>2
<1> HIDE DEF b
<1>7. CASE Saves(Retry(WithSession(seen), 0, RetryInitial))
  BY <1>1, <1>5, <1>7, RetryInv
<1>8. CASE Saves(Retry(WithSession(seen), b, Doubled(b)))
  BY <1>1, <1>4, <1>5, <1>8, RetryInv
<1>9. CASE \E reset \in Resets : Saves(Retry(WithSession(seen), reset, RetryInitial))
  BY <1>1, <1>5, <1>9, RetryInv
<1> QED
  BY <1>6, <1>7, <1>8, <1>9

LEMMA RunsOutInv == RunInv /\ RunsOut => RunInv'
<1> SUFFICES ASSUME RunInv, RunsOut PROVE RunInv'
  OBVIOUS
<1>1. RunnerTypes /\ Sound(disk) /\ Capped /\ Counted /\ Remembered /\ Contained
  BY DEF RunInv
<1>2. PICK seen \in Read : mem' = WithSession(seen)
  BY DEF RunsOut
<1>3. /\ pod.at = "judge" /\ pod' = [pod EXCEPT !.at = "loop"] /\ prov' = Silent
      /\ disk' = disk /\ cap' = cap /\ now' = now
      /\ launches' = launches /\ lost' = lost /\ torn' = torn
  BY DEF RunsOut, NotAccepted, Judged, GoesTo, ghosts
<1>4. /\ mem' \in State /\ mem'.status = mem.status /\ mem'.launched = mem.launched
      /\ mem'.cont = mem.cont /\ mem'.notBefore = mem.notBefore
      /\ mem'.finalizing = mem.finalizing
  BY <1>1, <1>2, WithSessionFields DEF RunnerTypes
<1>5. pod'.at = "loop" /\ pod'.request = pod.request /\ pod' \in Pod /\ Silent \in Provider
  BY <1>1, <1>3 DEF RunnerTypes, Pod, Places, Provider, Silent
<1>6. RunnerTypes'
  BY <1>1, <1>3, <1>4, <1>5 DEF RunnerTypes
<1>7. Sound(disk)' /\ Capped' /\ Counted'
  BY <1>1, <1>3, <1>5 DEF Sound, Capped, Counted, Budget, Ceiling, Pending
<1>8. Remembered'
  BY <1>1, <1>3, <1>4, <1>5 DEF Remembered, Active, Pending
<1>9. Contained'
  BY <1>3, <1>5 DEF Contained, ProviderContained, Alive, Silent
<1> QED
  BY <1>6, <1>7, <1>8, <1>9 DEF RunInv

-----------------------------------------------------------------------------
LEMMA WritesArtifactsInv == RunInv /\ WritesArtifacts => RunInv'
<1> SUFFICES ASSUME RunInv, WritesArtifacts PROVE RunInv'
  OBVIOUS
<1>1. RunnerTypes /\ Sound(disk) /\ Remembered /\ pod.at = "artifacts"
  BY DEF RunInv, WritesArtifacts
<1>2. mem = disk /\ mem \in State /\ disk.status # "missing"
  BY <1>1 DEF Remembered, RunnerTypes
<1>3. GoesTo("account") /\ prov' = prov /\ UNCHANGED <<cap, now, ghosts>>
  BY DEF WritesArtifacts
<1>4. CASE mem.status \in Terminal
  <2> DEFINE st == IF mem.status \in Final THEN "complete" ELSE "failed"
             c == Closed(mem, st)
             s == [c EXCEPT !.notBefore = None, !.backoff = None]
  <2>1. Saves(s)
    BY <1>4 DEF WritesArtifacts
  <2>2. st \in {"complete", "failed"}
    OBVIOUS
  <2> HIDE DEF st
  <2>3. /\ c \in State /\ c.status = mem.status /\ c.launched = mem.launched
        /\ c.session = mem.session
        /\ \/ c.cont = mem.cont
           \/ /\ c.cont # None /\ mem.cont # None
              /\ c.cont.target = mem.cont.target /\ c.cont.request = mem.cont.request
    BY <1>2, <2>2, ClosedFields
  <2> HIDE DEF c
  <2>4. /\ s \in State /\ s.status = c.status /\ s.launched = c.launched /\ s.cont = c.cont
        /\ s.session = c.session /\ s.notBefore = None
    BY <2>3 DEF State
  <2> HIDE DEF s
  <2>5. SameBudget(s)
    BY <1>2, <2>3, <2>4 DEF SameBudget
  <2>6. Pending(s) => s.notBefore = None /\ s.status \notin Final /\ (~torn => s.session)
    BY <1>1, <1>2, <2>3, <2>4, <2>5 DEF SameBudget, Pending, Sound
  <2> QED
    BY <1>1, <1>2, <1>3, <2>1, <2>3, <2>4, <2>5, <2>6, SaveInv
<1>5. CASE mem.status \notin Terminal
  <2>1. Saves(mem)
    BY <1>2, <1>5 DEF WritesArtifacts, Saves
  <2>2. SameBudget(mem)
    BY <1>2 DEF SameBudget
  <2>3. Pending(mem) => mem.notBefore = None /\ mem.status \notin Final /\ (~torn => mem.session)
    BY <1>1, <1>2 DEF Sound
  <2> QED
    BY <1>1, <1>2, <1>3, <2>1, <2>2, <2>3, SaveInv
<1> QED
  BY <1>4, <1>5

(* What status.json says stays sound when only the status changes, to one that
   is no result.  A provider that is alive has none on record.                *)
LEMMA EndStep ==
    ASSUME RunInv, NEW t \in State,
           disk' = disk \/ disk' = t,
           t = disk \/ (t = [disk EXCEPT !.status = t.status]
                         /\ t.status \in {"interrupted", "provider_error"}),
           prov' \in Provider, Alive' => Alive /\ pod.at \in {"run", "account", "cli"},
           NEW at \in {"cli", "summary"}, pod' = [pod EXCEPT !.at = at],
           at = "cli" => t.status # "missing", mem' = t,
           cap' = cap, now' = now, launches' = launches, torn' = torn,
           lost' = (IF pod.at = "mark" THEN lost + 1 ELSE lost), pod.at # "prepared"
    PROVE  RunInv'
<1>1. RunnerTypes /\ Sound(disk) /\ Capped /\ Counted /\ Remembered /\ Contained
  BY DEF RunInv
<1>2. /\ t.launched = disk.launched /\ t.cont = disk.cont /\ t.session = disk.session
      /\ t.notBefore = disk.notBefore
      /\ disk'.launched = disk.launched /\ disk'.cont = disk.cont
      /\ disk'.session = disk.session /\ disk'.notBefore = disk.notBefore
  BY <1>1 DEF RunnerTypes, State
<1>3. /\ disk' \in State
      /\ disk' = disk \/ disk'.status \in {"interrupted", "provider_error"}
  BY <1>1 DEF RunnerTypes
<1>4. /\ pod' \in Pod /\ pod'.at \in {"cli", "summary"} /\ pod'.request = pod.request
      /\ pod'.at = "cli" => t.status # "missing"
  BY <1>1 DEF RunnerTypes, Pod, Places
<1>5. ASSUME Alive' PROVE ~Present(disk') /\ ~Present(mem')
  <2>1. ~Present(disk)
    <3>1. CASE pod.at = "run"
      BY <1>1, <3>1 DEF Remembered, Active, Present
    <3>2. CASE pod.at # "run"
      BY <1>1, <1>5, <3>2 DEF Contained, ProviderContained
    <3> QED
      BY <3>1, <3>2
  <2>2. ~Present(t)
    BY <2>1 DEF Present, Final
  <2> QED
    BY <2>1, <2>2
<1>6. RunnerTypes'
  BY <1>1, <1>3, <1>4, <1>5 DEF RunnerTypes
<1>7. Budget(disk)' = Budget(disk) /\ Ceiling(disk)' = Ceiling(disk)
  BY <1>2 DEF Budget, Ceiling
<1>8. Sound(disk)'
  BY <1>1, <1>2, <1>3, <1>7 DEF Sound, Pending, Final
<1>9. Capped' /\ Counted'
  BY <1>1, <1>2, <1>4, <1>7 DEF Capped, Counted, RunnerTypes, State
<1>10. t = [disk' EXCEPT !.status = t.status]
  BY <1>1, <1>3 DEF RunnerTypes, State
<1>11. Remembered'
  BY <1>4, <1>10 DEF Remembered, Active
<1>12. Contained'
  BY <1>4, <1>5 DEF Contained, ProviderContained, Present
<1> QED
  BY <1>6, <1>8, <1>9, <1>11, <1>12 DEF RunInv

LEMMA HarnessFailsInv == RunInv /\ HarnessFails => RunInv'
<1> SUFFICES ASSUME RunInv, HarnessFails PROVE RunInv'
  OBVIOUS
<1> DEFINE st == IF pod.stop THEN "interrupted" ELSE "provider_error"
           t == [disk EXCEPT !.status = st]
<1>1. /\ pod.at # "prepared"
      /\ mem' = t /\ (disk' = t \/ disk' = disk)
      /\ lost' = (IF pod.at = "mark" THEN lost + 1 ELSE lost)
      /\ pod' = [pod EXCEPT !.at = "cli"] /\ cap' = cap /\ now' = now
      /\ launches' = launches /\ torn' = torn
  BY DEF HarnessFails, Broken, GoesTo
<1>6. prov' \in Provider /\ (Alive' => Alive /\ pod.at = "run")
  BY DEF HarnessFails, RunInv, RunnerTypes, Provider, Silent, Alive
<1>2. st \in {"interrupted", "provider_error"}
  OBVIOUS
<1> HIDE DEF st
<1>3. t \in State /\ t.status = st
  BY <1>2 DEF RunInv, RunnerTypes, State, Terminal
<1>4. t = [disk EXCEPT !.status = t.status]
  BY <1>3
<1>5. st # "missing"
  BY <1>2
<1> HIDE DEF t
<1> QED
  BY <1>1, <1>2, <1>3, <1>4, <1>5, <1>6, EndStep

LEMMA ChecksSignalInv == RunInv /\ ChecksSignal => RunInv'
<1> SUFFICES ASSUME RunInv, ChecksSignal PROVE RunInv'
  OBVIOUS
<1>1. RunnerTypes /\ Sound(disk) /\ Capped /\ Counted /\ Remembered /\ Contained
  BY DEF RunInv
<1>2. /\ pod.at \in {"account", "cli"} /\ pod' = [pod EXCEPT !.at = "summary"] /\ prov' = prov
      /\ cap' = cap /\ now' = now /\ launches' = launches /\ lost' = lost /\ torn' = torn
  BY DEF ChecksSignal, GoesTo, ghosts
<1>3. mem = [disk EXCEPT !.status = mem.status]
  BY <1>1, <1>2 DEF Remembered
<1>4. CASE pod.stop
  <2> DEFINE t == [mem EXCEPT !.status = "interrupted"]
  <2>1. mem' = t /\ (disk' = t \/ disk' = disk)
    BY <1>4 DEF ChecksSignal
  <2>2. t \in State /\ t.status = "interrupted"
    BY <1>1 DEF RunnerTypes, State
  <2>3. t = [disk EXCEPT !.status = "interrupted"]
    BY <1>1, <1>3 DEF RunnerTypes, State
  <2>4. t = [disk EXCEPT !.status = t.status]
    BY <2>2, <2>3
  <2> HIDE DEF t
  <2>5. lost' = (IF pod.at = "mark" THEN lost + 1 ELSE lost) /\ pod.at # "prepared"
    BY <1>2
  <2>6. t = disk \/ (t = [disk EXCEPT !.status = t.status]
                       /\ t.status \in {"interrupted", "provider_error"})
    BY <2>2, <2>4
  <2>7. prov' \in Provider /\ (Alive' => Alive)
    BY <1>1, <1>2 DEF RunnerTypes, Alive
  <2> QED
    BY <1>2, <2>1, <2>2, <2>5, <2>6, <2>7, EndStep
<1>5. CASE ~pod.stop
  <2>1. mem' = mem /\ disk' = disk
    BY <1>5 DEF ChecksSignal
  <2>2. /\ pod' \in Pod /\ pod'.at = "summary" /\ pod'.request = pod.request
    BY <1>1, <1>2 DEF RunnerTypes, Pod, Places
  <2>3. RunnerTypes' /\ Sound(disk)' /\ Capped' /\ Counted'
    BY <1>1, <1>2, <2>1, <2>2
    DEF RunnerTypes, Sound, Capped, Counted, Budget, Ceiling, Pending
  <2>4. Remembered' /\ Contained'
    BY <1>1, <1>2, <2>1, <2>2 DEF Remembered, Active, Contained, ProviderContained, Alive, Present
  <2> QED
    BY <2>3, <2>4 DEF RunInv
<1> QED
  BY <1>4, <1>5

(* Steps that change no file and leave no process: a Pod goes, or a new one
   comes.                                                                    *)
LEMMA PodStep ==
    ASSUME RunInv, pod' \in Pod, pod'.at \in {"gone", "boot", "prepare"},
           pod'.at = "boot" => pod'.request = None,
           pod'.at = "prepare" => pod'.request # None,
           mem' \in State, prov' \in Provider, ~Alive',
           UNCHANGED <<files, now, launches>>, lost' \in Nat,
           lost' >= lost + (IF pod.at = "mark" THEN 1 ELSE 0),
           torn' \in BOOLEAN, torn => torn', pod.at = "prepared" => torn'
    PROVE  RunInv'
<1>1. RunnerTypes /\ Sound(disk) /\ Capped /\ Counted /\ Remembered /\ Contained
  BY DEF RunInv
<1>2. disk' = disk /\ cap' = cap /\ now' = now /\ launches' = launches
  BY DEF files
<1>3. RunnerTypes'
  BY <1>1, <1>2 DEF RunnerTypes
<1>4. Ceiling(disk)' = Ceiling(disk)
  BY <1>2 DEF Ceiling
<1>5. /\ Ceiling(disk) \in Nat /\ Budget(disk) \in Nat /\ Budget(disk) <= Ceiling(disk)
      /\ Budget(disk)' \in {Budget(disk), Ceiling(disk)}
      /\ (torn' = torn => Budget(disk)' = Budget(disk))
      /\ (torn' => Budget(disk)' = Ceiling(disk))
  <2>1. CASE disk.cont = None
    BY <2>1, <1>2, <1>4 DEF Budget, Ceiling
  <2>2. CASE disk.cont # None
    <3>1. disk.cont.target \in Nat
      BY <2>2, <1>1 DEF RunnerTypes, State, Continuation
    <3>2. /\ Max({MaxAttempts, disk.cont.target}) \in Nat
          /\ Max({MaxAttempts, disk.cont.target}) >= disk.cont.target
      BY <3>1, MaxOf
    <3>3. /\ Budget(disk) = IF torn THEN Max({MaxAttempts, disk.cont.target}) ELSE disk.cont.target
          /\ Budget(disk)' = IF torn' THEN Max({MaxAttempts, disk.cont.target}) ELSE disk.cont.target
          /\ Ceiling(disk) = Max({MaxAttempts, disk.cont.target})
      BY <2>2, <1>2 DEF Budget, Ceiling
    <3> QED
      BY <3>1, <3>2, <3>3, <1>1 DEF RunnerTypes
  <2> QED
    BY <2>1, <2>2
<1>6. disk.launched \in Nat /\ cap \in Nat
  BY <1>1 DEF RunnerTypes, State
<1>7. Sound(disk)'
  BY <1>1, <1>2, <1>5, <1>6 DEF Sound, Pending
<1>8. Capped'
  BY <1>1, <1>2, <1>4, <1>5, <1>6 DEF Capped
<1>9. Counted'
  BY <1>1, <1>2, <1>6 DEF Counted, RunnerTypes
<1>10. Remembered' /\ Contained'
  BY DEF Remembered, Active, Contained, ProviderContained
<1> QED
  BY <1>3, <1>7, <1>8, <1>9, <1>10 DEF RunInv

LEMMA GoneIsPod ==
    ASSUME RunInv, NEW told \in {"none", "killed", "refused", "result", "timeout",
                                 "provider_error", "interrupted", "incomplete"}
    PROVE  Gone(told) \in Pod /\ Gone(told).at = "gone"
BY DEF RunInv, RunnerTypes, Gone, Pod, Places

LEMMA StartsPodInv == RunInv /\ StartsPod => RunInv'
<1> SUFFICES ASSUME RunInv, StartsPod PROVE RunInv'
  OBVIOUS
<1>1. RunnerTypes /\ Contained /\ pod.at = "gone"
  BY DEF RunInv, StartsPod
<1>2. \E r \in Requests \union {None}, w \in Nat : PodStarts(r, w)
  BY <1>1 DEF StartsPod, RunnerTypes, Pod
<1>3. PICK r \in Requests \union {None}, w \in Nat : PodStarts(r, w)
  BY <1>2
<1>4. /\ pod' \in Pod /\ pod'.at \in {"boot", "prepare"}
      /\ (pod'.at = "boot" => pod'.request = None) /\ (pod'.at = "prepare" => pod'.request # None)
  BY <1>3 DEF PodStarts, Pod, Places
<1>5. UNCHANGED <<files, mem, prov, now, launches, lost, torn>>
  BY <1>3 DEF PodStarts, ghosts
<1>6. mem' \in State /\ prov' \in Provider /\ ~Alive' /\ lost' \in Nat /\ torn' \in BOOLEAN
      /\ lost' >= lost
  BY <1>1, <1>5 DEF RunnerTypes, Contained, ProviderContained, Alive
<1> QED
  BY <1>1, <1>4, <1>5, <1>6, PodStep

LEMMA PreparerRefusesInv == RunInv /\ PreparerRefuses => RunInv'
<1> SUFFICES ASSUME RunInv, PreparerRefuses PROVE RunInv'
  OBVIOUS
<1>1. RunnerTypes /\ Contained /\ pod.at = "prepare"
  BY DEF RunInv, PreparerRefuses
<1>2. pod' = Gone("refused") /\ UNCHANGED <<files, mem, prov, now, launches, lost, torn>>
  BY DEF PreparerRefuses, ghosts
<1>3. pod' \in Pod /\ pod'.at = "gone"
  BY <1>2, GoneIsPod
<1>4. mem' \in State /\ prov' \in Provider /\ ~Alive' /\ lost' \in Nat /\ torn' \in BOOLEAN
      /\ lost' >= lost
  BY <1>1, <1>2 DEF RunnerTypes, Contained, ProviderContained, Alive
<1> QED
  BY <1>1, <1>2, <1>3, <1>4, PodStep

LEMMA ExitsInv == RunInv /\ Exits => RunInv'
<1> SUFFICES ASSUME RunInv, Exits PROVE RunInv'
  OBVIOUS
<1>1. RunnerTypes /\ Contained /\ pod.at = "summary"
  BY DEF RunInv, Exits
<1>2. pod' = Gone(Told(mem)) /\ mem' = Missing /\ prov' = Silent
      /\ UNCHANGED <<files, now, launches, lost, torn>>
  BY DEF Exits, ghosts
<1>3. Told(mem) \in {"none", "killed", "refused", "result", "timeout",
                     "provider_error", "interrupted", "incomplete"}
  BY DEF Told
<1>4. pod' \in Pod /\ pod'.at = "gone"
  BY <1>2, <1>3, GoneIsPod
<1>5. mem' \in State /\ prov' \in Provider /\ ~Alive' /\ lost' \in Nat /\ torn' \in BOOLEAN
      /\ lost' >= lost
  BY <1>1, <1>2, MissingIsState DEF RunnerTypes, Silent, Provider, Alive
<1> QED
  BY <1>1, <1>2, <1>4, <1>5, PodStep

LEMMA KilledInv == RunInv /\ Killed => RunInv'
<1> SUFFICES ASSUME RunInv, Killed PROVE RunInv'
  OBVIOUS
<1>1. RunnerTypes
  BY DEF RunInv
<1>2. /\ pod' = Gone("killed") /\ mem' = Missing /\ prov' = Silent
      /\ lost' = (IF pod.at = "mark" THEN lost + 1 ELSE lost)
      /\ torn' = (torn \/ pod.at = "prepared")
      /\ UNCHANGED <<files, now, launches>>
  BY DEF Killed
<1>3. pod' \in Pod /\ pod'.at = "gone"
  BY <1>2, GoneIsPod
<1>4. mem' \in State /\ prov' \in Provider /\ ~Alive'
  BY <1>2, MissingIsState DEF Silent, Provider, Alive
<1>5. lost' \in Nat /\ lost' >= lost + (IF pod.at = "mark" THEN 1 ELSE 0)
  BY <1>1, <1>2 DEF RunnerTypes
<1>6. torn' \in BOOLEAN /\ (torn => torn') /\ (pod.at = "prepared" => torn')
  BY <1>1, <1>2 DEF RunnerTypes
<1> QED
  BY <1>2, <1>3, <1>4, <1>5, <1>6, PodStep

LEMMA SignalInv == RunInv /\ Signal => RunInv'
<1> SUFFICES ASSUME RunInv, Signal PROVE RunInv'
  OBVIOUS
<1>1. RunnerTypes /\ Sound(disk) /\ Capped /\ Counted /\ Remembered /\ Contained
  BY DEF RunInv
<1>2. /\ pod' = [pod EXCEPT !.stop = TRUE] /\ disk' = disk /\ cap' = cap /\ mem' = mem
      /\ prov' = prov /\ now' = now /\ launches' = launches /\ lost' = lost /\ torn' = torn
  BY DEF Signal, files, ghosts
<1>3. pod' \in Pod /\ pod'.at = pod.at /\ pod'.request = pod.request
  BY <1>1, <1>2 DEF RunnerTypes, Pod
<1>4. RunnerTypes'
  BY <1>1, <1>2, <1>3 DEF RunnerTypes
<1>5. Sound(disk)' /\ Capped' /\ Counted'
  BY <1>1, <1>2, <1>3 DEF Sound, Capped, Counted, Budget, Ceiling, Pending, Continues
<1>6. Remembered'
  BY <1>1, <1>2, <1>3 DEF Remembered, Active, Budget, Ceiling, Pending
<1>7. Contained'
  BY <1>1, <1>2, <1>3 DEF Contained, ProviderContained, Alive, Present
<1> QED
  BY <1>4, <1>5, <1>6, <1>7 DEF RunInv

(* The polling loop goes on only before the deadline.                         *)
LEMMA NoVerdict == ASSUME Verdict = "none" PROVE ~PastDeadline
<1> DEFINE holding == {i \in 1 .. 6 : Applies(Order[i])}
<1>1. SUFFICES ASSUME PastDeadline PROVE FALSE
  OBVIOUS
<1>2. 4 \in holding
  BY <1>1 DEF Order, Applies
<1>3. \E x \in holding : \A y \in holding : x <= y
  <2>1. holding \subseteq 1 .. 6
    OBVIOUS
  <2> HIDE DEF holding
  <2>2. CASE 1 \in holding
    BY <2>1, <2>2
  <2>3. CASE 1 \notin holding /\ 2 \in holding
    BY <2>1, <2>3
  <2>4. CASE 1 \notin holding /\ 2 \notin holding /\ 3 \in holding
    BY <2>1, <2>4
  <2>5. CASE 1 \notin holding /\ 2 \notin holding /\ 3 \notin holding
    BY <1>2, <2>1, <2>5
  <2> QED
    BY <2>2, <2>3, <2>4, <2>5
<1>4. Min(holding) \in 1 .. 6
  BY <1>3 DEF Min
<1>5. Verdict = Order[Min(holding)]
  BY <1>2 DEF Verdict
<1> HIDE DEF holding
<1> QED
  BY <1>4, <1>5 DEF Order

LEMMA TickInv == RunInv /\ Tick => RunInv'
<1> SUFFICES ASSUME RunInv, Tick PROVE RunInv'
  OBVIOUS
<1>1. RunnerTypes /\ Sound(disk) /\ Capped /\ Counted /\ Remembered /\ Contained
  BY DEF RunInv
<1>2. /\ pod' = pod /\ disk' = disk /\ cap' = cap /\ mem' = mem /\ now' = now + 1
      /\ prov' = prov /\ launches' = launches /\ lost' = lost /\ torn' = torn
  BY DEF Tick, files, ghosts
<1>3. pod.at \in {"gone", "wait"} \/ (pod.at = "run" /\ Verdict = "none")
  BY DEF Tick
<1>4. RunnerTypes'
  BY <1>1, <1>2 DEF RunnerTypes
<1>5. Sound(disk)' /\ Capped' /\ Counted'
  BY <1>1, <1>2 DEF Sound, Capped, Counted, Budget, Ceiling, Pending, Continues
<1>6. Remembered'
  BY <1>1, <1>2 DEF Remembered, Active, Budget, Ceiling, Pending
<1>7. pod.at = "run" => now + 1 <= mem.deadline
  BY <1>1, <1>3, NoVerdict DEF PastDeadline, RunnerTypes, State
<1>8. Contained'
  BY <1>1, <1>2, <1>3, <1>7 DEF Contained, ProviderContained, Alive
<1> QED
  BY <1>4, <1>5, <1>6, <1>8 DEF RunInv

-----------------------------------------------------------------------------
(* A reopened state still has an attempt that is not paid for twice: the same
   continuation as before, or one more launch in the saved session.           *)
LEMMA Reopening ==
    ASSUME RunInv, NEW r \in Requests, NEW w \in Nat, MayReopen(disk, r)
    PROVE  LET t == Reopened(disk, r, w)
           IN  /\ t \in State /\ t.status = "retrying" /\ t.notBefore = None
               /\ t.launched = disk.launched /\ t.session = disk.session
               /\ t.cont # None /\ t.cont.request = r /\ t.cont.target \in Nat
               /\ IF Continues(disk, r) THEN t.cont = disk.cont
                  ELSE /\ t.cont.target = disk.launched + 1 /\ disk.session
                       /\ disk.status = "provider_error"
<1> DEFINE c == IF Continues(disk, r) THEN disk.cont
                ELSE [request |-> r, target |-> disk.launched + 1, status |-> "running"]
           d == now + w
           t == [disk EXCEPT !.status = "retrying", !.deadline = d, !.finalizing = FALSE,
                             !.notBefore = None, !.backoff = None, !.cont = c]
<1>1. disk \in State /\ d \in Nat /\ disk.launched \in Nat
  BY DEF RunInv, RunnerTypes, State
<1>2. c \in Continuation /\ c.request = r /\ c.target \in Nat
  <2>1. CASE Continues(disk, r)
    BY <2>1, <1>1 DEF Continues, State, Continuation
  <2>2. CASE ~Continues(disk, r)
    BY <2>2, <1>1 DEF Continuation
  <2> QED
    BY <2>1, <2>2
<1>3. c # None
  BY <1>2
<1>4. IF Continues(disk, r) THEN c = disk.cont
      ELSE c.target = disk.launched + 1 /\ disk.session /\ disk.status = "provider_error"
  BY DEF MayReopen
<1>5. Reopened(disk, r, w) = t
  BY DEF Reopened
<1> HIDE DEF c, d
<1>6. /\ t \in State /\ t.status = "retrying" /\ t.notBefore = None
      /\ t.launched = disk.launched /\ t.session = disk.session /\ t.cont = c
  BY <1>1, <1>2 DEF State
<1> HIDE DEF t
<1> QED
  BY <1>2, <1>3, <1>4, <1>5, <1>6

(* Such a state in the place of status.json.                                  *)
LEMMA ReopenedSound ==
    ASSUME RunInv, NEW r \in Requests, NEW t \in State,
           t.status = "retrying", t.notBefore = None,
           t.launched = disk.launched, t.session = disk.session,
           t.cont # None, t.cont.request = r, t.cont.target \in Nat,
           IF Continues(disk, r) THEN t.cont = disk.cont
           ELSE t.cont.target = disk.launched + 1 /\ disk.session,
           disk' = t, torn' = torn, cap' = cap
    PROVE  /\ Sound(disk)' /\ cap' <= Ceiling(disk)'
           /\ Continues(disk, r) => Budget(disk)' = Budget(disk)
           /\ Pending(t) /\ ~torn => t.session
<1>1. RunnerTypes /\ Sound(disk) /\ Capped
  BY DEF RunInv
<1>2. disk.launched \in Nat /\ cap \in Nat /\ t.launched \in Nat
  BY <1>1 DEF RunnerTypes, State
<1>3. /\ Max({MaxAttempts, t.cont.target}) \in Nat
      /\ Max({MaxAttempts, t.cont.target}) >= t.cont.target
      /\ Max({MaxAttempts, t.cont.target}) >= MaxAttempts
  BY MaxOf
<1>4. Ceiling(disk)' = Max({MaxAttempts, t.cont.target})
  BY DEF Ceiling
<1>5. Budget(disk)' = IF torn THEN Max({MaxAttempts, t.cont.target}) ELSE t.cont.target
  BY <1>4 DEF Budget
<1>6. CASE Continues(disk, r)
  <2>1. t.cont = disk.cont
    BY <1>6
  <2>2. Budget(disk)' = Budget(disk) /\ Ceiling(disk)' = Ceiling(disk)
    BY <2>1 DEF Budget, Ceiling
  <2>3. Sound(disk)'
    BY <1>1, <2>1, <2>2 DEF Sound, Pending, Final
  <2> QED
    BY <1>1, <2>1, <2>2, <2>3 DEF Capped, Sound, Pending
<1>7. CASE ~Continues(disk, r)
  <2>1. t.cont.target = disk.launched + 1 /\ disk.session
    BY <1>7
  <2>2. disk.launched <= Budget(disk)'
    BY <1>2, <1>3, <1>5, <2>1
  <2>3. Sound(disk)'
    <3>1. /\ disk'.status = "retrying" /\ disk'.notBefore = None
          /\ disk'.launched + 1 >= disk'.cont.target
      BY <1>2, <2>1
    <3>3. disk'.session
      <4>1. t.session = TRUE
        BY <2>1, <1>1 DEF RunnerTypes, State
      <4> QED
        BY <4>1
    <3>2. disk'.launched = disk.launched
      OBVIOUS
    <3> QED
      BY <2>2, <3>1, <3>2, <3>3 DEF Sound, Pending, Final
  <2>4. cap <= Ceiling(disk)'
    <3>1. CASE disk.cont = None
      BY <3>1, <1>1, <1>2, <1>3, <1>4 DEF Capped, Ceiling
    <3>2. CASE disk.cont # None
      <4>1. disk.cont.target \in Nat /\ disk.cont.target <= t.cont.target
        BY <3>2, <1>1, <1>2, <2>1 DEF Sound, RunnerTypes, State, Continuation
      <4>2. cap <= Max({MaxAttempts, disk.cont.target})
        BY <3>2, <1>1 DEF Capped, Ceiling
      <4>3. Max({MaxAttempts, disk.cont.target}) <= Max({MaxAttempts, t.cont.target})
        BY <4>1, <1>3, MaxOf
      <4> QED
        BY <1>2, <1>3, <1>4, <4>1, <4>2, <4>3, MaxOf
    <3> QED
      BY <3>1, <3>2
  <2> QED
    BY <1>7, <2>1, <2>3, <2>4
<1> QED
  BY <1>6, <1>7

LEMMA PreparerReopensInv == RunInv /\ PreparerReopens => RunInv'
<1> SUFFICES ASSUME RunInv, PreparerReopens PROVE RunInv'
  OBVIOUS
<1>1. RunnerTypes /\ Sound(disk) /\ Capped /\ Counted /\ Remembered /\ Contained
  BY DEF RunInv
<1> DEFINE t == Reopened(disk, pod.request, pod.window)
<1>2. /\ pod.at = "prepare" /\ MayReopen(disk, pod.request)
      /\ disk' = t /\ pod' = [pod EXCEPT !.at = "prepared"]
      /\ cap' = cap /\ mem' = mem /\ prov' = prov /\ now' = now
      /\ launches' = launches /\ lost' = lost /\ torn' = torn
  BY DEF PreparerReopens, GoesTo, ghosts
<1>3. pod.window \in Nat
  BY <1>1 DEF RunnerTypes, Pod
<1>4. CASE pod.request \in Requests
  <2>1. /\ t \in State /\ t.status = "retrying" /\ t.notBefore = None
        /\ t.launched = disk.launched /\ t.session = disk.session
        /\ t.cont # None /\ t.cont.request = pod.request /\ t.cont.target \in Nat
        /\ IF Continues(disk, pod.request) THEN t.cont = disk.cont
           ELSE t.cont.target = disk.launched + 1 /\ disk.session
    BY <1>2, <1>3, <1>4, Reopening
  <2> HIDE DEF t
  <2>2. Sound(disk)' /\ cap' <= Ceiling(disk)'
    BY <1>2, <1>4, <2>1, ReopenedSound
  <2>3. pod'.at = "prepared" /\ pod'.request = pod.request /\ pod' \in Pod
    BY <1>1, <1>2 DEF RunnerTypes, Pod, Places
  <2>4. RunnerTypes'
    BY <1>1, <1>2, <2>1, <2>3 DEF RunnerTypes
  <2>5. Capped'
    BY <1>1, <1>2, <1>4, <2>1, <2>2, <2>3 DEF Capped, Continues
  <2>6. Counted' /\ Remembered' /\ Contained'
    BY <1>1, <1>2, <2>1, <2>3
    DEF Counted, Remembered, Active, Contained, ProviderContained, Alive
  <2> QED
    BY <2>2, <2>4, <2>5, <2>6 DEF RunInv
<1>5. pod.request \in Requests \union {None}
  BY <1>1 DEF RunnerTypes, Pod
<1>6. pod.at = "prepare" => pod.request # None
  BY <1>1 DEF Capped
<1> QED
  BY <1>2, <1>4, <1>5, <1>6

LEMMA PreparerCapsInv == RunInv /\ PreparerCaps => RunInv'
<1> SUFFICES ASSUME RunInv, PreparerCaps PROVE RunInv'
  OBVIOUS
<1>1. RunnerTypes /\ Sound(disk) /\ Capped /\ Counted /\ Remembered /\ Contained
  BY DEF RunInv
<1>2. /\ pod.at = "prepared" /\ cap' = disk.cont.target /\ pod' = [pod EXCEPT !.at = "boot"]
      /\ disk' = disk /\ mem' = mem /\ prov' = prov /\ now' = now
      /\ launches' = launches /\ lost' = lost /\ torn' = torn
  BY DEF PreparerCaps, GoesTo, ghosts
<1>3. disk.cont # None /\ disk.cont.target \in Nat
  BY <1>1, <1>2 DEF Capped, Continues, RunnerTypes, State, Continuation
<1>4. pod'.at = "boot" /\ pod'.request = pod.request /\ pod' \in Pod
  BY <1>1, <1>2 DEF RunnerTypes, Pod, Places
<1>5. RunnerTypes'
  BY <1>1, <1>2, <1>3, <1>4 DEF RunnerTypes
<1>6. Sound(disk)' /\ Budget(disk)' = Budget(disk) /\ Ceiling(disk)' = Ceiling(disk)
  BY <1>1, <1>2 DEF Sound, Pending, Budget, Ceiling
<1>7. disk.cont.target <= Budget(disk) /\ disk.cont.target <= Ceiling(disk)
  BY <1>3, MaxOf DEF Budget, Ceiling
<1>8. Capped'
  BY <1>1, <1>2, <1>3, <1>4, <1>6, <1>7 DEF Capped, Continues
<1>9. Counted' /\ Remembered' /\ Contained'
  BY <1>1, <1>2, <1>4 DEF Counted, Remembered, Active, Contained, ProviderContained, Alive
<1> QED
  BY <1>5, <1>6, <1>8, <1>9 DEF RunInv

LEMMA LoadedFields ==
    ASSUME NEW s \in State, now \in Nat, s.status = "missing" => s = Missing
    PROVE  /\ Loaded(s) \in State
           /\ Loaded(s).launched = s.launched /\ Loaded(s).cont = s.cont
           /\ Loaded(s).notBefore = s.notBefore /\ Loaded(s).finalizing = s.finalizing
           /\ Loaded(s).session = s.session
           /\ s.status \in Terminal => Loaded(s) = s
           /\ s.status \notin Terminal =>
                    Loaded(s).status \notin Terminal \union {"missing"}
<1>1. CASE s.status = "missing"
  <2> DEFINE d == now + Timeout
  <2>1. d \in Nat /\ s = Missing
    BY <1>1
  <2> HIDE DEF d
  <2>2. [Missing EXCEPT !.status = "pending", !.deadline = d] \in State
    BY <2>1, MissingIsState DEF State
  <2>3. Loaded(s) = [Missing EXCEPT !.status = "pending", !.deadline = d]
    BY <1>1 DEF Loaded, d
  <2> QED
    BY <1>1, <2>1, <2>2, <2>3 DEF Missing, Terminal, Final
<1>2. CASE s.status \in Terminal
  BY <1>2 DEF Loaded, Terminal, Final
<1>3. CASE s.status # "missing" /\ s.status \notin Terminal
  <2>1. Loaded(s) = [s EXCEPT !.open = FALSE]
    BY <1>3 DEF Loaded
  <2> QED
    BY <1>3, <2>1 DEF State
<1> QED
  BY <1>1, <1>2, <1>3

(* What a new runner finds is sound, and it remembers what it finds.          *)
LEMMA BootStep ==
    ASSUME RunInv, pod.at = "boot", disk' \in State, Sound(disk)', Budget(disk)' = Budget(disk),
           Ceiling(disk)' = Ceiling(disk), disk'.launched = disk.launched,
           pod.request # None => disk'.cont # None,
           mem' \in State, mem'.launched = disk'.launched, mem'.cont = disk'.cont,
           mem'.notBefore = disk'.notBefore, mem'.finalizing = disk'.finalizing,
           mem'.session = disk'.session,
           disk'.status \in Terminal => mem' = disk',
           disk'.status \notin Terminal => mem'.status \notin Terminal \union {"missing"},
           GoesTo(IF mem'.status \in Terminal THEN "artifacts" ELSE "loop"),
           UNCHANGED <<cap, prov, now, ghosts>>
    PROVE  RunInv'
<1>1. RunnerTypes /\ Sound(disk) /\ Capped /\ Counted /\ Remembered /\ Contained
  BY DEF RunInv
<1> DEFINE at == IF mem'.status \in Terminal THEN "artifacts" ELSE "loop"
<1>2. /\ pod' = [pod EXCEPT !.at = at] /\ cap' = cap /\ prov' = prov /\ now' = now
      /\ launches' = launches /\ lost' = lost /\ torn' = torn
  BY DEF GoesTo, ghosts
<1>3. /\ at \in {"artifacts", "loop"}
      /\ at = "artifacts" => disk'.status \in Terminal
      /\ at = "loop" => disk'.status \notin Terminal
  OBVIOUS
<1> HIDE DEF at
<1>4. pod'.at = at /\ pod'.request = pod.request /\ pod' \in Pod
  BY <1>1, <1>2, <1>3 DEF RunnerTypes, Pod, Places
<1>5. RunnerTypes'
  BY <1>1, <1>2, <1>4 DEF RunnerTypes
<1>6. Capped'
  BY <1>1, <1>2, <1>3, <1>4 DEF Capped
<1>7. Counted'
  BY <1>1, <1>2, <1>3, <1>4 DEF Counted
<1>8. CASE at = "loop"
  <2>1. disk'.status \notin Final /\ mem'.status \notin Final \union {"missing"}
    BY <1>3, <1>8 DEF Terminal
  <2>2. Pending(mem)' /\ ~torn' => mem'.session
    BY DEF Sound, Pending
  <2>3. Remembered'
    BY <1>4, <1>8, <2>1, <2>2 DEF Remembered, Active
  <2>4. Contained'
    BY <1>1, <1>2, <1>4, <1>8 DEF Contained, ProviderContained, Alive
  <2> QED
    BY <1>5, <1>6, <1>7, <2>3, <2>4 DEF RunInv
<1>9. CASE at = "artifacts"
  <2>1. disk'.status # "missing"
    BY <1>3, <1>9 DEF Terminal, Final
  <2>2. Remembered'
    BY <1>3, <1>4, <1>9, <2>1 DEF Remembered, Active
  <2>3. Contained'
    BY <1>1, <1>2, <1>4, <1>9 DEF Contained, ProviderContained, Alive
  <2> QED
    BY <1>5, <1>6, <1>7, <2>2, <2>3 DEF RunInv
<1> QED
  BY <1>3, <1>8, <1>9

LEMMA BootsInv == RunInv /\ Boots => RunInv'
<1> SUFFICES ASSUME RunInv, Boots PROVE RunInv'
  OBVIOUS
<1>1. RunnerTypes /\ Sound(disk) /\ Capped
  BY DEF RunInv
<1>2. /\ pod.at = "boot" /\ mem' = Loaded(disk')
      /\ GoesTo(IF mem'.status \in Terminal THEN "artifacts" ELSE "loop")
      /\ UNCHANGED <<cap, prov, now, ghosts>> /\ torn' = torn /\ cap' = cap
  BY DEF Boots, ghosts
<1>3. /\ disk' \in State /\ Sound(disk)' /\ Budget(disk)' = Budget(disk)
      /\ Ceiling(disk)' = Ceiling(disk) /\ disk'.launched = disk.launched
      /\ pod.request # None => disk'.cont # None
  <2>1. CASE pod.request = None
    <3>1. disk' = disk
      BY <2>1 DEF Boots
    <3> QED
      BY <2>1, <3>1, <1>1, <1>2 DEF RunnerTypes, Sound, Pending, Budget, Ceiling
  <2>2. CASE pod.request # None
    <3> DEFINE t == Reopened(disk, pod.request, pod.window)
    <3>1. disk' = t /\ MayReopen(disk, pod.request)
      BY <2>2 DEF Boots
    <3>2. Continues(disk, pod.request) /\ pod.request \in Requests /\ pod.window \in Nat
      BY <1>1, <1>2, <2>2 DEF Capped, RunnerTypes, Pod
    <3>3. /\ t \in State /\ t.status = "retrying" /\ t.notBefore = None
          /\ t.launched = disk.launched /\ t.session = disk.session
          /\ t.cont # None /\ t.cont.request = pod.request /\ t.cont.target \in Nat
          /\ t.cont = disk.cont
      BY <3>1, <3>2, Reopening
    <3> HIDE DEF t
    <3>4. Sound(disk)' /\ Budget(disk)' = Budget(disk)
      BY <1>2, <3>1, <3>2, <3>3, ReopenedSound
    <3>5. Ceiling(disk)' = Ceiling(disk)
      BY <3>1, <3>3 DEF Ceiling
    <3> QED
      BY <3>1, <3>3, <3>4, <3>5
  <2> QED
    BY <2>1, <2>2
<1>4. now \in Nat /\ (disk'.status = "missing" => disk' = Missing)
  BY <1>1, <1>3 DEF RunnerTypes, Sound
<1>5. /\ mem' \in State
      /\ mem'.launched = disk'.launched /\ mem'.cont = disk'.cont
      /\ mem'.notBefore = disk'.notBefore /\ mem'.finalizing = disk'.finalizing
      /\ mem'.session = disk'.session
      /\ disk'.status \in Terminal => mem' = disk'
      /\ disk'.status \notin Terminal => mem'.status \notin Terminal \union {"missing"}
  BY <1>2, <1>3, <1>4, LoadedFields
<1> QED
  BY <1>2, <1>3, <1>5, BootStep

-----------------------------------------------------------------------------
LEMMA NextRunner == RunInv /\ [Next]_vars => RunInv'
<1> SUFFICES ASSUME RunInv, [Next]_vars PROVE RunInv'
  OBVIOUS
<1>1. CASE Runner
  BY <1>1, PreparerRefusesInv, PreparerReopensInv, PreparerCapsInv, BootsInv,
     LoopEndsInv, BeginsFinalizationInv, BeginsWaitInv, WaitEndsInv, GivesUpInv,
     CheckpointsInv, LaunchFailsInv, LaunchesInv, MarksInv, LooksInv, StopsProviderInv,
     FindsTamperingInv, FindsSubstitutionInv, RefusesNewSessionInv, AcceptsResponseInv,
     FailsForGoodInv, IsInterruptedInv, RunsOutInv, RetriesLaterInv,
     WritesArtifactsInv, ChecksSignalInv, ExitsInv DEF Runner
<1>2. CASE UNCHANGED vars
  BY <1>2, ProviderStep DEF vars, files, ghosts, Alive, RunInv, RunnerTypes
<1> QED
  BY <1>1, <1>2, HarnessFailsInv, StartsPodInv, ProviderActsInv, ProviderSpeaksInv, FindsOutputInv,
     StopsProviderInv, SignalInv, KilledInv, TickInv DEF Next

(* In every reachable state status.json is sound (what it says of the budget,
   the wait and the session of an attempt that was not launched), the launches
   are counted in it, and the runner remembers what it saved.                 *)
THEOREM RunnerInvariant == Spec => []RunInv
<1> QED
  BY InitRunner, NextRunner, PTL DEF Spec

(* The provider is started no more often than the budget of the trial, or of
   the continuation it is in, allows, whatever happens to the Pods
   (run_trial's attempt loop, prepare_trial_continuation, the preparer).      *)
THEOREM AttemptsAreBounded == Spec => []AttemptsBounded
<1>1. RunInv => AttemptsBounded
  <2> SUFFICES ASSUME RunInv PROVE AttemptsBounded
    OBVIOUS
  <2>1. /\ Sound(disk) /\ Counted /\ Remembered
        /\ disk.launched \in Nat /\ launches \in Nat /\ lost \in Nat
    BY DEF RunInv, RunnerTypes, State
  <2>2. Budget(disk) \in Nat
    BY MaxOf DEF RunInv, RunnerTypes, State, Continuation, Budget, Ceiling
  <2>3. launches <= Budget(disk) + lost
    BY <2>1, <2>2 DEF Sound, Counted, Remembered
  <2> QED
    BY <2>3 DEF AttemptsBounded, Budget, Ceiling
<1> QED
  BY <1>1, RunnerInvariant, PTL

(* No process of the provider's group is alive when an attempt is judged, when
   its outcome is saved, when its Pod is gone or after the deadline
   (run_attempt and its terminations); one that an exception out of the polling
   loop leaves behind is never beside a result (main).                        *)
THEOREM ProviderIsContained == Spec => []ProviderContained
<1>1. RunInv => ProviderContained
  BY DEF RunInv, Contained
<1> QED
  BY <1>1, RunnerInvariant, PTL

-----------------------------------------------------------------------------
(* The steps that count a launch, and those that write status.json.           *)
LEMMA OnlyLaunches == ASSUME [Next]_vars, launches' # launches PROVE Launches
<1>1. CASE Runner
  BY <1>1 DEF Runner, PreparerRefuses, PreparerReopens, PreparerCaps, Boots,
     LoopEnds, BeginsFinalization, BeginsWait, WaitEnds, GivesUp, Checkpoints, LaunchFails,
     Marks, Looks, StopsProvider, Stops, FindsTampering, FindsSubstitution, RefusesNewSession,
     AcceptsResponse, FailsForGood, IsInterrupted, RunsOut, RetriesLater, Judged, NotAccepted,
     WritesArtifacts, ChecksSignal, Exits, ghosts
<1>2. CASE ~Runner
  BY <1>2 DEF Next, HarnessFails, StartsPod, PodStarts, ProviderActs, ProviderSpeaks,
     FindsOutput, PromptBreaks, Stops, Signal, Killed, Tick, vars, ghosts
<1> QED
  BY <1>1, <1>2

LEMMA Writers ==
    ASSUME [Next]_vars, disk' # disk
    PROVE  \/ pod.at \in {"launch", "mark", "judge"}
           \/ LoopEnds \/ BeginsFinalization \/ BeginsWait \/ WaitEnds \/ GivesUp \/ Checkpoints
           \/ PreparerReopens \/ Boots \/ HarnessFails \/ WritesArtifacts \/ ChecksSignal
<1>1. CASE Runner
  BY <1>1 DEF Runner, PreparerRefuses, PreparerCaps, LaunchFails, Launches, Marks, Looks,
     StopsProvider, Stops, FindsTampering, FindsSubstitution, RefusesNewSession,
     AcceptsResponse, FailsForGood, IsInterrupted, RunsOut, RetriesLater, Judged, NotAccepted,
     Exits, files
<1>2. CASE ~Runner
  BY <1>2 DEF Next, StartsPod, PodStarts, ProviderActs, ProviderSpeaks, FindsOutput,
     PromptBreaks, Stops, Signal, Killed, Tick, vars, files
<1> QED
  BY <1>1, <1>2

(* A continuation resumes the saved session, unless its preparer died between
   its writes (the attempt loop, prepare_trial_continuation, the preparer).   *)
THEOREM SessionsAreKept == Spec => SessionKept
<1>1. ASSUME RunInv, [Next]_vars, launches' > launches, disk.cont # None, ~torn
      PROVE  mem.session
  <2>1. pod.at = "launch"
    BY <1>1, OnlyLaunches DEF Launches, RunInv, RunnerTypes
  <2>2. /\ mem.launched = disk.launched /\ mem.cont = disk.cont
        /\ disk.launched < Budget(disk)
        /\ Pending(mem) /\ ~torn => mem.session
    BY <1>1, <2>1 DEF RunInv, Remembered, Active
  <2> QED
    BY <1>1, <2>2 DEF Pending, Budget
<1>2. RunInv /\ [Next]_vars => [launches' > launches /\ disk.cont # None /\ ~torn => mem.session]_vars
  BY <1>1
<1> QED
  BY <1>2, RunnerInvariant, PTL DEF Spec, SessionKept

(* What the preparation of a continuation does to a wait and to a result.     *)
LEMMA ReopeningSpares ==
    ASSUME RunInv, NEW r \in Requests, NEW w \in Nat, MayReopen(disk, r),
           disk' = Reopened(disk, r, w)
    PROVE  /\ disk.status \notin Final
           /\ disk.notBefore # None => \/ disk'.cont # disk.cont
                                       \/ disk'.cont # None /\ disk'.launched >= disk'.cont.target
<1>1. /\ disk'.launched = disk.launched /\ disk'.cont # None /\ disk'.cont.request = r
      /\ disk'.cont.target \in Nat
      /\ IF Continues(disk, r) THEN disk'.cont = disk.cont
         ELSE disk.status = "provider_error"
  BY Reopening
<1>2. /\ Pending(disk) => disk.notBefore = None /\ disk.status \notin Final
      /\ disk.launched \in Nat
  BY DEF RunInv, Sound, RunnerTypes, State
<1>3. CASE Continues(disk, r)
  <2>1. Pending(disk) \/ disk.status \notin Final
    BY <1>1, <1>2, <1>3 DEF MayReopen, Pending, Terminal
  <2> QED
    BY <1>1, <1>2, <1>3, <2>1 DEF Pending
<1>4. CASE ~Continues(disk, r)
  BY <1>1, <1>4 DEF Continues, Final
<1> QED
  BY <1>3, <1>4

LEMMA ReopeningSteps ==
    ASSUME RunInv, PreparerReopens \/ Boots, disk' # disk
    PROVE  \E r \in Requests, w \in Nat : MayReopen(disk, r) /\ disk' = Reopened(disk, r, w)
<1>1. pod.request \in Requests \union {None} /\ pod.window \in Nat
  BY DEF RunInv, RunnerTypes, Pod
<1>2. CASE PreparerReopens
  BY <1>1, <1>2 DEF PreparerReopens, RunInv, Capped
<1>3. CASE Boots
  BY <1>1, <1>3 DEF Boots
<1> QED
  BY <1>2, <1>3

(* A retry boundary is only dropped once it has passed, when the finalization
   window begins, with the trial or by a continuation (the attempt loop,
   load_state, prepare_trial_continuation, write_terminal_artifacts).         *)
THEOREM WaitsAreHonoured == Spec => WaitIsHonoured
<1> DEFINE Honoured == \/ now >= disk.notBefore
                       \/ disk'.finalizing /\ ~disk.finalizing
                       \/ disk'.status \in Terminal
                       \/ disk'.cont # disk.cont
                       \/ disk'.cont # None /\ disk'.launched >= disk'.cont.target
<1>1. ASSUME RunInv, [Next]_vars, launches' > launches PROVE disk.notBefore = None
  BY <1>1, OnlyLaunches DEF Launches, RunInv, RunnerTypes, Remembered
<1>2. ASSUME RunInv, [Next]_vars, disk.notBefore # None, disk'.notBefore = None PROVE Honoured
  <2>1. /\ disk \in State /\ mem \in State
        /\ pod.at \notin {"launch", "mark", "judge"}
        /\ pod.at \in {"loop", "wait"} =>
                mem.notBefore = disk.notBefore /\ mem.finalizing = disk.finalizing
        /\ pod.at = "artifacts" => mem = disk
        /\ pod.at \in {"account", "cli"} => mem = [disk EXCEPT !.status = mem.status]
    BY <1>2 DEF RunInv, RunnerTypes, Remembered, Active
  <2>2. disk' # disk
    BY <1>2
  <2>3. CASE LoopEnds
    BY <1>2, <2>1, <2>3 DEF LoopEnds, Finishes, Saves, State
  <2>4. CASE BeginsFinalization
    BY <2>1, <2>4 DEF BeginsFinalization, Saves, State
  <2>5. CASE BeginsWait \/ GivesUp \/ Checkpoints
    <3>1. mem.notBefore # None /\ pod.at = "loop"
      BY <1>2, <2>1, <2>5 DEF BeginsWait, GivesUp, Checkpoints, Proceeds
    <3>2. BeginsWait
      BY <2>5, <3>1 DEF GivesUp, Checkpoints
    <3> QED
      BY <2>1, <1>2, <3>1, <3>2 DEF BeginsWait, Saves, State
  <2>6. CASE WaitEnds
    <3>1. CASE now >= mem.notBefore
      BY <2>1, <2>6, <3>1 DEF WaitEnds
    <3>2. CASE ~(now >= mem.notBefore)
      <4>1. disk' = mem \/ disk' = [mem EXCEPT !.status = "interrupted"]
        BY <2>6, <3>2 DEF WaitEnds, Finishes, Saves
      <4> QED
        BY <1>2, <2>1, <2>6, <4>1 DEF WaitEnds, State
    <3> QED
      BY <3>1, <3>2
  <2>7. CASE PreparerReopens \/ Boots
    BY <1>2, <2>2, <2>7, ReopeningSteps, ReopeningSpares
  <2>8. CASE HarnessFails
    <3>1. disk' = Broken(disk)
      BY <2>2, <2>8 DEF HarnessFails
    <3> QED
      BY <1>2, <2>1, <3>1 DEF Broken, State
  <2>9. CASE WritesArtifacts
    <3>1. mem.status \in Terminal /\ mem = disk
      BY <2>1, <2>2, <2>9 DEF WritesArtifacts
    <3> DEFINE st == IF mem.status \in Final THEN "complete" ELSE "failed"
               c == Closed(mem, st)
    <3>2. disk' = [c EXCEPT !.notBefore = None, !.backoff = None]
      BY <2>9, <3>1 DEF WritesArtifacts, Saves
    <3>3. c \in State /\ c.status = mem.status
      BY <2>1, ClosedFields
    <3> HIDE DEF c
    <3> QED
      BY <3>1, <3>2, <3>3 DEF State
  <2>10. CASE ChecksSignal
    <3>1. mem = [disk EXCEPT !.status = mem.status]
      BY <2>1, <2>10 DEF ChecksSignal
    <3>2. disk' = [mem EXCEPT !.status = "interrupted"]
      BY <2>2, <2>10 DEF ChecksSignal
    <3>3. mem.notBefore = disk.notBefore
      BY <2>1, <3>1 DEF State
    <3> QED
      BY <1>2, <2>1, <3>2, <3>3 DEF State
  <2> QED
    BY <1>2, <2>1, <2>2, <2>3, <2>4, <2>5, <2>6, <2>7, <2>8, <2>9, <2>10, Writers
<1>3. RunInv /\ [Next]_vars =>
        [ /\ launches' > launches => disk.notBefore = None
          /\ disk.notBefore # None /\ disk'.notBefore = None => Honoured ]_vars
  BY <1>1, <1>2
<1> QED
  BY <1>3, RunnerInvariant, PTL DEF Spec, WaitIsHonoured

(* A recorded provider result stays, but for a signal or an exception while the
   runner leaves (main, prepare_trial_continuation, the preparer).            *)
THEOREM ResultsStand == Spec => ResultStands
<1>1. ASSUME RunInv, [Next]_vars, Present(disk), ~pod.stop, ~HarnessFails
      PROVE  Present(disk')
  <2>1. disk.status \in Final /\ disk.response = disk.status
    BY <1>1 DEF Present
  <2>2. pod.at \notin Active /\ mem \in State /\ (pod.at = "artifacts" => mem = disk)
    BY <1>1, <2>1 DEF RunInv, RunnerTypes, Remembered
  <2>3. CASE disk' = disk
    BY <1>1, <2>3
  <2>4. CASE disk' # disk
    <3>1. ~PreparerReopens /\ ~Boots
      BY <1>1, <2>1, <2>4, ReopeningSteps, ReopeningSpares
    <3>2. ~ChecksSignal
      BY <1>1, <2>4 DEF ChecksSignal
    <3>3. WritesArtifacts
      BY <1>1, <2>2, <2>4, <3>1, <3>2, Writers
      DEF Active, LoopEnds, BeginsFinalization, BeginsWait, WaitEnds, GivesUp, Checkpoints, Proceeds
    <3>4. mem = disk /\ mem.status \in Terminal
      BY <2>1, <2>2, <3>3 DEF WritesArtifacts, Terminal
    <3> DEFINE st == IF mem.status \in Final THEN "complete" ELSE "failed"
               co == IF mem.cont = None THEN None ELSE [mem.cont EXCEPT !.status = st]
    <3>5. disk' = [Closed(mem, st) EXCEPT !.notBefore = None, !.backoff = None]
      BY <3>3, <3>4 DEF WritesArtifacts, Saves
    <3>6. Closed(mem, st) = [mem EXCEPT !.cont = co]
      BY DEF Closed
    <3> HIDE DEF st, co
    <3>7. disk'.status = mem.status /\ disk'.response = mem.response
      BY <2>2, <3>5, <3>6 DEF State
    <3> QED
      BY <2>1, <3>4, <3>7 DEF Present
  <2> QED
    BY <2>3, <2>4
<1>2. RunInv /\ [Next]_vars => [Present(disk) => Present(disk') \/ pod.stop \/ HarnessFails]_vars
  BY <1>1
<1> QED
  BY <1>2, RunnerInvariant, PTL DEF Spec, ResultStands
=============================================================================
