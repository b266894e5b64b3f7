---------------------------- MODULE ControllerLock ----------------------------
(***************************************************************************)
(* The campaign lock of src/brunner/cluster.py (ConfigMapLock and its use   *)
(* in run_cluster_controller): a ConfigMap that controller Pods renew by    *)
(* resourceVersion compare-and-swap.  A lock attempt is two kubectl calls,  *)
(* a get and a replace (or create), with a thread of its own once the lock  *)
(* is held; the main thread only looks at the flag `lost`.                  *)
(*                                                                         *)
(* Time is discrete and every quantity is an age: Tick lets all of them     *)
(* grow by one unit, and waits for whatever has a deadline.  The wall       *)
(* clocks of two Pods differ by at most Skew; the monotonic clocks run at   *)
(* the same rate.  A replace takes effect, if at all, before its kubectl    *)
(* ends.                                                                    *)
(***************************************************************************)
EXTENDS Integers

CONSTANTS
    Pods,        \* controller Pods; a restarted container keeps its holder name
    Nobody,      \* the holder of a lock that does not exist yet
    Duration,    \* ControllerProfile.lock_duration_seconds
    Interval,    \* the pause between two renewals, max(2, duration / 3)
    Timeout,     \* ControllerProfile.command_timeout_seconds, for one kubectl
    Skew,        \* how far the wall clocks of two Pods are apart
    Horizon      \* bound: ages are not told apart from here on

ASSUME NobodyAssumption == Nobody \notin Pods
ASSUME TimesAssumption == {Duration, Interval, Timeout, Skew, Horizon} \subseteq Nat
ASSUME HorizonAssumption == Horizon > Duration + Interval + 2 * Timeout + Skew

VARIABLES
    holder,      \* lock.json: whose it is
    age,         \* ... and how long ago its renewed_at was sampled
    main,        \* the controller process of each Pod
    call,        \* the kubectl call of its lock attempt
    timer,       \* how long that call, or the pause before it, has lasted
    since,       \* how long ago _last_success was set
    current,     \* the version it read is still the lock's version
    lost         \* _lost

vars == <<holder, age, main, call, timer, since, current, lost>>

Ages == 0 .. Horizon

TypeOK ==
    /\ holder \in Pods \cup {Nobody}
    /\ age \in Ages
    /\ main \in [Pods -> {"waiting", "leading", "ended", "gone"}]
    /\ call \in [Pods -> {"none", "get", "replace", "replaced"}]
    /\ timer \in [Pods -> Nat]
    /\ since \in [Pods -> Ages]
    /\ current \in [Pods -> BOOLEAN]
    /\ lost \in [Pods -> BOOLEAN]

Init ==
    /\ holder = Nobody
    /\ age = 0
    /\ main = [p \in Pods |-> "ended"]
    /\ call = [p \in Pods |-> "none"]
    /\ timer = [p \in Pods |-> 0]
    /\ since = [p \in Pods |-> 0]
    /\ current = [p \in Pods |-> FALSE]
    /\ lost = [p \in Pods |-> FALSE]

Reconciles(p) == main[p] = "leading" /\ ~lost[p]

(* The main thread is in acquire(), or the renewal thread is running.       *)
Contends(p) == main[p] = "waiting" \/ Reconciles(p)

-----------------------------------------------------------------------------
Calls(p, c) ==
    /\ call' = [call EXCEPT ![p] = c]
    /\ timer' = [timer EXCEPT ![p] = 0]

(* The start of _try_acquire_or_renew: acquire() may retry at any time, the
   renewal thread waits for its interval.                                   *)
Attempt(p) ==
    /\ Contends(p) /\ call[p] = "none"
    /\ main[p] = "leading" => timer[p] >= Interval
    /\ Calls(p, "get")
    /\ UNCHANGED <<holder, age, main, since, current, lost>>

NeverExpired(k) == FALSE               \* mutants: a lock is never taken over,
ExpiredEarly(k) == age + k >= Duration \* or too early
Expired(k) == age + k > Duration

(* The get is answered: the lock is free, its own, or, by a clock that differs
   by k from that of the holder, expired.                                   *)
Sees(p) ==
    /\ call[p] = "get"
    /\ holder \in {Nobody, p} \/ \E k \in -Skew .. Skew : Expired(k)
    /\ Calls(p, "replace")
    /\ current' = [current EXCEPT ![p] = TRUE]
    /\ UNCHANGED <<holder, age, main, since, lost>>

(* The replace lands: only on the version that was read.                    *)
ReplacesAny(p) == call[p] = "replace"          \* mutant: without resourceVersion
Replaceable(p) == call[p] = "replace" /\ current[p]
Replaces(p) ==
    /\ Replaceable(p)
    /\ holder' = p
    /\ age' = timer[p]
    /\ call' = [call EXCEPT ![p] = "replaced"]
    /\ current' = [q \in Pods |-> FALSE]
    /\ UNCHANGED <<main, timer, since, lost>>

Succeeds(p) ==
    /\ call[p] = "replaced"
    /\ main' = [main EXCEPT ![p] = "leading"]
    /\ since' = [since EXCEPT ![p] = 0]
    /\ Calls(p, "none")
    /\ UNCHANGED <<holder, age, current, lost>>

(* An attempt fails: another Pod holds the lock, the version has changed, or
   kubectl does not get its answer, whatever it has done.  The renewal thread
   gives up once the last success is too old; acquire() tries again, and an
   exception in it ends the process.                                        *)
NeverGivesUp(p) == FALSE     \* mutant
GivesUp(p) == since[p] > Duration
Fails(p) ==
    /\ call[p] # "none"
    /\ Calls(p, "none")
    /\ current' = [current EXCEPT ![p] = FALSE]
    /\ IF main[p] = "leading"
       THEN /\ lost' = [lost EXCEPT ![p] = GivesUp(p)]
            /\ UNCHANGED main
       ELSE /\ \E m \in {"waiting", "ended"} : main' = [main EXCEPT ![p] = m]
            /\ UNCHANGED lost
    /\ UNCHANGED <<holder, age, since>>

(* assert_held raises ControllerLockLost at the next fence; the process may
   also end for any other reason, at any time.                              *)
Stops(p, m) ==
    /\ main' = [main EXCEPT ![p] = m]
    /\ Calls(p, "none")
    /\ since' = [since EXCEPT ![p] = 0]
    /\ current' = [current EXCEPT ![p] = FALSE]
    /\ lost' = [lost EXCEPT ![p] = FALSE]
    /\ UNCHANGED <<holder, age>>
Fence(p) == main[p] = "leading" /\ lost[p] /\ Stops(p, "ended")
Dies(p) == Contends(p) /\ Stops(p, "ended")

(* The kubelet restarts the container under the same Pod name and uid; an
   evicted Pod is replaced by one of the others.                            *)
Restarts(p) ==
    /\ main[p] = "ended"
    /\ main' = [main EXCEPT ![p] = "waiting"]
    /\ UNCHANGED <<holder, age, call, timer, since, current, lost>>
Evicted(p) ==
    /\ main[p] # "gone"
    /\ \E q \in Pods \ {p} : main[q] # "gone"
    /\ Stops(p, "gone")

(* Time passes, but not past the end of a kubectl call or a renewal's turn. *)
Grown(n) == IF n < Horizon THEN n + 1 ELSE Horizon
Tick ==
    /\ \A p \in Pods : /\ call[p] # "none" => timer[p] < Timeout
                       /\ call[p] = "none" /\ Reconciles(p) => timer[p] < Interval
    /\ age' = Grown(age)
    /\ since' = [p \in Pods |-> IF main[p] = "leading" THEN Grown(since[p]) ELSE since[p]]
    /\ timer' = [p \in Pods |-> IF call[p] # "none" \/ Reconciles(p)
                                THEN timer[p] + 1 ELSE timer[p]]
    /\ UNCHANGED <<holder, main, call, current, lost>>

-----------------------------------------------------------------------------
Locks(p) == Attempt(p) \/ Sees(p) \/ Replaces(p) \/ Succeeds(p) \/ Fails(p)

Next ==
    \/ \E p \in Pods : Locks(p) \/ Fence(p) \/ Dies(p) \/ Restarts(p) \/ Evicted(p)
    \/ Tick

Spec == Init /\ [][Next]_vars

-----------------------------------------------------------------------------
(* "A replacement may take the lock only after the recorded renewal duration
   expires" (docs/architecture.md), to within the skew of the clocks: also
   when the holder renews while the replacement decides to take over.       *)
TakenWhenExpired ==
    [][holder' # holder => holder = Nobody \/ age + Skew > Duration]_vars

(* For as long as a controller can count on its lease, which is what is left
   of the duration after the delay of its last renewal and the skew, it holds
   the lock: two such controllers never exist together.                     *)
Leased(p) == Reconciles(p) /\ since[p] + Timeout + Skew <= Duration
LeaseIsExclusive == \A p \in Pods : Leased(p) => holder = p

(* "Stop after the lock cannot be renewed within its duration"
   (docs/failure-model.md): the time for which a controller can go on without
   renewing the lock is bounded by the duration, one renewal interval and
   the two kubectl calls of the attempt that finds out.                     *)
StaleIsBounded ==
    \A p \in Pods : Reconciles(p) => since[p] <= Duration + Interval + 2 * Timeout

(* Processes go on, time passes, the Deployment keeps a Pod running; and from
   some time on no process dies and no call goes unanswered.                *)
Refused(p) == \/ /\ call[p] = "get" /\ holder \notin {Nobody, p}
                 /\ \E k \in -Skew .. Skew : ~Expired(k)
              \/ call[p] = "replace" /\ ~current[p]
Fairness ==
    /\ WF_vars(Tick)
    /\ \A p \in Pods : /\ WF_vars(Locks(p)) /\ WF_vars(Fence(p)) /\ WF_vars(Restarts(p))
    /\ <>[][\A p \in Pods : /\ ~Dies(p) /\ ~Evicted(p)
                            /\ Fails(p) => Refused(p) /\ main'[p] # "ended"]_vars
FairSpec == Spec /\ Fairness

(* The lock of a controller that is gone does not keep its replacement out
   for ever: some controller leads the campaign again and again.            *)
LockIsTaken == []<>(\E p \in Pods : Reconciles(p))
=============================================================================
