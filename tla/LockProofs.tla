------------------------------ MODULE LockProofs ------------------------------
(***************************************************************************)
(* The lease of ControllerLock is exclusive, a controller that cannot       *)
(* renew it gives up in bounded time, and a lock is only taken over once it *)
(* has expired: for any number of Pods and any durations.                   *)
(***************************************************************************)
EXTENDS ControllerLock, TLAPS

(* Calls and pauses keep their deadlines; a thread that gave up calls no more. *)
Punctual(p) ==
    /\ call[p] # "none" => timer[p] <= Timeout
    /\ call[p] = "none" /\ Reconciles(p) => timer[p] <= Interval
    /\ lost[p] => main[p] = "leading" /\ call[p] = "none"

(* The age a renewal can reach in each part of an attempt.                  *)
Patience(c) ==
    IF c = "none" THEN Duration
    ELSE IF c = "get" THEN Duration + Interval
    ELSE Duration + Interval + Timeout
Patient(p) == Reconciles(p) => since[p] <= Patience(call[p]) + timer[p]

(* A replace that can still land was decided on a lock that has expired.    *)
Founded(p) ==
    call[p] = "replace" /\ current[p] => holder \in {Nobody, p} \/ age + Skew > Duration

(* A landed replace gives a lease even before its answer arrives ...        *)
Landed(p) ==
    call[p] = "replaced" /\ timer[p] + Skew <= Duration => holder = p /\ age <= timer[p]

(* ... and the lease lasts as long as the lock cannot look expired.         *)
Lasting(p) == Leased(p) => holder = p /\ age <= since[p] + Timeout

LockInv ==
    /\ TypeOK
    /\ \A p \in Pods : Punctual(p) /\ Patient(p) /\ Founded(p) /\ Landed(p) /\ Lasting(p)

PodInv(p) == Punctual(p) /\ Patient(p) /\ Founded(p) /\ Landed(p) /\ Lasting(p)

LEMMA Times ==
    /\ Duration \in Nat /\ Interval \in Nat /\ Timeout \in Nat /\ Skew \in Nat
    /\ Horizon \in Nat /\ Horizon > Duration + Interval + 2 * Timeout + Skew
BY TimesAssumption, HorizonAssumption

LEMMA InitLock == Init => LockInv
<1> SUFFICES ASSUME Init PROVE LockInv
  OBVIOUS
<1>1. TypeOK
  BY Times DEF Init, TypeOK, Ages
<1>2. ASSUME NEW p \in Pods
      PROVE  Punctual(p) /\ Patient(p) /\ Founded(p) /\ Landed(p) /\ Lasting(p)
  BY DEF Init, Punctual, Patient, Founded, Landed, Lasting, Leased, Reconciles
<1> QED
  BY <1>1, <1>2 DEF LockInv

(* What an attempt's step leaves alone of another Pod, it preserves.        *)
LEMMA OtherPod ==
    ASSUME LockInv, NEW q \in Pods, UNCHANGED <<holder, age>>,
           main'[q] = main[q], call'[q] = call[q], timer'[q] = timer[q],
           since'[q] = since[q], lost'[q] = lost[q], current'[q] => current[q]
    PROVE  PodInv(q)'
BY DEF LockInv, PodInv, Punctual, Patient, Founded, Landed, Lasting, Leased, Reconciles

LEMMA AttemptStep == ASSUME LockInv, NEW p \in Pods, Attempt(p) PROVE LockInv'
<1> USE Times DEF Attempt, Calls
<1>1. TypeOK'
  BY DEF LockInv, TypeOK
<1>2. ASSUME NEW q \in Pods PROVE PodInv(q)'
  <2>1. CASE q = p
    BY <2>1 DEF LockInv, TypeOK, Ages, PodInv, Punctual, Patient, Patience, Founded, Landed,
                Lasting, Leased, Reconciles, Contends
  <2>2. CASE q # p
    BY <2>2, OtherPod DEF LockInv, TypeOK
  <2> QED
    BY <2>1, <2>2
<1> QED
  BY <1>1, <1>2 DEF LockInv, PodInv

LEMMA SeesStep == ASSUME LockInv, NEW p \in Pods, Sees(p) PROVE LockInv'
<1> USE Times DEF Sees, Calls
<1>1. TypeOK'
  BY DEF LockInv, TypeOK
<1>2. holder \in {Nobody, p} \/ age + Skew > Duration
  BY DEF Expired, LockInv, TypeOK, Ages
<1>3. ASSUME NEW q \in Pods PROVE PodInv(q)'
  <2>1. CASE q = p
    BY <1>2, <2>1 DEF LockInv, TypeOK, Ages, PodInv, Punctual, Patient, Patience, Founded,
                Landed, Lasting, Leased, Reconciles
  <2>2. CASE q # p
    BY <2>2, OtherPod DEF LockInv, TypeOK
  <2> QED
    BY <2>1, <2>2
<1> QED
  BY <1>1, <1>3 DEF LockInv, PodInv

(* The heart of the argument: a replace that lands takes the lock from nobody
   who is still leased.                                                     *)
LEMMA ReplacesStep == ASSUME LockInv, NEW p \in Pods, Replaces(p) PROVE LockInv'
<1> USE Times DEF Replaces, Replaceable
<1>1. TypeOK'
  BY NobodyAssumption DEF LockInv, TypeOK, Ages, Punctual
<1>2. timer[p] <= Timeout /\ timer[p] \in Nat
  BY DEF LockInv, TypeOK, Punctual
<1>3. holder \in {Nobody, p} \/ age + Skew > Duration
  BY DEF LockInv, Founded
<1>4. ASSUME NEW q \in Pods PROVE PodInv(q)'
  <2>1. CASE q = p
    BY <1>2, <2>1 DEF LockInv, TypeOK, Ages, PodInv, Punctual, Patient, Patience, Founded,
                Landed, Lasting, Leased, Reconciles
  <2>2. CASE q # p
    <3>1. call'[q] = call[q] /\ timer'[q] = timer[q] /\ since'[q] = since[q] /\ ~current'[q]
      BY <2>2 DEF LockInv, TypeOK
    <3>2. ~(call[q] = "replaced" /\ timer[q] + Skew <= Duration)
      BY <1>3, <2>2, NobodyAssumption DEF LockInv, TypeOK, Ages, Landed
    <3>3. ~Leased(q)
      BY <1>3, <2>2, NobodyAssumption DEF LockInv, TypeOK, Ages, Lasting, Leased
    <3> QED
      BY <3>1, <3>2, <3>3 DEF LockInv, PodInv, Punctual, Patient, Founded, Landed, Lasting,
                              Leased, Reconciles
  <2> QED
    BY <2>1, <2>2
<1> QED
  BY <1>1, <1>4 DEF LockInv, PodInv

LEMMA SucceedsStep == ASSUME LockInv, NEW p \in Pods, Succeeds(p) PROVE LockInv'
<1> USE Times DEF Succeeds, Calls
<1>1. TypeOK'
  BY DEF LockInv, TypeOK, Ages
<1>2. ASSUME NEW q \in Pods PROVE PodInv(q)'
  <2>1. CASE q = p
    BY <2>1 DEF LockInv, TypeOK, Ages, PodInv, Punctual, Patient, Patience, Founded,
                Landed, Lasting, Leased, Reconciles
  <2>2. CASE q # p
    BY <2>2, OtherPod DEF LockInv, TypeOK
  <2> QED
    BY <2>1, <2>2
<1> QED
  BY <1>1, <1>2 DEF LockInv, PodInv

LEMMA FailsStep == ASSUME LockInv, NEW p \in Pods, Fails(p) PROVE LockInv'
<1> USE Times DEF Fails, Calls
<1> DEFINE stale == since[p] > Duration
<1>1. /\ call'[p] = "none" /\ timer'[p] = 0 /\ ~current'[p]
      /\ UNCHANGED <<holder, age, since>>
      /\ main[p] = "leading" => main'[p] = "leading" /\ lost'[p] = stale
      /\ main[p] # "leading" => main'[p] # "leading"
  <2>1. CASE main[p] = "leading"
    BY <2>1, Zenon DEF GivesUp, LockInv, TypeOK
  <2>2. CASE main[p] # "leading"
    BY <2>2 DEF LockInv, TypeOK
  <2> QED
    BY <2>1, <2>2
<1>2. \A q \in Pods \ {p} :
        /\ call'[q] = call[q] /\ timer'[q] = timer[q] /\ current'[q] = current[q]
        /\ main'[q] = main[q] /\ lost'[q] = lost[q]
  BY DEF LockInv, TypeOK
<1>3. TypeOK'
  <2>1. lost' \in [Pods -> BOOLEAN]
    <3>1. stale \in BOOLEAN
      OBVIOUS
    <3> HIDE DEF stale
    <3>2. lost' = [lost EXCEPT ![p] = stale] \/ lost' = lost
      BY Zenon DEF GivesUp, stale
    <3> QED
      BY <3>1, <3>2, Zenon DEF LockInv, TypeOK
  <2>2. main' \in [Pods -> {"waiting", "leading", "ended", "gone"}]
    BY DEF LockInv, TypeOK
  <2> QED
    BY <2>1, <2>2 DEF LockInv, TypeOK
<1>4. PodInv(p)'
  <2>1. since[p] \in Ages /\ age \in Ages
    BY DEF LockInv, TypeOK
  <2>2. Punctual(p)' /\ Founded(p)' /\ Landed(p)'
    <3>1. ASSUME lost'[p] PROVE main'[p] = "leading"
      <4>1. CASE main[p] = "leading"
        BY <1>1, <4>1
      <4>2. CASE main[p] # "leading"
        BY <3>1, <4>2 DEF LockInv, Punctual
      <4> QED
        BY <4>1, <4>2
    <3>2. call'[p] = "none" /\ timer'[p] = 0
      BY <1>1
    <3>3. Punctual(p)'
      BY <3>1, <3>2 DEF Punctual
    <3>4. Founded(p)' /\ Landed(p)'
      BY <3>2 DEF Founded, Landed
    <3> QED
      BY <3>3, <3>4
  <2>3. Patient(p)'
    <3>1. ASSUME Reconciles(p)' PROVE ~stale
      BY <1>1, <3>1, Zenon DEF Reconciles
    <3>2. since'[p] = since[p] /\ timer'[p] = 0 /\ call'[p] = "none"
      BY <1>1
    <3> QED
      BY <2>1, <3>1, <3>2 DEF Patient, Patience, Ages
  <2>4. Lasting(p)'
    <3>1. ASSUME Leased(p)' PROVE main[p] = "leading" /\ since'[p] = since[p]
      BY <1>1, <3>1 DEF Leased, Reconciles
    <3>2. ~lost[p]
      BY DEF LockInv, Punctual
    <3> QED
      BY <1>1, <2>1, <3>1, <3>2 DEF LockInv, Lasting, Leased, Reconciles, Ages
  <2> QED
    BY <2>2, <2>3, <2>4 DEF PodInv
<1>5. ASSUME NEW q \in Pods \ {p} PROVE PodInv(q)'
  BY <1>1, <1>2, OtherPod
<1> QED
  BY <1>3, <1>4, <1>5 DEF LockInv, PodInv

LEMMA StopsStep ==
    ASSUME LockInv, NEW p \in Pods, NEW m \in {"ended", "gone"}, Stops(p, m)
    PROVE  LockInv'
<1> USE Times DEF Stops, Calls
<1>1. TypeOK'
  BY DEF LockInv, TypeOK, Ages
<1>2. ASSUME NEW q \in Pods PROVE PodInv(q)'
  <2>1. CASE q = p
    BY <2>1 DEF LockInv, TypeOK, Ages, PodInv, Punctual, Patient, Founded,
                Landed, Lasting, Leased, Reconciles
  <2>2. CASE q # p
    BY <2>2, OtherPod DEF LockInv, TypeOK
  <2> QED
    BY <2>1, <2>2
<1> QED
  BY <1>1, <1>2 DEF LockInv, PodInv

LEMMA RestartsStep == ASSUME LockInv, NEW p \in Pods, Restarts(p) PROVE LockInv'
<1> USE Times DEF Restarts
<1>1. TypeOK'
  BY DEF LockInv, TypeOK, Ages
<1>2. ASSUME NEW q \in Pods PROVE PodInv(q)'
  <2>1. CASE q = p
    BY <2>1 DEF LockInv, TypeOK, Ages, PodInv, Punctual, Patient, Founded,
                Landed, Lasting, Leased, Reconciles
  <2>2. CASE q # p
    BY <2>2, OtherPod DEF LockInv, TypeOK
  <2> QED
    BY <2>1, <2>2
<1> QED
  BY <1>1, <1>2 DEF LockInv, PodInv

(* Ages grow together, so that neither a lease nor a bound is overtaken.    *)
LEMMA TickStep == ASSUME LockInv, Tick PROVE LockInv'
<1> USE Times DEF Tick
<1>1. \A n \in Ages : Grown(n) \in Ages /\ n <= Grown(n) /\ Grown(n) <= n + 1
                        /\ (Grown(n) < Horizon => Grown(n) = n + 1)
  BY DEF Ages, Grown
<1> HIDE DEF Grown
<1>2. TypeOK'
  BY <1>1 DEF LockInv, TypeOK
<1>3. ASSUME NEW q \in Pods PROVE PodInv(q)'
  <2>1. /\ age \in Ages /\ since[q] \in Ages /\ timer[q] \in Nat
        /\ age' = Grown(age)
        /\ main[q] = "leading" => since'[q] = Grown(since[q])
        /\ timer'[q] = IF call[q] # "none" \/ Reconciles(q) THEN timer[q] + 1 ELSE timer[q]
        /\ call' = call /\ holder' = holder /\ main' = main /\ lost' = lost
        /\ current' = current
    BY DEF LockInv, TypeOK
  <2>2. Punctual(q)'
    BY <2>1 DEF LockInv, Punctual, Reconciles
  <2>3. Patient(q)'
    BY <1>1, <2>1 DEF LockInv, Patient, Patience, Reconciles, Ages
  <2>4. Founded(q)'
    BY <1>1, <2>1 DEF LockInv, Founded, Ages
  <2>5. Landed(q)'
    BY <1>1, <2>1 DEF LockInv, Landed, Ages
  <2>6. Lasting(q)'
    <3> SUFFICES ASSUME Leased(q)' PROVE holder' = q /\ age' <= since'[q] + Timeout
      BY DEF Lasting
    <3>1. Reconciles(q) /\ since'[q] = since[q] + 1
      BY <1>1, <2>1 DEF Leased, Reconciles, Ages
    <3>2. Leased(q)
      BY <2>1, <3>1 DEF Leased, Ages
    <3> QED
      BY <1>1, <2>1, <3>1, <3>2 DEF LockInv, Lasting, Ages
  <2> QED
    BY <2>2, <2>3, <2>4, <2>5, <2>6 DEF PodInv
<1> QED
  BY <1>2, <1>3 DEF LockInv, PodInv

LEMMA NextLock == LockInv /\ [Next]_vars => LockInv'
<1> SUFFICES ASSUME LockInv, [Next]_vars PROVE LockInv'
  OBVIOUS
<1>1. ASSUME NEW p \in Pods, Locks(p) PROVE LockInv'
  BY <1>1, AttemptStep, SeesStep, ReplacesStep, SucceedsStep, FailsStep DEF Locks
<1>2. ASSUME NEW p \in Pods, Fence(p) \/ Dies(p) \/ Evicted(p) PROVE LockInv'
  BY <1>2, StopsStep DEF Fence, Dies, Evicted
<1>3. ASSUME NEW p \in Pods, Restarts(p) PROVE LockInv'
  BY <1>3, RestartsStep
<1>4. CASE Tick
  BY <1>4, TickStep
<1>5. CASE UNCHANGED vars
  BY <1>5 DEF vars, LockInv, TypeOK, Punctual, Patient, Founded, Landed, Lasting, Leased,
              Reconciles
<1> QED
  BY <1>1, <1>2, <1>3, <1>4, <1>5 DEF Next

(* LockInv is an inductive invariant of the lock; it contains the types.    *)
THEOREM LockInvariant == Spec => []LockInv
BY InitLock, NextLock, PTL DEF Spec

(* At most one controller at a time can count on its lease, and it is the one
   the ConfigMap names (ConfigMapLock, src/brunner/cluster.py).             *)
THEOREM ExclusiveLease == Spec => []LeaseIsExclusive
<1>1. LockInv => LeaseIsExclusive
  BY DEF LockInv, Lasting, LeaseIsExclusive
<1> QED
  BY <1>1, LockInvariant, PTL

(* A controller that cannot renew its lock stops reconciling in bounded time
   (_renew_loop), whatever the API does to its calls.                       *)
THEOREM BoundedStaleness == Spec => []StaleIsBounded
<1>1. LockInv => StaleIsBounded
  BY Times DEF LockInv, TypeOK, Ages, Punctual, Patient, Patience, StaleIsBounded
<1> QED
  BY <1>1, LockInvariant, PTL

(* The compare-and-swap makes a takeover and a renewal exclude each other: a
   lock changes hands only when it has expired.                             *)
THEOREM TakeoverAfterExpiry == Spec => TakenWhenExpired
<1>1. LockInv /\ [Next]_vars =>
        [holder' # holder => holder = Nobody \/ age + Skew > Duration]_vars
  <2> SUFFICES ASSUME LockInv, Next, holder' # holder
               PROVE  holder = Nobody \/ age + Skew > Duration
    OBVIOUS
  <2>1. PICK p \in Pods : Replaces(p)
    BY DEF Next, Locks, Attempt, Sees, Succeeds, Fails, Fence, Dies, Restarts, Evicted,
           Stops, Tick
  <2> QED
    BY <2>1 DEF LockInv, Founded, Replaces, Replaceable
<1> QED
  BY <1>1, LockInvariant, PTL DEF Spec, TakenWhenExpired
=============================================================================
