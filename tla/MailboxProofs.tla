----------------------------- MODULE MailboxProofs -----------------------------
(***************************************************************************)
(* The mailbox of ContinuationMailbox loses no request, gives each at most   *)
(* one continuation generation and tells the truth about it: for any number *)
(* of commands and tries.                                                   *)
(***************************************************************************)
EXTENDS ContinuationMailbox, SequenceTheorems, TLAPS

(* A command in the middle of an attempt has tries left.                    *)
TriesLeft(c) == command[c].at \in {"get", "replace", "replaced"} => command[c].tries < MaxTries

(* Whoever holds the current version holds the current list.                *)
CommandReads(c) == command[c].fresh => command[c].seen = requests
ControllerReads == controller.fresh => controller.seen = requests

(* The request the controller works on stays in the list, undecided.        *)
Working ==
    controller.at # "idle" =>
        /\ controller.pick \in 1 .. Len(controller.seen)
        /\ controller.pick \in 1 .. Len(requests)
        /\ requests[controller.pick] = controller.seen[controller.pick]
        /\ requests[controller.pick].status = "pending"

Decided == controller.at = "reply" => controller.verdict # "pending"

MailInv ==
    /\ TypeOK
    /\ \A c \in Commands : TriesLeft(c) /\ CommandReads(c)
    /\ ControllerReads
    /\ Working
    /\ Decided

(* What the replies say is covered by the history, and what the history holds
   was not only rejected.                                                   *)
AcceptedKnown ==
    /\ \A i \in 1 .. Len(requests) : requests[i].status = "accepted" => Known(requests[i].id)
    /\ controller.at = "reply" /\ controller.verdict = "accepted" =>
            Known(controller.seen[controller.pick].id)
KnownStands ==
    /\ \A c \in Commands : Known(c) =>
            \E i \in 1 .. Len(requests) : requests[i].id = c /\ requests[i].status # "rejected"
    /\ controller.at = "reply" /\ controller.verdict = "rejected" =>
            ~Known(controller.seen[controller.pick].id)

-----------------------------------------------------------------------------
LEMMA TurnTyped ==
    ASSUME NEW at \in {"get", "replace", "replaced", "stored", "exhausted", "raised"},
           NEW n \in 0 .. MaxTries
    PROVE  Turn(at, n) \in Command
<1>1. <<>> \in Seq(Request)
  BY EmptySeq
<1> QED
  BY <1>1 DEF Turn, Command

LEMMA OutdatedCommand ==
    ASSUME NEW r \in Command
    PROVE  /\ Outdated(r) \in Command
           /\ Outdated(r).at = r.at /\ Outdated(r).tries = r.tries /\ ~Outdated(r).fresh
BY DEF Outdated, Command

LEMMA OutdatedController ==
    ASSUME NEW r \in Controller
    PROVE  /\ Outdated(r) \in Controller
           /\ Outdated(r).at = r.at /\ Outdated(r).seen = r.seen /\ ~Outdated(r).fresh
           /\ Outdated(r).pick = r.pick /\ Outdated(r).verdict = r.verdict
BY DEF Outdated, Controller

LEMMA RestingTyped ==
    Resting \in Controller /\ Resting.at = "idle" /\ ~Resting.fresh
<1>1. <<>> \in Seq(Request)
  BY EmptySeq
<1> QED
  BY <1>1 DEF Resting, Controller

LEMMA InitMail == Init => MailInv
<1> SUFFICES ASSUME Init PROVE MailInv
  OBVIOUS
<1>1. <<>> \in Seq(Request) /\ <<>> \in Seq(Commands)
  BY EmptySeq
<1>2. Turn("get", 0) \in Command
  BY TurnTyped, TriesAssumption
<1>3. TypeOK
  BY <1>1, <1>2, RestingTyped DEF Init, TypeOK
<1>4. ASSUME NEW c \in Commands PROVE TriesLeft(c) /\ CommandReads(c)
  BY TriesAssumption DEF Init, Turn, TriesLeft, CommandReads
<1>5. ControllerReads /\ Working /\ Decided
  BY RestingTyped DEF Init, ControllerReads, Working, Decided
<1> QED
  BY <1>3, <1>4, <1>5 DEF MailInv

(* A step of one command that leaves the list alone.                        *)
LEMMA CommandStep ==
    ASSUME MailInv, NEW c \in Commands, NEW r \in Command,
           command' = [command EXCEPT ![c] = r],
           UNCHANGED <<requests, controller, history, resumable>>,
           r.at \in {"get", "replace", "replaced"} => r.tries < MaxTries,
           r.fresh => r.seen = requests
    PROVE  MailInv'
<1>1. TypeOK'
  BY DEF MailInv, TypeOK
<1>2. ASSUME NEW d \in Commands PROVE TriesLeft(d)' /\ CommandReads(d)'
  <2>1. command'[d] = IF d = c THEN r ELSE command[d]
    BY DEF MailInv, TypeOK
  <2> QED
    BY <2>1 DEF MailInv, TriesLeft, CommandReads
<1>3. ControllerReads' /\ Working' /\ Decided'
  BY DEF MailInv, ControllerReads, Working, Decided
<1> QED
  BY <1>1, <1>2, <1>3 DEF MailInv

LEMMA ReadsStep == ASSUME MailInv, NEW c \in Commands, Reads(c) PROVE MailInv'
<1> DEFINE r == [at |-> "replace", tries |-> command[c].tries, seen |-> requests,
                 fresh |-> TRUE]
<1>1. command[c] \in Command
  BY DEF MailInv, TypeOK
<1>2. r \in Command
  BY <1>1 DEF MailInv, TypeOK, Command
<1>3. r.tries < MaxTries
  BY DEF MailInv, TriesLeft, Reads
<1>4. command' = [command EXCEPT ![c] = r]
  BY DEF Reads
<1>5. UNCHANGED <<requests, controller, history, resumable>> /\ r.seen = requests
  BY DEF Reads
<1> HIDE DEF r
<1> QED
  BY <1>2, <1>3, <1>4, <1>5, CommandStep

LEMMA EndsStep ==
    ASSUME MailInv, NEW c \in Commands, NEW at \in {"stored", "raised"}, Ends(c, at)
    PROVE  MailInv'
<1> DEFINE r == Turn(at, command[c].tries)
<1>1. command[c].tries \in 0 .. MaxTries
  BY DEF MailInv, TypeOK, Command
<1>2. r \in Command
  BY <1>1, TurnTyped
<1>3. r.at = at /\ ~r.fresh
  BY DEF Turn
<1>4. command' = [command EXCEPT ![c] = r]
  BY DEF Ends
<1>5. UNCHANGED <<requests, controller, history, resumable>>
  BY DEF Ends
<1> HIDE DEF r
<1> QED
  BY <1>2, <1>3, <1>4, <1>5, CommandStep

LEMMA RetriesStep == ASSUME MailInv, NEW c \in Commands, Retries(c) PROVE MailInv'
<1> DEFINE n == command[c].tries
           r == Turn(IF Again(n) THEN "get" ELSE "exhausted", n + 1)
<1>1. n \in 0 .. MaxTries /\ n < MaxTries
  BY DEF MailInv, TypeOK, Command, TriesLeft, Retries
<1>2. n + 1 \in 0 .. MaxTries
  BY <1>1, TriesAssumption
<1>3. r \in Command
  BY <1>2, TurnTyped
<1>4. /\ r.at \in {"get", "replace", "replaced"} => r.tries < MaxTries
      /\ ~r.fresh
  BY <1>1, TriesAssumption DEF Turn, Again
<1>5. command' = [command EXCEPT ![c] = r]
  BY DEF Retries
<1>6. UNCHANGED <<requests, controller, history, resumable>>
  BY DEF Retries
<1> HIDE DEF r
<1> QED
  BY <1>3, <1>4, <1>5, <1>6, CommandStep

(* A replace that lands appends to the list it finds.                       *)
LEMMA StoresAppends ==
    ASSUME MailInv, NEW c \in Commands, Stores(c)
    PROVE  /\ requests' \in Seq(Request)
           /\ Len(requests') = Len(requests) + 1
           /\ Len(requests) \in Nat
           /\ \A i \in 1 .. Len(requests) : requests'[i] = requests[i]
           /\ requests'[Len(requests) + 1] = [id |-> c, status |-> "pending"]
<1>1. command[c].seen = requests
  BY DEF MailInv, CommandReads, Stores, Current
<1>2. requests \in Seq(Request) /\ [id |-> c, status |-> "pending"] \in Request
  BY DEF MailInv, TypeOK, Request
<1>3. requests' = Append(requests, [id |-> c, status |-> "pending"])
  BY <1>1 DEF Stores
<1> QED
  BY <1>2, <1>3, AppendProperties, LenProperties

LEMMA StoresStep == ASSUME MailInv, NEW c \in Commands, Stores(c) PROVE MailInv'
<1>1. command[c].tries \in 0 .. MaxTries /\ command[c].tries < MaxTries
  BY DEF MailInv, TypeOK, Command, TriesLeft, Stores
<1>2. \A d \in Commands : command[d] \in Command
  BY DEF MailInv, TypeOK
<1>3. \A d \in Commands : command'[d] = IF d = c THEN Turn("replaced", command[c].tries)
                                                 ELSE Outdated(command[d])
  BY DEF Stores
<1>4. Turn("replaced", command[c].tries) \in Command
  BY <1>1, TurnTyped
<1>5. controller' = Outdated(controller) /\ controller \in Controller
  BY DEF Stores, MailInv, TypeOK
<1>6. TypeOK'
  <2>1. command' \in [Commands -> Command]
    <3>1. \A d \in Commands : command'[d] \in Command
      BY <1>2, <1>3, <1>4, OutdatedCommand
    <3> QED
      BY <3>1 DEF Stores
  <2> QED
    BY <2>1, <1>5, OutdatedController, StoresAppends DEF Stores, MailInv, TypeOK
<1>7. ASSUME NEW d \in Commands PROVE TriesLeft(d)' /\ CommandReads(d)'
  <2>1. CASE d = c
    BY <1>1, <1>3, <2>1 DEF Turn, TriesLeft, CommandReads
  <2>2. CASE d # c
    BY <1>2, <1>3, <2>2, OutdatedCommand DEF MailInv, TriesLeft, CommandReads
  <2> QED
    BY <2>1, <2>2
<1>8. ControllerReads' /\ Working' /\ Decided'
  <2>1. /\ controller'.at = controller.at /\ controller'.seen = controller.seen
        /\ ~controller'.fresh /\ controller'.pick = controller.pick
        /\ controller'.verdict = controller.verdict
    BY <1>5, OutdatedController
  <2>2. ControllerReads' /\ Decided'
    BY <2>1 DEF MailInv, ControllerReads, Decided
  <2>3. ASSUME controller.at # "idle"
        PROVE  /\ controller.pick \in 1 .. Len(requests')
               /\ requests'[controller.pick] = requests[controller.pick]
    <3>1. /\ Len(requests) \in Nat /\ Len(requests') = Len(requests) + 1
          /\ \A i \in 1 .. Len(requests) : requests'[i] = requests[i]
      BY StoresAppends
    <3>2. controller.pick \in 1 .. Len(requests)
      BY <2>3 DEF MailInv, Working
    <3> QED
      BY <3>1, <3>2
  <2> QED
    BY <2>1, <2>2, <2>3 DEF MailInv, Working
<1> QED
  BY <1>6, <1>7, <1>8 DEF MailInv

LEMMA FetchesStep == ASSUME MailInv, Fetches PROVE MailInv'
<1>1. PICK i \in 1 .. Len(requests) :
        /\ Taken(i)
        /\ controller' = [at |-> "decide", seen |-> requests, fresh |-> TRUE,
                          pick |-> i, verdict |-> "pending"]
  BY DEF Fetches
<1>2. requests \in Seq(Request) /\ Len(requests) \in Nat
  BY LenProperties DEF MailInv, TypeOK
<1>3. controller' \in Controller
  BY <1>1, <1>2 DEF Controller
<1>4. TypeOK'
  BY <1>3 DEF Fetches, MailInv, TypeOK
<1>5. ASSUME NEW d \in Commands PROVE TriesLeft(d)' /\ CommandReads(d)'
  BY DEF Fetches, MailInv, TriesLeft, CommandReads
<1>6. ControllerReads' /\ Working' /\ Decided'
  BY <1>1 DEF Fetches, Taken, Pending, ControllerReads, Working, Decided
<1> QED
  BY <1>4, <1>5, <1>6 DEF MailInv

(* What Decides does: the history is kept or gets the request's id.         *)
LEMMA DecidesSays ==
    ASSUME MailInv, Decides
    PROVE  /\ controller.seen[controller.pick].id \in Commands
           /\ UNCHANGED <<requests, command>>
           /\ controller' \in Controller /\ controller'.at = "reply"
           /\ controller'.seen = controller.seen /\ controller'.pick = controller.pick
           /\ controller'.fresh = controller.fresh
           /\ LET id == controller.seen[controller.pick].id IN
              \E j \in Judgement(id) :
                /\ controller'.verdict = IF j \in {"known", "granted"} THEN "accepted"
                                                                        ELSE "rejected"
                /\ IF j \in {"granted", "failed"}
                   THEN history' = Append(history, id) /\ resumable' = FALSE
                   ELSE UNCHANGED <<history, resumable>>
<1>1. controller \in Controller /\ controller.seen \in Seq(Request)
  BY DEF MailInv, TypeOK, Controller
<1>2. controller.pick \in 1 .. Len(controller.seen)
  BY DEF MailInv, Working, Decides
<1>3. controller.seen[controller.pick] \in Request
  BY <1>1, <1>2, ElementOfSeq
<1>4. PICK j \in Judgement(controller.seen[controller.pick].id) :
        /\ controller' = [controller EXCEPT !.at = "reply",
                !.verdict = IF j \in {"known", "granted"} THEN "accepted" ELSE "rejected"]
        /\ IF j \in {"granted", "failed"}
           THEN history' = Append(history, controller.seen[controller.pick].id)
                    /\ resumable' = FALSE
           ELSE UNCHANGED <<history, resumable>>
  BY DEF Decides
<1>5. /\ controller' \in Controller /\ controller'.at = "reply"
      /\ controller'.seen = controller.seen /\ controller'.pick = controller.pick
      /\ controller'.fresh = controller.fresh
      /\ controller'.verdict = IF j \in {"known", "granted"} THEN "accepted" ELSE "rejected"
  BY <1>1, <1>4 DEF Controller
<1>6. controller.seen[controller.pick].id \in Commands
  BY <1>3 DEF Request
<1> QED
  BY <1>4, <1>5, <1>6 DEF Decides

LEMMA DecidesStep == ASSUME MailInv, Decides PROVE MailInv'
<1>1. TypeOK'
  <2>1. history \in Seq(Commands) /\ resumable \in BOOLEAN
    BY DEF MailInv, TypeOK
  <2>2. history' \in Seq(Commands) /\ resumable' \in BOOLEAN
    BY <2>1, DecidesSays, AppendProperties
  <2> QED
    BY <2>2, DecidesSays DEF MailInv, TypeOK
<1>2. ASSUME NEW d \in Commands PROVE TriesLeft(d)' /\ CommandReads(d)'
  BY DEF Decides, MailInv, TriesLeft, CommandReads
<1>3. ControllerReads' /\ Working' /\ Decided'
  <2>1. controller.at # "idle"
    BY DEF Decides
  <2> QED
    BY <2>1, DecidesSays DEF MailInv, ControllerReads, Working, Decided
<1> QED
  BY <1>1, <1>2, <1>3 DEF MailInv

(* A reply that lands changes one pending request of the list it finds.     *)
LEMMA RepliesChanges ==
    ASSUME MailInv, Replies
    PROVE  /\ controller.pick \in 1 .. Len(requests)
           /\ requests' \in Seq(Request)
           /\ Len(requests') = Len(requests)
           /\ requests[controller.pick].status = "pending"
           /\ controller.seen = requests
           /\ \A i \in 1 .. Len(requests) : requests'[i] =
                IF i = controller.pick
                THEN [requests[controller.pick] EXCEPT !.status = controller.verdict]
                ELSE requests[i]
<1>1. controller.seen = requests
  BY DEF MailInv, ControllerReads, Replies, Current
<1>2. controller.pick \in 1 .. Len(requests) /\ requests[controller.pick].status = "pending"
  BY DEF MailInv, Working, Replies
<1>3. requests \in Seq(Request) /\ controller.verdict \in {"pending", "accepted", "rejected"}
  BY DEF MailInv, TypeOK, Controller
<1> DEFINE new == [requests[controller.pick] EXCEPT !.status = controller.verdict]
<1>4. new \in Request
  <2>1. requests[controller.pick] \in Request
    BY <1>2, <1>3, ElementOfSeq
  <2> QED
    BY <1>3, <2>1 DEF Request
<1>5. requests' = [requests EXCEPT ![controller.pick] = new]
  BY <1>1 DEF Replies
<1> HIDE DEF new
<1>6. /\ requests' \in Seq(Request) /\ Len(requests') = Len(requests)
      /\ \A i \in 1 .. Len(requests) : requests'[i] = IF i = controller.pick THEN new
                                                                            ELSE requests[i]
  BY <1>2, <1>3, <1>4, <1>5, ExceptSeq
<1> QED
  BY <1>1, <1>2, <1>6 DEF new

LEMMA RepliesStep == ASSUME MailInv, Replies PROVE MailInv'
<1>1. \A d \in Commands : command[d] \in Command /\ command'[d] = Outdated(command[d])
  BY DEF Replies, MailInv, TypeOK
<1>2. TypeOK'
  <2>1. command' \in [Commands -> Command]
    <3>1. \A d \in Commands : command'[d] \in Command
      BY <1>1, OutdatedCommand
    <3> QED
      BY <3>1 DEF Replies
  <2> QED
    BY <2>1, RestingTyped, RepliesChanges DEF Replies, MailInv, TypeOK
<1>3. ASSUME NEW d \in Commands PROVE TriesLeft(d)' /\ CommandReads(d)'
  BY <1>1, OutdatedCommand DEF MailInv, TriesLeft, CommandReads
<1>4. ControllerReads' /\ Working' /\ Decided'
  BY RestingTyped DEF Replies, ControllerReads, Working, Decided
<1> QED
  BY <1>2, <1>3, <1>4 DEF MailInv

LEMMA DropsStep == ASSUME MailInv, Drops PROVE MailInv'
<1>1. TypeOK'
  BY RestingTyped DEF Drops, MailInv, TypeOK
<1>2. ASSUME NEW d \in Commands PROVE TriesLeft(d)' /\ CommandReads(d)'
  BY DEF Drops, MailInv, TriesLeft, CommandReads
<1>3. ControllerReads' /\ Working' /\ Decided'
  BY RestingTyped DEF Drops, ControllerReads, Working, Decided
<1> QED
  BY <1>1, <1>2, <1>3 DEF MailInv

LEMMA NextMail == MailInv /\ [Next]_vars => MailInv'
<1> SUFFICES ASSUME MailInv, [Next]_vars PROVE MailInv'
  OBVIOUS
<1>1. ASSUME NEW c \in Commands, Sends(c) PROVE MailInv'
  BY <1>1, ReadsStep, StoresStep, EndsStep, RetriesStep DEF Sends, Returns, Raises
<1>2. CASE Handles
  BY <1>2, FetchesStep, DecidesStep, RepliesStep DEF Handles
<1>3. CASE Drops
  BY <1>3, DropsStep
<1>4. CASE TrialStops
  BY <1>4 DEF TrialStops, MailInv, TypeOK, TriesLeft, CommandReads, ControllerReads,
              Working, Decided
<1>5. CASE UNCHANGED vars
  BY <1>5 DEF vars, MailInv, TypeOK, TriesLeft, CommandReads, ControllerReads,
              Working, Decided
<1> QED
  BY <1>1, <1>2, <1>3, <1>4, <1>5 DEF Next

(* MailInv is an inductive invariant; it contains the types.                *)
THEOREM MailInvariant == Spec => []MailInv
BY InitMail, NextMail, PTL DEF Spec

-----------------------------------------------------------------------------
(* The compare-and-swap loses no request and no reply (continue_trial and
   _process_continuation_request replace the list they have read).          *)
THEOREM NoRequestLost == Spec => RequestsSurvive
<1> DEFINE Survives ==
        /\ Len(requests') >= Len(requests)
        /\ \A i \in 1 .. Len(requests) :
            /\ requests'[i].id = requests[i].id
            /\ requests[i].status # "pending" => requests'[i] = requests[i]
<1>1. ASSUME MailInv, [Next]_vars PROVE [Survives]_vars
  <2> SUFFICES ASSUME Next PROVE Survives
    BY <1>1
  <2>1. Len(requests) \in Nat /\ \A i \in 1 .. Len(requests) : requests[i] \in Request
    BY <1>1, LenProperties, ElementOfSeq DEF MailInv, TypeOK
  <2>2. ASSUME NEW c \in Commands, Stores(c) PROVE Survives
    <3>1. /\ Len(requests') = Len(requests) + 1
          /\ \A i \in 1 .. Len(requests) : requests'[i] = requests[i]
      BY <1>1, <2>2, StoresAppends
    <3> QED
      BY <2>1, <3>1
  <2>3. ASSUME Replies PROVE Survives
    <3>1. \A i \in 1 .. Len(requests) : i # controller.pick => requests'[i] = requests[i]
      BY <1>1, <2>3, RepliesChanges
    <3>2. requests'[controller.pick].id = requests[controller.pick].id
      <4>1. /\ controller.pick \in 1 .. Len(requests)
            /\ requests'[controller.pick] =
                    [requests[controller.pick] EXCEPT !.status = controller.verdict]
        BY <1>1, <2>3, RepliesChanges
      <4> QED
        BY <2>1, <4>1 DEF Request
    <3>3. /\ requests[controller.pick].status = "pending"
          /\ Len(requests') = Len(requests)
      BY <1>1, <2>3, RepliesChanges
    <3> QED
      BY <2>1, <3>1, <3>2, <3>3
  <2>4. ASSUME UNCHANGED requests PROVE Survives
    BY <2>1, <2>4
  <2> QED
    BY <2>2, <2>3, <2>4 DEF Next, Sends, Reads, Returns, Retries, Raises, Ends, Handles,
                            Fetches, Decides, Drops, TrialStops
<1>2. MailInv /\ [Next]_vars => [Survives]_vars
  BY <1>1
<1> QED
  BY <1>2, MailInvariant, PTL DEF Spec, RequestsSurvive

(* A request that is processed again, because its reply got lost or because it
   was stored twice, adds no second generation (request_continuation).      *)
THEOREM OneGeneration == Spec => []OneGenerationPerRequest
<1>1. Init => OneGenerationPerRequest
  BY DEF Init, OneGenerationPerRequest
<1>2. ASSUME MailInv, OneGenerationPerRequest, [Next]_vars PROVE OneGenerationPerRequest'
  <2>1. CASE UNCHANGED history
    BY <1>2, <2>1 DEF OneGenerationPerRequest
  <2>2. CASE Decides
    <3> DEFINE id == controller.seen[controller.pick].id
    <3>1. CASE UNCHANGED history
      BY <1>2, <3>1 DEF OneGenerationPerRequest
    <3>2. CASE ~Known(id) /\ history' = Append(history, id)
      <4>1. history \in Seq(Commands) /\ id \in Commands
        BY <1>2, <2>2, DecidesSays DEF MailInv, TypeOK
      <4>2. /\ Len(history) \in Nat /\ Len(history') = Len(history) + 1
            /\ \A i \in 1 .. Len(history) : history'[i] = history[i]
            /\ history'[Len(history) + 1] = id
        BY <3>2, <4>1, AppendProperties, LenProperties
      <4>3. \A i \in 1 .. Len(history) : history[i] # id
        BY <3>2 DEF Known
      <4> HIDE DEF id
      <4> QED
        BY <1>2, <4>2, <4>3 DEF OneGenerationPerRequest
    <3>3. \/ UNCHANGED history
          \/ ~Known(id) /\ history' = Append(history, id)
      BY <1>2, <2>2, DecidesSays DEF Judgement
    <3> QED
      BY <3>1, <3>2, <3>3
  <2> QED
    BY <1>2, <2>1, <2>2 DEF Next, Sends, Reads, Stores, Returns, Retries, Raises, Ends,
                            Handles, Fetches, Replies, Drops, TrialStops, vars
<1> QED
  BY <1>1, <1>2, MailInvariant, PTL DEF Spec

-----------------------------------------------------------------------------
Truth == AcceptedKnown /\ KnownStands

LEMMA InitTruth == Init => Truth
BY RestingTyped DEF Init, Truth, AcceptedKnown, KnownStands, Known

(* The history only grows.                                                  *)
LEMMA KnownGrows ==
    ASSUME MailInv, Decides, NEW c \in Commands,
           NEW id \in Commands, id = controller.seen[controller.pick].id
    PROVE  /\ Known(c) => Known(c)'
           /\ Known(c)' => Known(c) \/ c = id
           /\ controller'.verdict = "accepted" => Known(id)'
           /\ ~BackupFails /\ controller'.verdict = "rejected" => ~Known(id)'
<1>1. PICK j \in Judgement(id) :
        /\ controller'.verdict = IF j \in {"known", "granted"} THEN "accepted" ELSE "rejected"
        /\ IF j \in {"granted", "failed"} THEN history' = Append(history, id)
           ELSE UNCHANGED history
  BY DecidesSays
<1>2. history \in Seq(Commands)
  BY DEF MailInv, TypeOK
<1>3. j \in {"known", "refused", "granted", "failed"}
  BY <1>1 DEF Judgement
<1>4. /\ j = "known" => Known(id)
      /\ j = "refused" => ~Known(id)
      /\ j = "failed" => BackupFails
  BY <1>1 DEF Judgement
<1>5. CASE j \in {"known", "refused"}
  <2>1. history' = history
    BY <1>1, <1>5
  <2>2. (Known(c)' <=> Known(c)) /\ (Known(id)' <=> Known(id))
    BY <2>1 DEF Known
  <2>3. controller'.verdict = IF j = "known" THEN "accepted" ELSE "rejected"
    BY <1>1, <1>5
  <2> QED
    BY <1>4, <1>5, <2>2, <2>3
<1>6. CASE j \in {"granted", "failed"}
  <2>1. /\ Len(history) \in Nat /\ Len(history') = Len(history) + 1
        /\ \A i \in 1 .. Len(history) : history'[i] = history[i]
        /\ history'[Len(history) + 1] = id
    BY <1>1, <1>2, <1>6, AppendProperties, LenProperties
  <2>2. Known(id)'
    BY <2>1 DEF Known
  <2>3. Known(c) => Known(c)'
    BY <2>1 DEF Known
  <2>4. Known(c)' => Known(c) \/ c = id
    BY <2>1 DEF Known
  <2>5. ~BackupFails => controller'.verdict = "accepted"
    BY <1>1, <1>4, <1>6
  <2> QED
    BY <2>2, <2>3, <2>4, <2>5
<1> QED
  BY <1>3, <1>5, <1>6

LEMMA NextTruth == ASSUME ~BackupFails, MailInv, Truth, [Next]_vars PROVE Truth'
<1>1. Len(requests) \in Nat /\ \A i \in 1 .. Len(requests) : requests[i] \in Request
  BY LenProperties, ElementOfSeq DEF MailInv, TypeOK
<1>2. ASSUME NEW c \in Commands, Stores(c) PROVE Truth'
  <2>1. /\ Len(requests') = Len(requests) + 1
        /\ \A i \in 1 .. Len(requests) : requests'[i] = requests[i]
        /\ requests'[Len(requests) + 1].status = "pending"
    <3>1. /\ Len(requests') = Len(requests) + 1
          /\ \A i \in 1 .. Len(requests) : requests'[i] = requests[i]
          /\ requests'[Len(requests) + 1] = [id |-> c, status |-> "pending"]
      BY <1>2, StoresAppends
    <3> QED
      BY <3>1
  <2>2. /\ controller'.at = controller.at /\ controller'.seen = controller.seen
        /\ controller'.pick = controller.pick /\ controller'.verdict = controller.verdict
    BY <1>2, OutdatedController DEF Stores, MailInv, TypeOK
  <2>3. \A d : Known(d)' <=> Known(d)
    BY <1>2 DEF Stores, Known
  <2>4. AcceptedKnown'
    BY <1>1, <2>1, <2>2, <2>3 DEF Truth, AcceptedKnown
  <2>5. KnownStands'
    <3>1. ASSUME NEW d \in Commands, Known(d)'
          PROVE  \E i \in 1 .. Len(requests') : requests'[i].id = d
                                                    /\ requests'[i].status # "rejected"
      <4>1. PICK i \in 1 .. Len(requests) : requests[i].id = d /\ requests[i].status # "rejected"
        BY <2>3, <3>1 DEF Truth, KnownStands
      <4>2. i \in 1 .. Len(requests') /\ requests'[i] = requests[i]
        BY <1>1, <2>1
      <4> QED
        BY <4>1, <4>2
    <3> QED
      BY <2>2, <2>3, <3>1 DEF Truth, KnownStands
  <2> QED
    BY <2>4, <2>5 DEF Truth
<1>3. ASSUME Decides PROVE Truth'
  <2>1. PICK id \in Commands : id = controller.seen[controller.pick].id
    BY <1>3, DecidesSays
  <2>2. /\ UNCHANGED requests /\ controller'.at = "reply"
        /\ controller'.seen[controller'.pick].id = id
    BY <1>3, <2>1, DecidesSays
  <2>3. /\ controller.pick \in 1 .. Len(requests) /\ requests[controller.pick].id = id
        /\ requests[controller.pick].status = "pending"
    BY <1>3, <2>1 DEF MailInv, Working, Decides
  <2>4. \A c \in Commands : (Known(c) => Known(c)') /\ (Known(c)' => Known(c) \/ c = id)
    BY <1>3, <2>1, KnownGrows
  <2>5. /\ controller'.verdict = "accepted" => Known(id)'
        /\ controller'.verdict = "rejected" => ~Known(id)'
    BY <1>3, <2>1, KnownGrows
  <2>6. \A i \in 1 .. Len(requests) : requests[i].status = "accepted" => Known(requests[i].id)'
    <3> SUFFICES ASSUME NEW i \in 1 .. Len(requests), requests[i].status = "accepted"
                 PROVE  Known(requests[i].id)'
      BY <2>2
    <3>1. PICK c \in Commands : c = requests[i].id
      BY <1>1 DEF Request
    <3>2. Known(c)
      BY <3>1 DEF Truth, AcceptedKnown
    <3>3. Known(c)'
      BY <2>4, <3>2
    <3>4. requests'[i].id = c
      BY <2>2, <3>1
    <3> QED
      BY <2>2, <3>3, <3>4
  <2>7. AcceptedKnown'
    BY <2>2, <2>5, <2>6 DEF AcceptedKnown
  <2>8. KnownStands'
    <3>1. ASSUME NEW d \in Commands, Known(d)'
          PROVE  \E i \in 1 .. Len(requests) : requests[i].id = d
                                                    /\ requests[i].status # "rejected"
      <4>1. Known(d) \/ d = id
        BY <2>4, <3>1
      <4> QED
        BY <2>3, <4>1 DEF Truth, KnownStands
    <3> QED
      BY <2>2, <2>5, <3>1 DEF KnownStands
  <2> QED
    BY <2>7, <2>8 DEF Truth
<1>4. ASSUME Replies PROVE Truth'
  <2> DEFINE k == controller.pick
  <2>1. /\ k \in 1 .. Len(requests) /\ Len(requests') = Len(requests)
        /\ controller.seen = requests
        /\ \A i \in 1 .. Len(requests) : i # k => requests'[i] = requests[i]
        /\ requests'[k] = [requests[k] EXCEPT !.status = controller.verdict]
    BY <1>4, RepliesChanges
  <2>2. requests'[k].id = requests[k].id /\ requests'[k].status = controller.verdict
    BY <1>1, <2>1 DEF Request
  <2>3. \A d : Known(d)' <=> Known(d)
    BY <1>4 DEF Replies, Known
  <2>4. controller'.at = "idle"
    BY <1>4, RestingTyped DEF Replies
  <2>5. controller.at = "reply"
    BY <1>4 DEF Replies
  <2> HIDE DEF k
  <2>6. AcceptedKnown'
    <3>1. ASSUME NEW i \in 1 .. Len(requests), requests'[i].status = "accepted"
          PROVE  Known(requests'[i].id)
      <4>1. CASE i = k
        BY <2>1, <2>2, <2>5, <3>1, <4>1 DEF Truth, AcceptedKnown, k
      <4>2. CASE i # k
        BY <2>1, <3>1, <4>2 DEF Truth, AcceptedKnown
      <4> QED
        BY <4>1, <4>2
    <3> QED
      BY <2>1, <2>3, <2>4, <3>1 DEF AcceptedKnown
  <2>7. KnownStands'
    <3>1. ASSUME NEW d \in Commands, Known(d)
          PROVE  \E i \in 1 .. Len(requests) : requests'[i].id = d
                                                    /\ requests'[i].status # "rejected"
      <4>1. PICK i \in 1 .. Len(requests) : requests[i].id = d /\ requests[i].status # "rejected"
        BY <3>1 DEF Truth, KnownStands
      <4>2. CASE i = k
        <5>1. controller.verdict # "rejected"
          BY <2>1, <2>5, <3>1, <4>1, <4>2 DEF Truth, KnownStands, k
        <5> QED
          BY <2>1, <2>2, <4>1, <4>2, <5>1
      <4>3. CASE i # k
        BY <2>1, <4>1, <4>3
      <4> QED
        BY <4>2, <4>3
    <3> QED
      BY <2>1, <2>3, <2>4, <3>1 DEF KnownStands
  <2> QED
    BY <2>6, <2>7 DEF Truth
<1>5. ASSUME UNCHANGED <<requests, history>>,
             controller'.at # "reply" \/ UNCHANGED controller
      PROVE  Truth'
  <2>1. \A d : Known(d)' <=> Known(d)
    BY <1>5 DEF Known
  <2> QED
    BY <1>5, <2>1 DEF Truth, AcceptedKnown, KnownStands
<1>6. ASSUME Fetches \/ Drops PROVE Truth'
  <2>1. controller'.at # "reply"
    BY <1>6, RestingTyped DEF Fetches, Drops
  <2> QED
    BY <1>5, <1>6, <2>1 DEF Fetches, Drops
<1> QED
  BY <1>2, <1>3, <1>4, <1>5, <1>6 DEF Next, Sends, Reads, Returns, Retries, Raises, Ends,
                                      Handles, TrialStops, vars

(* As long as campaign.json and its backup are saved together, what the
   ConfigMap says of a request is what happens to it: an accepted one has its
   generation, one that is only rejected has none.                          *)
THEOREM TruthfulReplies == ASSUME ~BackupFails PROVE Spec => []RepliesAreTrue
<1>1. MailInv /\ Truth /\ [Next]_vars => Truth'
  BY NextTruth
<1>2. MailInv /\ Truth => RepliesAreTrue
  <2> SUFFICES ASSUME MailInv, Truth, NEW c \in Commands
               PROVE  /\ Said(c) = {"rejected"} => ~Known(c)
                      /\ "accepted" \in Said(c) => Known(c)
    BY DEF RepliesAreTrue, RejectedIsNotRun
  <2>1. ASSUME Said(c) = {"rejected"}, Known(c) PROVE FALSE
    <3>1. PICK i \in 1 .. Len(requests) : requests[i].id = c /\ requests[i].status # "rejected"
      BY <2>1 DEF Truth, KnownStands
    <3>2. requests[i].status \in Said(c)
      BY <3>1 DEF Said
    <3> QED
      BY <2>1, <3>1, <3>2
  <2>2. ASSUME "accepted" \in Said(c) PROVE Known(c)
    BY <2>2 DEF Said, Truth, AcceptedKnown
  <2> QED
    BY <2>1, <2>2
<1> QED
  BY <1>1, <1>2, InitTruth, MailInvariant, PTL DEF Spec
=============================================================================
