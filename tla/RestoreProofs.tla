----------------------------- MODULE RestoreProofs -----------------------------
(***************************************************************************)
(* A campaign is only prepared when its archive is back completely, and     *)
(* nothing it wrote itself is replaced by the archive: for any archive,     *)
(* any faults and any number of submissions.                                *)
(***************************************************************************)
EXTENDS ArchiveRestore, TLAPS

Places == {"gone", "begin", "file", "need", "recv", "ack", "verify", "unlink", "copy", "announce"}
OnFile == {"file", "need", "recv", "ack", "verify"}

(* campaign.json on the results volume comes and goes with the preparation.  *)
There(i) == Order[i] # "campaign" => results[Order[i]] # "none"
Present(n) == \A i \in 1 .. Len(Order) : i <= n => There(i)

RestoreTypes ==
    /\ results \in [Files -> Contents]
    /\ copies \in [ToSet(FinalCopies) -> Contents]
    /\ journal \in {"none", "restoring", "complete"}
    /\ rec \in [at : Places, linked : BOOLEAN, strict : BOOLEAN, next : Nat]

(* The receiver is past what it has verified or published itself.            *)
Walked ==
    /\ rec.at = "begin" => rec.next = 1
    /\ rec.at \in OnFile => rec.next \in 1 .. Len(Order) /\ Present(rec.next - 1)
    /\ rec.at = "unlink" => rec.next \in 1 .. Len(Order) /\ Present(rec.next)
    /\ rec.at \in {"copy", "announce"} => Present(Len(Order))
    /\ rec.at = "copy" => rec.next \in 1 .. 4 /\ (rec.next > 1 => copies["control"] # "none")
    /\ rec.at = "announce" => copies["control"] # "none"

Whole == Present(Len(Order)) /\ copies["control"] # "none"
RestoreInv == RestoreTypes /\ Walked /\ (journal = "complete" => Whole)

LEMMA OrderFacts ==
    /\ Len(Order) \in Nat \ {0}
    /\ \A i \in 1 .. Len(Order) : Order[i] \in Files
    /\ \A f \in Files : \E i \in 1 .. Len(Order) : f = Order[i]
<1>1. Len(Order) \in Nat /\ DOMAIN Order = 1 .. Len(Order)
  BY OrderAssumption
<1>2. "campaign" \in Files
  BY FilesAssumption
<1> QED
  BY <1>1, <1>2 DEF Files, ToSet

LEMMA CopyFacts ==
    /\ Len(FinalCopies) = 4
    /\ ToSet(FinalCopies) = {"control", "backup", "manifest", "marker"}
    /\ FinalCopies[1] = "control"
    /\ \A i \in 1 .. 4 : FinalCopies[i] \in ToSet(FinalCopies)
BY DEF FinalCopies, ToSet

LEMMA InitRestore == Init => RestoreInv
BY CopyFacts DEF Init, RestoreInv, RestoreTypes, Walked, NoReceiver, Contents, Places, OnFile

(* Steps of the client, of the network and of the other submission do not touch
   the volumes, and at most cut a receiver off, end it or start a new one.    *)
LEMMA OtherSteps ==
    ASSUME RestoreInv, UNCHANGED <<results, copies, journal>>,
           \/ rec' = rec \/ rec' = NoReceiver
           \/ rec' = [rec EXCEPT !.linked = FALSE]
           \/ rec' = [NoReceiver EXCEPT !.at = "begin", !.linked = TRUE]
    PROVE  RestoreInv'
<1>1. /\ rec' \in [at : Places, linked : BOOLEAN, strict : BOOLEAN, next : Nat]
      /\ \/ rec'.at = rec.at /\ rec'.next = rec.next
         \/ rec'.at = "gone"
         \/ rec'.at = "begin" /\ rec'.next = 1
  <2>1. rec \in [at : Places, linked : BOOLEAN, strict : BOOLEAN, next : Nat]
    BY DEF RestoreInv, RestoreTypes
  <2>2. CASE rec' = rec
    BY <2>1, <2>2
  <2>3. CASE rec' = [rec EXCEPT !.linked = FALSE]
    BY <2>1, <2>3
  <2>4. CASE rec' = NoReceiver
    BY <2>4 DEF NoReceiver, Places
  <2>5. CASE rec' = [NoReceiver EXCEPT !.at = "begin", !.linked = TRUE]
    <3>1. rec' = [at |-> "begin", linked |-> TRUE, strict |-> FALSE, next |-> 1]
      BY <2>5 DEF NoReceiver
    <3> QED
      BY <3>1 DEF Places
  <2> QED
    BY <2>2, <2>3, <2>4, <2>5
<1>2. RestoreTypes'
  BY <1>1 DEF RestoreInv, RestoreTypes
<1>3. ASSUME NEW n
      PROVE  Present(n)' = Present(n)
  BY DEF Present, There
<1>4. Walked'
  BY <1>1, <1>3 DEF RestoreInv, Walked, OnFile
<1> QED
  BY <1>2, <1>3, <1>4 DEF RestoreInv, Whole

LEMMA ElsewhereInv ==
    RestoreInv /\ (Submits \/ Client \/ SubmitFails \/ Breaks \/ StreamEnds \/ HelperDies
                   \/ Environment \/ PreparationChecks) => RestoreInv'
<1> SUFFICES ASSUME RestoreInv, Submits \/ Client \/ SubmitFails \/ Breaks \/ StreamEnds
                    \/ HelperDies \/ Environment \/ PreparationChecks
             PROVE  RestoreInv'
  OBVIOUS
<1> USE DEF Cloud, Heard, Elsewhere, disks
<1>1. ASSUME Client
      PROVE  RestoreInv'
  BY <1>1, OtherSteps
  DEF Client, ChecksDeployment, ClearsController, ChecksController, FindsHelper, Connects,
      BacksOff, HearsDone, HearsNeed, SendsChunk, HearsAck, FileSent, HearsComplete, HearsError,
      DeletesHelper, AppliesPreparation, AppliesDeployment
<1>2. ASSUME Submits \/ SubmitFails \/ Breaks \/ StreamEnds \/ HelperDies
      PROVE  RestoreInv'
  BY <1>2, OtherSteps DEF Submits, SubmitFails, Breaks, StreamEnds, HelperDies
<1>3. ASSUME Environment \/ PreparationChecks
      PROVE  RestoreInv'
  BY <1>3, OtherSteps DEF Environment, PlainChecks, PlainDeploys, PreparationChecks
<1> QED
  BY <1>1, <1>2, <1>3

(* Preparation and controller remove nothing but campaign.json.              *)
LEMMA CampaignInv == RestoreInv /\ (PreparationWrites \/ ControllerWrites) => RestoreInv'
<1> SUFFICES ASSUME RestoreInv, PreparationWrites \/ ControllerWrites PROVE RestoreInv'
  OBVIOUS
<1> USE DEF PreparationWrites, ControllerWrites, Elsewhere, remote
<1>1. UNCHANGED <<journal, rec>>
  OBVIOUS
<1>2. RestoreTypes'
  BY CopyFacts, FilesAssumption DEF RestoreInv, RestoreTypes, Contents
<1>3. \A n : Present(n) => Present(n)'
  BY OrderFacts DEF RestoreInv, RestoreTypes, Present, There
<1>4. copies["control"] # "none" => copies'["control"] # "none"
  BY CopyFacts DEF RestoreInv, RestoreTypes, Contents
<1> QED
  BY <1>1, <1>2, <1>3, <1>4 DEF RestoreInv, Walked, Whole

-----------------------------------------------------------------------------
(* The receiver: file after file, then the copies.                           *)
LEMMA ReceiverBeginsInv == RestoreInv /\ ReceiverBegins => RestoreInv'
<1> SUFFICES ASSUME RestoreInv, ReceiverBegins PROVE RestoreInv'
  OBVIOUS
<1>1. UNCHANGED <<results, copies>>
  BY DEF ReceiverBegins, Refuses, Says, disks
<1>2. \/ rec' = NoReceiver /\ UNCHANGED journal
      \/ /\ rec' = [rec EXCEPT !.at = "file", !.strict = (journal = "complete")]
         /\ journal' = IF journal = "complete" THEN journal ELSE "restoring"
  <2>1. CASE rec' = NoReceiver /\ UNCHANGED disks
    BY <2>1 DEF disks
  <2>2. CASE ~(rec' = NoReceiver /\ UNCHANGED disks)
    BY <2>2 DEF ReceiverBegins, Refuses, Says
  <2> QED
    BY <2>1, <2>2
<1>3. CASE rec' = NoReceiver /\ UNCHANGED journal
  BY <1>1, <1>3, OtherSteps
<1>4. CASE ~(rec' = NoReceiver /\ UNCHANGED journal)
  <2>1. rec.at = "begin" /\ rec.next = 1
    BY DEF ReceiverBegins, RestoreInv, Walked
  <2>2. rec' \in [at : Places, linked : BOOLEAN, strict : BOOLEAN, next : Nat]
        /\ rec'.at = "file" /\ rec'.next = 1
    BY <1>2, <1>4, <2>1 DEF RestoreInv, RestoreTypes, Places
  <2>3. RestoreTypes'
    BY <1>1, <1>2, <1>4, <2>2 DEF RestoreInv, RestoreTypes
  <2>4. Present(0)' /\ (Present(Len(Order)) => Present(Len(Order))')
    BY <1>1, OrderFacts DEF Present, There
  <2>5. Walked'
    BY <2>2, <2>4, OrderFacts DEF Walked, OnFile
  <2> QED
    BY <1>1, <1>2, <1>4, <2>3, <2>4, <2>5 DEF RestoreInv, Whole
<1> QED
  BY <1>3, <1>4

LEMMA SameFile ==
    ASSUME RestoreInv, UNCHANGED <<results, copies, journal>>, rec.at \in OnFile,
           NEW at \in OnFile, rec' = [rec EXCEPT !.at = at]
    PROVE  RestoreInv'
<1>1. rec' \in [at : Places, linked : BOOLEAN, strict : BOOLEAN, next : Nat]
      /\ rec'.at = at /\ rec'.next = rec.next
  BY DEF RestoreInv, RestoreTypes, OnFile, Places
<1>2. RestoreTypes'
  BY <1>1 DEF RestoreInv, RestoreTypes
<1>3. ASSUME NEW n
      PROVE  Present(n)' = Present(n)
  BY DEF Present, There
<1>4. Walked'
  BY <1>1, <1>3 DEF RestoreInv, Walked, OnFile
<1> QED
  BY <1>2, <1>3, <1>4 DEF RestoreInv, Whole

LEMMA ReceivesInv ==
    RestoreInv /\ (NeedsFile \/ RefusesFile \/ Resumes \/ StoresChunk \/ Acknowledges
                   \/ FileReceived \/ ReceiverTimesOut) => RestoreInv'
<1> SUFFICES ASSUME RestoreInv,
                    NeedsFile \/ RefusesFile \/ Resumes \/ StoresChunk \/ Acknowledges
                    \/ FileReceived \/ ReceiverTimesOut
             PROVE  RestoreInv'
  OBVIOUS
<1> DEFINE Moves(at) == rec' = [rec EXCEPT !.at = at]
<1>1. UNCHANGED <<results, copies, journal>>
  BY DEF NeedsFile, RefusesFile, Resumes, StoresChunk, Acknowledges, FileReceived,
         ReceiverTimesOut, Refuses, Says, disks
<1>2. \/ rec' = NoReceiver
      \/ rec.at \in OnFile /\ \E at \in OnFile : Moves(at)
  <2>1. CASE NeedsFile \/ RefusesFile
    BY <2>1 DEF NeedsFile, RefusesFile, Refuses, Says, OnFile
  <2>2. CASE Resumes \/ StoresChunk
    BY <2>2 DEF Resumes, StoresChunk, Goes, OnFile
  <2>3. CASE Acknowledges \/ FileReceived \/ ReceiverTimesOut
    BY <2>3 DEF Acknowledges, FileReceived, ReceiverTimesOut, Says, Goes, OnFile
  <2> QED
    BY <2>1, <2>2, <2>3
<1> QED
  BY <1>1, <1>2, OtherSteps, SameFile

(* A file that is there, verified or published, is behind the receiver.       *)
LEMMA FileDone ==
    ASSUME RestoreInv, UNCHANGED <<results, copies, journal>>,
           rec.at \in OnFile \union {"unlink"}, There(rec.next), rec' = Onwards
    PROVE  RestoreInv'
<1>1. rec.next \in 1 .. Len(Order) /\ Present(rec.next - 1)
  BY OrderFacts DEF RestoreInv, Walked, Present
<1>2. Present(rec.next)
  BY <1>1, OrderFacts DEF Present
<1>3. rec \in [at : Places, linked : BOOLEAN, strict : BOOLEAN, next : Nat]
  BY DEF RestoreInv, RestoreTypes
<1>4. ASSUME NEW n
      PROVE  Present(n)' = Present(n)
  BY DEF Present, There
<1>5. CASE rec.next = Len(Order)
  <2>1. rec' \in [at : Places, linked : BOOLEAN, strict : BOOLEAN, next : Nat]
        /\ rec'.at = "copy" /\ rec'.next = 1
    BY <1>3, <1>5 DEF Onwards, Places
  <2>2. Walked'
    BY <1>2, <1>4, <1>5, <2>1 DEF Walked, OnFile
  <2> QED
    BY <1>4, <2>1, <2>2 DEF RestoreInv, RestoreTypes, Whole
<1>6. CASE rec.next # Len(Order)
  <2>1. rec' \in [at : Places, linked : BOOLEAN, strict : BOOLEAN, next : Nat]
        /\ rec'.at = "file" /\ rec'.next = rec.next + 1
    <3>1. rec' = [at |-> "file", linked |-> rec.linked, strict |-> rec.strict, next |-> rec.next + 1]
      BY <1>3, <1>6 DEF Onwards
    <3> QED
      BY <1>3, <3>1 DEF Places
  <2>2. Walked'
    BY <1>1, <1>2, <1>4, <1>6, <2>1, OrderFacts DEF Walked, OnFile
  <2> QED
    BY <1>4, <2>1, <2>2 DEF RestoreInv, RestoreTypes, Whole
<1> QED
  BY <1>5, <1>6

LEMMA FilesInv == RestoreInv /\ (ReusesFile \/ Unlinks) => RestoreInv'
<1> SUFFICES ASSUME RestoreInv, ReusesFile \/ Unlinks PROVE RestoreInv'
  OBVIOUS
<1>1. UNCHANGED <<results, copies, journal>>
  BY DEF ReusesFile, Unlinks, disks
<1>2. rec' = Onwards \/ rec' = NoReceiver
  BY DEF ReusesFile, Unlinks, Says
<1>3. rec.at \in OnFile \union {"unlink"} /\ There(rec.next)
  <2>1. CASE ReusesFile
    BY <2>1 DEF ReusesFile, Current, OnFile, There
  <2>2. CASE Unlinks
    BY <2>2, OrderFacts DEF Unlinks, RestoreInv, Walked, Present
  <2> QED
    BY <2>1, <2>2
<1> QED
  BY <1>1, <1>2, <1>3, FileDone, OtherSteps

LEMMA PublishesInv == RestoreInv /\ PublishesFile => RestoreInv'
<1> SUFFICES ASSUME RestoreInv, PublishesFile PROVE RestoreInv'
  OBVIOUS
<1>1. UNCHANGED <<copies, journal>> /\ rec.at = "verify"
  BY DEF PublishesFile, Refuses, disks
<1>2. rec.next \in 1 .. Len(Order) /\ Present(rec.next - 1) /\ Current \in Files
  BY <1>1, OrderFacts DEF RestoreInv, Walked, OnFile, Current
<1>3. CASE rec' = NoReceiver /\ UNCHANGED results
  BY <1>1, <1>3, OtherSteps
<1>4. CASE /\ results' = [results EXCEPT ![Current] = "archived"]
           /\ rec' = [rec EXCEPT !.at = "unlink"]
  <2>1. rec' \in [at : Places, linked : BOOLEAN, strict : BOOLEAN, next : Nat]
        /\ rec'.at = "unlink" /\ rec'.next = rec.next
    BY <1>4 DEF RestoreInv, RestoreTypes, Places
  <2>2. results' \in [Files -> Contents] /\ results'[Current] = "archived"
        /\ \A f \in Files \ {Current} : results'[f] = results[f]
    BY <1>2, <1>4 DEF RestoreInv, RestoreTypes, Contents
  <2>3. ASSUME NEW n, Present(n)
        PROVE  Present(n)'
    BY <2>2, <2>3, OrderFacts DEF Present, There
  <2>4. Present(rec.next)'
    BY <1>2, <2>1, <2>2, OrderFacts DEF Present, There, Current
  <2>5. Walked'
    BY <1>2, <2>1, <2>4 DEF Walked, OnFile
  <2> QED
    BY <1>1, <2>1, <2>2, <2>3, <2>5 DEF RestoreInv, RestoreTypes, Whole
<1> QED
  BY <1>3, <1>4 DEF PublishesFile, Refuses, Says, Goes, disks

LEMMA CopiesInv == RestoreInv /\ CopiesLast => RestoreInv'
<1> SUFFICES ASSUME RestoreInv, CopiesLast PROVE RestoreInv'
  OBVIOUS
<1>1. UNCHANGED <<results, journal>> /\ rec.at = "copy"
  BY DEF CopiesLast, Refuses, disks
<1>2. rec.next \in 1 .. 4 /\ Present(Len(Order)) /\ (rec.next > 1 => copies["control"] # "none")
  BY <1>1 DEF RestoreInv, Walked
<1>3. CASE rec' = NoReceiver /\ UNCHANGED copies
  BY <1>1, <1>3, OtherSteps
<1>4. CASE /\ copies' = [copies EXCEPT ![Copy] = "archived"]
           /\ rec' = IF rec.next = Len(FinalCopies) THEN [rec EXCEPT !.at = "announce"]
                     ELSE [rec EXCEPT !.next = @ + 1]
  <2>1. ASSUME NEW n
        PROVE  Present(n)' = Present(n)
    BY <1>1 DEF Present, There
  <2>2. copies' \in [ToSet(FinalCopies) -> Contents]
    BY <1>2, <1>4, CopyFacts DEF RestoreInv, RestoreTypes, Contents, Copy
  <2>3. copies'["control"] # "none"
    BY <1>2, <1>4, CopyFacts DEF RestoreInv, RestoreTypes, Copy
  <2>4. rec' \in [at : Places, linked : BOOLEAN, strict : BOOLEAN, next : Nat]
        /\ \/ rec'.at = "announce"
           \/ rec'.at = "copy" /\ rec'.next \in 1 .. 4
    <3>1. rec \in [at : Places, linked : BOOLEAN, strict : BOOLEAN, next : Nat]
      BY DEF RestoreInv, RestoreTypes
    <3>2. CASE rec.next = 4
      BY <1>4, <3>1, <3>2, CopyFacts DEF Places
    <3>3. CASE rec.next # 4
      BY <1>1, <1>2, <1>4, <3>1, <3>3, CopyFacts
    <3> QED
      BY <3>2, <3>3
  <2>5. Walked'
    BY <1>2, <2>1, <2>3, <2>4 DEF Walked, OnFile
  <2> QED
    BY <1>1, <2>1, <2>2, <2>3, <2>4, <2>5 DEF RestoreInv, RestoreTypes, Whole
<1> QED
  BY <1>3, <1>4 DEF CopiesLast, Refuses, Says, disks

LEMMA CompletesInv == RestoreInv /\ Completes => RestoreInv'
<1> SUFFICES ASSUME RestoreInv, Completes PROVE RestoreInv'
  OBVIOUS
<1>1. UNCHANGED <<results, copies>> /\ journal' = "complete" /\ rec' = NoReceiver
  BY DEF Completes, Says
<1>2. Whole
  BY DEF Completes, RestoreInv, Walked, Whole
<1>3. Present(Len(Order))' = Present(Len(Order))
  BY <1>1 DEF Present, There
<1>4. RestoreTypes' /\ Walked'
  BY <1>1 DEF RestoreInv, RestoreTypes, Walked, NoReceiver, Places, OnFile
<1> QED
  BY <1>1, <1>2, <1>3, <1>4 DEF RestoreInv, Whole

LEMMA NextRestore == RestoreInv /\ [Next]_vars => RestoreInv'
<1> SUFFICES ASSUME RestoreInv, [Next]_vars PROVE RestoreInv'
  OBVIOUS
<1>1. CASE ReceiverSteps
  BY <1>1, ReceiverBeginsInv, ReceivesInv, FilesInv, PublishesInv, CopiesInv, CompletesInv
  DEF ReceiverSteps
<1>2. CASE UNCHANGED vars
  BY <1>2, OtherSteps DEF vars, disks
<1> QED
  BY <1>1, <1>2, ElsewhereInv, CampaignInv DEF Next, Campaign

(* In every reachable state the receiver has put in place what comes before the
   file it is on, and the journal says complete only when nothing is missing
   (_restore_archive, restore_files).                                         *)
THEOREM RestoreInvariant == Spec => []RestoreInv
<1> QED
  BY InitRestore, NextRestore, PTL DEF Spec

(* A preparation passes before any restoration, or when everything the trials
   left and the control state are back (prepare_cluster_campaign and the
   receiver of _restore_archive).                                            *)
THEOREM WholeCampaigns == Spec => PreparesWholeCampaigns
<1>1. RestoreInv /\ [Next]_vars =>
        [prep = "running" /\ prep' = "passed" =>
            \/ journal = "none"
            \/ /\ copies["control"] # "none"
               /\ \A f \in Files \ {"campaign"} : results[f] # "none"]_vars
  <2> SUFFICES ASSUME RestoreInv, Next, prep = "running", prep' = "passed", journal # "none"
               PROVE  /\ copies["control"] # "none"
                      /\ \A f \in Files \ {"campaign"} : results[f] # "none"
    OBVIOUS
  <2>1. journal = "complete"
    BY DEF Next, Submits, Client, ChecksDeployment, ClearsController, ChecksController,
           FindsHelper, Connects, BacksOff, HearsDone, HearsNeed, SendsChunk, HearsAck, FileSent,
           HearsComplete, HearsError, DeletesHelper, AppliesPreparation, AppliesDeployment,
           SubmitFails, Breaks, StreamEnds, HelperDies, Cloud, Heard, remote,
           ReceiverSteps, Site, ReceiverBegins, ReusesFile, RefusesFile, NeedsFile, Resumes,
           StoresChunk, Acknowledges, FileReceived, PublishesFile, Unlinks, CopiesLast, Completes,
           ReceiverTimesOut, Environment, PlainChecks, PlainDeploys, Campaign, PreparationChecks,
           PreparationWrites, ControllerWrites, RestoreIsOver, RestoreInv, RestoreTypes
  <2>2. Present(Len(Order)) /\ copies["control"] # "none"
    BY <2>1 DEF RestoreInv, Whole
  <2> QED
    BY <2>2, OrderFacts DEF Present, There
<1> QED
  BY <1>1, RestoreInvariant, PTL DEF Spec, PreparesWholeCampaigns

(* Only two steps of the receiver bring files of the archive, and neither takes
   the place of one the campaign wrote, also not after a new controller began. *)
LEMMA NothingReplaced ==
    ASSUME RestoreInv, [Next]_vars
    PROVE  /\ \A f \in Files : results[f] = "changed" => results'[f] # "archived"
           /\ \A c \in ToSet(FinalCopies) : copies[c] = "changed" => copies'[c] # "archived"
<1>1. CASE UNCHANGED <<results, copies>>
  BY <1>1
<1>2. CASE PublishesFile
  BY <1>2 DEF PublishesFile, MayLink, Refuses, disks, RestoreInv, RestoreTypes
<1>3. CASE CopiesLast
  BY <1>3 DEF CopiesLast, Refuses, disks, RestoreInv, RestoreTypes
<1>4. CASE PreparationWrites \/ ControllerWrites
  BY <1>4 DEF PreparationWrites, ControllerWrites, RestoreInv, RestoreTypes
<1>5. Submits \/ Client \/ SubmitFails \/ Breaks \/ StreamEnds \/ HelperDies
          => UNCHANGED <<results, copies>>
  BY DEF Submits, Client, ChecksDeployment, ClearsController, ChecksController, FindsHelper,
         Connects, BacksOff, HearsDone, HearsNeed, SendsChunk, HearsAck, FileSent, HearsComplete,
         HearsError, DeletesHelper, AppliesPreparation, AppliesDeployment, SubmitFails, Breaks,
         StreamEnds, HelperDies, Cloud, Heard, disks
<1>6. Environment \/ PreparationChecks => UNCHANGED <<results, copies>>
  BY DEF Environment, PlainChecks, PlainDeploys, PreparationChecks, disks
<1>7. ReceiverSteps /\ ~PublishesFile /\ ~CopiesLast => UNCHANGED <<results, copies>>
  BY DEF ReceiverSteps, ReceiverBegins, ReusesFile, RefusesFile, NeedsFile, Resumes, StoresChunk,
         Acknowledges, FileReceived, Unlinks, Completes, ReceiverTimesOut, Refuses, Says, disks
<1> QED
  BY <1>1, <1>2, <1>3, <1>4, <1>5, <1>6, <1>7 DEF Next, Campaign, vars, disks

(* What the campaign wrote is never replaced by the archive (_publish links, and
   _same_file refuses other contents).                                       *)
THEOREM NothingOverwritten == Spec => NothingIsOverwritten
<1>1. RestoreInv /\ [Next]_vars =>
        [/\ \A f \in Files : results[f] = "changed" => results'[f] # "archived"
         /\ \A c \in ToSet(FinalCopies) : copies[c] = "changed" => copies'[c] # "archived"]_vars
  BY NothingReplaced
<1> QED
  BY <1>1, RestoreInvariant, PTL DEF Spec, NothingIsOverwritten
=============================================================================
