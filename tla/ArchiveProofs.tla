----------------------------- MODULE ArchiveProofs -----------------------------
(***************************************************************************)
(* What campaign-sync keeps and campaign-retire deletes, for any number of *)
(* states, files of any size, any number of continuations and any number   *)
(* of crashes of controller and client: every local archive is a snapshot  *)
(* the controller has finalised, the newest one is never lost, and a claim *)
(* is only deleted when the archive holds the final state.                 *)
(*                                                                         *)
(* What a manifest says was true when it was written and stays true, or a  *)
(* continuation was accepted since (Final); the result tree is ready for   *)
(* the next manifest (Prepared); what the client wants and holds is as far *)
(* as the manifest in the tree (Synced).                                   *)
(***************************************************************************)
EXTENDS ResultArchive, TLAPS

Archives == {dest, backup} \ {None, Torn}

(* What is true of a finalised manifest m when campaign.json is c: unless the
   campaign was continued since, the manifest of a complete state is the one of
   the last state.                                                          *)
Final(m, c) ==
    /\ m.rev <= c.rev /\ m.taken <= c.taken
    /\ m.rev = c.rev => m.status = c.status
    /\ m.campaign = m.rev
    /\ m.status = "complete" =>
        /\ m.trials # None /\ m.trials <= m.rev
        /\ m.rev = c.rev \/ m.taken < c.taken

Snapshot(a) ==
    /\ a.campaign = a.manifest.campaign /\ a.trials = a.manifest.trials
    /\ Final(a.manifest, control)
    /\ tree.manifest # None /\ a.manifest.rev <= tree.manifest.rev

Prepared ==
    /\ control.status = "complete" => ~control.due
    /\ ~control.due => tree.trials # None
    /\ tree.trials # None => tree.trials <= control.rev
    /\ ctl = "inventory" => tree.campaign = control.rev
    /\ ctl \in {"annotate", "report"} => tree.manifest # None
    /\ ctl = "removed" => control.status = "running" /\ control.rev < MaxRev

(* Every manifest that can be read.                                         *)
Known ==
    /\ \A m \in {tree.manifest, note, status.manifest, cli.told, cli.want} \ {None} :
            Final(m, control)
    /\ \A a \in Archives : Snapshot(a)

Wants == {"download", "swap", "swapping"}
Synced ==
    /\ cli.at \in Wants \cup {"manifest"} => cli.want # None
    /\ cli.at \in Wants =>
        /\ tree.manifest # None /\ cli.want.rev <= tree.manifest.rev
        /\ \A a \in Archives : a.manifest.rev <= cli.want.rev
    /\ cli.at \in {"status", "claim", "manifest", "download", "swap"} => backup = None
    /\ cli.at = "swapping" => dest = None /\ Verified
    /\ cli.at \in {"swapped", "discard"} => dest # None
    /\ cli.at \in {"confirm", "deployed", "delete"} =>
            dest # None /\ dest.manifest.status = "complete"
    /\ dest # None /\ Whole(backup) => backup.manifest.rev <= dest.manifest.rev

IInv == TypeOK /\ Prepared /\ Known /\ Synced

-----------------------------------------------------------------------------
(* Types.                                                                   *)

LEMMA Bounds ==
    /\ MaxRev \in Nat /\ Versions \subseteq Nat /\ None \notin Versions
    /\ Len(DeletionOrder) \in Nat \ {0}
<1>1. MaxRev \in Nat /\ Versions \subseteq Nat
  BY BoundsAssumption DEF Versions
<1>2. None \notin Versions
  BY <1>1, NoneAssumption
<1>3. ASSUME NEW S, NEW a \in S, NEW b \in S, NEW c \in S
      PROVE  /\ <<a, b, c>> \in Seq(S) /\ Len(<<a, b, c>>) = 3
             /\ <<a>> \in Seq(S) /\ Len(<<a>>) = 1
  OBVIOUS
<1>6. ClaimOrder \in Seq(STRING) /\ Len(ClaimOrder) \in Nat
  BY ClaimsAssumption
<1>4. ASSUME NEW s \in Seq(STRING), NEW u \in Seq(STRING)
      PROVE  s \o u \in Seq(STRING) /\ Len(s \o u) = Len(s) + Len(u)
  OBVIOUS
<1>5. Len(DeletionOrder) = 3 + Len(ClaimOrder) + 1
  BY <1>3, <1>4, <1>6 DEF DeletionOrder
<1>. QED
  BY <1>1, <1>2, <1>6, <1>5

(* A command keeps its type when one field of it is set.                    *)
LEMMA OneField ==
    ASSUME NEW c \in Client
    PROVE  /\ \A p \in ClientPlaces : [c EXCEPT !.at = p] \in Client
           /\ \A f \in Files : [c EXCEPT !.file = f] \in Client
           /\ \A m \in Manifest \cup {None} : [c EXCEPT !.told = m] \in Client
           /\ \A m \in Manifest \cup {None} : [c EXCEPT !.want = m] \in Client
           /\ \A n \in 0 .. 3 : [c EXCEPT !.tries = n] \in Client
           /\ c.step # Len(DeletionOrder) => [c EXCEPT !.step = @ + 1] \in Client
           /\ [c EXCEPT !.retired = TRUE] \in Client
<1>1. c.step # Len(DeletionOrder) => [c EXCEPT !.step = @ + 1] \in Client
  BY Bounds DEF Client
<1>. QED
  BY <1>1 DEF Client

LEMMA RestingTyped == Resting \in Client
BY Bounds DEF Resting, Client, ClientPlaces, Files

(* The steps of the controller and of the operator.                         *)
LEMMA ClusterTyped ==
    ASSUME IInv, Controller \/ Requests \/ ControllerStopped
    PROVE  TypeOK'
<1>1. UNCHANGED <<cli, dest, backup, staging>> /\ TypeOK
  BY DEF IInv, Controller, Requests, ControllerStopped, Starts, TakesRequest, AtTerminal,
         Advances, RemovesPublication, Publishes, KeepsBundle, WritesState, WritesManifest,
         Annotates, Reports, Remote, local
<1>2. control \in Control /\ control.rev \in Versions
  BY <1>1 DEF TypeOK, Control
<1>3. control' \in Control
  <2>1. CASE TakesRequest
    <3>1. control.rev < MaxRev => control.rev + 1 \in Versions
      BY <1>2, Bounds DEF Versions
    <3>. QED
      BY <1>2, <2>1, <3>1 DEF TakesRequest, Control
  <2>2. CASE Advances
    <3>1. control.rev < MaxRev => control.rev + 1 \in Versions
      BY <1>2, Bounds DEF Versions
    <3>. QED
      BY <1>2, <2>2, <3>1 DEF Advances, Control
  <2>3. CASE Publishes
    <3>1. control.rev + 1 \in Versions
      BY <1>2, <2>3, Bounds DEF Versions, IInv, Prepared, Publishes
    <3>. QED
      BY <1>2, <2>3, <3>1 DEF Publishes, Control, TerminalStates
  <2>4. CASE ~(TakesRequest \/ Advances \/ Publishes)
    BY <1>2, <2>4
       DEF Controller, Requests, ControllerStopped, Starts, AtTerminal,
           RemovesPublication, KeepsBundle, WritesState, WritesManifest, Annotates, Reports
  <2>. QED
    BY <2>1, <2>2, <2>3, <2>4
<1>4. tree' \in [campaign : Versions \union {None}, trials : Versions \union {None},
                 manifest : Manifest \union {None}]
  <2> DEFINE Tree == [campaign : Versions \union {None}, trials : Versions \union {None},
                      manifest : Manifest \union {None}]
  <2>1. tree \in Tree
    BY <1>1 DEF TypeOK
  <2>2. CASE Publishes
    <3>1. control.rev + 1 \in Versions
      BY <1>2, <2>2, Bounds DEF Versions, IInv, Prepared, Publishes
    <3>. QED
      BY <2>1, <2>2, <3>1 DEF Publishes
  <2>3. CASE WritesManifest
    <3>1. Inventory \in Manifest
      BY <1>2, <2>1, <2>3 DEF WritesManifest, Inventory, Manifest, Control, IInv, Prepared
    <3>. QED
      BY <2>1, <2>3, <3>1 DEF WritesManifest
  <2>4. CASE RemovesPublication \/ WritesState
    BY <1>2, <2>1, <2>4 DEF RemovesPublication, WritesState
  <2>5. CASE ~(Publishes \/ WritesManifest \/ RemovesPublication \/ WritesState)
    BY <2>1, <2>5
       DEF Controller, Requests, ControllerStopped, Starts, TakesRequest, AtTerminal, Advances,
           KeepsBundle, Annotates, Reports
  <2>. QED
    BY <2>2, <2>3, <2>4, <2>5
<1>5. /\ note' \in Manifest \union {None}
      /\ status' \in [manifest : Manifest \union {None}, ready : BOOLEAN]
  <2>1. /\ note \in Manifest \union {None} /\ tree.manifest \in Manifest \union {None}
        /\ status \in [manifest : Manifest \union {None}, ready : BOOLEAN]
    BY <1>1 DEF TypeOK
  <2>2. CASE Annotates
    BY <2>1, <2>2 DEF Annotates
  <2>3. CASE AtTerminal
    BY <2>1, <2>3 DEF AtTerminal
  <2>6. CASE Reports
    <3> DEFINE b == control.status \in TerminalStates
    <3>1. b \in BOOLEAN
      OBVIOUS
    <3>2. note' = note /\ status' = [manifest |-> tree.manifest, ready |-> b]
      BY <2>6 DEF Reports
    <3> HIDE DEF b
    <3>. QED
      BY <2>1, <3>1, <3>2
  <2>4. CASE ~(Annotates \/ AtTerminal \/ Reports)
    BY <2>1, <2>4
       DEF Controller, Requests, ControllerStopped, Starts, TakesRequest, Advances,
           RemovesPublication, Publishes, KeepsBundle, WritesState, WritesManifest
  <2>. QED
    BY <2>2, <2>3, <2>4, <2>6
<1>6. ctl' \in ControllerPlaces /\ live' \subseteq Resources
  BY <1>1
     DEF TypeOK, Controller, Requests, ControllerStopped, Starts, TakesRequest, AtTerminal,
         Advances, RemovesPublication, Publishes, KeepsBundle, WritesState, WritesManifest,
         Annotates, Reports, Goes, ControllerPlaces
<1>7. /\ requests' \in [waiting : BOOLEAN, sent : 0 .. MaxRequests]
      /\ stops' \in [controller : 0 .. ControllerStops, client : 0 .. ClientStops]
  <2>1. /\ requests \in [waiting : BOOLEAN, sent : 0 .. MaxRequests]
        /\ stops \in [controller : 0 .. ControllerStops, client : 0 .. ClientStops]
    BY <1>1 DEF TypeOK
  <2>2. CASE Requests
    BY <2>1, <2>2, BoundsAssumption DEF Requests, Remote
  <2>3. CASE TakesRequest
    BY <2>1, <2>3 DEF TakesRequest, Remote
  <2>4. CASE ControllerStopped
    BY <2>1, <2>4, BoundsAssumption DEF ControllerStopped
  <2>5. CASE ~(Requests \/ TakesRequest \/ ControllerStopped)
    BY <2>1, <2>5
       DEF Controller, Starts, AtTerminal, Advances, RemovesPublication, Publishes,
           KeepsBundle, WritesState, WritesManifest, Annotates, Reports, Remote
  <2>. QED
    BY <2>2, <2>3, <2>4, <2>5
<1>. QED
  BY <1>1, <1>3, <1>4, <1>5, <1>6, <1>7 DEF TypeOK

(* The steps of the client.                                                 *)
LEMMA CommandTyped ==
    ASSUME IInv, Begins \/ ClientStep \/ ClientStopped
    PROVE  cli' \in Client
<1>1. /\ cli \in Client /\ note \in Manifest \cup {None}
      /\ status \in [manifest : Manifest \union {None}, ready : BOOLEAN]
  BY DEF IInv, TypeOK
<1>2. /\ status.manifest \in Manifest \cup {None} /\ None \in Manifest \cup {None}
      /\ "campaign" \in Files /\ "trials" \in Files /\ cli.told \in Manifest \cup {None}
  BY <1>1 DEF Client, Files
<1>3. Ends \/ Retired => cli' \in Client
  BY RestingTyped, OneField DEF Ends, Retired
<1>4. \A p \in ClientPlaces : cli' = [cli EXCEPT !.at = p] => cli' \in Client
  BY <1>1, OneField
<1>5. ASSUME Again
      PROVE  cli' \in Client
  <2>1. "status" \in ClientPlaces /\ cli.tries \in 0 .. 3
    BY <1>1 DEF ClientPlaces, Client
  <2>2. CASE cli.tries >= 2
    BY <1>3, <1>5, <2>2 DEF Again
  <2>3. CASE ~(cli.tries >= 2)
    <3> DEFINE c == [cli EXCEPT !.at = "status"]
               d == [c EXCEPT !.tries = cli.tries + 1]
               e == [d EXCEPT !.file = "campaign"]
    <3>1. c \in Client
      BY <1>1, <2>1, OneField
    <3>5. cli.tries + 1 \in 0 .. 3
      BY <2>1, <2>3
    <3>2. cli' = [e EXCEPT !.want = None]
      BY <1>5, <2>3 DEF Again
    <3> HIDE DEF c
    <3>3. d \in Client
      BY <3>1, <3>5, OneField
    <3> HIDE DEF d
    <3>4. e \in Client
      BY <1>2, <3>3, OneField
    <3> HIDE DEF e
    <3>. QED
      BY <1>2, <3>2, <3>4, OneField
  <2>. QED
    BY <2>2, <2>3
<1>6. ASSUME NEW p \in ClientPlaces, NEW m \in Manifest \cup {None},
              cli' = [cli EXCEPT !.at = p, !.told = m]
       PROVE  cli' \in Client
  <2> DEFINE c == [cli EXCEPT !.at = p]
  <2>1. c \in Client
    BY <1>1, OneField
  <2>2. cli' = [c EXCEPT !.told = m]
    BY <1>6
  <2> HIDE DEF c
  <2>. QED
    BY <2>1, <2>2, OneField
<1>7. ASSUME NEW p \in ClientPlaces, cli' = [cli EXCEPT !.at = p, !.file = "campaign"]
       PROVE  cli' \in Client
  <2> DEFINE c == [cli EXCEPT !.at = p]
  <2>1. c \in Client
    BY <1>1, OneField
  <2>2. cli' = [c EXCEPT !.file = "campaign"]
    BY <1>7
  <2> HIDE DEF c
  <2>. QED
    BY <1>2, <2>1, <2>2, OneField
<1>8. CASE Begins
  <2>1. PICK p \in {"prepare", "claims"} : cli' = [Resting EXCEPT !.at = p]
    BY <1>8 DEF Begins
  <2>2. p \in ClientPlaces
    BY DEF ClientPlaces
  <2>. QED
    BY <2>1, <2>2, RestingTyped, OneField
<1>9. CASE Prepares \/ SetsAside \/ BeginsDiscard \/ EndsDiscard \/ ChecksClaims \/ Verifies
            \/ Confirms \/ ClientStopped
  <2>1. {"status", "swapping", "discard", "verify", "prepare", "confirm", "delete"}
            \subseteq ClientPlaces
    BY DEF ClientPlaces
  <2>2. Ends \/ Retired \/ \E p \in ClientPlaces : cli' = [cli EXCEPT !.at = p]
    BY <1>9, <2>1
       DEF Prepares, SetsAside, BeginsDiscard, EndsDiscard, ChecksClaims, Verifies, Confirms,
           ClientStopped
  <2>. QED
    BY <1>3, <1>4, <2>2
<1>10. CASE ReadsStatus \/ ReadsConfirmation
  <2> DEFINE m == IF status.ready THEN status.manifest ELSE None
  <2>1. "claim" \in ClientPlaces /\ "deployed" \in ClientPlaces
    BY DEF ClientPlaces
  <2>2. m \in Manifest \cup {None}
    BY <1>2
  <2>3. \/ cli' = [cli EXCEPT !.at = "claim", !.told = status.manifest]
        \/ cli' = [cli EXCEPT !.at = "deployed", !.told = m]
    BY <1>10 DEF ReadsStatus, ReadsConfirmation
  <2> HIDE DEF m
  <2>. QED
    BY <1>2, <1>6, <2>1, <2>2, <2>3
<1>11. CASE ReadsClaim
  <2> DEFINE m == IF note # None THEN note ELSE cli.told
             c == [cli EXCEPT !.at = "manifest"]
             d == [c EXCEPT !.told = None]
  <2>1. m \in Manifest \cup {None}
    BY <1>1, <1>2
  <2>2. Ends \/ cli' = [d EXCEPT !.want = m]
    BY <1>11 DEF ReadsClaim
  <2>3. c \in Client
    <3>1. "manifest" \in ClientPlaces
      BY DEF ClientPlaces
    <3>. QED
      BY <1>1, <3>1, OneField
  <2> HIDE DEF m, c
  <2>4. d \in Client
    BY <1>2, <2>3, OneField
  <2> HIDE DEF d
  <2>. QED
    BY <1>3, <2>1, <2>2, <2>4, OneField
<1>12. CASE ReadsManifest
  <2>1. "download" \in ClientPlaces
    BY DEF ClientPlaces
  <2>2. Ends \/ Again \/ cli' = [cli EXCEPT !.at = "download", !.file = "campaign"]
    BY <1>12 DEF ReadsManifest
  <2>. QED
    BY <1>3, <1>5, <1>7, <2>1, <2>2
<1>13. CASE SkipsFile
  <2>1. "swap" \in ClientPlaces
    BY DEF ClientPlaces
  <2>2. \/ cli' = [cli EXCEPT !.file = "trials"]
        \/ cli' = [cli EXCEPT !.at = "swap", !.file = "campaign"]
    BY <1>13 DEF SkipsFile, NextFile
  <2>3. [cli EXCEPT !.file = "trials"] \in Client
    BY <1>1, <1>2, OneField
  <2>. QED
    BY <1>7, <2>1, <2>2, <2>3
<1>14. CASE SeedsFile \/ DropsOldFile \/ FetchesChunk \/ ChecksFile
  <2>1. cli' = cli \/ Ends \/ Again
    BY <1>14 DEF SeedsFile, DropsOldFile, FetchesChunk, ChecksFile
  <2>. QED
    BY <1>1, <1>3, <1>5, <2>1
<1>15. CASE Swaps
  <2> DEFINE c == [cli EXCEPT !.at = "swapped"]
             d == [c EXCEPT !.want = None]
  <2>1. c \in Client
    <3>1. "swapped" \in ClientPlaces
      BY DEF ClientPlaces
    <3>. QED
      BY <1>1, <3>1, OneField
  <2>2. cli' = [d EXCEPT !.tries = 0] /\ 0 \in 0 .. 3
    BY <1>15 DEF Swaps
  <2> HIDE DEF c
  <2>3. d \in Client
    BY <1>2, <2>1, OneField
  <2> HIDE DEF d
  <2>. QED
    BY <2>2, <2>3, OneField
<1>16. CASE Deletes
  <2>1. \/ Retired
        \/ cli.step # Len(DeletionOrder) /\ cli' = [cli EXCEPT !.step = @ + 1]
    BY <1>16 DEF Deletes
  <2>. QED
    BY <1>1, <1>3, <2>1, OneField
<1>. QED
  BY <1>8, <1>9, <1>10, <1>11, <1>12, <1>13, <1>14, <1>15, <1>16
     DEF ClientStep

(* What is fetched.                                                         *)
LEMMA StagingTyped ==
    ASSUME IInv, Begins \/ ClientStep \/ ClientStopped
    PROVE  staging' \in [Files -> Staged]
<1>1. /\ staging \in [Files -> Staged] /\ cli \in Client
      /\ cli.file \in Files /\ cli.want \in Manifest \cup {None}
      /\ tree \in [campaign : Versions \union {None}, trials : Versions \union {None},
                   manifest : Manifest \union {None}]
  BY DEF IInv, TypeOK, Client
<1>2. Have \in Staged /\ Have.whole \in Versions \union {None} /\ Have.part \in Seq(Versions)
  BY <1>1 DEF Have, Staged
<1>3. \A s \in Staged : [staging EXCEPT ![cli.file] = s] \in [Files -> Staged]
  BY <1>1
<1>4. ASSUME cli.at = "download"
      PROVE  Wanted \in Versions \cup {None}
  <2>1. cli.want \in Manifest
    BY <1>1, <1>4 DEF IInv, Synced, Wants
  <2>. QED
    BY <2>1 DEF Wanted, Manifest
<1>5. There \in Versions \cup {None}
  BY <1>1 DEF There
<1>6. CASE SeedsFile
  <2>1. Wanted \in Versions
    BY <1>4, <1>6 DEF SeedsFile, Downloading
  <2>2. [Have EXCEPT !.whole = Wanted] \in Staged
    BY <1>2, <2>1 DEF Staged
  <2>3. staging' = [staging EXCEPT ![cli.file] = [Have EXCEPT !.whole = Wanted]]
    BY <1>1, <1>6 DEF SeedsFile, Have
  <2>. QED
    BY <1>3, <2>2, <2>3
<1>7. CASE DropsOldFile
  <2> DEFINE s == [whole |-> None,
                   part |-> IF Len(Have.part) > Size[Wanted] THEN <<>> ELSE Have.part]
  <2>1. s \in Staged
    <3>1. <<>> \in Seq(Versions)
      OBVIOUS
    <3>. QED
      BY <1>2, <3>1 DEF Staged
  <2>2. staging' = [staging EXCEPT ![cli.file] = s]
    BY <1>7 DEF DropsOldFile
  <2> HIDE DEF s
  <2>. QED
    BY <1>3, <2>1, <2>2
<1>8. CASE FetchesChunk
  <2>1. \/ staging' = staging
        \/ There # None /\ staging' = [staging EXCEPT ![cli.file].part = Append(@, There)]
    BY <1>8 DEF FetchesChunk
  <2>2. CASE There # None /\ staging' = [staging EXCEPT ![cli.file].part = Append(@, There)]
    <3>1. Append(Have.part, There) \in Seq(Versions)
      BY <1>2, <1>5, <2>2
    <3>2. [Have EXCEPT !.part = Append(Have.part, There)] \in Staged
      BY <1>2, <3>1 DEF Staged
    <3>3. staging' = [staging EXCEPT ![cli.file] =
                        [Have EXCEPT !.part = Append(Have.part, There)]]
      BY <1>1, <2>2 DEF Have
    <3>. QED
      BY <1>3, <3>2, <3>3
  <2>. QED
    BY <1>1, <2>1, <2>2
<1>9. CASE ChecksFile
  <2>1. \/ staging' = staging
        \/ staging' = [staging EXCEPT ![cli.file] = [whole |-> Wanted, part |-> <<>>]]
    BY <1>9 DEF ChecksFile
  <2>2. [whole |-> Wanted, part |-> <<>>] \in Staged
    <3>1. <<>> \in Seq(Versions)
      OBVIOUS
    <3>2. Wanted \in Versions \cup {None}
      BY <1>4, <1>9 DEF ChecksFile, Ready, Fetches, Downloading
    <3>. QED
      BY <3>1, <3>2 DEF Staged
  <2>. QED
    BY <1>1, <1>3, <2>1, <2>2
<1>10. CASE Swaps
  <2>1. Nothing \in Staged
    <3>1. <<>> \in Seq(Versions)
      OBVIOUS
    <3>. QED
      BY <3>1 DEF Nothing, Staged
  <2>. QED
    BY <1>10, <2>1 DEF Swaps
<1>11. CASE ~(SeedsFile \/ DropsOldFile \/ FetchesChunk \/ ChecksFile \/ Swaps)
  <2>1. staging' = staging
    BY <1>11
       DEF Begins, ClientStep, ClientStopped, Prepares, ReadsStatus, ReadsClaim, ReadsManifest,
           SkipsFile, SetsAside, BeginsDiscard, EndsDiscard, ChecksClaims, Verifies,
           ReadsConfirmation, Confirms, Deletes, Downloading, local
  <2>. QED
    BY <1>1, <2>1
<1>. QED
  BY <1>6, <1>7, <1>8, <1>9, <1>10, <1>11

-----------------------------------------------------------------------------
(* The cluster.                                                             *)

(* How campaign.json changes.                                               *)
Grows(c, d) ==
    \/ d = c
    \/ /\ d.rev = c.rev + 1
       /\ \/ d.taken = c.taken /\ c.status = "running"
          \/ d.taken = c.taken + 1

LEMMA FinalStays ==
    ASSUME NEW c \in Control, NEW d \in Control, Grows(c, d),
           NEW m \in Manifest, Final(m, c)
    PROVE  Final(m, d)
<1>1. {m.rev, m.taken, c.rev, c.taken, d.rev, d.taken} \subseteq Nat
  BY Bounds DEF Control, Manifest
<1>. QED
  BY <1>1 DEF Grows, Final

LEMMA ControlGrows ==
    ASSUME IInv, Controller \/ Requests \/ ControllerStopped
    PROVE  /\ control \in Control /\ control' \in Control /\ Grows(control, control')
           /\ control'.rev >= control.rev /\ control.rev \in Nat
<1>1. control \in Control /\ control' \in Control
  BY ClusterTyped DEF IInv, TypeOK
<1>2. Grows(control, control')
  <2>1. CASE TakesRequest
    BY <1>1, <2>1 DEF TakesRequest, Grows
  <2>2. CASE Advances
    BY <1>1, <2>2 DEF Advances, Grows, Control
  <2>3. CASE Publishes
    BY <1>1, <2>3 DEF Publishes, Grows, Control, IInv, Prepared
  <2>4. CASE ~(TakesRequest \/ Advances \/ Publishes)
    BY <2>4
       DEF Controller, Requests, ControllerStopped, Starts, AtTerminal, RemovesPublication,
           KeepsBundle, WritesState, WritesManifest, Annotates, Reports, Grows
  <2>. QED
    BY <2>1, <2>2, <2>3, <2>4
<1>3. control.rev \in Nat
  BY <1>1, Bounds DEF Control
<1>. QED
  BY <1>1, <1>2, <1>3 DEF Grows

LEMMA PreparedKept ==
    ASSUME IInv, Controller \/ Requests \/ ControllerStopped
    PROVE  Prepared'
<1>1. /\ control \in Control /\ control' \in Control /\ TypeOK /\ Prepared
      /\ control.rev \in Nat /\ control'.rev >= control.rev
  BY ControlGrows DEF IInv
<1>2. /\ tree.trials \in Versions \cup {None} /\ control'.rev \in Nat
      /\ tree \in [campaign : Versions \union {None}, trials : Versions \union {None},
                   manifest : Manifest \union {None}]
  BY <1>1, Bounds DEF TypeOK, Control
<1>3. tree.trials # None => tree.trials <= control'.rev
  <2>1. tree.trials # None => tree.trials \in Nat /\ tree.trials <= control.rev
    BY <1>1, <1>2, Bounds DEF Prepared
  <2>. QED
    BY <1>1, <1>2, <2>1
<1>4. CASE TakesRequest
  BY <1>1, <1>3, <1>4 DEF TakesRequest, Goes, Prepared, Control
<1>5. CASE Advances
  BY <1>1, <1>3, <1>5 DEF Advances, Goes, Prepared, Control, TerminalStates
<1>6. CASE RemovesPublication
  BY <1>1, <1>2, <1>6 DEF RemovesPublication, Goes, Prepared, PassesGate
<1>7. CASE Publishes
  <2>1. control.rev + 1 # None
    BY <1>1, NoneAssumption
  <2>. QED
    BY <1>1, <1>2, <1>7, <2>1 DEF Publishes, Goes, Prepared, Control
<1>8. CASE WritesState
  BY <1>1, <1>2, <1>8 DEF WritesState, Goes, Prepared
<1>9. CASE WritesManifest
  <2>1. Inventory # None
    <3>1. Inventory \in Manifest
      BY <1>1, <1>2, <1>9 DEF Inventory, WritesManifest, Manifest, Control, Prepared
    <3>. QED
      BY <3>1, NoneAssumption
  <2>. QED
    BY <1>1, <1>2, <1>9, <2>1 DEF WritesManifest, Goes, Prepared
<1>10. CASE Starts \/ AtTerminal \/ KeepsBundle \/ Annotates \/ Reports \/ Requests
            \/ ControllerStopped
  BY <1>1, <1>10
     DEF Starts, AtTerminal, KeepsBundle, Annotates, Reports, Requests, ControllerStopped,
         Goes, Prepared, Current
<1>. QED
  BY <1>4, <1>5, <1>6, <1>7, <1>8, <1>9, <1>10 DEF Controller

(* The manifest that is about to be written.                                *)
LEMMA InventoryFinal ==
    ASSUME IInv, WritesManifest
    PROVE  /\ Inventory \in Manifest /\ Inventory # None /\ Final(Inventory, control)
           /\ Inventory.rev = control.rev
<1>1. /\ control \in Control /\ ctl = "inventory" /\ Prepared
      /\ tree \in [campaign : Versions \union {None}, trials : Versions \union {None},
                   manifest : Manifest \union {None}]
  BY DEF IInv, TypeOK, WritesManifest
<1>2. Inventory \in Manifest
  BY <1>1 DEF Inventory, Manifest, Control, Prepared
<1>3. Inventory # None
  BY <1>2, NoneAssumption
<1>4. Final(Inventory, control)
  <2>1. control.rev \in Nat /\ control.taken \in Nat
    BY <1>1, Bounds DEF Control
  <2>2. /\ Inventory.rev = control.rev /\ Inventory.taken = control.taken
        /\ Inventory.status = control.status /\ Inventory.campaign = control.rev
        /\ Inventory.trials = tree.trials
    BY <1>1 DEF Inventory, Prepared
  <2>. QED
    BY <1>1, <2>1, <2>2 DEF Final, Prepared
<1>. QED
  BY <1>2, <1>3, <1>4 DEF Inventory

(* The manifest in the tree only grows.                                     *)
LEMMA ManifestGrows ==
    ASSUME IInv, Controller \/ Requests \/ ControllerStopped, tree.manifest # None
    PROVE  /\ tree'.manifest # None /\ tree'.manifest.rev >= tree.manifest.rev
           /\ tree.manifest.rev \in Nat /\ tree'.manifest.rev \in Nat
<1>1. /\ tree \in [campaign : Versions \union {None}, trials : Versions \union {None},
                   manifest : Manifest \union {None}]
      /\ Final(tree.manifest, control)
  BY DEF IInv, TypeOK, Known
<1>2. tree.manifest \in Manifest /\ tree.manifest.rev \in Nat
  BY <1>1, Bounds DEF Manifest
<1>3. CASE WritesManifest
  <2>1. tree'.manifest = Inventory
    BY <1>1, <1>3 DEF WritesManifest
  <2>2. /\ Inventory # None /\ Inventory.rev = control.rev /\ control.rev \in Nat
        /\ tree.manifest.rev <= control.rev
    BY <1>1, <1>3, InventoryFinal, ControlGrows DEF Final
  <2>. QED
    BY <1>2, <2>1, <2>2
<1>4. CASE ~WritesManifest
  <2>1. tree'.manifest = tree.manifest
    BY <1>1, <1>4
       DEF Controller, Requests, ControllerStopped, Starts, TakesRequest, AtTerminal, Advances,
           RemovesPublication, Publishes, KeepsBundle, WritesState, Annotates, Reports
  <2>. QED
    BY <1>2, <2>1
<1>. QED
  BY <1>3, <1>4

LEMMA KnownKept ==
    ASSUME IInv, Controller \/ Requests \/ ControllerStopped
    PROVE  Known'
<1>1. UNCHANGED <<cli, dest, backup, staging>> /\ TypeOK /\ Known
  BY DEF IInv, Controller, Requests, ControllerStopped, Starts, TakesRequest, AtTerminal,
         Advances, RemovesPublication, Publishes, KeepsBundle, WritesState, WritesManifest,
         Annotates, Reports, Remote, local
<1>2. ASSUME NEW m \in Manifest, Final(m, control)
      PROVE  Final(m, control')
  BY <1>2, ControlGrows, FinalStays
<1>3. /\ tree.manifest \in Manifest \cup {None} /\ note \in Manifest \cup {None}
      /\ status.manifest \in Manifest \cup {None}
      /\ cli.told \in Manifest \cup {None} /\ cli.want \in Manifest \cup {None}
  BY <1>1 DEF TypeOK, Client
<1>4. ASSUME NEW m \in {tree'.manifest, note', status'.manifest, cli'.told, cli'.want} \ {None}
      PROVE  Final(m, control')
  <2>1. CASE m \in {tree.manifest, note, status.manifest, cli.told, cli.want}
    BY <1>1, <1>2, <1>3, <1>4, <2>1 DEF Known
  <2>2. CASE WritesManifest /\ m = Inventory
    BY <1>2, <2>2, InventoryFinal
  <2>3. \/ m \in {tree.manifest, note, status.manifest, cli.told, cli.want}
        \/ WritesManifest /\ m = Inventory
    <3>1. \/ tree'.manifest = tree.manifest
          \/ WritesManifest /\ tree'.manifest = Inventory
      BY <1>1
         DEF TypeOK, Controller, Requests, ControllerStopped, Starts, TakesRequest, AtTerminal,
             Advances, RemovesPublication, Publishes, KeepsBundle, WritesState, WritesManifest,
             Annotates, Reports
    <3>2. note' \in {note, tree.manifest}
      BY DEF Controller, Requests, ControllerStopped, Starts, TakesRequest, AtTerminal,
             Advances, RemovesPublication, Publishes, KeepsBundle, WritesState, WritesManifest,
             Annotates, Reports
    <3>3. status'.manifest \in {status.manifest, tree.manifest}
      <4>1. CASE AtTerminal \/ Reports
        BY <4>1 DEF AtTerminal, Reports
      <4>2. CASE ~(AtTerminal \/ Reports)
        BY <4>2
           DEF Controller, Requests, ControllerStopped, Starts, TakesRequest, Advances,
               RemovesPublication, Publishes, KeepsBundle, WritesState, WritesManifest, Annotates
      <4>. QED
        BY <4>1, <4>2
    <3>. QED
      BY <1>1, <1>4, <3>1, <3>2, <3>3
  <2>. QED
    BY <2>1, <2>2, <2>3
<1>5. ASSUME NEW a \in Archives
      PROVE  /\ a.campaign = a.manifest.campaign /\ a.trials = a.manifest.trials
             /\ Final(a.manifest, control')
             /\ tree'.manifest # None /\ a.manifest.rev <= tree'.manifest.rev
  <2>1. Snapshot(a) /\ a \in Archive
    BY <1>1 DEF Known, Archives, TypeOK
  <2>2. a.manifest \in Manifest /\ a.manifest.rev \in Nat
    BY <2>1, Bounds DEF Archive, Manifest
  <2>. QED
    BY <1>2, <2>1, <2>2, ManifestGrows DEF Snapshot
<1>. QED
  BY <1>1, <1>4, <1>5 DEF Known, Snapshot, Archives

LEMMA SyncedKept ==
    ASSUME IInv, Controller \/ Requests \/ ControllerStopped
    PROVE  Synced'
<1>1. UNCHANGED <<cli, dest, backup, staging>> /\ TypeOK /\ Synced
  BY DEF IInv, Controller, Requests, ControllerStopped, Starts, TakesRequest, AtTerminal,
         Advances, RemovesPublication, Publishes, KeepsBundle, WritesState, WritesManifest,
         Annotates, Reports, Remote, local
<1>2. cli.at \in Wants => tree'.manifest # None /\ cli.want.rev <= tree'.manifest.rev
  <2> SUFFICES ASSUME cli.at \in Wants
               PROVE  tree'.manifest # None /\ cli.want.rev <= tree'.manifest.rev
    OBVIOUS
  <2>1. /\ cli.want # None /\ cli.want \in Manifest \cup {None}
        /\ tree.manifest # None /\ cli.want.rev <= tree.manifest.rev
    BY <1>1 DEF Synced, TypeOK, Client
  <2>2. cli.want.rev \in Nat
    BY <2>1, Bounds DEF Manifest
  <2>. QED
    BY <2>1, <2>2, ManifestGrows
<1>. QED
  BY <1>1, <1>2 DEF Synced, Archives, Verified, Pruned, Whole

-----------------------------------------------------------------------------
(* The client.                                                              *)

(* The client changes nothing in the cluster before it deletes it.          *)
LEMMA ClusterStill ==
    ASSUME TypeOK, Begins \/ ClientStep \/ ClientStopped
    PROVE  /\ UNCHANGED <<control, tree, note, status, requests>>
           /\ live' \subseteq live /\ ctl' \in {ctl, "down"}
           /\ stops' \in [controller : 0 .. ControllerStops, client : 0 .. ClientStops]
           /\ ~Deletes => UNCHANGED live
<1>1. stops \in [controller : 0 .. ControllerStops, client : 0 .. ClientStops]
  BY DEF TypeOK
<1>2. CASE Deletes
  BY <1>1, <1>2 DEF Deletes
<1>3. CASE ClientStopped
  BY <1>1, <1>3, BoundsAssumption DEF ClientStopped, cluster
<1>4. CASE ~(Deletes \/ ClientStopped)
  <2>1. Here
    BY <1>4
       DEF Begins, ClientStep, Prepares, ReadsStatus, ReadsClaim, ReadsManifest, SkipsFile,
           SeedsFile, DropsOldFile, FetchesChunk, ChecksFile, Ready, Fetches, Downloading,
           SetsAside, Swaps, BeginsDiscard, EndsDiscard, ChecksClaims, Verifies,
           ReadsConfirmation, Confirms
  <2>. QED
    BY <1>1, <2>1 DEF Here, cluster
<1>5. Deletes => live' \subseteq live
  BY DEF Deletes
<1>. QED
  BY <1>2, <1>3, <1>4, <1>5

(* Where a step of the client leads, and what it knows then.                *)
Moves(p, t, w) == cli'.at = p /\ cli'.told = t /\ cli'.want = w

LEMMA Commands ==
    ASSUME TypeOK
    PROVE  /\ Ends \/ Retired => Moves("idle", None, None)
           /\ Again => Moves("idle", None, None) \/ Moves("status", cli.told, None)
           /\ Begins => \E p \in {"prepare", "claims"} : Moves(p, None, None)
           /\ \A p : cli' = [cli EXCEPT !.at = p] => Moves(p, cli.told, cli.want)
<1>1. cli \in Client
  BY DEF TypeOK
<1>2. Ends \/ Retired => Moves("idle", None, None)
  BY DEF Ends, Retired, Resting, Moves
<1>3. Again => Moves("idle", None, None) \/ Moves("status", cli.told, None)
  BY <1>1, <1>2 DEF Again, Moves, Client
<1>4. Begins => \E p \in {"prepare", "claims"} : Moves(p, None, None)
  BY DEF Begins, Resting, Moves
<1>5. \A p : cli' = [cli EXCEPT !.at = p] => Moves(p, cli.told, cli.want)
  BY <1>1 DEF Moves, Client
<1>. QED
  BY <1>2, <1>3, <1>4, <1>5

(* What the steps that learn something know.                                *)
LEMMA Learns ==
    ASSUME TypeOK
    PROVE  /\ ReadsStatus => Moves("claim", status.manifest, cli.want)
           /\ ReadsClaim => \/ Moves("idle", None, None)
                            \/ \E m \in {note, cli.told} \ {None} : Moves("manifest", None, m)
           /\ ReadsManifest =>
                \/ Moves("idle", None, None)
                \/ Moves("status", cli.told, None)
                \/ /\ tree.manifest # None /\ tree.manifest = cli.want
                   /\ Moves("download", cli.told, cli.want)
           /\ SkipsFile => \E p \in {"download", "swap"} : Moves(p, cli.told, cli.want)
           /\ SeedsFile \/ DropsOldFile \/ FetchesChunk \/ ChecksFile =>
                \/ Moves("idle", None, None)
                \/ Moves("status", cli.told, None)
                \/ Moves("download", cli.told, cli.want)
           /\ Swaps => Moves("swapped", cli.told, None)
           /\ ReadsConfirmation =>
                \E m \in {status.manifest, None} : Moves("deployed", m, cli.want)
           /\ Deletes => Moves("idle", None, None) \/ Moves("delete", cli.told, cli.want)
<1>1. cli \in Client
  BY DEF TypeOK
<1>2. ReadsStatus => Moves("claim", status.manifest, cli.want)
  BY <1>1 DEF ReadsStatus, Moves, Client
<1>3. ASSUME ReadsClaim
      PROVE  \/ Moves("idle", None, None)
             \/ \E m \in {note, cli.told} \ {None} : Moves("manifest", None, m)
  <2> DEFINE m == IF note # None THEN note ELSE cli.told
  <2>1. CASE m = None \/ "results" \notin live
    BY <1>3, <2>1, Commands DEF ReadsClaim
  <2>2. CASE ~(m = None \/ "results" \notin live)
    <3>1. cli' = [cli EXCEPT !.at = "manifest", !.told = None, !.want = m]
      BY <1>3, <2>2 DEF ReadsClaim
    <3>2. m \in {note, cli.told} \ {None}
      BY <2>2
    <3> HIDE DEF m
    <3>3. Moves("manifest", None, m)
      BY <1>1, <3>1 DEF Moves, Client
    <3>. QED
      BY <3>2, <3>3
  <2>. QED
    BY <2>1, <2>2
<1>4. ASSUME ReadsManifest
      PROVE  \/ Moves("idle", None, None)
             \/ Moves("status", cli.told, None)
             \/ /\ tree.manifest # None /\ tree.manifest = cli.want
                /\ Moves("download", cli.told, cli.want)
  <2>1. \/ Ends \/ Again
        \/ /\ tree.manifest # None /\ tree.manifest = cli.want
           /\ cli' = [cli EXCEPT !.at = "download", !.file = "campaign"]
    BY <1>4 DEF ReadsManifest
  <2>2. cli' = [cli EXCEPT !.at = "download", !.file = "campaign"] =>
            Moves("download", cli.told, cli.want)
    BY <1>1 DEF Moves, Client
  <2>. QED
    BY <2>1, <2>2, Commands
<1>5. SkipsFile => \E p \in {"download", "swap"} : Moves(p, cli.told, cli.want)
  BY <1>1 DEF SkipsFile, Downloading, NextFile, Moves, Client
<1>6. ASSUME SeedsFile \/ DropsOldFile \/ FetchesChunk \/ ChecksFile
      PROVE  \/ Moves("idle", None, None)
             \/ Moves("status", cli.told, None)
             \/ Moves("download", cli.told, cli.want)
  <2>1. (cli' = cli /\ cli.at = "download") \/ Ends \/ Again
    BY <1>6
       DEF SeedsFile, DropsOldFile, FetchesChunk, ChecksFile, Ready, Fetches, Downloading
  <2>. QED
    BY <2>1, Commands DEF Moves
<1>7. Swaps => Moves("swapped", cli.told, None)
  BY <1>1 DEF Swaps, Moves, Client
<1>8. ASSUME ReadsConfirmation
      PROVE  \E m \in {status.manifest, None} : Moves("deployed", m, cli.want)
  <2> DEFINE m == IF status.ready THEN status.manifest ELSE None
  <2>1. cli' = [cli EXCEPT !.at = "deployed", !.told = m] /\ m \in {status.manifest, None}
    BY <1>8 DEF ReadsConfirmation
  <2> HIDE DEF m
  <2>2. Moves("deployed", m, cli.want)
    BY <1>1, <2>1 DEF Moves, Client
  <2>. QED
    BY <2>1, <2>2
<1>9. ASSUME Deletes
      PROVE  Moves("idle", None, None) \/ Moves("delete", cli.told, cli.want)
  <2>1. \/ Retired
        \/ cli.at = "delete" /\ cli' = [cli EXCEPT !.step = @ + 1]
    BY <1>9 DEF Deletes
  <2>2. cli.at = "delete" /\ cli' = [cli EXCEPT !.step = @ + 1] =>
            Moves("delete", cli.told, cli.want)
    BY <1>1 DEF Moves, Client
  <2>. QED
    BY <2>1, <2>2, Commands
<1>. QED
  BY <1>2, <1>3, <1>4, <1>5, <1>6, <1>7, <1>8, <1>9

(* The archive that a swap puts in place.                                   *)
LEMMA SwappedIn ==
    ASSUME IInv, cli.at = "swapping"
    PROVE  /\ NewArchive \in Archive /\ Whole(NewArchive) /\ Snapshot(NewArchive)
           /\ NewArchive.manifest = cli.want /\ dest = None
           /\ \A a \in Archives : a.manifest.rev <= NewArchive.manifest.rev
<1>1. /\ cli \in Client /\ cli.want # None /\ dest = None /\ Verified
      /\ tree.manifest # None /\ cli.want.rev <= tree.manifest.rev
      /\ \A a \in Archives : a.manifest.rev <= cli.want.rev
  BY DEF IInv, TypeOK, Synced, Wants
<1>2. cli.want \in Manifest /\ Final(cli.want, control)
  BY <1>1 DEF Client, IInv, Known
<1>3. /\ NewArchive.manifest = cli.want /\ NewArchive.campaign = cli.want.campaign
      /\ NewArchive.trials = cli.want.trials
  BY <1>1 DEF NewArchive, Verified
<1>4. NewArchive \in Archive
  BY <1>1, <1>2 DEF NewArchive, Verified, Archive, Manifest
<1>5. Whole(NewArchive)
  BY <1>4, NoneAssumption DEF Whole
<1> HIDE DEF NewArchive
<1>. QED
  BY <1>1, <1>2, <1>3, <1>4, <1>5 DEF Snapshot

(* How a step of the client changes the archive and its backup.             *)
LEMMA Held ==
    ASSUME IInv, Begins \/ ClientStep \/ ClientStopped
    PROVE  \/ UNCHANGED <<dest, backup>>
           \/ Prepares /\ backup # Torn /\ backup' = None
                       /\ dest' = IF dest = None THEN backup ELSE dest
           \/ SetsAside /\ cli.at = "swap" /\ backup = None /\ Verified
                        /\ backup' = dest /\ dest' = None
           \/ Swaps /\ cli.at = "swapping" /\ dest' = NewArchive /\ UNCHANGED backup
           \/ (BeginsDiscard \/ EndsDiscard) /\ dest # None /\ UNCHANGED dest
                                             /\ backup' \in {None, Torn}
<1>1. CASE Prepares
  BY <1>1 DEF Prepares, local
<1>2. CASE SetsAside
  BY <1>2 DEF SetsAside, IInv, Synced
<1>3. CASE Swaps
  BY <1>3 DEF Swaps
<1>4. CASE BeginsDiscard \/ EndsDiscard
  BY <1>4 DEF BeginsDiscard, EndsDiscard, IInv, Synced
<1>5. CASE ~(Prepares \/ SetsAside \/ Swaps \/ BeginsDiscard \/ EndsDiscard)
  BY <1>5
     DEF Begins, ClientStep, ClientStopped, ReadsStatus, ReadsClaim, ReadsManifest, SkipsFile,
         SeedsFile, DropsOldFile, FetchesChunk, ChecksFile, Ready, Fetches, Downloading,
         ChecksClaims, Verifies, ReadsConfirmation, Confirms, Deletes, local
<1>. QED
  BY <1>1, <1>2, <1>3, <1>4, <1>5

(* Every archive the client holds afterwards it held before, or swapped in. *)
LEMMA ArchivesKept ==
    ASSUME IInv, Begins \/ ClientStep \/ ClientStopped
    PROVE  /\ dest' \in Archive \union {None} /\ backup' \in Archive \union {None, Torn}
           /\ \A a \in Archives' :
                a \in Archives \/ (Swaps /\ cli.at = "swapping" /\ a = NewArchive)
<1>1. dest \in Archive \union {None} /\ backup \in Archive \union {None, Torn}
  BY DEF IInv, TypeOK
<1>2. CASE Swaps /\ cli.at = "swapping" /\ dest' = NewArchive /\ UNCHANGED backup
  BY <1>1, <1>2, SwappedIn DEF Archives
<1>3. CASE ~(Swaps /\ cli.at = "swapping" /\ dest' = NewArchive /\ UNCHANGED backup)
  BY <1>1, <1>3, Held DEF Archives
<1>. QED
  BY <1>2, <1>3

LEMMA ArchivesKnown ==
    ASSUME IInv, Begins \/ ClientStep \/ ClientStopped
    PROVE  Known'
<1>1. UNCHANGED <<control, tree, note, status>>
  BY ClusterStill DEF IInv
<1>2. ASSUME NEW a \in Archives'
      PROVE  Snapshot(a)
  BY <1>2, ArchivesKept, SwappedIn DEF IInv, Known
<1>3. TypeOK /\ Known
  BY DEF IInv
<1>4. /\ cli'.told \in {None, cli.told, status.manifest}
      /\ cli'.want \in {None, cli.want, note, cli.told}
  <2>1. CASE Begins
    BY <1>3, <2>1, Commands DEF Moves
  <2>2. CASE ReadsStatus \/ ReadsClaim \/ ReadsManifest \/ SkipsFile \/ SeedsFile \/ DropsOldFile
             \/ FetchesChunk \/ ChecksFile \/ Swaps \/ ReadsConfirmation \/ Deletes
    BY <1>3, <2>2, Learns DEF Moves
  <2>3. CASE Prepares \/ SetsAside \/ BeginsDiscard \/ EndsDiscard \/ ChecksClaims \/ Verifies
             \/ Confirms \/ ClientStopped
    <3>1. Ends \/ Retired \/ \E p : cli' = [cli EXCEPT !.at = p]
      BY <2>3
         DEF Prepares, SetsAside, BeginsDiscard, EndsDiscard, ChecksClaims, Verifies, Confirms,
             ClientStopped
    <3>. QED
      BY <1>3, <3>1, Commands DEF Moves
  <2>. QED
    BY <2>1, <2>2, <2>3 DEF ClientStep
<1>5. \A m \in {tree'.manifest, note', status'.manifest, cli'.told, cli'.want} \ {None} :
            Final(m, control')
  BY <1>1, <1>3, <1>4 DEF Known
<1>. QED
  BY <1>1, <1>2, <1>5 DEF Known, Snapshot

(* Where a step of the client may lead.                                     *)
LEMMA SyncedNext ==
    ASSUME IInv, Begins \/ ClientStep \/ ClientStopped
    PROVE  Synced'
<1>1. TypeOK /\ Synced /\ Known /\ UNCHANGED <<control, tree>>
  BY ClusterStill DEF IInv
<1>2. dest' # None /\ Whole(backup') => backup'.manifest.rev <= dest'.manifest.rev
  <2>1. CASE UNCHANGED <<dest, backup>>
    BY <1>1, <2>1 DEF Synced
  <2>2. CASE Swaps /\ cli.at = "swapping" /\ dest' = NewArchive /\ UNCHANGED backup
    <3>1. Whole(backup) => backup \in Archives
      BY DEF Whole, Archives
    <3>. QED
      BY <2>2, <3>1, SwappedIn
  <2>3. dest' = None \/ backup' \in {None, Torn} \/ UNCHANGED <<dest, backup>>
            \/ (Swaps /\ cli.at = "swapping" /\ dest' = NewArchive /\ UNCHANGED backup)
    BY Held
  <2>. QED
    BY <2>1, <2>2, <2>3 DEF Whole
<1>3. ASSUME cli'.at \in {"idle", "prepare", "claims", "verify"}
      PROVE  Synced'
  BY <1>2, <1>3 DEF Synced, Wants
<1>4. ASSUME cli'.at \in {"status", "claim"}, backup' = None
      PROVE  Synced'
  BY <1>2, <1>4 DEF Synced, Wants
<1>5. ASSUME Moves("idle", None, None)
      PROVE  Synced'
  BY <1>3, <1>5 DEF Moves
<1>6. ASSUME Moves("status", cli.told, None), UNCHANGED backup,
             cli.at \in {"manifest", "download"}
      PROVE  Synced'
  BY <1>1, <1>4, <1>6 DEF Moves, Synced
<1>7. CASE Begins
  <2>1. \E p \in {"prepare", "claims"} : Moves(p, None, None)
    BY <1>1, <1>7, Commands
  <2>. QED
    BY <1>3, <2>1 DEF Moves
<1>8. CASE Prepares
  <2>1. Ends \/ (cli' = [cli EXCEPT !.at = "status"] /\ backup' = None)
    BY <1>8 DEF Prepares
  <2>. QED
    BY <1>1, <1>4, <1>5, <2>1, Commands DEF Moves
<1>9. CASE ReadsStatus
  <2>1. Moves("claim", status.manifest, cli.want) /\ backup' = None
    BY <1>1, <1>9, Learns DEF ReadsStatus, local, Synced
  <2>. QED
    BY <1>4, <2>1 DEF Moves
<1>10. CASE ReadsClaim
  <2>1. ASSUME NEW m \in {note, cli.told} \ {None}, Moves("manifest", None, m)
        PROVE  Synced'
    <3>1. cli'.at = "manifest" /\ cli'.want # None /\ backup' = None
      BY <1>1, <1>10, <2>1 DEF ReadsClaim, local, Synced, Moves
    <3>. QED
      BY <1>2, <3>1 DEF Synced, Wants
  <2>. QED
    BY <1>1, <1>5, <1>10, <2>1, Learns
<1>11. CASE ReadsManifest
  <2>1. UNCHANGED <<dest, backup>> /\ cli.at = "manifest" /\ backup = None
    BY <1>1, <1>11 DEF ReadsManifest, local, Synced
  <2>2. ASSUME tree.manifest # None, tree.manifest = cli.want, Moves("download", cli.told, cli.want)
        PROVE  Synced'
    <3>1. \A a \in Archives' : a.manifest.rev <= cli'.want.rev
      BY <1>1, <2>1, <2>2 DEF Archives, Known, Snapshot, Moves
    <3>2. cli.want \in Manifest /\ cli.want.rev \in Nat
      <4>1. cli.want \in Manifest
        BY <1>1, <2>2 DEF TypeOK, Client
      <4>. QED
        BY <4>1, Bounds DEF Manifest
    <3>3. tree'.manifest # None /\ cli'.want # None /\ cli'.want.rev <= tree'.manifest.rev
      BY <1>1, <2>2, <3>2 DEF Moves
    <3>. QED
      BY <1>2, <2>1, <2>2, <3>1, <3>3 DEF Synced, Wants, Moves
  <2>. QED
    BY <1>1, <1>5, <1>6, <1>11, <2>1, <2>2, Learns
<1>12. CASE SkipsFile \/ SeedsFile \/ DropsOldFile \/ FetchesChunk \/ ChecksFile
  <2>1. UNCHANGED <<dest, backup>> /\ cli.at = "download" /\ backup = None
    BY <1>1, <1>12
       DEF SkipsFile, SeedsFile, DropsOldFile, FetchesChunk, ChecksFile, Ready, Fetches,
           Downloading, Synced
  <2>2. ASSUME NEW p \in {"download", "swap"}, Moves(p, cli.told, cli.want)
        PROVE  Synced'
    <3>1. /\ cli'.want # None /\ tree'.manifest # None /\ cli'.want.rev <= tree'.manifest.rev
          /\ \A a \in Archives' : a.manifest.rev <= cli'.want.rev
      BY <1>1, <2>1, <2>2 DEF Archives, Synced, Wants, Moves
    <3>. QED
      BY <1>2, <2>1, <2>2, <3>1 DEF Synced, Wants, Moves
  <2>. QED
    BY <1>1, <1>5, <1>6, <1>12, <2>1, <2>2, Learns
<1>13. CASE SetsAside
  <2>1. CASE Ends
    BY <1>1, <1>5, <2>1, Commands
  <2>2. CASE ~Ends
    <3>1. /\ cli.at = "swap" /\ Verified /\ backup' = dest /\ dest' = None /\ staging' = staging
          /\ Moves("swapping", cli.told, cli.want)
      BY <1>1, <1>13, <2>2, Commands DEF SetsAside
    <3>2. /\ cli'.want # None /\ tree'.manifest # None /\ cli'.want.rev <= tree'.manifest.rev
          /\ \A a \in Archives' : a.manifest.rev <= cli'.want.rev
      BY <1>1, <3>1 DEF Archives, Synced, Wants, Moves
    <3>3. Verified'
      BY <3>1 DEF Verified, Pruned, Moves
    <3>. QED
      BY <1>2, <3>1, <3>2, <3>3 DEF Synced, Wants, Moves
  <2>. QED
    BY <2>1, <2>2
<1>14. CASE Swaps
  <2>1. cli'.at = "swapped"
    BY <1>1, <1>14, Learns DEF Moves
  <2>2. dest' # None
    BY <1>14, SwappedIn DEF Swaps, Whole
  <2>. QED
    BY <1>2, <2>1, <2>2 DEF Synced, Wants
<1>15. CASE BeginsDiscard
  <2>1. cli'.at = "discard" /\ dest' # None
    BY <1>1, <1>15, Commands DEF BeginsDiscard, Synced, Moves
  <2>. QED
    BY <1>2, <2>1 DEF Synced, Wants
<1>16. CASE EndsDiscard \/ ChecksClaims \/ ClientStopped
  <2>1. \/ Ends \/ Retired
        \/ \E p \in {"verify", "prepare"} : cli' = [cli EXCEPT !.at = p]
    BY <1>16 DEF EndsDiscard, ChecksClaims, ClientStopped
  <2>. QED
    BY <1>1, <1>3, <1>5, <2>1, Commands DEF Moves
<1>17. CASE Verifies \/ ReadsConfirmation \/ Confirms \/ Deletes
  <2>1. UNCHANGED dest
    BY <1>17 DEF Verifies, ReadsConfirmation, Confirms, Deletes, local
  <2>2. \/ Moves("idle", None, None)
        \/ cli'.at \in {"confirm", "deployed", "delete"} /\ dest # None
                /\ dest.manifest.status = "complete"
    <3>1. CASE Verifies
      <4>1. Ends \/ (Resumable(dest) /\ cli' = [cli EXCEPT !.at = "confirm"])
        BY <3>1 DEF Verifies
      <4>. QED
        BY <1>1, <4>1, Commands DEF Moves, Resumable, Whole
    <3>2. CASE ReadsConfirmation
      BY <1>1, <3>2, Learns DEF ReadsConfirmation, Synced, Moves
    <3>3. CASE Confirms
      BY <1>1, <3>3, Commands DEF Confirms, Synced, Moves
    <3>4. CASE Deletes
      <4>1. cli.at = "delete"
        BY <3>4 DEF Deletes
      <4>. QED
        BY <1>1, <3>4, <4>1, Learns DEF Synced, Moves
    <3>. QED
      BY <1>17, <3>1, <3>2, <3>3, <3>4
  <2>3. ASSUME cli'.at \in {"confirm", "deployed", "delete"}, dest # None,
               dest.manifest.status = "complete"
        PROVE  Synced'
    BY <1>2, <2>1, <2>3 DEF Synced, Wants
  <2>. QED
    BY <1>5, <2>2, <2>3
<1>. QED
  BY <1>7, <1>8, <1>9, <1>10, <1>11, <1>12, <1>13, <1>14, <1>15, <1>16, <1>17
     DEF ClientStep

-----------------------------------------------------------------------------
(* The invariant.                                                           *)

LEMMA InitHolds == Init => IInv
<1> SUFFICES ASSUME Init
             PROVE  IInv
  OBVIOUS
<1>1. 1 \in Versions /\ 1 <= Len(DeletionOrder)
  BY Bounds, BoundsAssumption DEF Versions
<1>2. control \in Control /\ control.rev \in Versions
  BY <1>1 DEF Init, Control
<1>3. TypeOK
  <2>1. staging \in [Files -> Staged]
    <3>1. <<>> \in Seq(Versions)
      OBVIOUS
    <3>. QED
      BY <3>1 DEF Init, Nothing, Staged
  <2>2. cli \in Client
    BY RestingTyped DEF Init
  <2>3. /\ requests \in [waiting : BOOLEAN, sent : 0 .. MaxRequests]
        /\ stops \in [controller : 0 .. ControllerStops, client : 0 .. ClientStops]
    BY BoundsAssumption DEF Init
  <2>. QED
    BY <1>2, <2>1, <2>2, <2>3 DEF Init, TypeOK, ControllerPlaces
<1>4. Prepared
  BY DEF Init, Prepared
<1>5. Known
  BY DEF Init, Known, Archives, Resting
<1>6. Synced
  BY DEF Init, Synced, Wants, Resting
<1>. QED
  BY <1>3, <1>4, <1>5, <1>6 DEF IInv

LEMMA ClientKeeps ==
    ASSUME IInv, Begins \/ ClientStep \/ ClientStopped
    PROVE  IInv'
<1>1. /\ UNCHANGED <<control, tree, note, status, requests>>
      /\ live' \subseteq live /\ ctl' \in {ctl, "down"}
      /\ stops' \in [controller : 0 .. ControllerStops, client : 0 .. ClientStops]
  BY ClusterStill DEF IInv
<1>2. TypeOK /\ Prepared /\ "down" \in ControllerPlaces
  BY DEF IInv, ControllerPlaces
<1>3. TypeOK'
  BY <1>1, <1>2, CommandTyped, StagingTyped, ArchivesKept DEF TypeOK
<1>4. Prepared'
  BY <1>1, <1>2 DEF Prepared
<1>. QED
  BY <1>3, <1>4, ArchivesKnown, SyncedNext DEF IInv

LEMMA NextKeeps == IInv /\ [Next]_vars => IInv'
<1> SUFFICES ASSUME IInv, [Next]_vars
             PROVE  IInv'
  OBVIOUS
<1>1. CASE Controller \/ Requests \/ ControllerStopped
  BY <1>1, ClusterTyped, PreparedKept, KnownKept, SyncedKept DEF IInv
<1>2. CASE Begins \/ ClientStep \/ ClientStopped
  BY <1>2, ClientKeeps
<1>3. CASE UNCHANGED vars
  <2>1. UNCHANGED <<control, tree, note, status, ctl, requests, live, cli, dest, backup, staging,
                    stops>>
    BY <1>3 DEF vars, cluster, local
  <2>. QED
    BY <2>1 DEF IInv, TypeOK, Prepared, Known, Synced, Archives, Snapshot, Verified, Pruned
<1>. QED
  BY <1>1, <1>2, <1>3 DEF Next

(* Whatever stops when: every manifest that can be read is final, and the
   client's archives are snapshots no newer than the manifest in the tree.   *)
THEOREM ArchiveInvariant == Spec => []IInv
<1>1. Init => IInv
  BY InitHolds
<1>2. IInv /\ [Next]_vars => IInv'
  BY NextKeeps
<1>. QED
  BY <1>1, <1>2, PTL DEF Spec

(* Every archive a client holds is a snapshot the controller has finalised,
   although campaign-sync reads the result tree file by file while the
   controller rewrites it and either may stop at any step.                  *)
THEOREM ArchivesAreSnapshots == Spec => []ArchiveIsSnapshot
<1>1. IInv => ArchiveIsSnapshot
  BY DEF IInv, Known, Archives, Snapshot, Final, ArchiveIsSnapshot
<1>. QED
  BY <1>1, ArchiveInvariant, PTL

(* The newest of an archive and its backup.                                 *)
NewestOf(d, b) == Max({0} \union {a.manifest.rev : a \in {d, b} \ {None, Torn}})

LEMMA NewestIs ==
    ASSUME NEW d \in Archive \union {None}, NEW b \in Archive \union {None, Torn}
    PROVE  /\ NewestOf(d, b) \in Nat
           /\ NewestOf(d, b) = 0 \/ \E a \in {d, b} \ {None, Torn} : NewestOf(d, b) = a.manifest.rev
           /\ \A a \in {d, b} \ {None, Torn} :
                a.manifest.rev \in Nat /\ a.manifest.rev <= NewestOf(d, b)
<1> DEFINE A == {d, b} \ {None, Torn}
           S == {0} \union {a.manifest.rev : a \in A}
<1>1. \A a \in A : a.manifest.rev \in Nat
  BY Bounds DEF Archive, Manifest
<1>2. S \subseteq Nat
  BY <1>1
<1>3. \E x \in S : \A y \in S : x >= y
  <2>1. CASE A = {}
    BY <2>1
  <2>2. CASE \E a \in A : A = {a}
    <3>1. PICK a \in A : A = {a}
      BY <2>2
    <3>2. S = {0, a.manifest.rev} /\ a.manifest.rev \in Nat
      BY <1>1, <3>1
    <3> HIDE DEF S, A
    <3>. QED
      BY <3>2
  <2>3. CASE A = {d, b}
    <3>1. S = {0, d.manifest.rev, b.manifest.rev} /\ d.manifest.rev \in Nat /\ b.manifest.rev \in Nat
      BY <1>1, <2>3
    <3> HIDE DEF S, A
    <3>. QED
      BY <3>1
  <2>. QED
    BY <2>1, <2>2, <2>3
<1>4. Max(S) \in S /\ \A y \in S : Max(S) >= y
  <2> HIDE DEF S
  <2>. QED
    BY <1>3 DEF Max
<1>5. NewestOf(d, b) = Max(S)
  BY DEF NewestOf
<1>6. \A a \in A : a.manifest.rev \in S
  OBVIOUS
<1>7. Max(S) = 0 \/ \E a \in A : Max(S) = a.manifest.rev
  BY <1>4
<1> HIDE DEF S
<1>. QED
  BY <1>1, <1>2, <1>4, <1>5, <1>6, <1>7

LEMMA NewestKept ==
    ASSUME IInv, [Next]_vars
    PROVE  Newest' >= Newest
<1>1. IInv /\ IInv' /\ TypeOK /\ TypeOK' /\ Synced /\ Known
  BY NextKeeps DEF IInv
<1>2. /\ dest \in Archive \union {None} /\ backup \in Archive \union {None, Torn}
      /\ dest' \in Archive \union {None} /\ backup' \in Archive \union {None, Torn}
  BY <1>1 DEF TypeOK
<1>3. Newest = NewestOf(dest, backup) /\ Newest' = NewestOf(dest', backup')
  BY DEF Newest, NewestOf
<1>4. ASSUME NEW a \in Archives
      PROVE  \E b \in Archives' : a.manifest.rev <= b.manifest.rev
  <2>1. a.manifest.rev \in Nat
    BY <1>2, Bounds DEF Archives, Archive, Manifest
  <2>2. CASE UNCHANGED <<dest, backup>>
    BY <2>1, <2>2 DEF Archives
  <2>3. CASE backup' \in {None, Torn} /\ dest # None /\ dest' = dest
    <3>1. dest \in Archives' /\ a \in {dest, backup} /\ (a = backup => Whole(backup))
      BY <1>2, <2>3, NoneAssumption DEF Archives, Whole
    <3>. QED
      BY <1>1, <2>1, <2>3, <3>1 DEF Synced
  <2>4. CASE backup # Torn /\ backup' = None /\ dest = None /\ dest' = backup
    BY <2>1, <2>4 DEF Archives
  <2>5. CASE backup = None /\ backup' = dest /\ dest' = None
    BY <2>1, <2>5 DEF Archives
  <2>6. CASE Swaps /\ cli.at = "swapping" /\ dest' = NewArchive
    <3>1. a.manifest.rev <= NewArchive.manifest.rev /\ NewArchive \in Archives'
      BY <1>1, <2>6, SwappedIn DEF Archives, Whole
    <3>. QED
      BY <3>1
  <2>7. CASE Controller \/ Requests \/ ControllerStopped \/ UNCHANGED vars
    <3>1. UNCHANGED <<dest, backup>>
      BY <2>7
         DEF Controller, Requests, ControllerStopped, Starts, TakesRequest, AtTerminal,
             Advances, RemovesPublication, Publishes, KeepsBundle, WritesState, WritesManifest,
             Annotates, Reports, Remote, local, vars
    <3>. QED
      BY <2>2, <3>1
  <2>8. CASE Begins \/ ClientStep \/ ClientStopped
    BY <1>1, <2>2, <2>3, <2>4, <2>5, <2>6, <2>8, Held
  <2>. QED
    BY <2>7, <2>8 DEF Next
<1>. QED
  BY <1>2, <1>3, <1>4, NewestIs DEF Archives

(* A client that stops between the renames of a swap, or while it removes the
   old archive, has lost nothing: the newest archive it ever had is there, or a
   newer one.                                                               *)
THEOREM NewestIsKept == Spec => NothingIsForgotten
<1>1. IInv /\ [Next]_vars => [Newest' >= Newest]_vars
  BY NewestKept
<1>. QED
  BY <1>1, ArchiveInvariant, PTL DEF Spec, NothingIsForgotten

(* campaign-retire deletes a claim only when the local archive is complete and
   is the campaign's last state, or a continuation was accepted after it.   *)
THEOREM NothingIsLostWithTheClaims == Spec => RetiresOnlyArchived
<1> DEFINE A == live' \intersect ToSet(ClaimOrder) # live \intersect ToSet(ClaimOrder) =>
                    /\ dest # None /\ dest.manifest.status = "complete"
                    /\ dest.manifest.rev = control.rev \/ dest.manifest.taken < control.taken
<1>1. ASSUME IInv, Next
      PROVE  A
  <2>1. Deletes \/ UNCHANGED live
    <3>1. Begins \/ ClientStep \/ ClientStopped => Deletes \/ UNCHANGED live
      BY <1>1, ClusterStill DEF IInv
    <3>2. Controller \/ Requests \/ ControllerStopped => UNCHANGED live
      BY DEF Controller, Requests, ControllerStopped, Starts, TakesRequest, AtTerminal,
             Advances, RemovesPublication, Publishes, KeepsBundle, WritesState, WritesManifest,
             Annotates, Reports
    <3>. QED
      BY <1>1, <3>1, <3>2 DEF Next
  <2>2. CASE Deletes
    <3>1. dest # None /\ dest.manifest.status = "complete"
      BY <1>1, <2>2 DEF Deletes, IInv, Synced
    <3>2. dest \in Archives
      BY <1>1, <3>1, NoneAssumption DEF IInv, TypeOK, Archives
    <3>. QED
      BY <1>1, <3>1, <3>2 DEF IInv, Known, Snapshot, Final
  <2>. QED
    BY <2>1, <2>2
<1>2. IInv /\ [Next]_vars => [A]_vars
  BY <1>1
<1> HIDE DEF A
<1>3. Spec => [][A]_vars
  BY <1>2, ArchiveInvariant, PTL DEF Spec
<1>. QED
  BY <1>3 DEF RetiresOnlyArchived, A

=============================================================================
