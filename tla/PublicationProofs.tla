--------------------------- MODULE PublicationProofs ---------------------------
(***************************************************************************)
(* A published trial holds the last version of its files, and from the      *)
(* first publication on there is always a whole one: for any files, limits  *)
(* and numbers of continuations, failures and crashes.                      *)
(***************************************************************************)
EXTENDS ResultPublication, FiniteSetTheorems, TLAPS

(* A Job that lists or copies was started because no copy was there, and has
   removed what was there when it renames.                                   *)
Replacing ==
    /\ job.at \in {"list", "copy", "replace"} => ~Available
    /\ job.at = "rename" => copy = None
    /\ job.at # "absent" => phase \in {"collection", "publishing", "cleanup"}

(* What the Job lists and copies is what the volume holds.                   *)
Collected ==
    /\ job.at \notin {"absent", "list", "failed"} => job.list = CollectionInventory
    /\ job.at = "copy" => fresh # None
    /\ job.at \in {"replace", "rename"} => fresh = job.list
    /\ copy # None => copy = CollectionInventory /\ phase # "running"
    /\ inventory # None /\ gen = 1 => inventory = CollectionInventory /\ phase # "running"
    /\ phase = "publishing" => Available

(* What is selected for publication, and what has become of it.              *)
Selected(f, version) ==
    \/ version = content[f]
    \/ version = Absent /\ MayBeMissing(f)
Publishable ==
    /\ phase # "publishing" => pub.at = "idle"
    /\ pub.at # "idle" => next # None /\ \A f \in Files : Selected(f, pub.selected[f])
    /\ pub.at \in {"record", "remove"} => next.files = pub.selected
    /\ pub.at = "remove" => next.listed
    /\ phase \in {"cleanup", "complete"} =>
            results \in Trees /\ \A f \in Files : Selected(f, results[f])

PubInv == TypeOK /\ Replacing /\ Collected /\ Publishable

USE NoTreeAssumption DEF Trees

LEMMA InventoryTyped == TypeOK => CollectionInventory \in Trees
BY DEF TypeOK, CollectionInventory, Absent

(* The inventory of an unchanged volume is the same, and so is what may be
   missing from it.                                                          *)
LEMMA VolumeKept ==
    ASSUME content' = content, gen' = gen
    PROVE  /\ CollectionInventory' = CollectionInventory
           /\ \A f \in Files : MayBeMissing(f)' = MayBeMissing(f)
BY DEF CollectionInventory, MayBeMissing, Transferred

(* A collected file is the volume's, or may be missing.                      *)
LEMMA InventorySelects ==
    ASSUME NEW f \in Files
    PROVE  Selected(f, CollectionInventory[f])
<1>1. Cardinality(Transferred(content)) \in Nat
  BY FilesAssumption, FS_Subset, FS_CardinalityType DEF Transferred
<1> QED
  BY <1>1, CountsAssumption DEF Selected, CollectionInventory, MayBeMissing

LEMMA InitPublication == Init => PubInv
<1> SUFFICES ASSUME Init PROVE PubInv
  OBVIOUS
<1>1. TypeOK
  <2>1. gen \in 1 .. Continuations + 1 /\ faults \in [job : 0 .. JobFaults + 1, crash : 0 .. Crashes]
    BY CountsAssumption DEF Init
  <2>2. content \in Trees /\ job \in [at : JobPlaces, list : Trees]
    BY DEF Init, NoJob, Empty, Absent, AsStaged, JobPlaces
  <2>3. pub \in [at : {"idle", "copy", "record", "remove"}, selected : Trees]
    BY DEF Init, NoPub, Empty, Absent
  <2> QED
    BY <2>1, <2>2, <2>3 DEF Init, TypeOK
<1>2. Replacing /\ Collected /\ Publishable
  BY DEF Init, Replacing, Collected, Publishable, NoJob, NoPub
<1> QED
  BY <1>1, <1>2 DEF PubInv

(* Steps that leave the volume alone.                                        *)
LEMMA ListsInv == PubInv /\ JobLists => PubInv'
<1> SUFFICES ASSUME PubInv, JobLists PROVE PubInv'
  OBVIOUS
<1> USE DEF JobLists, JobOnly, Runs, Moves, NoJob, trial, collected, published
<1>0. content' = content /\ gen' = gen
  OBVIOUS
<1>1. TypeOK'
  BY InventoryTyped, CountsAssumption DEF PubInv, TypeOK, JobPlaces, Collected, Publishable, Empty, Absent
<1>2. CollectionInventory' = CollectionInventory /\ \A f \in Files : MayBeMissing(f)' = MayBeMissing(f)
  BY <1>0, VolumeKept
<1>3. Replacing'
  BY DEF PubInv, TypeOK, JobPlaces, Replacing, Collected, Available, Publishable
<1>4. Collected'
  <2>1. fresh' \in Trees
    BY InventoryTyped DEF PubInv, TypeOK, Empty, Absent
  <2>2. job'.at = "copy" /\ job'.list = CollectionInventory
    OBVIOUS
  <2>3. UNCHANGED <<copy, inventory, summary, phase, gen>>
    OBVIOUS
  <2>4. fresh' # None
    BY <2>1
  <2> QED
    BY <1>2, <2>2, <2>3, <2>4 DEF PubInv, Collected, Available
<1>5. Publishable'
  BY <1>0, <1>2 DEF PubInv, TypeOK, JobPlaces, Replacing, Collected, Publishable, Selected
<1> QED
  BY <1>1, <1>3, <1>4, <1>5 DEF PubInv

LEMMA CopiesInv == PubInv /\ (\E f \in Files : JobCopies(f)) => PubInv'
<1> SUFFICES ASSUME PubInv, (\E f \in Files : JobCopies(f)) PROVE PubInv'
  OBVIOUS
<1> USE DEF JobCopies, JobOnly, Runs, Moves, NoJob, trial, collected, published
<1>0. content' = content /\ gen' = gen
  OBVIOUS
<1>1. TypeOK'
  BY InventoryTyped, CountsAssumption DEF PubInv, TypeOK, JobPlaces, Collected, Publishable, Empty, Absent
<1>2. CollectionInventory' = CollectionInventory /\ \A f \in Files : MayBeMissing(f)' = MayBeMissing(f)
  BY <1>0, VolumeKept
<1>3. Replacing'
  BY DEF PubInv, TypeOK, JobPlaces, Replacing, Collected, Available, Publishable
<1>4. Collected'
  BY <1>1, <1>2, InventoryTyped DEF PubInv, TypeOK, JobPlaces, Replacing, Collected, Available, Publishable
<1>5. Publishable'
  BY <1>0, <1>2 DEF PubInv, TypeOK, JobPlaces, Replacing, Collected, Publishable, Selected
<1> QED
  BY <1>1, <1>3, <1>4, <1>5 DEF PubInv

LEMMA VerifiesInv == PubInv /\ JobVerifies => PubInv'
<1> SUFFICES ASSUME PubInv, JobVerifies PROVE PubInv'
  OBVIOUS
<1> USE DEF JobVerifies, JobOnly, Runs, Moves, NoJob, trial, collected, published
<1>0. content' = content /\ gen' = gen
  OBVIOUS
<1>1. TypeOK'
  BY InventoryTyped, CountsAssumption DEF PubInv, TypeOK, JobPlaces, Collected, Publishable, Empty, Absent
<1>2. CollectionInventory' = CollectionInventory /\ \A f \in Files : MayBeMissing(f)' = MayBeMissing(f)
  BY <1>0, VolumeKept
<1>3. Replacing'
  BY DEF PubInv, TypeOK, JobPlaces, Replacing, Collected, Available, Publishable
<1>4. Collected'
  BY <1>1, <1>2, InventoryTyped DEF PubInv, TypeOK, JobPlaces, Replacing, Collected, Available, Publishable
<1>5. Publishable'
  BY <1>0, <1>2 DEF PubInv, TypeOK, JobPlaces, Replacing, Collected, Publishable, Selected
<1> QED
  BY <1>1, <1>3, <1>4, <1>5 DEF PubInv

LEMMA RemovesCopyInv == PubInv /\ JobRemoves => PubInv'
<1> SUFFICES ASSUME PubInv, JobRemoves PROVE PubInv'
  OBVIOUS
<1> USE DEF JobRemoves, JobOnly, Runs, Moves, NoJob, trial, collected, published
<1>0. content' = content /\ gen' = gen
  OBVIOUS
<1>1. TypeOK'
  BY InventoryTyped, CountsAssumption DEF PubInv, TypeOK, JobPlaces, Collected, Publishable, Empty, Absent
<1>2. CollectionInventory' = CollectionInventory /\ \A f \in Files : MayBeMissing(f)' = MayBeMissing(f)
  BY <1>0, VolumeKept
<1>3. Replacing'
  BY DEF PubInv, TypeOK, JobPlaces, Replacing, Collected, Available, Publishable
<1>4. Collected'
  BY <1>1, <1>2, InventoryTyped DEF PubInv, TypeOK, JobPlaces, Replacing, Collected, Available, Publishable
<1>5. Publishable'
  BY <1>0, <1>2 DEF PubInv, TypeOK, JobPlaces, Replacing, Collected, Publishable, Selected
<1> QED
  BY <1>1, <1>3, <1>4, <1>5 DEF PubInv

LEMMA RenamesInv == PubInv /\ JobRenames => PubInv'
<1> SUFFICES ASSUME PubInv, JobRenames PROVE PubInv'
  OBVIOUS
<1> USE DEF JobRenames, JobOnly, Runs, Moves, NoJob, trial, collected, published
<1>0. content' = content /\ gen' = gen
  OBVIOUS
<1>1. TypeOK'
  BY InventoryTyped, CountsAssumption DEF PubInv, TypeOK, JobPlaces, Collected, Publishable, Empty, Absent
<1>2. CollectionInventory' = CollectionInventory /\ \A f \in Files : MayBeMissing(f)' = MayBeMissing(f)
  BY <1>0, VolumeKept
<1>3. Replacing'
  BY DEF PubInv, TypeOK, JobPlaces, Replacing, Collected, Available, Publishable
<1>4. Collected'
  BY <1>1, <1>2, InventoryTyped DEF PubInv, TypeOK, JobPlaces, Replacing, Collected, Available, Publishable
<1>5. Publishable'
  BY <1>0, <1>2 DEF PubInv, TypeOK, JobPlaces, Replacing, Collected, Publishable, Selected
<1> QED
  BY <1>1, <1>3, <1>4, <1>5 DEF PubInv

LEMMA InventoryInv == PubInv /\ JobWritesInventory => PubInv'
<1> SUFFICES ASSUME PubInv, JobWritesInventory PROVE PubInv'
  OBVIOUS
<1> USE DEF JobWritesInventory, JobOnly, Runs, Moves, NoJob, trial, collected, published
<1>0. content' = content /\ gen' = gen
  OBVIOUS
<1>1. TypeOK'
  BY InventoryTyped, CountsAssumption DEF PubInv, TypeOK, JobPlaces, Collected, Publishable, Empty, Absent
<1>2. CollectionInventory' = CollectionInventory /\ \A f \in Files : MayBeMissing(f)' = MayBeMissing(f)
  BY <1>0, VolumeKept
<1>3. Replacing'
  BY DEF PubInv, TypeOK, JobPlaces, Replacing, Collected, Available, Publishable
<1>4. Collected'
  BY <1>1, <1>2, InventoryTyped DEF PubInv, TypeOK, JobPlaces, Replacing, Collected, Available, Publishable
<1>5. Publishable'
  BY <1>0, <1>2 DEF PubInv, TypeOK, JobPlaces, Replacing, Collected, Publishable, Selected
<1> QED
  BY <1>1, <1>3, <1>4, <1>5 DEF PubInv

LEMMA SummaryInv == PubInv /\ JobWritesSummary => PubInv'
<1> SUFFICES ASSUME PubInv, JobWritesSummary PROVE PubInv'
  OBVIOUS
<1> USE DEF JobWritesSummary, JobOnly, Runs, Moves, NoJob, trial, collected, published
<1>0. content' = content /\ gen' = gen
  OBVIOUS
<1>1. TypeOK'
  BY InventoryTyped, CountsAssumption DEF PubInv, TypeOK, JobPlaces, Collected, Publishable, Empty, Absent
<1>2. CollectionInventory' = CollectionInventory /\ \A f \in Files : MayBeMissing(f)' = MayBeMissing(f)
  BY <1>0, VolumeKept
<1>3. Replacing'
  BY DEF PubInv, TypeOK, JobPlaces, Replacing, Collected, Available, Publishable
<1>4. Collected'
  BY <1>1, <1>2, InventoryTyped DEF PubInv, TypeOK, JobPlaces, Replacing, Collected, Available, Publishable
<1>5. Publishable'
  BY <1>0, <1>2 DEF PubInv, TypeOK, JobPlaces, Replacing, Collected, Publishable, Selected
<1> QED
  BY <1>1, <1>3, <1>4, <1>5 DEF PubInv

LEMMA JobFailsInv == PubInv /\ JobFails => PubInv'
<1> SUFFICES ASSUME PubInv, JobFails PROVE PubInv'
  OBVIOUS
<1> USE DEF JobFails, JobOnly, Runs, Moves, NoJob, trial, collected, published
<1>0. content' = content /\ gen' = gen
  OBVIOUS
<1>1. TypeOK'
  BY InventoryTyped, CountsAssumption DEF PubInv, TypeOK, JobPlaces, Collected, Publishable, Empty, Absent
<1>2. CollectionInventory' = CollectionInventory /\ \A f \in Files : MayBeMissing(f)' = MayBeMissing(f)
  BY <1>0, VolumeKept
<1>3. Replacing'
  BY DEF PubInv, TypeOK, JobPlaces, Replacing, Collected, Available, Publishable
<1>4. Collected'
  BY <1>1, <1>2, InventoryTyped DEF PubInv, TypeOK, JobPlaces, Replacing, Collected, Available, Publishable
<1>5. Publishable'
  BY <1>0, <1>2 DEF PubInv, TypeOK, JobPlaces, Replacing, Collected, Publishable, Selected
<1> QED
  BY <1>1, <1>3, <1>4, <1>5 DEF PubInv

LEMMA CollectInv == PubInv /\ Collect => PubInv'
<1> SUFFICES ASSUME PubInv, Collect PROVE PubInv'
  OBVIOUS
<1> USE DEF Collect, Collecting, FindsCollection, SubmitsJob, FindsJobFailed, JobOnly, Runs, Moves, NoJob, trial, collected, published
<1>0. content' = content /\ gen' = gen
  OBVIOUS
<1>1. TypeOK'
  BY InventoryTyped, CountsAssumption DEF PubInv, TypeOK, JobPlaces, Collected, Publishable, Empty, Absent
<1>2. CollectionInventory' = CollectionInventory /\ \A f \in Files : MayBeMissing(f)' = MayBeMissing(f)
  BY <1>0, VolumeKept
<1>3. Replacing'
  BY DEF PubInv, TypeOK, JobPlaces, Replacing, Collected, Available, Publishable
<1>4. Collected'
  BY <1>1, <1>2, InventoryTyped DEF PubInv, TypeOK, JobPlaces, Replacing, Collected, Available, Publishable
<1>5. Publishable'
  BY <1>0, <1>2 DEF PubInv, TypeOK, JobPlaces, Replacing, Collected, Publishable, Selected
<1> QED
  BY <1>1, <1>3, <1>4, <1>5 DEF PubInv

LEMMA SelectsInv == PubInv /\ Selects => PubInv'
<1> SUFFICES ASSUME PubInv, Selects PROVE PubInv'
  OBVIOUS
<1> USE DEF Selects, Partial, PublisherOnly, Publishing, NoPub, trial, collected, published
<1>0. content' = content /\ gen' = gen
  OBVIOUS
<1>a. copy = CollectionInventory /\ copy \in Trees /\ inventory \in Trees
  BY InventoryTyped DEF PubInv, TypeOK, Collected, Available
<1>b. pub'.at = "copy" /\ pub'.selected = [f \in Files |-> IF Omitted(f) THEN Absent ELSE copy[f]]
  OBVIOUS
<1>c. next' \in [files : Trees, listed : BOOLEAN]
  BY DEF PubInv, TypeOK, Empty, Absent
<1>1. TypeOK'
  <2>1. pub' \in [at : {"idle", "copy", "record", "remove"}, selected : Trees]
    BY <1>a DEF Absent
  <2>2. UNCHANGED <<content, gen, phase, copy, fresh, inventory, summary, job, results, faults>>
    OBVIOUS
  <2> QED
    BY <2>1, <2>2, <1>c DEF PubInv, TypeOK
<1>2. CollectionInventory' = CollectionInventory /\ \A f \in Files : MayBeMissing(f)' = MayBeMissing(f)
  BY <1>0, VolumeKept
<1>3. Replacing'
  BY DEF PubInv, TypeOK, JobPlaces, Replacing, Collected, Available, Publishable
<1>4. Collected'
  BY <1>1, <1>2, InventoryTyped DEF PubInv, TypeOK, JobPlaces, Replacing, Collected, Available, Publishable
<1>5. Publishable'
  <2>1. ASSUME NEW f \in Files, Omitted(f)
        PROVE  MayBeMissing(f)
    <3>1. f \in Staged /\ inventory[f] = AsStaged
      BY <2>1 DEF Omitted
    <3>2. ASSUME gen = 1
          PROVE  content[f] = AsStaged
      BY <3>1, <3>2, <1>a, InventorySelects DEF PubInv, Collected, Selected, Absent, AsStaged
    <3>3. gen = 1 \/ gen > 1
      BY CountsAssumption DEF PubInv, TypeOK
    <3> QED
      BY <3>1, <3>2, <3>3 DEF MayBeMissing
  <2>2. ASSUME NEW f \in Files
        PROVE  Selected(f, pub'.selected[f])
    BY <2>1, <1>a, <1>b, InventorySelects DEF Selected
  <2>3. (\A f \in Files : Selected(f, pub.selected[f]))'
    BY <1>0, <1>2, <2>2 DEF Selected
  <2>4. next' # None
    BY <1>c
  <2> QED
    BY <2>3, <2>4, <1>b DEF PubInv, Publishable
<1> QED
  BY <1>1, <1>3, <1>4, <1>5 DEF PubInv

LEMMA PublishesInv == PubInv /\ (\E f \in Files : Publishes(f)) => PubInv'
<1> SUFFICES ASSUME PubInv, (\E f \in Files : Publishes(f)) PROVE PubInv'
  OBVIOUS
<1> USE DEF Publishes, PublisherOnly, Publishing, NoPub, trial, collected, published
<1>0. content' = content /\ gen' = gen
  OBVIOUS
<1>1. TypeOK'
  BY InventoryTyped, CountsAssumption DEF PubInv, TypeOK, JobPlaces, Collected, Publishable, Empty, Absent
<1>2. CollectionInventory' = CollectionInventory /\ \A f \in Files : MayBeMissing(f)' = MayBeMissing(f)
  BY <1>0, VolumeKept
<1>3. Replacing'
  BY DEF PubInv, TypeOK, JobPlaces, Replacing, Collected, Available, Publishable
<1>4. Collected'
  BY <1>1, <1>2, InventoryTyped DEF PubInv, TypeOK, JobPlaces, Replacing, Collected, Available, Publishable
<1>5. Publishable'
  BY <1>0, <1>2 DEF PubInv, TypeOK, JobPlaces, Replacing, Collected, Publishable, Selected
<1> QED
  BY <1>1, <1>3, <1>4, <1>5 DEF PubInv

LEMMA PrunesInv == PubInv /\ Prunes => PubInv'
<1> SUFFICES ASSUME PubInv, Prunes PROVE PubInv'
  OBVIOUS
<1> USE DEF Prunes, PublisherOnly, Publishing, NoPub, trial, collected, published
<1>0. content' = content /\ gen' = gen
  OBVIOUS
<1>1. TypeOK'
  BY InventoryTyped, CountsAssumption DEF PubInv, TypeOK, JobPlaces, Collected, Publishable, Empty, Absent
<1>2. CollectionInventory' = CollectionInventory /\ \A f \in Files : MayBeMissing(f)' = MayBeMissing(f)
  BY <1>0, VolumeKept
<1>3. Replacing'
  BY DEF PubInv, TypeOK, JobPlaces, Replacing, Collected, Available, Publishable
<1>4. Collected'
  BY <1>1, <1>2, InventoryTyped DEF PubInv, TypeOK, JobPlaces, Replacing, Collected, Available, Publishable
<1>5. Publishable'
  BY <1>0, <1>2 DEF PubInv, TypeOK, JobPlaces, Replacing, Collected, Publishable, Selected
<1> QED
  BY <1>1, <1>3, <1>4, <1>5 DEF PubInv

LEMMA RecordsInv == PubInv /\ Records => PubInv'
<1> SUFFICES ASSUME PubInv, Records PROVE PubInv'
  OBVIOUS
<1> USE DEF Records, PublisherOnly, Publishing, NoPub, trial, collected, published
<1>0. content' = content /\ gen' = gen
  OBVIOUS
<1>1. TypeOK'
  BY InventoryTyped, CountsAssumption DEF PubInv, TypeOK, JobPlaces, Collected, Publishable, Empty, Absent
<1>2. CollectionInventory' = CollectionInventory /\ \A f \in Files : MayBeMissing(f)' = MayBeMissing(f)
  BY <1>0, VolumeKept
<1>3. Replacing'
  BY DEF PubInv, TypeOK, JobPlaces, Replacing, Collected, Available, Publishable
<1>4. Collected'
  BY <1>1, <1>2, InventoryTyped DEF PubInv, TypeOK, JobPlaces, Replacing, Collected, Available, Publishable
<1>5. Publishable'
  BY <1>0, <1>2 DEF PubInv, TypeOK, JobPlaces, Replacing, Collected, Publishable, Selected
<1> QED
  BY <1>1, <1>3, <1>4, <1>5 DEF PubInv

LEMMA RemovesInv == PubInv /\ Removes => PubInv'
<1> SUFFICES ASSUME PubInv, Removes PROVE PubInv'
  OBVIOUS
<1> USE DEF Removes, MayRemove, PublisherOnly, Publishing, NoPub, trial, collected, published
<1>0. content' = content /\ gen' = gen
  OBVIOUS
<1>1. TypeOK'
  BY InventoryTyped, CountsAssumption DEF PubInv, TypeOK, JobPlaces, Collected, Publishable, Empty, Absent
<1>2. CollectionInventory' = CollectionInventory /\ \A f \in Files : MayBeMissing(f)' = MayBeMissing(f)
  BY <1>0, VolumeKept
<1>3. Replacing'
  BY DEF PubInv, TypeOK, JobPlaces, Replacing, Collected, Available, Publishable
<1>4. Collected'
  BY <1>1, <1>2, InventoryTyped DEF PubInv, TypeOK, JobPlaces, Replacing, Collected, Available, Publishable
<1>5. Publishable'
  BY <1>0, <1>2 DEF PubInv, TypeOK, JobPlaces, Replacing, Collected, Publishable, Selected
<1> QED
  BY <1>1, <1>3, <1>4, <1>5 DEF PubInv

LEMMA ReplacesInv == PubInv /\ Replaces => PubInv'
<1> SUFFICES ASSUME PubInv, Replaces PROVE PubInv'
  OBVIOUS
<1> USE DEF Replaces, PublisherOnly, Publishing, NoPub, trial, collected, published
<1>0. content' = content /\ gen' = gen
  OBVIOUS
<1>1. TypeOK'
  BY InventoryTyped, CountsAssumption DEF PubInv, TypeOK, JobPlaces, Collected, Publishable, Empty, Absent
<1>2. CollectionInventory' = CollectionInventory /\ \A f \in Files : MayBeMissing(f)' = MayBeMissing(f)
  BY <1>0, VolumeKept
<1>3. Replacing'
  BY DEF PubInv, TypeOK, JobPlaces, Replacing, Collected, Available, Publishable
<1>4. Collected'
  BY <1>1, <1>2, InventoryTyped DEF PubInv, TypeOK, JobPlaces, Replacing, Collected, Available, Publishable
<1>5. Publishable'
  BY <1>0, <1>2 DEF PubInv, TypeOK, JobPlaces, Replacing, Collected, Publishable, Selected
<1> QED
  BY <1>1, <1>3, <1>4, <1>5 DEF PubInv

LEMMA StopsInv == PubInv /\ PublicationStops => PubInv'
<1> SUFFICES ASSUME PubInv, PublicationStops PROVE PubInv'
  OBVIOUS
<1> USE DEF PublicationStops, PublisherOnly, Publishing, NoPub, trial, collected, published
<1>0. content' = content /\ gen' = gen
  OBVIOUS
<1>1. TypeOK'
  BY InventoryTyped, CountsAssumption DEF PubInv, TypeOK, JobPlaces, Collected, Publishable, Empty, Absent
<1>2. CollectionInventory' = CollectionInventory /\ \A f \in Files : MayBeMissing(f)' = MayBeMissing(f)
  BY <1>0, VolumeKept
<1>3. Replacing'
  BY DEF PubInv, TypeOK, JobPlaces, Replacing, Collected, Available, Publishable
<1>4. Collected'
  BY <1>1, <1>2, InventoryTyped DEF PubInv, TypeOK, JobPlaces, Replacing, Collected, Available, Publishable
<1>5. Publishable'
  BY <1>0, <1>2 DEF PubInv, TypeOK, JobPlaces, Replacing, Collected, Publishable, Selected
<1> QED
  BY <1>1, <1>3, <1>4, <1>5 DEF PubInv

LEMMA CleansUpInv == PubInv /\ CleansUp => PubInv'
<1> SUFFICES ASSUME PubInv, CleansUp PROVE PubInv'
  OBVIOUS
<1> USE DEF CleansUp, NoJob, trial, collected, published
<1>0. content' = content /\ gen' = gen
  OBVIOUS
<1>1. TypeOK'
  BY InventoryTyped, CountsAssumption DEF PubInv, TypeOK, JobPlaces, Collected, Publishable, Empty, Absent
<1>2. CollectionInventory' = CollectionInventory /\ \A f \in Files : MayBeMissing(f)' = MayBeMissing(f)
  BY <1>0, VolumeKept
<1>3. Replacing'
  BY DEF PubInv, TypeOK, JobPlaces, Replacing, Collected, Available, Publishable
<1>4. Collected'
  BY <1>1, <1>2, InventoryTyped DEF PubInv, TypeOK, JobPlaces, Replacing, Collected, Available, Publishable
<1>5. Publishable'
  BY <1>0, <1>2 DEF PubInv, TypeOK, JobPlaces, Replacing, Collected, Publishable, Selected
<1> QED
  BY <1>1, <1>3, <1>4, <1>5 DEF PubInv

(* A workload only runs while nothing is collected or published.             *)
LEMMA WorkloadInv == PubInv /\ WorkloadEnds => PubInv'
<1> SUFFICES ASSUME PubInv, WorkloadEnds PROVE PubInv'
  OBVIOUS
<1> USE DEF WorkloadEnds, collected, published
<1>1. job.at = "absent" /\ copy = None /\ pub.at = "idle" /\ (gen = 1 => inventory = None)
  BY DEF PubInv, Replacing, Collected, Publishable
<1>2. TypeOK'
  <2>1. content' \in Trees
    BY CountsAssumption DEF PubInv, TypeOK, Absent
  <2> QED
    BY <2>1 DEF PubInv, TypeOK
<1>3. Replacing' /\ Collected'
  BY <1>1 DEF PubInv, Replacing, Collected, Available
<1>4. Publishable'
  BY <1>1 DEF Publishable
<1> QED
  BY <1>2, <1>3, <1>4 DEF PubInv

LEMMA ContinuesInv == PubInv /\ Continues => PubInv'
<1> SUFFICES ASSUME PubInv, Continues PROVE PubInv'
  OBVIOUS
<1> USE DEF Continues, published
<1>1. job.at = "absent" /\ pub.at = "idle"
  BY DEF PubInv, TypeOK, JobPlaces, Replacing, Publishable
<1>2. TypeOK' /\ gen' # 1
  BY CountsAssumption DEF PubInv, TypeOK
<1>3. Replacing' /\ Collected'
  BY <1>1, <1>2 DEF Replacing, Collected, Available
<1>4. Publishable'
  BY <1>1 DEF Publishable
<1> QED
  BY <1>2, <1>3, <1>4 DEF PubInv

LEMMA NextInv == PubInv /\ [Next]_vars => PubInv'
<1> SUFFICES ASSUME PubInv, [Next]_vars PROVE PubInv'
  OBVIOUS
<1>1. CASE Job
  BY <1>1, ListsInv, CopiesInv, VerifiesInv, RemovesCopyInv, RenamesInv, InventoryInv, SummaryInv DEF Job
<1>2. CASE Publish
  BY <1>2, SelectsInv, PublishesInv, PrunesInv, RecordsInv, RemovesInv, ReplacesInv DEF Publish
<1>3. CASE UNCHANGED vars
  <2>1. UNCHANGED <<content, gen, phase, copy, fresh, inventory, summary, job, results, next, pub, faults>>
    BY <1>3 DEF vars, trial, collected, published
  <2>2. CollectionInventory' = CollectionInventory /\ \A f \in Files : MayBeMissing(f)' = MayBeMissing(f)
    BY <2>1, VolumeKept
  <2> QED
    BY <2>1, <2>2 DEF PubInv, TypeOK, Replacing, Collected, Available, Publishable, Selected
<1> QED
  BY <1>1, <1>2, <1>3, WorkloadInv, JobFailsInv, CollectInv, StopsInv, CleansUpInv, ContinuesInv DEF Next

(* In every reachable state the collection Job replaces only a copy that is not
   available, it and its copy hold what the volume holds, and what a publication
   selects, stages and leaves behind is what the workload left or may be missing
   (_collect_copy, publish_trial_results).                                    *)
THEOREM PublicationInvariant == Spec => []PubInv
<1> QED
  BY InitPublication, NextInv, PTL DEF Spec

(* What is published of a complete trial is current: each file as the workload
   left it, unless the challenge has it or only diagnostics were collected
   (publish_trial_results over _collect_copy and KubernetesBackend.collect).  *)
THEOREM CurrentResults == Spec => []PublishedIsCurrent
<1>1. PubInv => PublishedIsCurrent
  BY DEF PubInv, Publishable, PublishedIsCurrent, Selected
<1> QED
  BY <1>1, PublicationInvariant, PTL

(* A whole publication is only removed when the next one is whole beside it.  *)
LEMMA WholeKept ==
    ASSUME PubInv, [Next]_vars, results \notin {None, Torn} \/ (next # None /\ next.listed)
    PROVE  results' \notin {None, Torn} \/ (next' # None /\ next'.listed)
<1> DEFINE Whole == results \notin {None, Torn} \/ (next # None /\ next.listed)
<1>1. ASSUME UNCHANGED published
      PROVE  Whole'
  BY <1>1 DEF published
<1>2. ASSUME NEW f \in Files, Publishes(f)
      PROVE  Whole'
  BY <1>2 DEF Publishes, Publishing, PubInv, TypeOK, Publishable
<1>3. ASSUME Selects
      PROVE  Whole'
  BY <1>3 DEF Selects
<1>4. ASSUME Prunes \/ Records
      PROVE  Whole'
  <2>1. next \in [files : Trees, listed : BOOLEAN] /\ pub.selected \in Trees
    BY <1>4 DEF Prunes, Records, Publishing, PubInv, TypeOK, Publishable
  <2>2. next' \in [files : Trees, listed : BOOLEAN] /\ (next.listed => next'.listed)
    BY <1>4, <2>1 DEF Prunes, Records
  <2> QED
    BY <1>4, <2>1, <2>2 DEF Prunes, Records, PublisherOnly
<1>5. ASSUME Removes
      PROVE  Whole'
  BY <1>5 DEF Removes, MayRemove, PubInv, TypeOK, Publishable
<1>6. ASSUME Replaces
      PROVE  Whole'
  BY <1>6 DEF Replaces, Publishing, PubInv, TypeOK, Publishable
<1>7. ASSUME PublicationStops
      PROVE  Whole'
  BY <1>7 DEF PublicationStops, PubInv, TypeOK, Publishable
<1>8. WorkloadEnds \/ Job \/ JobFails \/ Collect \/ CleansUp \/ Continues => UNCHANGED published
  BY DEF WorkloadEnds, Job, JobLists, JobVerifies, JobRemoves, JobRenames, JobWritesInventory,
         JobWritesSummary, JobCopies, JobOnly, JobFails, Collect, FindsCollection, SubmitsJob,
         FindsJobFailed, Collecting, CleansUp, Continues, published
<1> QED
  BY <1>1, <1>2, <1>3, <1>4, <1>5, <1>6, <1>7, <1>8 DEF Next, Publish, vars

(* Once a trial was published, a whole publication of it is on the results
   volume, in place or as the .partial beside it, through every crash.        *)
THEOREM PublicationStands == Spec => PublicationSurvives
<1>1. PubInv /\ [Next]_vars =>
        [(results \notin {None, Torn} \/ (next # None /\ next.listed)) =>
         (results' \notin {None, Torn} \/ (next' # None /\ next'.listed))]_vars
  BY WholeKept
<1> QED
  BY <1>1, PublicationInvariant, PTL DEF Spec, PublicationSurvives

-----------------------------------------------------------------------------
(* The publication as a step of custody: CampaignEngine publishes a trial in
   one step, TrialCustody lets a trial go on to the cleanup only when its
   record is up to date, and what happens on the volumes in between keeps that
   promise.  The trial starts here where custody has launched it.             *)
RecordIsCurrent == results \in Trees /\ \A f \in Files : Selected(f, results[f])
StageOf == [running |-> "executing", collection |-> "collecting", publishing |-> "publishing",
            cleanup |-> "cleaning", complete |-> "closed", failed |-> "stuck"]
Custody == INSTANCE TrialCustody WITH
    Subjects <- {"trial"},
    stage    <- [t \in {"trial"} |-> StageOf[phase]],
    storage  <- [t \in {"trial"} |-> "held"],
    recorded <- [t \in {"trial"} |-> RecordIsCurrent]

Stays == phase' = phase
Kept == RecordIsCurrent' <=> RecordIsCurrent

(* A volume and results that stay keep the record as current as it was.       *)
LEMMA RecordKept ==
    ASSUME content' = content, gen' = gen, results' = results
    PROVE  Kept
BY VolumeKept DEF Kept, RecordIsCurrent, Selected

(* Only the steps of the workload, the poll and the publication move a trial.  *)
LEMMA OthersKeepCustody ==
    ASSUME Job \/ JobFails \/ UNCHANGED vars
    PROVE  Stays /\ Kept
<1>1. UNCHANGED <<content, gen, phase, results>>
  BY DEF Job, JobLists, JobVerifies, JobRemoves, JobRenames, JobWritesInventory,
         JobWritesSummary, JobCopies, JobOnly, JobFails, vars, trial, published
<1>. QED
  BY <1>1, RecordKept DEF Stays

(* What every step does to the stage and to the record.                       *)
LEMMA PublicationMoves ==
    ASSUME PubInv, [Next]_vars
    PROVE  \/ Stays /\ Kept
           \/ phase = "running" /\ phase' = "collection"
           \/ phase = "publishing" /\ phase' = "publishing"
           \/ phase = "publishing" /\ phase' = "cleanup" /\ RecordIsCurrent'
           \/ phase = "collection" /\ phase' \in {"publishing", "failed"} /\ Kept
           \/ phase = "cleanup" /\ phase' = "complete" /\ Kept
           \/ phase = "complete" /\ phase' = "running" /\ Kept
<1>1. CASE WorkloadEnds
  BY <1>1 DEF WorkloadEnds
<1>2. CASE Collect
  <2>1. Kept
    BY <1>2, RecordKept DEF Collect, FindsCollection, SubmitsJob, FindsJobFailed, Collecting, trial, published
  <2>. QED
    BY <1>2, <2>1 DEF Collect, FindsCollection, SubmitsJob, FindsJobFailed, Collecting, Stays
<1>3. CASE Replaces
  <2>1. PubInv' /\ phase = "publishing" /\ phase' = "cleanup"
    BY <1>3, ReplacesInv DEF Replaces, Publishing
  <2>. QED
    BY <2>1 DEF PubInv, Publishable, RecordIsCurrent
<1>4. CASE Publish /\ ~Replaces
  BY <1>4 DEF Publish, Selects, Publishes, Prunes, Records, Removes, Publishing
<1>5. CASE PublicationStops
  BY <1>5 DEF PublicationStops
<1>6. CASE CleansUp
  BY <1>6, RecordKept DEF CleansUp, trial, published
<1>7. CASE Continues
  <2>1. RecordIsCurrent
    BY <1>7 DEF Continues, PubInv, Publishable, RecordIsCurrent
  <2>2. \A f \in Files : MayBeMissing(f) => MayBeMissing(f)'
    <3>1. gen > 1 => gen' > 1
      BY <1>7 DEF Continues, PubInv, TypeOK
    <3>. QED
      BY <1>7, <3>1 DEF Continues, MayBeMissing, Transferred
  <2>3. RecordIsCurrent'
    BY <1>7, <2>1, <2>2 DEF Continues, RecordIsCurrent, Selected, published
  <2>. QED
    BY <1>7, <2>1, <2>3 DEF Continues, Kept
<1>. QED
  BY <1>1, <1>2, <1>3, <1>4, <1>5, <1>6, <1>7, OthersKeepCustody DEF Next

(* The collection, the publication with its crashes, and the continuation of a
   trial only do what its custody allows: a trial whose publication was torn or
   is not whole does not get to the cleanup (publish_trial_results).          *)
THEOREM PublicationKeepsCustody == Spec => [][Custody!CustodyNext]_(Custody!custody)
<1>1. PubInv /\ [Next]_vars => Custody!CustodyNext
  <2> SUFFICES ASSUME PubInv, [Next]_vars, NEW t \in {"trial"}
               PROVE  Custody!Step(t) \/ (Custody!Stays(t) /\ Custody!Held(t) /\ Custody!Kept(t))
    BY DEF Custody!CustodyNext
  <2>1. Custody!Held(t)
    BY DEF Custody!Held
  <2>2. Stays => Custody!Stays(t)
    BY DEF Stays, Custody!Stays
  <2>3. Kept => Custody!Kept(t)
    <3>1. RecordIsCurrent \in BOOLEAN /\ RecordIsCurrent' \in BOOLEAN
      BY DEF RecordIsCurrent
    <3>2. Kept => RecordIsCurrent' = RecordIsCurrent
      BY <3>1 DEF Kept
    <3>. QED
      BY <3>2 DEF Custody!Kept
  <2>4. ASSUME NEW from, NEW to, StageOf[phase] \in from, StageOf[phase'] = to, Kept
        PROVE  Custody!Moves(t, from, to)
    BY <2>1, <2>3, <2>4 DEF Custody!Moves
  <2>5. CASE phase = "running" /\ phase' = "collection"
    BY <2>1, <2>5 DEF Custody!Step, Custody!Change, StageOf
  <2>6. CASE phase = "publishing" /\ phase' = "publishing"
    BY <2>1, <2>6 DEF Custody!Step, Custody!Record, StageOf
  <2>7. CASE phase = "publishing" /\ phase' = "cleanup" /\ RecordIsCurrent'
    BY <2>1, <2>7 DEF Custody!Step, Custody!Record, StageOf
  <2>8. CASE phase = "collection" /\ phase' \in {"publishing", "failed"} /\ Kept
    BY <2>4, <2>8 DEF Custody!Step, Custody!Advance, Custody!Stages, StageOf
  <2>9. CASE phase = "cleanup" /\ phase' = "complete" /\ Kept
    BY <2>4, <2>9 DEF Custody!Step, Custody!Advance, StageOf
  <2>10. CASE phase = "complete" /\ phase' = "running" /\ Kept
    BY <2>4, <2>10 DEF Custody!Step, Custody!Advance, StageOf
  <2>. QED
    BY <2>1, <2>2, <2>3, <2>5, <2>6, <2>7, <2>8, <2>9, <2>10, PublicationMoves
<1>. QED
  BY <1>1, PublicationInvariant, PTL DEF Spec

=============================================================================
