-------------------------- MODULE ExpfsStoreProofs --------------------------
(***************************************************************************)
(* Proofs about ExpfsStore for every disk layout, every set of snapshots   *)
(* and every encoded size: the active slot is never damaged, the store     *)
(* implements the atomic SnapshotStore, and the baseline is immutable.     *)
(***************************************************************************)
EXTENDS ExpfsStore, TLAPS

-----------------------------------------------------------------------------
(* The inductive invariant.                                                *)

\* Sectors of the two current slots carry generations, and no sector has the
\* legacy format: a blank disk is never given legacy contents.
DiskOK(d) ==
    /\ d \in [0..(DiskSectors - 1) -> SectorType \cup {Blank}]
    /\ \A lba \in 0..(DiskSectors - 1) : d[lba].version # 2
    /\ \A lba \in 0..(CHECKPOINT_LBA - 1) : d[lba].tag \in Generations

\* Where the write in progress may land.
JobInv ==
    /\ phase = "off" => job = Idle
    /\ job.op \in {"commit", "restore"} =>
         /\ job.slot = 1 - store.active_slot
         /\ job.base = slot_lba(job.slot)
         /\ job.tag = NextGeneration
    /\ job.op = "checkpoint" =>
         job.slot \in Checkpoints /\ job.base = checkpoint_lba(job.slot)
    /\ job.op = "baseline" => job.base = BASELINE_LBA

IInv == TypeOK /\ DiskOK(disk) /\ JobInv /\ ActiveIntact

-----------------------------------------------------------------------------
(* The layout.                                                             *)

LEMMA LayoutFacts ==
    /\ SLOT_A_LBA = 0 /\ SLOT_B_LBA = SLOT_SECTORS
    /\ CHECKPOINT_LBA = 2 * SLOT_SECTORS
    /\ BASELINE_LBA \in Nat /\ BASELINE_LBA >= CHECKPOINT_LBA + SLOT_SECTORS
    /\ DiskSectors = BASELINE_LBA + SLOT_SECTORS
    /\ SLOT_SECTORS \in Nat /\ SLOT_SECTORS > 1
    /\ LEGACY_BASELINE_LBA \in Nat
<1>1. CHECKPOINT_CAPACITY * SLOT_SECTORS \in Nat
      /\ CHECKPOINT_CAPACITY * SLOT_SECTORS >= SLOT_SECTORS
      /\ CHECKPOINT_CAPACITY * LEGACY_SLOT_SECTORS \in Nat
  BY LayoutAssumption
<1> QED
  BY <1>1, LayoutAssumption
     DEF SLOT_A_LBA, SLOT_B_LBA, CHECKPOINT_LBA, BASELINE_LBA, DiskSectors,
         LEGACY_BASELINE_LBA, LEGACY_CHECKPOINT_LBA, LEGACY_SLOT_B_LBA

\* The checkpoint ring lies between the current slots and the baseline.
LEMMA CheckpointPlace ==
    ASSUME NEW index \in Checkpoints
    PROVE  /\ checkpoint_lba(index) \in Nat
           /\ checkpoint_lba(index) >= CHECKPOINT_LBA
           /\ checkpoint_lba(index) + SLOT_SECTORS <= BASELINE_LBA
<1>1. /\ index \in Nat /\ index + 1 <= CHECKPOINT_CAPACITY
      /\ index * SLOT_SECTORS \in Nat
  BY LayoutAssumption DEF Checkpoints
<1>2. (index + 1) * SLOT_SECTORS <= CHECKPOINT_CAPACITY * SLOT_SECTORS
  BY <1>1, LayoutAssumption
<1>3. (index + 1) * SLOT_SECTORS = index * SLOT_SECTORS + SLOT_SECTORS
  BY <1>1, LayoutAssumption
<1> QED
  BY <1>1, <1>2, <1>3, LayoutFacts, LayoutAssumption
     DEF checkpoint_lba, BASELINE_LBA

LEMMA LegacyPlace ==
    /\ \A index \in Checkpoints : legacy_checkpoint_lba(index) \in 0..(DiskSectors - 1)
    /\ LEGACY_BASELINE_LBA \in 0..(DiskSectors - 1)
<1>1. ASSUME NEW index \in Checkpoints
      PROVE  legacy_checkpoint_lba(index) \in 0..(DiskSectors - 1)
  <2>1. /\ index * LEGACY_SLOT_SECTORS \in Nat
        /\ index * LEGACY_SLOT_SECTORS <= index * SLOT_SECTORS
        /\ index * SLOT_SECTORS \in Nat
    BY LayoutAssumption DEF Checkpoints
  <2> QED
    BY <2>1, CheckpointPlace, LayoutFacts, LayoutAssumption
       DEF legacy_checkpoint_lba, LEGACY_CHECKPOINT_LBA, LEGACY_SLOT_B_LBA,
           checkpoint_lba
<1>2. /\ CHECKPOINT_CAPACITY * LEGACY_SLOT_SECTORS <= CHECKPOINT_CAPACITY * SLOT_SECTORS
      /\ CHECKPOINT_CAPACITY * SLOT_SECTORS \in Nat
      /\ CHECKPOINT_CAPACITY * LEGACY_SLOT_SECTORS \in Nat
  BY LayoutAssumption
<1>3. LEGACY_BASELINE_LBA \in 0..(DiskSectors - 1)
  BY <1>2, LayoutFacts, LayoutAssumption
     DEF LEGACY_BASELINE_LBA, LEGACY_CHECKPOINT_LBA, LEGACY_SLOT_B_LBA, BASELINE_LBA
<1> QED  BY <1>1, <1>3

LEMMA SectorIndexRange ==
    ASSUME NEW sectors \in Nat \ {0}, NEW step \in Nat
    PROVE  SectorIndex(step, sectors) \in 0..(sectors - 1)
BY DEF SectorIndex

\* The header is the last sector written and no other.
LEMMA HeaderLast ==
    ASSUME NEW sectors \in Nat \ {0}, NEW step \in 0..(sectors - 1),
           SectorIndex(step, sectors) = 0
    PROVE  step + 1 = sectors
BY DEF SectorIndex

\* Reading a region depends on no sector outside the slot.
LEMMA ReadAtFrame ==
    ASSUME NEW d, NEW e, NEW base \in Nat,
           d[base] \in SectorType \cup {Blank},
           \A i \in 0..(SLOT_SECTORS - 1) : d[base + i] = e[base + i]
    PROVE  read_at(d, base) = read_at(e, base)
<1>1. d[base] = e[base]
  <2>1. 0 \in 0..(SLOT_SECTORS - 1) /\ base + 0 = base
    BY LayoutAssumption
  <2> QED  BY <2>1
<1>2. ASSUME d[base].version # 0,
             NEW i \in 1..(SectorCount(d[base].snap, d[base].version) - 1)
      PROVE  d[base + i] = e[base + i]
  <2>1. d[base] \in SectorType
    BY <1>2 DEF Blank
  <2>2. SectorCount(d[base].snap, d[base].version) \in 1..SLOT_SECTORS
    BY <2>1, LayoutAssumption, SnapshotAssumption DEF SectorType, SectorCount
  <2>3. i \in 0..(SLOT_SECTORS - 1)
    BY <2>2, LayoutAssumption
  <2> QED  BY <2>3
<1>3. decode_slot(d, base) <=> decode_slot(e, base)
  BY <1>1, <1>2 DEF decode_slot
<1> QED
  BY <1>1, <1>3 DEF read_at

-----------------------------------------------------------------------------
(* One sector write.                                                       *)

LEMMA NextGenerationType ==
    ASSUME store.generation \in Generations
    PROVE  NextGeneration \in Generations \ {0}
BY CounterAssumption DEF Generations, NextGeneration

LEMMA JobFacts ==
    ASSUME IInv, job # Idle, job.step < JobSectors
    PROVE  /\ job \in JobType
           /\ JobSectors \in 1..SLOT_SECTORS
           /\ SectorIndex(job.step, JobSectors) \in 0..(JobSectors - 1)
           /\ phase # "off"
           /\ job.op \in {"commit", "restore"} =>
                /\ job.base = slot_lba(1 - store.active_slot)
                /\ job.tag \in Generations
           /\ job.op \notin {"commit", "restore"} =>
                /\ job.base >= CHECKPOINT_LBA
                /\ job.base + SLOT_SECTORS <= DiskSectors
<1>1. job \in JobType /\ phase # "off"
  BY DEF IInv, TypeOK, JobInv
<1>2. JobSectors \in 1..SLOT_SECTORS
  BY <1>1, SnapshotAssumption DEF JobType, JobSectors
<1>3. SectorIndex(job.step, JobSectors) \in 0..(JobSectors - 1)
  BY <1>1, <1>2, SectorIndexRange DEF JobType
<1>4. store.generation \in Generations
  BY DEF IInv, TypeOK, StoreType
<1>5. job.op \in {"commit", "restore"} =>
        job.base = slot_lba(1 - store.active_slot) /\ job.tag \in Generations
  BY <1>4, NextGenerationType DEF IInv, JobInv
<1>6. ASSUME job.op \notin {"commit", "restore"}
      PROVE  job.base >= CHECKPOINT_LBA /\ job.base + SLOT_SECTORS <= DiskSectors
  <2>1. CASE job.op = "checkpoint"
    BY <2>1, CheckpointPlace, LayoutFacts DEF IInv, JobInv
  <2>2. CASE job.op = "baseline"
    BY <2>2, LayoutFacts DEF IInv, JobInv
  <2> QED  BY <1>1, <1>6, <2>1, <2>2 DEF JobType
<1> QED
  BY <1>1, <1>2, <1>3, <1>5, <1>6

\* A write changes one sector, inside the slot of the job.
LEMMA WriteOK ==
    ASSUME IInv, job # Idle, job.step < JobSectors
    PROVE  /\ DiskOK(WithNextSector)
           /\ \A lba \in 0..(DiskSectors - 1) :
                lba \notin job.base..(job.base + SLOT_SECTORS - 1)
                  => WithNextSector[lba] = disk[lba]
<1> DEFINE index == SectorIndex(job.step, JobSectors)
           sector == Encoded(job.snap, job.tag, 3, index)
<1>1. /\ job \in JobType /\ index \in 0..(SLOT_SECTORS - 1)
      /\ DiskOK(disk)
  BY JobFacts, LayoutAssumption DEF IInv
<1>2. sector \in SectorType /\ sector.version = 3
  BY <1>1 DEF Encoded, SectorType, JobType
<1>3. job.base + index < CHECKPOINT_LBA => sector.tag \in Generations
  <2>1. CASE job.op \in {"commit", "restore"}
    BY <2>1, JobFacts, CounterAssumption DEF Encoded, Generations
  <2>2. CASE job.op \notin {"commit", "restore"}
    BY <2>2, <1>1, JobFacts, LayoutFacts DEF JobType
  <2> QED  BY <2>1, <2>2
<1>4. WithNextSector = [disk EXCEPT ![job.base + index] = sector]
  BY DEF WithNextSector
<1> HIDE DEF index, sector
<1>5. DiskOK(WithNextSector)
  <2>1. WithNextSector \in [0..(DiskSectors - 1) -> SectorType \cup {Blank}]
    BY <1>1, <1>2, <1>4 DEF DiskOK
  <2>2. \A lba \in 0..(DiskSectors - 1) :
          WithNextSector[lba] = IF lba = job.base + index THEN sector ELSE disk[lba]
    BY <1>1, <1>4 DEF DiskOK
  <2>3. 0..(CHECKPOINT_LBA - 1) \subseteq 0..(DiskSectors - 1)
    BY LayoutFacts
  <2>4. ASSUME NEW lba \in 0..(CHECKPOINT_LBA - 1)
        PROVE  WithNextSector[lba].tag \in Generations
    BY <1>1, <1>3, <2>2, <2>3, LayoutFacts DEF DiskOK
  <2>5. \A lba \in 0..(DiskSectors - 1) : WithNextSector[lba].version # 2
    BY <1>1, <1>2, <2>2 DEF DiskOK
  <2> QED  BY <2>1, <2>4, <2>5 DEF DiskOK
<1>6. job.base + index \in job.base..(job.base + SLOT_SECTORS - 1)
  BY <1>1, LayoutFacts DEF JobType
<1>7. \A lba \in 0..(DiskSectors - 1) :
        lba \notin job.base..(job.base + SLOT_SECTORS - 1)
          => WithNextSector[lba] = disk[lba]
  BY <1>1, <1>4, <1>6 DEF DiskOK
<1> QED  BY <1>5, <1>7

\* A write leaves every slot-sized region it is disjoint from readable as before.
LEMMA WriteFrame ==
    ASSUME IInv, job # Idle, job.step < JobSectors,
           NEW base \in Nat, base + SLOT_SECTORS <= DiskSectors,
           base + SLOT_SECTORS <= job.base \/ job.base + SLOT_SECTORS <= base
    PROVE  read_at(WithNextSector, base) = read_at(disk, base)
<1>1. \A i \in 0..(SLOT_SECTORS - 1) : WithNextSector[base + i] = disk[base + i]
  BY WriteOK, JobFacts, LayoutFacts DEF JobType
<1>2. WithNextSector[base] \in SectorType \cup {Blank}
  <2>1. DiskOK(WithNextSector)
    BY WriteOK
  <2>2. base \in 0..(DiskSectors - 1)
    BY LayoutFacts
  <2> QED  BY <2>1, <2>2 DEF DiskOK
<1> QED
  BY <1>1, <1>2, ReadAtFrame

LEMMA ActiveFrame ==
    ASSUME IInv, job # Idle, job.step < JobSectors
    PROVE  read_at(WithNextSector, slot_lba(store.active_slot))
             = read_at(disk, slot_lba(store.active_slot))
<1>1. /\ job \in JobType
      /\ job.op \in {"commit", "restore"} => job.base = slot_lba(1 - store.active_slot)
      /\ job.op \notin {"commit", "restore"} => job.base >= CHECKPOINT_LBA
  BY JobFacts
<1>2. store.active_slot \in {0, 1}
  BY DEF IInv, TypeOK, StoreType, Slots
<1>3. /\ slot_lba(store.active_slot) \in Nat
      /\ slot_lba(store.active_slot) + SLOT_SECTORS <= DiskSectors
      /\ \/ slot_lba(store.active_slot) + SLOT_SECTORS <= job.base
         \/ job.base + SLOT_SECTORS <= slot_lba(store.active_slot)
  BY <1>1, <1>2, LayoutFacts DEF slot_lba, JobType
<1> QED
  BY <1>3, WriteFrame

-----------------------------------------------------------------------------
(* Reading a disk without legacy contents.                                 *)

Decoded == [snapshot : Snapshots, generation : Nat]

LEMMA ReadAtType ==
    ASSUME NEW d, DiskOK(d), NEW base \in 0..(DiskSectors - 1)
    PROVE  /\ read_at(d, base) \in Decoded \cup {NotDecoded}
           /\ read_at(d, base).generation = d[base].tag \/ read_at(d, base) = NotDecoded
<1>1. d[base] \in SectorType \cup {Blank}
  BY DEF DiskOK
<1>2. decode_slot(d, base) => d[base] \in SectorType
  BY <1>1 DEF decode_slot, Blank
<1> QED
  BY <1>2 DEF read_at, SectorType, Decoded, NotDecoded

LEMMA NotDecodedIffNone ==
    ASSUME NEW r \in Decoded \cup {NotDecoded}
    PROVE  (r = NotDecoded) <=> (r.snapshot = NoSnapshot)
BY SnapshotAssumption DEF Decoded, NotDecoded

LEMMA NoLegacy ==
    ASSUME NEW d, DiskOK(d), NEW base \in 0..(DiskSectors - 1)
    PROVE  read_legacy_at(d, base) = NotDecoded
BY DEF DiskOK, read_legacy_at

LEMMA ReadSlotOK ==
    ASSUME NEW d, DiskOK(d), NEW slot \in Slots
    PROVE  /\ read_slot(d, slot) = read_at(d, slot_lba(slot))
           /\ read_slot(d, slot) \in Decoded \cup {NotDecoded}
           /\ read_slot(d, slot).generation \in Generations
<1>1. /\ slot_lba(slot) \in 0..(DiskSectors - 1)
      /\ slot_lba(slot) \in 0..(CHECKPOINT_LBA - 1)
      /\ legacy_slot_lba(slot) \in 0..(DiskSectors - 1)
  BY LayoutFacts, LayoutAssumption
     DEF slot_lba, legacy_slot_lba, Slots, LEGACY_SLOT_B_LBA
<1>2. read_legacy_at(d, legacy_slot_lba(slot)) = NotDecoded
  BY <1>1, NoLegacy
<1>3. read_slot(d, slot) = read_at(d, slot_lba(slot))
  BY <1>2 DEF read_slot, OrElse
<1>4. read_at(d, slot_lba(slot)).generation \in Generations
  <2>1. d[slot_lba(slot)].tag \in Generations
    BY <1>1 DEF DiskOK
  <2>2. 0 \in Generations
    BY CounterAssumption DEF Generations
  <2> QED  BY <1>1, <2>1, <2>2, ReadAtType DEF NotDecoded
<1> QED
  BY <1>1, <1>3, <1>4, ReadAtType

LEMMA LoadedCheckpointType ==
    ASSUME NEW d, DiskOK(d), NEW index \in Checkpoints
    PROVE  LoadedCheckpoint(d, index) \in [state_id : Nat, legacy : BOOLEAN]
<1>1. checkpoint_lba(index) \in 0..(DiskSectors - 1)
  BY CheckpointPlace, LayoutFacts
<1>2. read_at(d, checkpoint_lba(index)) \in Decoded \cup {NotDecoded}
  BY <1>1, ReadAtType
<1>4. legacy_checkpoint_lba(index) \in 0..(DiskSectors - 1)
  BY LegacyPlace
<1>5. read_legacy_at(d, legacy_checkpoint_lba(index)) = NotDecoded
  BY <1>4, NoLegacy
<1> QED
  BY <1>2, <1>5 DEF LoadedCheckpoint, OrElse, Decoded, NotDecoded

-----------------------------------------------------------------------------
(* IInv is inductive.                                                      *)

LEMMA InitInv == Init => IInv
<1> SUFFICES ASSUME Init PROVE IInv
  OBVIOUS
<1>1. DiskOK(disk)
  BY LayoutFacts, CounterAssumption DEF Init, DiskOK, Blank, Generations
<1>2. store \in StoreType
  BY LayoutFacts, CounterAssumption
     DEF Init, RuntimeStore_new, StoreType, NoCheckpoint, Generations, Slots
<1> QED
  BY <1>1, <1>2 DEF Init, IInv, TypeOK, DiskOK, JobInv, ActiveIntact, Idle

LEMMA InitializeInv == IInv /\ initialize => IInv'
<1> SUFFICES ASSUME IInv, initialize PROVE IInv'
  OBVIOUS
<1>1. DiskOK(disk) /\ DiskOK(disk)' /\ disk' = disk
  BY DEF IInv, initialize, DiskOK
<1>2. job = Idle /\ job' = Idle /\ phase' = "starting"
  BY DEF IInv, JobInv, initialize
<1> DEFINE first == read_slot(disk, 0)
           second == read_slot(disk, 1)
<1>3. /\ first = read_at(disk, slot_lba(0)) /\ second = read_at(disk, slot_lba(1))
      /\ first \in Decoded \cup {NotDecoded} /\ second \in Decoded \cup {NotDecoded}
      /\ first.generation \in Generations /\ second.generation \in Generations
  BY <1>1, ReadSlotOK DEF Slots
<1>4. /\ Loaded(disk) \in Decoded \cup {NotDecoded}
      /\ Loaded(disk).generation \in Generations
  BY <1>3 DEF Loaded
<1>5. store'.active_slot \in Slots
      /\ read_at(disk, slot_lba(store'.active_slot)) = Loaded(disk)
  <2>1. CASE Loaded(disk) = NotDecoded
    <3>1. store'.active_slot = 1
      BY <2>1 DEF initialize
    <3>2. second = NotDecoded
      BY <2>1 DEF Loaded, newest
    <3> QED  BY <1>3, <2>1, <3>1, <3>2 DEF Slots
  <2>2. CASE Loaded(disk) # NotDecoded
    <3>1. store'.active_slot = newest(first, second)
      BY <2>2 DEF initialize
    <3>2. newest(first, second) \in Slots
      BY DEF newest, Slots
    <3> QED  BY <1>3, <3>1, <3>2 DEF Loaded, Slots
  <2> QED  BY <2>1, <2>2
<1>6. store'.snapshot = Loaded(disk).snapshot
      /\ store'.generation = Loaded(disk).generation
  BY DEF initialize
<1>7. ActiveIntact'
  <2>1. Loaded(disk) = [snapshot |-> Loaded(disk).snapshot,
                        generation |-> Loaded(disk).generation]
    BY <1>4 DEF Decoded, NotDecoded
  <2> QED  BY <1>1, <1>5, <1>6, <2>1 DEF ActiveIntact
<1>8. store' \in StoreType
  <2>1. \A i \in Checkpoints :
          LoadedCheckpoint(disk, i) \in [state_id : Nat, legacy : BOOLEAN]
    BY <1>1, LoadedCheckpointType
  <2>2. Loaded(disk).snapshot \in Snapshots \cup {NoSnapshot}
    BY <1>4 DEF Decoded, NotDecoded
  <2> QED
    BY <1>4, <1>5, <2>1, <2>2, LayoutFacts DEF initialize, StoreType
<1> QED
  BY <1>1, <1>2, <1>7, <1>8 DEF IInv, TypeOK, DiskOK, JobInv, Idle

\* Starting an operation changes only the job (and the phase).
LEMMA BeginInv ==
    IInv /\ (BeginCommit \/ record_checkpoint \/ restore_checkpoint
             \/ restore_baseline \/ establish_baseline) => IInv'
<1> SUFFICES ASSUME IInv,
                    BeginCommit \/ record_checkpoint \/ restore_checkpoint
                      \/ restore_baseline \/ establish_baseline
             PROVE  IInv'
  OBVIOUS
<1>1. disk' = disk /\ store' = store
  BY DEF BeginCommit, record_checkpoint, restore_checkpoint, restore_baseline,
         establish_baseline
<1>2. phase # "off" /\ phase' \in {"starting", "running"}
  BY DEF BeginCommit, record_checkpoint, restore_checkpoint, restore_baseline,
         establish_baseline, IInv, TypeOK
<1>3. /\ DiskOK(disk) /\ store \in StoreType
      /\ store.generation \in Generations /\ store.active_slot \in Slots
      /\ NextGeneration \in Nat
  BY NextGenerationType DEF IInv, TypeOK, StoreType, Generations
<1> DEFINE JobOK ==
      /\ job' \in JobType \cup {Idle}
      /\ job' # Idle => job'.step = 0
      /\ job'.op \in {"commit", "restore"} =>
           /\ job'.slot = 1 - store.active_slot
           /\ job'.base = slot_lba(job'.slot)
           /\ job'.tag = NextGeneration
      /\ job'.op = "checkpoint" =>
           job'.slot \in Checkpoints /\ job'.base = checkpoint_lba(job'.slot)
      /\ job'.op = "baseline" => job'.base = BASELINE_LBA
<1>4. ASSUME NEW op \in {"commit", "restore"}, NEW snap \in Snapshots,
             StartCommit(op, snap)
      PROVE  JobOK
  BY <1>3, <1>4, LayoutFacts DEF StartCommit, JobType, Slots, slot_lba, Idle
<1>5. JobOK
  <2>1. CASE BeginCommit
    BY <2>1, <1>4 DEF BeginCommit
  <2>2. CASE record_checkpoint
    <3>1. PICK slot \in Checkpoints, latest \in CheckpointIds :
            job' = [op |-> "checkpoint", base |-> checkpoint_lba(slot),
                    slot |-> slot, snap |-> store.snapshot,
                    tag |-> latest + 1, step |-> 0]
      BY <2>2 DEF record_checkpoint
    <3>2. latest \in Nat /\ store.snapshot \in Snapshots /\ slot \in Nat
      BY <1>3, <2>2, LayoutAssumption
         DEF record_checkpoint, CheckpointIds, StoreType, Checkpoints
    <3> QED  BY <3>1, <3>2, CheckpointPlace DEF JobType, Idle
  <2>3. CASE restore_checkpoint
    <3>1. PICK index \in Checkpoints :
            /\ CheckpointRegion(disk, index) # NotDecoded
            /\ StartCommit("restore", CheckpointRegion(disk, index).snapshot)
      BY <2>3 DEF restore_checkpoint
    <3>2. checkpoint_lba(index) \in 0..(DiskSectors - 1)
      BY CheckpointPlace, LayoutFacts
    <3>3. legacy_checkpoint_lba(index) \in 0..(DiskSectors - 1)
      BY LegacyPlace
    <3>4. CheckpointRegion(disk, index) \in Decoded
      BY <1>3, <3>1, <3>2, <3>3, ReadAtType, NoLegacy DEF CheckpointRegion
    <3> QED  BY <1>4, <3>1, <3>4 DEF Decoded
  <2>4. CASE restore_baseline
    <3>1. BASELINE_LBA \in 0..(DiskSectors - 1)
      BY LayoutFacts
    <3>2. BaselineRegion(disk) \in Decoded \cup {NotDecoded}
      <4>1. LEGACY_BASELINE_LBA \in 0..(DiskSectors - 1)
        BY LegacyPlace
      <4> QED  BY <1>3, <3>1, <4>1, ReadAtType, NoLegacy DEF BaselineRegion
    <3> QED  BY <1>4, <2>4, <3>2 DEF restore_baseline, Decoded
  <2>5. CASE establish_baseline
    <3>1. store.generation \in Nat
      BY <1>3 DEF Generations
    <3> QED
      BY <1>3, <2>5, <3>1, LayoutFacts DEF establish_baseline, StoreType, JobType, Idle
  <2> QED  BY <2>1, <2>2, <2>3, <2>4, <2>5
<1>6. job' # Idle => job'.step <= SectorsOf[job'.snap]
  BY <1>5, SnapshotAssumption, LayoutAssumption DEF JobType
<1>7. TypeOK'
  BY <1>1, <1>2, <1>3, <1>5, <1>6 DEF TypeOK, DiskOK
<1>8. JobInv'
  BY <1>1, <1>2, <1>5 DEF JobInv, NextGeneration
<1>9. DiskOK(disk)' /\ ActiveIntact'
  BY <1>1, <1>2, <1>3 DEF DiskOK, ActiveIntact, IInv
<1> QED
  BY <1>7, <1>8, <1>9 DEF IInv

\* A sector write lands outside the active slot.
LEMMA WriteSectorInv == IInv /\ (write_sector \/ write_error) => IInv'
<1> SUFFICES ASSUME IInv, write_sector \/ write_error PROVE IInv'
  OBVIOUS
<1>1. /\ job # Idle /\ job.step < JobSectors
      /\ store' = store /\ phase' = phase
      /\ disk' = disk \/ disk' = WithNextSector
      /\ job' = Idle \/ job' = [job EXCEPT !.step = @ + 1]
  BY DEF write_sector, write_error
<1>2. DiskOK(disk')
  BY <1>1, WriteOK DEF IInv
<1>3. ActiveIntact'
  BY <1>1, ActiveFrame DEF IInv, ActiveIntact
<1>4. /\ job \in JobType /\ phase # "off"
      /\ JobSectors \in 1..SLOT_SECTORS
  BY <1>1, JobFacts
<1>5. /\ job' \in JobType \cup {Idle}
      /\ job' # Idle => job'.step <= SectorsOf[job'.snap]
  BY <1>1, <1>4 DEF JobType, JobSectors
<1>6. TypeOK'
  BY <1>1, <1>2, <1>5 DEF IInv, TypeOK, DiskOK
<1>7. JobInv'
  BY <1>1, <1>4 DEF IInv, JobInv, Idle, JobType, NextGeneration
<1> QED
  BY <1>2, <1>3, <1>6, <1>7 DEF IInv, DiskOK

\* A verified commit leaves the target slot decodable as what it publishes.
LEMMA VerifiedDecodes ==
    ASSUME IInv, job # Idle, Verified
    PROVE  read_at(disk, job.base) = [snapshot |-> job.snap, generation |-> job.tag]
<1>1. job \in JobType /\ JobSectors \in 1..SLOT_SECTORS /\ SectorsOf[job.snap] = JobSectors
  BY SnapshotAssumption DEF IInv, TypeOK, JobType, JobSectors
<1>2. disk[job.base] = Encoded(job.snap, job.tag, 3, 0)
  <2>1. 0 \in 0..(JobSectors - 1) /\ job.base + 0 = job.base
    BY <1>1 DEF JobType
  <2> QED  BY <2>1 DEF Verified
<1>3. \A i \in 1..(JobSectors - 1) :
        disk[job.base + i] = Encoded(job.snap, job.tag, 3, i)
  BY <1>1 DEF Verified
<1>4. decode_slot(disk, job.base)
  BY <1>1, <1>2, <1>3 DEF decode_slot, SectorCount, Encoded
<1> QED
  BY <1>2, <1>4 DEF read_at, Encoded

LEMMA VerifyInv == IInv /\ (verify_write \/ verify_error) => IInv'
<1> SUFFICES ASSUME IInv, verify_write \/ verify_error PROVE IInv'
  OBVIOUS
<1>1. disk' = disk /\ job # Idle /\ job' = Idle /\ job \in JobType
  BY DEF verify_write, verify_error, IInv, TypeOK
<1>2. DiskOK(disk') /\ store \in StoreType
  BY <1>1 DEF IInv, TypeOK
<1>3. phase # "off" /\ phase' \in {"off", "starting", "running"}
  BY <1>1 DEF IInv, TypeOK, JobInv, verify_write, verify_error
<1>4. store' \in StoreType /\ ActiveIntact'
  <2>1. CASE verify_error
    <3>1. /\ store' \in StoreType /\ store'.active_slot = store.active_slot
          /\ store'.snapshot = store.snapshot /\ store'.generation = store.generation
      BY <2>1, <1>2 DEF verify_error, StoreType
    <3> QED  BY <1>1, <1>3, <3>1 DEF IInv, ActiveIntact
  <2>2. CASE verify_write /\ job.op = "restore"
    <3>1. store' = RuntimeStore_new /\ phase' = "off"
      BY <2>2 DEF verify_write
    <3> QED
      BY <3>1, LayoutFacts, CounterAssumption
         DEF RuntimeStore_new, StoreType, NoCheckpoint, Generations, Slots, ActiveIntact
  <2>3. CASE verify_write /\ job.op = "commit"
    <3>1. store' = [store EXCEPT !.snapshot = job.snap, !.generation = job.tag,
                                 !.active_slot = job.slot]
      BY <2>3 DEF verify_write, Published
    <3>2. /\ job.slot = 1 - store.active_slot /\ job.base = slot_lba(job.slot)
          /\ job.tag = NextGeneration
      BY <2>3 DEF IInv, JobInv
    <3>3. store.active_slot \in Slots /\ store.generation \in Generations
      BY <1>2 DEF StoreType
    <3>4. job.slot \in Slots /\ job.tag \in Generations /\ job.snap \in Snapshots
      BY <1>1, <3>2, <3>3, NextGenerationType DEF Slots, JobType
    <3>5. store' \in StoreType
      BY <1>2, <3>1, <3>4 DEF StoreType
    <3>6. /\ store'.snapshot = job.snap /\ store'.generation = job.tag
          /\ store'.active_slot = job.slot
      BY <1>2, <3>1 DEF StoreType
    <3>7. read_at(disk, job.base) = [snapshot |-> job.snap, generation |-> job.tag]
      BY <1>1, <2>3, VerifiedDecodes DEF verify_write
    <3> QED
      BY <1>1, <3>2, <3>5, <3>6, <3>7 DEF ActiveIntact
  <2>4. CASE verify_write /\ job.op = "checkpoint"
    <3>1. store' = [store EXCEPT !.checkpoints[job.slot] =
                                    [state_id |-> job.tag, legacy |-> FALSE]]
      BY <2>4 DEF verify_write, Published
    <3>2. store' \in StoreType
      BY <1>1, <1>2, <3>1 DEF StoreType, JobType
    <3>3. /\ store'.active_slot = store.active_slot
          /\ store'.snapshot = store.snapshot /\ store'.generation = store.generation
      BY <1>2, <3>1 DEF StoreType
    <3> QED  BY <1>1, <1>3, <3>2, <3>3 DEF IInv, ActiveIntact
  <2>5. CASE verify_write /\ job.op = "baseline"
    <3>1. store' = [store EXCEPT !.baseline = "Ready", !.baseline_lba = BASELINE_LBA]
      BY <2>5 DEF verify_write, Published
    <3>2. store' \in StoreType
      BY <1>2, <3>1, LayoutFacts DEF StoreType
    <3>3. /\ store'.active_slot = store.active_slot
          /\ store'.snapshot = store.snapshot /\ store'.generation = store.generation
      BY <1>2, <3>1 DEF StoreType
    <3> QED  BY <1>1, <1>3, <3>2, <3>3 DEF IInv, ActiveIntact
  <2> QED
    BY <1>1, <2>1, <2>2, <2>3, <2>4, <2>5 DEF JobType
<1> QED
  BY <1>1, <1>2, <1>3, <1>4 DEF IInv, TypeOK, DiskOK, JobInv, Idle

LEMMA CrashInv == IInv /\ crash => IInv'
<1> SUFFICES ASSUME IInv, crash PROVE IInv'
  OBVIOUS
<1>1. /\ store' = RuntimeStore_new /\ job' = Idle /\ phase' = "off"
      /\ disk' = disk \/ (job # Idle /\ job.step < JobSectors /\ disk' = WithNextSector)
  BY DEF crash
<1>2. DiskOK(disk')
  BY <1>1, WriteOK DEF IInv
<1>3. store' \in StoreType
  BY <1>1, LayoutFacts, CounterAssumption
     DEF RuntimeStore_new, StoreType, NoCheckpoint, Generations, Slots
<1> QED
  BY <1>1, <1>2, <1>3 DEF IInv, TypeOK, DiskOK, JobInv, ActiveIntact, Idle

LEMMA StepInv == IInv /\ [Next]_vars => IInv'
<1>1. IInv /\ UNCHANGED vars => IInv'
  BY DEF IInv, TypeOK, DiskOK, JobInv, ActiveIntact, NextGeneration, vars
<1> QED
  BY <1>1, InitializeInv, BeginInv, WriteSectorInv, VerifyInv, CrashInv DEF Next

LEMMA Invariance == Spec => []IInv
BY InitInv, StepInv, PTL DEF Spec

\* The store, the disk and the write in progress keep their types for every
\* layout, snapshot set and fault assumption.
THEOREM TypeCorrect == Spec => []TypeOK
BY Invariance, PTL DEF IInv

\* At every point of every operation, including every sector of a commit, a
\* checkpoint or a baseline write, the slot the kernel considers current
\* decodes to the state it serves.
THEOREM ActiveSlotIntact == Spec => []ActiveIntact
BY Invariance, PTL DEF IInv

-----------------------------------------------------------------------------
(* What the next boot would load, before and after a write.                *)

\* Consecutive generations are ordered by `newest`, across the wrap as well.
LEMMA NextIsNewer ==
    ASSUME store.generation \in Generations
    PROVE  /\ IsNewer(NextGeneration, store.generation)
           /\ ~ IsNewer(store.generation, NextGeneration)
<1> DEFINE g == store.generation
           W == GenerationModulus
<1>1. g \in 0..(W - 1) /\ W \in Nat /\ W > 5
  BY CounterAssumption DEF Generations
<1>2. CASE g + 1 < W
  <2>1. NextGeneration = g + 1
    BY <1>1, <1>2 DEF NextGeneration
  <2>2. (g + 1 - g) % W = 1 /\ (g - (g + 1)) % W = W - 1
    BY <1>1
  <2>3. 1 < W \div 2 /\ ~(W - 1 < W \div 2)
    BY <1>1
  <2> QED  BY <1>1, <2>1, <2>2, <2>3 DEF IsNewer
<1>3. CASE g + 1 = W
  <2>1. NextGeneration = 1
    BY <1>1, <1>3 DEF NextGeneration
  <2>2. (1 - g) % W = 2 /\ (g - 1) % W = W - 2
    BY <1>1, <1>3
  <2>3. 2 < W \div 2 /\ ~(W - 2 < W \div 2)
    BY <1>1
  <2> QED  BY <1>1, <1>3, <2>1, <2>2, <2>3 DEF IsNewer
<1> QED
  BY <1>1, <1>2, <1>3

\* After a sector of a commit the target slot reads as before, does not decode,
\* or holds the snapshot being committed.
LEMMA TargetAfterWrite ==
    ASSUME IInv, job # Idle, job.step < JobSectors, job.base \in 0..(DiskSectors - 1),
           job.base + SLOT_SECTORS <= DiskSectors
    PROVE  LET before == read_at(disk, job.base)
               after == read_at(WithNextSector, job.base)
           IN  after = before \/ after = NotDecoded \/ after.snapshot = job.snap
<1> DEFINE index == SectorIndex(job.step, JobSectors)
           d == WithNextSector
<1>1. /\ job \in JobType /\ index \in 0..(JobSectors - 1)
      /\ JobSectors \in 1..SLOT_SECTORS
  BY JobFacts
<1>2. /\ DiskOK(disk) /\ DiskOK(d)
      /\ d = [disk EXCEPT ![job.base + index] = Encoded(job.snap, job.tag, 3, index)]
  BY WriteOK DEF IInv, WithNextSector
<1>3. job.base + index \in 0..(DiskSectors - 1)
  BY <1>1, LayoutFacts DEF JobType
<1> HIDE DEF d, index
<1>4. SUFFICES ASSUME decode_slot(d, job.base)
               PROVE  \/ read_at(d, job.base) = read_at(disk, job.base)
                      \/ read_at(d, job.base).snapshot = job.snap
  BY DEF read_at, d
<1>5. read_at(d, job.base).snapshot = d[job.base].snap
  BY <1>4 DEF read_at
<1>6. CASE index = 0
  BY <1>1, <1>2, <1>3, <1>5, <1>6 DEF DiskOK, Encoded, JobType
<1>7. CASE index # 0
  <2>1. d[job.base] = disk[job.base]
    BY <1>1, <1>2, <1>7 DEF DiskOK, JobType
  <2> DEFINE count == SectorCount(d[job.base].snap, d[job.base].version)
  <2>2. d[job.base] \in SectorType
    BY <1>2, <1>4 DEF DiskOK, decode_slot, Blank
  <2>3. count \in 1..SLOT_SECTORS
    BY <2>2, LayoutAssumption, SnapshotAssumption DEF SectorType, SectorCount
  <2>4. CASE index \in 1..(count - 1)
    <3>1. d[job.base + index] = Encoded(job.snap, job.tag, 3, index)
      BY <1>2, <1>3 DEF DiskOK
    <3>2. d[job.base + index] =
            Encoded(d[job.base].snap, d[job.base].tag, d[job.base].version, index)
      BY <1>4, <2>4 DEF decode_slot
    <3> QED  BY <1>5, <3>1, <3>2 DEF Encoded
  <2>5. CASE index \notin 1..(count - 1)
    <3>1. \A i \in 1..(count - 1) : d[job.base + i] = disk[job.base + i]
      <4> TAKE i \in 1..(count - 1)
      <4>1. job.base + i # job.base + index
        BY <1>1, <2>3, <2>5 DEF JobType
      <4>2. job.base + i \in 0..(DiskSectors - 1)
        BY <2>3, LayoutFacts
      <4> QED  BY <1>2, <4>1, <4>2 DEF DiskOK
    <3>2. decode_slot(disk, job.base)
      BY <1>4, <2>1, <3>1 DEF decode_slot
    <3> QED  BY <1>4, <2>1, <3>2 DEF read_at
  <2> QED  BY <2>4, <2>5
<1> QED
  BY <1>6, <1>7

\* What initialize() would load from a disk is the content of one of the slots,
\* and the only decodable one if there is only one.
LEMMA LoadedCases ==
    ASSUME NEW d, DiskOK(d), NEW slot \in Slots
    PROVE  LET here == read_at(d, slot_lba(slot))
               there == read_at(d, slot_lba(1 - slot))
           IN  /\ Loaded(d) \in {here, there}
               /\ here = NotDecoded => Loaded(d) = there
               /\ there = NotDecoded => Loaded(d) = here
<1>1. /\ read_slot(d, 0) = read_at(d, slot_lba(0))
      /\ read_slot(d, 1) = read_at(d, slot_lba(1))
  BY ReadSlotOK DEF Slots
<1>2. CASE slot = 0
  BY <1>1, <1>2 DEF Loaded, newest
<1>3. CASE slot = 1
  BY <1>1, <1>3 DEF Loaded, newest
<1> QED
  BY <1>2, <1>3 DEF Slots

LEMMA WriteLoaded ==
    ASSUME IInv, job # Idle, job.step < JobSectors
    PROVE  /\ job.op \in {"commit", "restore"} =>
                Loaded(WithNextSector).snapshot \in
                  {Loaded(disk).snapshot, store.snapshot, job.snap}
           /\ job.op \notin {"commit", "restore"} =>
                Loaded(WithNextSector) = Loaded(disk)
<1> DEFINE active == store.active_slot
           d == WithNextSector
           here == read_at(disk, slot_lba(active))
           there == read_at(disk, slot_lba(1 - active))
           there2 == read_at(d, slot_lba(1 - active))
<1>1. /\ DiskOK(disk) /\ DiskOK(d) /\ active \in Slots
  BY WriteOK DEF IInv, TypeOK, StoreType
<1>2. read_at(d, slot_lba(active)) = here
  BY ActiveFrame
<1>3. here = [snapshot |-> store.snapshot, generation |-> store.generation]
  BY JobFacts DEF IInv, ActiveIntact
<1>4. /\ Loaded(disk) \in {here, there} /\ Loaded(d) \in {here, there2}
      /\ there2 = NotDecoded => Loaded(d) = here
  BY <1>1, <1>2, LoadedCases
<1>5. slot_lba(1 - active) \in 0..(DiskSectors - 1)
      /\ slot_lba(1 - active) + SLOT_SECTORS <= DiskSectors
      /\ slot_lba(1 - active) + SLOT_SECTORS <= CHECKPOINT_LBA
  BY <1>1, LayoutFacts DEF slot_lba, Slots
<1>6. there2 = there => Loaded(d) = Loaded(disk)
  <2>1. /\ read_slot(d, 0) = read_at(d, slot_lba(0))
        /\ read_slot(d, 1) = read_at(d, slot_lba(1))
        /\ read_slot(disk, 0) = read_at(disk, slot_lba(0))
        /\ read_slot(disk, 1) = read_at(disk, slot_lba(1))
    BY <1>1, ReadSlotOK DEF Slots
  <2> QED
    BY <1>1, <1>2, <2>1 DEF Loaded, newest, Slots
<1>7. CASE job.op \in {"commit", "restore"}
  <2>1. job.base = slot_lba(1 - active)
    BY <1>7, JobFacts
  <2>2. there2 = there \/ there2 = NotDecoded \/ there2.snapshot = job.snap
    BY <1>5, <2>1, TargetAfterWrite
  <2> HIDE DEF d, here, there, there2
  <2> QED
    BY <1>3, <1>4, <1>6, <1>7, <2>2 DEF d
<1>8. CASE job.op \notin {"commit", "restore"}
  <2>1. job.base >= CHECKPOINT_LBA /\ job \in JobType
    BY <1>8, JobFacts
  <2>2. there2 = there
    BY <1>5, <2>1, LayoutFacts, WriteFrame DEF JobType
  <2> QED  BY <1>6, <1>8, <2>2
<1> QED
  BY <1>7, <1>8

\* A verified commit is what the next boot loads.
LEMMA VerifiedLoaded ==
    ASSUME IInv, job.op \in {"commit", "restore"}, Verified
    PROVE  Loaded(disk).snapshot = job.snap
<1> DEFINE active == store.active_slot
           here == read_at(disk, slot_lba(active))
           there == read_at(disk, slot_lba(1 - active))
<1>1. /\ DiskOK(disk) /\ active \in Slots /\ store.generation \in Generations
      /\ job # Idle /\ phase # "off"
  BY DEF IInv, TypeOK, StoreType, JobInv, Idle
<1>2. here = [snapshot |-> store.snapshot, generation |-> store.generation]
  BY <1>1 DEF IInv, ActiveIntact
<1>3. there = [snapshot |-> job.snap, generation |-> NextGeneration]
  BY <1>1, VerifiedDecodes DEF IInv, JobInv
<1>4. there # NotDecoded
  <2>1. job.snap \in Snapshots
    BY <1>1 DEF IInv, TypeOK, JobType
  <2> QED  BY <1>3, <2>1, SnapshotAssumption DEF NotDecoded
<1>5. /\ IsNewer(NextGeneration, store.generation)
      /\ ~ IsNewer(store.generation, NextGeneration)
  BY <1>1, NextIsNewer
<1>6. /\ read_slot(disk, 0) = read_at(disk, slot_lba(0))
      /\ read_slot(disk, 1) = read_at(disk, slot_lba(1))
  BY <1>1, ReadSlotOK DEF Slots
<1>7. CASE active = 0
  BY <1>2, <1>3, <1>4, <1>5, <1>6, <1>7 DEF Loaded, newest
<1>8. CASE active = 1
  BY <1>2, <1>3, <1>4, <1>5, <1>6, <1>8 DEF Loaded, newest
<1> QED
  BY <1>1, <1>7, <1>8 DEF Slots

-----------------------------------------------------------------------------
(* The store implements SnapshotStore.                                     *)

LEMMA RefinesInit == Init => Abstract!Init
<1> SUFFICES ASSUME Init PROVE Abstract!Init
  OBVIOUS
<1>1. IInv
  BY InitInv
<1>2. read_at(disk, slot_lba(0)) = NotDecoded /\ read_at(disk, slot_lba(1)) = NotDecoded
  BY LayoutFacts DEF Init, read_at, decode_slot, slot_lba, Blank
<1>3. Loaded(disk) = NotDecoded
  BY <1>1, <1>2, LoadedCases DEF IInv, Slots
<1> QED
  BY <1>3 DEF Init, Abstract!Init, RuntimeStore_new, Pending, Idle, NotDecoded

LEMMA RefinesBegin ==
    IInv /\ IInv' /\ (BeginCommit \/ record_checkpoint \/ restore_checkpoint
                      \/ restore_baseline \/ establish_baseline)
      => [Abstract!Next]_(Abstract!vars)
<1> SUFFICES ASSUME IInv, IInv',
                    BeginCommit \/ record_checkpoint \/ restore_checkpoint
                      \/ restore_baseline \/ establish_baseline
             PROVE  Abstract!Begin \/ UNCHANGED Abstract!vars
  BY DEF Abstract!Next
<1>1. /\ disk' = disk /\ store' = store /\ job = Idle
      /\ phase # "off" /\ phase' # "off"
  BY DEF BeginCommit, record_checkpoint, restore_checkpoint, restore_baseline,
         establish_baseline
<1>2. Pending = NoSnapshot
  BY <1>1 DEF Pending, Idle
<1>3. job' \in JobType \cup {Idle}
  BY DEF IInv, TypeOK
<1>4. Loaded(disk)' = Loaded(disk)
  BY <1>1
<1>5. CASE job'.op \in {"commit", "restore"}
  <2>1. Pending' \in Snapshots
    BY <1>3, <1>5 DEF Pending, JobType, Idle
  <2> QED  BY <1>1, <1>2, <1>4, <2>1 DEF Abstract!Begin
<1>6. CASE job'.op \notin {"commit", "restore"}
  <2>1. Pending' = NoSnapshot
    BY <1>6 DEF Pending
  <2> QED  BY <1>1, <1>2, <1>4, <2>1 DEF Abstract!vars
<1> QED
  BY <1>5, <1>6

LEMMA RefinesWrite ==
    IInv /\ (write_sector \/ write_error \/ crash) => [Abstract!Next]_(Abstract!vars)
<1> SUFFICES ASSUME IInv, write_sector \/ write_error \/ crash
             PROVE  Abstract!Next \/ UNCHANGED Abstract!vars
  OBVIOUS
<1> DEFINE durable == Loaded(disk).snapshot
           visible == store.snapshot
<1>1. Loaded(disk)'.snapshot = Loaded(disk').snapshot
  OBVIOUS
<1>2. /\ job.op \in {"commit", "restore"} =>
           /\ job # Idle /\ job \in JobType /\ Pending = job.snap
           /\ Pending # NoSnapshot /\ phase # "off"
      /\ job.op \notin {"commit", "restore"} => Pending = NoSnapshot
  BY SnapshotAssumption DEF IInv, TypeOK, JobInv, JobType, Idle, Pending
<1>3. ASSUME job # Idle, job.step < JobSectors, disk' \in {disk, WithNextSector}
      PROVE  /\ job.op \in {"commit", "restore"} =>
                  Loaded(disk').snapshot \in {durable, visible, Pending}
             /\ job.op \notin {"commit", "restore"} => Loaded(disk').snapshot = durable
  BY <1>2, <1>3, WriteLoaded
<1>4. CASE write_sector
  <2>1. /\ job # Idle /\ job.step < JobSectors /\ disk' = WithNextSector
        /\ job' = [job EXCEPT !.step = @ + 1] /\ store' = store /\ phase' = phase
    BY <1>4 DEF write_sector
  <2>2. job \in JobType
    BY <2>1 DEF IInv, TypeOK
  <2>3. Pending' = Pending
    BY <2>1, <2>2 DEF Pending, JobType
  <2>4. CASE job.op \in {"commit", "restore"}
    <3>1. Loaded(disk').snapshot \in {durable, visible, Pending}
      BY <1>3, <2>1, <2>4
    <3>2. CASE Loaded(disk').snapshot = durable
      BY <1>1, <2>1, <2>3, <3>2 DEF Abstract!vars
    <3>3. CASE Loaded(disk').snapshot = visible
      BY <1>1, <1>2, <2>1, <2>3, <2>4, <3>3 DEF Abstract!Withdraw, Abstract!Next
    <3>4. CASE Loaded(disk').snapshot = Pending
      BY <1>1, <1>2, <2>1, <2>3, <2>4, <3>4 DEF Abstract!Publish, Abstract!Next
    <3> QED  BY <3>1, <3>2, <3>3, <3>4
  <2>5. CASE job.op \notin {"commit", "restore"}
    BY <1>1, <1>3, <2>1, <2>3, <2>5 DEF Abstract!vars
  <2> QED  BY <2>4, <2>5
<1>5. CASE write_error
  <2>1. /\ job # Idle /\ job.step < JobSectors /\ disk' \in {disk, WithNextSector}
        /\ job' = Idle /\ store' = store /\ phase' = phase
    BY <1>5 DEF write_error
  <2>2. Pending' = NoSnapshot
    BY <2>1 DEF Pending, Idle
  <2>3. CASE job.op \in {"commit", "restore"}
    BY <1>1, <1>2, <1>3, <2>1, <2>2, <2>3 DEF Abstract!Fail, Abstract!Next
  <2>4. CASE job.op \notin {"commit", "restore"}
    BY <1>1, <1>2, <1>3, <2>1, <2>2, <2>4 DEF Abstract!vars
  <2> QED  BY <2>3, <2>4
<1>6. CASE crash
  <2>1. /\ phase # "off" /\ phase' = "off" /\ job' = Idle /\ store' = RuntimeStore_new
        /\ \/ disk' = disk
           \/ job # Idle /\ job.step < JobSectors /\ disk' \in {disk, WithNextSector}
    BY <1>6 DEF crash
  <2>2. Pending' = NoSnapshot /\ store'.snapshot = NoSnapshot
    BY <2>1 DEF Pending, Idle, RuntimeStore_new
  <2>3. Loaded(disk').snapshot \in
          {durable} \cup IF Pending = NoSnapshot THEN {} ELSE {visible, Pending}
    <3>1. CASE disk' = disk
      BY <3>1
    <3>2. CASE job # Idle /\ job.step < JobSectors /\ disk' \in {disk, WithNextSector}
      BY <1>2, <1>3, <3>2
    <3> QED  BY <2>1, <3>1, <3>2
  <2> QED  BY <1>1, <2>1, <2>2, <2>3 DEF Abstract!Crash, Abstract!Next
<1> QED
  BY <1>4, <1>5, <1>6

LEMMA RefinesVerify ==
    IInv /\ (verify_write \/ verify_error) => [Abstract!Next]_(Abstract!vars)
<1> SUFFICES ASSUME IInv, verify_write \/ verify_error
             PROVE  Abstract!Next \/ UNCHANGED Abstract!vars
  OBVIOUS
<1>1. /\ disk' = disk /\ job # Idle /\ job' = Idle /\ job \in JobType
      /\ store \in StoreType /\ phase # "off"
  BY DEF verify_write, verify_error, IInv, TypeOK, JobInv
<1>2. Pending' = NoSnapshot /\ Loaded(disk)' = Loaded(disk)
  BY <1>1 DEF Pending, Idle
<1>3. job.op \in {"commit", "restore"} => Pending = job.snap /\ Pending # NoSnapshot
  BY <1>1, SnapshotAssumption DEF Pending, JobType
<1>4. job.op \notin {"commit", "restore"} => Pending = NoSnapshot
  BY DEF Pending
<1>5. CASE verify_error
  <2>1. store'.snapshot = store.snapshot /\ phase' = phase
    BY <1>1, <1>5 DEF verify_error, StoreType
  <2> QED
    BY <1>1, <1>2, <1>3, <1>4, <2>1 DEF Abstract!Fail, Abstract!Next, Abstract!vars
<1>6. CASE verify_write /\ job.op = "commit"
  <2>1. store'.snapshot = job.snap /\ phase' = phase
    BY <1>1, <1>6 DEF verify_write, Published, StoreType
  <2>2. Loaded(disk).snapshot = job.snap
    BY <1>6, VerifiedLoaded DEF verify_write
  <2> QED
    BY <1>1, <1>2, <1>3, <1>6, <2>1, <2>2 DEF Abstract!Acknowledge, Abstract!Next
<1>7. CASE verify_write /\ job.op = "restore"
  <2>1. store'.snapshot = NoSnapshot /\ phase' = "off"
    BY <1>7 DEF verify_write, RuntimeStore_new
  <2>2. Loaded(disk).snapshot = job.snap
    BY <1>7, VerifiedLoaded DEF verify_write
  <2> QED
    BY <1>1, <1>2, <1>3, <1>7, <2>1, <2>2 DEF Abstract!AcknowledgeAndReboot, Abstract!Next
<1>8. CASE verify_write /\ job.op \in {"checkpoint", "baseline"}
  <2>1. store'.snapshot = store.snapshot /\ phase' = phase
    BY <1>1, <1>8 DEF verify_write, Published, StoreType
  <2> QED  BY <1>2, <1>4, <1>8, <2>1 DEF Abstract!vars
<1> QED
  BY <1>1, <1>5, <1>6, <1>7, <1>8 DEF JobType

LEMMA RefinesBoot == IInv /\ initialize => [Abstract!Next]_(Abstract!vars)
<1> SUFFICES ASSUME IInv, initialize PROVE Abstract!Boot
  BY DEF Abstract!Next
<1>1. /\ phase = "off" /\ phase' # "off" /\ disk' = disk /\ job' = job
      /\ store'.snapshot = Loaded(disk).snapshot
  BY DEF initialize
<1> QED
  BY <1>1 DEF Abstract!Boot, Pending

LEMMA RefinesStep == IInv /\ IInv' /\ [Next]_vars => [Abstract!Next]_(Abstract!vars)
<1>1. UNCHANGED vars => UNCHANGED Abstract!vars
  BY DEF vars, Abstract!vars, Pending
<1> QED
  BY <1>1, RefinesBegin, RefinesWrite, RefinesVerify, RefinesBoot DEF Next

\* Every behaviour of the sector-level store, with crashes between any two
\* sector writes and with media errors, is a behaviour of the atomic store: a
\* snapshot becomes what the next boot loads in a single step, and a commit is
\* acknowledged only after that step.
THEOREM StoreRefinement == Spec => ImplementsSnapshotStore
BY Invariance, RefinesInit, RefinesStep, PTL
   DEF Spec, ImplementsSnapshotStore, Abstract!Spec

-----------------------------------------------------------------------------
(* The previous state survives an interrupted commit.                      *)

\* The sector a step may write, if any.
LEMMA DiskStep ==
    ASSUME [Next]_vars, disk' # disk
    PROVE  job # Idle /\ job.step < JobSectors /\ disk' = WithNextSector
BY DEF Next, initialize, BeginCommit, record_checkpoint, restore_checkpoint,
       restore_baseline, establish_baseline, write_sector, write_error,
       verify_write, verify_error, crash, vars

LEMMA SurvivesStep ==
    ASSUME IInv, [Next]_vars, phase # "off", store.snapshot # NoSnapshot
    PROVE  Loaded(disk').snapshot \in
             {store.snapshot, job.snap, Loaded(disk).snapshot} \ {NoSnapshot}
<1> DEFINE active == store.active_slot
           here == read_at(disk', slot_lba(active))
           there == read_at(disk', slot_lba(1 - active))
<1>1. DiskOK(disk') /\ active \in Slots /\ 1 - active \in Slots
  BY DiskStep, WriteOK DEF IInv, TypeOK, StoreType, Slots
<1>2. here = [snapshot |-> store.snapshot, generation |-> store.generation]
  BY DiskStep, ActiveFrame DEF IInv, ActiveIntact
<1>3. Loaded(disk').snapshot \in {store.snapshot, job.snap, Loaded(disk).snapshot}
  BY DiskStep, WriteLoaded
<1>4. there \in Decoded \cup {NotDecoded}
  BY <1>1, ReadSlotOK
<1>5. /\ Loaded(disk') \in {here, there}
      /\ there = NotDecoded => Loaded(disk') = here
  BY <1>1, LoadedCases
<1>6. Loaded(disk').snapshot # NoSnapshot
  BY <1>2, <1>4, <1>5, NotDecodedIffNone
<1> QED
  BY <1>3, <1>6

\* No interruption, at any sector of any operation, leaves a disk from which
\* neither the previous snapshot nor the one being written can be loaded.
THEOREM PreviousGenerationSurvives == Spec => PreviousSurvives
<1>1. IInv /\ [Next]_vars =>
        [(phase # "off" /\ store.snapshot # NoSnapshot)
          => Loaded(disk').snapshot \in
               {store.snapshot, job.snap, Loaded(disk).snapshot} \ {NoSnapshot}]_vars
  BY SurvivesStep
<1> QED
  BY <1>1, Invariance, PTL DEF Spec, PreviousSurvives

-----------------------------------------------------------------------------
(* The baseline is immutable.                                              *)

\* A baseline is only created over a blank header, and the header stays blank
\* until the last sector of the creation.
BaselineInv ==
    /\ phase = "starting" /\ store.baseline = "Missing" => disk[BASELINE_LBA] = Blank
    /\ job.op = "baseline" =>
         /\ phase = "running"
         /\ job.step < JobSectors => disk[BASELINE_LBA] = Blank

\* The only write that reaches the baseline's header is the last of a creation.
LEMMA BaselineHeaderWrite ==
    ASSUME IInv, job # Idle, job.step < JobSectors,
           job.op = "baseline" => job.step + 1 < JobSectors
    PROVE  WithNextSector[BASELINE_LBA] = disk[BASELINE_LBA]
<1> DEFINE index == SectorIndex(job.step, JobSectors)
<1>1. job \in JobType /\ JobSectors \in 1..SLOT_SECTORS /\ index \in 0..(JobSectors - 1)
  BY JobFacts
<1>2. CASE job.op = "baseline"
  <2>1. index # 0
    BY <1>1, <1>2, HeaderLast DEF JobType
  <2>2. job.base = BASELINE_LBA
    BY <1>2 DEF IInv, JobInv
  <2>3. job.base + index # BASELINE_LBA
    BY <1>1, <2>1, <2>2 DEF JobType
  <2> QED  BY <2>3, LayoutFacts DEF WithNextSector, IInv, DiskOK
<1>3. CASE job.op = "checkpoint"
  <2>1. job.base + SLOT_SECTORS <= BASELINE_LBA
    BY <1>3, CheckpointPlace DEF IInv, JobInv
  <2> QED  BY <1>1, <2>1, WriteOK, LayoutFacts DEF JobType
<1>4. CASE job.op \in {"commit", "restore"}
  <2>1. job.base + SLOT_SECTORS <= BASELINE_LBA
    BY <1>4, JobFacts, LayoutFacts DEF slot_lba
  <2> QED  BY <1>1, <2>1, WriteOK, LayoutFacts DEF JobType
<1> QED
  BY <1>1, <1>2, <1>3, <1>4 DEF JobType

LEMMA InstalledBaselineRead ==
    ASSUME NEW d, DiskOK(d)
    PROVE  InstalledBaseline(d) = read_at(d, BASELINE_LBA)
BY LegacyPlace, NoLegacy DEF InstalledBaseline, OrElse

LEMMA BaselineInvStep == IInv /\ IInv' /\ BaselineInv /\ [Next]_vars => BaselineInv'
<1> SUFFICES ASSUME IInv, IInv', BaselineInv, [Next]_vars PROVE BaselineInv'
  OBVIOUS
<1>1. CASE initialize
  <2>1. job' = Idle /\ disk' = disk
    BY <1>1 DEF initialize, IInv, JobInv
  <2>2. store'.baseline = "Missing" => disk[BASELINE_LBA] = Blank
    BY <1>1 DEF initialize, region_is_blank
  <2> QED  BY <2>1, <2>2 DEF BaselineInv, Idle
<1>2. CASE BeginCommit \/ restore_checkpoint \/ restore_baseline \/ record_checkpoint
  BY <1>2 DEF BeginCommit, restore_checkpoint, restore_baseline, record_checkpoint,
              StartCommit, BaselineInv
<1>3. CASE establish_baseline
  BY <1>3 DEF establish_baseline, BaselineInv, Idle
<1>4. CASE write_sector
  <2>1. /\ job # Idle /\ job.step < JobSectors /\ disk' = WithNextSector
        /\ job' = [job EXCEPT !.step = @ + 1] /\ store' = store /\ phase' = phase
        /\ job \in JobType
    BY <1>4 DEF write_sector, IInv, TypeOK
  <2>2. job'.op = job.op /\ job'.step = job.step + 1 /\ JobSectors' = JobSectors
    BY <2>1 DEF JobType, JobSectors
  <2>3. ASSUME job.op # "baseline" PROVE disk'[BASELINE_LBA] = disk[BASELINE_LBA]
    BY <2>1, <2>3, BaselineHeaderWrite
  <2>4. ASSUME job.op = "baseline", job.step + 1 < JobSectors
        PROVE  disk'[BASELINE_LBA] = disk[BASELINE_LBA]
    BY <2>1, <2>4, BaselineHeaderWrite
  <2> QED  BY <2>1, <2>2, <2>3, <2>4 DEF BaselineInv
<1>5. CASE write_error
  <2>1. /\ job # Idle /\ job.step < JobSectors /\ disk' \in {disk, WithNextSector}
        /\ job' = Idle /\ store' = store /\ phase' = phase
    BY <1>5 DEF write_error
  <2>2. ASSUME phase = "starting" PROVE disk'[BASELINE_LBA] = disk[BASELINE_LBA]
    BY <2>1, <2>2, BaselineHeaderWrite DEF BaselineInv
  <2> QED  BY <2>1, <2>2 DEF BaselineInv, Idle
<1>6. CASE verify_write \/ verify_error
  <2>1. /\ disk' = disk /\ job' = Idle /\ job \in JobType
        /\ phase' \in {phase, "off"} /\ store \in StoreType
    BY <1>6 DEF verify_write, verify_error, IInv, TypeOK
  <2>2. phase' = "starting" => phase = "starting" /\ store'.baseline = store.baseline
    BY <1>6, <2>1 DEF verify_write, verify_error, Published, BaselineInv, JobType, StoreType
  <2> QED  BY <2>1, <2>2 DEF BaselineInv, Idle
<1>7. CASE crash
  BY <1>7 DEF crash, BaselineInv, Idle
<1>8. CASE UNCHANGED vars
  BY <1>8 DEF vars, BaselineInv, JobSectors
<1> QED
  BY <1>1, <1>2, <1>3, <1>4, <1>5, <1>6, <1>7, <1>8 DEF Next

LEMMA BaselineStep ==
    ASSUME IInv, BaselineInv, [Next]_vars, InstalledBaseline(disk) # NotDecoded
    PROVE  InstalledBaseline(disk') = InstalledBaseline(disk)
<1>1. CASE disk' = disk
  BY <1>1
<1>2. CASE disk' # disk
  <2>1. job # Idle /\ job.step < JobSectors /\ disk' = WithNextSector
    BY <1>2, DiskStep
  <2>2. DiskOK(disk) /\ DiskOK(disk')
    BY <2>1, WriteOK DEF IInv
  <2>3. job.op # "baseline"
    <3>1. disk[BASELINE_LBA] = Blank => read_at(disk, BASELINE_LBA) = NotDecoded
      BY DEF read_at, decode_slot, Blank
    <3> QED  BY <2>1, <2>2, <3>1, InstalledBaselineRead DEF BaselineInv
  <2>4. job \in JobType /\ job.base + SLOT_SECTORS <= BASELINE_LBA
    <3>1. CASE job.op = "checkpoint"
      BY <2>1, <3>1, JobFacts, CheckpointPlace DEF IInv, JobInv
    <3>2. CASE job.op \in {"commit", "restore"}
      BY <2>1, <3>2, JobFacts, LayoutFacts DEF slot_lba
    <3> QED  BY <2>1, <2>3, <3>1, <3>2, JobFacts DEF JobType
  <2>5. read_at(disk', BASELINE_LBA) = read_at(disk, BASELINE_LBA)
    BY <2>1, <2>4, WriteFrame, LayoutFacts DEF JobType
  <2> QED  BY <2>2, <2>5, InstalledBaselineRead
<1> QED
  BY <1>1, <1>2

\* Once the installation baseline is on the disk, nothing the kernel does, no
\* crash and no media error changes it.
THEOREM BaselineNeverOverwritten == Spec => BaselineImmutable
<1>1. Init => BaselineInv
  BY DEF Init, BaselineInv, Idle
<1>2. Spec => []BaselineInv
  BY <1>1, BaselineInvStep, Invariance, PTL DEF Spec
<1>3. IInv /\ BaselineInv /\ [Next]_vars =>
        [InstalledBaseline(disk) # NotDecoded
          => InstalledBaseline(disk') = InstalledBaseline(disk)]_vars
  BY BaselineStep
<1> QED
  BY <1>2, <1>3, Invariance, PTL DEF Spec, BaselineImmutable

-----------------------------------------------------------------------------
(* An interrupted creation of the baseline is tried again.                 *)

\* A baseline with a header is whole: the payload of a creation is in place,
\* sector by sector, before its header is written.
WholeInv ==
    /\ disk[BASELINE_LBA] # Blank => read_at(disk, BASELINE_LBA) # NotDecoded
    /\ job.op = "baseline" =>
         \A i \in 1..(JobSectors - 1) :
            i <= job.step => disk[job.base + i] = Encoded(job.snap, job.tag, 3, i)
    /\ InterruptedBaselineRetried

\* The sector a creation writes next.
LEMMA CreationWrite ==
    ASSUME IInv, job # Idle, job.step < JobSectors, job.op = "baseline"
    PROVE  /\ job \in JobType /\ job.base = BASELINE_LBA /\ JobSectors \in 1..SLOT_SECTORS
           /\ \A i \in 0..(JobSectors - 1) :
                WithNextSector[BASELINE_LBA + i] =
                  IF i = SectorIndex(job.step, JobSectors)
                    THEN Encoded(job.snap, job.tag, 3, i) ELSE disk[BASELINE_LBA + i]
<1> DEFINE index == SectorIndex(job.step, JobSectors)
           sector == Encoded(job.snap, job.tag, 3, index)
<1>1. /\ job \in JobType /\ job.base = BASELINE_LBA /\ JobSectors \in 1..SLOT_SECTORS
      /\ index \in 0..(JobSectors - 1) /\ DiskOK(disk)
  BY JobFacts DEF IInv, JobInv
<1>2. WithNextSector = [disk EXCEPT ![BASELINE_LBA + index] = sector]
  BY <1>1 DEF WithNextSector
<1>3. ASSUME NEW i \in 0..(JobSectors - 1)
      PROVE  WithNextSector[BASELINE_LBA + i] =
               IF i = index THEN Encoded(job.snap, job.tag, 3, i) ELSE disk[BASELINE_LBA + i]
  <2>1. BASELINE_LBA + i \in 0..(DiskSectors - 1)
    BY <1>1, LayoutFacts
  <2>2. BASELINE_LBA + i = BASELINE_LBA + index <=> i = index
    BY <1>1, LayoutFacts
  <2> HIDE DEF index
  <2> QED  BY <1>1, <1>2, <2>1, <2>2 DEF DiskOK
<1> QED  BY <1>1, <1>3

\* A creation's write keeps a headed baseline whole and adds to its prefix.
LEMMA CreationKeeps ==
    ASSUME IInv, BaselineInv, WholeInv, job # Idle, job.step < JobSectors,
           job.op = "baseline"
    PROVE  /\ WithNextSector[BASELINE_LBA] # Blank
                => read_at(WithNextSector, BASELINE_LBA) # NotDecoded
           /\ \A i \in 1..(JobSectors - 1) : i <= job.step + 1
                => WithNextSector[BASELINE_LBA + i] = Encoded(job.snap, job.tag, 3, i)
<1> DEFINE d == WithNextSector
           index == SectorIndex(job.step, JobSectors)
<1>1. /\ job \in JobType /\ job.base = BASELINE_LBA /\ JobSectors \in 1..SLOT_SECTORS
      /\ \A i \in 0..(JobSectors - 1) :
           d[BASELINE_LBA + i] = IF i = index THEN Encoded(job.snap, job.tag, 3, i)
                                 ELSE disk[BASELINE_LBA + i]
  BY CreationWrite
<1>2. /\ \A i \in 1..(JobSectors - 1) :
           i <= job.step => disk[BASELINE_LBA + i] = Encoded(job.snap, job.tag, 3, i)
      /\ disk[BASELINE_LBA] = Blank
  BY <1>1 DEF WholeInv, BaselineInv
<1>3. index = IF job.step + 1 = JobSectors THEN 0 ELSE job.step + 1
  <2>1. job.step \in Nat /\ JobSectors \in Nat \ {0} /\ job.step < JobSectors
    BY <1>1 DEF JobType
  <2> QED  BY <2>1 DEF SectorIndex
<1> HIDE DEF d, index
<1>4. ASSUME NEW i \in 1..(JobSectors - 1), i <= job.step + 1
      PROVE  d[BASELINE_LBA + i] = Encoded(job.snap, job.tag, 3, i)
  <2>1. i \in 0..(JobSectors - 1) /\ job.step \in Nat
    BY <1>1 DEF JobType
  <2>2. i = index \/ i <= job.step
    BY <1>1, <1>3, <1>4, <2>1
  <2> QED  BY <1>1, <1>2, <2>1, <2>2
<1>5. d[BASELINE_LBA] = IF index = 0 THEN Encoded(job.snap, job.tag, 3, 0) ELSE Blank
  <2>1. 0 \in 0..(JobSectors - 1) /\ BASELINE_LBA + 0 = BASELINE_LBA
    BY <1>1, LayoutFacts
  <2> QED  BY <1>1, <1>2, <2>1
<1>6. ASSUME d[BASELINE_LBA] # Blank PROVE read_at(d, BASELINE_LBA) # NotDecoded
  <2>1. index = 0 /\ job.step + 1 = JobSectors
    BY <1>1, <1>3, <1>5, <1>6 DEF JobType
  <2>2. d[BASELINE_LBA] = Encoded(job.snap, job.tag, 3, 0)
    BY <1>5, <2>1
  <2>3. \A i \in 1..(JobSectors - 1) :
          d[BASELINE_LBA + i] = Encoded(job.snap, job.tag, 3, i)
    BY <1>1, <1>4, <2>1 DEF JobType
  <2>4. decode_slot(d, BASELINE_LBA)
    BY <1>1, <2>2, <2>3 DEF decode_slot, SectorCount, Encoded, JobSectors
  <2>5. read_at(d, BASELINE_LBA).snapshot = job.snap
    BY <2>2, <2>4 DEF read_at, Encoded
  <2> QED  BY <1>1, <2>5, SnapshotAssumption DEF NotDecoded, JobType
<1> QED  BY <1>4, <1>6 DEF d

\* Whatever a step writes, a baseline with a header stays whole.
LEMMA HeaderedIsWhole ==
    ASSUME IInv, IInv', BaselineInv, WholeInv, [Next]_vars
    PROVE  disk'[BASELINE_LBA] # Blank => read_at(disk', BASELINE_LBA) # NotDecoded
<1>1. CASE disk' = disk
  BY <1>1 DEF WholeInv
<1>2. CASE disk' # disk
  <2>1. job # Idle /\ job.step < JobSectors /\ disk' = WithNextSector
    BY <1>2, DiskStep
  <2>2. CASE job.op = "baseline"
    BY <2>1, <2>2, CreationKeeps
  <2>3. CASE job.op # "baseline"
    <3>1. disk'[BASELINE_LBA] = disk[BASELINE_LBA]
      BY <2>1, <2>3, BaselineHeaderWrite
    <3>2. DiskOK(disk) /\ DiskOK(disk')
      BY DEF IInv
    <3> QED  BY <3>1, <3>2, BaselineStep, InstalledBaselineRead DEF WholeInv
  <2> QED  BY <2>2, <2>3
<1> QED  BY <1>1, <1>2

LEMMA WholeInvStep ==
    IInv /\ IInv' /\ BaselineInv /\ WholeInv /\ [Next]_vars => WholeInv'
<1> SUFFICES ASSUME IInv, IInv', BaselineInv, WholeInv, [Next]_vars PROVE WholeInv'
  OBVIOUS
<1> DEFINE Whole == disk[BASELINE_LBA] # Blank => read_at(disk, BASELINE_LBA) # NotDecoded
           Prefix == job.op = "baseline" =>
                       \A i \in 1..(JobSectors - 1) :
                          i <= job.step => disk[job.base + i] = Encoded(job.snap, job.tag, 3, i)
<1>w. Whole'
  BY HeaderedIsWhole
<1>e. SUFFICES Prefix' /\ InterruptedBaselineRetried'
  BY <1>w DEF WholeInv
<1>0. Idle.op # "baseline"
  BY DEF Idle
<1>1. CASE initialize
  <2>1. job' = Idle /\ DiskOK(disk)
    BY <1>1 DEF initialize, IInv, JobInv
  <2>2. store'.baseline # "Damaged"
    <3>1. InstalledBaseline(disk) = read_at(disk, BASELINE_LBA)
      BY <2>1, InstalledBaselineRead
    <3> QED  BY <1>1, <3>1 DEF initialize, region_is_blank, WholeInv
  <2> QED  BY <1>0, <2>1, <2>2 DEF InterruptedBaselineRetried
<1>2. CASE BeginCommit \/ restore_checkpoint \/ restore_baseline \/ record_checkpoint
  <2>1. job'.op # "baseline" /\ store' = store /\ phase' = phase
    BY <1>2 DEF BeginCommit, restore_checkpoint, restore_baseline, record_checkpoint,
                StartCommit
  <2> QED  BY <2>1 DEF WholeInv, InterruptedBaselineRetried
<1>3. CASE establish_baseline
  <2>1. phase' = "running" /\ (job'.op = "baseline" => job'.step = 0)
    BY <1>0, <1>3 DEF establish_baseline
  <2> QED  BY <2>1 DEF InterruptedBaselineRetried
<1>4. CASE write_sector
  <2>1. /\ job # Idle /\ job.step < JobSectors /\ disk' = WithNextSector
        /\ job' = [job EXCEPT !.step = @ + 1] /\ store' = store /\ phase' = phase
        /\ job \in JobType
    BY <1>4 DEF write_sector, IInv, TypeOK
  <2>2. /\ job'.op = job.op /\ job'.step = job.step + 1 /\ JobSectors' = JobSectors
        /\ job'.base = job.base /\ job'.snap = job.snap /\ job'.tag = job.tag
    BY <2>1 DEF JobType, JobSectors
  <2>3. ASSUME job.op = "baseline"
        PROVE  /\ job.base = BASELINE_LBA
               /\ \A i \in 1..(JobSectors - 1) : i <= job.step + 1
                    => WithNextSector[BASELINE_LBA + i] = Encoded(job.snap, job.tag, 3, i)
    BY <2>1, <2>3, CreationKeeps, CreationWrite
  <2>4. Prefix'
    BY <2>1, <2>2, <2>3
  <2> QED  BY <2>1, <2>4 DEF WholeInv, InterruptedBaselineRetried
<1>5. CASE write_error
  BY <1>0, <1>5 DEF write_error, WholeInv, InterruptedBaselineRetried
<1>6. CASE verify_write \/ verify_error
  <2>1. /\ job' = Idle /\ job \in JobType /\ phase' \in {phase, "off"} /\ store \in StoreType
    BY <1>6 DEF verify_write, verify_error, IInv, TypeOK
  <2>2. phase' = "starting" => phase = "starting" /\ store'.baseline = store.baseline
    BY <1>6, <2>1 DEF verify_write, verify_error, Published, BaselineInv, JobType, StoreType
  <2> QED  BY <1>0, <2>1, <2>2 DEF WholeInv, InterruptedBaselineRetried
<1>7. CASE crash
  BY <1>0, <1>7 DEF crash, InterruptedBaselineRetried
<1>8. CASE UNCHANGED vars
  BY <1>8 DEF vars, WholeInv, InterruptedBaselineRetried, JobSectors
<1> QED
  BY <1>1, <1>2, <1>3, <1>4, <1>5, <1>6, <1>7, <1>8 DEF Next

\* Once the installation baseline is on the disk nothing changes it, and a
\* creation that a crash or a media error cut short leaves a disk on which the
\* next boot finds no baseline or a good one, never a damaged one.
THEOREM BaselineCreatedOnce == Spec => BaselineKept
<1>1. Init => BaselineInv /\ WholeInv
  <2>1. ASSUME Init PROVE disk[BASELINE_LBA] = Blank
    BY <2>1, LayoutFacts, LayoutAssumption DEF Init
  <2> QED  BY <2>1 DEF Init, BaselineInv, WholeInv, Idle, InterruptedBaselineRetried
<1>2. Spec => []BaselineInv
  BY <1>1, BaselineInvStep, Invariance, PTL DEF Spec
<1>3. Spec => []WholeInv
  BY <1>1, <1>2, WholeInvStep, Invariance, PTL DEF Spec
<1>4. WholeInv => InterruptedBaselineRetried
  BY DEF WholeInv
<1> QED
  BY <1>3, <1>4, BaselineNeverOverwritten, PTL DEF BaselineKept
=============================================================================
