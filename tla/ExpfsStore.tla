----------------------------- MODULE ExpfsStore -----------------------------
(***************************************************************************)
(* The disk-backed ExpFS database of the kernel (kernel/src/expfs_store.rs)*)
(* at the granularity of one sector write.  Two alternating slots hold the *)
(* current CFC snapshot, a ring of slots holds checkpoints, and one slot   *)
(* holds the protected installation baseline.  A snapshot is an opaque     *)
(* token; its encoding is a list of sectors whose first one is the header. *)
(*                                                                         *)
(* The store lock (static STORE) is held for the whole of an operation, so *)
(* at most one write job exists; power may fail between any two sector     *)
(* writes, and a sector write or the read-back may report an error.        *)
(***************************************************************************)
EXTENDS Integers

CONSTANTS
    Snapshots,            \* snapshot contents, opaque tokens
    NoSnapshot,           \* Option::None
    SectorsOf,            \* sectors the version-3 encoding of a snapshot takes
    SLOT_SECTORS,         \* sectors of one version-3 slot
    LEGACY_SLOT_SECTORS,  \* sectors of one version-1/2 slot
    CHECKPOINT_CAPACITY,  \* slots of the checkpoint ring
    GenerationModulus,    \* 2^64 in the code: generations wrap
    MaxStateId,           \* bound on checkpoint state ids (u64 in the code)
    Encrypted,            \* payload sectors are sealed under their generation
    MediaFaults           \* sector writes and the read-back may fail

ASSUME LayoutAssumption ==
    /\ SLOT_SECTORS \in Nat /\ LEGACY_SLOT_SECTORS \in Nat \ {0}
    /\ LEGACY_SLOT_SECTORS < SLOT_SECTORS
    /\ CHECKPOINT_CAPACITY \in Nat \ {0}

ASSUME SnapshotAssumption ==
    /\ NoSnapshot \notin Snapshots
    /\ SectorsOf \in [Snapshots -> 1..SLOT_SECTORS]

ASSUME CounterAssumption ==
    /\ GenerationModulus \in Nat /\ GenerationModulus > 5
    /\ MaxStateId \in Nat
    /\ Encrypted \in BOOLEAN /\ MediaFaults \in BOOLEAN

-----------------------------------------------------------------------------
(* The disk layout, counted from SLOT_A_LBA.                               *)

SLOT_A_LBA == 0
SLOT_B_LBA == SLOT_A_LBA + SLOT_SECTORS
CHECKPOINT_LBA == SLOT_B_LBA + SLOT_SECTORS
\* Mutant: the ring counted with one slot too few.
MutantBaselineInRing == CHECKPOINT_LBA + (CHECKPOINT_CAPACITY - 1) * SLOT_SECTORS
BASELINE_LBA == CHECKPOINT_LBA + CHECKPOINT_CAPACITY * SLOT_SECTORS
DiskSectors == BASELINE_LBA + SLOT_SECTORS

LEGACY_SLOT_B_LBA == SLOT_A_LBA + LEGACY_SLOT_SECTORS
LEGACY_CHECKPOINT_LBA == LEGACY_SLOT_B_LBA + LEGACY_SLOT_SECTORS
LEGACY_BASELINE_LBA ==
    LEGACY_CHECKPOINT_LBA + CHECKPOINT_CAPACITY * LEGACY_SLOT_SECTORS

slot_lba(slot) == IF slot = 0 THEN SLOT_A_LBA ELSE SLOT_B_LBA
checkpoint_lba(index) == CHECKPOINT_LBA + index * SLOT_SECTORS
legacy_slot_lba(slot) == IF slot = 0 THEN SLOT_A_LBA ELSE LEGACY_SLOT_B_LBA
legacy_checkpoint_lba(index) ==
    LEGACY_CHECKPOINT_LBA + index * LEGACY_SLOT_SECTORS

Slots == {0, 1}
Checkpoints == 0..(CHECKPOINT_CAPACITY - 1)
Generations == 0..(GenerationModulus - 1)

-----------------------------------------------------------------------------
(* Encoding.  A sector is known by the snapshot, format version and sector *)
(* index it encodes and, where the bytes depend on it, by the generation   *)
(* (state id of a checkpoint): the header always does, the payload only    *)
(* when the snapshot is sealed with AEAD.                                  *)

Blank == [snap |-> NoSnapshot, version |-> 0, index |-> 0, tag |-> 0]

SectorCount(snap, version) ==
    IF version = 3 THEN SectorsOf[snap] ELSE LEGACY_SLOT_SECTORS

\* Sector `index` of encode_slot(snap, tag).
Encoded(snap, tag, version, index) ==
    [snap |-> snap, version |-> version, index |-> index,
     tag |-> IF index = 0 \/ Encrypted THEN tag ELSE 0]

NotDecoded == [snapshot |-> NoSnapshot, generation |-> 0]

\* The checks of decode_slot: magic and lengths come from the header, the CRC
\* or AEAD tag admits exactly the sectors that were encoded with that header.
decode_slot(d, base) ==
    LET header == d[base] IN
    /\ header.version # 0
    /\ header.index = 0
    /\ \A i \in 1..(SectorCount(header.snap, header.version) - 1) :
         d[base + i] = Encoded(header.snap, header.tag, header.version, i)

read_at(d, base) ==
    IF decode_slot(d, base)
      THEN [snapshot |-> d[base].snap, generation |-> d[base].tag]
      ELSE NotDecoded

\* The legacy reader takes a full legacy slot and nothing shorter, which only
\* the fixed-size records of versions 1 and 2 fill.
read_legacy_at(d, base) ==
    IF d[base].version = 2 THEN read_at(d, base) ELSE NotDecoded

OrElse(first, second) == IF first = NotDecoded THEN second ELSE first

read_slot(d, slot) ==
    OrElse(read_at(d, slot_lba(slot)), read_legacy_at(d, legacy_slot_lba(slot)))

\* Mutant: generations compared as numbers.
MutantNumericOrder(second, first) == second > first

\* Generations are compared modulo the width of the counter.
IsNewer(second, first) ==
    /\ second # first
    /\ (second - first) % GenerationModulus < GenerationModulus \div 2

\* The slot `newest` selects.
newest(first, second) ==
    IF /\ second # NotDecoded
       /\ first = NotDecoded \/ IsNewer(second.generation, first.generation)
      THEN 1 ELSE 0

\* What initialize() loads from a disk.
Loaded(d) ==
    LET first == read_slot(d, 0)
        second == read_slot(d, 1)
    IN  IF newest(first, second) = 0 THEN first ELSE second

\* The protected baseline a disk holds.
InstalledBaseline(d) ==
    OrElse(read_at(d, BASELINE_LBA), read_legacy_at(d, LEGACY_BASELINE_LBA))

region_is_blank(d, base) == d[base] = Blank

-----------------------------------------------------------------------------
VARIABLES
    disk,   \* [LBA -> sector], survives a crash
    store,  \* RuntimeStore under the STORE lock
    job,    \* the write in progress while the lock is held
    phase   \* "off"; "starting" until establish_baseline; then "running"

vars == <<disk, store, job, phase>>

NoCheckpoint == [state_id |-> 0, legacy |-> FALSE]

RuntimeStore_new ==
    [snapshot |-> NoSnapshot, generation |-> 0, active_slot |-> 1,
     checkpoints |-> [i \in Checkpoints |-> NoCheckpoint],
     baseline |-> "Missing", baseline_lba |-> BASELINE_LBA]

Idle == [op |-> "idle", base |-> 0, slot |-> 0, snap |-> NoSnapshot,
         tag |-> 0, step |-> 0]

StoreType ==
    [snapshot : Snapshots \cup {NoSnapshot}, generation : Generations,
     active_slot : Slots,
     checkpoints : [Checkpoints -> [state_id : Nat, legacy : BOOLEAN]],
     baseline : {"Missing", "Ready", "Damaged"}, baseline_lba : Nat]

JobType ==
    [op : {"commit", "restore", "checkpoint", "baseline"}, base : Nat,
     slot : Nat, snap : Snapshots, tag : Nat, step : Nat]

SectorType ==
    [snap : Snapshots, version : {2, 3}, index : 0..(SLOT_SECTORS - 1), tag : Nat]

\* Every variable keeps its shape; a job never writes past its encoding.
TypeOK ==
    /\ disk \in [0..(DiskSectors - 1) -> SectorType \cup {Blank}]
    /\ store \in StoreType
    /\ job \in JobType \cup {Idle}
    /\ job # Idle => job.step <= SectorsOf[job.snap]
    /\ phase \in {"off", "starting", "running"}

-----------------------------------------------------------------------------
Init ==
    /\ disk = [lba \in 0..(DiskSectors - 1) |-> Blank]
    /\ store = RuntimeStore_new
    /\ job = Idle
    /\ phase = "off"

\* A disk written by the version-2 kernel: generations 1 and 2 in the legacy
\* slots (the newer one in either), every legacy checkpoint and the baseline.
LegacyDisk(snap, newer) ==
    LET Region(lba) == lba \div LEGACY_SLOT_SECTORS
        Tag(region) == CASE region = 0 -> 2 - newer
                         [] region = 1 -> 1 + newer
                         [] region < 2 + CHECKPOINT_CAPACITY -> region - 1
                         [] OTHER -> 1
    IN  [lba \in 0..(DiskSectors - 1) |->
            IF Region(lba) <= 2 + CHECKPOINT_CAPACITY
              THEN Encoded(snap, Tag(Region(lba)), 2, lba % LEGACY_SLOT_SECTORS)
              ELSE Blank]

LegacyInit ==
    /\ \E snap \in Snapshots, newer \in Slots : disk = LegacyDisk(snap, newer)
    /\ store = RuntimeStore_new
    /\ job = Idle
    /\ phase = "off"

-----------------------------------------------------------------------------
(* initialize(): select the newest slot, list the checkpoint ring, classify *)
(* the baseline.  A store without a decodable slot keeps its initial values.*)

LoadedCheckpoint(d, index) ==
    LET current == read_at(d, checkpoint_lba(index))
        legacy == read_legacy_at(d, legacy_checkpoint_lba(index))
    IN  [state_id |-> OrElse(current, legacy).generation,
         legacy |-> current = NotDecoded /\ legacy # NotDecoded]

initialize ==
    /\ phase = "off"
    /\ LET loaded == Loaded(disk)
           current == read_at(disk, BASELINE_LBA)
       IN  store' = [snapshot |-> loaded.snapshot,
                     generation |-> loaded.generation,
                     active_slot |-> IF loaded = NotDecoded THEN 1
                                     ELSE newest(read_slot(disk, 0), read_slot(disk, 1)),
                     checkpoints |-> [i \in Checkpoints |-> LoadedCheckpoint(disk, i)],
                     baseline |->
                        CASE InstalledBaseline(disk) # NotDecoded -> "Ready"
                          [] OTHER -> IF region_is_blank(disk, BASELINE_LBA)
                                        THEN "Missing" ELSE "Damaged",
                     baseline_lba |-> IF current = NotDecoded THEN LEGACY_BASELINE_LBA
                                      ELSE BASELINE_LBA]
    /\ phase' = "starting"
    /\ UNCHANGED <<disk, job>>

-----------------------------------------------------------------------------
(* Operations.  Each takes the lock, encodes, and leaves the sector loop of *)
(* write_at to the steps below.                                             *)

NextGeneration ==
    IF (store.generation + 1) % GenerationModulus = 0 THEN 1
    ELSE (store.generation + 1) % GenerationModulus

\* Mutant: the active slot is written in place.
MutantInPlace(op, snap) ==
    job' = [op |-> op, base |-> slot_lba(store.active_slot),
            slot |-> store.active_slot, snap |-> snap, tag |-> NextGeneration,
            step |-> 0]

StartCommit(op, snap) ==
    LET target_slot == 1 - store.active_slot IN
    job' = [op |-> op, base |-> slot_lba(target_slot), slot |-> target_slot,
            snap |-> snap, tag |-> NextGeneration, step |-> 0]

\* commit, commit_system_records, save_named_form, seed_genesis_plan and
\* commit_blob_stream: publish a new snapshot of the current state.
BeginCommit ==
    /\ phase # "off" /\ job = Idle
    /\ \E snap \in Snapshots : StartCommit("commit", snap)
    /\ UNCHANGED <<disk, store, phase>>

CheckpointIds == {store.checkpoints[i].state_id : i \in Checkpoints}

\* The first entry of the ring with the smallest id.  A free entry has id 0,
\* below every recorded id, so free entries come first.
RotationSlot(slot) ==
    \A j \in Checkpoints :
        LET id == store.checkpoints[slot].state_id
            other == store.checkpoints[j].state_id
        IN  id < other \/ (id = other /\ slot <= j)

record_checkpoint ==
    /\ phase = "running" /\ job = Idle
    /\ store.snapshot # NoSnapshot
    /\ \E slot \in Checkpoints, latest \in CheckpointIds :
         /\ RotationSlot(slot)
         /\ \A id \in CheckpointIds : id <= latest
         /\ latest < MaxStateId
         /\ job' = [op |-> "checkpoint", base |-> checkpoint_lba(slot),
                    slot |-> slot, snap |-> store.snapshot,
                    tag |-> latest + 1, step |-> 0]
    /\ UNCHANGED <<disk, store, phase>>

CheckpointRegion(d, index) ==
    IF store.checkpoints[index].legacy
      THEN read_legacy_at(d, legacy_checkpoint_lba(index))
      ELSE read_at(d, checkpoint_lba(index))

restore_checkpoint ==
    /\ phase = "running" /\ job = Idle
    /\ \E i \in Checkpoints :
         /\ store.checkpoints[i] # NoCheckpoint
         /\ CheckpointRegion(disk, i) # NotDecoded
         /\ StartCommit("restore", CheckpointRegion(disk, i).snapshot)
    /\ UNCHANGED <<disk, store, phase>>

BaselineRegion(d) ==
    IF store.baseline_lba = LEGACY_BASELINE_LBA
      THEN read_legacy_at(d, LEGACY_BASELINE_LBA)
      ELSE read_at(d, BASELINE_LBA)

restore_baseline ==
    /\ phase # "off" /\ job = Idle
    /\ store.baseline = "Ready"
    /\ BaselineRegion(disk) # NotDecoded
    /\ StartCommit("restore", BaselineRegion(disk).snapshot)
    /\ UNCHANGED <<disk, store, phase>>

\* Called once per boot, before the first session.
establish_baseline ==
    /\ phase = "starting" /\ job = Idle
    /\ phase' = "running"
    /\ job' = IF store.baseline = "Missing" /\ store.snapshot # NoSnapshot
                THEN [op |-> "baseline", base |-> BASELINE_LBA, slot |-> 0,
                      snap |-> store.snapshot,
                      tag |-> IF store.generation = 0 THEN 1 ELSE store.generation,
                      step |-> 0]
                ELSE Idle
    /\ UNCHANGED <<disk, store>>

-----------------------------------------------------------------------------
(* The sector loop of write_at, the read-back, and the end of an operation. *)

\* Sector zero, the header, is written last.
SectorIndex(step, sectors) == (step + 1) % sectors

JobSectors == SectorsOf[job.snap]

WithNextSector ==
    LET index == SectorIndex(job.step, JobSectors) IN
    [disk EXCEPT ![job.base + index] = Encoded(job.snap, job.tag, 3, index)]

write_sector ==
    /\ job # Idle
    /\ job.step < JobSectors
    /\ disk' = WithNextSector
    /\ job' = [job EXCEPT !.step = @ + 1]
    /\ UNCHANGED <<store, phase>>

\* write_sector reports an error; the sector may have reached the medium.  The
\* operation returns early and leaves the in-memory store as it was.
write_error ==
    /\ MediaFaults
    /\ job # Idle
    /\ job.step < JobSectors
    /\ disk' \in {disk, WithNextSector}
    /\ job' = Idle
    /\ UNCHANGED <<store, phase>>

Verified ==
    \A i \in 0..(JobSectors - 1) :
        disk[job.base + i] = Encoded(job.snap, job.tag, 3, i)

\* Mutant: a commit that leaves active_slot behind.
MutantSlotNotSwitched ==
    IF job.op = "commit"
      THEN [store EXCEPT !.snapshot = job.snap, !.generation = job.tag]
      ELSE store

\* The in-memory effect of a verified write.
Published ==
    CASE job.op = "checkpoint" ->
           [store EXCEPT !.checkpoints[job.slot] =
                            [state_id |-> job.tag, legacy |-> FALSE]]
      [] job.op = "baseline" ->
           [store EXCEPT !.baseline = "Ready", !.baseline_lba = BASELINE_LBA]
      [] OTHER ->
           [store EXCEPT !.snapshot = job.snap, !.generation = job.tag,
                         !.active_slot = job.slot]

\* A restored state is entered by rebooting (restorepoint, restorebaseline,
\* Genesis recovery).
verify_write ==
    /\ job # Idle
    /\ job.step = JobSectors
    /\ Verified
    /\ IF job.op = "restore"
         THEN store' = RuntimeStore_new /\ phase' = "off"
         ELSE store' = Published /\ phase' = phase
    /\ job' = Idle
    /\ UNCHANGED disk

verify_error ==
    /\ MediaFaults
    /\ job # Idle
    /\ job.step = JobSectors
    /\ store' = IF job.op = "baseline"
                  THEN [store EXCEPT !.baseline = "Damaged"] ELSE store
    /\ job' = Idle
    /\ UNCHANGED <<disk, phase>>

\* Power fails; the sector in flight is on the medium or it is not.
crash ==
    /\ phase # "off"
    /\ disk' \in IF job # Idle /\ job.step < JobSectors
                   THEN {disk, WithNextSector} ELSE {disk}
    /\ store' = RuntimeStore_new
    /\ job' = Idle
    /\ phase' = "off"

Next ==
    \/ initialize
    \/ BeginCommit
    \/ record_checkpoint
    \/ restore_checkpoint
    \/ restore_baseline
    \/ establish_baseline
    \/ write_sector
    \/ write_error
    \/ verify_write
    \/ verify_error
    \/ crash

Spec == Init /\ [][Next]_vars

\* The same kernel started on a disk that still has the legacy layout.
LegacySpec == LegacyInit /\ [][Next]_vars

-----------------------------------------------------------------------------
(* Properties.                                                              *)

\* The slot the running kernel believes current decodes, on the disk, to the
\* snapshot and generation it serves (or does not decode, when it serves none),
\* at every point of every operation: no write of commit, record_checkpoint or
\* establish_baseline touches it.
ActiveIntact ==
    phase # "off"
        => read_at(disk, slot_lba(store.active_slot)) =
             [snapshot |-> store.snapshot, generation |-> store.generation]

\* "Interruption cannot replace the previous valid generation with a partial
\* transaction": while a snapshot is loaded, every step leaves a disk from
\* which initialize() loads that snapshot, the one being committed, or the
\* one it would have loaded before.
PreviousSurvives ==
    [][(phase # "off" /\ store.snapshot # NoSnapshot)
          => Loaded(disk').snapshot \in
               {store.snapshot, job.snap, Loaded(disk).snapshot} \ {NoSnapshot}]_vars

\* "A present or damaged baseline is never overwritten": once a disk holds a
\* decodable baseline no operation, crash or reboot changes it.
BaselineImmutable ==
    [][InstalledBaseline(disk) # NotDecoded
          => InstalledBaseline(disk') = InstalledBaseline(disk)]_vars

\* Because the header is written last, creating the baseline can be cut short
\* anywhere and the next boot finds it either absent (and creates it) or
\* ready, never damaged for good.
InterruptedBaselineRetried == phase = "starting" => store.baseline # "Damaged"

\* The baseline is created once: an interrupted creation is tried again and a
\* finished one is never overwritten.
BaselineKept == []InterruptedBaselineRetried /\ BaselineImmutable

\* Whenever the lock is free, a listed checkpoint is on the disk under the id
\* it is listed with, so restorepoint <id> restores the state captured as id.
ListedCheckpointsRetained ==
    (phase = "running" /\ job = Idle)
        => \A i \in Checkpoints :
             store.checkpoints[i] # NoCheckpoint
               => CheckpointRegion(disk, i).generation = store.checkpoints[i].state_id

\* The sector-level store implements the atomic SnapshotStore.
Pending == IF job.op \in {"commit", "restore"} THEN job.snap ELSE NoSnapshot

Abstract == INSTANCE SnapshotStore WITH
    durable <- Loaded(disk).snapshot,
    visible <- store.snapshot,
    pending <- Pending,
    up <- phase # "off"

\* Commits, restores, failures, crashes and boots are steps of SnapshotStore:
\* a snapshot becomes durable in one step, the write of its header.
ImplementsSnapshotStore == Abstract!Spec
=============================================================================
