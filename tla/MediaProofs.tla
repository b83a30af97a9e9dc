---------------------------- MODULE MediaProofs ----------------------------
(***************************************************************************)
(* Proofs about the media library and its decoder.                         *)
(*                                                                         *)
(* MediaStore: an installed track always loads and what was reported done  *)
(* is found again, for any number of tracks, slots and chunks, wherever a  *)
(* write fails or the power goes.  The argument: a valid copy of the       *)
(* catalog lies at the parity of its generation, so the next generation    *)
(* never overwrites the current one (NextIsChosen); and while a track is   *)
(* being written its slot is one that the current catalog does not name.   *)
(*                                                                         *)
(* WaveDecoder: the resampling loop of decode_wave_to_stereo_48k is exact  *)
(* for every output rate, every source rate and every file: its position   *)
(* does not drift (PositionExact), and no frame is read twice or missed at *)
(* the end (PositionInData).                                               *)
(***************************************************************************)
EXTENDS MediaStore, WaveDecoder, SequenceTheorems, TLAPS

-----------------------------------------------------------------------------
(* The media store.                                                        *)


Catalogs ==
    [valid : BOOLEAN, generation : Nat, entries : [Tracks -> DataSlots \cup {NoSlot}]]
Contents == [DataSlots -> [SlotChunks -> Tracks \cup {Junk}]]
Disks == [copies : [{0, 1} -> Catalogs], slots : Contents]
Installers ==
    [phase : {"idle", "write", "flushed"}, track : Tracks \cup {Junk},
     slot : DataSlots \cup {NoSlot}, base : Nat, written : Nat]

MediaType ==
    /\ cached \in Disks /\ settled \in Disks
    /\ installer \in Installers
    /\ doubt \in BOOLEAN
    /\ told \in [Tracks -> {"installed", "removed", "unknown"}]

\* The copies as write_catalog leaves them.
SoundCopies(copies) ==
    \A i \in {0, 1} :
        copies[i].valid => decode_catalog(copies[i]) /\ copies[i].generation % 2 = i

Names(catalog, slot) == \E t \in Tracks : catalog.entries[t] = slot
\* The slots a catalog names hold their tracks.
Holds(slots, catalog) ==
    \A t \in Tracks : catalog.entries[t] # NoSlot => slots[catalog.entries[t]] = Data(t)

InstallerSound ==
    installer # NoInstaller =>
        /\ installer.phase \in {"write", "flushed"}
        /\ installer.track \in Tracks /\ installer.slot \in DataSlots
        /\ ~Names(Current(cached), installer.slot)
        /\ installer.phase = "flushed" =>
             /\ cached.slots[installer.slot] = Data(installer.track)
             /\ settled.slots[installer.slot] = Data(installer.track)

Believed ==
    \A t \in Tracks : /\ told[t] = "installed" => Current(cached).entries[t] # NoSlot
                      /\ told[t] = "removed" => Current(cached).entries[t] = NoSlot

MediaInv ==
    /\ MediaType
    /\ ~doubt => /\ cached.copies = settled.copies
                 /\ SoundCopies(cached.copies)
                 /\ Holds(cached.slots, Current(cached))
                 /\ Holds(settled.slots, Current(cached))
                 /\ InstallerSound
                 /\ Believed

-----------------------------------------------------------------------------
(* Catalogs and copies.                                                    *)

LEMMA BadIsCatalog == Bad \in Catalogs /\ EmptyCatalog \in Catalogs /\ ~decode_catalog(Bad)
  BY DEF Bad, EmptyCatalog, Catalogs, decode_catalog

LEMMA ChosenIsCatalog ==
    ASSUME NEW copies \in [{0, 1} -> Catalogs], NEW readable
    PROVE  Chosen(copies, readable) \in Catalogs
  BY BadIsCatalog DEF Chosen

LEMMA ChosenDecodes ==
    ASSUME NEW copies \in [{0, 1} -> Catalogs], NEW readable
    PROVE  decode_catalog(Chosen(copies, readable))
<1>1. decode_catalog(EmptyCatalog)
  BY DEF decode_catalog, EmptyCatalog, Bad
<1> QED
  BY <1>1 DEF Chosen, ReadableCopies

\* The catalog that follows the current one goes to the other copy: written, it is
\* the one chosen; torn, the current one still is.
LEMMA NextIsChosen ==
    ASSUME NEW copies \in [{0, 1} -> Catalogs], SoundCopies(copies),
           NEW next \in Catalogs, decode_catalog(next),
           next.generation = Chosen(copies, {0, 1}).generation + 1
    PROVE  LET k == CopyOf(next.generation) IN
           /\ k \in {0, 1}
           /\ Chosen([copies EXCEPT ![k] = next], {0, 1}) = next
           /\ Chosen([copies EXCEPT ![k] = Bad], {0, 1}) = Chosen(copies, {0, 1})
           /\ SoundCopies([copies EXCEPT ![k] = next])
           /\ SoundCopies([copies EXCEPT ![k] = Bad])
<1> DEFINE k == CopyOf(next.generation)
           cur == Chosen(copies, {0, 1})
           new == [copies EXCEPT ![k] = next]
           torn == [copies EXCEPT ![k] = Bad]
<1>1. next.generation \in Nat /\ cur.generation \in Nat
  BY ChosenIsCatalog DEF Catalogs
<1>2. k \in {0, 1} /\ k = next.generation % 2
  BY <1>1, SMT DEF CopyOf
<1>3. new[k] = next /\ new[1 - k] = copies[1 - k] /\ torn[k] = Bad /\ torn[1 - k] = copies[1 - k]
  BY <1>2
<1>4. \A i \in {0, 1} : decode_catalog(copies[i]) <=> copies[i].valid
  BY DEF SoundCopies, decode_catalog
<1>5. copies[0] \in Catalogs /\ copies[1] \in Catalogs
      /\ copies[0].generation \in Nat /\ copies[1].generation \in Nat
  BY DEF Catalogs
<1>6. EmptyCatalog.generation = 0
  BY DEF EmptyCatalog, Bad
<1>7. SoundCopies(new) /\ SoundCopies(torn)
  BY <1>2, <1>3, <1>1 DEF SoundCopies, Bad
<1>8. CASE k = 0
  <2>1. cur.generation % 2 = 1 /\ next.generation % 2 = 0
    BY <1>1, <1>2, <1>8, SMT
  <2>2. decode_catalog(copies[0]) => copies[0].generation % 2 = 0
    BY <1>4 DEF SoundCopies
  <2>3. cur = copies[1] /\ decode_catalog(copies[1])
    BY <2>1, <2>2, <1>6, SMT DEF Chosen, ReadableCopies
  <2>4. ~(next.generation < copies[1].generation)
    BY <2>3, <1>1
  <2>5. Chosen(new, {0, 1}) = next
    BY <1>3, <1>8, <2>3, <2>4 DEF Chosen, ReadableCopies
  <2>6. Chosen(torn, {0, 1}) = cur
    BY <1>3, <1>8, <2>3, BadIsCatalog DEF Chosen, ReadableCopies
  <2> QED
    BY <1>2, <1>7, <2>5, <2>6
<1>9. CASE k = 1
  <2>1. cur.generation % 2 = 0 /\ next.generation % 2 = 1
    BY <1>1, <1>2, <1>9, SMT
  <2>2. decode_catalog(copies[1]) => copies[1].generation % 2 = 1
    BY <1>4 DEF SoundCopies
  <2>3. CASE decode_catalog(copies[0])
    <3>1. cur = copies[0]
      BY <2>1, <2>2, <2>3, SMT DEF Chosen, ReadableCopies
    <3>2. copies[0].generation < next.generation
      BY <3>1, <1>1, <1>5
    <3>3. Chosen(new, {0, 1}) = next
      BY <1>3, <1>9, <2>3, <3>2 DEF Chosen, ReadableCopies
    <3>4. Chosen(torn, {0, 1}) = cur
      BY <1>3, <1>9, <2>3, <3>1, BadIsCatalog DEF Chosen, ReadableCopies
    <3> QED
      BY <1>2, <1>7, <3>3, <3>4
  <2>4. CASE ~decode_catalog(copies[0])
    <3>1. ~decode_catalog(copies[1]) /\ cur = EmptyCatalog
      BY <2>1, <2>2, <2>4, SMT DEF Chosen, ReadableCopies
    <3>2. Chosen(new, {0, 1}) = next
      BY <1>3, <1>9, <2>4 DEF Chosen, ReadableCopies
    <3>3. Chosen(torn, {0, 1}) = cur
      BY <1>3, <1>9, <2>4, <3>1, BadIsCatalog DEF Chosen, ReadableCopies
    <3> QED
      BY <1>2, <1>7, <3>2, <3>3
  <2> QED
    BY <2>3, <2>4
<1> QED
  BY <1>2, <1>8, <1>9

-----------------------------------------------------------------------------
(* One write of the catalog.                                               *)

LEMMA NextCatalogIs ==
    ASSUME NEW catalog \in Catalogs, catalog.valid, NEW track \in Tracks,
           NEW slot \in DataSlots \cup {NoSlot}
    PROVE  LET next == NextCatalog(catalog, track, slot) IN
           /\ next \in Catalogs
           /\ next.valid
           /\ next.generation = catalog.generation + 1
           /\ next.entries[track] = slot
           /\ \A t \in Tracks \ {track} : next.entries[t] = catalog.entries[t]
<1> DEFINE entries == [catalog.entries EXCEPT ![track] = slot]
           next == NextCatalog(catalog, track, slot)
<1>1. catalog.entries \in [Tracks -> DataSlots \cup {NoSlot}] /\ catalog.generation \in Nat
  BY DEF Catalogs
<1>2. next = [valid |-> TRUE, generation |-> catalog.generation + 1, entries |-> entries]
  <2> DEFINE g == catalog.generation + 1
             counted == [catalog EXCEPT !.generation = g]
  <2>1. g \in Nat /\ counted \in Catalogs /\ counted.valid = TRUE /\ counted.generation = g
    BY <1>1 DEF Catalogs
  <2>2. next = [counted EXCEPT !.entries = entries]
    BY <1>1 DEF NextCatalog, Catalogs
  <2> HIDE DEF next, entries, counted
  <2>3. next = [valid |-> TRUE, generation |-> g, entries |-> entries]
    BY <2>1, <2>2 DEF Catalogs
  <2> QED
    BY <2>3
<1>3. entries \in [Tracks -> DataSlots \cup {NoSlot}] /\ entries[track] = slot
      /\ \A t \in Tracks \ {track} : entries[t] = catalog.entries[t]
  BY <1>1
<1> HIDE DEF entries, next
<1>4. next \in Catalogs
  BY <1>1, <1>2, <1>3 DEF Catalogs
<1>5. next.valid /\ next.entries = entries /\ next.generation = catalog.generation + 1
  BY <1>2
<1> QED
  BY <1>3, <1>4, <1>5 DEF next

LEMMA NextCatalogDecodes ==
    ASSUME NEW catalog \in Catalogs, decode_catalog(catalog), NEW track \in Tracks,
           NEW slot \in DataSlots \cup {NoSlot}, slot # NoSlot => ~Names(catalog, slot)
    PROVE  decode_catalog(NextCatalog(catalog, track, slot))
<1> DEFINE next == NextCatalog(catalog, track, slot)
<1>1. catalog.valid
  BY DEF decode_catalog
<1>2. /\ next.valid
      /\ next.entries[track] = slot
      /\ \A t \in Tracks \ {track} : next.entries[t] = catalog.entries[t]
  BY <1>1, NextCatalogIs
<1> HIDE DEF next
<1>3. decode_catalog(next)
  BY <1>2 DEF decode_catalog, Names
<1> QED
  BY <1>3 DEF next

LEMMA WithCopyIs ==
    ASSUME NEW disk \in Disks, NEW k \in {0, 1}, NEW content \in Catalogs
    PROVE  /\ WithCopy(disk, k, content) \in Disks
           /\ WithCopy(disk, k, content).copies = [disk.copies EXCEPT ![k] = content]
           /\ WithCopy(disk, k, content).slots = disk.slots
  BY DEF WithCopy, Disks

LEMMA IdleTyped == NoInstaller \in Installers
  BY DEF NoInstaller, Installers

LEMMA CatalogTyped ==
    ASSUME cached \in Disks, settled \in Disks, doubt \in BOOLEAN,
           NEW next \in Catalogs, NEW ok \in BOOLEAN, WriteCatalog(next, ok)
    PROVE  cached' \in Disks /\ settled' \in Disks /\ doubt' \in BOOLEAN
<1> DEFINE k == CopyOf(next.generation)
<1>1. k \in {0, 1}
  BY DEF CopyOf, Catalogs
<1>2. cached.copies[k] \in Catalogs
  BY <1>1 DEF Disks
<1>3. PICK content \in {cached.copies[k], Bad, next} :
        /\ cached' = WithCopy(cached, k, content)
        /\ \/ settled' = WithCopy(cached, k, content)
           \/ settled' = WithCopy(settled, k, content)
           \/ settled' = settled
        /\ doubt' = doubt \/ doubt' = TRUE
  BY DEF WriteCatalog
<1> HIDE DEF k
<1>4. content \in Catalogs
  BY <1>2, <1>3, BadIsCatalog
<1>5. WithCopy(cached, k, content) \in Disks /\ WithCopy(settled, k, content) \in Disks
  BY <1>1, <1>4, WithCopyIs
<1>6. cached' \in Disks /\ settled' \in Disks
  BY <1>3, <1>5
<1> QED
  BY <1>3, <1>6

\* write_catalog of the next generation, unless it leaves the copy in doubt: the
\* current catalog is the old one or the new one, and the new one if it succeeded.
LEMMA CatalogWritten ==
    ASSUME cached \in Disks, settled \in Disks, cached.copies = settled.copies,
           SoundCopies(cached.copies),
           NEW next \in Catalogs, decode_catalog(next),
           next.generation = Current(cached).generation + 1,
           NEW ok \in BOOLEAN, WriteCatalog(next, ok), ~doubt'
    PROVE  /\ cached' \in Disks /\ settled' \in Disks
           /\ cached'.copies = settled'.copies
           /\ SoundCopies(cached'.copies)
           /\ cached'.slots = cached.slots
           /\ settled'.slots \in {cached.slots, settled.slots}
           /\ Current(cached') \in {Current(cached), next}
           /\ ok => Current(cached') = next
<1> DEFINE k == CopyOf(next.generation)
<1>1. cached.copies \in [{0, 1} -> Catalogs] /\ settled.copies \in [{0, 1} -> Catalogs]
  BY DEF Disks
<1>2. /\ k \in {0, 1}
      /\ Chosen([cached.copies EXCEPT ![k] = next], {0, 1}) = next
      /\ Chosen([cached.copies EXCEPT ![k] = Bad], {0, 1}) = Chosen(cached.copies, {0, 1})
      /\ SoundCopies([cached.copies EXCEPT ![k] = next])
      /\ SoundCopies([cached.copies EXCEPT ![k] = Bad])
  BY <1>1, NextIsChosen DEF Current
<1>3. [cached.copies EXCEPT ![k] = cached.copies[k]] = cached.copies /\ cached.copies[k] \in Catalogs
  BY <1>1, <1>2
<1>4. PICK content \in {cached.copies[k], Bad, next} :
        /\ cached' = WithCopy(cached, k, content)
        /\ \/ settled' = WithCopy(cached, k, content)
           \/ settled' = WithCopy(settled, k, content)
        /\ ok => content = next
  BY DEF WriteCatalog
<1>5. content \in Catalogs
  BY <1>3, <1>4, BadIsCatalog
<1>6. /\ cached' \in Disks /\ settled' \in Disks
      /\ cached'.copies = [cached.copies EXCEPT ![k] = content]
      /\ settled'.copies = [cached.copies EXCEPT ![k] = content]
      /\ cached'.slots = cached.slots
      /\ settled'.slots \in {cached.slots, settled.slots}
  BY <1>2, <1>4, <1>5, WithCopyIs
<1>7. SoundCopies(cached'.copies)
  BY <1>2, <1>3, <1>4, <1>6
<1>8. Current(cached') \in {Current(cached), next} /\ (ok => Current(cached') = next)
  BY <1>2, <1>3, <1>4, <1>6 DEF Current
<1> QED
  BY <1>6, <1>7, <1>8

\* ...so a catalog that names a filled, unnamed slot, or no slot, for one track more
\* keeps the store sound.
LEMMA CatalogStepKeeps ==
    ASSUME MediaInv, ~doubt, NEW track \in Tracks, NEW slot \in DataSlots \cup {NoSlot},
           slot # NoSlot => /\ ~Names(Current(cached), slot)
                            /\ cached.slots[slot] = Data(track)
                            /\ settled.slots[slot] = Data(track),
           NEW ok \in BOOLEAN,
           WriteCatalog(NextCatalog(Current(cached), track, slot), ok),
           told' = [told EXCEPT ![track] = IF ~ok THEN "unknown"
                                           ELSE IF slot = NoSlot THEN "removed" ELSE "installed"],
           installer' = NoInstaller
    PROVE  MediaInv'
<1> DEFINE next == NextCatalog(Current(cached), track, slot)
<1>3. cached.copies \in [{0, 1} -> Catalogs]
  BY DEF MediaInv, MediaType, Disks
<1>4. Current(cached) \in Catalogs /\ decode_catalog(Current(cached))
  BY <1>3, ChosenIsCatalog, ChosenDecodes DEF Current
<1>5. /\ next \in Catalogs /\ decode_catalog(next)
      /\ next.generation = Current(cached).generation + 1
      /\ next.entries[track] = slot
      /\ \A t \in Tracks \ {track} : next.entries[t] = Current(cached).entries[t]
  BY <1>4, NextCatalogIs, NextCatalogDecodes DEF decode_catalog
<1> HIDE DEF next
<1>6. WriteCatalog(next, ok)
  BY DEF next
<1>1. MediaType'
  <2>1. /\ cached \in Disks /\ settled \in Disks /\ doubt \in BOOLEAN
        /\ told \in [Tracks -> {"installed", "removed", "unknown"}]
    BY DEF MediaInv, MediaType
  <2>2. cached' \in Disks /\ settled' \in Disks /\ doubt' \in BOOLEAN
    BY <2>1, <1>5, <1>6, CatalogTyped
  <2> QED
    BY <2>1, <2>2, IdleTyped DEF MediaType
<1>2. SUFFICES ASSUME ~doubt' PROVE MediaInv'
  BY <1>1 DEF MediaInv
<1>7. /\ cached'.copies = settled'.copies
      /\ SoundCopies(cached'.copies)
      /\ cached'.slots = cached.slots
      /\ settled'.slots \in {cached.slots, settled.slots}
      /\ Current(cached') \in {Current(cached), next}
      /\ ok => Current(cached') = next
  BY <1>2, <1>5, <1>6, CatalogWritten DEF MediaInv, MediaType
<1>8. Holds(cached.slots, next) /\ Holds(settled.slots, next)
  BY <1>5 DEF Holds, MediaInv
<1>9. Holds(cached'.slots, Current(cached')) /\ Holds(settled'.slots, Current(cached'))
  BY <1>7, <1>8 DEF MediaInv
<1>10. Believed'
  <2> SUFFICES ASSUME NEW t \in Tracks
               PROVE  /\ told'[t] = "installed" => Current(cached').entries[t] # NoSlot
                      /\ told'[t] = "removed" => Current(cached').entries[t] = NoSlot
    BY DEF Believed
  <2>1. told \in [Tracks -> {"installed", "removed", "unknown"}] /\ Believed
    BY DEF MediaInv, MediaType
  <2>2. CASE t = track
    BY <2>1, <2>2, <1>5, <1>7
  <2>3. CASE t # track
    BY <2>1, <2>3, <1>5, <1>7 DEF Believed
  <2> QED
    BY <2>2, <2>3
<1>11. InstallerSound'
  BY DEF InstallerSound
<1> QED
  BY <1>1, <1>7, <1>9, <1>10, <1>11 DEF MediaInv

-----------------------------------------------------------------------------
(* Every step keeps the invariant.                                         *)

LEMMA MediaInitInv == MediaInit => MediaInv
<1> SUFFICES ASSUME MediaInit PROVE MediaInv
  OBVIOUS
<1>1. \A s \in DataSlots : Data(Junk) \in [SlotChunks -> Tracks \cup {Junk}]
  BY DEF Data
<1>2. cached \in Disks /\ settled = cached
  BY <1>1, BadIsCatalog DEF MediaInit, Disks, Contents
<1>3. MediaType
  BY <1>2, IdleTyped DEF MediaInit, MediaType
<1>4. cached.copies[0] = Bad /\ cached.copies[1] = Bad
  BY DEF MediaInit
<1>5. Current(cached) = EmptyCatalog
  BY <1>4, BadIsCatalog DEF Current, Chosen, ReadableCopies
<1>6. \A t \in Tracks : Current(cached).entries[t] = NoSlot
  BY <1>5 DEF EmptyCatalog, Bad
<1>7. SoundCopies(cached.copies)
  BY <1>4 DEF SoundCopies, Bad
<1>8. Holds(cached.slots, Current(cached)) /\ Holds(settled.slots, Current(cached))
  BY <1>6 DEF Holds
<1>9. InstallerSound /\ Believed
  BY <1>6 DEF InstallerSound, Believed, MediaInit
<1> QED
  BY <1>2, <1>3, <1>7, <1>8, <1>9 DEF MediaInv

LEMMA BeginKeeps ==
    ASSUME MediaInv, ~doubt, NEW track \in Tracks, begin_install(track)
    PROVE  MediaInv'
<1>1. PICK readable \in SUBSET {0, 1} :
        /\ \E slot \in FreeSlot(Chosen(cached.copies, readable), track) :
             installer' = [phase |-> "write", track |-> track, slot |-> slot,
                           base |-> Chosen(cached.copies, readable).generation, written |-> 0]
        /\ Misread(readable)
  BY DEF begin_install
<1> DEFINE catalog == Chosen(cached.copies, readable)
<1>2. PICK slot \in FreeSlot(catalog, track) :
        installer' = [phase |-> "write", track |-> track, slot |-> slot,
                      base |-> catalog.generation, written |-> 0]
  BY <1>1
<1>3. cached.copies \in [{0, 1} -> Catalogs]
  BY DEF MediaInv, MediaType, Disks
<1>4. catalog \in Catalogs
  BY <1>3, ChosenIsCatalog
<1>5. catalog.generation \in Nat
  BY <1>4 DEF Catalogs
<1>6. slot \in DataSlots /\ ~Names(catalog, slot)
  BY DEF FreeSlot, Names
<1> HIDE DEF catalog
<1>7. installer' \in Installers
  BY <1>2, <1>5, <1>6 DEF Installers
<1>8. doubt' \in BOOLEAN /\ (~doubt' => readable = {0, 1})
  BY <1>1 DEF Misread
<1>9. UNCHANGED <<cached, settled, told>>
  BY DEF begin_install
<1>10. MediaType'
  BY <1>7, <1>8, <1>9 DEF MediaInv, MediaType
<1>11. SUFFICES ASSUME ~doubt' PROVE MediaInv'
  BY <1>10 DEF MediaInv
<1>12. catalog = Current(cached)
  BY <1>8, <1>11 DEF catalog, Current
<1>13. InstallerSound'
  BY <1>2, <1>6, <1>9, <1>12 DEF InstallerSound, Current
<1> QED
  BY <1>9, <1>10, <1>13 DEF MediaInv, Believed, Current

\* The range goes to a slot that the current catalog does not name.
LEMMA WriteRangeKeeps ==
    ASSUME MediaInv, ~doubt, NEW content \in {installer.track, Junk}, NEW ok \in BOOLEAN,
           WriteRange(content, ok)
    PROVE  MediaInv'
<1> DEFINE n == installer.written + 1
           slot == installer.slot
           row == [cached.slots[slot] EXCEPT ![n] = content]
           slots == [cached.slots EXCEPT ![slot] = row]
<1>1. /\ cached' = [cached EXCEPT !.slots[slot][n] = content]
      /\ installer' = IF ok THEN [installer EXCEPT !.written = n] ELSE NoInstaller
      /\ UNCHANGED <<settled, doubt, told>>
      /\ installer.phase = "write"
  BY DEF WriteRange
<1>2. installer \in Installers /\ cached \in Disks
  BY DEF MediaInv, MediaType
<1>3. installer # NoInstaller
  BY <1>1 DEF NoInstaller
<1>4. installer.track \in Tracks /\ slot \in DataSlots /\ ~Names(Current(cached), slot)
  BY <1>3 DEF MediaInv, InstallerSound
<1>5. cached.slots \in Contents /\ cached.copies \in [{0, 1} -> Catalogs] /\ n \in Nat
  BY <1>2 DEF Disks, Installers
<1>6. cached' = [cached EXCEPT !.slots = slots]
  BY <1>1, <1>2, <1>5 DEF Disks
<1>7. row \in [SlotChunks -> Tracks \cup {Junk}]
  BY <1>4, <1>5 DEF Contents
<1> HIDE DEF row, n
<1>8. slots \in Contents /\ \A s \in DataSlots \ {slot} : slots[s] = cached.slots[s]
  BY <1>4, <1>5, <1>7 DEF Contents
<1> HIDE DEF slots
<1>9. cached' \in Disks /\ cached'.slots = slots /\ cached'.copies = cached.copies
  BY <1>2, <1>6, <1>8 DEF Disks
<1>10. Current(cached') = Current(cached) /\ Current(cached) \in Catalogs
  BY <1>5, <1>9, ChosenIsCatalog DEF Current
<1>11. installer' \in Installers
  BY <1>1, <1>2, <1>5, IdleTyped DEF Installers
<1>12. Holds(cached'.slots, Current(cached'))
  <2> DEFINE current == Current(cached)
  <2> SUFFICES ASSUME NEW t \in Tracks, current.entries[t] # NoSlot
               PROVE  slots[current.entries[t]] = Data(t)
    BY <1>9, <1>10 DEF Holds
  <2> HIDE DEF current
  <2>1. current.entries[t] \in DataSlots
    BY <1>10 DEF current, Catalogs
  <2>2. current.entries[t] # slot
    BY <1>4 DEF current, Names
  <2>3. cached.slots[current.entries[t]] = Data(t)
    BY DEF current, MediaInv, Holds
  <2> QED
    BY <2>1, <2>2, <2>3, <1>8
<1>13. InstallerSound'
  <2>1. CASE ok
    <3>1. /\ installer'.phase = "write" /\ installer'.track = installer.track
          /\ installer'.slot = slot
      BY <1>1, <1>2, <2>1 DEF Installers
    <3> QED
      BY <3>1, <1>4, <1>10 DEF InstallerSound
  <2>2. CASE ~ok
    BY <1>1, <2>2 DEF InstallerSound
  <2> QED
    BY <2>1, <2>2
<1>14. Believed'
  BY <1>1, <1>10 DEF Believed, MediaInv
<1> QED
  BY <1>1, <1>9, <1>10, <1>11, <1>12, <1>13, <1>14 DEF MediaInv, MediaType

LEMMA GiveUpKeeps ==
    ASSUME MediaInv, ~doubt, GiveUp
    PROVE  MediaInv'
  BY IdleTyped DEF MediaInv, MediaType, GiveUp, InstallerSound, Believed, Current

LEMMA CommitFlushKeeps ==
    ASSUME MediaInv, ~doubt, CommitFlush
    PROVE  MediaInv'
<1>1. /\ installer.phase = "write" /\ settled' = cached /\ cached' = cached
      /\ cached.slots[installer.slot] = Data(installer.track)
      /\ installer' = [installer EXCEPT !.phase = "flushed"]
      /\ UNCHANGED <<doubt, told>>
  BY DEF CommitFlush
<1>2. installer \in Installers /\ installer # NoInstaller
  BY <1>1 DEF MediaInv, MediaType, NoInstaller
<1>3. /\ installer' \in Installers
      /\ installer'.phase = "flushed"
      /\ installer'.track = installer.track
      /\ installer'.slot = installer.slot
  BY <1>1, <1>2 DEF Installers
<1>4. InstallerSound'
  BY <1>1, <1>2, <1>3 DEF MediaInv, InstallerSound
<1> QED
  BY <1>1, <1>3, <1>4 DEF MediaInv, MediaType, Believed

LEMMA PowerLossKeeps ==
    ASSUME MediaInv, ~doubt, PowerLoss
    PROVE  MediaInv'
<1>1. PICK kept \in SUBSET Unflushed :
        settled' = [settled EXCEPT !.slots = [s \in DataSlots |-> [n \in SlotChunks |->
                      IF <<s, n>> \in kept THEN cached.slots[s][n]
                      ELSE settled.slots[s][n]]]]
  BY DEF PowerLoss
<1> DEFINE row(s) == [n \in SlotChunks |-> IF <<s, n>> \in kept THEN cached.slots[s][n]
                                           ELSE settled.slots[s][n]]
           slots == [s \in DataSlots |-> row(s)]
<1>2. cached' = settled' /\ installer' = NoInstaller /\ UNCHANGED <<doubt, told>>
  BY DEF PowerLoss
<1>3. /\ cached \in Disks /\ settled \in Disks
      /\ cached.slots \in Contents /\ settled.slots \in Contents
      /\ cached.copies \in [{0, 1} -> Catalogs]
  BY DEF MediaInv, MediaType, Disks
<1>4. slots \in Contents
  <2> SUFFICES ASSUME NEW s \in DataSlots, NEW n \in SlotChunks
               PROVE  row(s)[n] \in Tracks \cup {Junk}
    BY DEF Contents
  <2> QED
    BY <1>3 DEF Contents
<1>5. \A s \in DataSlots, t \in Tracks :
        cached.slots[s] = Data(t) /\ settled.slots[s] = Data(t) => slots[s] = Data(t)
  BY DEF Data
<1>6. settled' = [settled EXCEPT !.slots = slots]
  BY <1>1
<1> HIDE DEF slots
<1>7. settled' \in Disks /\ settled'.slots = slots /\ settled'.copies = settled.copies
  BY <1>3, <1>4, <1>6 DEF Disks
<1>8. Current(cached') = Current(cached) /\ Current(cached) \in Catalogs
      /\ cached'.copies = cached.copies
  BY <1>2, <1>3, <1>7, ChosenIsCatalog DEF Current, MediaInv
<1>9. Holds(slots, Current(cached))
  <2> DEFINE current == Current(cached)
  <2> SUFFICES ASSUME NEW t \in Tracks, current.entries[t] # NoSlot
               PROVE  slots[current.entries[t]] = Data(t)
    BY DEF Holds
  <2> HIDE DEF current
  <2>1. current.entries[t] \in DataSlots
    BY <1>8 DEF current, Catalogs
  <2>2. /\ cached.slots[current.entries[t]] = Data(t)
        /\ settled.slots[current.entries[t]] = Data(t)
    BY DEF current, MediaInv, Holds
  <2> QED
    BY <2>1, <2>2, <1>5
<1>10. InstallerSound'
  BY <1>2 DEF InstallerSound
<1>11. Believed'
  BY <1>2, <1>8 DEF Believed, MediaInv
<1>12. MediaType'
  BY <1>2, <1>7, IdleTyped DEF MediaInv, MediaType
<1> QED
  BY <1>2, <1>7, <1>8, <1>9, <1>10, <1>11, <1>12 DEF MediaInv

LEMMA PublishKeeps ==
    ASSUME MediaInv, ~doubt, NEW ok \in BOOLEAN, PublishCatalog(ok)
    PROVE  MediaInv'
<1> DEFINE track == installer.track
           slot == installer.slot
<1>1. installer.phase = "flushed" /\ installer' = NoInstaller
      /\ told' = [told EXCEPT ![track] = IF ok THEN "installed" ELSE "unknown"]
  BY DEF PublishCatalog
<1>2. installer # NoInstaller
  BY <1>1 DEF NoInstaller
<1>3. /\ track \in Tracks /\ slot \in DataSlots /\ slot # NoSlot
      /\ ~Names(Current(cached), slot)
      /\ cached.slots[slot] = Data(track) /\ settled.slots[slot] = Data(track)
  BY <1>1, <1>2 DEF MediaInv, InstallerSound, DataSlots, NoSlot
<1>4. PICK readable \in SUBSET {0, 1} :
        \/ /\ readable = {0, 1}
           /\ WriteCatalog(NextCatalog(Chosen(cached.copies, readable), track, slot), ok)
        \/ /\ doubt' = TRUE
           /\ cached' = WithCopy(cached, CopyOf(Chosen(cached.copies, readable).generation + 1),
                                 NextCatalog(Chosen(cached.copies, readable), track, slot))
           /\ settled' = cached'
  BY DEF PublishCatalog
<1> DEFINE catalog == Chosen(cached.copies, readable)
           next == NextCatalog(catalog, track, slot)
<1>5. CASE readable = {0, 1} /\ WriteCatalog(next, ok)
  <2>1. WriteCatalog(NextCatalog(Current(cached), track, slot), ok)
    BY <1>5 DEF Current
  <2>2. told' = [told EXCEPT ![track] = IF ~ok THEN "unknown"
                                        ELSE IF slot = NoSlot THEN "removed" ELSE "installed"]
    BY <1>1, <1>3
  <2> HIDE DEF track, slot, next, catalog
  <2> QED
    BY <1>1, <1>3, <2>1, <2>2, CatalogStepKeeps
<1>6. CASE /\ doubt' = TRUE
           /\ cached' = WithCopy(cached, CopyOf(catalog.generation + 1), next)
           /\ settled' = cached'
  <2>1. /\ cached \in Disks /\ cached.copies \in [{0, 1} -> Catalogs]
        /\ told \in [Tracks -> {"installed", "removed", "unknown"}]
    BY DEF MediaInv, MediaType, Disks
  <2>2. catalog \in Catalogs /\ catalog.valid
    BY <2>1, ChosenIsCatalog, ChosenDecodes DEF decode_catalog
  <2>3. next \in Catalogs
    BY <2>2, <1>3, NextCatalogIs
  <2>4. CopyOf(catalog.generation + 1) \in {0, 1}
    BY <2>2 DEF Catalogs, CopyOf
  <2> HIDE DEF track, slot, next, catalog
  <2>5. cached' \in Disks /\ settled' \in Disks
    BY <2>1, <2>3, <2>4, <1>6, WithCopyIs
  <2>6. told' \in [Tracks -> {"installed", "removed", "unknown"}]
    BY <2>1, <1>1, <1>3
  <2> QED
    BY <2>5, <2>6, <1>1, <1>6, IdleTyped DEF MediaInv, MediaType
<1> QED
  BY <1>4, <1>5, <1>6

LEMMA RemoveKeeps ==
    ASSUME MediaInv, ~doubt, NEW track \in Tracks, NEW ok \in BOOLEAN, remove(track, ok)
    PROVE  MediaInv'
<1>1. /\ WriteCatalog(NextCatalog(Current(cached), track, NoSlot), ok)
      /\ told' = [told EXCEPT ![track] = IF ~ok THEN "unknown"
                                         ELSE IF NoSlot = NoSlot THEN "removed" ELSE "installed"]
      /\ installer' = NoInstaller
  BY DEF remove
<1> QED
  BY <1>1, CatalogStepKeeps

LEMMA MediaInvariant == MediaSpec => []MediaInv
<1>1. ASSUME MediaInv, [MediaNext]_mediaVars PROVE MediaInv'
  <2>1. CASE UNCHANGED mediaVars
    BY <1>1, <2>1 DEF mediaVars, MediaInv, MediaType, InstallerSound, Believed, Current
  <2>2. CASE MediaNext
    BY <1>1, <2>2, BeginKeeps, WriteRangeKeeps, GiveUpKeeps, CommitFlushKeeps,
       PowerLossKeeps, PublishKeeps, RemoveKeeps DEF MediaNext
  <2> QED
    BY <1>1, <2>1, <2>2
<1> QED
  BY <1>1, MediaInitInv, PTL DEF MediaSpec

-----------------------------------------------------------------------------
(* The theorems.                                                           *)

\* Every track the catalog names is whole, in the cache and on the medium, for any
\* number of tracks, slots and chunks (begin_install, commit, write_catalog).
THEOREM TracksLoad == MediaSpec => []InstalledLoads
<1>1. MediaInv => InstalledLoads
  BY DEF MediaInv, InstalledLoads, Holds, Current
<1> QED
  BY <1>1, MediaInvariant, PTL

\* A commit or removal reported as done is what the next start finds (commit, remove).
THEOREM ReportsAreKept == MediaSpec => []ReportsHold
<1>1. MediaInv => ReportsHold
  BY DEF MediaInv, ReportsHold, Believed, Current
<1> QED
  BY <1>1, MediaInvariant, PTL

\* Through power loss at any point of any commit, removal or import, what the
\* store has reported is what the next start finds (media_store.rs).
THEOREM MediaStoreHolds == MediaSpec => []MediaHolds
<1>1. InstalledLoads /\ ReportsHold => MediaHolds
  BY DEF MediaHolds
<1> QED
  BY <1>1, TracksLoad, ReportsAreKept, PTL

-----------------------------------------------------------------------------
(* The resampling loop.                                                    *)

\* What the products and quotients of the position need, proved once so that the
\* steps below see linear facts only.
LEMMA NextMultiple ==
    ASSUME NEW a \in Int, NEW b \in Int
    PROVE  /\ a * b \in Int
           /\ (a + 1) * b = a * b + b
  BY SMT

LEMMA MultiplesGrow ==
    ASSUME NEW a \in Int, NEW c \in Int, NEW b \in Nat \ {0}, a < c
    PROVE  a * b + b <= c * b
<1>1. c - a - 1 \in Nat
  OBVIOUS
<1>2. (c - a - 1) * b >= 0
  BY <1>1, SMT
<1>3. (c - a - 1) * b = c * b - a * b - b
  BY SMT
<1> QED
  BY <1>2, <1>3, NextMultiple, SMT

LEMMA Quotient ==
    ASSUME NEW a \in Nat, NEW b \in Nat \ {0}
    PROVE  /\ a \div b \in Nat
           /\ (a \div b) * b <= a
           /\ a < (a \div b) * b + b
  BY SMT

\* The output length is the ceiling of frames * SAMPLE_RATE / rate.
LEMMA OutputIsCeiling ==
    ASSUME NEW frames \in Nat, NEW rate \in Nat \ {0}
    PROVE  /\ OutputFrames(frames, rate) \in Nat
           /\ OutputFrames(frames, rate) * rate >= frames * SAMPLE_RATE
           /\ OutputFrames(frames, rate) * rate < frames * SAMPLE_RATE + rate
<1> DEFINE a == frames * SAMPLE_RATE + rate - 1
<1>1. frames * SAMPLE_RATE \in Nat
  BY RateAssumption, SMT
<1>2. a \in Nat
  BY <1>1, SMT
<1>3. OutputFrames(frames, rate) = a \div rate
  BY DEF OutputFrames
<1>4. a \div rate \in Nat /\ (a \div rate) * rate <= a /\ a < (a \div rate) * rate + rate
  BY <1>2, Quotient
<1>5. (a \div rate) * rate \in Int
  BY <1>4, NextMultiple
<1> HIDE DEF a
<1>6. a = frames * SAMPLE_RATE + rate - 1
  BY DEF a
<1> QED
  BY <1>1, <1>2, <1>3, <1>4, <1>5, <1>6, SMT

-----------------------------------------------------------------------------
(* The inductive invariant.                                                *)

Chunks == UNION {{f[i] : i \in 1..Len(f)} : f \in Files}

\* A sample pair the loop may append: what it is does not matter to the position.
Output(f, d, i, j, fraction) ==
    [left  |-> interpolate(decode_frame(f, d, i)[1], decode_frame(f, d, j)[1], fraction),
     right |-> interpolate(decode_frame(f, d, i)[2], decode_frame(f, d, j)[2], fraction)]
Outputs ==
    {Output(f, d, i, j, fraction) : f \in Chunks, d \in Chunks, i \in Int, j \in Int, fraction \in Nat}

WaveType ==
    /\ file \in Files
    /\ scan \in [cursor : Nat \ {0}, format : Chunks \cup {None}, data : Chunks \cup {None}]
    /\ pos \in [phase : {"scan", "frame", "carry", "done", "failed"}, rate : Nat \ {0},
                frames : Nat, total : Nat, source : Nat, fraction : Nat, out : Seq(Outputs)]

Loops == pos.phase \in {"frame", "carry", "done"}

WaveInv ==
    /\ WaveType
    /\ pos.phase = "scan" => pos.source = 0 /\ pos.fraction = 0 /\ pos.out = <<>>
    /\ Loops => /\ scan.format \in Chunks /\ scan.data \in Chunks
                /\ pos.total * pos.rate >= pos.frames * SAMPLE_RATE
                /\ pos.total * pos.rate < pos.frames * SAMPLE_RATE + pos.rate
                /\ Len(pos.out) <= pos.total
    /\ pos.phase = "done" => Len(pos.out) = pos.total
    /\ PositionExact

LEMMA WaveInitInv == WaveInit => WaveInv
<1> SUFFICES ASSUME WaveInit PROVE WaveInv
  OBVIOUS
<1>1. <<>> \in Seq(Outputs)
  OBVIOUS
<1> QED
  BY <1>1 DEF WaveInit, WaveInv, WaveType, Loops, PositionExact

LEMMA ChunkIsOne == WaveInv /\ scan.cursor <= Len(file) => Chunk \in Chunks
  BY FileAssumption DEF WaveInv, WaveType, Chunk, Chunks

LEMMA ChunkLength == ASSUME NEW d \in Chunks PROVE d.length \in Nat
  BY FileAssumption DEF Chunks

LEMMA FrameBytesPositive ==
    ASSUME NEW f, NEW d, Supported(f, d)
    PROVE  FrameBytes(f) \in Nat \ {0}
<1>1. f.bits \div 8 \in {1, 2, 3, 4}
  BY SMT DEF Supported
<1> QED
  BY <1>1, SMT DEF Supported, FrameBytes

-----------------------------------------------------------------------------
(* Every step keeps it.                                                    *)

LEMMA FailKeeps == WaveInv /\ Fail => WaveInv'
<1> SUFFICES ASSUME WaveInv, Fail PROVE WaveInv'
  OBVIOUS
<1>1. pos' = [pos EXCEPT !.phase = "failed"] /\ UNCHANGED <<file, scan>>
  BY DEF Fail
<1> QED
  BY <1>1 DEF WaveInv, WaveType, Loops, PositionExact

LEMMA ScanChunkKeeps == WaveInv /\ ScanChunk => WaveInv'
<1> SUFFICES ASSUME WaveInv, ScanChunk PROVE WaveInv'
  OBVIOUS
<1>1. CASE Fail
  BY <1>1, FailKeeps
<1>2. CASE scan' = Remembered /\ UNCHANGED <<file, pos>>
  <2>1. Chunk \in Chunks
    BY ChunkIsOne DEF ScanChunk
  <2>2. scan' \in [cursor : Nat \ {0}, format : Chunks \cup {None}, data : Chunks \cup {None}]
    BY <1>2, <2>1 DEF Remembered, WaveInv, WaveType
  <2> QED
    BY <1>2, <2>2 DEF ScanChunk, WaveInv, WaveType, Loops, PositionExact
<1> QED
  BY <1>1, <1>2 DEF ScanChunk

LEMMA CheckFormatKeeps == WaveInv /\ CheckFormat => WaveInv'
<1> SUFFICES ASSUME WaveInv, CheckFormat PROVE WaveInv'
  OBVIOUS
<1>1. CASE Fail
  BY <1>1, FailKeeps
<1>2. CASE ~Fail
  <2> DEFINE f == scan.format
             d == scan.data
             n == d.length \div FrameBytes(f)
  <2>1. /\ pos.phase = "scan" /\ f # None /\ d # None /\ Supported(f, d)
        /\ pos' = [pos EXCEPT !.phase = "frame", !.rate = f.rate, !.frames = n,
                              !.total = OutputFrames(n, f.rate)]
        /\ UNCHANGED <<file, scan>>
    BY <1>2 DEF CheckFormat
  <2>2. f \in Chunks /\ d \in Chunks
    BY <2>1 DEF WaveInv, WaveType
  <2>3. n \in Nat
    BY <2>1, <2>2, ChunkLength, FrameBytesPositive, Quotient
  <2>4. f.rate \in Nat \ {0}
    BY <2>1, RateAssumption DEF Supported
  <2> HIDE DEF n
  <2>5. /\ OutputFrames(n, f.rate) \in Nat
        /\ OutputFrames(n, f.rate) * f.rate >= n * SAMPLE_RATE
        /\ OutputFrames(n, f.rate) * f.rate < n * SAMPLE_RATE + f.rate
    BY <2>3, <2>4, OutputIsCeiling
  <2>6. WaveType'
    BY <2>1, <2>3, <2>4, <2>5 DEF WaveInv, WaveType
  <2>7. pos'.source = 0 /\ pos'.fraction = 0 /\ pos'.out = <<>> /\ pos'.phase = "frame"
        /\ pos'.rate = f.rate /\ pos'.frames = n /\ pos'.total = OutputFrames(n, f.rate)
    BY <2>1 DEF WaveInv, WaveType
  <2>8. PositionExact'
    <3>1. Len(pos'.out) = 0
      BY <2>7
    <3>2. 0 * SAMPLE_RATE + 0 = 0 * f.rate /\ 0 < SAMPLE_RATE
      BY <2>4, RateAssumption, SMT
    <3> QED
      BY <2>7, <3>1, <3>2 DEF PositionExact
  <2>9. Len(pos'.out) <= pos'.total
    BY <2>5, <2>7
  <2> QED
    BY <2>1, <2>2, <2>5, <2>6, <2>7, <2>8, <2>9 DEF WaveInv, Loops
<1> QED
  BY <1>1, <1>2

LEMMA DecodeFrameKeeps == WaveInv /\ DecodeFrame => WaveInv'
<1> SUFFICES ASSUME WaveInv, DecodeFrame PROVE WaveInv'
  OBVIOUS
<1> DEFINE o == Output(scan.format, scan.data, CurrentFrame, Following, pos.fraction)
<1>1. /\ pos.phase = "frame" /\ Len(pos.out) < pos.total
      /\ pos' = [pos EXCEPT !.out = Append(@, o), !.fraction = @ + pos.rate, !.phase = "carry"]
      /\ UNCHANGED <<file, scan>>
  BY DEF DecodeFrame, Output
<1>2. CurrentFrame \in Int /\ Following \in Int /\ pos.fraction \in Nat
  BY DEF WaveInv, WaveType, CurrentFrame, Following, Least
<1>3. scan.format \in Chunks /\ scan.data \in Chunks
  BY <1>1 DEF WaveInv, Loops
<1>4. o \in Outputs
  BY <1>2, <1>3 DEF Outputs
<1> HIDE DEF o
<1>5. pos.out \in Seq(Outputs) /\ pos.rate \in Nat \ {0} /\ pos.source \in Nat /\ pos.total \in Nat
  BY DEF WaveInv, WaveType
<1>6. Append(pos.out, o) \in Seq(Outputs) /\ Len(Append(pos.out, o)) = Len(pos.out) + 1
      /\ Len(pos.out) \in Nat
  BY <1>4, <1>5
<1>7. /\ pos'.phase = "carry" /\ pos'.out = Append(pos.out, o) /\ pos'.fraction = pos.fraction + pos.rate
      /\ pos'.rate = pos.rate /\ pos'.frames = pos.frames /\ pos'.total = pos.total
      /\ pos'.source = pos.source
  BY <1>1 DEF WaveInv, WaveType
<1>8. WaveType'
  <2>1. pos.fraction + pos.rate \in Nat
    BY <1>2, <1>5
  <2>2. WaveType
    BY DEF WaveInv
  <2> DEFINE out == Append(pos.out, o)
             fraction == pos.fraction + pos.rate
  <2>3. pos' = [[[pos EXCEPT !.out = out] EXCEPT !.fraction = fraction] EXCEPT !.phase = "carry"]
    BY <1>1
  <2>4. out \in Seq(Outputs) /\ fraction \in Nat
    BY <1>6, <2>1
  <2> HIDE DEF out, fraction
  <2> QED
    BY <1>1, <2>2, <2>3, <2>4 DEF WaveType
<1>9. PositionExact'
  <2>1. pos.source * SAMPLE_RATE + pos.fraction = Len(pos.out) * pos.rate
    BY <1>1 DEF WaveInv, PositionExact
  <2>2. (Len(pos.out) + 1) * pos.rate = Len(pos.out) * pos.rate + pos.rate
    BY <1>5, <1>6, NextMultiple
  <2>3. Len(pos.out) * pos.rate \in Int /\ pos.source * SAMPLE_RATE \in Int
    BY <1>5, <1>6, NextMultiple, RateAssumption
  <2>4. pos.source * SAMPLE_RATE + (pos.fraction + pos.rate) = (Len(pos.out) + 1) * pos.rate
    BY <1>2, <1>5, <2>1, <2>2, <2>3
  <2> QED
    BY <1>6, <1>7, <2>4 DEF PositionExact
<1>10. Len(pos'.out) <= pos'.total
  BY <1>1, <1>5, <1>6, <1>7
<1> QED
  BY <1>1, <1>3, <1>7, <1>8, <1>9, <1>10 DEF WaveInv, Loops

LEMMA CarryKeeps == WaveInv /\ Carry => WaveInv'
<1> SUFFICES ASSUME WaveInv, Carry PROVE WaveInv'
  OBVIOUS
<1>1. pos.source \in Nat /\ pos.fraction \in Nat /\ SAMPLE_RATE \in Nat \ {0}
  BY RateAssumption DEF WaveInv, WaveType
<1>2. CASE pos.fraction >= SAMPLE_RATE
  <2>1. /\ pos.phase = "carry" /\ UNCHANGED <<file, scan>>
        /\ pos' = [pos EXCEPT !.fraction = @ - SAMPLE_RATE, !.source = @ + 1]
    BY <1>2 DEF Carry
  <2>2. /\ pos'.phase = "carry" /\ pos'.out = pos.out /\ pos'.fraction = pos.fraction - SAMPLE_RATE
        /\ pos'.rate = pos.rate /\ pos'.frames = pos.frames /\ pos'.total = pos.total
        /\ pos'.source = pos.source + 1
    BY <2>1 DEF WaveInv, WaveType
  <2>3. pos.fraction - SAMPLE_RATE \in Nat
    BY <1>1, <1>2
  <2>4. WaveType'
    <3> DEFINE source == pos.source + 1
               fraction == pos.fraction - SAMPLE_RATE
    <3>1. source \in Nat /\ fraction \in Nat
      BY <1>1, <2>3
    <3>2. pos' = [[pos EXCEPT !.fraction = fraction] EXCEPT !.source = source]
      BY <2>1
    <3> HIDE DEF source, fraction
    <3> QED
      BY <2>1, <3>1, <3>2 DEF WaveInv, WaveType
  <2>5. (pos.source + 1) * SAMPLE_RATE + (pos.fraction - SAMPLE_RATE)
          = pos.source * SAMPLE_RATE + pos.fraction
    BY <1>1, NextMultiple
  <2>6. PositionExact'
    BY <2>1, <2>2, <2>5 DEF WaveInv, PositionExact
  <2> QED
    BY <2>1, <2>2, <2>4, <2>6 DEF WaveInv, Loops
<1>3. CASE ~(pos.fraction >= SAMPLE_RATE)
  <2>1. /\ pos.phase = "carry" /\ UNCHANGED <<file, scan>>
        /\ pos' = [pos EXCEPT !.phase = "frame"]
    BY <1>3 DEF Carry
  <2>2. /\ pos'.phase = "frame" /\ pos'.out = pos.out /\ pos'.fraction = pos.fraction
        /\ pos'.rate = pos.rate /\ pos'.frames = pos.frames /\ pos'.total = pos.total
        /\ pos'.source = pos.source
    BY <2>1 DEF WaveInv, WaveType
  <2>3. WaveType'
    BY <2>1 DEF WaveInv, WaveType
  <2>4. PositionExact'
    BY <1>1, <1>3, <2>1, <2>2 DEF WaveInv, PositionExact
  <2> QED
    BY <2>1, <2>2, <2>3, <2>4 DEF WaveInv, Loops
<1> QED
  BY <1>2, <1>3

LEMMA ConvertedKeeps == WaveInv /\ Converted => WaveInv'
<1> SUFFICES ASSUME WaveInv, Converted PROVE WaveInv'
  OBVIOUS
<1>1. /\ pos.phase = "frame" /\ Len(pos.out) = pos.total /\ UNCHANGED <<file, scan>>
      /\ pos' = [pos EXCEPT !.phase = "done"]
  BY DEF Converted
<1>2. /\ pos'.phase = "done" /\ pos'.out = pos.out /\ pos'.fraction = pos.fraction
      /\ pos'.rate = pos.rate /\ pos'.frames = pos.frames /\ pos'.total = pos.total
      /\ pos'.source = pos.source
  BY <1>1 DEF WaveInv, WaveType
<1>3. WaveType'
  BY <1>1 DEF WaveInv, WaveType
<1> QED
  BY <1>1, <1>2, <1>3 DEF WaveInv, Loops, PositionExact

-----------------------------------------------------------------------------
(* The theorems.                                                           *)

LEMMA WaveInvInvariant == WaveSpec => []WaveInv
<1>1. WaveInv /\ [WaveNext]_waveVars => WaveInv'
  <2> SUFFICES ASSUME WaveInv, [WaveNext]_waveVars PROVE WaveInv'
    OBVIOUS
  <2>1. CASE UNCHANGED waveVars
    BY <2>1 DEF waveVars, WaveInv, WaveType, Loops, PositionExact
  <2> QED
    BY <2>1, ScanChunkKeeps, CheckFormatKeeps, DecodeFrameKeeps, CarryKeeps, ConvertedKeeps
    DEF WaveNext
<1> QED
  BY <1>1, WaveInitInv, PTL DEF WaveSpec

(* For every rate of the output, every source rate and every file: before  *)
(* output frame n the position is exactly n source steps, so the loop of   *)
(* decode_wave_to_stereo_48k never drifts.                                 *)
THEOREM ResamplingExact == WaveSpec => []PositionExact
<1>1. WaveInv => PositionExact
  BY DEF WaveInv
<1> QED
  BY <1>1, WaveInvInvariant, PTL

LEMMA InvInData == WaveInv => PositionInData
<1> SUFFICES ASSUME WaveInv PROVE PositionInData
  OBVIOUS
<1> DEFINE n == Len(pos.out)
<1>1. /\ pos.source \in Nat /\ pos.fraction \in Nat /\ pos.frames \in Nat /\ pos.total \in Nat
      /\ pos.rate \in Nat \ {0} /\ n \in Nat /\ SAMPLE_RATE \in Nat \ {0}
  BY RateAssumption DEF WaveInv, WaveType
<1> HIDE DEF n
<1>2. /\ pos.source * SAMPLE_RATE \in Int /\ pos.frames * SAMPLE_RATE \in Int
      /\ n * pos.rate \in Int /\ pos.total * pos.rate \in Int
  BY <1>1, NextMultiple
<1>3. ASSUME pos.phase = "frame", n < pos.total PROVE pos.source < pos.frames
  <2>1. pos.source * SAMPLE_RATE + pos.fraction = n * pos.rate
        /\ pos.total * pos.rate < pos.frames * SAMPLE_RATE + pos.rate
    BY <1>3 DEF WaveInv, Loops, PositionExact, n
  <2>2. n * pos.rate + pos.rate <= pos.total * pos.rate
    BY <1>1, <1>3, MultiplesGrow
  <2>3. pos.source * SAMPLE_RATE < pos.frames * SAMPLE_RATE
    BY <1>1, <1>2, <2>1, <2>2
  <2>4. ASSUME pos.frames <= pos.source PROVE FALSE
    <3>1. CASE pos.frames = pos.source
      BY <3>1, <2>3, <1>2
    <3>2. CASE pos.frames < pos.source
      <4>1. pos.frames * SAMPLE_RATE + SAMPLE_RATE <= pos.source * SAMPLE_RATE
        BY <1>1, <3>2, MultiplesGrow
      <4> QED
        BY <4>1, <2>3, <1>1, <1>2
    <3> QED
      BY <2>4, <3>1, <3>2, <1>1
  <2> QED
    BY <2>4, <1>1
<1>4. ASSUME pos.phase = "done" PROVE n = pos.total /\ pos.source >= pos.frames
  <2>1. /\ n = pos.total
        /\ pos.source * SAMPLE_RATE + pos.fraction = n * pos.rate
        /\ pos.fraction < SAMPLE_RATE
        /\ pos.total * pos.rate >= pos.frames * SAMPLE_RATE
    BY <1>4 DEF WaveInv, Loops, PositionExact, n
  <2>2. pos.source * SAMPLE_RATE + SAMPLE_RATE > pos.frames * SAMPLE_RATE
    BY <1>1, <1>2, <2>1
  <2>3. ASSUME pos.source < pos.frames PROVE FALSE
    BY <1>1, <1>2, <2>2, <2>3, MultiplesGrow
  <2> QED
    BY <1>1, <2>1, <2>3
<1> QED
  BY <1>3, <1>4 DEF PositionInData, n

(* For every rate and file: each output frame is decoded from a source     *)
(* frame inside the data, without the clamp, and after the last of them    *)
(* every source frame has been reached.                                    *)
THEOREM ResamplingInData == WaveSpec => []PositionInData
  BY WaveInvInvariant, InvInData, PTL
=============================================================================
