----------------------------- MODULE MediaStore -----------------------------
(***************************************************************************)
(* The store of downloaded music (kernel/src/media_store.rs): two copies   *)
(* of a catalog, three data slots, and an installer that fills a slot the  *)
(* catalog does not use before it publishes the slot.                      *)
(*                                                                         *)
(* A slot is a function from chunk numbers to the track whose bytes the    *)
(* chunk holds, or Junk; a digest matches when every chunk is the track's. *)
(* The disk has a write cache: `cached` is what reads return, `settled`    *)
(* what a power loss leaves.  The shell and the desktop run one command at *)
(* a time, so there is one installer.                                      *)
(***************************************************************************)
EXTENDS Naturals

CONSTANTS Tracks,
          Junk,              \* bytes that are no track's
          DATA_SLOT_COUNT,
          CHUNKS,            \* of the longest track
          MaxGeneration      \* bound on catalog generations

ASSUME MediaAssumption ==
    /\ Junk \notin Tracks
    /\ DATA_SLOT_COUNT \in Nat /\ CHUNKS \in Nat /\ MaxGeneration \in Nat

VARIABLES cached, settled,  \* [copies, slots]
          installer,        \* the Installer, or NoInstaller
          doubt,            \* a copy was misread, or a flush of one failed
          told              \* what the user was last told of each track

mediaVars == <<cached, settled, installer, doubt, told>>

DataSlots == 1..DATA_SLOT_COUNT
NoSlot == 0
SlotChunks == 1..CHUNKS
NoInstaller == [phase |-> "idle", track |-> Junk, slot |-> NoSlot, base |-> 0, written |-> 0]
Data(track) == [n \in SlotChunks |-> track]

\* A copy that does not decode has generation 0 and valid FALSE.
Bad == [valid |-> FALSE, generation |-> 0, entries |-> [t \in Tracks |-> NoSlot]]
EmptyCatalog == [Bad EXCEPT !.valid = TRUE]

-----------------------------------------------------------------------------
(* Catalogs.                                                               *)

\* decode_catalog: no slot twice.  Track ids and lengths are the tracks' own.
decode_catalog(copy) ==
    /\ copy.valid
    /\ \A t, u \in Tracks :
         t # u /\ copy.entries[t] = copy.entries[u] => copy.entries[t] = NoSlot

\* open_catalog over the copies that could be read.
ReadableCopies(copies, copy, readable) == copy \in readable /\ decode_catalog(copies[copy])
Chosen(copies, readable) ==
    IF ReadableCopies(copies, 0, readable)
    THEN IF ReadableCopies(copies, 1, readable) /\ copies[0].generation < copies[1].generation
         THEN copies[1] ELSE copies[0]
    ELSE IF ReadableCopies(copies, 1, readable) THEN copies[1] ELSE EmptyCatalog
Current(disk) == Chosen(disk.copies, {0, 1})

CopyOf(generation) == generation % 2

\* write_catalog on a disk: the sector with a catalog's next generation.
NextCatalog(catalog, track, slot) ==
    [catalog EXCEPT !.generation = @ + 1, !.entries[track] = slot]
WithCopy(disk, copy, content) == [disk EXCEPT !.copies[copy] = content]

\* write_sector and the read-back: done and flushed; failed with the sector
\* torn or not written; failed with the sector left in the cache.
WriteCatalog(catalog, ok) ==
    LET copy == CopyOf(catalog.generation)
    IN  \/ /\ ok
           /\ cached' = WithCopy(cached, copy, catalog)
           /\ settled' = WithCopy(cached, copy, catalog)
           /\ UNCHANGED doubt
        \/ /\ ~ok
           /\ \E content \in {cached.copies[copy], Bad, catalog} :
                /\ cached' = WithCopy(cached, copy, content)
                /\ settled' = WithCopy(settled, copy, content)
           /\ UNCHANGED doubt
        \/ /\ ~ok
           /\ cached' = WithCopy(cached, copy, catalog)
           /\ UNCHANGED settled
           /\ doubt' = TRUE

-----------------------------------------------------------------------------
(* Installing a track.                                                     *)

\* Mutant: the slot the track has now is taken for its new version.
MutantOwnSlot(catalog, track) ==
    LET used == {catalog.entries[t] : t \in Tracks \ {track}}
    IN  {s \in DataSlots \ used : \A r \in DataSlots \ used : s <= r}
FreeSlot(catalog, track) ==
    LET used == {catalog.entries[t] : t \in Tracks}
    IN  {s \in DataSlots \ used : \A r \in DataSlots \ used : s <= r}

\* A read of the two copies, either of which may fail without an error.
Misread(readable) == doubt' = (doubt \/ readable # {0, 1})

begin_install(track) ==
    /\ installer = NoInstaller
    /\ \E readable \in SUBSET {0, 1} :
         LET catalog == Chosen(cached.copies, readable) IN
         /\ \E slot \in FreeSlot(catalog, track) :
              installer' = [phase |-> "write", track |-> track, slot |-> slot,
                            base |-> catalog.generation, written |-> 0]
         /\ Misread(readable)
    /\ UNCHANGED <<cached, settled, told>>

\* Installer::write of the next range: the server's bytes are the track's or
\* other bytes.  A failed write leaves the range as it was or torn.
WriteRange(content, ok) ==
    /\ installer.phase = "write" /\ installer.written < CHUNKS
    /\ LET n == installer.written + 1 IN
       /\ cached' = [cached EXCEPT !.slots[installer.slot][n] = content]
       /\ installer' = IF ok THEN [installer EXCEPT !.written = n] ELSE NoInstaller
    /\ UNCHANGED <<settled, doubt, told>>

\* The download stops: refused range, three failed attempts, or an error.
GiveUp ==
    /\ installer # NoInstaller
    /\ installer' = NoInstaller
    /\ UNCHANGED <<cached, settled, doubt, told>>

\* Installer::commit up to the flush: all of it received with the digest.
\* The transfer digest is over what was written.
CommitFlush ==
    /\ installer.phase = "write" /\ installer.written = CHUNKS
    /\ cached.slots[installer.slot] = Data(installer.track)
    /\ settled' = cached
    /\ installer' = [installer EXCEPT !.phase = "flushed"]
    /\ UNCHANGED <<cached, doubt, told>>

\* The rest of commit: the generation, the slot read back, the catalog.
PublishCatalog(ok) ==
    /\ installer.phase = "flushed"
    /\ \E readable \in SUBSET {0, 1} :
         LET catalog == Chosen(cached.copies, readable) IN
         /\ catalog.generation = installer.base /\ catalog.generation < MaxGeneration
         /\ cached.slots[installer.slot] = Data(installer.track)
         /\ \/ readable = {0, 1}
               /\ WriteCatalog(NextCatalog(catalog, installer.track, installer.slot), ok)
            \/ readable # {0, 1} /\ doubt' = TRUE
               /\ cached' = WithCopy(cached, CopyOf(catalog.generation + 1),
                                     NextCatalog(catalog, installer.track, installer.slot))
               /\ settled' = cached'
    /\ told' = [told EXCEPT ![installer.track] = IF ok THEN "installed" ELSE "unknown"]
    /\ installer' = NoInstaller

-----------------------------------------------------------------------------
(* Removing, playing, power.                                               *)

\* remove of an installed track.
remove(track, ok) ==
    /\ installer = NoInstaller
    /\ LET catalog == Current(cached) IN
       /\ catalog.entries[track] # NoSlot /\ catalog.generation < MaxGeneration
       /\ WriteCatalog(NextCatalog(catalog, track, NoSlot), ok)
    /\ told' = [told EXCEPT ![track] = IF ok THEN "removed" ELSE "unknown"]
    /\ UNCHANGED installer

Unflushed ==
    {c \in DataSlots \X SlotChunks : cached.slots[c[1]][c[2]] # settled.slots[c[1]][c[2]]}

\* A power loss keeps any of the unflushed chunks; copies are flushed.
PowerLoss ==
    /\ installer' = NoInstaller
    /\ \E kept \in SUBSET Unflushed :
         settled' = [settled EXCEPT !.slots = [s \in DataSlots |-> [n \in SlotChunks |->
                       IF <<s, n>> \in kept THEN cached.slots[s][n]
                       ELSE settled.slots[s][n]]]]
    /\ cached' = settled'
    /\ UNCHANGED <<doubt, told>>

MediaInit ==
    /\ cached = [copies |-> [copy \in {0, 1} |-> Bad],
                 slots |-> [s \in DataSlots |-> Data(Junk)]]
    /\ settled = cached
    /\ installer = NoInstaller
    /\ doubt = FALSE
    /\ told = [t \in Tracks |-> "removed"]

\* Nothing is claimed, and nothing followed, once a copy is in doubt.
MediaNext ==
    /\ ~doubt
    /\ \/ \E track \in Tracks : begin_install(track)
       \/ \E content \in {installer.track, Junk}, ok \in BOOLEAN : WriteRange(content, ok)
       \/ GiveUp \/ CommitFlush \/ PowerLoss
       \/ \E ok \in BOOLEAN : PublishCatalog(ok)
       \/ \E track \in Tracks, ok \in BOOLEAN : remove(track, ok)

MediaSpec == MediaInit /\ [][MediaNext]_mediaVars

-----------------------------------------------------------------------------
(* Properties.                                                             *)

\* load never finds a damaged track: the slot of every catalog entry, on the
\* medium as in the cache, holds the whole track, whatever writes failed and
\* wherever the power went (begin_install's free slot, commit's flush).
InstalledLoads ==
    ~doubt => \A disk \in {cached, settled}, t \in Tracks :
                LET slot == Current(disk).entries[t]
                IN  slot # NoSlot => disk.slots[slot] = Data(t)

\* What commit and remove reported as done is what the next start finds.
ReportsHold ==
    ~doubt => \A t \in Tracks :
                /\ told[t] = "installed" => Current(settled).entries[t] # NoSlot
                /\ told[t] = "removed" => Current(settled).entries[t] = NoSlot

\* What the media store has reported is what a start after a loss of power finds.
MediaHolds == InstalledLoads /\ ReportsHold
=============================================================================
