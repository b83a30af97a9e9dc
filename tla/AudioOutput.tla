---------------------------- MODULE AudioOutput ----------------------------
(***************************************************************************)
(* ExpAudio: the kernel's playback service (kernel/src/audio.rs) over its  *)
(* three drivers (AC'97 in audio.rs, audio/hda.rs, audio/virtio_sound.rs)  *)
(* and the streaming MP3 source (audio/mp3.rs).                            *)
(*                                                                         *)
(* Two sample banks carry one active and one queued request.  The kernel   *)
(* decodes into a bank, hands it to the device by DMA, and advances its    *)
(* queue when it polls the completion events an interrupt left behind.     *)
(* Interrupts are admitted only while the kernel idles (sti; hlt; cli), so *)
(* every entry point of the service is one step and the interrupt handler  *)
(* and the device run between them.  Samples are abstracted to the number  *)
(* of the block that was decoded.                                          *)
(***************************************************************************)
EXTENDS Integers, Sequences

CONSTANTS
    TRACK_CHUNKS,   \* DMA buffers one MP3 track decodes to
    MaxBlocks       \* bound: blocks decoded in a behaviour

VARIABLE sound

NoBank == 2
NoTrack == [left |-> 0, loaded |-> FALSE]

(* The device: `owned` are the banks whose memory it may still read, in the *)
(* order it was given them; `status` is its completion register (AC'97 and  *)
(* HDA), `used` its used ring and `written` the TX status word (VirtIO).    *)
Halted == [running |-> FALSE, owned |-> <<>>, status |-> {}, used |-> 0, written |-> "zero"]

-----------------------------------------------------------------------------
(* The drivers.  Each `submit` is the set of its outcomes. *)

Accepted(s, bank, dev) ==
    [ok |-> TRUE,
     s |-> [s EXCEPT !.dev = dev, !.active = bank, !.playing = TRUE,
                     !.heard = s.bank[bank], !.given = @ + 1]]

Rejected(s, dev) == [ok |-> FALSE, s |-> [s EXCEPT !.dev = dev]]

(* Resetting the AC'97 engine may time out, which leaves it paused. *)
submit_ac97(s, bank) ==
    { Accepted(s, bank, [Halted EXCEPT !.running = TRUE, !.owned = <<bank>>]),
      Rejected(s, [s.dev EXCEPT !.running = FALSE, !.owned = <<>>]) }

submit_hda(s, bank) ==
    { Accepted(s, bank, [Halted EXCEPT !.running = TRUE, !.owned = <<bank>>]) }

(* The chain is in the available ring before PCM_START is asked for. *)
submit_virtio(s, bank) ==
    LET given == [s.dev EXCEPT !.owned = Append(@, bank), !.written = "zero"]
        flying == [s EXCEPT !.in_flight = TRUE]
    IN IF s.in_flight THEN {Rejected(s, s.dev)}
       ELSE IF s.started THEN {Accepted(flying, bank, given)}
       ELSE { Accepted([flying EXCEPT !.started = TRUE], bank,
                       [given EXCEPT !.running = TRUE]),
              Rejected(s, given) }

submit_samples(s, bank) ==
    CASE s.backend = "Ac97" -> submit_ac97(s, bank)
      [] s.backend = "Hda" -> submit_hda(s, bank)
      [] s.backend = "VirtioSound" -> submit_virtio(s, bank)

(* PCM_STOP pauses a VirtIO stream; the buffers queued stay with the device *)
(* until they are played or the stream is released.                         *)
stop_virtio(s) ==
    { [s EXCEPT !.dev = [@ EXCEPT !.running = r, !.used = 0],
                !.in_flight = FALSE, !.started = FALSE]
      : r \in IF s.started THEN {FALSE, s.dev.running} ELSE {s.dev.running} }

stop_driver(s) ==
    IF s.backend = "VirtioSound" THEN stop_virtio(s)
    ELSE IF s.backend = "Hda"
         THEN {[s EXCEPT !.dev = [@ EXCEPT !.running = FALSE, !.owned = <<>>]]}
         ELSE {[s EXCEPT !.dev = Halted]}

stop(s) ==
    { [t EXCEPT !.playing = FALSE, !.pending = NoBank, !.media = NoTrack, !.events = {}]
      : t \in stop_driver(s) }

(* What the driver has to report, and the service after it was taken. *)
take_events_virtio(s) ==
    IF s.dev.used = 0 THEN [events |-> {}, s |-> s]
    ELSE [events |-> IF s.dev.written = "ok" THEN {"completed"} ELSE {"error"},
          s |-> [s EXCEPT !.dev.used = @ - 1, !.in_flight = FALSE]]

take_events(s) ==
    IF s.backend = "VirtioSound" THEN take_events_virtio(s)
    ELSE [events |-> s.events, s |-> [s EXCEPT !.events = {}]]

-----------------------------------------------------------------------------
(* The queue of one active and one pending bank. *)

available_bank(s) == (s.active + 1) % 2

QueueFull(s) == s.playing /\ s.pending # NoBank

schedule_samples(s, bank) ==
    IF s.playing THEN {[ok |-> TRUE, s |-> [s EXCEPT !.pending = bank]]}
    ELSE submit_samples(s, bank)

(* Decoding writes a bank; `torn` remembers that the device still had it. *)
Decoded(s, bank) ==
    [s EXCEPT !.bank[bank] = s.fresh, !.fresh = @ + 1,
              !.torn = @ \/ \E i \in DOMAIN s.dev.owned : s.dev.owned[i] = bank]

service_interrupts(s) ==
    LET taken == take_events(s)
        done == [taken.s EXCEPT !.playing = FALSE,
                                !.faulty = @ \/ "completed" \notin taken.events
                                             \/ "error" \in taken.events]
    IN IF s.backend = "Unavailable" \/ ~s.playing THEN {s}
       ELSE IF taken.events = {} THEN {taken.s}
       ELSE IF done.pending = NoBank THEN {done}
       ELSE {r.s : r \in submit_samples([done EXCEPT !.pending = NoBank], done.pending)}

(* One call of decode_chunk: frames decoded into the bank (the stream is    *)
(* finished with its last chunk), nothing left, or an unsupported frame.    *)
decode_chunk(s, bank) ==
    IF s.media.left = 0 THEN {[kind |-> "none", s |-> s]}
    ELSE LET written == Decoded(s, bank)
         IN { [kind |-> "frames", s |-> [written EXCEPT !.media.left = @ - 1]],
              [kind |-> "none", s |-> [s EXCEPT !.media.left = 0]],
              [kind |-> "error", s |-> written] }

MediaDone(s) ==
    IF s.media.left = 0 /\ ~s.playing THEN [s EXCEPT !.media = NoTrack] ELSE s

service_media(s) ==
    IF ~s.media.loaded \/ QueueFull(s) THEN {[ok |-> TRUE, s |-> s]}
    ELSE UNION { CASE d.kind = "frames" -> schedule_samples(d.s, available_bank(s))
                   [] d.kind = "none" -> {[ok |-> TRUE, s |-> MediaDone(d.s)]}
                   [] d.kind = "error" -> {[ok |-> FALSE, s |-> d.s]}
                 : d \in decode_chunk(s, available_bank(s)) }

StoppedOnError(results) == UNION { IF r.ok THEN {r.s} ELSE stop(r.s) : r \in results }

status_locked(s) ==
    UNION { StoppedOnError(service_media(t)) : t \in service_interrupts(s) }

-----------------------------------------------------------------------------
(* The entry points. *)

(* The bring-up of a driver stops at the first of its stages that fails; a  *)
(* driver that claimed its function before that stage hands it back.        *)
Claimed(stage, claimed, released) == stage \in claimed \ released

(* Every VirtIO stage after the claim ends in a shutdown that releases it.  *)
Shutdown == {"queues", "sizes", "event", "stream", "params"}

InitializeVirtio ==
    { [ready |-> stage = "done",
       held |-> Claimed(stage, {"queues", "sizes", "event", "stream", "params", "done"}, Shutdown)]
      : stage \in {"probe", "transport", "claim", "queues", "sizes", "event", "stream",
                   "params", "done"} }

(* HDA claims last, when nothing can fail any more. *)
InitializeHda ==
    { [ready |-> stage = "done", held |-> Claimed(stage, {"done"}, {})]
      : stage \in {"probe", "reset", "codec", "widgets", "stream", "irq", "done"} }

InitializeAc97 ==
    { [ready |-> stage = "done", held |-> Claimed(stage, {"reset", "irq", "done"}, {"reset", "irq"})]
      : stage \in {"probe", "claim", "reset", "irq", "done"} }

Booted(backend, claims) ==
    sound' = [sound EXCEPT !.booted = TRUE, !.backend = backend, !.claims = claims]

(* The drivers are tried in this order until one is ready. *)
initialize ==
    /\ ~sound.booted
    /\ \E v \in InitializeVirtio, h \in InitializeHda, a \in InitializeAc97 :
         LET virtio == IF v.held THEN {"VirtioSound"} ELSE {}
             hda == IF h.held THEN {"Hda"} ELSE {}
             ac97 == IF a.held THEN {"Ac97"} ELSE {}
         IN \/ v.ready /\ Booted("VirtioSound", virtio)
            \/ ~v.ready /\ h.ready /\ Booted("Hda", virtio \cup hda)
            \/ ~v.ready /\ ~h.ready /\ a.ready /\ Booted("Ac97", virtio \cup hda \cup ac97)
            \/ ~v.ready /\ ~h.ready /\ ~a.ready
                 /\ Booted("Unavailable", virtio \cup hda \cup ac97)

set_muted ==
    /\ sound.booted
    /\ \E m \in BOOLEAN :
         sound' = [sound EXCEPT !.muted = m,
                                !.mixer = IF sound.backend \in {"Ac97", "Hda"} THEN m ELSE @]

Stop == sound.booted /\ sound' \in stop(sound)

poll == sound.booted /\ sound' \in status_locked(sound)

(* play_wave and play_tone end any music, then queue one decoded buffer. *)
Silenced(s) == IF s.media.loaded THEN stop(s) ELSE {s}

Queued(s) ==
    IF QueueFull(s) THEN {s}
    ELSE {r.s : r \in schedule_samples(Decoded(s, available_bank(s)), available_bank(s))}

play_wave ==
    /\ sound.backend # "Unavailable"
    /\ sound.fresh < MaxBlocks
    /\ \E quiet \in Silenced(sound) : \E s \in service_interrupts(quiet) :
         \/ sound' \in Queued(s)
         \/ sound' = s                          \* a malformed file decodes nothing

play_tone ==
    /\ sound.backend # "Unavailable"
    /\ sound.fresh < MaxBlocks
    /\ \E quiet \in Silenced(sound) : \E s \in service_interrupts(quiet) : sound' \in Queued(s)

play_track ==
    /\ sound.backend # "Unavailable"
    /\ sound.fresh < MaxBlocks
    /\ \E quiet \in stop(sound) :
         LET loaded == [quiet EXCEPT !.media = [left |-> TRACK_CHUNKS, loaded |-> TRUE]]
         IN sound' \in StoppedOnError(
              UNION { IF r.ok THEN service_media(r.s) ELSE {r} : r \in service_media(loaded) })

-----------------------------------------------------------------------------
(* The device and its interrupt. *)

(* AC'97 halts after its last valid descriptor, an HDA stream is cyclic and *)
(* goes on with the first one, a VirtIO stream takes its next buffer.       *)
DeviceFinishes ==
    /\ sound.dev.running /\ sound.dev.owned # <<>>
    /\ CASE sound.backend = "Ac97" ->
              sound' = [sound EXCEPT !.dev.status = @ \cup {"completed"},
                                     !.dev.running = FALSE, !.dev.owned = <<>>]
         [] sound.backend = "Hda" ->
              sound' = [sound EXCEPT !.dev.status = @ \cup {"completed"}]
         [] sound.backend = "VirtioSound" ->
              \E word \in {"ok", "bad"} :
                sound' = [sound EXCEPT !.dev.owned = Tail(@), !.dev.used = @ + 1,
                                       !.dev.written = word]

DeviceFaults ==
    /\ sound.dev.running
    /\ sound.backend \in {"Ac97", "Hda"}
    /\ sound' = [sound EXCEPT !.dev.status = @ \cup {"error"}, !.faulty = TRUE]

\* Mutant: a completion is acknowledged and not published.
MutantAcknowledges ==
    /\ sound.dev.status # {}
    /\ sound' = [sound EXCEPT !.events = @ \cup (sound.dev.status \ {"completed"}),
                              !.dev.status = {}]

(* The handler acknowledges the device and publishes what it read. *)
handle_legacy_interrupt ==
    /\ sound.dev.status # {}
    /\ sound' = [sound EXCEPT !.events = @ \cup sound.dev.status, !.dev.status = {}]

-----------------------------------------------------------------------------
AudioInit ==
    sound = [booted |-> FALSE, backend |-> "Unavailable", claims |-> {},
             playing |-> FALSE, active |-> 0, pending |-> NoBank, media |-> NoTrack,
             muted |-> FALSE, mixer |-> FALSE, events |-> {},
             in_flight |-> FALSE, started |-> FALSE, dev |-> Halted,
             bank |-> [b \in 0 .. 1 |-> 0], fresh |-> 1, heard |-> 0, given |-> 0,
             torn |-> FALSE, faulty |-> FALSE]

AudioNext ==
    \/ initialize
    \/ set_muted
    \/ Stop
    \/ poll /\ sound.fresh < MaxBlocks
    \/ play_wave
    \/ play_tone
    \/ play_track
    \/ DeviceFinishes
    \/ DeviceFaults
    \/ handle_legacy_interrupt

-----------------------------------------------------------------------------
(* On the Intel controllers no bank is decoded into while the device may    *)
(* still read it ("without mutating memory still owned by the device"):     *)
(* available_bank is safe across faults, late events and failed resets.     *)
IntelBanksUntouched == sound.backend \in {"Ac97", "Hda"} => ~sound.torn

(* A service that believes it is playing is still owed a completion: it is  *)
(* in the device, in its status register, in the published events or in the *)
(* used ring, so playback cannot hang on an event that was consumed early.  *)
CompletionNotLost ==
    sound.playing =>
        \/ sound.dev.running /\ sound.dev.owned # <<>>
        \/ sound.dev.status \cup sound.events # {}
        \/ sound.dev.used > 0

(* Blocks are handed to the device in the order they were decoded, and none *)
(* is handed over twice: a dequeue takes the pending bank exactly once.     *)
BlocksInOrder == [][sound'.heard - sound.heard >= sound'.given - sound.given]_sound

(* On AC'97, as long as no fault was reported, a buffer is never cut off:   *)
(* the service counts a buffer as finished only after the device stopped.   *)
NothingCut ==
    sound.backend = "Ac97" /\ ~sound.faulty /\ sound.dev.running => sound.playing

(* A driver that did not come up holds no device: only the backend in use   *)
(* owns a PCI function ("claim rollback").                                  *)
ClaimsRolledBack ==
    sound.claims = IF sound.backend = "Unavailable" THEN {} ELSE {sound.backend}

\* Playback comes to its end: no block is overwritten while it is played, left
\* out, or cut off, and a device that is not in use is not claimed.
AudioPlays ==
    /\ [](IntelBanksUntouched /\ CompletionNotLost /\ NothingCut /\ ClaimsRolledBack)
    /\ BlocksInOrder
=============================================================================
