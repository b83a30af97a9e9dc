--------------------------- MODULE NetworkDriver ---------------------------
(* The RTL8139 driver in the network worker (ports/services/network), the    *)
(* register portal and DMA lease of the kernel (network.rs), the worker's    *)
(* life (service.rs, run_inner) and the card (external).  Lengths are bytes; *)
(* the receive ring holds 4-byte cells.                                      *)
EXTENDS Integers, Sequences, FiniteSets

CONSTANTS RX_RING_SIZE,     \* bytes, a multiple of 4
          FrameLengths,          \* lengths the card reports, the CRC included
          TX_BUFFER_COUNT,
          MaxRuns, MaxFrames, MaxSends

VARIABLES driver,   \* the running worker: its arena, where it is, its DriverState
          portal,   \* DRIVER_PORTAL: the arena leased, or NoArena
          card,     \* what the card holds in its registers and rings
          net       \* ghost: the frames the card took in, and those the worker got

\* A frame and its header are longer than the 16 bytes CAPR trails by.
ASSUME RingAssumption == \A length \in FrameLengths : length >= 16 /\ length + 8 < RX_RING_SIZE

NoArena == 0
Slots8139 == 0..(TX_BUFFER_COUNT - 1)

CardReset == [on |-> FALSE, ring |-> NoArena, capr |-> 0, wp |-> 0,
              own |-> [s \in Slots8139 |-> TRUE], status |-> [s \in Slots8139 |-> "ok"]]

NoWorker == [arena |-> NoArena, step |-> "idle", offset |-> 0, index |-> 0]

DriverInit ==
    /\ driver = NoWorker
    /\ portal = NoArena
    /\ card = [regs |-> CardReset, master |-> FALSE, cells |-> [c \in 0..(RX_RING_SIZE \div 4 - 1) |-> <<>>],
               buffers |-> [s \in Slots8139 |-> 0]]
    /\ net = [runs |-> 0, taken |-> <<>>, got |-> <<>>, sent |-> 0]

RingAt(step) == driver.step = step /\ driver.arena # NoArena
Goes(step) == driver' = [driver EXCEPT !.step = step]

----------------------------------------------------------------------------
(* The worker's life.  ACTIVE admits one at a time; the portal is released   *)
(* whatever ended it, before its arena is dropped.                           *)
RunStart ==
    /\ driver.arena = NoArena
    /\ net.runs < MaxRuns
    /\ driver' = [NoWorker EXCEPT !.arena = net.runs + 1, !.step = "acquire"]
    /\ net' = [net EXCEPT !.runs = @ + 1, !.taken = <<>>, !.got = <<>>]
    /\ UNCHANGED <<portal, card>>

\* An exit, a fault and the end of the budget come at any step.
WorkerEnds ==
    /\ driver.step \notin {"idle", "ended"}
    /\ Goes("ended")
    /\ UNCHANGED <<portal, card, net>>

\* Mutant: the engine is left on.
MutantRelease ==
    /\ portal' = NoArena
    /\ card' = [card EXCEPT !.master = FALSE]

\* Interrupts and the engine off, bus mastering off, the lease cleared.
service_driver_release ==
    IF portal = NoArena THEN UNCHANGED <<portal, card>>
    ELSE /\ portal' = NoArena
         /\ card' = [card EXCEPT !.regs.on = FALSE, !.master = FALSE]

RunEnds ==
    /\ driver.step = "ended"
    /\ service_driver_release
    /\ driver' = NoWorker
    /\ UNCHANGED net

----------------------------------------------------------------------------
(* configuration.                                                            *)
service_driver_acquire ==
    /\ RingAt("acquire")
    /\ IF portal # NoArena THEN Goes("ended") /\ UNCHANGED <<portal, card>>
       ELSE /\ portal' = driver.arena
            /\ card' = [card EXCEPT !.master = TRUE]
            /\ Goes("reset")
    /\ UNCHANGED net

\* Every register access needs the lease.
PortalOpen == portal # NoArena

Reset8139 ==
    /\ RingAt("reset") /\ PortalOpen
    /\ card' = [card EXCEPT !.regs = CardReset]
    /\ Goes("addresses")
    /\ UNCHANGED <<portal, net>>

\* The kernel substitutes the leased addresses.
Addresses ==
    /\ RingAt("addresses") /\ PortalOpen
    /\ card' = [card EXCEPT !.regs.ring = portal]
    /\ Goes("enable")
    /\ UNCHANGED <<portal, net>>

Enable ==
    /\ RingAt("enable") /\ PortalOpen
    /\ card' = [card EXCEPT !.regs.on = TRUE, !.regs.capr = 0]
    /\ driver' = [driver EXCEPT !.step = "up", !.offset = 0, !.index = 0]
    /\ UNCHANGED <<portal, net>>

----------------------------------------------------------------------------
(* The card.  It takes a frame when the ring has room for it, and airs a     *)
(* buffer it was given.                                                      *)
Aligned(n) == ((n + 3) \div 4) * 4
Room == (card.regs.capr - card.regs.wp - 1) % RX_RING_SIZE
Empty == card.regs.wp = card.regs.capr

CardReceives(length, good) ==
    LET id == Len(net.taken) + 1
        size == Aligned(length + 4)
    IN  /\ card.regs.on /\ card.master
        /\ Len(net.taken) < MaxFrames
        /\ size <= Room
        /\ card' = [card EXCEPT
               !.cells = [c \in DOMAIN @ |->
                   LET k == (c - card.regs.wp \div 4) % (RX_RING_SIZE \div 4)
                   IN  IF k = 0 THEN <<"header", id, length, good>>
                       ELSE IF k < size \div 4 THEN <<"data", id, k, good>> ELSE @[c]],
               !.regs.wp = (@ + size) % RX_RING_SIZE]
        /\ net' = [net EXCEPT !.taken = Append(@, good)]
        /\ UNCHANGED <<driver, portal>>

CardAirs(slot, outcome) ==
    /\ card.regs.on /\ card.master /\ ~card.regs.own[slot]
    /\ card' = [card EXCEPT !.regs.own[slot] = TRUE, !.regs.status[slot] = outcome]
    /\ UNCHANGED <<driver, portal, net>>

----------------------------------------------------------------------------
(* receive.                                                                  *)
\* CAPR trails the offset by 16 bytes, as a 16-bit value; the portal admits
\* 0xFFF0 and what is inside the ring (driver_write_value).
CaprOf(offset) == (offset - 16) % 65536
CaprAdmitted(value) == value = 65520 \/ value < RX_RING_SIZE

NextOffset(offset, length) == Aligned(offset + length + 4) % RX_RING_SIZE

\* The cells after the header, read around the end of the ring.
copy_wrapped(offset, length) ==
    {card.cells[((offset \div 4) + k) % (RX_RING_SIZE \div 4)] : k \in 1..((length + 3) \div 4)}

Intact(id, cells) == cells \subseteq {<<"data", id, k, TRUE>> : k \in 1..RX_RING_SIZE}

Received(header, cells) ==
    IF header[1] # "header" THEN <<"torn">>
    ELSE IF ~header[4] THEN <<>>
    ELSE IF Intact(header[2], cells) THEN <<header[2]>> ELSE <<"torn">>

receive8139 ==
    /\ RingAt("up") /\ ~Empty
    /\ LET header == card.cells[driver.offset \div 4]
           length == IF header[1] = "header" THEN header[3] ELSE 0
           next == NextOffset(driver.offset, length)
           value == CaprOf(next)
       IN  /\ net' = [net EXCEPT !.got = @ \o IF CaprAdmitted(value)
                                              THEN Received(header, copy_wrapped(driver.offset, length))
                                              ELSE <<>>]
           /\ driver' = [driver EXCEPT !.offset = next,
                                       !.step = IF CaprAdmitted(value) THEN @ ELSE "ended"]
           /\ card' = IF CaprAdmitted(value) THEN [card EXCEPT !.regs.capr = next] ELSE card
    /\ UNCHANGED portal

----------------------------------------------------------------------------

(* send: wait for the buffer, fill it, submit it, wait for its status.  A    *)
(* wait that runs out fails the call and keeps the index.                    *)
Available(slot) == card.regs.own[slot]

SendStart ==
    /\ RingAt("up")
    /\ net.sent < MaxSends
    /\ Available(driver.index)
    /\ card' = [card EXCEPT !.buffers[driver.index] = net.sent + 1,
                            !.regs.own[driver.index] = FALSE,
                            !.regs.status[driver.index] = "none"]
    /\ net' = [net EXCEPT !.sent = @ + 1]
    /\ Goes("send")
    /\ UNCHANGED portal

SendDone ==
    /\ RingAt("send")
    /\ card.regs.status[driver.index] = "ok"
    /\ driver' = [driver EXCEPT !.step = "up", !.index = (@ + 1) % TX_BUFFER_COUNT]
    /\ UNCHANGED <<portal, card, net>>

\* An abort or a timeout: the caller goes on (an ARP answer) or gives up.
SendFails ==
    /\ RingAt("send")
    /\ card.regs.status[driver.index] # "ok"
    /\ Goes("up")
    /\ UNCHANGED <<portal, card, net>>

DriverNext ==
    \/ RunStart \/ WorkerEnds \/ RunEnds
    \/ service_driver_acquire \/ Reset8139 \/ Addresses \/ Enable
    \/ receive8139 \/ SendStart \/ SendDone \/ SendFails
    \/ \E length \in FrameLengths, good \in BOOLEAN : CardReceives(length, good)
    \/ \E slot \in Slots8139, outcome \in {"ok", "aborted"} : CardAirs(slot, outcome)

----------------------------------------------------------------------------
(* "Quiesce DMA before the service arena can be dropped. This executes on    *)
(* success, fault and ExpBudget termination." (network.rs:2176-2177): a card *)
(* that can write memory writes into the arena of the running worker.        *)
DmaStaysLeased ==
    /\ card.master => portal # NoArena /\ portal = driver.arena
    /\ card.regs.on /\ card.master => card.regs.ring = driver.arena

Good(taken) == {i \in DOMAIN taken : taken[i]}

(* The worker reads the good frames of the ring whole, in order and none     *)
(* twice, around the end of the ring too (copy_wrapped).                     *)
FramesIntact ==
    \A i \in DOMAIN net.got :
        /\ net.got[i] \in Good(net.taken)
        /\ Cardinality({j \in Good(net.taken) : j <= net.got[i]}) = i

(* A frame that was submitted stays as it is while the card owns its buffer, *)
(* also after the worker stopped waiting for it (send, TX_STATUS_OWN).       *)
TransmitStable ==
    [][\A slot \in Slots8139 :
           ~card.regs.own[slot] => card'.buffers[slot] = card.buffers[slot]]_card

\* The card only reaches memory of the worker that drives it, frames arrive
\* whole and in order, and a frame handed over for sending is left alone.
DriverSafe == [](DmaStaysLeased /\ FramesIntact) /\ TransmitStable
=============================================================================
