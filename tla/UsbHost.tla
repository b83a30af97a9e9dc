------------------------------ MODULE UsbHost ------------------------------
(***************************************************************************)
(* The xHCI driver (kernel/src/usb.rs): one controller, a command ring, a  *)
(* control and an interrupt ring per device, and an event ring, all of     *)
(* fixed size and all handed over by a cycle bit.  The driver enumerates   *)
(* the ports in turn, waiting for each completion, and then polls the      *)
(* event ring for the reports of the devices it accepted.                  *)
(*                                                                         *)
(* A transfer is one entry of its ring: the setup, data and status stages  *)
(* are written together and reported once.  Every entry carries the number *)
(* it was written with, so that an answer can be matched to its request.   *)
(***************************************************************************)
EXTENDS Integers, Sequences, TLC

CONSTANTS
    Ports,            \* what is attached: a sequence of "hid", "other", "none"
    MAX_DEVICES,
    RING_LINK_INDEX,  \* entries of a ring before its link
    EVENT_TRBS,       \* entries of the event ring
    MaxReports,       \* bound: reports sent by the devices
    MaxFaults         \* bound: transfers that fail or time out

VARIABLES
    usb,   \* the driver's Controller
    xhc,   \* the host controller: rings in memory and its own positions in them
    owed   \* events posted and not yet read, in order

usbVars == <<usb, xhc, owed>>

-----------------------------------------------------------------------------
(* Rings. *)

Blank(op) == [cycle |-> FALSE, n |-> 0, op |-> op, slot |-> 0, index |-> 0]
Ring == [i \in 0 .. RING_LINK_INDEX |-> Blank("none")]

(* The driver's end of a ring, and the controller's. *)
Producer == [tail |-> 0, cycle |-> TRUE]
Consumer == [head |-> 0, cycle |-> TRUE]

(* Write an entry; at the end of the ring the link is handed over first and *)
(* the cycle turns.                                                         *)
push_ring(ring, p, trb) ==
    LET wraps == p.tail = RING_LINK_INDEX
        at == IF wraps THEN 0 ELSE p.tail
        cycle == p.cycle # wraps
        linked == IF wraps THEN [ring EXCEPT ![RING_LINK_INDEX] =
                                    [Blank("link") EXCEPT !.cycle = p.cycle]] ELSE ring
    IN [ring |-> [linked EXCEPT ![at] = [trb EXCEPT !.cycle = cycle]],
        p |-> [tail |-> at + 1, cycle |-> cycle]]

(* The controller follows a link, and owns an entry of its own cycle. *)
Followed(ring, c) ==
    IF c.head = RING_LINK_INDEX /\ ring[RING_LINK_INDEX].cycle = c.cycle
    THEN [head |-> 0, cycle |-> ~c.cycle] ELSE c

Owns(ring, c) ==
    LET f == Followed(ring, c)
    IN f.head # RING_LINK_INDEX /\ ring[f.head].cycle = f.cycle

Entry(ring, c) == ring[Followed(ring, c).head]
Stepped(ring, c) == [Followed(ring, c) EXCEPT !.head = @ + 1]

-----------------------------------------------------------------------------
(* The event ring. *)

(* The position after reading an event; the cycle turns at the end. *)
next_event(u) ==
    [u EXCEPT !.event_head = IF @ + 1 = EVENT_TRBS THEN 0 ELSE @ + 1,
              !.event_cycle = @ # (u.event_head + 1 = EVENT_TRBS)]

EventWaits == xhc.events[usb.event_head].cycle = usb.event_cycle
TheEvent == xhc.events[usb.event_head]

(* The controller posts an event unless that would reach the driver's       *)
(* dequeue pointer; a full ring holds back one entry.                       *)
RoomForEvent == (xhc.post + 1) % EVENT_TRBS # usb.event_head

Posted(x, event) ==
    [x EXCEPT !.events[x.post] = [event EXCEPT !.cycle = x.post_cycle],
              !.post = (@ + 1) % EVENT_TRBS,
              !.post_cycle = @ # (x.post + 1 = EVENT_TRBS)]

Event(kind, slot, ok, n) ==
    [cycle |-> FALSE, kind |-> kind, slot |-> slot, ok |-> ok, n |-> n]

-----------------------------------------------------------------------------
(* Enumeration: the commands and control transfers of one device, in order. *)

Stages == <<"enable", "address", "short", "full", "configure", "set", "idle">>
IsCommand(op) == op \in {"enable", "address", "configure"}

EmptyDevice == [active |-> FALSE, slot |-> 0, control |-> Producer, interrupt |-> Producer]

(* Enter the running state when no port is left or every entry is used. *)
AtPort(u) ==
    IF u.port > Len(Ports) \/ u.next = MAX_DEVICES
    THEN [u EXCEPT !.phase = "running"] ELSE u

(* A port without a device is passed over; a device starts afresh. *)
reset_port ==
    /\ usb.phase = "port"
    /\ usb' = IF Ports[usb.port] = "none" THEN AtPort([usb EXCEPT !.port = @ + 1])
              ELSE [usb EXCEPT !.phase = "push", !.stage = 1, !.device = EmptyDevice]
    /\ UNCHANGED <<xhc, owed>>

(* The port that never comes out of reset ends the whole initialization.    *)
ResetTimeout ==
    /\ usb.phase = "port" /\ Ports[usb.port] # "none" /\ usb.faults < MaxFaults
    /\ usb' = [usb EXCEPT !.phase = "running", !.faults = @ + 1]
    /\ UNCHANGED <<xhc, owed>>

Trb(op) == [Blank(op) EXCEPT !.n = usb.number, !.slot = usb.device.slot, !.index = usb.next]

command(op) ==
    LET r == push_ring(xhc.command, usb.command, Trb(op))
    IN /\ usb' = [usb EXCEPT !.command = r.p, !.number = @ + 1, !.phase = "wait"]
       /\ xhc' = [xhc EXCEPT !.command = r.ring]

push_control(op) ==
    LET r == push_ring(xhc.control[usb.next], usb.device.control, Trb(op))
    IN /\ usb' = [usb EXCEPT !.device.control = r.p, !.number = @ + 1, !.phase = "wait"]
       /\ xhc' = [xhc EXCEPT !.control[usb.next] = r.ring]

(* The descriptor is read twice, its header and the whole; the two settings *)
(* have no data stage.                                                      *)
control_in(op) == op \in {"short", "full"} /\ push_control(op)
control_out(op) == op \in {"set", "idle"} /\ push_control(op)

Push ==
    /\ usb.phase = "push"
    /\ \/ IsCommand(Stages[usb.stage]) /\ command(Stages[usb.stage])
       \/ control_in(Stages[usb.stage])
       \/ control_out(Stages[usb.stage])
    /\ UNCHANGED owed

(* submit_interrupt: one more transfer on the device's interrupt ring. *)
Armed(u, x, index) ==
    LET r == push_ring(x.interrupt[index], u.devices[index].interrupt,
                       Blank("report"))
    IN [u |-> [u EXCEPT !.devices[index].interrupt = r.p],
        x |-> [x EXCEPT !.interrupt[index] = r.ring]]

(* A rejected device leaves its index, its ring and its slot as they are. *)
RejectedDevice(u) ==
    AtPort([u EXCEPT !.phase = "port", !.port = @ + 1, !.rejected = TRUE])

AcceptedDevice(u) ==
    AtPort([u EXCEPT !.phase = "port", !.port = @ + 1, !.next = @ + 1,
                     !.devices[u.next] = [u.device EXCEPT !.active = TRUE]])

(* The descriptor names a boot keyboard or a boot mouse. *)
parse_hid_configuration(port) == Ports[port] = "hid"

(* The answer to the stage that waits for it. *)
CommandAnswered(u, event) ==
    LET slot == IF Stages[u.stage] = "enable" THEN event.slot ELSE u.device.slot
        next == [u EXCEPT !.phase = "push", !.stage = @ + 1, !.device.slot = slot,
                          !.mistaken = @ \/ event.n # u.number - 1]
    IN IF ~event.ok \/ (Stages[u.stage] = "full" /\ ~parse_hid_configuration(u.port)) THEN RejectedDevice(next)
       ELSE next

Awaited(event) ==
    IF IsCommand(Stages[usb.stage]) THEN event.kind = "command"
    ELSE event.kind = "control" /\ event.slot = usb.device.slot

(* command and wait_transfer read events until theirs comes; every other    *)
(* event is read and dropped.                                               *)
wait_transfer ==
    /\ usb.phase = "wait" /\ EventWaits
    /\ owed' = Tail(owed)
    /\ LET event == TheEvent
           u == next_event(usb)
       IN IF ~Awaited(event)
          THEN /\ usb' = [u EXCEPT !.dropped = @ \cup (IF event.kind = "report" THEN {event.slot}
                                                       ELSE {})]
               /\ UNCHANGED xhc
          ELSE IF u.stage = Len(Stages) /\ event.ok
          THEN LET a == AcceptedDevice([u EXCEPT !.mistaken = @ \/ event.n # u.number - 1])
                   r == Armed(a, xhc, u.next)
               IN usb' = r.u /\ xhc' = r.x
          ELSE usb' = CommandAnswered(u, event) /\ UNCHANGED xhc

WaitTimeout ==
    /\ usb.phase = "wait" /\ ~EventWaits /\ usb.faults < MaxFaults
    /\ usb' = RejectedDevice([usb EXCEPT !.faults = @ + 1])
    /\ UNCHANGED <<xhc, owed>>

-----------------------------------------------------------------------------
(* Polling. *)

DeviceOf(slot) == {i \in DOMAIN usb.devices : usb.devices[i].active /\ usb.devices[i].slot = slot}

\* Mutant: a report is read and its device is not armed again.
MutantPoll ==
    /\ usb.phase = "running" /\ EventWaits
    /\ owed' = Tail(owed)
    /\ usb' = next_event(usb) /\ UNCHANGED xhc

(* One event of a poll: a report is taken and its device armed again; an    *)
(* error, or the event of a device that was not accepted, is passed over.   *)
poll_usb ==
    /\ usb.phase = "running" /\ EventWaits
    /\ owed' = Tail(owed)
    /\ LET u == next_event(usb)
           index == DeviceOf(TheEvent.slot)
       IN IF TheEvent.kind = "report" /\ TheEvent.ok /\ index # {}
          THEN \E i \in index : LET r == Armed(u, xhc, i) IN usb' = r.u /\ xhc' = r.x
          ELSE /\ usb' = [u EXCEPT !.dropped = @ \cup (IF TheEvent.kind = "report"
                                                       THEN {TheEvent.slot} ELSE {})]
               /\ UNCHANGED xhc

-----------------------------------------------------------------------------
(* The host controller and the devices. *)

(* A transfer or a command fails only within the bound on faults. *)
Outcome(ok) == ok \/ usb.faults < MaxFaults
Faults(ok) == IF ok THEN usb ELSE [usb EXCEPT !.faults = @ + 1]

RunsCommand ==
    /\ RoomForEvent /\ Owns(xhc.command, xhc.at)
    /\ LET trb == Entry(xhc.command, xhc.at)
           x == [xhc EXCEPT !.at = Stepped(xhc.command, xhc.at)]
           full == trb.op = "enable" /\ xhc.slots = MAX_DEVICES
           slot == IF trb.op = "enable" THEN xhc.slots + 1 ELSE trb.slot
           done == CASE trb.op = "enable" /\ ~full -> [x EXCEPT !.slots = @ + 1]
                     [] trb.op = "address" ->
                          [x EXCEPT !.controls = @ @@ slot :> [index |-> trb.index, at |-> Consumer]]
                     [] trb.op = "configure" ->
                          [x EXCEPT !.reports = @ @@ slot :> [index |-> trb.index, at |-> Consumer]]
                     [] OTHER -> x
           event == Event("command", slot, ~full, trb.n)
       IN xhc' = Posted(done, event) /\ owed' = Append(owed, event)
    /\ UNCHANGED usb

RunsControl ==
    /\ RoomForEvent
    /\ \E slot \in DOMAIN xhc.controls, ok \in BOOLEAN :
         LET ring == xhc.control[xhc.controls[slot].index]
             at == xhc.controls[slot].at
             event == Event("control", slot, ok, Entry(ring, at).n)
         IN /\ Owns(ring, at) /\ Outcome(ok)
            /\ xhc' = Posted([xhc EXCEPT !.controls[slot].at = Stepped(ring, at)], event)
            /\ owed' = Append(owed, event)
            /\ usb' = Faults(ok)

Reports ==
    /\ RoomForEvent /\ xhc.sent < MaxReports
    /\ \E slot \in DOMAIN xhc.reports, ok \in BOOLEAN :
         LET ring == xhc.interrupt[xhc.reports[slot].index]
             at == xhc.reports[slot].at
             event == Event("report", slot, ok, 0)
         IN /\ Owns(ring, at) /\ Outcome(ok)
            /\ xhc' = Posted([xhc EXCEPT !.reports[slot].at = Stepped(ring, at),
                                         !.sent = @ + 1], event)
            /\ owed' = Append(owed, event)
            /\ usb' = Faults(ok)

-----------------------------------------------------------------------------
UsbInit ==
    /\ usb = [phase |-> "port", port |-> 1, next |-> 0, stage |-> 1, device |-> EmptyDevice,
              devices |-> [i \in 0 .. MAX_DEVICES - 1 |-> EmptyDevice],
              command |-> Producer, event_head |-> 0, event_cycle |-> TRUE, number |-> 1,
              faults |-> 0, rejected |-> FALSE, mistaken |-> FALSE, dropped |-> {}]
    /\ xhc = [command |-> Ring, at |-> Consumer, slots |-> 0,
              control |-> [i \in 0 .. MAX_DEVICES - 1 |-> Ring], controls |-> <<>>,
              interrupt |-> [i \in 0 .. MAX_DEVICES - 1 |-> Ring], reports |-> <<>>,
              events |-> [i \in 0 .. EVENT_TRBS - 1 |-> Event("none", 0, FALSE, 0)],
              post |-> 0, post_cycle |-> TRUE, sent |-> 0]
    /\ owed = <<>>

UsbNext ==
    \/ reset_port \/ ResetTimeout
    \/ Push \/ wait_transfer \/ WaitTimeout
    \/ poll_usb
    \/ RunsCommand \/ RunsControl \/ Reports

-----------------------------------------------------------------------------
(* The events the driver has still to read are those the controller posted  *)
(* and it did not read yet, in order, across every turn of the event ring:  *)
(* the cycle bit neither repeats an event nor hides one.                    *)
EventsReadOnce ==
    /\ EventWaits = (owed # <<>>)
    /\ owed # <<>> => [TheEvent EXCEPT !.cycle = FALSE] = owed[1]

(* A device the driver accepted always has one transfer waiting for its     *)
(* next report, or its report waiting for the driver, unless an event of it *)
(* was dropped; a device without either is never heard again.               *)
DevicesStayArmed ==
    \A i \in DOMAIN usb.devices :
        usb.devices[i].active /\ usb.devices[i].slot \notin usb.dropped =>
            LET slot == usb.devices[i].slot
                armed == Owns(xhc.interrupt[i], xhc.reports[slot].at)
                reported == \E k \in DOMAIN owed : owed[k].kind = "report" /\ owed[k].slot = slot
            IN armed # reported

(* Until a device is rejected, an answer is the one to the request that     *)
(* waits for it.                                                            *)
AnswersMatch == ~usb.rejected => ~usb.mistaken

\* Every event of the controller is read once, every report is asked for again,
\* and a completion is taken for the transfer it completes.
UsbAccounted == EventsReadOnce /\ DevicesStayArmed /\ AnswersMatch
=============================================================================
