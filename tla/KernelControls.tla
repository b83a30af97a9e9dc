--------------------------- MODULE KernelControls ---------------------------
(***************************************************************************)
(* The kernel controls of the shell (kernel/src/kernel_controls.rs): the   *)
(* event queue with its watches, timers and ready ring, the ExpBudget      *)
(* limits, and the two tunables that steer the queue.                      *)
(*                                                                         *)
(* Counters shown to the user (delivered, dropped, coalesced, denials) are *)
(* left out: nothing reads them back.  u64 is 0..MaxTime; the clock is the *)
(* time stamp counter.                                                     *)
(***************************************************************************)
EXTENDS Integers, FiniteSets, FiniteSetsExt, Tables

CONSTANTS Identifiers,       \* of signal and timer watches
          Intervals,         \* timer intervals, zero for a one-shot timer
          MAX_WATCHES,
          MAX_READY_EVENTS,
          MaxTime,           \* u64::MAX
          MaxReady           \* bound: events queued

VARIABLES queue,    \* [watches, ready, head, count, next_sequence]
          limits,   \* ExpBudget: [used, soft, hard] of each resource
          tunables, \* [batch, coalesce]
          now,      \* the clock
          polled    \* history: expirations delivered for each timer watch slot

controlVars == <<queue, limits, tunables, now, polled>>

\* One resource that its subsystem manages and one that commands reserve.
Resources == {"EventWatches", "ScratchPages"}
Managed == {"EventWatches"}
ControlCeiling == [EventWatches |-> MAX_WATCHES, ScratchPages |-> 1]

Watch(identifier, filter, deadline, interval) ==
    [identifier |-> identifier, filter |-> filter, deadline |-> deadline,
     interval |-> interval, enabled |-> TRUE]
same_event_key(entry, identifier, filter) ==
    entry.filter = filter /\ entry.identifier = identifier

-----------------------------------------------------------------------------
(* The ready ring.                                                         *)

RingSlot(q, offset) == (q.head + offset) % MAX_READY_EVENTS

Watched(q, identifier, filter) ==
    \E i \in DOMAIN q.watches :
       q.watches[i].enabled /\ same_event_key(q.watches[i], identifier, filter)

\* The ready event a new one of the same key is merged with.
Mergeable(q, identifier, filter) ==
    {offset \in 0..q.count - 1 :
       /\ RingSlot(q, offset) \in DOMAIN q.ready
       /\ same_event_key(q.ready[RingSlot(q, offset)], identifier, filter)}

CanSignal(q, identifier, filter, coalesce) ==
    /\ Watched(q, identifier, filter)
    /\ \/ coalesce /\ Mergeable(q, identifier, filter) # {}
       \/ q.count < MAX_READY_EVENTS

Merge(filter, old, data) == IF filter = "Timer" THEN old + data ELSE data

Signalled(q, identifier, filter, data, coalesce) ==
    IF coalesce /\ Mergeable(q, identifier, filter) # {}
    THEN LET slot == RingSlot(q, Min(Mergeable(q, identifier, filter)))
         IN  [q EXCEPT !.ready[slot].data = Merge(filter, @, data)]
    ELSE [q EXCEPT !.ready = Put(@, RingSlot(q, q.count),
                                 [identifier |-> identifier, filter |-> filter,
                                  data |-> data, sequence |-> q.next_sequence]),
                   !.count = @ + 1,
                   !.next_sequence = @ + 1]

\* EventQueue::signal, whose error leaves the queue as it is.
Try(q, identifier, filter, data, coalesce) ==
    IF CanSignal(q, identifier, filter, coalesce)
    THEN Signalled(q, identifier, filter, data, coalesce) ELSE q

remove_ready(q, identifier, filter) ==
    LET kept == {offset \in 0..q.count - 1 :
                   ~same_event_key(q.ready[RingSlot(q, offset)], identifier, filter)}
        Nth(n) == CHOOSE offset \in kept : Cardinality({o \in kept : o < offset}) = n
    IN  [q EXCEPT !.ready = [n \in 0..Cardinality(kept) - 1 |-> q.ready[RingSlot(q, Nth(n))]],
                  !.head = 0,
                  !.count = Cardinality(kept)]

-----------------------------------------------------------------------------
(* Timers.                                                                 *)

\* Periods that have passed, with the one that ends at the deadline.
Expirations(watch) ==
    IF watch.interval = 0 THEN 1 ELSE ((now - watch.deadline) \div watch.interval) + 1

Rearmed(watch) ==
    LET deadline == watch.deadline + watch.interval * Expirations(watch)
    IN  IF watch.interval = 0 \/ deadline > MaxTime
        THEN [watch EXCEPT !.enabled = FALSE]
        ELSE [watch EXCEPT !.deadline = deadline]

\* Mutant: the watch is rearmed whether or not the event was queued.
MutantRearmsAnyway(q, i) ==
    IF i \notin DOMAIN q.watches THEN q
    ELSE LET watch == q.watches[i] IN
         IF ~watch.enabled \/ watch.filter # "Timer" \/ now < watch.deadline THEN q
         ELSE [Try(q, watch.identifier, "Timer", Expirations(watch), tunables.coalesce)
                 EXCEPT !.watches[i] = Rearmed(watch)]

\* One watch of advance_timers.  A timer whose event finds no room in the ring
\* keeps its deadline.
Advanced(q, i) ==
    IF i \notin DOMAIN q.watches THEN q
    ELSE LET watch == q.watches[i] IN
         IF \/ ~watch.enabled \/ watch.filter # "Timer" \/ now < watch.deadline
            \/ ~CanSignal(q, watch.identifier, "Timer", tunables.coalesce)
         THEN q
         ELSE [Signalled(q, watch.identifier, "Timer", Expirations(watch), tunables.coalesce)
                 EXCEPT !.watches[i] = Rearmed(watch)]

advance_timers(q) ==
    LET upto[i \in 0..MAX_WATCHES] == IF i = 0 THEN q ELSE Advanced(upto[i - 1], i)
    IN  upto[MAX_WATCHES]

-----------------------------------------------------------------------------
(* Resource limits.                                                        *)

CanChargeControl(resource, amount) == limits[resource].used + amount <= limits[resource].soft
Charged(resource, amount) == [limits EXCEPT ![resource].used = @ + amount]
Released(resource, amount) == [limits EXCEPT ![resource].used = @ - amount]

\* A refused charge is an event for whoever watches the resource.
Denied(resource, amount) == Try(queue, resource, "Resource", amount, tunables.coalesce)

-----------------------------------------------------------------------------
(* Operations.                                                             *)

RegisterSlot(watch) ==
    IF \E i \in DOMAIN queue.watches :
          same_event_key(queue.watches[i], watch.identifier, watch.filter)
    THEN {} ELSE FirstFree(queue.watches, MAX_WATCHES)

\* The budget first; a registration that is then refused gives it back.
RegisterWatch(watch) ==
    /\ IF ~CanChargeControl("EventWatches", 1)
       THEN /\ queue' = Denied("EventWatches", 1)
            /\ UNCHANGED <<limits, polled>>
       ELSE \E i \in RegisterSlot(watch) :
              /\ queue' = [queue EXCEPT !.watches = Put(@, i, watch)]
              /\ polled' = Put(polled, i, [first |-> watch.deadline, told |-> 0])
              /\ limits' = Charged("EventWatches", 1)
    /\ UNCHANGED <<tunables, now>>

Unregistered(i) ==
    LET watch == queue.watches[i]
    IN  remove_ready([queue EXCEPT !.watches = Take(@, i)], watch.identifier, watch.filter)

WatchReleased == Released("EventWatches", 1)

UnregisterWatch(i) ==
    /\ queue' = Unregistered(i)
    /\ limits' = WatchReleased
    /\ polled' = Take(polled, i)
    /\ UNCHANGED <<tunables, now>>

Signal(identifier, data) ==
    /\ CanSignal(queue, identifier, "Signal", tunables.coalesce)
    /\ queue' = Signalled(queue, identifier, "Signal", data, tunables.coalesce)
    /\ UNCHANGED <<limits, tunables, now, polled>>

\* EventQueue::poll takes events from the head.
Taken(q) == {RingSlot(q, offset) : offset \in 0..Min({tunables.batch, q.count}) - 1}
Drained(q) ==
    LET amount == Min({tunables.batch, q.count})
    IN  [q EXCEPT !.ready = [slot \in DOMAIN q.ready \ Taken(q) |-> q.ready[slot]],
                  !.head = RingSlot(q, amount),
                  !.count = @ - amount]

\* KernelControls::poll: the timers first, then up to a batch of events.
Poll ==
    \E q \in {advance_timers(queue)} :
       LET Due(i) == {slot \in Taken(q) :
                        /\ q.watches[i].filter = "Timer"
                        /\ same_event_key(q.ready[slot], q.watches[i].identifier, "Timer")}
       IN  /\ queue' = Drained(q)
           /\ polled' = [i \in DOMAIN polled |->
                [polled[i] EXCEPT !.told =
                    @ + MapThenSumSet(LAMBDA slot : q.ready[slot].data, Due(i))]]
           /\ UNCHANGED <<limits, tunables, now>>

SetTunable ==
    /\ \/ \E batch \in 1..2 : tunables' = [tunables EXCEPT !.batch = batch]
       \/ \E coalesce \in BOOLEAN : tunables' = [tunables EXCEPT !.coalesce = coalesce]
    /\ UNCHANGED <<queue, limits, now, polled>>

ValidLimit(resource, soft, hard) ==
    limits[resource].used <= soft /\ soft <= hard /\ hard <= ControlCeiling[resource]

SetLimit(resource, soft, hard) ==
    /\ ValidLimit(resource, soft, hard)
    /\ limits' = [limits EXCEPT ![resource].soft = soft, ![resource].hard = hard]
    /\ UNCHANGED <<queue, tunables, now, polled>>

\* charge by a command, and charge_form_operation by a mutating command.
Charge(resource, amount) ==
    /\ IF CanChargeControl(resource, amount)
       THEN limits' = Charged(resource, amount) /\ UNCHANGED queue
       ELSE queue' = Denied(resource, amount) /\ UNCHANGED limits
    /\ UNCHANGED <<tunables, now, polled>>

Release(resource, amount) ==
    /\ resource \notin Managed /\ amount <= limits[resource].used
    /\ limits' = Released(resource, amount)
    /\ UNCHANGED <<queue, tunables, now, polled>>

Tick ==
    /\ now < MaxTime
    /\ now' = now + 1
    /\ UNCHANGED <<queue, limits, tunables, polled>>

ControlsInit ==
    /\ queue = [watches |-> EmptyTable, ready |-> EmptyTable, head |-> 0, count |-> 0,
                next_sequence |-> 1]
    /\ limits = [resource \in Resources |-> [used |-> 0, soft |-> ControlCeiling[resource],
                                         hard |-> ControlCeiling[resource]]]
    /\ tunables = [batch |-> 1, coalesce |-> TRUE]
    /\ now = 0
    /\ polled = EmptyTable

\* The shell commands, for a session whose boot Handle allows them.
KqueueAdd ==
    \/ \E identifier \in Identifiers :
         \/ RegisterWatch(Watch(identifier, "Signal", 0, 0))
         \/ \E interval \in Intervals :
              now < MaxTime /\ RegisterWatch(Watch(identifier, "Timer", now + 1, interval))
    \/ RegisterWatch(Watch("ScratchPages", "Resource", 0, 0))
KqueueDelete == \E i \in DOMAIN queue.watches : UnregisterWatch(i)
KqueueSignal == \E identifier \in Identifiers : Signal(identifier, 1)
ExpbudgetSet ==
    \E soft \in 0..MAX_WATCHES : SetLimit("EventWatches", soft, MAX_WATCHES)
ExpbudgetCharge == Charge("ScratchPages", 1)
ExpbudgetRelease == Release("ScratchPages", 1)

ControlsNext ==
    \/ /\ queue.next_sequence <= MaxReady
       /\ KqueueAdd \/ KqueueSignal \/ ExpbudgetCharge \/ Poll
    \/ KqueueDelete \/ SetTunable \/ ExpbudgetSet \/ ExpbudgetRelease
    \/ Tick

ControlsSpec == ControlsInit /\ [][ControlsNext]_controlVars

-----------------------------------------------------------------------------
(* Properties.                                                             *)

\* The occupied slots of the ready ring are the `count' slots from the head
\* on, so that the expectation of poll never fails, and the events leave it
\* in the order of their sequences (signal, poll, remove_ready).
RingContiguous ==
    /\ DOMAIN queue.ready = {RingSlot(queue, offset) : offset \in 0..queue.count - 1}
    /\ \A a, b \in 0..queue.count - 1 : a < b =>
         queue.ready[RingSlot(queue, a)].sequence < queue.ready[RingSlot(queue, b)].sequence

\* A ready event belongs to a watch that is still registered (unregister).
ReadyIsWatched ==
    \A slot \in DOMAIN queue.ready : \E i \in DOMAIN queue.watches :
       same_event_key(queue.watches[i], queue.ready[slot].identifier, queue.ready[slot].filter)

\* ARCHITECTURE: "Missed periodic expirations accumulate rather than silently
\* disappearing".  The deadline of a periodic timer is its first one plus one
\* interval for each expiration delivered or waiting in the ring, also when
\* the ring was full, events were merged or a poll came late (advance_timers).
ExpirationsConserved ==
    \A i \in DOMAIN queue.watches :
       LET watch == queue.watches[i]
           waiting == {slot \in DOMAIN queue.ready :
                         same_event_key(queue.ready[slot], watch.identifier, "Timer")}
       IN  (watch.filter = "Timer" /\ watch.enabled)
           => watch.deadline = polled[i].first + watch.interval *
                (polled[i].told + MapThenSumSet(LAMBDA slot : queue.ready[slot].data, waiting))

\* EventWatches is charged once for each registered watch, and every limit
\* satisfies used <= soft <= hard <= ceiling ("limits must satisfy used <= soft
\* <= hard <= ceiling"), through refused registrations and changed limits.
BudgetMatches ==
    /\ limits["EventWatches"].used = Cardinality(DOMAIN queue.watches)
    /\ \A r \in Resources : /\ limits[r].used <= limits[r].soft
                            /\ limits[r].soft <= limits[r].hard
                            /\ limits[r].hard <= ControlCeiling[r]

\* The event queue and the budgets agree with what a Form has registered and
\* been told (kernel_controls.rs).
ControlsExact ==
    RingContiguous /\ ReadyIsWatched /\ ExpirationsConserved /\ BudgetMatches
=============================================================================
