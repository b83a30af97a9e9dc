----------------------------- MODULE Scheduler -----------------------------
(***************************************************************************)
(* Form execution contexts, their ExpBudget and the scheduler that owns    *)
(* them (crates/expos-core/src/execution.rs and budget.rs).                *)
(*                                                                         *)
(* A scheduler is a record, and each of its methods is an operator from a  *)
(* scheduler to the scheduler it leaves, so that a caller that makes       *)
(* several calls in one command (FormLifecycle) composes them.  A call     *)
(* that returns an error leaves the scheduler alone and is no step.        *)
(*                                                                         *)
(* CPU registers, address spaces, handles and the diagnostic counters are  *)
(* left out: no decision of the scheduler reads them.  A message is its    *)
(* length, and of the events only their number is kept.  The three budget  *)
(* accounts that the scheduler charges are kept.                           *)
(***************************************************************************)
EXTENDS Integers, Sequences

CONSTANTS
    Identities,               \* CFC/Dimension/Form identities of contexts
    NoIdentity,               \* identity of an empty slot
    MAX_EXECUTION_CONTEXTS,   \* slots of the context table
    MAX_CONTEXT_MESSAGES,     \* capacity of a context's message ring
    MAX_CONTEXT_EVENTS,       \* capacity of a context's event ring
    Ceiling,                  \* budget ceiling an admitted context is given
    LimitChoices,             \* limits an administrator may configure
    Lengths,                  \* payload lengths of IPC messages
    MaxId                     \* bound on context ids (u32 in the code)

ASSUME SchedulerAssumption ==
    /\ MAX_EXECUTION_CONTEXTS \in Nat \ {0}
    /\ MAX_CONTEXT_MESSAGES \in Nat /\ MAX_CONTEXT_EVENTS \in Nat
    /\ Ceiling \in Nat
    /\ LimitChoices \subseteq [soft : Nat, hard : Nat]
    /\ Lengths \subseteq Nat
    /\ MaxId \in Nat

VARIABLE sched

Slots == 0..MAX_EXECUTION_CONTEXTS - 1
NoSlot == -1

-----------------------------------------------------------------------------
(* Budgets: one account per resource, used <= soft <= hard <= ceiling.     *)

Kinds == {"CpuTicks", "IpcMessages", "IpcBytes"}

uniform == [kind \in Kinds |-> [soft |-> Ceiling, hard |-> Ceiling, used |-> 0]]

AccountType == [soft : Nat, hard : Nat, used : Nat]

CanCharge(budget, kind, amount) ==
    budget[kind].used + amount <= budget[kind].soft
charge(budget, kind, amount) == [budget EXCEPT ![kind].used = @ + amount]
release(budget, kind, amount) ==
    IF budget[kind].used >= amount
      THEN [budget EXCEPT ![kind].used = @ - amount]
      ELSE budget

CanConfigure(budget, kind, limits) ==
    /\ budget[kind].used <= limits.soft
    /\ limits.soft <= limits.hard /\ limits.hard <= Ceiling
configure(budget, kind, limits) ==
    [budget EXCEPT ![kind].soft = limits.soft, ![kind].hard = limits.hard]

remaining_before_soft(budget, kind) == budget[kind].soft - budget[kind].used

-----------------------------------------------------------------------------
(* Contexts.  An empty slot of the table is a context in state "Absent".   *)

States == {"Ready", "Running", "Paused", "Waiting", "BudgetBlocked",
           "Exited", "Terminated"}
Ended == {"Exited", "Terminated"}

NewContext(id, identity) ==
    [id |-> id, identity |-> identity, state |-> "Ready",
     budget |-> uniform, messages |-> <<>>, events |-> 0]
Absent == [NewContext(0, NoIdentity) EXCEPT !.state = "Absent"]

ContextType ==
    [id : Nat, identity : Identities \cup {NoIdentity},
     state : States \cup {"Absent"},
     budget : [Kinds -> AccountType], messages : Seq(Lengths), events : Nat]

SchedulerType ==
    [contexts : [Slots -> ContextType], current_slot : Slots \cup {NoSlot},
     cursor : Slots, next_id : Nat]

Reusable(context) == context.state \in Ended \cup {"Absent"}

CanPush(context, len) ==
    /\ Len(context.messages) < MAX_CONTEXT_MESSAGES
    /\ CanCharge(context.budget, "IpcMessages", 1)
    /\ CanCharge(context.budget, "IpcBytes", len)
push_message(context, len) ==
    [context EXCEPT
        !.messages = Append(@, len),
        !.budget = charge(charge(@, "IpcMessages", 1), "IpcBytes", len)]
\* Mutant: the bytes of a popped message stay charged.
MutantBytesKept(context) ==
    [context EXCEPT
        !.messages = Tail(@),
        !.budget = release(@, "IpcMessages", 1)]
pop_message(context) ==
    [context EXCEPT
        !.messages = Tail(@),
        !.budget = release(release(@, "IpcMessages", 1),
                           "IpcBytes", Head(context.messages))]

-----------------------------------------------------------------------------
(* The scheduler's methods.                                                *)

\* Contexts are looked up by id, the lowest slot first.
Position(s, id, slot) ==
    /\ s.contexts[slot].state # "Absent" /\ s.contexts[slot].id = id
    /\ \A lower \in 0..slot - 1 :
          ~(s.contexts[lower].state # "Absent" /\ s.contexts[lower].id = id)

\* self.current().is_some_and(|current| current.id == id)
IsCurrent(s, id) ==
    s.current_slot # NoSlot /\ s.contexts[s.current_slot].id = id
ClearIfCurrent(s, id) ==
    IF IsCurrent(s, id) THEN [s EXCEPT !.current_slot = NoSlot] ELSE s
SetState(s, slot, state) == [s EXCEPT !.contexts[slot].state = state]

CanAdmit(s, identity) ==
    /\ \A slot \in Slots :
          s.contexts[slot].identity = identity => Reusable(s.contexts[slot])
    /\ \E slot \in Slots : Reusable(s.contexts[slot])
AdmitSlot(s, slot) ==
    /\ Reusable(s.contexts[slot])
    /\ \A lower \in 0..slot - 1 : ~Reusable(s.contexts[lower])
admit(s, slot, identity) ==
    [s EXCEPT !.contexts[slot] = NewContext(s.next_id, identity),
              !.next_id = @ + 1]

\* Take the current slot; a context still running there becomes ready.
Yield(s) ==
    [s EXCEPT
        !.current_slot = NoSlot,
        !.contexts = [slot \in Slots |->
            IF slot = s.current_slot /\ s.contexts[slot].state = "Running"
              THEN [s.contexts[slot] EXCEPT !.state = "Ready"]
              ELSE s.contexts[slot]]]

RunSlot(s, slot) == [SetState(s, slot, "Running") EXCEPT !.current_slot = slot]

\* The first ready slot at or after the cursor, wrapping around.
Distance(s, slot) ==
    IF slot >= s.cursor THEN slot - s.cursor
                        ELSE slot - s.cursor + MAX_EXECUTION_CONTEXTS
NextReady(s, slot) ==
    /\ s.contexts[slot].state = "Ready"
    /\ \A other \in Slots : s.contexts[other].state = "Ready"
                              => Distance(s, slot) <= Distance(s, other)
\* Mutant: the search always starts at slot zero.
MutantCursorStays(s, slot) == RunSlot(s, slot)
Dispatch(s, slot) ==
    [RunSlot(s, slot) EXCEPT
        !.cursor = IF slot + 1 = MAX_EXECUTION_CONTEXTS THEN 0 ELSE slot + 1]
dispatch_next(s) ==
    LET yielded == Yield(s) IN
    IF \E slot \in Slots : NextReady(yielded, slot)
      THEN Dispatch(yielded, CHOOSE slot \in Slots : NextReady(yielded, slot))
      ELSE yielded

CanResume(s, slot) == s.contexts[slot].state = "Ready"
resume(s, slot) == RunSlot(Yield(s), slot)

\* Charge a slice, or block the context when the charge is denied.
ChargeSlice(context, ticks, state) ==
    IF CanCharge(context.budget, "CpuTicks", ticks)
      THEN [context EXCEPT !.state = state,
                           !.budget = charge(@, "CpuTicks", ticks)]
      ELSE [context EXCEPT !.state = "BudgetBlocked"]

CanPreempt(s, slot) == s.contexts[slot].state = "Running"
preempt(s, id, slot, ticks, budget_exhausted) ==
    ClearIfCurrent(
        [s EXCEPT !.contexts[slot] = ChargeSlice(@, ticks,
            IF budget_exhausted THEN "BudgetBlocked" ELSE "Ready")],
        id)

finish_slice(s, id, slot, ticks) ==
    ClearIfCurrent([s EXCEPT !.contexts[slot] = ChargeSlice(@, ticks, "Exited")],
                   id)

\* Mutant: the waiting context stays current.
MutantWaitCurrent(s, id, slot) == SetState(s, slot, "Waiting")
wait(s, id, slot) == ClearIfCurrent(SetState(s, slot, "Waiting"), id)
CanWake(s, slot) == s.contexts[slot].state = "Waiting"
wake(s, slot) == SetState(s, slot, "Ready")
CanPause(s, slot) == s.contexts[slot].state \in {"Ready", "Running"}
pause(s, id, slot) == ClearIfCurrent(SetState(s, slot, "Paused"), id)
CanContinue(s, slot) == s.contexts[slot].state = "Paused"
continue_context(s, slot) == SetState(s, slot, "Ready")
terminate(s, id, slot) == ClearIfCurrent(SetState(s, slot, "Terminated"), id)
finish(s, id, slot) == ClearIfCurrent(SetState(s, slot, "Exited"), id)

\* A fresh budget and empty queues; identity and id stay.
CanRestart(s, slot) == s.contexts[slot].state \in Ended \cup {"BudgetBlocked"}
restart(s, slot) ==
    [s EXCEPT !.contexts[slot] = NewContext(@.id, @.identity)]

send_message(s, slot, len) ==
    LET pushed == push_message(s.contexts[slot], len) IN
    [s EXCEPT !.contexts[slot] =
        [pushed EXCEPT !.state = IF @ = "Waiting" THEN "Ready" ELSE @]]

-----------------------------------------------------------------------------
(* The scheduler under any sequence of calls to its public interface.      *)

EmptyScheduler ==
    [contexts |-> [slot \in Slots |-> Absent],
     current_slot |-> NoSlot, cursor |-> 0, next_id |-> 1]

Init == sched = EmptyScheduler

Admit ==
    /\ sched.next_id <= MaxId
    /\ \E identity \in Identities, slot \in Slots :
          /\ CanAdmit(sched, identity) /\ AdmitSlot(sched, slot)
          /\ sched' = admit(sched, slot, identity)

DispatchNext == sched' = dispatch_next(sched)

Resume(slot) == CanResume(sched, slot) /\ sched' = resume(sched, slot)
Preempt(id, slot) ==
    /\ CanPreempt(sched, slot)
    /\ \E ticks \in 0..Ceiling + 1, exhausted \in BOOLEAN :
          sched' = preempt(sched, id, slot, ticks, exhausted)
FinishSlice(id, slot) ==
    \E ticks \in 0..Ceiling + 1 : sched' = finish_slice(sched, id, slot, ticks)
Wait(id, slot) == sched' = wait(sched, id, slot)
Wake(slot) == CanWake(sched, slot) /\ sched' = wake(sched, slot)
Pause(id, slot) == CanPause(sched, slot) /\ sched' = pause(sched, id, slot)
Continue(slot) ==
    CanContinue(sched, slot) /\ sched' = continue_context(sched, slot)
Terminate(id, slot) == sched' = terminate(sched, id, slot)
Finish(id, slot) == sched' = finish(sched, id, slot)
Restart(slot) == CanRestart(sched, slot) /\ sched' = restart(sched, slot)
SendMessage(slot) ==
    \E len \in Lengths : /\ CanPush(sched.contexts[slot], len)
                         /\ sched' = send_message(sched, slot, len)
PopMessage(slot) ==
    /\ sched.contexts[slot].messages # <<>>
    /\ sched' = [sched EXCEPT !.contexts[slot] = pop_message(@)]
PushEvent(slot) ==
    /\ sched.contexts[slot].events < MAX_CONTEXT_EVENTS
    /\ sched' = [sched EXCEPT !.contexts[slot].events = @ + 1]
PopEvent(slot) ==
    /\ sched.contexts[slot].events > 0
    /\ sched' = [sched EXCEPT !.contexts[slot].events = @ - 1]
ConfigureBudget(slot) ==
    \E kind \in Kinds, limits \in LimitChoices :
        /\ CanConfigure(sched.contexts[slot].budget, kind, limits)
        /\ sched' = [sched EXCEPT !.contexts[slot].budget =
                                     configure(@, kind, limits)]

\* The calls that name a context by its id.
ContextCall(id, slot) ==
    \/ Resume(slot) \/ Preempt(id, slot) \/ FinishSlice(id, slot)
    \/ Wait(id, slot) \/ Wake(slot) \/ Pause(id, slot) \/ Continue(slot)
    \/ Terminate(id, slot) \/ Finish(id, slot) \/ Restart(slot)
    \/ SendMessage(slot) \/ PopMessage(slot) \/ PushEvent(slot)
    \/ PopEvent(slot) \/ ConfigureBudget(slot)

Next ==
    \/ Admit
    \/ DispatchNext
    \/ \E id \in 1..MaxId, slot \in Slots :
          Position(sched, id, slot) /\ ContextCall(id, slot)

Spec == Init /\ [][Next]_sched

\* The owner of the scheduler keeps calling dispatch_next.
FairSpec == Spec /\ WF_sched(DispatchNext)

-----------------------------------------------------------------------------
(* Properties.                                                             *)

\* Every field of the scheduler has its type.
TypeOK == sched \in SchedulerType

\* A context is Running exactly while the scheduler's current_slot names it:
\* no call sequence leaves a Running context that nothing dispatches, or a
\* current slot whose context has stopped.
RunningIsCurrent(s) ==
    \A slot \in Slots :
        s.contexts[slot].state = "Running" <=> s.current_slot = slot
OneRunning == RunningIsCurrent(sched)

\* Ids name one context: the lookup by id that every method starts with
\* never finds another context than the one admit returned the id of.
IdsDistinct(s) ==
    \A a, b \in Slots :
        /\ s.contexts[a].state # "Absent" => s.contexts[a].id < s.next_id
        /\ a # b /\ s.contexts[a].state # "Absent"
             /\ s.contexts[b].state # "Absent"
             => s.contexts[a].id # s.contexts[b].id
UniqueIds == IdsDistinct(sched)

\* budget.rs: charges stop at the soft limit and limits cannot be moved below
\* use or above the ceiling, through any mix of charges, releases,
\* reconfigurations and restarts.
BudgetOrdered(s) ==
    \A slot \in Slots, kind \in Kinds :
        LET account == s.contexts[slot].budget[kind] IN
        /\ account.used <= account.soft
        /\ account.soft <= account.hard
        /\ account.hard <= Ceiling
LimitsHold == BudgetOrdered(sched)

\* The IpcMessages account of a context is the number of messages in its
\* ring (push_message, pop_message and restart change both together).
MessagesCharged(s) ==
    \A slot \in Slots :
        s.contexts[slot].budget["IpcMessages"].used
            = Len(s.contexts[slot].messages)
RingCharged == MessagesCharged(sched)

\* Round robin: while dispatch_next keeps being called, no other call can
\* starve a context that stays ready (the cursor moves past every slot).
ReadyIsDispatched ==
    \A slot \in Slots :
        sched.contexts[slot].state = "Ready"
            ~> sched.contexts[slot].state # "Ready"

\* docs/LOOP_V9_3.md: "bounded asynchronous IPC queues, event-driven wakeup":
\* an event pushed to a waiting context makes it ready.
EventWakes ==
    [][\A slot \in Slots :
          sched'.contexts[slot].events > sched.contexts[slot].events
              => sched'.contexts[slot].state # "Waiting"]_sched
=============================================================================
