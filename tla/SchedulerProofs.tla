-------------------------- MODULE SchedulerProofs --------------------------
(***************************************************************************)
(* Proofs about Scheduler for any number of slots, identities, message     *)
(* lengths and any budget ceiling.                                         *)
(*                                                                         *)
(* SchedOK is inductive.  Every method either replaces one context (PutOK) *)
(* or moves the current slot (YieldOK, RunOK), so the proof of a method    *)
(* says which context it puts back and why that context is well formed.    *)
(* The lemmas are about a scheduler s, not about the variable sched, so    *)
(* that FormLifecycle can use them for commands that make several calls.   *)
(***************************************************************************)
EXTENDS Scheduler, SequenceTheorems, TLAPS

ContextOK(c) ==
    /\ \A kind \in Kinds : /\ c.budget[kind].used <= c.budget[kind].soft
                           /\ c.budget[kind].soft <= c.budget[kind].hard
                           /\ c.budget[kind].hard <= Ceiling
    /\ c.budget["IpcMessages"].used = Len(c.messages)

SchedOK(s) ==
    /\ s \in SchedulerType
    /\ RunningIsCurrent(s)
    /\ IdsDistinct(s)
    /\ \A slot \in Slots : ContextOK(s.contexts[slot])

Put(s, slot, c) == [s EXCEPT !.contexts[slot] = c]

\* A context may replace the one in its slot when it keeps the id and agrees
\* with current_slot on whether it runs.
LEMMA PutOK ==
    ASSUME NEW s, SchedOK(s), NEW slot \in Slots,
           NEW c \in ContextType, ContextOK(c),
           s.contexts[slot].state # "Absent",
           c.id = s.contexts[slot].id, c.state # "Absent",
           c.state = "Running" <=> s.current_slot = slot
    PROVE  SchedOK(Put(s, slot, c))
<1>1. Put(s, slot, c) \in SchedulerType
  BY DEF SchedOK, SchedulerType, Put
<1>2. \A i \in Slots : Put(s, slot, c).contexts[i] =
                         IF i = slot THEN c ELSE s.contexts[i]
  BY DEF SchedOK, SchedulerType, Put
<1>3. /\ Put(s, slot, c).current_slot = s.current_slot
      /\ Put(s, slot, c).next_id = s.next_id
  BY DEF SchedOK, SchedulerType, Put
<1>4. RunningIsCurrent(Put(s, slot, c))
  BY <1>2, <1>3 DEF SchedOK, RunningIsCurrent
<1>5. IdsDistinct(Put(s, slot, c))
  BY <1>2, <1>3 DEF SchedOK, IdsDistinct
<1> QED  BY <1>1, <1>2, <1>4, <1>5 DEF SchedOK

\* The same for a method that stops the context: the slot is cleared when it
\* was current.
LEMMA StopOK ==
    ASSUME NEW s, SchedOK(s), NEW slot \in Slots,
           NEW c \in ContextType, ContextOK(c),
           s.contexts[slot].state # "Absent",
           c.id = s.contexts[slot].id, c.state \notin {"Absent", "Running"}
    PROVE  SchedOK(ClearIfCurrent(Put(s, slot, c), c.id))
<1> DEFINE t == Put(s, slot, c)
           u == ClearIfCurrent(t, c.id)
<1>1. t \in SchedulerType
  BY DEF SchedOK, SchedulerType, Put
<1>2. \A i \in Slots : t.contexts[i] = IF i = slot THEN c ELSE s.contexts[i]
  BY DEF SchedOK, SchedulerType, Put
<1>3. t.current_slot = s.current_slot /\ t.next_id = s.next_id
  BY DEF SchedOK, SchedulerType, Put
<1>4. NoSlot \notin Slots
  BY SchedulerAssumption DEF NoSlot, Slots
<1>5. IsCurrent(t, c.id) <=> s.current_slot = slot
  <2>1. CASE s.current_slot = NoSlot
    BY <2>1, <1>3, <1>4 DEF IsCurrent
  <2>2. CASE s.current_slot # NoSlot
    <3>1. s.current_slot \in Slots
      BY <2>2 DEF SchedOK, SchedulerType
    <3>2. s.contexts[s.current_slot].state = "Running"
      BY <3>1 DEF SchedOK, RunningIsCurrent
    <3>3. s.current_slot # slot
            => s.contexts[s.current_slot].id # s.contexts[slot].id
      BY <3>1, <3>2 DEF SchedOK, IdsDistinct
    <3> QED  BY <2>2, <3>1, <3>3, <1>2, <1>3 DEF IsCurrent
  <2> QED  BY <2>1, <2>2
<1>6. /\ u \in SchedulerType /\ u.contexts = t.contexts /\ u.next_id = t.next_id
      /\ u.current_slot = IF s.current_slot = slot THEN NoSlot
                                                   ELSE s.current_slot
  BY <1>1, <1>3, <1>5 DEF ClearIfCurrent, SchedulerType
<1>7. RunningIsCurrent(u)
  BY <1>2, <1>4, <1>6 DEF SchedOK, RunningIsCurrent
<1>8. IdsDistinct(u)
  BY <1>2, <1>3, <1>6 DEF SchedOK, IdsDistinct
<1>9. \A i \in Slots : ContextOK(u.contexts[i])
  BY <1>2, <1>6 DEF SchedOK
<1> HIDE DEF u
<1>10. SchedOK(u)
  BY <1>6, <1>7, <1>8, <1>9 DEF SchedOK
<1> QED  BY <1>10 DEF u

-----------------------------------------------------------------------------
(* Budgets and queues.                                                     *)

LEMMA ChargeOK ==
    ASSUME NEW budget \in [Kinds -> AccountType], NEW kind \in Kinds,
           NEW amount \in Nat
    PROVE  /\ charge(budget, kind, amount) \in [Kinds -> AccountType]
           /\ \A k \in Kinds :
                 /\ charge(budget, kind, amount)[k].soft = budget[k].soft
                 /\ charge(budget, kind, amount)[k].hard = budget[k].hard
                 /\ charge(budget, kind, amount)[k].used =
                      IF k = kind THEN budget[k].used + amount
                                  ELSE budget[k].used
BY DEF charge, AccountType

LEMMA ReleaseOK ==
    ASSUME NEW budget \in [Kinds -> AccountType], NEW kind \in Kinds,
           NEW amount \in Nat
    PROVE  /\ release(budget, kind, amount) \in [Kinds -> AccountType]
           /\ \A k \in Kinds :
                 /\ release(budget, kind, amount)[k].soft = budget[k].soft
                 /\ release(budget, kind, amount)[k].hard = budget[k].hard
                 /\ release(budget, kind, amount)[k].used =
                      IF k = kind /\ budget[k].used >= amount
                        THEN budget[k].used - amount ELSE budget[k].used
BY DEF release, AccountType

\* A fresh context, as admit and restart make it.
LEMMA NewContextOK ==
    ASSUME NEW id \in Nat, NEW identity \in Identities \cup {NoIdentity}
    PROVE  /\ NewContext(id, identity) \in ContextType
           /\ ContextOK(NewContext(id, identity))
           /\ NewContext(id, identity).id = id
           /\ NewContext(id, identity).state = "Ready"
<1>1. uniform \in [Kinds -> AccountType]
  BY SchedulerAssumption DEF uniform, AccountType
<1>2. <<>> \in Seq(Lengths) /\ Len(<<>>) = 0
  OBVIOUS
<1>3. NewContext(id, identity) \in ContextType
  BY <1>1, <1>2 DEF NewContext, ContextType, States
<1>4. ContextOK(NewContext(id, identity))
  BY <1>2, SchedulerAssumption DEF NewContext, ContextOK, uniform, Kinds
<1> QED  BY <1>3, <1>4 DEF NewContext

LEMMA StateOK ==
    ASSUME NEW c \in ContextType, ContextOK(c), NEW state \in States
    PROVE  /\ [c EXCEPT !.state = state] \in ContextType
           /\ ContextOK([c EXCEPT !.state = state])
           /\ [c EXCEPT !.state = state].id = c.id
           /\ [c EXCEPT !.state = state].state = state
BY DEF ContextType, ContextOK

LEMMA ChargeSliceOK ==
    ASSUME NEW c \in ContextType, ContextOK(c), NEW ticks \in Nat,
           NEW state \in States
    PROVE  /\ ChargeSlice(c, ticks, state) \in ContextType
           /\ ContextOK(ChargeSlice(c, ticks, state))
           /\ ChargeSlice(c, ticks, state).id = c.id
           /\ ChargeSlice(c, ticks, state).state \in {state, "BudgetBlocked"}
<1> DEFINE b == charge(c.budget, "CpuTicks", ticks)
           d == [c EXCEPT !.state = state, !.budget = b]
<1>1. c.budget \in [Kinds -> AccountType] /\ "CpuTicks" \in Kinds
  BY DEF ContextType, Kinds
<1>2. CASE CanCharge(c.budget, "CpuTicks", ticks)
  <2>1. ChargeSlice(c, ticks, state) = d
    BY <1>2 DEF ChargeSlice
  <2>2. b \in [Kinds -> AccountType]
    BY <1>1, ChargeOK
  <2>3. d \in ContextType /\ d.id = c.id /\ d.state = state
    BY <2>2 DEF ContextType
  <2>4. ContextOK(d)
    <3> HIDE DEF b
    <3>1. d.budget = b /\ d.messages = c.messages
      BY DEF ContextType
    <3>2. "IpcMessages" \in Kinds /\ "IpcMessages" # "CpuTicks"
      BY DEF Kinds
    <3>3. \A k \in Kinds : /\ b[k].soft = c.budget[k].soft
                           /\ b[k].hard = c.budget[k].hard
                           /\ b[k].used = IF k = "CpuTicks"
                                            THEN c.budget[k].used + ticks
                                            ELSE c.budget[k].used
      BY <1>1, ChargeOK DEF b
    <3> QED  BY <1>2, <3>1, <3>2, <3>3 DEF ContextOK, CanCharge
  <2> QED  BY <2>1, <2>3, <2>4
<1>3. CASE ~CanCharge(c.budget, "CpuTicks", ticks)
  BY <1>3, StateOK DEF ChargeSlice, States
<1> QED  BY <1>2, <1>3

LEMMA PushOK ==
    ASSUME NEW c \in ContextType, ContextOK(c), NEW len \in Lengths,
           CanPush(c, len)
    PROVE  /\ push_message(c, len) \in ContextType
           /\ ContextOK(push_message(c, len))
           /\ push_message(c, len).id = c.id
           /\ push_message(c, len).state = c.state
<1> DEFINE b1 == charge(c.budget, "IpcMessages", 1)
           b2 == charge(b1, "IpcBytes", len)
           d  == push_message(c, len)
<1>1. /\ c.budget \in [Kinds -> AccountType] /\ len \in Nat
      /\ "IpcMessages" \in Kinds /\ "IpcBytes" \in Kinds
  BY SchedulerAssumption DEF ContextType, Kinds
<1>2. /\ b1 \in [Kinds -> AccountType]
      /\ \A k \in Kinds : /\ b1[k].soft = c.budget[k].soft
                          /\ b1[k].hard = c.budget[k].hard
                          /\ b1[k].used = IF k = "IpcMessages"
                                            THEN c.budget[k].used + 1
                                            ELSE c.budget[k].used
  BY <1>1, ChargeOK
<1> HIDE DEF b1
<1>3. /\ b2 \in [Kinds -> AccountType]
      /\ \A k \in Kinds : /\ b2[k].soft = b1[k].soft
                          /\ b2[k].hard = b1[k].hard
                          /\ b2[k].used = IF k = "IpcBytes"
                                            THEN b1[k].used + len
                                            ELSE b1[k].used
  <2>1. b1 \in [Kinds -> AccountType]
    BY <1>2
  <2> QED  BY <1>1, <2>1, ChargeOK
<1> HIDE DEF b2
<1>4. /\ d = [c EXCEPT !.messages = Append(c.messages, len), !.budget = b2]
      /\ Append(c.messages, len) \in Seq(Lengths)
      /\ Len(Append(c.messages, len)) = Len(c.messages) + 1
  BY DEF push_message, b1, b2, ContextType
<1>5. /\ d \in ContextType /\ d.id = c.id /\ d.state = c.state
      /\ d.budget = b2 /\ Len(d.messages) = Len(c.messages) + 1
  BY <1>3, <1>4 DEF ContextType
<1> HIDE DEF d
<1>6. ContextOK(d)
  BY <1>1, <1>2, <1>3, <1>5 DEF ContextOK, CanPush, CanCharge
<1> QED  BY <1>5, <1>6 DEF d

LEMMA PopOK ==
    ASSUME NEW c \in ContextType, ContextOK(c), c.messages # <<>>
    PROVE  /\ pop_message(c) \in ContextType
           /\ ContextOK(pop_message(c))
           /\ pop_message(c).id = c.id
           /\ pop_message(c).state = c.state
<1> DEFINE len == Head(c.messages)
           b1 == release(c.budget, "IpcMessages", 1)
           b2 == release(b1, "IpcBytes", len)
           d  == pop_message(c)
<1>1. /\ c.budget \in [Kinds -> AccountType]
      /\ c.messages \in Seq(Lengths)
      /\ "IpcMessages" \in Kinds /\ "IpcBytes" \in Kinds
  BY DEF ContextType, Kinds
<1>2. len \in Nat
  <2>1. len \in Lengths
    BY <1>1, HeadTailProperties
  <2> QED  BY <2>1, SchedulerAssumption
<1> HIDE DEF len
<1>3. /\ b1 \in [Kinds -> AccountType]
      /\ \A k \in Kinds : /\ b1[k].soft = c.budget[k].soft
                          /\ b1[k].hard = c.budget[k].hard
                          /\ b1[k].used = IF k = "IpcMessages"
                                               /\ c.budget[k].used >= 1
                                            THEN c.budget[k].used - 1
                                            ELSE c.budget[k].used
  BY <1>1, ReleaseOK
<1> HIDE DEF b1
<1>4. /\ b2 \in [Kinds -> AccountType]
      /\ \A k \in Kinds : /\ b2[k].soft = b1[k].soft
                          /\ b2[k].hard = b1[k].hard
                          /\ b2[k].used = IF k = "IpcBytes" /\ b1[k].used >= len
                                            THEN b1[k].used - len
                                            ELSE b1[k].used
  BY <1>1, <1>2, <1>3, ReleaseOK
<1> HIDE DEF b2
<1>5. /\ d = [c EXCEPT !.messages = Tail(c.messages), !.budget = b2]
      /\ Tail(c.messages) \in Seq(Lengths)
      /\ Len(Tail(c.messages)) = Len(c.messages) - 1 /\ Len(c.messages) >= 1
  BY <1>1 DEF pop_message, b1, b2, len, ContextType
<1>6. /\ d \in ContextType /\ d.id = c.id /\ d.state = c.state
      /\ d.budget = b2 /\ Len(d.messages) = Len(c.messages) - 1
  BY <1>4, <1>5 DEF ContextType
<1> HIDE DEF d
<1>7. ContextOK(d)
  <2>1. d.budget["IpcMessages"].used = Len(d.messages)
    BY <1>1, <1>3, <1>4, <1>5, <1>6 DEF ContextOK
  <2>2. ASSUME NEW k \in Kinds
        PROVE  /\ d.budget[k].soft = c.budget[k].soft
               /\ d.budget[k].hard = c.budget[k].hard
               /\ d.budget[k].used <= c.budget[k].used
    <3>1. c.budget[k].used \in Nat /\ b1[k].used \in Nat
      BY <1>1, <1>3 DEF AccountType
    <3>2. b1[k].used <= c.budget[k].used
      BY <1>3, <3>1
    <3>3. b2[k].used <= b1[k].used
      BY <1>2, <1>4, <3>1
    <3>4. b2[k].used \in Nat
      BY <1>4 DEF AccountType
    <3> QED  BY <1>3, <1>4, <1>6, <3>1, <3>2, <3>3, <3>4
  <2>3. \A k \in Kinds : /\ d.budget[k] \in AccountType
                         /\ c.budget[k] \in AccountType
    BY <1>1, <1>4, <1>6
  <2> QED  BY <2>1, <2>2, <2>3, SchedulerAssumption DEF ContextOK, AccountType
<1> QED  BY <1>6, <1>7 DEF d

-----------------------------------------------------------------------------
(* Moving the current slot.                                                *)

LEMMA YieldOK ==
    ASSUME NEW s, SchedOK(s)
    PROVE  /\ SchedOK(Yield(s))
           /\ Yield(s).current_slot = NoSlot
           /\ Yield(s).cursor = s.cursor /\ Yield(s).next_id = s.next_id
           /\ \A slot \in Slots :
                 /\ Yield(s).contexts[slot].id = s.contexts[slot].id
                 /\ Yield(s).contexts[slot].identity = s.contexts[slot].identity
                 /\ Yield(s).contexts[slot].budget = s.contexts[slot].budget
                 /\ Yield(s).contexts[slot].state =
                      IF s.contexts[slot].state = "Running"
                        THEN "Ready" ELSE s.contexts[slot].state
<1> DEFINE t == Yield(s)
<1>1. NoSlot \notin Slots
  BY SchedulerAssumption DEF NoSlot, Slots
<1>2. ASSUME NEW slot \in Slots
      PROVE  /\ s.contexts[slot] \in ContextType
             /\ s.contexts[slot].state = "Running" <=> s.current_slot = slot
             /\ ContextOK(s.contexts[slot])
  BY DEF SchedOK, SchedulerType, RunningIsCurrent
<1>3. /\ t.current_slot = NoSlot /\ t.cursor = s.cursor
      /\ t.next_id = s.next_id
      /\ t.contexts = [slot \in Slots |->
            IF slot = s.current_slot /\ s.contexts[slot].state = "Running"
              THEN [s.contexts[slot] EXCEPT !.state = "Ready"]
              ELSE s.contexts[slot]]
      /\ s.cursor \in Slots /\ s.next_id \in Nat
      /\ t = [contexts |-> t.contexts, current_slot |-> t.current_slot,
              cursor |-> t.cursor, next_id |-> t.next_id]
  <2>1. s \in SchedulerType
    BY DEF SchedOK
  <2>2. s = [contexts |-> s.contexts, current_slot |-> s.current_slot,
             cursor |-> s.cursor, next_id |-> s.next_id]
    BY <2>1 DEF SchedulerType
  <2>3. s.cursor \in Slots /\ s.next_id \in Nat
    BY <2>1 DEF SchedulerType
  <2> DEFINE f == [slot \in Slots |->
                  IF slot = s.current_slot /\ s.contexts[slot].state = "Running"
                    THEN [s.contexts[slot] EXCEPT !.state = "Ready"]
                    ELSE s.contexts[slot]]
  <2>4. t = [s EXCEPT !.current_slot = NoSlot, !.contexts = f]
    BY DEF Yield
  <2> HIDE DEF f, t
  <2>5. t = [contexts |-> f, current_slot |-> NoSlot,
             cursor |-> s.cursor, next_id |-> s.next_id]
    BY <2>2, <2>4
  <2>6. /\ t.current_slot = NoSlot /\ t.cursor = s.cursor
        /\ t.next_id = s.next_id /\ t.contexts = f
    BY <2>5
  <2> QED  BY <2>3, <2>5, <2>6 DEF f
<1> HIDE DEF t
<1>4. ASSUME NEW slot \in Slots
      PROVE  /\ t.contexts[slot] \in ContextType
             /\ ContextOK(t.contexts[slot])
             /\ t.contexts[slot].id = s.contexts[slot].id
             /\ t.contexts[slot].identity = s.contexts[slot].identity
             /\ t.contexts[slot].budget = s.contexts[slot].budget
             /\ t.contexts[slot].state =
                  IF s.contexts[slot].state = "Running"
                    THEN "Ready" ELSE s.contexts[slot].state
  <2>1. CASE slot = s.current_slot
    <3>1. t.contexts[slot] = [s.contexts[slot] EXCEPT !.state = "Ready"]
      BY <2>1, <1>2, <1>3
    <3>2. /\ t.contexts[slot] \in ContextType /\ ContextOK(t.contexts[slot])
          /\ t.contexts[slot].id = s.contexts[slot].id
          /\ t.contexts[slot].state = "Ready"
      <4> DEFINE c == s.contexts[slot]
      <4>1. c \in ContextType /\ ContextOK(c) /\ "Ready" \in States
        BY <1>2 DEF States
      <4> HIDE DEF c
      <4>2. /\ [c EXCEPT !.state = "Ready"] \in ContextType
            /\ ContextOK([c EXCEPT !.state = "Ready"])
            /\ [c EXCEPT !.state = "Ready"].id = c.id
            /\ [c EXCEPT !.state = "Ready"].state = "Ready"
        BY <4>1, StateOK
      <4> QED  BY <3>1, <4>2 DEF c
    <3>3. /\ t.contexts[slot].identity = s.contexts[slot].identity
          /\ t.contexts[slot].budget = s.contexts[slot].budget
      BY <3>1, <1>2 DEF ContextType
    <3>4. s.contexts[slot].state = "Running"
      BY <2>1, <1>2
    <3> QED  BY <3>2, <3>3, <3>4
  <2>2. CASE slot # s.current_slot
    BY <2>2, <1>2, <1>3
  <2> QED  BY <2>1, <2>2
<1>5. t \in SchedulerType
  BY <1>3, <1>4 DEF SchedulerType
<1>6. RunningIsCurrent(t)
  BY <1>1, <1>3, <1>4 DEF RunningIsCurrent
<1>7. IdsDistinct(t)
  BY <1>3, <1>4 DEF IdsDistinct, SchedOK
<1> QED  BY <1>3, <1>4, <1>5, <1>6, <1>7 DEF SchedOK, t

\* With no current context, any context of the table may be made to run.
LEMMA RunOK ==
    ASSUME NEW s, SchedOK(s), s.current_slot = NoSlot, NEW slot \in Slots,
           s.contexts[slot].state # "Absent"
    PROVE  /\ SchedOK(RunSlot(s, slot))
           /\ RunSlot(s, slot).cursor = s.cursor
           /\ RunSlot(s, slot).next_id = s.next_id
           /\ \A i \in Slots :
                 RunSlot(s, slot).contexts[i] =
                    IF i = slot THEN [s.contexts[i] EXCEPT !.state = "Running"]
                                ELSE s.contexts[i]
<1> DEFINE c == [s.contexts[slot] EXCEPT !.state = "Running"]
           t == RunSlot(s, slot)
<1>1. NoSlot \notin Slots
  BY SchedulerAssumption DEF NoSlot, Slots
<1>2. /\ s.contexts[slot] \in ContextType /\ ContextOK(s.contexts[slot])
      /\ \A i \in Slots : s.contexts[i] \in ContextType
  BY DEF SchedOK, SchedulerType
<1>3. c \in ContextType /\ ContextOK(c) /\ c.id = s.contexts[slot].id
      /\ c.state = "Running"
  BY <1>2, StateOK DEF States
<1>4. /\ t = [contexts |-> [s.contexts EXCEPT ![slot] = c],
              current_slot |-> slot, cursor |-> s.cursor, next_id |-> s.next_id]
      /\ s.cursor \in Slots /\ s.next_id \in Nat
      /\ s.contexts \in [Slots -> ContextType]
  <2>1. s \in SchedulerType
    BY DEF SchedOK
  <2>2. s = [contexts |-> s.contexts, current_slot |-> s.current_slot,
             cursor |-> s.cursor, next_id |-> s.next_id]
    BY <2>1 DEF SchedulerType
  <2>3. /\ s.cursor \in Slots /\ s.next_id \in Nat
        /\ s.contexts \in [Slots -> ContextType]
    BY <2>1 DEF SchedulerType
  <2>4. SetState(s, slot, "Running") = [s EXCEPT !.contexts = [@ EXCEPT ![slot] = c]]
    BY <2>2 DEF SetState
  <2> QED  BY <2>2, <2>3, <2>4 DEF RunSlot
<1>5. /\ \A i \in Slots : t.contexts[i] = IF i = slot THEN c ELSE s.contexts[i]
      /\ t.current_slot = slot
  BY <1>4
<1> HIDE DEF c
<1>6. t \in SchedulerType
  BY <1>3, <1>4 DEF SchedulerType
<1> HIDE DEF t
<1>7. RunningIsCurrent(t)
  BY <1>1, <1>3, <1>5 DEF RunningIsCurrent, SchedOK
<1>8. IdsDistinct(t)
  BY <1>3, <1>4, <1>5 DEF IdsDistinct, SchedOK
<1>9. \A i \in Slots : ContextOK(t.contexts[i])
  BY <1>3, <1>5 DEF SchedOK
<1> QED  BY <1>4, <1>5, <1>6, <1>7, <1>8, <1>9 DEF SchedOK, t, c

-----------------------------------------------------------------------------
(* The methods.                                                            *)

LEMMA SetStateIsPut ==
    ASSUME NEW s, SchedOK(s), NEW slot \in Slots, NEW state \in States
    PROVE  /\ SetState(s, slot, state)
                = Put(s, slot, [s.contexts[slot] EXCEPT !.state = state])
           /\ [s.contexts[slot] EXCEPT !.state = state] \in ContextType
           /\ ContextOK([s.contexts[slot] EXCEPT !.state = state])
           /\ [s.contexts[slot] EXCEPT !.state = state].id = s.contexts[slot].id
           /\ [s.contexts[slot] EXCEPT !.state = state].state = state
<1>1. /\ s \in SchedulerType
      /\ s.contexts[slot] \in ContextType /\ ContextOK(s.contexts[slot])
  BY DEF SchedOK, SchedulerType
<1>2. SetState(s, slot, state)
        = Put(s, slot, [s.contexts[slot] EXCEPT !.state = state])
  BY <1>1 DEF SetState, Put, SchedulerType
<1> DEFINE c == s.contexts[slot]
<1> HIDE DEF c
<1>3. /\ [c EXCEPT !.state = state] \in ContextType
      /\ ContextOK([c EXCEPT !.state = state])
      /\ [c EXCEPT !.state = state].id = c.id
      /\ [c EXCEPT !.state = state].state = state
  BY <1>1, StateOK DEF c
<1> QED  BY <1>2, <1>3 DEF c

\* wait, pause, terminate and finish.
LEMMA StopStateOK ==
    ASSUME NEW s, SchedOK(s), NEW slot \in Slots, NEW id,
           Position(s, id, slot), NEW state \in States \ {"Running"}
    PROVE  SchedOK(ClearIfCurrent(SetState(s, slot, state), id))
<1>1. s.contexts[slot].state # "Absent" /\ s.contexts[slot].id = id
  BY DEF Position
<1>2. state \in States /\ state \notin {"Absent", "Running"}
  BY DEF States
<1> DEFINE c == [s.contexts[slot] EXCEPT !.state = state]
<1>3. /\ SetState(s, slot, state) = Put(s, slot, c)
      /\ c \in ContextType /\ ContextOK(c)
      /\ c.id = s.contexts[slot].id /\ c.state = state
  BY <1>2, SetStateIsPut
<1> HIDE DEF c
<1>4. SchedOK(ClearIfCurrent(Put(s, slot, c), c.id))
  BY <1>1, <1>2, <1>3, StopOK
<1> QED  BY <1>1, <1>3, <1>4

\* wake and continue_context.
LEMMA ReadyOK ==
    ASSUME NEW s, SchedOK(s), NEW slot \in Slots,
           s.contexts[slot].state \notin {"Absent", "Running"}
    PROVE  SchedOK(SetState(s, slot, "Ready"))
<1>1. "Ready" \in States
  BY DEF States
<1>2. s.current_slot # slot
  BY DEF SchedOK, RunningIsCurrent
<1> DEFINE c == [s.contexts[slot] EXCEPT !.state = "Ready"]
<1>3. /\ SetState(s, slot, "Ready") = Put(s, slot, c)
      /\ c \in ContextType /\ ContextOK(c)
      /\ c.id = s.contexts[slot].id /\ c.state = "Ready"
  BY <1>1, SetStateIsPut
<1> HIDE DEF c
<1>4. SchedOK(Put(s, slot, c))
  BY <1>2, <1>3, PutOK
<1> QED  BY <1>3, <1>4

LEMMA AdmitOK ==
    ASSUME NEW s, SchedOK(s), NEW slot \in Slots, NEW identity \in Identities,
           Reusable(s.contexts[slot])
    PROVE  SchedOK(admit(s, slot, identity))
<1> DEFINE c == NewContext(s.next_id, identity)
           t == admit(s, slot, identity)
<1>1. s \in SchedulerType /\ s.next_id \in Nat
  BY DEF SchedOK, SchedulerType
<1>2. /\ c \in ContextType /\ ContextOK(c) /\ c.id = s.next_id
      /\ c.state = "Ready"
  BY <1>1, NewContextOK
<1> HIDE DEF c
<1>3. t = [s EXCEPT !.contexts[slot] = c, !.next_id = @ + 1]
  BY DEF admit, c
<1> HIDE DEF t
<1>4. /\ t \in SchedulerType /\ t.current_slot = s.current_slot
      /\ t.next_id = s.next_id + 1
      /\ \A i \in Slots : t.contexts[i] = IF i = slot THEN c ELSE s.contexts[i]
  <2>1. /\ s = [contexts |-> s.contexts, current_slot |-> s.current_slot,
                cursor |-> s.cursor, next_id |-> s.next_id]
        /\ s.contexts \in [Slots -> ContextType]
        /\ s.current_slot \in Slots \cup {NoSlot} /\ s.cursor \in Slots
    BY <1>1 DEF SchedulerType
  <2>2. t = [contexts |-> [s.contexts EXCEPT ![slot] = c],
             current_slot |-> s.current_slot,
             cursor |-> s.cursor, next_id |-> s.next_id + 1]
    BY <2>1, <1>3
  <2>3. [s.contexts EXCEPT ![slot] = c] \in [Slots -> ContextType]
    BY <2>1, <1>2
  <2> QED  BY <1>1, <2>1, <2>2, <2>3 DEF SchedulerType
<1>5. s.contexts[slot].state # "Running"
  BY DEF Reusable, Ended
<1>6. RunningIsCurrent(t)
  BY <1>2, <1>4, <1>5 DEF SchedOK, RunningIsCurrent
<1>7. IdsDistinct(t)
  <2>1. \A i \in Slots : s.contexts[i].id \in Nat
    BY <1>1 DEF SchedulerType, ContextType
  <2> QED  BY <1>1, <1>2, <1>4, <2>1 DEF SchedOK, IdsDistinct
<1>8. \A i \in Slots : ContextOK(t.contexts[i])
  BY <1>2, <1>4 DEF SchedOK
<1> QED  BY <1>4, <1>6, <1>7, <1>8 DEF SchedOK, t

LEMMA ResumeOK ==
    ASSUME NEW s, SchedOK(s), NEW slot \in Slots, CanResume(s, slot)
    PROVE  SchedOK(resume(s, slot))
<1>1. /\ SchedOK(Yield(s)) /\ Yield(s).current_slot = NoSlot
      /\ Yield(s).contexts[slot].state = "Ready"
  BY YieldOK DEF CanResume
<1> QED  BY <1>1, RunOK DEF resume

LEMMA DispatchOK ==
    ASSUME NEW s, SchedOK(s)
    PROVE  SchedOK(dispatch_next(s))
<1> DEFINE y == Yield(s)
           n == CHOOSE slot \in Slots : NextReady(y, slot)
           r == RunSlot(y, n)
           d == Dispatch(y, n)
<1>1. SchedOK(y) /\ y.current_slot = NoSlot
  BY YieldOK
<1>2. CASE \E slot \in Slots : NextReady(y, slot)
  <2>1. n \in Slots /\ NextReady(y, n)
    BY <1>2
  <2>2. dispatch_next(s) = d
    BY <1>2 DEF dispatch_next
  <2> HIDE DEF n, y
  <2>3. y.contexts[n].state # "Absent"
    BY <2>1 DEF NextReady
  <2>4. SchedOK(r)
    BY <1>1, <2>1, <2>3, RunOK
  <2> DEFINE k == IF n + 1 = MAX_EXECUTION_CONTEXTS THEN 0 ELSE n + 1
  <2>5. k \in Slots
    BY <2>1, SchedulerAssumption DEF Slots
  <2> HIDE DEF k, r
  <2>6. d = [r EXCEPT !.cursor = k]
    BY DEF Dispatch, k, r
  <2> HIDE DEF d
  <2>7. /\ d \in SchedulerType /\ d.contexts = r.contexts
        /\ d.current_slot = r.current_slot /\ d.next_id = r.next_id
    BY <2>4, <2>5, <2>6 DEF SchedOK, SchedulerType
  <2> QED  BY <2>2, <2>4, <2>7 DEF SchedOK, RunningIsCurrent, IdsDistinct
<1>3. CASE ~\E slot \in Slots : NextReady(y, slot)
  BY <1>1, <1>3 DEF dispatch_next
<1> QED  BY <1>2, <1>3

\* preempt and finish_slice: charge the slice, then leave the CPU.
LEMMA SliceOK ==
    ASSUME NEW s, SchedOK(s), NEW slot \in Slots, NEW id,
           Position(s, id, slot), NEW ticks \in Nat,
           NEW state \in {"Ready", "BudgetBlocked", "Exited"}
    PROVE  SchedOK(ClearIfCurrent(
               [s EXCEPT !.contexts[slot] = ChargeSlice(@, ticks, state)], id))
<1> DEFINE c == ChargeSlice(s.contexts[slot], ticks, state)
<1>1. /\ s \in SchedulerType
      /\ s.contexts[slot] \in ContextType /\ ContextOK(s.contexts[slot])
  BY DEF SchedOK, SchedulerType
<1>2. state \in States
  BY DEF States
<1>3. /\ c \in ContextType /\ ContextOK(c) /\ c.id = s.contexts[slot].id
      /\ c.state \in {state, "BudgetBlocked"}
  BY <1>1, <1>2, ChargeSliceOK
<1>4. [s EXCEPT !.contexts[slot] = ChargeSlice(@, ticks, state)]
        = Put(s, slot, c)
  BY <1>1 DEF Put, SchedulerType
<1> HIDE DEF c
<1>5. s.contexts[slot].state # "Absent" /\ s.contexts[slot].id = id
  BY DEF Position
<1>6. c.state \notin {"Absent", "Running"}
  BY <1>3
<1> QED  BY <1>3, <1>4, <1>5, <1>6, StopOK

LEMMA PreemptOK ==
    ASSUME NEW s, SchedOK(s), NEW slot \in Slots, NEW id,
           Position(s, id, slot), NEW ticks \in Nat, NEW exhausted \in BOOLEAN
    PROVE  SchedOK(preempt(s, id, slot, ticks, exhausted))
<1> DEFINE state == IF exhausted THEN "BudgetBlocked" ELSE "Ready"
<1>1. state \in {"Ready", "BudgetBlocked", "Exited"}
  OBVIOUS
<1> HIDE DEF state
<1>2. SchedOK(ClearIfCurrent(
          [s EXCEPT !.contexts[slot] = ChargeSlice(@, ticks, state)], id))
  BY <1>1, SliceOK
<1> QED  BY <1>2 DEF preempt, state

LEMMA FinishSliceOK ==
    ASSUME NEW s, SchedOK(s), NEW slot \in Slots, NEW id,
           Position(s, id, slot), NEW ticks \in Nat
    PROVE  SchedOK(finish_slice(s, id, slot, ticks))
BY SliceOK DEF finish_slice

LEMMA RestartOK ==
    ASSUME NEW s, SchedOK(s), NEW slot \in Slots, CanRestart(s, slot)
    PROVE  SchedOK(restart(s, slot))
<1> DEFINE c == NewContext(s.contexts[slot].id, s.contexts[slot].identity)
<1>1. /\ s \in SchedulerType
      /\ s.contexts[slot].id \in Nat
      /\ s.contexts[slot].identity \in Identities \cup {NoIdentity}
  BY DEF SchedOK, SchedulerType, ContextType
<1>2. /\ c \in ContextType /\ ContextOK(c) /\ c.id = s.contexts[slot].id
      /\ c.state = "Ready"
  BY <1>1, NewContextOK
<1>3. restart(s, slot) = Put(s, slot, c)
  BY <1>1 DEF restart, Put, SchedulerType
<1> HIDE DEF c
<1>4. s.contexts[slot].state \notin {"Absent", "Running"}
  BY DEF CanRestart, Ended
<1>5. s.current_slot # slot
  BY <1>4 DEF SchedOK, RunningIsCurrent
<1> QED  BY <1>2, <1>3, <1>4, <1>5, PutOK

LEMMA SendOK ==
    ASSUME NEW s, SchedOK(s), NEW slot \in Slots,
           s.contexts[slot].state # "Absent",
           NEW len \in Lengths, CanPush(s.contexts[slot], len)
    PROVE  SchedOK(send_message(s, slot, len))
<1> DEFINE p == push_message(s.contexts[slot], len)
           state == IF p.state = "Waiting" THEN "Ready" ELSE p.state
           c == [p EXCEPT !.state = state]
<1>1. /\ s \in SchedulerType
      /\ s.contexts[slot] \in ContextType /\ ContextOK(s.contexts[slot])
      /\ s.contexts[slot].state = "Running" <=> s.current_slot = slot
  BY DEF SchedOK, SchedulerType, RunningIsCurrent
<1>2. /\ p \in ContextType /\ ContextOK(p) /\ p.id = s.contexts[slot].id
      /\ p.state = s.contexts[slot].state
  BY <1>1, PushOK
<1> HIDE DEF p
<1>3. send_message(s, slot, len) = Put(s, slot, c)
  <2>1. c = [p EXCEPT !.state = IF @ = "Waiting" THEN "Ready" ELSE @]
    BY <1>2 DEF ContextType
  <2> HIDE DEF c
  <2>2. send_message(s, slot, len) = [s EXCEPT !.contexts[slot] = c]
    BY <2>1 DEF send_message, p
  <2> QED  BY <2>2 DEF Put
<1>4. state \in States /\ (state = "Running" <=> s.current_slot = slot)
  BY <1>1, <1>2 DEF States, ContextType
<1> HIDE DEF state
<1>5. c \in ContextType /\ ContextOK(c) /\ c.id = p.id /\ c.state = state
  BY <1>2, <1>4, StateOK
<1> HIDE DEF c
<1>6. c.state # "Absent"
  BY <1>4, <1>5 DEF States
<1> QED  BY <1>2, <1>3, <1>4, <1>5, <1>6, PutOK

\* A context whose id and state do not change may be put back at any time.
LEMMA SameStateOK ==
    ASSUME NEW s, SchedOK(s), NEW slot \in Slots,
           s.contexts[slot].state # "Absent",
           NEW c \in ContextType, ContextOK(c),
           c.id = s.contexts[slot].id, c.state = s.contexts[slot].state
    PROVE  SchedOK(Put(s, slot, c))
<1>1. c.state = "Running" <=> s.current_slot = slot
  BY DEF SchedOK, RunningIsCurrent
<1> QED  BY <1>1, PutOK

LEMMA ConfigureOK ==
    ASSUME NEW c \in ContextType, ContextOK(c), NEW kind \in Kinds,
           NEW limits \in LimitChoices, CanConfigure(c.budget, kind, limits)
    PROVE  LET d == [c EXCEPT !.budget = configure(@, kind, limits)] IN
           d \in ContextType /\ ContextOK(d) /\ d.id = c.id /\ d.state = c.state
<1> DEFINE b == configure(c.budget, kind, limits)
           d == [c EXCEPT !.budget = configure(@, kind, limits)]
<1>1. /\ c.budget \in [Kinds -> AccountType]
      /\ limits.soft \in Nat /\ limits.hard \in Nat
  BY SchedulerAssumption DEF ContextType
<1>2. /\ b \in [Kinds -> AccountType]
      /\ \A k \in Kinds :
            /\ b[k].used = c.budget[k].used
            /\ b[k].soft = IF k = kind THEN limits.soft ELSE c.budget[k].soft
            /\ b[k].hard = IF k = kind THEN limits.hard ELSE c.budget[k].hard
  BY <1>1 DEF configure, AccountType
<1>3. /\ d = [c EXCEPT !.budget = b]
  BY DEF ContextType
<1> HIDE DEF b
<1>4. /\ d \in ContextType /\ d.id = c.id /\ d.state = c.state
      /\ d.budget = b /\ d.messages = c.messages
  BY <1>2, <1>3 DEF ContextType
<1> HIDE DEF d
<1>5. ContextOK(d)
  <2>1. "IpcMessages" \in Kinds
    BY DEF Kinds
  <2> QED  BY <1>2, <1>4, <2>1 DEF ContextOK, CanConfigure
<1> QED  BY <1>4, <1>5 DEF d

LEMMA EventsOK ==
    ASSUME NEW c \in ContextType, ContextOK(c), NEW n \in Nat
    PROVE  LET d == [c EXCEPT !.events = n] IN
           d \in ContextType /\ ContextOK(d) /\ d.id = c.id /\ d.state = c.state
BY DEF ContextType, ContextOK

-----------------------------------------------------------------------------
(* The state machine.                                                      *)

Inv == SchedOK(sched)

LEMMA EmptyOK == SchedOK(EmptyScheduler)
<1> DEFINE c == NewContext(0, NoIdentity)
           e == EmptyScheduler
<1>1. c \in ContextType /\ ContextOK(c)
  BY NewContextOK
<1>2. Absent = [c EXCEPT !.state = "Absent"]
  BY DEF Absent
<1> HIDE DEF c
<1>3. Absent \in ContextType /\ ContextOK(Absent) /\ Absent.state = "Absent"
  BY <1>1, <1>2 DEF ContextType, ContextOK
<1>4. 0 \in Slots /\ NoSlot \notin Slots
  BY SchedulerAssumption DEF Slots, NoSlot
<1>5. e = [contexts |-> [slot \in Slots |-> Absent],
           current_slot |-> NoSlot, cursor |-> 0, next_id |-> 1]
  BY DEF EmptyScheduler
<1> HIDE DEF e
<1>6. SchedOK(e)
  BY <1>3, <1>4, <1>5 DEF SchedOK, SchedulerType, RunningIsCurrent, IdsDistinct
<1> QED  BY <1>6 DEF e

LEMMA InitOK == Init => SchedOK(sched)
BY EmptyOK DEF Init

LEMMA ContextCallOK ==
    ASSUME SchedOK(sched), NEW id \in 1..MaxId, NEW slot \in Slots,
           Position(sched, id, slot), ContextCall(id, slot)
    PROVE  SchedOK(sched')
<1> DEFINE c == sched.contexts[slot]
<1>1. /\ sched \in SchedulerType /\ c \in ContextType /\ ContextOK(c)
      /\ c.state # "Absent" /\ c.id = id
  BY DEF SchedOK, SchedulerType, Position
<1>2. \A t \in 0..Ceiling + 1 : t \in Nat
  BY SchedulerAssumption
<1>3. CASE Resume(slot)
  BY <1>3, ResumeOK DEF Resume
<1>4. CASE Preempt(id, slot)
  BY <1>4, <1>2, PreemptOK DEF Preempt
<1>5. CASE FinishSlice(id, slot)
  BY <1>5, <1>2, FinishSliceOK DEF FinishSlice
<1>6. CASE Wait(id, slot)
  BY <1>6, StopStateOK DEF Wait, wait, States
<1>7. CASE Wake(slot)
  BY <1>7, ReadyOK DEF Wake, CanWake, wake
<1>8. CASE Pause(id, slot)
  BY <1>8, StopStateOK DEF Pause, pause, States
<1>9. CASE Continue(slot)
  BY <1>9, ReadyOK DEF Continue, CanContinue, continue_context
<1>10. CASE Terminate(id, slot)
  BY <1>10, StopStateOK DEF Terminate, terminate, States
<1>11. CASE Finish(id, slot)
  BY <1>11, StopStateOK DEF Finish, finish, States
<1>12. CASE Restart(slot)
  BY <1>12, RestartOK DEF Restart
<1>13. CASE SendMessage(slot)
  BY <1>13, <1>1, SendOK DEF SendMessage
<1>14. CASE PopMessage(slot)
  <2> DEFINE d == pop_message(c)
  <2>1. /\ d \in ContextType /\ ContextOK(d) /\ d.id = c.id
        /\ d.state = c.state
    BY <1>1, <1>14, PopOK DEF PopMessage
  <2>2. sched' = Put(sched, slot, d)
    BY <1>1, <1>14 DEF PopMessage, Put, SchedulerType
  <2> HIDE DEF d
  <2> QED  BY <1>1, <2>1, <2>2, SameStateOK
<1>15. CASE PushEvent(slot) \/ PopEvent(slot)
  <2>1. c.events \in Nat
    BY <1>1 DEF ContextType
  <2>2. PICK n \in Nat : sched' = [sched EXCEPT !.contexts[slot].events = n]
    <3>1. CASE PushEvent(slot)
      BY <2>1, <3>1 DEF PushEvent
    <3>2. CASE PopEvent(slot)
      <4>1. c.events - 1 \in Nat
        BY <2>1, <3>2 DEF PopEvent
      <4> QED  BY <3>2, <4>1 DEF PopEvent
    <3> QED  BY <1>15, <3>1, <3>2
  <2> DEFINE d == [c EXCEPT !.events = n]
  <2>3. d \in ContextType /\ ContextOK(d) /\ d.id = c.id /\ d.state = c.state
    BY <1>1, EventsOK
  <2>4. sched' = Put(sched, slot, d)
    BY <1>1, <2>2 DEF Put, SchedulerType
  <2> HIDE DEF d
  <2> QED  BY <1>1, <2>3, <2>4, SameStateOK
<1>16. CASE ConfigureBudget(slot)
  <2>1. PICK kind \in Kinds, limits \in LimitChoices :
            /\ CanConfigure(c.budget, kind, limits)
            /\ sched' = [sched EXCEPT !.contexts[slot].budget =
                                         configure(@, kind, limits)]
    BY <1>16 DEF ConfigureBudget
  <2> DEFINE d == [c EXCEPT !.budget = configure(@, kind, limits)]
  <2>2. d \in ContextType /\ ContextOK(d) /\ d.id = c.id /\ d.state = c.state
    BY <1>1, <2>1, ConfigureOK
  <2>3. sched' = Put(sched, slot, d)
    BY <1>1, <2>1 DEF Put, SchedulerType
  <2> HIDE DEF d
  <2> QED  BY <1>1, <2>2, <2>3, SameStateOK
<1> QED
  BY <1>3, <1>4, <1>5, <1>6, <1>7, <1>8, <1>9, <1>10, <1>11, <1>12, <1>13,
     <1>14, <1>15, <1>16 DEF ContextCall

LEMMA StepOK == SchedOK(sched) /\ [Next]_sched => SchedOK(sched')
<1> SUFFICES ASSUME SchedOK(sched), [Next]_sched PROVE SchedOK(sched')
  OBVIOUS
<1>1. CASE Admit
  BY <1>1, AdmitOK DEF Admit, AdmitSlot
<1>2. CASE DispatchNext
  BY <1>2, DispatchOK DEF DispatchNext
<1>3. CASE \E id \in 1..MaxId, slot \in Slots :
              Position(sched, id, slot) /\ ContextCall(id, slot)
  BY <1>3, ContextCallOK
<1>4. CASE sched' = sched
  BY <1>4
<1> QED  BY <1>1, <1>2, <1>3, <1>4 DEF Next

\* The state of the scheduler is well formed after any sequence of calls.
THEOREM SchedulerInvariant == Spec => []Inv
<1>1. Init => Inv
  BY InitOK DEF Inv
<1>2. Inv /\ [Next]_sched => Inv'
  BY StepOK DEF Inv
<1> QED  BY <1>1, <1>2, PTL DEF Spec

\* Scheduler, ExecutionContext and ExpBudget keep their types.
THEOREM SchedulerTyped == Spec => []TypeOK
<1>1. Inv => TypeOK
  BY DEF Inv, SchedOK, TypeOK
<1> QED  BY <1>1, SchedulerInvariant, PTL

\* Whatever is called in whatever order, exactly the context of current_slot
\* is Running.
THEOREM RunningIsTheCurrentContext == Spec => []OneRunning
<1>1. Inv => OneRunning
  BY DEF Inv, SchedOK, OneRunning
<1> QED  BY <1>1, SchedulerInvariant, PTL

\* Ids stay distinct while the u32 id counter has not wrapped (ids are
\* unbounded here), so every lookup finds the context the caller means.
THEOREM ContextIdsAreDistinct == Spec => []UniqueIds
<1>1. Inv => UniqueIds
  BY DEF Inv, SchedOK, UniqueIds
<1> QED  BY <1>1, SchedulerInvariant, PTL

\* Use never exceeds the soft limit nor a limit its bound, for every resource
\* and every ceiling.
THEOREM BudgetLimitsHold == Spec => []LimitsHold
<1>1. Inv => LimitsHold
  BY DEF Inv, SchedOK, LimitsHold, BudgetOrdered, ContextOK
<1> QED  BY <1>1, SchedulerInvariant, PTL

\* The IpcMessages account is the length of the message ring.
THEOREM MessagesAreCharged == Spec => []RingCharged
<1>1. Inv => RingCharged
  BY DEF Inv, SchedOK, RingCharged, MessagesCharged, ContextOK
<1> QED  BY <1>1, SchedulerInvariant, PTL
=============================================================================
