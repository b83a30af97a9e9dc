--------------------------- MODULE LaunchProofs ---------------------------
(***************************************************************************)
(* What FormLifecycleProofs rests on, for any number of context slots,     *)
(* address spaces, programs and launches, any budget ceiling and any       *)
(* quantum: the inductive invariant ShellInv of FormLifecycle, and what    *)
(* each call a command makes leaves of it.                                 *)
(*                                                                         *)
(* What a scheduler call leaves of the contexts it is not about is its     *)
(* frame; what the launches hold is carried through a command one call at  *)
(* a time.                                                                 *)
(***************************************************************************)
EXTENDS FormLifecycle, SchedulerProofs

-----------------------------------------------------------------------------
(* The inductive invariant.                                                *)

Ticks(context) == remaining_before_soft(context.budget, "CpuTicks")

\* What of a context the launches depend on.
Same(c, d) ==
    /\ d.id = c.id /\ d.identity = c.identity
    /\ Ticks(d) = Ticks(c)
    /\ Reusable(d) <=> Reusable(c)
    /\ d.state = "BudgetBlocked" => c.state = "BudgetBlocked"

\* From scheduler s to scheduler t only the context in slot x may change.
Frame(s, t, x) ==
    /\ s.next_id \in Nat /\ t.next_id \in Nat /\ s.next_id <= t.next_id
    /\ \A slot \in Slots : slot # x => Same(s.contexts[slot], t.contexts[slot])

BlockedIsSpent(s) ==
    \A slot \in Slots : s.contexts[slot].state = "BudgetBlocked"
                          => Ticks(s.contexts[slot]) = 0

\* The context in slot is the live one of a launch.
LivesIn(s, launch, slot) ==
    /\ s.contexts[slot].id = launch.id
    /\ s.contexts[slot].identity = launch.form
    /\ ~Reusable(s.contexts[slot])
    /\ Ticks(s.contexts[slot]) > 0

Good(s, sp, launch) ==
    /\ launch \in LaunchType
    /\ launch.id < s.next_id
    /\ ~launch.finished => \E slot \in Slots : LivesIn(s, launch, slot)
    /\ sp[launch.space].active /\ sp[launch.space].form = launch.form

Apart(a, b) == a.space # b.space /\ a.id # b.id

\* The launches bg and fg hold the contexts and spaces that are in use, each
\* its own.
Holds(s, sp, bg, fg) ==
    /\ \A i \in 1..Len(bg) : Good(s, sp, bg[i]) /\ ~bg[i].finished
    /\ \A i \in 1..Len(fg) : Good(s, sp, fg[i])
    /\ \A i, j \in 1..Len(bg) : i # j => Apart(bg[i], bg[j])
    /\ \A i, j \in 1..Len(fg) : i # j => Apart(fg[i], fg[j])
    /\ \A i \in 1..Len(bg), j \in 1..Len(fg) : Apart(bg[i], fg[j])
    /\ \A k \in Spaces : sp[k].active =>
          \/ \E i \in 1..Len(bg) : bg[i].space = k
          \/ \E i \in 1..Len(fg) : fg[i].space = k

SpacesOK(sp) ==
    /\ sp \in [Spaces -> NativeSpace]
    /\ \A i \in Spaces : sp[i].active => sp[i].assigned

\* A foreground Form is running when its slice is accounted, the two of a
\* parallel command are ready.
InState(s, launch, state) ==
    \E slot \in Slots : LivesIn(s, launch, slot) /\ s.contexts[slot].state = state

ForegroundOK(s, fg) ==
    /\ fg.kind \in {"idle", "execute", "parallel"} /\ fg.launches \in Seq(LaunchType)
    /\ fg = [kind |-> fg.kind, launches |-> fg.launches]
    /\ fg.kind = "idle" => fg = Idle
    /\ fg.kind = "execute" =>
         /\ Len(fg.launches) = 1 /\ ~fg.launches[1].finished
         /\ InState(s, fg.launches[1], "Running")
    /\ fg.kind = "parallel" =>
         /\ Len(fg.launches) = 2
         /\ \A i \in 1..2 : ~fg.launches[i].finished
                              => InState(s, fg.launches[i], "Ready")

ShellInv ==
    /\ SchedOK(sched) /\ BlockedIsSpent(sched)
    /\ SpacesOK(spaces)
    /\ background \in Seq(LaunchType) /\ background_cursor \in Nat
    /\ ForegroundOK(sched, foreground)
    /\ Holds(sched, spaces, background, foreground.launches)
    /\ panic = FALSE

-----------------------------------------------------------------------------
(* Contexts and frames.                                                    *)

LEMMA SlotFacts == Slots \subseteq Nat /\ NoSlot \notin Slots
BY SchedulerAssumption DEF Slots, NoSlot

\* A context is found by its id.
LEMMA FoundAt ==
    ASSUME NEW s, SchedOK(s), NEW slot \in Slots, s.contexts[slot].state # "Absent"
    PROVE  /\ Position(s, s.contexts[slot].id, slot)
           /\ SlotOf(s, s.contexts[slot].id) = slot
<1> DEFINE id == s.contexts[slot].id
<1>1. \A other \in Slots : other # slot /\ s.contexts[other].state # "Absent"
                             => s.contexts[other].id # id
  BY DEF SchedOK, IdsDistinct
<1>2. 0..slot - 1 \subseteq Slots /\ \A lower \in 0..slot - 1 : lower # slot
  BY SchedulerAssumption DEF Slots
<1>3. Position(s, id, slot)
  BY <1>1, <1>2 DEF Position
<1>4. \A other \in Slots : Position(s, id, other) => other = slot
  BY <1>1 DEF Position
<1> QED  BY <1>3, <1>4 DEF SlotOf

LEMMA SameSelf == \A c : Same(c, c)
BY DEF Same

LEMMA FrameChain ==
    ASSUME NEW s, NEW t, NEW u, NEW x, Frame(s, t, x), Frame(t, u, x) \/ Frame(t, u, NoSlot)
    PROVE  Frame(s, u, x)
<1>1. \A slot \in Slots : slot # x => Same(t.contexts[slot], u.contexts[slot])
  BY SlotFacts DEF Frame
<1> QED  BY <1>1 DEF Frame, Same

LEMMA FrameWide ==
    ASSUME NEW s, NEW t, NEW x, Frame(s, t, NoSlot)
    PROVE  Frame(s, t, x)
BY SlotFacts DEF Frame

\* A live context outside the changed slot lives on.
LEMMA LivesOn ==
    ASSUME NEW s, NEW t, NEW x, Frame(s, t, x), NEW launch, NEW slot \in Slots,
           slot # x, LivesIn(s, launch, slot)
    PROVE  LivesIn(t, launch, slot)
BY DEF Frame, Same, LivesIn

LEMMA BlockedFrame ==
    ASSUME NEW s, NEW t, NEW x, Frame(s, t, x), BlockedIsSpent(s),
           x \in Slots => (t.contexts[x].state = "BudgetBlocked" => Ticks(t.contexts[x]) = 0)
    PROVE  BlockedIsSpent(t)
BY DEF Frame, Same, BlockedIsSpent

LEMMA ContextTyped ==
    ASSUME NEW s, SchedOK(s), NEW slot \in Slots
    PROVE  /\ s.contexts[slot] \in ContextType
           /\ s.contexts[slot].budget["CpuTicks"] \in AccountType
           /\ Ticks(s.contexts[slot]) \in Nat
           /\ s.next_id \in Nat /\ s.contexts[slot].id \in Nat
<1>1. s.contexts[slot] \in ContextType /\ s.next_id \in Nat
  BY DEF SchedOK, SchedulerType
<1>2. s.contexts[slot].budget["CpuTicks"] \in AccountType
  BY <1>1 DEF ContextType, Kinds
<1>3. s.contexts[slot].budget["CpuTicks"].used <= s.contexts[slot].budget["CpuTicks"].soft
  BY DEF SchedOK, ContextOK, Kinds
<1>4. Ticks(s.contexts[slot]) \in Nat
  BY <1>2, <1>3 DEF Ticks, remaining_before_soft, AccountType
<1> QED  BY <1>1, <1>2, <1>4 DEF ContextType

\* Two slots hold different contexts.
LEMMA OneSlot ==
    ASSUME NEW s, SchedOK(s), NEW launch, NEW a \in Slots, NEW b \in Slots,
           LivesIn(s, launch, a), ~Reusable(s.contexts[b]),
           s.contexts[b].id = launch.id
    PROVE  a = b
<1>1. s.contexts[a].state # "Absent" /\ s.contexts[b].state # "Absent"
  BY DEF LivesIn, Reusable
<1> QED  BY <1>1 DEF LivesIn, SchedOK, IdsDistinct

-----------------------------------------------------------------------------
(* The frames of the scheduler's methods.                                  *)

LEMMA YieldFrame ==
    ASSUME NEW s, SchedOK(s)
    PROVE  Frame(s, Yield(s), NoSlot)
<1>1. ASSUME NEW slot \in Slots
      PROVE  Same(s.contexts[slot], Yield(s).contexts[slot])
  <2>1. /\ Yield(s).contexts[slot].id = s.contexts[slot].id
        /\ Yield(s).contexts[slot].identity = s.contexts[slot].identity
        /\ Yield(s).contexts[slot].budget = s.contexts[slot].budget
        /\ Yield(s).contexts[slot].state =
             IF s.contexts[slot].state = "Running" THEN "Ready" ELSE s.contexts[slot].state
    BY YieldOK
  <2> QED  BY <2>1 DEF Same, Ticks, Reusable, Ended
<1>2. s.next_id \in Nat /\ Yield(s).next_id = s.next_id
  BY YieldOK DEF SchedOK, SchedulerType
<1> QED  BY <1>1, <1>2 DEF Frame

LEMMA RunFrame ==
    ASSUME NEW s, SchedOK(s), s.current_slot = NoSlot, NEW slot \in Slots,
           s.contexts[slot].state = "Ready"
    PROVE  /\ Frame(s, RunSlot(s, slot), NoSlot)
           /\ RunSlot(s, slot).contexts[slot].state = "Running"
           /\ \A i \in Slots : i # slot => RunSlot(s, slot).contexts[i] = s.contexts[i]
<1>1. /\ RunSlot(s, slot).next_id = s.next_id
      /\ \A i \in Slots : RunSlot(s, slot).contexts[i] =
           IF i = slot THEN [s.contexts[i] EXCEPT !.state = "Running"] ELSE s.contexts[i]
  BY RunOK
<1>2. s.contexts[slot] \in ContextType
  BY ContextTyped
<1> DEFINE c == s.contexts[slot]
           d == [c EXCEPT !.state = "Running"]
<1>3. /\ d.id = c.id /\ d.identity = c.identity /\ d.budget = c.budget
      /\ d.state = "Running"
  BY <1>2 DEF ContextType
<1>4. Same(c, d)
  BY <1>3 DEF Same, Ticks, Reusable, Ended
<1>5. s.next_id \in Nat
  BY DEF SchedOK, SchedulerType
<1> HIDE DEF c, d
<1>6. /\ RunSlot(s, slot).contexts[slot] = d
      /\ \A i \in Slots : i # slot => RunSlot(s, slot).contexts[i] = s.contexts[i]
  BY <1>1 DEF c, d
<1>7. \A i \in Slots : Same(s.contexts[i], RunSlot(s, slot).contexts[i])
  BY <1>4, <1>6, SameSelf DEF c
<1>8. Frame(s, RunSlot(s, slot), NoSlot)
  BY <1>1, <1>5, <1>7 DEF Frame
<1> QED  BY <1>3, <1>6, <1>8

LEMMA ResumeFrame ==
    ASSUME NEW s, SchedOK(s), NEW slot \in Slots, CanResume(s, slot)
    PROVE  /\ SchedOK(resume(s, slot))
           /\ Frame(s, resume(s, slot), NoSlot)
           /\ resume(s, slot).contexts[slot].state = "Running"
           /\ \A i \in Slots : i # slot /\ s.contexts[i].state = "Ready"
                                 => resume(s, slot).contexts[i].state = "Ready"
<1> DEFINE y == Yield(s)
<1>1. /\ SchedOK(y) /\ y.current_slot = NoSlot /\ y.contexts[slot].state = "Ready"
      /\ \A i \in Slots : s.contexts[i].state = "Ready" => y.contexts[i].state = "Ready"
  BY YieldOK DEF CanResume
<1>2. resume(s, slot) = RunSlot(y, slot)
  BY DEF resume
<1>3. Frame(s, y, NoSlot)
  BY YieldFrame
<1> HIDE DEF y
<1>4. /\ Frame(y, RunSlot(y, slot), NoSlot)
      /\ RunSlot(y, slot).contexts[slot].state = "Running"
      /\ \A i \in Slots : i # slot => RunSlot(y, slot).contexts[i] = y.contexts[i]
  BY <1>1, RunFrame
<1>5. Frame(s, RunSlot(y, slot), NoSlot)
  BY <1>3, <1>4, FrameChain
<1> QED  BY <1>1, <1>2, <1>4, <1>5, ResumeOK

LEMMA DispatchFrame ==
    ASSUME NEW s, SchedOK(s)
    PROVE  Frame(s, dispatch_next(s), NoSlot)
<1> DEFINE y == Yield(s)
<1>1. SchedOK(y) /\ y.current_slot = NoSlot /\ Frame(s, y, NoSlot)
  BY YieldOK, YieldFrame
<1>2. CASE \E slot \in Slots : NextReady(y, slot)
  <2> DEFINE slot == CHOOSE slot \in Slots : NextReady(y, slot)
  <2>1. slot \in Slots /\ NextReady(y, slot)
    BY <1>2
  <2>2. dispatch_next(s) = Dispatch(y, slot)
    BY <1>2 DEF dispatch_next
  <2> HIDE DEF slot, y
  <2>3. y.contexts[slot].state = "Ready"
    BY <2>1 DEF NextReady
  <2>4. Frame(y, RunSlot(y, slot), NoSlot) /\ SchedOK(RunSlot(y, slot))
    BY <1>1, <2>1, <2>3, RunFrame, RunOK
  <2>5. /\ Dispatch(y, slot).contexts = RunSlot(y, slot).contexts
        /\ Dispatch(y, slot).next_id = RunSlot(y, slot).next_id
    BY <2>4 DEF Dispatch, SchedOK, SchedulerType
  <2>6. Frame(y, Dispatch(y, slot), NoSlot)
    BY <2>4, <2>5 DEF Frame
  <2> QED  BY <1>1, <2>2, <2>6, FrameChain
<1>3. CASE ~\E slot \in Slots : NextReady(y, slot)
  <2>1. dispatch_next(s) = y
    BY <1>3 DEF dispatch_next
  <2> QED  BY <1>1, <2>1
<1> QED  BY <1>2, <1>3

LEMMA AdmitFrame ==
    ASSUME NEW s, SchedOK(s), NEW slot \in Slots, NEW form \in Identities,
           Reusable(s.contexts[slot])
    PROVE  /\ SchedOK(admit(s, slot, form))
           /\ Frame(s, admit(s, slot, form), slot)
           /\ admit(s, slot, form).next_id = s.next_id + 1
           /\ admit(s, slot, form).contexts[slot] = NewContext(s.next_id, form)
           /\ \A i \in Slots : i # slot => admit(s, slot, form).contexts[i] = s.contexts[i]
<1>1. s \in SchedulerType /\ s.next_id \in Nat
  BY DEF SchedOK, SchedulerType
<1>2. /\ admit(s, slot, form).next_id = s.next_id + 1
      /\ admit(s, slot, form).contexts = [s.contexts EXCEPT ![slot] = NewContext(s.next_id, form)]
  BY <1>1 DEF admit, SchedulerType
<1>3. \A i \in Slots : admit(s, slot, form).contexts[i] =
         IF i = slot THEN NewContext(s.next_id, form) ELSE s.contexts[i]
  BY <1>1, <1>2 DEF SchedulerType
<1> QED  BY <1>1, <1>2, <1>3, AdmitOK, SameSelf DEF Frame

LEMMA NewTicks ==
    ASSUME NEW id, NEW form
    PROVE  /\ NewContext(id, form).id = id /\ NewContext(id, form).identity = form
           /\ NewContext(id, form).state = "Ready" /\ Ticks(NewContext(id, form)) = Ceiling
BY SchedulerAssumption DEF NewContext, Ticks, remaining_before_soft, uniform, Kinds

\* Calls that replace the context of one slot and may clear current_slot.
LEMMA StoppedFrame ==
    ASSUME NEW s, SchedOK(s), NEW slot \in Slots, NEW c, NEW id
    PROVE  LET t == ClearIfCurrent(Put(s, slot, c), id) IN
           /\ t.next_id = s.next_id
           /\ t.contexts[slot] = c
           /\ \A i \in Slots : i # slot => t.contexts[i] = s.contexts[i]
           /\ Frame(s, t, slot)
<1> DEFINE p == Put(s, slot, c)
           t == ClearIfCurrent(p, id)
<1>1. s \in SchedulerType /\ s.next_id \in Nat
  BY DEF SchedOK, SchedulerType
<1>2. p.next_id = s.next_id /\ p.contexts = [s.contexts EXCEPT ![slot] = c]
  BY <1>1 DEF Put, SchedulerType
<1>3. t.next_id = p.next_id /\ t.contexts = p.contexts
  <2>1. p = [s EXCEPT !.contexts = [s.contexts EXCEPT ![slot] = c]]
    BY DEF Put
  <2> QED  BY <1>1, <2>1 DEF ClearIfCurrent, SchedulerType
<1> HIDE DEF t, p
<1>4. \A i \in Slots : t.contexts[i] = IF i = slot THEN c ELSE s.contexts[i]
  BY <1>1, <1>2, <1>3 DEF SchedulerType
<1>5. Frame(s, t, slot)
  BY <1>1, <1>2, <1>3, <1>4, SameSelf DEF Frame
<1> QED  BY <1>2, <1>3, <1>4, <1>5 DEF t, p

\* A call that sets the state of a context.
AfterState(s, t, slot, state) ==
    /\ Frame(s, t, slot)
    /\ t.contexts[slot].id = s.contexts[slot].id
    /\ t.contexts[slot].identity = s.contexts[slot].identity
    /\ Ticks(t.contexts[slot]) = Ticks(s.contexts[slot])
    /\ t.contexts[slot].state = state

LEMMA StateFrame ==
    ASSUME NEW s, SchedOK(s), NEW slot \in Slots, NEW id, NEW state \in States
    PROVE  AfterState(s, ClearIfCurrent(SetState(s, slot, state), id), slot, state)
<1> DEFINE c == [s.contexts[slot] EXCEPT !.state = state]
           t == ClearIfCurrent(Put(s, slot, c), id)
<1>1. SetState(s, slot, state) = Put(s, slot, c)
  BY SetStateIsPut
<1>2. /\ c.id = s.contexts[slot].id /\ c.identity = s.contexts[slot].identity
      /\ c.budget = s.contexts[slot].budget /\ c.state = state
  BY ContextTyped DEF ContextType
<1> HIDE DEF c
<1>3. t.contexts[slot] = c /\ Frame(s, t, slot)
  BY StoppedFrame
<1> HIDE DEF t
<1>4. Ticks(c) = Ticks(s.contexts[slot])
  BY <1>2 DEF Ticks
<1>5. ClearIfCurrent(SetState(s, slot, state), id) = t
  BY <1>1 DEF t
<1>6. AfterState(s, t, slot, state)
  BY <1>2, <1>3, <1>4 DEF AfterState
<1> QED  BY <1>5, <1>6

\* The calls of formctl that leave the context live.
LEMMA LiveStateFrame ==
    ASSUME NEW s, SchedOK(s), NEW slot \in Slots, NEW t,
           Frame(s, t, slot), Same(s.contexts[slot], t.contexts[slot])
    PROVE  Frame(s, t, NoSlot)
BY DEF Frame

-----------------------------------------------------------------------------
(* Slices.                                                                 *)

\* A slice that is preempted leaves ticks to spend, one that its budget stops
\* spends all of them, one that exits takes no more than there are.
LEMMA SliceFacts ==
    ASSUME NEW limit \in Nat \ {0}, NEW result \in SliceResults(limit)
    PROVE  /\ result.ticks \in Nat
           /\ result.reason \in {"Exited", "Preempted", "BudgetExhausted"}
           /\ result.reason = "Preempted" => result.ticks \in 1..limit - 1
           /\ result.reason = "BudgetExhausted" => result.ticks = limit
           /\ result.reason = "Exited" => AtLeastOne(result.ticks) \in 1..limit
<1> DEFINE Disposition(n) == expos_form_timer_interrupt(n, AtLeastOne(limit))
           Runs(n) == \A tick \in 1..n : Disposition(tick) = "Resume"
           Span == 0..TIMER_QUANTUM_TICKS
<1>1. AtLeastOne(limit) = limit
  BY DEF AtLeastOne
<1>2. Span \subseteq Nat /\ TIMER_QUANTUM_TICKS \in Nat \ {0}
  BY LifecycleAssumption
<1>3. ASSUME NEW n \in Nat \ {0}
      PROVE  /\ Disposition(n) \in {"BudgetExhausted", "Preempted", "Resume"}
             /\ Disposition(n) = "Resume" => n < limit
             /\ Disposition(n) = "Preempted" => n < limit
             /\ Disposition(n) = "BudgetExhausted" => n >= limit
  BY <1>1, <1>2 DEF expos_form_timer_interrupt
<1>4. \/ \E n \in Span : Runs(n) /\ result = [reason |-> "Exited", ticks |-> n]
      \/ \E n \in Span \ {0} : /\ Runs(n - 1) /\ ~Runs(n)
                               /\ result = [reason |-> Disposition(n), ticks |-> n]
  BY DEF SliceResults
<1> HIDE DEF Disposition
<1>5. CASE \E n \in Span : Runs(n) /\ result = [reason |-> "Exited", ticks |-> n]
  <2>1. PICK n \in Span : Runs(n) /\ result = [reason |-> "Exited", ticks |-> n]
    BY <1>5
  <2>2. n \in Nat /\ (n # 0 => n < limit)
    <3>1. n \in Nat
      BY <1>2
    <3>2. ASSUME n # 0 PROVE n < limit
      <4>1. n \in 1..n /\ n \in Nat \ {0}
        BY <3>1, <3>2
      <4>2. Disposition(n) = "Resume"
        BY <2>1, <4>1
      <4> QED  BY <1>3, <4>1, <4>2
    <3> QED  BY <3>1, <3>2
  <2>3. result.reason = "Exited" /\ result.ticks = n
    BY <2>1
  <2>4. AtLeastOne(n) \in 1..limit
    BY <2>2 DEF AtLeastOne
  <2> QED  BY <2>2, <2>3, <2>4
<1>6. CASE \E n \in Span \ {0} : /\ Runs(n - 1) /\ ~Runs(n)
                                 /\ result = [reason |-> Disposition(n), ticks |-> n]
  <2>1. PICK n \in Span \ {0} : /\ Runs(n - 1) /\ ~Runs(n)
                                /\ result = [reason |-> Disposition(n), ticks |-> n]
    BY <1>6
  <2>2. n \in Nat \ {0}
    BY <1>2
  <2>3. Disposition(n) # "Resume"
    <3>1. ASSUME Disposition(n) = "Resume", NEW tick \in 1..n
          PROVE  Disposition(tick) = "Resume"
      <4>1. tick = n \/ tick \in 1..n - 1
        BY <2>2
      <4> QED  BY <2>1, <3>1, <4>1
    <3> QED  BY <2>1, <3>1
  <2>4. n > 1 => n - 1 < limit
    <3>1. ASSUME n > 1 PROVE n - 1 < limit
      <4>1. n - 1 \in 1..n - 1 /\ n - 1 \in Nat \ {0}
        BY <2>2, <3>1
      <4>2. Disposition(n - 1) = "Resume"
        BY <2>1, <4>1
      <4> QED  BY <1>3, <4>1, <4>2
    <3> QED  BY <3>1
  <2>5. result.reason = Disposition(n) /\ result.ticks = n
    BY <2>1
  <2>6. /\ Disposition(n) \in {"BudgetExhausted", "Preempted"}
        /\ Disposition(n) = "Preempted" => n < limit
        /\ Disposition(n) = "BudgetExhausted" => n >= limit
    BY <1>3, <2>2, <2>3
  <2> QED  BY <2>2, <2>4, <2>5, <2>6
<1> QED  BY <1>4, <1>5, <1>6

LEMMA ChargedSlice ==
    ASSUME NEW c \in ContextType, NEW ticks \in Nat, ticks <= Ticks(c), NEW state
    PROVE  /\ ChargeSlice(c, ticks, state).id = c.id
           /\ ChargeSlice(c, ticks, state).identity = c.identity
           /\ ChargeSlice(c, ticks, state).state = state
           /\ Ticks(ChargeSlice(c, ticks, state)) = Ticks(c) - ticks
<1> DEFINE account == c.budget["CpuTicks"]
           paid == charge(c.budget, "CpuTicks", ticks)
           d == [c EXCEPT !.state = state, !.budget = paid]
<1>1. c.budget \in [Kinds -> AccountType] /\ "CpuTicks" \in Kinds
  BY DEF ContextType, Kinds
<1>2. account \in AccountType
  BY <1>1
<1>3. CanCharge(c.budget, "CpuTicks", ticks)
  BY <1>2 DEF CanCharge, Ticks, remaining_before_soft, AccountType
<1>4. ChargeSlice(c, ticks, state) = d
  BY <1>3 DEF ChargeSlice
<1>5. paid["CpuTicks"].soft = account.soft /\ paid["CpuTicks"].used = account.used + ticks
  BY <1>1, ChargeOK
<1> HIDE DEF paid
<1>6. d.id = c.id /\ d.identity = c.identity /\ d.state = state /\ d.budget = paid
  BY DEF ContextType
<1> HIDE DEF d
<1>7. Ticks(d) = Ticks(c) - ticks
  BY <1>2, <1>5, <1>6 DEF Ticks, remaining_before_soft, AccountType
<1> QED  BY <1>4, <1>6, <1>7

AfterSlice(s, t, slot, result) ==
    /\ SchedOK(t) /\ Frame(s, t, slot)
    /\ \A i \in Slots : i # slot => t.contexts[i] = s.contexts[i]
    /\ t.contexts[slot].id = s.contexts[slot].id
    /\ t.contexts[slot].identity = s.contexts[slot].identity
    /\ ~Stops(result) => /\ t.contexts[slot].state = "Ready"
                         /\ Ticks(t.contexts[slot]) > 0
    /\ t.contexts[slot].state = "BudgetBlocked" => Ticks(t.contexts[slot]) = 0

LEMMA ChargeResultFacts ==
    ASSUME NEW s, SchedOK(s), NEW slot \in Slots, s.contexts[slot].state # "Absent",
           Ticks(s.contexts[slot]) > 0,
           NEW result \in SliceResults(Ticks(s.contexts[slot]))
    PROVE  AfterSlice(s, ChargeResult(s, s.contexts[slot].id, slot, result), slot, result)
<1> DEFINE c == s.contexts[slot]
           id == c.id
           limit == Ticks(c)
           t == ChargeResult(s, id, slot, result)
<1>1. c \in ContextType /\ limit \in Nat \ {0} /\ id \in Nat /\ s.next_id \in Nat
  BY ContextTyped
<1>2. /\ result.ticks \in Nat
      /\ result.reason \in {"Exited", "Preempted", "BudgetExhausted"}
      /\ result.reason = "Preempted" => result.ticks \in 1..limit - 1
      /\ result.reason = "BudgetExhausted" => result.ticks = limit
      /\ result.reason = "Exited" => AtLeastOne(result.ticks) \in 1..limit
  <2> HIDE DEF limit
  <2>1. result \in SliceResults(limit)
    BY DEF limit
  <2> QED  BY <1>1, <2>1, SliceFacts
<1>3. Position(s, id, slot)
  BY FoundAt
<1> DEFINE After(ticks, state) == ChargeSlice(c, ticks, state)
           Cleared(ticks, state) == ClearIfCurrent(Put(s, slot, After(ticks, state)), id)
<1> HIDE DEF limit
<1>4. CASE result.reason = "Preempted"
  <2>1. result.ticks \in Nat /\ AtLeastOne(result.ticks) = result.ticks
    BY <1>1, <1>2, <1>4 DEF AtLeastOne
  <2>2. t = preempt(s, id, slot, result.ticks, FALSE)
    BY <1>4, <2>1 DEF ChargeResult
  <2>3. t = Cleared(result.ticks, "Ready")
    BY <2>2 DEF preempt, Put
  <2>4. SchedOK(t)
    BY <1>3, <2>1, <2>2, PreemptOK
  <2>5. /\ After(result.ticks, "Ready").id = id
        /\ After(result.ticks, "Ready").identity = c.identity
        /\ After(result.ticks, "Ready").state = "Ready"
        /\ Ticks(After(result.ticks, "Ready")) = limit - result.ticks
    BY <1>1, <1>2, <1>4, ChargedSlice DEF limit
  <2> HIDE DEF t, After
  <2>6. /\ t.contexts[slot] = After(result.ticks, "Ready") /\ Frame(s, t, slot)
        /\ \A i \in Slots : i # slot => t.contexts[i] = s.contexts[i]
    BY <2>3, StoppedFrame
  <2>7. Ticks(t.contexts[slot]) > 0 /\ ~Stops(result)
    BY <1>1, <1>2, <1>4, <2>5, <2>6 DEF Stops
  <2>8. AfterSlice(s, t, slot, result)
    BY <2>4, <2>5, <2>6, <2>7 DEF AfterSlice
  <2> QED  BY <2>8 DEF t
<1>5. CASE result.reason = "BudgetExhausted"
  <2>1. result.ticks = limit /\ limit \in Nat
    BY <1>1, <1>2, <1>5
  <2>2. t = preempt(s, id, slot, limit, TRUE)
    BY <1>5, <2>1 DEF ChargeResult
  <2>3. t = Cleared(limit, "BudgetBlocked")
    BY <2>2 DEF preempt, Put
  <2>4. SchedOK(t)
    BY <1>3, <2>1, <2>2, PreemptOK
  <2>5. /\ After(limit, "BudgetBlocked").id = id
        /\ After(limit, "BudgetBlocked").identity = c.identity
        /\ After(limit, "BudgetBlocked").state = "BudgetBlocked"
        /\ Ticks(After(limit, "BudgetBlocked")) = 0
    BY <1>1, <2>1, ChargedSlice DEF limit
  <2> HIDE DEF t, After
  <2>6. /\ t.contexts[slot] = After(limit, "BudgetBlocked") /\ Frame(s, t, slot)
        /\ \A i \in Slots : i # slot => t.contexts[i] = s.contexts[i]
    BY <2>3, StoppedFrame
  <2>7. Stops(result)
    BY <1>5 DEF Stops
  <2>8. AfterSlice(s, t, slot, result)
    BY <2>4, <2>5, <2>6, <2>7 DEF AfterSlice
  <2> QED  BY <2>8 DEF t
<1>6. CASE result.reason = "Exited"
  <2> DEFINE n == AtLeastOne(result.ticks)
  <2>1. n \in Nat /\ n <= limit
    BY <1>1, <1>2, <1>6
  <2>2. t = finish_slice(s, id, slot, n)
    BY <1>6 DEF ChargeResult
  <2> HIDE DEF n
  <2>3. t = Cleared(n, "Exited")
    BY <2>2 DEF finish_slice, Put
  <2>4. SchedOK(t)
    BY <1>3, <2>1, <2>2, FinishSliceOK
  <2>5. /\ After(n, "Exited").id = id
        /\ After(n, "Exited").identity = c.identity
        /\ After(n, "Exited").state = "Exited"
    BY <1>1, <2>1, ChargedSlice DEF limit
  <2> HIDE DEF t, After
  <2>6. /\ t.contexts[slot] = After(n, "Exited") /\ Frame(s, t, slot)
        /\ \A i \in Slots : i # slot => t.contexts[i] = s.contexts[i]
    BY <2>3, StoppedFrame
  <2>7. Stops(result)
    BY <1>6 DEF Stops
  <2>8. AfterSlice(s, t, slot, result)
    BY <2>4, <2>5, <2>6, <2>7 DEF AfterSlice
  <2> QED  BY <2>8 DEF t
<1> QED  BY <1>2, <1>4, <1>5, <1>6

-----------------------------------------------------------------------------
(* What the launches hold, through a change of the scheduler or of the     *)
(* spaces.                                                                 *)

\* A space that prepare may choose is idle: an active one is assigned.
LEMMA PreparedIdle ==
    ASSUME NEW sp, SpacesOK(sp), NEW form, NEW i \in PreparedSpace(sp, form)
    PROVE  i \in Spaces /\ ~sp[i].active
<1> DEFINE First(set) == {k \in set : \A j \in set : k <= j}
           own == {k \in Spaces : sp[k].assigned /\ sp[k].form = form /\ ~sp[k].active}
           fresh == {k \in Spaces : ~sp[k].assigned}
           idle == {k \in Spaces : ~sp[k].active}
<1>1. i \in own \/ i \in fresh \/ i \in idle
  BY DEF PreparedSpace
<1> QED  BY <1>1 DEF SpacesOK

LEMMA SpaceUpdates ==
    ASSUME NEW sp, SpacesOK(sp), NEW k \in Spaces,
           NEW form \in Programs \cup Services
    PROVE  /\ SpacesOK(Opened(sp, form, k)) /\ SpacesOK(Closed(sp, form, k))
           /\ SpacesOK(Released(sp, k))
           /\ \A i \in Spaces : i # k =>
                /\ Opened(sp, form, k)[i] = sp[i] /\ Closed(sp, form, k)[i] = sp[i]
                /\ Released(sp, k)[i] = sp[i]
           /\ Opened(sp, form, k)[k].active /\ Opened(sp, form, k)[k].form = form
           /\ ~Closed(sp, form, k)[k].active /\ ~Released(sp, k)[k].active
<1>1. sp \in [Spaces -> NativeSpace] /\ sp[k] \in NativeSpace
  BY DEF SpacesOK
<1> DEFINE made(on) == [assigned |-> TRUE, active |-> on, form |-> form]
           off == [sp[k] EXCEPT !.active = FALSE]
<1>2. \A on \in BOOLEAN : /\ made(on) \in NativeSpace
                          /\ made(on).assigned = TRUE /\ made(on).active = on
                          /\ made(on).form = form
  BY DEF NativeSpace
<1>3. off \in NativeSpace /\ off.active = FALSE
  BY <1>1 DEF NativeSpace
<1>4. /\ Opened(sp, form, k) = [sp EXCEPT ![k] = made(TRUE)]
      /\ Closed(sp, form, k) = [sp EXCEPT ![k] = made(FALSE)]
      /\ Released(sp, k) = [sp EXCEPT ![k] = off]
  BY DEF Opened, Closed, Released
<1> HIDE DEF made, off
<1>5. /\ SpacesOK([sp EXCEPT ![k] = made(TRUE)])
      /\ SpacesOK([sp EXCEPT ![k] = made(FALSE)])
      /\ SpacesOK([sp EXCEPT ![k] = off])
  BY <1>1, <1>2, <1>3 DEF SpacesOK
<1> QED  BY <1>1, <1>2, <1>3, <1>4, <1>5

LEMMA ReleaseSpace ==
    ASSUME NEW sp, SpacesOK(sp), NEW k \in Spaces
    PROVE  /\ SpacesOK(Released(sp, k)) /\ ~Released(sp, k)[k].active
           /\ \A i \in Spaces : i # k => Released(sp, k)[i] = sp[i]
<1>1. sp \in [Spaces -> NativeSpace] /\ sp[k] \in NativeSpace
  BY DEF SpacesOK
<1> DEFINE off == [sp[k] EXCEPT !.active = FALSE]
<1>2. off \in NativeSpace /\ off.active = FALSE
  BY <1>1 DEF NativeSpace
<1>3. Released(sp, k) = [sp EXCEPT ![k] = off]
  BY DEF Released
<1> HIDE DEF off
<1> QED  BY <1>1, <1>2, <1>3 DEF SpacesOK

\* The changed slot held no live context.
LEMMA HoldsFrame ==
    ASSUME NEW s, NEW t, NEW x, NEW sp, NEW bg, NEW fg, Holds(s, sp, bg, fg),
           Frame(s, t, x), x \in Slots => Reusable(s.contexts[x])
    PROVE  Holds(t, sp, bg, fg)
<1>1. ASSUME NEW launch, Good(s, sp, launch)
      PROVE  Good(t, sp, launch)
  <2>1. launch.id \in Nat /\ launch.id < t.next_id
    BY <1>1 DEF Good, Frame, LaunchType
  <2>2. \A slot \in Slots : LivesIn(s, launch, slot) => slot # x
    BY DEF LivesIn
  <2>3. \A slot \in Slots : LivesIn(s, launch, slot) => LivesIn(t, launch, slot)
    BY <2>2, LivesOn
  <2> QED  BY <1>1, <2>1, <2>3 DEF Good
<1> QED  BY <1>1 DEF Holds

\* The changed slot holds the live context of a launch, which stays live.
LEMMA HoldsKept ==
    ASSUME NEW s, NEW t, NEW slot \in Slots, NEW sp, NEW bg, NEW fg, NEW own,
           Holds(s, sp, bg, fg), Frame(s, t, slot),
           LivesIn(s, own, slot), LivesIn(t, own, slot)
    PROVE  Holds(t, sp, bg, fg)
<1>1. ASSUME NEW launch, Good(s, sp, launch)
      PROVE  Good(t, sp, launch)
  <2>1. launch.id \in Nat /\ launch.id < t.next_id
    BY <1>1 DEF Good, Frame, LaunchType
  <2>2. ASSUME NEW a \in Slots, LivesIn(s, launch, a)
        PROVE  LivesIn(t, launch, a)
    <3>1. CASE a = slot
      BY <2>2, <3>1 DEF LivesIn
    <3>2. CASE a # slot
      BY <2>2, <3>2, LivesOn
    <3> QED  BY <3>1, <3>2
  <2> QED  BY <1>1, <2>1, <2>2 DEF Good
<1> QED  BY <1>1 DEF Holds

\* The live context of one launch stops: every other launch keeps its own.
LEMMA GoodOther ==
    ASSUME NEW s, NEW t, NEW slot \in Slots, NEW sp, NEW own, NEW launch,
           Frame(s, t, slot), LivesIn(s, own, slot),
           Good(s, sp, launch), Apart(launch, own) \/ Apart(own, launch)
    PROVE  Good(t, sp, launch)
<1>1. launch.id \in Nat /\ launch.id < t.next_id
  BY DEF Good, Frame, LaunchType
<1>2. \A a \in Slots : LivesIn(s, launch, a) => a # slot
  BY DEF LivesIn, Apart
<1>3. \A a \in Slots : LivesIn(s, launch, a) => LivesIn(t, launch, a)
  BY <1>2, LivesOn
<1> QED  BY <1>1, <1>3 DEF Good

\* Another space changes.
LEMMA GoodSpaces ==
    ASSUME NEW s, NEW sp, NEW sp2, NEW k, NEW launch, Good(s, sp, launch),
           launch.space # k, \A i \in Spaces : i # k => sp2[i] = sp[i]
    PROVE  Good(s, sp2, launch)
<1>1. launch.space \in Spaces
  BY DEF Good, LaunchType
<1> QED  BY <1>1 DEF Good

-----------------------------------------------------------------------------
(* The changes of what the launches hold.                                  *)

\* An idle space is taken and left idle.
LEMMA HoldsClosed ==
    ASSUME NEW s, NEW sp, NEW bg, NEW fg, Holds(s, sp, bg, fg), SpacesOK(sp),
           NEW k \in Spaces, ~sp[k].active, NEW form \in Programs \cup Services
    PROVE  Holds(s, Closed(sp, form, k), bg, fg) /\ SpacesOK(Closed(sp, form, k))
<1> DEFINE sp2 == Closed(sp, form, k)
<1>1. /\ SpacesOK(sp2) /\ ~sp2[k].active
      /\ \A i \in Spaces : i # k => sp2[i] = sp[i]
  BY SpaceUpdates
<1> HIDE DEF sp2
<1>2. ASSUME NEW launch, Good(s, sp, launch)
      PROVE  Good(s, sp2, launch)
  <2>1. launch.space # k
    BY <1>2 DEF Good
  <2> QED  BY <1>1, <1>2, <2>1, GoodSpaces
<1>3. \A i \in Spaces : sp2[i].active => sp[i].active
  BY <1>1
<1> QED  BY <1>1, <1>2, <1>3 DEF Holds, sp2

\* A Form is admitted and its space opened: its launch is live and ready, and
\* shares neither id nor space with the launches there are.
AfterLaunch(s, sp, slot, k, t, sp2, l) ==
    /\ SchedOK(t) /\ SpacesOK(sp2) /\ Frame(s, t, slot)
    /\ l \in LaunchType /\ ~l.finished
    /\ LivesIn(t, l, slot) /\ t.contexts[slot].state = "Ready"
    /\ Good(t, sp2, l)
    /\ k \in Spaces /\ ~sp[k].active
    /\ \A i \in Spaces : i # k => sp2[i] = sp[i]
    /\ BlockedIsSpent(s) => BlockedIsSpent(t)
    /\ \A i \in Slots : i # slot => t.contexts[i] = s.contexts[i]
    /\ Reusable(s.contexts[slot])
    /\ \A launch : Good(s, sp, launch) =>
         /\ Good(t, sp2, launch) /\ Apart(launch, l) /\ Apart(l, launch)

LEMMA Launched ==
    ASSUME NEW s, SchedOK(s), NEW sp, SpacesOK(sp), NEW form \in Programs,
           NEW slot \in Slots, CanLaunch(s, form, slot),
           NEW k \in PreparedSpace(sp, form)
    PROVE  AfterLaunch(s, sp, slot, k, admit(s, slot, form), Opened(sp, form, k),
                       Launch(form, s.next_id, k))
<1> DEFINE t == admit(s, slot, form)
           sp2 == Opened(sp, form, k)
           l == Launch(form, s.next_id, k)
<1>1. form \in Identities /\ Ceiling > 0 /\ Ceiling \in Nat
  BY LifecycleAssumption, SchedulerAssumption
<1>2. Reusable(s.contexts[slot])
  BY DEF CanLaunch, AdmitSlot
<1>3. /\ SchedOK(t) /\ Frame(s, t, slot) /\ t.next_id = s.next_id + 1
      /\ t.contexts[slot] = NewContext(s.next_id, form)
      /\ \A i \in Slots : i # slot => t.contexts[i] = s.contexts[i]
  BY <1>1, <1>2, AdmitFrame
<1>4. k \in Spaces /\ ~sp[k].active
  BY PreparedIdle
<1>5. /\ SpacesOK(sp2) /\ sp2[k].active /\ sp2[k].form = form
      /\ \A i \in Spaces : i # k => sp2[i] = sp[i]
  BY <1>4, SpaceUpdates
<1>6. s.next_id \in Nat
  BY <1>3 DEF Frame
<1>7. /\ l \in LaunchType /\ l.finished = FALSE
      /\ l.id = s.next_id /\ l.form = form /\ l.space = k
  BY <1>4, <1>6 DEF Launch, LaunchType
<1>8. /\ t.contexts[slot].id = s.next_id /\ t.contexts[slot].identity = form
      /\ t.contexts[slot].state = "Ready" /\ Ticks(t.contexts[slot]) = Ceiling
  BY <1>3, NewTicks
<1> HIDE DEF t, sp2, l
<1>9. LivesIn(t, l, slot)
  BY <1>1, <1>7, <1>8 DEF LivesIn, Reusable, Ended
<1>10. Good(t, sp2, l)
  BY <1>3, <1>5, <1>6, <1>7, <1>9 DEF Good
<1>11. BlockedIsSpent(s) => BlockedIsSpent(t)
  BY <1>3, <1>8, BlockedFrame
<1>12. ASSUME NEW launch, Good(s, sp, launch)
       PROVE  Good(t, sp2, launch) /\ Apart(launch, l) /\ Apart(l, launch)
  <2>1. launch.id \in Nat /\ launch.id < s.next_id /\ launch.id < t.next_id
    BY <1>3, <1>6, <1>12 DEF Good, LaunchType
  <2>2. launch.space # k
    BY <1>4, <1>12 DEF Good
  <2>3. \A a \in Slots : LivesIn(s, launch, a) => LivesIn(t, launch, a)
    <3>1. \A a \in Slots : LivesIn(s, launch, a) => a # slot
      BY <1>2 DEF LivesIn
    <3> QED  BY <1>3, <3>1, LivesOn
  <2>4. Good(t, sp, launch)
    BY <1>12, <2>1, <2>3 DEF Good
  <2>5. Good(t, sp2, launch)
    BY <1>5, <2>2, <2>4, GoodSpaces
  <2>6. launch.id # l.id /\ launch.space # l.space
    BY <1>6, <1>7, <2>1, <2>2
  <2> QED  BY <2>5, <2>6 DEF Apart
<1>13. ~l.finished
  BY <1>7
<1>14. AfterLaunch(s, sp, slot, k, t, sp2, l)
  BY <1>2, <1>3, <1>4, <1>5, <1>7, <1>8, <1>9, <1>10, <1>11, <1>12, <1>13
     DEF AfterLaunch
<1> QED  BY <1>14 DEF t, sp2, l

LEMMA Appended ==
    ASSUME NEW S, NEW seq \in Seq(S), NEW e \in S
    PROVE  /\ Append(seq, e) \in Seq(S) /\ Len(seq) \in Nat
           /\ Len(Append(seq, e)) = Len(seq) + 1
           /\ Append(seq, e)[Len(seq) + 1] = e
           /\ \A i \in 1..Len(seq) : Append(seq, e)[i] = seq[i]
           /\ \A i \in 1..Len(seq) + 1 : i \in 1..Len(seq) \/ i = Len(seq) + 1
BY AppendProperties

\* The new launch is the last of the background ones.
LEMMA HoldsStarted ==
    ASSUME NEW s, SchedOK(s), NEW sp, SpacesOK(sp), NEW form \in Programs,
           NEW slot \in Slots, CanLaunch(s, form, slot),
           NEW k \in PreparedSpace(sp, form),
           NEW bg \in Seq(LaunchType), NEW fg, Holds(s, sp, bg, fg)
    PROVE  Holds(admit(s, slot, form), Opened(sp, form, k),
                 Append(bg, Launch(form, s.next_id, k)), fg)
<1> DEFINE t == admit(s, slot, form)
           sp2 == Opened(sp, form, k)
           l == Launch(form, s.next_id, k)
           bg2 == Append(bg, l)
<1>1. /\ l \in LaunchType /\ ~l.finished /\ Good(t, sp2, l)
      /\ k \in Spaces /\ \A i \in Spaces : i # k => sp2[i] = sp[i]
      /\ \A launch : Good(s, sp, launch) =>
           /\ Good(t, sp2, launch) /\ Apart(launch, l) /\ Apart(l, launch)
  <2>1. AfterLaunch(s, sp, slot, k, t, sp2, l)
    BY Launched
  <2> HIDE DEF t, sp2, l
  <2> QED  BY <2>1 DEF AfterLaunch
<1>2. l.space = k
  BY DEF Launch
<1> HIDE DEF t, sp2, l
<1>3. /\ Len(bg) \in Nat /\ Len(bg2) = Len(bg) + 1 /\ bg2[Len(bg) + 1] = l
      /\ \A i \in 1..Len(bg) : bg2[i] = bg[i]
      /\ \A i \in 1..Len(bg2) : i \in 1..Len(bg) \/ i = Len(bg) + 1
  BY <1>1, Appended
<1> HIDE DEF bg2
<1>4. \A i \in 1..Len(bg2) : Good(t, sp2, bg2[i]) /\ ~bg2[i].finished
  BY <1>1, <1>3 DEF Holds
<1>5. \A i \in 1..Len(fg) : Good(t, sp2, fg[i])
  BY <1>1 DEF Holds
<1>6. ASSUME NEW i \in 1..Len(bg2), NEW j \in 1..Len(bg2), i # j
      PROVE  Apart(bg2[i], bg2[j])
  BY <1>1, <1>3, <1>6 DEF Holds
<1>7. \A i \in 1..Len(bg2), j \in 1..Len(fg) : Apart(bg2[i], fg[j])
  BY <1>1, <1>3 DEF Holds
<1>8. ASSUME NEW i \in Spaces, sp2[i].active
      PROVE  \/ \E j \in 1..Len(bg2) : bg2[j].space = i
             \/ \E j \in 1..Len(fg) : fg[j].space = i
  <2>1. CASE i = k
    <3>1. Len(bg) + 1 \in 1..Len(bg2)
      BY <1>3
    <3> QED  BY <1>2, <1>3, <2>1, <3>1
  <2>2. CASE i # k
    <3>1. \A j \in 1..Len(bg) : j \in 1..Len(bg2)
      BY <1>3
    <3>2. sp[i].active
      BY <1>1, <1>8, <2>2
    <3> QED  BY <1>3, <3>1, <3>2 DEF Holds
  <2> QED  BY <2>1, <2>2
<1>9. \A i, j \in 1..Len(fg) : i # j => Apart(fg[i], fg[j])
  BY DEF Holds
<1> QED  BY <1>4, <1>5, <1>6, <1>7, <1>8, <1>9 DEF Holds, t, sp2, l, bg2

\* The new launch is the last of the foreground ones.
LEMMA HoldsExecuted ==
    ASSUME NEW s, SchedOK(s), NEW sp, SpacesOK(sp), NEW form \in Programs,
           NEW slot \in Slots, CanLaunch(s, form, slot),
           NEW k \in PreparedSpace(sp, form),
           NEW bg, NEW fg \in Seq(LaunchType), Holds(s, sp, bg, fg)
    PROVE  Holds(admit(s, slot, form), Opened(sp, form, k),
                 bg, Append(fg, Launch(form, s.next_id, k)))
<1> DEFINE t == admit(s, slot, form)
           sp2 == Opened(sp, form, k)
           l == Launch(form, s.next_id, k)
           fg2 == Append(fg, l)
<1>1. /\ l \in LaunchType /\ Good(t, sp2, l)
      /\ k \in Spaces /\ \A i \in Spaces : i # k => sp2[i] = sp[i]
      /\ \A launch : Good(s, sp, launch) =>
           /\ Good(t, sp2, launch) /\ Apart(launch, l) /\ Apart(l, launch)
  <2>1. AfterLaunch(s, sp, slot, k, t, sp2, l)
    BY Launched
  <2> HIDE DEF t, sp2, l
  <2> QED  BY <2>1 DEF AfterLaunch
<1>2. l.space = k
  BY DEF Launch
<1> HIDE DEF t, sp2, l
<1>3. /\ Len(fg) \in Nat /\ Len(fg2) = Len(fg) + 1 /\ fg2[Len(fg) + 1] = l
      /\ \A i \in 1..Len(fg) : fg2[i] = fg[i]
      /\ \A i \in 1..Len(fg2) : i \in 1..Len(fg) \/ i = Len(fg) + 1
  BY <1>1, Appended
<1> HIDE DEF fg2
<1>4. \A i \in 1..Len(fg2) : Good(t, sp2, fg2[i])
  BY <1>1, <1>3 DEF Holds
<1>5. \A i \in 1..Len(bg) : Good(t, sp2, bg[i]) /\ ~bg[i].finished
  BY <1>1 DEF Holds
<1>6. ASSUME NEW i \in 1..Len(fg2), NEW j \in 1..Len(fg2), i # j
      PROVE  Apart(fg2[i], fg2[j])
  BY <1>1, <1>3, <1>6 DEF Holds
<1>7. \A i \in 1..Len(bg), j \in 1..Len(fg2) : Apart(bg[i], fg2[j])
  BY <1>1, <1>3 DEF Holds
<1>8. ASSUME NEW i \in Spaces, sp2[i].active
      PROVE  \/ \E j \in 1..Len(bg) : bg[j].space = i
             \/ \E j \in 1..Len(fg2) : fg2[j].space = i
  <2>1. CASE i = k
    <3>1. Len(fg) + 1 \in 1..Len(fg2)
      BY <1>3
    <3> QED  BY <1>2, <1>3, <2>1, <3>1
  <2>2. CASE i # k
    <3>1. \A j \in 1..Len(fg) : j \in 1..Len(fg2)
      BY <1>3
    <3>2. sp[i].active
      BY <1>1, <1>8, <2>2
    <3> QED  BY <1>3, <3>1, <3>2 DEF Holds
  <2> QED  BY <2>1, <2>2
<1>9. \A i, j \in 1..Len(bg) : i # j => Apart(bg[i], bg[j])
  BY DEF Holds
<1> QED  BY <1>4, <1>5, <1>6, <1>7, <1>8, <1>9 DEF Holds, t, sp2, l, fg2

\* swap_remove keeps every other element, each once.
LEMMA SwapRemoved ==
    ASSUME NEW S, NEW seq \in Seq(S), NEW index \in 1..Len(seq)
    PROVE  LET rest == swap_remove(seq, index) IN
           /\ rest \in Seq(S) /\ Len(rest) = Len(seq) - 1 /\ Len(seq) \in Nat \ {0}
           /\ \A i \in 1..Len(rest) :
                 /\ i \in 1..Len(seq) /\ i # Len(seq)
                 /\ rest[i] = IF i = index THEN seq[Len(seq)] ELSE seq[i]
<1> DEFINE rest == swap_remove(seq, index)
           n == Len(seq)
<1>1. n \in Nat /\ n # 0 /\ n - 1 \in Nat /\ n \in 1..n
  BY LenProperties
<1>2. \A i \in 1..n : seq[i] \in S
  BY ElementOfSeq
<1>3. rest = [i \in 1..n - 1 |-> IF i = index THEN seq[n] ELSE seq[i]]
  BY DEF swap_remove
<1> HIDE DEF rest, n
<1>4. \A i \in 1..n - 1 : i \in 1..n /\ i # n
  BY <1>1
<1>5. rest \in [1..n - 1 -> S]
  BY <1>1, <1>2, <1>3, <1>4
<1>6. rest \in Seq(S) /\ Len(rest) = n - 1
  BY <1>1, <1>3, <1>5, SeqDef, LenProperties
<1> QED  BY <1>1, <1>3, <1>4, <1>6 DEF rest, n

\* A background launch ends: its context is the only one that changes, its
\* space is released and it leaves the list.
LEMMA HoldsRemoved ==
    ASSUME NEW s, NEW t, NEW sp, SpacesOK(sp), NEW bg \in Seq(LaunchType), NEW fg,
           Holds(s, sp, bg, fg), NEW index \in 1..Len(bg), NEW slot \in Slots,
           LivesIn(s, bg[index], slot), Frame(s, t, slot)
    PROVE  /\ Holds(t, Released(sp, bg[index].space), swap_remove(bg, index), fg)
           /\ SpacesOK(Released(sp, bg[index].space))
           /\ swap_remove(bg, index) \in Seq(LaunchType)
<1> DEFINE own == bg[index]
           k == own.space
           n == Len(bg)
           sp2 == Released(sp, k)
           rest == swap_remove(bg, index)
           At(i) == IF i = index THEN n ELSE i
<1>1. k \in Spaces /\ Good(s, sp, own)
  BY DEF Holds, Good, LaunchType
<1>2. /\ SpacesOK(sp2) /\ ~sp2[k].active
      /\ \A i \in Spaces : i # k => sp2[i] = sp[i]
  BY <1>1, ReleaseSpace
<1>3. /\ rest \in Seq(LaunchType) /\ Len(rest) = n - 1 /\ n \in Nat \ {0}
      /\ \A i \in 1..Len(rest) : /\ i \in 1..n /\ i # n /\ rest[i] = bg[At(i)]
                                 /\ At(i) \in 1..n /\ At(i) # index
  BY SwapRemoved
<1>4. \A i, j \in 1..Len(rest) : i # j => At(i) # At(j)
  BY <1>3
<1> HIDE DEF sp2, rest
<1>5. ASSUME NEW launch, Good(s, sp, launch), Apart(launch, own) \/ Apart(own, launch)
      PROVE  Good(t, sp2, launch)
  <2>1. Good(t, sp, launch)
    BY <1>5, GoodOther
  <2>2. launch.space # k
    BY <1>5 DEF Apart
  <2> QED  BY <1>2, <2>1, <2>2, GoodSpaces
<1>6. \A i \in 1..n : i # index => Good(t, sp2, bg[i]) /\ ~bg[i].finished
  BY <1>5 DEF Holds
<1>7. \A j \in 1..Len(fg) : Good(t, sp2, fg[j])
  BY <1>5 DEF Holds
<1>8. \A i \in 1..Len(rest) : Good(t, sp2, rest[i]) /\ ~rest[i].finished
  BY <1>3, <1>6
<1>9. \A i, j \in 1..Len(rest) : i # j => Apart(rest[i], rest[j])
  <2>1. \A i, j \in 1..n : i # j => Apart(bg[i], bg[j])
    BY DEF Holds
  <2> HIDE DEF At
  <2> QED  BY <1>3, <1>4, <2>1
<1>10. \A i \in 1..Len(rest), j \in 1..Len(fg) : Apart(rest[i], fg[j])
  <2>1. \A i \in 1..n, j \in 1..Len(fg) : Apart(bg[i], fg[j])
    BY DEF Holds
  <2> QED  BY <1>3, <2>1
<1>11. ASSUME NEW i \in Spaces, sp2[i].active
       PROVE  \/ \E j \in 1..Len(rest) : rest[j].space = i
              \/ \E j \in 1..Len(fg) : fg[j].space = i
  <2>1. i # k /\ sp[i].active
    BY <1>2, <1>11
  <2>2. CASE \E j \in 1..n : bg[j].space = i
    <3>1. PICK j \in 1..n : bg[j].space = i
      BY <2>2
    <3>2. j # index
      BY <2>1, <3>1
    <3>3. CASE j = n
      <4>1. index \in 1..Len(rest) /\ rest[index] = bg[n]
        BY <1>3, <3>2, <3>3
      <4> QED  BY <3>1, <3>3, <4>1
    <3>4. CASE j # n
      <4>1. j \in 1..Len(rest)
        BY <1>3, <3>4
      <4>2. rest[j] = bg[j]
        BY <1>3, <3>2, <4>1
      <4> QED  BY <3>1, <4>1, <4>2
    <3> QED  BY <3>3, <3>4
  <2>3. CASE \E j \in 1..Len(fg) : fg[j].space = i
    BY <2>3
  <2> QED  BY <2>1, <2>2, <2>3 DEF Holds
<1>12. \A i, j \in 1..Len(fg) : i # j => Apart(fg[i], fg[j])
  BY DEF Holds
<1>13. Holds(t, sp2, rest, fg)
  BY <1>7, <1>8, <1>9, <1>10, <1>11, <1>12 DEF Holds
<1> QED  BY <1>2, <1>3, <1>13 DEF sp2, rest

\* A background launch moves to the end of the list.
LEMMA HoldsMoved ==
    ASSUME NEW s, NEW sp, NEW bg \in Seq(LaunchType), NEW fg, Holds(s, sp, bg, fg),
           NEW index \in 1..Len(bg)
    PROVE  /\ Holds(s, sp, Append(swap_remove(bg, index), bg[index]), fg)
           /\ Append(swap_remove(bg, index), bg[index]) \in Seq(LaunchType)
<1> DEFINE n == Len(bg)
           rest == swap_remove(bg, index)
           moved == Append(rest, bg[index])
           At(i) == IF i = n THEN index ELSE IF i = index THEN n ELSE i
<1>1. bg[index] \in LaunchType
  BY ElementOfSeq
<1>2. /\ rest \in Seq(LaunchType) /\ Len(rest) = n - 1 /\ n \in Nat \ {0}
      /\ \A i \in 1..Len(rest) : /\ i \in 1..n /\ i # n
                                 /\ rest[i] = IF i = index THEN bg[n] ELSE bg[i]
  BY SwapRemoved
<1> HIDE DEF rest
<1>3. /\ moved \in Seq(LaunchType) /\ Len(moved) = Len(rest) + 1
      /\ moved[Len(rest) + 1] = bg[index]
      /\ \A i \in 1..Len(rest) : moved[i] = rest[i]
  BY <1>1, <1>2, Appended
<1> HIDE DEF moved
<1>4. Len(moved) = n /\ n \in 1..n
  BY <1>2, <1>3
<1>5. \A i \in 1..n : /\ At(i) \in 1..n /\ At(At(i)) = i
  OBVIOUS
<1>6. \A i \in 1..n : moved[i] = bg[At(i)]
  <2> TAKE i \in 1..n
  <2>1. CASE i = n
    BY <1>2, <1>3, <2>1
  <2>2. CASE i # n
    <3>1. i \in 1..Len(rest)
      BY <1>2, <2>2
    <3> QED  BY <1>2, <1>3, <2>2, <3>1
  <2> QED  BY <2>1, <2>2
<1>7. \A i, j \in 1..n : i # j => At(i) # At(j)
  OBVIOUS
<1> HIDE DEF At
<1>8. \A i \in 1..n : Good(s, sp, moved[i]) /\ ~moved[i].finished
  BY <1>5, <1>6 DEF Holds
<1>9. \A i, j \in 1..n : i # j => Apart(moved[i], moved[j])
  BY <1>5, <1>6, <1>7 DEF Holds
<1>10. \A i \in 1..n, j \in 1..Len(fg) : Apart(moved[i], fg[j])
  BY <1>5, <1>6 DEF Holds
<1>11. \A i \in 1..n : \E j \in 1..n : moved[j] = bg[i]
  BY <1>5, <1>6
<1>12. \A k \in Spaces : sp[k].active =>
         \/ \E i \in 1..n : moved[i].space = k
         \/ \E i \in 1..Len(fg) : fg[i].space = k
  <2>1. \A k \in Spaces : sp[k].active =>
          \/ \E i \in 1..n : bg[i].space = k
          \/ \E i \in 1..Len(fg) : fg[i].space = k
    BY DEF Holds
  <2> TAKE k \in Spaces
  <2>2. ASSUME NEW i \in 1..n, bg[i].space = k
        PROVE  \E j \in 1..n : moved[j].space = k
    BY <1>11, <2>2
  <2> QED  BY <2>1, <2>2
<1>13. /\ \A i \in 1..Len(fg) : Good(s, sp, fg[i])
       /\ \A i, j \in 1..Len(fg) : i # j => Apart(fg[i], fg[j])
  BY DEF Holds
<1>14. Holds(s, sp, moved, fg)
  BY <1>4, <1>8, <1>9, <1>10, <1>12, <1>13 DEF Holds
<1> QED  BY <1>3, <1>14 DEF moved, rest

\* The context of a foreground launch stops and the launch is marked finished.
LEMMA HoldsMarked ==
    ASSUME NEW s, NEW t, NEW sp, NEW bg, NEW fg, Holds(s, sp, bg, fg),
           NEW j \in 1..Len(fg), NEW slot \in Slots, LivesIn(s, fg[j], slot),
           Frame(s, t, slot), NEW fg2, Len(fg2) = Len(fg),
           fg2[j] = [fg[j] EXCEPT !.finished = TRUE],
           \A i \in 1..Len(fg) : i # j => fg2[i] = fg[i]
    PROVE  Holds(t, sp, bg, fg2)
<1> DEFINE own == fg[j]
           m == [own EXCEPT !.finished = TRUE]
<1>1. own \in LaunchType /\ Good(s, sp, own)
  BY DEF Holds, Good
<1>2. /\ m \in LaunchType /\ m.finished = TRUE
      /\ m.id = own.id /\ m.space = own.space /\ m.form = own.form
  BY <1>1 DEF LaunchType
<1> HIDE DEF m
<1>3. m.id \in Nat /\ m.id < t.next_id
  BY <1>1, <1>2 DEF Good, Frame, LaunchType
<1>4. Good(t, sp, m)
  BY <1>1, <1>2, <1>3 DEF Good
<1>5. fg2[j] = m
  BY DEF m
<1>6. \A i \in 1..Len(bg) : Good(t, sp, bg[i]) /\ ~bg[i].finished
  BY GoodOther DEF Holds
<1>7. \A i \in 1..Len(fg) : i # j => Good(t, sp, fg[i])
  BY GoodOther DEF Holds
<1>8. \A i \in 1..Len(fg2) : Good(t, sp, fg2[i])
  BY <1>4, <1>5, <1>7
<1>9. \A i \in 1..Len(fg2) : fg2[i].space = fg[i].space /\ fg2[i].id = fg[i].id
  BY <1>2, <1>5
<1>10. \A i, k \in 1..Len(fg2) : i # k => Apart(fg2[i], fg2[k])
  BY <1>9 DEF Holds, Apart
<1>11. \A i \in 1..Len(bg), k \in 1..Len(fg2) : Apart(bg[i], fg2[k])
  BY <1>9 DEF Holds, Apart
<1>12. \A k \in Spaces : sp[k].active =>
          \/ \E i \in 1..Len(bg) : bg[i].space = k
          \/ \E i \in 1..Len(fg2) : fg2[i].space = k
  BY <1>9 DEF Holds
<1>13. \A i, k \in 1..Len(bg) : i # k => Apart(bg[i], bg[k])
  BY DEF Holds
<1> QED  BY <1>6, <1>8, <1>10, <1>11, <1>12, <1>13 DEF Holds

\* A foreground command ends: the spaces of its launches are released.
LEMMA HoldsEnded ==
    ASSUME NEW s, NEW sp, SpacesOK(sp), NEW bg, NEW fg, Holds(s, sp, bg, fg),
           NEW sp2, SpacesOK(sp2),
           \A i \in Spaces : (\A j \in 1..Len(fg) : fg[j].space # i) => sp2[i] = sp[i],
           \A j \in 1..Len(fg) : ~sp2[fg[j].space].active
    PROVE  Holds(s, sp2, bg, <<>>)
<1>1. ASSUME NEW i \in 1..Len(bg)
      PROVE  Good(s, sp2, bg[i]) /\ ~bg[i].finished
  <2>1. Good(s, sp, bg[i]) /\ ~bg[i].finished /\ bg[i].space \in Spaces
    BY DEF Holds, Good, LaunchType
  <2>2. \A j \in 1..Len(fg) : fg[j].space # bg[i].space
    BY DEF Holds, Apart
  <2>3. sp2[bg[i].space] = sp[bg[i].space]
    BY <2>1, <2>2
  <2> QED  BY <2>1, <2>3 DEF Good
<1>2. ASSUME NEW k \in Spaces, sp2[k].active
      PROVE  \E i \in 1..Len(bg) : bg[i].space = k
  <2>1. \A j \in 1..Len(fg) : fg[j].space # k
    BY <1>2
  <2>2. sp[k].active
    BY <1>2, <2>1
  <2> QED  BY <2>1, <2>2 DEF Holds
<1>3. Len(<<>>) = 0 /\ 1..0 = {}
  OBVIOUS
<1>4. \A i, j \in 1..Len(bg) : i # j => Apart(bg[i], bg[j])
  BY DEF Holds
<1> QED  BY <1>1, <1>2, <1>3, <1>4 DEF Holds

LEMMA HoldsEndedOne ==
    ASSUME NEW s, NEW sp, SpacesOK(sp), NEW bg, NEW fg, Len(fg) = 1,
           Holds(s, sp, bg, fg)
    PROVE  /\ Holds(s, Released(sp, fg[1].space), bg, <<>>)
           /\ SpacesOK(Released(sp, fg[1].space))
<1> DEFINE sp2 == Released(sp, fg[1].space)
<1>1. 1..Len(fg) = {1} /\ fg[1].space \in Spaces
  BY DEF Holds, Good, LaunchType
<1>2. /\ SpacesOK(sp2) /\ ~sp2[fg[1].space].active
      /\ \A i \in Spaces : i # fg[1].space => sp2[i] = sp[i]
  BY <1>1, ReleaseSpace
<1> HIDE DEF sp2
<1>3. Holds(s, sp2, bg, <<>>)
  BY <1>1, <1>2, HoldsEnded
<1> QED  BY <1>2, <1>3 DEF sp2

LEMMA HoldsEndedTwo ==
    ASSUME NEW s, NEW sp, SpacesOK(sp), NEW bg, NEW fg, Len(fg) = 2,
           Holds(s, sp, bg, fg)
    PROVE  LET sp2 == Released(Released(sp, fg[1].space), fg[2].space) IN
           Holds(s, sp2, bg, <<>>) /\ SpacesOK(sp2)
<1> DEFINE sp1 == Released(sp, fg[1].space)
           sp2 == Released(sp1, fg[2].space)
<1>1. 1..Len(fg) = {1, 2} /\ fg[1].space \in Spaces /\ fg[2].space \in Spaces
  BY DEF Holds, Good, LaunchType
<1>2. /\ SpacesOK(sp1) /\ ~sp1[fg[1].space].active
      /\ \A i \in Spaces : i # fg[1].space => sp1[i] = sp[i]
  BY <1>1, ReleaseSpace
<1> HIDE DEF sp1
<1>3. /\ SpacesOK(sp2) /\ ~sp2[fg[2].space].active
      /\ \A i \in Spaces : i # fg[2].space => sp2[i] = sp1[i]
  BY <1>1, <1>2, ReleaseSpace
<1> HIDE DEF sp2
<1>4. ~sp2[fg[1].space].active
  BY <1>1, <1>2, <1>3
<1>5. \A i \in Spaces : (\A j \in 1..Len(fg) : fg[j].space # i) => sp2[i] = sp[i]
  BY <1>1, <1>2, <1>3
<1>6. \A j \in 1..Len(fg) : ~sp2[fg[j].space].active
  BY <1>1, <1>3, <1>4
<1>7. Holds(s, sp2, bg, <<>>)
  BY <1>3, <1>5, <1>6, HoldsEnded
<1> QED  BY <1>3, <1>7 DEF sp2, sp1

-----------------------------------------------------------------------------
(* A slice of a launch that is ready.                                      *)

LEMMA AccountedSlice ==
    ASSUME NEW s, SchedOK(s), BlockedIsSpent(s), NEW launch, NEW slot \in Slots,
           LivesIn(s, launch, slot), s.contexts[slot].state = "Ready",
           NEW result \in SliceResults(Remaining(s, launch))
    PROVE  LET t == account_parallel_slice(s, launch, result) IN
           /\ AccountExpected(s, launch)
           /\ SchedOK(t) /\ BlockedIsSpent(t) /\ Frame(s, t, slot)
           /\ ~Stops(result) => LivesIn(t, launch, slot) /\ t.contexts[slot].state = "Ready"
           /\ \A i \in Slots : i # slot /\ s.contexts[i].state = "Ready"
                                 => t.contexts[i].state = "Ready"
<1> DEFINE r == resume(s, slot)
           t == ChargeResult(r, launch.id, slot, result)
<1>1. SlotOf(s, launch.id) = slot /\ CanResume(s, slot)
  BY FoundAt DEF LivesIn, CanResume
<1>2. /\ SchedOK(r) /\ Frame(s, r, NoSlot) /\ r.contexts[slot].state = "Running"
      /\ \A i \in Slots : i # slot /\ s.contexts[i].state = "Ready"
                            => r.contexts[i].state = "Ready"
  BY <1>1, ResumeFrame
<1>3. account_parallel_slice(s, launch, result) = t /\ AccountExpected(s, launch)
  BY <1>1 DEF account_parallel_slice, AccountExpected
<1>4. Remaining(s, launch) = Ticks(s.contexts[slot])
  BY <1>1 DEF Remaining, ContextOf, Ticks
<1> HIDE DEF r
<1>5. Same(s.contexts[slot], r.contexts[slot])
  BY <1>2, SlotFacts DEF Frame
<1>6. /\ r.contexts[slot].id = launch.id /\ r.contexts[slot].identity = launch.form
      /\ Ticks(r.contexts[slot]) = Ticks(s.contexts[slot])
      /\ Ticks(r.contexts[slot]) > 0
  BY <1>5 DEF LivesIn, Same
<1>7. /\ SchedOK(t) /\ Frame(r, t, slot)
      /\ \A i \in Slots : i # slot => t.contexts[i] = r.contexts[i]
      /\ t.contexts[slot].id = launch.id
      /\ t.contexts[slot].identity = r.contexts[slot].identity
      /\ ~Stops(result) => /\ t.contexts[slot].state = "Ready"
                           /\ Ticks(t.contexts[slot]) > 0
      /\ t.contexts[slot].state = "BudgetBlocked" => Ticks(t.contexts[slot]) = 0
  <2>1. result \in SliceResults(Ticks(r.contexts[slot])) /\ r.contexts[slot].state # "Absent"
    BY <1>2, <1>4, <1>6
  <2>2. AfterSlice(r, ChargeResult(r, r.contexts[slot].id, slot, result), slot, result)
    BY <1>2, <1>6, <2>1, ChargeResultFacts
  <2>3. AfterSlice(r, t, slot, result)
    BY <1>6, <2>2
  <2> HIDE DEF t
  <2> QED  BY <1>6, <2>3 DEF AfterSlice
<1> HIDE DEF t
<1>8. Frame(s, t, slot)
  BY <1>2, <1>7, FrameWide, FrameChain
<1>9. BlockedIsSpent(t)
  BY <1>7, <1>8, BlockedFrame
<1>10. ~Stops(result) => LivesIn(t, launch, slot)
  BY <1>6, <1>7 DEF LivesIn, Reusable, Ended
<1> QED  BY <1>2, <1>3, <1>7, <1>8, <1>9, <1>10

LEMMA RemainingIs ==
    ASSUME NEW s, SchedOK(s), NEW launch, NEW slot \in Slots, LivesIn(s, launch, slot)
    PROVE  /\ SlotOf(s, launch.id) = slot /\ Position(s, launch.id, slot)
           /\ ContextOf(s, launch) = s.contexts[slot]
           /\ Remaining(s, launch) = Ticks(s.contexts[slot])
<1>1. s.contexts[slot].state # "Absent" /\ s.contexts[slot].id = launch.id
  BY DEF LivesIn, Reusable
<1>2. SlotOf(s, launch.id) = slot /\ Position(s, launch.id, slot)
  BY <1>1, FoundAt
<1> QED  BY <1>2 DEF ContextOf, Remaining, Ticks

\* One of the two launches of execute-parallel is accounted, unless it has
\* finished before.
ReadyPair(s, fg) ==
    \A i \in 1..2 : ~fg[i].finished => InState(s, fg[i], "Ready")

AfterRound(s, t, sp, bg, fg, fg2, j) ==
    /\ SchedOK(t) /\ BlockedIsSpent(t) /\ Holds(t, sp, bg, fg2) /\ ReadyPair(t, fg2)
    /\ ~fg[j].finished => AccountExpected(s, fg[j])
    /\ \A i \in 1..2 : i # j /\ ~fg[i].finished
                         => Remaining(t, fg[i]) = Remaining(s, fg[i])

LEMMA RoundStep ==
    ASSUME NEW s, SchedOK(s), BlockedIsSpent(s), NEW sp, NEW bg,
           NEW fg \in Seq(LaunchType), Len(fg) = 2, Holds(s, sp, bg, fg),
           ReadyPair(s, fg), NEW j \in 1..2,
           NEW result \in IF fg[j].finished THEN {NotRun}
                          ELSE SliceResults(Remaining(s, fg[j])),
           NEW fg2 \in Seq(LaunchType), Len(fg2) = 2,
           fg2[j] = [fg[j] EXCEPT !.finished = @ \/ Stops(result)],
           \A i \in 1..2 : i # j => fg2[i] = fg[i]
    PROVE  AfterRound(s, IF fg[j].finished THEN s
                         ELSE account_parallel_slice(s, fg[j], result),
                      sp, bg, fg, fg2, j)
<1> DEFINE own == fg[j]
           t == account_parallel_slice(s, own, result)
<1>1. 1..Len(fg) = 1..2 /\ \A i \in 1..2 : fg[i] \in LaunchType
  BY ElementOfSeq
<1>2. own \in LaunchType /\ own.finished \in BOOLEAN
  BY <1>1 DEF LaunchType
<1>3. CASE own.finished
  <2>1. fg2[j] = own
    BY <1>2, <1>3 DEF LaunchType
  <2>2. \A i \in 1..2 : fg2[i] = fg[i]
    BY <2>1
  <2>3. fg2 = fg
    BY <2>2, SeqEqual
  <2>4. AfterRound(s, s, sp, bg, fg, fg2, j)
    BY <1>3, <2>3 DEF AfterRound
  <2> QED  BY <1>3, <2>4
<1>4. CASE ~own.finished
  <2>1. PICK slot \in Slots : LivesIn(s, own, slot) /\ s.contexts[slot].state = "Ready"
    BY <1>4 DEF ReadyPair, InState
  <2>2. result \in SliceResults(Remaining(s, own))
    BY <1>4
  <2>3. /\ AccountExpected(s, own)
        /\ SchedOK(t) /\ BlockedIsSpent(t) /\ Frame(s, t, slot)
        /\ ~Stops(result) => LivesIn(t, own, slot) /\ t.contexts[slot].state = "Ready"
        /\ \A i \in Slots : i # slot /\ s.contexts[i].state = "Ready"
                              => t.contexts[i].state = "Ready"
    BY <2>1, <2>2, AccountedSlice
  <2> HIDE DEF t
  <2>4. ASSUME NEW i \in 1..2, i # j, ~fg[i].finished
        PROVE  InState(t, fg[i], "Ready") /\ Remaining(t, fg[i]) = Remaining(s, fg[i])
    <3>1. PICK a \in Slots : LivesIn(s, fg[i], a) /\ s.contexts[a].state = "Ready"
      BY <2>4 DEF ReadyPair, InState
    <3>2. fg[i].id # own.id
      BY <1>1, <2>4 DEF Holds, Apart
    <3>3. a # slot
      BY <2>1, <3>1, <3>2 DEF LivesIn
    <3>4. LivesIn(t, fg[i], a) /\ t.contexts[a].state = "Ready"
      BY <2>3, <3>1, <3>3, LivesOn
    <3>5. Ticks(t.contexts[a]) = Ticks(s.contexts[a])
      BY <2>3, <3>3 DEF Frame, Same
    <3> QED  BY <2>3, <3>1, <3>4, <3>5, RemainingIs DEF InState
  <2>5. ASSUME Stops(result) PROVE AfterRound(s, t, sp, bg, fg, fg2, j)
    <3>1. fg2[j] = [own EXCEPT !.finished = TRUE] /\ fg2[j].finished = TRUE
      BY <1>2, <2>5 DEF LaunchType
    <3>2. Holds(t, sp, bg, fg2)
      BY <1>1, <2>1, <2>3, <3>1, HoldsMarked
    <3>3. ReadyPair(t, fg2)
      BY <2>4, <3>1 DEF ReadyPair
    <3> QED  BY <2>3, <2>4, <3>2, <3>3 DEF AfterRound
  <2>6. ASSUME ~Stops(result) PROVE AfterRound(s, t, sp, bg, fg, fg2, j)
    <3>1. fg2[j] = own
      BY <1>2, <1>4, <2>6 DEF LaunchType
    <3>2. \A i \in 1..2 : fg2[i] = fg[i]
      BY <3>1
    <3>3. fg2 = fg
      BY <3>2, SeqEqual
    <3>4. Holds(t, sp, bg, fg)
      BY <2>1, <2>3, <2>6, HoldsKept
    <3>5. ReadyPair(t, fg)
      BY <2>3, <2>4, <2>6 DEF ReadyPair, InState
    <3> QED  BY <2>3, <2>4, <3>3, <3>4, <3>5 DEF AfterRound
  <2>7. AfterRound(s, t, sp, bg, fg, fg2, j)
    BY <2>5, <2>6
  <2> QED  BY <1>4, <2>7 DEF t
<1> QED  BY <1>3, <1>4
=============================================================================
