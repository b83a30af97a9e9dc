--------------------------- MODULE FormLifecycle ---------------------------
(***************************************************************************)
(* How the shell runs Forms: execute, execute-parallel, formctl and the    *)
(* idle poll of background Forms (kernel/src/shell.rs), the scheduler they *)
(* drive (module Scheduler) and the table of native address spaces and the *)
(* timer-bounded slices they run in (kernel/src/form_runtime.rs).          *)
(*                                                                         *)
(* The shell is one thread: a command is a step, except that the slices of *)
(* a foreground Form are steps of their own.  The code unwraps the results *)
(* of the scheduler calls that it believes cannot fail; `panic' records    *)
(* that one of them did.  Handles and image parsing are left out: they     *)
(* decide whether a launch is denied, and any launch may be denied here.   *)
(* A fault is accounted like an exit and is not told apart from it.        *)
(***************************************************************************)
EXTENDS Scheduler

CONSTANTS
    Root,                 \* identity of the shell's own context
    Programs,             \* executable Forms
    Documents,            \* Forms of every other kind
    Services,             \* Forms of supervised Ring-3 services
    MAX_NATIVE_SPACES,    \* native address spaces
    TIMER_QUANTUM_TICKS   \* timer ticks after which a slice is preempted

ASSUME LifecycleAssumption ==
    /\ {Root} \cup Programs \cup Documents \subseteq Identities
    /\ Root \notin Programs \cup Documents /\ NoIdentity \notin Identities
    /\ MAX_NATIVE_SPACES \in Nat \ {0} /\ TIMER_QUANTUM_TICKS \in Nat \ {0}
    /\ Ceiling > 0

VARIABLES spaces, background, background_cursor, foreground, panic

shell == <<spaces, background, background_cursor, foreground, panic>>
lifecycle == <<sched, shell>>

-----------------------------------------------------------------------------
(* Native address spaces.                                                  *)

Spaces == 0..MAX_NATIVE_SPACES - 1
NativeSpace == [assigned : BOOLEAN, active : BOOLEAN,
                form : Programs \cup Services \cup {NoIdentity}]

\* prepare prefers an idle space that last held the Form, then one that was
\* never used, then any idle one; the lowest index of each.
PreparedSpace(sp, form) ==
    LET first(set) == {i \in set : \A j \in set : i <= j}
        own == {i \in Spaces : sp[i].assigned /\ sp[i].form = form /\ ~sp[i].active}
        fresh == {i \in Spaces : ~sp[i].assigned}
        idle == {i \in Spaces : ~sp[i].active}
    IN  IF own # {} THEN first(own) ELSE IF fresh # {} THEN first(fresh) ELSE first(idle)

Opened(sp, form, i) ==
    [sp EXCEPT ![i] = [assigned |-> TRUE, active |-> TRUE, form |-> form]]
Closed(sp, form, i) ==
    [sp EXCEPT ![i] = [assigned |-> TRUE, active |-> FALSE, form |-> form]]
Released(sp, i) == [sp EXCEPT ![i].active = FALSE]

-----------------------------------------------------------------------------
(* Timer-bounded slices.                                                   *)

\* The interrupt handler: the tick limit is looked at before the quantum.
expos_form_timer_interrupt(ticks, limit) ==
    IF ticks >= limit THEN "BudgetExhausted"
    ELSE IF ticks >= TIMER_QUANTUM_TICKS THEN "Preempted" ELSE "Resume"

AtLeastOne(n) == IF n = 0 THEN 1 ELSE n

\* How a slice can end, and the ticks it took: at the first tick on which the
\* handler stops it, or before that by an exit or a fault.
SliceResults(tick_limit) ==
    LET Disposition(n) == expos_form_timer_interrupt(n, AtLeastOne(tick_limit))
        Runs(n) == \A tick \in 1..n : Disposition(tick) = "Resume"
        Ticks == 0..TIMER_QUANTUM_TICKS
    IN  {[reason |-> "Exited", ticks |-> n] : n \in {n \in Ticks : Runs(n)}}
        \cup {[reason |-> Disposition(n), ticks |-> n] :
                n \in {n \in Ticks \ {0} : Runs(n - 1) /\ ~Runs(n)}}

-----------------------------------------------------------------------------
(* Launches and the accounting of their slices.                            *)

Launch(form, id, space) ==
    [form |-> form, id |-> id, space |-> space, finished |-> FALSE]
LaunchType == [form : Programs, id : Nat, space : Spaces, finished : BOOLEAN]

SlotOf(s, id) == CHOOSE slot \in Slots : Position(s, id, slot)
ContextOf(s, launch) == s.contexts[SlotOf(s, launch.id)]
Remaining(s, launch) ==
    remaining_before_soft(ContextOf(s, launch).budget, "CpuTicks")

ChargeResult(s, id, slot, result) ==
    CASE result.reason = "Preempted" ->
           preempt(s, id, slot, AtLeastOne(result.ticks), FALSE)
      [] result.reason = "BudgetExhausted" ->
           preempt(s, id, slot, result.ticks, TRUE)
      [] result.reason = "Exited" ->
           finish_slice(s, id, slot, AtLeastOne(result.ticks))
NotRun == [reason |-> "NotRun", ticks |-> 0]
\* Mutant: a launch that its budget stopped is kept.
MutantBudgetKept(result) == result.reason = "Exited"

Stops(result) == result.reason # "Preempted"

account_parallel_slice(s, launch, result) ==
    LET slot == SlotOf(s, launch.id) IN
    ChargeResult(resume(s, slot), launch.id, slot, result)
AccountExpected(s, launch) == CanResume(s, SlotOf(s, launch.id))

-----------------------------------------------------------------------------
(* Launching: an address space is prepared and a context admitted.  A      *)
(* launch that fails once its space is prepared closes the space again.    *)

Idle == [kind |-> "idle", launches |-> <<>>]

CanLaunch(s, form, slot) ==
    s.next_id <= MaxId /\ CanAdmit(s, form) /\ AdmitSlot(s, slot)

\* execute of a Form that is not a program: a context is admitted, resumed and
\* finished at once.
ExecuteDocument(form) ==
    /\ foreground = Idle
    /\ \E slot \in Slots :
          /\ CanLaunch(sched, form, slot)
          /\ sched' = dispatch_next(
                 finish(resume(admit(sched, slot, form), slot), sched.next_id, slot))
    /\ UNCHANGED shell

\* A launch that is refused: by its image, its handles or by admit.
LaunchDenied(form) ==
    /\ foreground = Idle
    /\ \E i \in PreparedSpace(spaces, form) : spaces' = Closed(spaces, form, i)
    /\ UNCHANGED <<sched, background, background_cursor, foreground, panic>>

\* A supervised service runs to its end in a space of its own.
RunService(service) ==
    /\ foreground = Idle
    /\ \E i \in PreparedSpace(spaces, service) :
          spaces' = Closed(spaces, service, i)
    /\ UNCHANGED <<sched, background, background_cursor, foreground, panic>>

Execute(form) ==
    /\ foreground = Idle
    /\ \E slot \in Slots, i \in PreparedSpace(spaces, form) :
          LET admitted == admit(sched, slot, form) IN
          /\ CanLaunch(sched, form, slot)
          /\ sched' = resume(admitted, slot)
          /\ panic' = ~CanResume(admitted, slot)
          /\ spaces' = Opened(spaces, form, i)
          /\ foreground' = [kind |-> "execute",
                            launches |-> <<Launch(form, sched.next_id, i)>>]
    /\ UNCHANGED <<background, background_cursor>>

\* One turn of the loop in execute.
ExecuteSlice ==
    /\ foreground.kind = "execute"
    /\ LET launch == foreground.launches[1]
           slot == SlotOf(sched, launch.id)
       IN  \E result \in SliceResults(Remaining(sched, launch)) :
             \E charged \in {ChargeResult(sched, launch.id, slot, result)} :
             \/ /\ ~Stops(result)
                /\ sched' = resume(charged, slot)
                /\ panic' = ~(CanPreempt(sched, slot) /\ CanResume(charged, slot))
                /\ UNCHANGED <<spaces, foreground>>
             \/ /\ Stops(result)
                /\ sched' = dispatch_next(charged)
                /\ panic' = (result.reason = "BudgetExhausted"
                                /\ ~CanPreempt(sched, slot))
                /\ spaces' = Released(spaces, launch.space)
                /\ foreground' = Idle
    /\ UNCHANGED <<background, background_cursor>>

\* execute-parallel prepares its left launch, then its right one; when the
\* right one is denied the left context is finished and its space released.
ExecuteParallel(left, right) ==
    /\ foreground = Idle /\ left # right
    /\ \E slot \in Slots, i \in PreparedSpace(spaces, left) :
          LET s == admit(sched, slot, left)
              sp == Opened(spaces, left, i)
              first == Launch(left, sched.next_id, i)
          IN
          /\ CanLaunch(sched, left, slot)
          /\ \/ \E other \in Slots, j \in PreparedSpace(sp, right) :
                  /\ CanLaunch(s, right, other)
                  /\ sched' = admit(s, other, right)
                  /\ spaces' = Opened(sp, right, j)
                  /\ foreground' = [kind |-> "parallel",
                        launches |-> <<first, Launch(right, s.next_id, j)>>]
             \/ /\ sched' = finish(s, first.id, slot)
                /\ spaces' \in {Released(sp, i)} \cup
                       {Closed(Released(sp, i), right, j) :
                          j \in PreparedSpace(sp, right)}
                /\ UNCHANGED foreground
    /\ UNCHANGED <<background, background_cursor, panic>>

\* One turn of the loop in execute_parallel: the unfinished launches run a
\* slice each, left and right are accounted in this order.
ParallelRound ==
    /\ foreground.kind = "parallel"
    /\ LET left == foreground.launches[1]
           right == foreground.launches[2]
           Results(launch) == IF launch.finished THEN {NotRun}
                              ELSE SliceResults(Remaining(sched, launch))
           Account(s, launch, result) ==
               IF launch.finished THEN s
               ELSE account_parallel_slice(s, launch, result)
           After(launch, result) ==
               [launch EXCEPT !.finished = @ \/ Stops(result)]
       IN  \E leftResult \in Results(left), rightResult \in Results(right) :
             \E s \in {Account(sched, left, leftResult)} :
             \E accounted \in {Account(s, right, rightResult)} :
             LET launches == <<After(left, leftResult), After(right, rightResult)>>
             IN
             /\ panic' = \/ ~left.finished /\ ~AccountExpected(sched, left)
                         \/ ~right.finished /\ ~AccountExpected(s, right)
             /\ \/ /\ launches[1].finished /\ launches[2].finished
                   /\ sched' = dispatch_next(accounted)
                   /\ spaces' = Released(Released(spaces, left.space), right.space)
                   /\ foreground' = Idle
                \/ /\ ~(launches[1].finished /\ launches[2].finished)
                   /\ sched' = accounted
                   /\ foreground' = [foreground EXCEPT !.launches = launches]
                   /\ UNCHANGED spaces
    /\ UNCHANGED <<background, background_cursor>>

-----------------------------------------------------------------------------
(* Background Forms.                                                       *)

\* start_background from scheduler s, spaces sp and launches bg: it succeeds,
\* or is denied after or before its space was prepared.
start_background(s, sp, bg, form) ==
    \/ \E slot \in Slots, i \in PreparedSpace(sp, form) :
          /\ CanLaunch(s, form, slot)
          /\ sched' = admit(s, slot, form)
          /\ spaces' = Opened(sp, form, i)
          /\ background' = Append(bg, Launch(form, s.next_id, i))
    \/ \E i \in PreparedSpace(sp, form) :
          sched' = s /\ spaces' = Closed(sp, form, i) /\ background' = bg
    \/ sched' = s /\ spaces' = sp /\ background' = bg

\* Vec::swap_remove: the last element takes the place of the removed one.
swap_remove(seq, index) ==
    [i \in 1..Len(seq) - 1 |-> IF i = index THEN seq[Len(seq)] ELSE seq[i]]

FormctlStart(form) ==
    /\ foreground = Idle
    /\ \A i \in 1..Len(background) : background[i].form # form
    /\ start_background(sched, spaces, background, form)
    /\ UNCHANGED <<background_cursor, foreground, panic>>

\* Mutant: a Form that is not ready is not passed over.
MutantNoSkip(index) == background_cursor

\* The idle shell advances one background Form by one slice, and passes over a
\* Form that is not ready.
SkipTo(index) == index % Len(background)

poll_background ==
    /\ foreground = Idle /\ background # <<>>
    /\ LET index == (background_cursor % Len(background)) + 1
           launch == background[index]
           rest == swap_remove(background, index)
       IN
       \/ /\ ContextOf(sched, launch).state # "Ready"
          /\ background_cursor' = SkipTo(index)
          /\ UNCHANGED <<sched, spaces, background, foreground, panic>>
       \/ /\ ContextOf(sched, launch).state = "Ready"
          /\ \E result \in SliceResults(Remaining(sched, launch)) :
                /\ sched' = account_parallel_slice(sched, launch, result)
                /\ panic' = ~AccountExpected(sched, launch)
                /\ \/ /\ Stops(result)
                      /\ spaces' = Released(spaces, launch.space)
                      /\ background' = rest
                      /\ background_cursor' = index - 1
                   \/ /\ ~Stops(result)
                      /\ background' = Append(rest, launch)
                      /\ background_cursor' = index % Len(background)
                      /\ UNCHANGED spaces
          /\ UNCHANGED foreground

\* formctl on the background Form at index: the calls that only reach the
\* scheduler.
FormctlCall(index) ==
    LET id == background[index].id
        slot == SlotOf(sched, id)
    IN
    /\ foreground = Idle
    /\ \/ Pause(id, slot)
       \/ Continue(slot) \/ Wake(slot)
       \/ Wait(id, slot)
       \/ SendMessage(slot)
    /\ UNCHANGED shell

\* Mutant: terminate forgets to release the address space.
MutantSpaceKept(index) ==
    [sched |-> terminate(sched, background[index].id,
                         SlotOf(sched, background[index].id)),
     spaces |-> spaces,
     background |-> swap_remove(background, index)]

Terminated(index) ==
    [sched |-> terminate(sched, background[index].id,
                         SlotOf(sched, background[index].id)),
     spaces |-> Released(spaces, background[index].space),
     background |-> swap_remove(background, index)]
FormctlTerminate(index) ==
    /\ foreground = Idle
    /\ sched' = Terminated(index).sched
    /\ spaces' = Terminated(index).spaces
    /\ background' = Terminated(index).background
    /\ UNCHANGED <<background_cursor, foreground, panic>>
FormctlRestart(index) ==
    /\ foreground = Idle
    /\ start_background(Terminated(index).sched, Terminated(index).spaces,
                        Terminated(index).background, background[index].form)
    /\ UNCHANGED <<background_cursor, foreground, panic>>

-----------------------------------------------------------------------------
ShellInit ==
    /\ sched = dispatch_next(admit(EmptyScheduler, 0, Root))
    /\ spaces = [i \in Spaces |->
                   [assigned |-> FALSE, active |-> FALSE, form |-> NoIdentity]]
    /\ background = <<>> /\ background_cursor = 0
    /\ foreground = Idle /\ panic = FALSE

Formctl(index) ==
    FormctlCall(index) \/ FormctlTerminate(index) \/ FormctlRestart(index)

ShellStep == ~panic /\ (ExecuteSlice \/ ParallelRound \/ poll_background)

ShellNext ==
    \/ ShellStep
    \/ /\ ~panic
       /\ \/ \E form \in Documents : ExecuteDocument(form)
          \/ \E form \in Programs :
                LaunchDenied(form) \/ Execute(form) \/ FormctlStart(form)
          \/ \E left, right \in Programs : ExecuteParallel(left, right)
          \/ \E service \in Services : RunService(service)
          \/ \E index \in 1..Len(background) : Formctl(index)

ShellSpec == ShellInit /\ [][ShellNext]_lifecycle

\* The shell's thread keeps going: it runs a foreground command to its end and
\* polls while it is idle.  Commands are the user's and get no fairness.
ShellFair == ShellSpec /\ WF_lifecycle(ShellStep)

-----------------------------------------------------------------------------
(* Properties.                                                             *)

\* Every variable of the shell has its type.
ShellTypeOK ==
    /\ TypeOK
    /\ spaces \in [Spaces -> NativeSpace]
    /\ background \in Seq(LaunchType) /\ background_cursor \in Nat
    /\ foreground \in [kind : {"idle", "execute", "parallel"},
                       launches : Seq(LaunchType)]
    /\ panic \in BOOLEAN

\* No scheduler call that the shell unwraps can fail: the context is ready when
\* a slice is accounted, running when it is preempted and ready again after,
\* through budgets, pauses, dispatches and slot reuse.
NoPanic == ~panic

Launches == {background[i] : i \in 1..Len(background)} \cup
            {foreground.launches[i] : i \in 1..Len(foreground.launches)}

\* A launch the shell holds names a live context of its own Form that still has
\* timer ticks to spend; a slot is never reused under it.
LaunchesLive ==
    \A launch \in Launches : ~launch.finished =>
        /\ \E slot \in Slots : Position(sched, launch.id, slot)
        /\ ContextOf(sched, launch).identity = launch.form
        /\ ~Reusable(ContextOf(sched, launch))
        /\ Remaining(sched, launch) > 0

\* An address space is active exactly while one launch holds it, for that
\* launch's Form: no command leaks a space or gives it to two Forms.
SpacesMatchLaunches ==
    /\ \A i \in Spaces : spaces[i].active
          <=> \E launch \in Launches : launch.space = i
    /\ \A launch \in Launches : spaces[launch.space].form = launch.form
    /\ \A a, b \in Launches : a.space = b.space => a = b

\* A context that its budget stopped has used exactly its allowance of timer
\* ticks: the tick limit of a slice and its accounting agree.
BudgetBlockedIsSpent ==
    \A slot \in Slots : sched.contexts[slot].state = "BudgetBlocked" =>
        remaining_before_soft(sched.contexts[slot].budget, "CpuTicks") = 0

\* Every launch holds a live context of its own and an address space of its own,
\* the kernel does not panic, and a Form stopped by its budget has spent it.
LaunchesHold == NoPanic /\ LaunchesLive /\ SpacesMatchLaunches /\ BudgetBlockedIsSpent

\* A foreground command returns to the prompt: a Form that never exits is
\* stopped by its budget.
ForegroundReturns == foreground # Idle ~> foreground = Idle

InBackground(form, states) ==
    \E i \in 1..Len(background) :
        /\ background[i].form = form
        /\ ContextOf(sched, background[i]).state \in states

\* A ready background Form is advanced until it stops, whatever Forms are
\* paused or waiting around it while launches are swapped in the list.
ReadyFormsAdvance ==
    \A form \in Programs :
        InBackground(form, {"Ready"}) ~> ~InBackground(form, {"Ready"})

\* docs/LOOP_V9_3.md: "formctl exposes the lifecycle for background executable
\* Forms, while the shell idle path advances one interrupt-bounded slice at a
\* time": a background Form that nobody paused advances while the shell idles.
BackgroundAdvances ==
    \A form \in Programs :
        InBackground(form, {"Ready", "Running"})
            ~> ~InBackground(form, {"Ready", "Running"})
=============================================================================
