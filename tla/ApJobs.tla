------------------------------- MODULE ApJobs -------------------------------
(***************************************************************************)
(* Application processors: how the bootstrap processor (BSP) starts them   *)
(* (smp.rs) and how it hands them slices of Forms (form_runtime.rs,        *)
(* shell.rs).                                                              *)
(*                                                                         *)
(* The BSP writes a mailbox, sends the start-up interrupts and waits until *)
(* the processor sets its bit in ONLINE or a deadline passes.  A processor *)
(* in Late may miss the deadline: it reads the mailbox whenever it runs.   *)
(* Each job slot has an atomic state; the BSP reserves an idle slot, fills *)
(* the job and makes it ready, the processor of that slot runs it and the  *)
(* BSP joins it.  execute-parallel submits two Forms before it joins.      *)
(*                                                                         *)
(* A step is what one processor does between two accesses to memory that   *)
(* the others read: the fields of a job belong to whoever moved its state. *)
(***************************************************************************)
EXTENDS Integers, Sequences, FiniteSets

CONSTANTS CPUS,       \* discovered processors; the BSP is 0
          Late,       \* processors that may miss the start-up deadline
          Forms,
          NONE,       \* no Form
          AP_WRAP     \* number of values of NEXT_AP (2^8)

CpuSlots == 0..CPUS - 1
Aps == 1..CPUS - 1

ASSUME ApAssumption ==
    /\ CPUS \in Nat \ {0}
    /\ Late \subseteq Aps
    /\ NONE \notin Forms
    /\ AP_WRAP \in Nat \ {0}

Reasons == {"Preempted", "BudgetExhausted", "Exited", "Fault"}

VARIABLES mailbox,    \* AP_MAILBOX_SLOT
          online,     \* the slots whose bit is set in ONLINE
          ap,         \* ap[a]: where the code of processor a is
          ap_slot,    \* ap_slot[a]: the slot a was given (and its stack)
          state,      \* AP_JOB_STATE
          job,        \* AP_JOBS: [form, reason]
          next_ap,    \* NEXT_AP
          bsp,        \* [pc, slot]: where the code of the BSP is
          todo,       \* what is left of the command: <<call, Form>>
          pending,    \* pending[f]: slot of the PendingSlice of f, or 0
          active,     \* active[c]: the Form that processor c is running
          ended,      \* ended[f]: how the last slice of f ended
          returned    \* returned[f]: how the command was told it ended

start == <<mailbox, online, ap_slot>>
jobs == <<state, job, next_ap>>
slices == <<active, ended, returned>>
apVars == <<start, ap, jobs, bsp, todo, pending, slices>>

online_count == Cardinality(online)

----------------------------------------------------------------------------
(* Start-up *)

ApInit ==
    /\ mailbox = 0 /\ online = {0}
    /\ ap = [a \in Aps |-> "Off"] /\ ap_slot = [a \in Aps |-> 0]
    /\ state = [s \in CpuSlots |-> "IDLE"]
    /\ job = [s \in CpuSlots |-> [form |-> NONE, reason |-> 0]]
    /\ next_ap = 1 % AP_WRAP
    /\ bsp = [pc |-> "start", slot |-> 1]
    /\ todo = << >> /\ pending = [f \in Forms |-> 0]
    /\ active = [c \in CpuSlots |-> NONE]
    /\ ended = [f \in Forms |-> "None"] /\ returned = [f \in Forms |-> "None"]

\* The BSP starts the processor of the next slot, or opens the shell.
StartAp ==
    /\ bsp.pc = "start" /\ bsp.slot < CPUS
    /\ mailbox' = bsp.slot
    /\ ap' = [ap EXCEPT ![bsp.slot] = "Started"]
    /\ bsp' = [bsp EXCEPT !.pc = "wait"]
    /\ UNCHANGED <<online, ap_slot, jobs, todo, pending, slices>>

Answered(slot) == slot \in online \/ slot \in Late

\* The wait ends when the bit is set, or at the deadline.
EndWait ==
    /\ bsp.pc = "wait" /\ Answered(bsp.slot)
    /\ bsp' = [pc |-> "start", slot |-> bsp.slot + 1]
    /\ UNCHANGED <<start, ap, jobs, todo, pending, slices>>

Started ==
    /\ bsp.pc = "start" /\ bsp.slot = CPUS
    /\ bsp' = [pc |-> "shell", slot |-> 0]
    /\ UNCHANGED <<start, ap, jobs, todo, pending, slices>>

\* The trampoline takes the slot and the stack from the mailbox.
ap_trampoline(a) ==
    /\ ap[a] = "Started"
    /\ ap' = [ap EXCEPT ![a] = "Entry"]
    /\ ap_slot' = [ap_slot EXCEPT ![a] = mailbox]
    /\ UNCHANGED <<mailbox, online, jobs, bsp, todo, pending, slices>>

ap_entry(a) ==
    /\ ap[a] = "Entry"
    /\ ap' = [ap EXCEPT ![a] = "Loop"]
    /\ online' = online \cup {ap_slot[a]}
    /\ UNCHANGED <<mailbox, ap_slot, jobs, bsp, todo, pending, slices>>

----------------------------------------------------------------------------
(* The processor's side of a job *)

encode_reason(reason) ==
    CASE reason = "Preempted" -> 1
      [] reason = "BudgetExhausted" -> 2
      [] reason = "Exited" -> 3
      [] reason = "Fault" -> 4

decode_reason(code) ==
    CASE code = 1 -> "Preempted"
      [] code = 2 -> "BudgetExhausted"
      [] code = 3 -> "Exited"
      [] OTHER -> "Fault"

Serves(slot) == slot # 0 /\ slot < online_count

\* run_ap_work takes a ready job ...
TakeJob(a) ==
    /\ ap[a] = "Loop"
    /\ Serves(ap_slot[a])
    /\ state[ap_slot[a]] = "READY"
    /\ state' = [state EXCEPT ![ap_slot[a]] = "RUNNING"]
    /\ active' = [active EXCEPT ![a] = job[ap_slot[a]].form]
    /\ ap' = [ap EXCEPT ![a] = "Form"]
    /\ UNCHANGED <<start, job, next_ap, bsp, todo, pending, ended, returned>>

\* ... runs the Form until the slice ends and writes the result ...
EndSlice(a) ==
    /\ ap[a] = "Form"
    /\ \E reason \in Reasons :
          /\ ended' = [ended EXCEPT ![active[a]] = reason]
          /\ job' = [job EXCEPT ![ap_slot[a]].reason = encode_reason(reason)]
    /\ active' = [active EXCEPT ![a] = NONE]
    /\ ap' = [ap EXCEPT ![a] = "Done"]
    /\ UNCHANGED <<start, state, next_ap, bsp, todo, pending, returned>>

\* Mutant: the slot is made ready again.
MutantReadyAgain(a) ==
    /\ ap[a] = "Done"
    /\ state' = [state EXCEPT ![ap_slot[a]] = "READY"]
    /\ ap' = [ap EXCEPT ![a] = "Loop"]
    /\ UNCHANGED <<start, job, next_ap, bsp, todo, pending, slices>>

\* ... and publishes it.
PublishDone(a) ==
    /\ ap[a] = "Done"
    /\ state' = [state EXCEPT ![ap_slot[a]] = "DONE"]
    /\ ap' = [ap EXCEPT ![a] = "Loop"]
    /\ UNCHANGED <<start, job, next_ap, bsp, todo, pending, slices>>

----------------------------------------------------------------------------
(* The BSP's side *)

\* run_slice of one Form (execute, background and service slices), or one
\* round of execute-parallel: both submitted, the second joined first.  (A
\* round in which one of the two has finished is OneSlice of the other.)
OneSlice(f) == << <<"finish", f>> >>
ParallelRound(l, r) == << <<"submit", l>>, <<"submit", r>>, <<"finish", r>>, <<"finish", l>> >>

Command ==
    /\ bsp.pc = "shell"
    /\ \/ \E f \in Forms : todo' = OneSlice(f)
       \/ /\ online_count >= 2
          /\ \E l, r \in Forms : l # r /\ todo' = ParallelRound(l, r)
    /\ bsp' = [bsp EXCEPT !.pc = "call"]
    /\ ended' = [f \in Forms |-> "None"] /\ returned' = [f \in Forms |-> "None"]
    /\ UNCHANGED <<start, ap, jobs, pending, active>>

Form == Head(todo)[2]
Submitting == todo # << >> /\ pending[Form] = 0

workers == online_count - 1

Advanced == (next_ap + 1) % AP_WRAP
Searched(k) == 1 + ((next_ap + k) % workers)

\* The first idle slot, searching every worker from the one after the last.
IdleSlot(s) ==
    \E k \in 0..workers - 1 :
       /\ s = Searched(k) /\ state[s] = "IDLE"
       /\ \A earlier \in 0..k - 1 : state[Searched(earlier)] # "IDLE"

\* Mutant: the slot is made ready before the job is filled in.
MutantReadyFirst(s) == state' = [state EXCEPT ![s] = "READY"]

\* submit_ap_slice reserves a slot ...
Reserved(s) == state' = [state EXCEPT ![s] = "RESERVED"]
Reserve ==
    /\ bsp.pc = "call" /\ Submitting /\ workers > 0
    /\ \E s \in 1..workers : /\ IdleSlot(s)
                             /\ Reserved(s)
                             /\ bsp' = [pc |-> "fill", slot |-> s]
    /\ next_ap' = Advanced
    /\ UNCHANGED <<start, ap, job, todo, pending, slices>>

\* ... fills in the job and makes it ready ...
Submit ==
    /\ bsp.pc = "fill"
    /\ job' = [job EXCEPT ![bsp.slot].form = Form]
    /\ state' = [state EXCEPT ![bsp.slot] = "READY"]
    /\ pending' = [pending EXCEPT ![Form] = bsp.slot]
    /\ todo' = IF Head(todo)[1] = "submit" THEN Tail(todo) ELSE todo
    /\ bsp' = [pc |-> "call", slot |-> 0]
    /\ UNCHANGED <<start, ap, next_ap, slices>>

\* ... or finds none: a submission is given up and run_slice runs the Form on
\* the BSP.
NoIdleSlot ==
    /\ bsp.pc = "call" /\ Submitting
    /\ \A s \in 1..workers : ~IdleSlot(s)
    /\ next_ap' = IF workers > 0 THEN Advanced ELSE next_ap
    /\ IF Head(todo)[1] = "submit"
         THEN todo' = Tail(todo) /\ UNCHANGED <<bsp, active>>
         ELSE /\ bsp' = [bsp EXCEPT !.pc = "local"]
              /\ active' = [active EXCEPT ![0] = Form]
              /\ UNCHANGED todo
    /\ UNCHANGED <<start, ap, state, job, pending, ended, returned>>

EndLocalSlice ==
    /\ bsp.pc = "local"
    /\ \E reason \in Reasons :
          /\ ended' = [ended EXCEPT ![Form] = reason]
          /\ returned' = [returned EXCEPT ![Form] = reason]
    /\ active' = [active EXCEPT ![0] = NONE]
    /\ todo' = Tail(todo)
    /\ bsp' = [bsp EXCEPT !.pc = "call"]
    /\ UNCHANGED <<start, ap, jobs, pending>>

\* join_ap_slice spins until the job is done and frees the slot.
JobDone(s) == state[s] = "DONE"
Join ==
    /\ bsp.pc = "call" /\ todo # << >> /\ pending[Form] # 0
    /\ JobDone(pending[Form])
    /\ returned' = [returned EXCEPT ![Form] = decode_reason(job[pending[Form]].reason)]
    /\ state' = [state EXCEPT ![pending[Form]] = "IDLE"]
    /\ pending' = [pending EXCEPT ![Form] = 0]
    /\ todo' = Tail(todo)
    /\ UNCHANGED <<start, ap, job, next_ap, bsp, active, ended>>

Return ==
    /\ bsp.pc = "call" /\ todo = << >>
    /\ bsp' = [bsp EXCEPT !.pc = "shell"]
    /\ UNCHANGED <<start, ap, jobs, todo, pending, slices>>

BspStep ==
    \/ StartAp \/ EndWait \/ Started
    \/ Reserve \/ Submit \/ NoIdleSlot \/ EndLocalSlice \/ Join \/ Return
ApBoot(a) == ap_trampoline(a) \/ ap_entry(a)
ApRun(a) == TakeJob(a) \/ EndSlice(a) \/ PublishDone(a)

ApNext == BspStep \/ Command \/ \E a \in Aps : ApBoot(a) \/ ApRun(a)

ApSpec == ApInit /\ [][ApNext]_apVars

\* Every processor keeps executing; a slice ends because the timer stops it.
\* Only a processor in Late may never answer the start-up interrupt.
ApFairSpec ==
    /\ ApSpec
    /\ WF_apVars(BspStep)
    /\ \A a \in Aps : WF_apVars(ApRun(a))
    /\ \A a \in Aps \ Late : WF_apVars(ApBoot(a))

----------------------------------------------------------------------------
(* Properties *)

\* The states of the job slots, the code of each processor and the counter
\* NEXT_AP stay within their types; the counter wraps.
ApTypeOK ==
    /\ mailbox \in CpuSlots /\ online \subseteq CpuSlots
    /\ ap \in [Aps -> {"Off", "Started", "Entry", "Loop", "Form", "Done"}]
    /\ ap_slot \in [Aps -> CpuSlots]
    /\ state \in [CpuSlots -> {"IDLE", "RESERVED", "READY", "RUNNING", "DONE"}]
    /\ job \in [CpuSlots -> [form : Forms \cup {NONE}, reason : 0..4]]
    /\ next_ap \in 0..AP_WRAP - 1
    /\ bsp \in [pc : {"start", "wait", "shell", "call", "fill", "local"}, slot : 0..CPUS]
    /\ pending \in [Forms -> CpuSlots]
    /\ active \in [CpuSlots -> Forms \cup {NONE}]

\* Each processor that came up has a slot, and so a stack, of its own: the
\* mailbox is not rewritten before the processor it is meant for has read it
\* (smp.rs initialize).
SlotsDistinct ==
    \A a, b \in Aps :
       /\ ap[a] \in {"Entry", "Loop", "Form", "Done"}
       /\ ap[b] \in {"Entry", "Loop", "Form", "Done"}
       /\ ap_slot[a] = ap_slot[b]
       => a = b

\* A Form never runs on two processors at once: its page tables and saved
\* frame are borrowed by one PendingSlice or by the BSP.
FormOnOneCpu ==
    \A c, d \in CpuSlots : active[c] # NONE /\ active[c] = active[d] => c = d

\* The result a command gets for a Form is how that Form's slice ended, and no
\* slot is left reserved, running or done when the command returns.
ResultsAreOwn ==
    /\ \A f \in Forms : returned[f] # "None" => returned[f] = ended[f]
    /\ bsp.pc = "shell" => \A s \in CpuSlots : state[s] = "IDLE"

\* A submission is given up, and a Form run on the BSP, only when every worker
\* that is online has a slice of the same command: execute-parallel hands both
\* Forms over before it joins either (the search of submit_ap_slice).
WorkersUsed ==
    [][NoIdleSlot => \A s \in 1..workers : \E f \in Forms : pending[f] = s]_apVars

\* A command that runs a slice returns: run_slice is "one interrupt-bounded
\* slice" (form_runtime.rs).
SliceReturns == (bsp.pc = "call") ~> (bsp.pc = "shell")

\* Parallel slices belong to the command that asked for them: the processors
\* have job slots and stacks of their own, a Form runs on one processor, and a
\* command is told how its own slices ended and leaves no slot in use.
SlicesAreOwn == SlotsDistinct /\ FormOnOneCpu /\ ResultsAreOwn
=============================================================================
