---------------------------- MODULE MCExecution ----------------------------
(***************************************************************************)
(* What decides when code runs: the scheduler of Form contexts, the job    *)
(* slots of the application processors, and the frame pacer.  They share   *)
(* no state, so one run checks them side by side: `part` says which one a  *)
(* behaviour is about, and the others keep their initial state.  The IPC   *)
(* and the budgets of the scheduler are a part of MCKernel.                *)
(***************************************************************************)
EXTENDS Scheduler, ApJobs, FramePacer

VARIABLE part

executionVars == <<sched, apVars, pacerVars, part>>

ExecutionInit ==
    /\ part \in {"scheduler", "processors", "pacer"}
    /\ Init /\ ApInit /\ PacerInit
    /\ part # "pacer" => pacer.hz = CHOOSE hz \in Rates : TRUE

\* The bounded clock of the pacer ends its behaviours, not the others'.
PacerEnds == (panicked \/ now = MaxTick) /\ UNCHANGED pacerVars

ExecutionNext ==
    \/ part = "scheduler" /\ Next /\ UNCHANGED <<apVars, pacerVars, part>>
    \/ part = "processors" /\ ApNext /\ UNCHANGED <<sched, pacerVars, part>>
    \/ part = "pacer" /\ (PacerNext \/ PacerEnds) /\ UNCHANGED <<sched, apVars, part>>

\* The fairness of each part, as its own module states it.
ExecutionSpec ==
    /\ ExecutionInit /\ [][ExecutionNext]_executionVars
    /\ WF_sched(part = "scheduler" /\ DispatchNext)
    /\ WF_apVars(part = "processors" /\ BspStep)
    /\ \A a \in Aps : WF_apVars(part = "processors" /\ ApRun(a))
    /\ \A a \in Aps \ Late : WF_apVars(part = "processors" /\ ApBoot(a))
    /\ WF_pacerVars(part = "pacer" /\ PaceLoop)

\* Work that was begun completes: a parallel command comes back to the shell, a
\* Form runs on the boot processor only when every worker has a job, and every
\* wait of the frame pacer ends (submit_slice, run_slice; display_timing.rs).
WorkCompletes == SliceReturns /\ WorkersUsed /\ PaceEnds
=============================================================================
