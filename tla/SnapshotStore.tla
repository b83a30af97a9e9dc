---------------------------- MODULE SnapshotStore ----------------------------
(***************************************************************************)
(* What the ExpFS store promises its callers: a database whose state       *)
(* changes in one atomic step per commit.  `durable` is the snapshot the   *)
(* next boot loads, `visible` the one the running kernel serves, `pending` *)
(* the one being committed.  A commit that reports an error may or may not *)
(* have become durable, and stays in doubt until the next write withdraws  *)
(* it or a reboot adopts it.                                               *)
(***************************************************************************)
CONSTANTS Snapshots, NoSnapshot

VARIABLES durable, visible, pending, up

vars == <<durable, visible, pending, up>>

Init ==
    /\ durable = NoSnapshot /\ visible = NoSnapshot
    /\ pending = NoSnapshot /\ up = FALSE

Boot ==
    /\ ~up /\ up' = TRUE
    /\ visible' = durable
    /\ UNCHANGED <<durable, pending>>

Begin ==
    /\ up /\ pending = NoSnapshot
    /\ pending' \in Snapshots
    /\ UNCHANGED <<durable, visible, up>>

\* The commit point.
Publish ==
    /\ pending # NoSnapshot
    /\ durable' = pending
    /\ UNCHANGED <<visible, pending, up>>

\* The slot of an earlier commit that failed in doubt is reused.
Withdraw ==
    /\ pending # NoSnapshot
    /\ durable' = visible
    /\ UNCHANGED <<visible, pending, up>>

\* A commit is acknowledged only once it is durable.
Acknowledge ==
    /\ pending # NoSnapshot /\ durable = pending
    /\ visible' = pending /\ pending' = NoSnapshot
    /\ UNCHANGED <<durable, up>>

\* A restore is acknowledged by rebooting.
AcknowledgeAndReboot ==
    /\ pending # NoSnapshot /\ durable = pending
    /\ visible' = NoSnapshot /\ pending' = NoSnapshot /\ up' = FALSE
    /\ UNCHANGED durable

Fail ==
    /\ pending # NoSnapshot /\ pending' = NoSnapshot
    /\ durable' \in {durable, visible, pending}
    /\ UNCHANGED <<visible, up>>

Crash ==
    /\ up /\ up' = FALSE
    /\ visible' = NoSnapshot /\ pending' = NoSnapshot
    /\ durable' \in {durable} \cup IF pending = NoSnapshot THEN {}
                                   ELSE {visible, pending}

Next ==
    \/ Boot \/ Begin \/ Publish \/ Withdraw
    \/ Acknowledge \/ AcknowledgeAndReboot \/ Fail \/ Crash

Spec == Init /\ [][Next]_vars
==============================================================================
