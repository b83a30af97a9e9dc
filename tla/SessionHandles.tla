--------------------------- MODULE SessionHandles ---------------------------
(***************************************************************************)
(* The Handles of a shell session (kernel/src/shell.rs) over the broker of *)
(* module Capability: the shell's own table, the records it commits, what  *)
(* a login makes of them, and the Forms and relationships that reclaim may *)
(* remove only when no Handle and no relationship needs them.              *)
(*                                                                         *)
(* The clock is early: no Handle expires.  One relationship kind and the   *)
(* Dimension Stable are modelled; the table of relationships is the set of *)
(* its entries.  A login with or without network stands for a boot too.    *)
(***************************************************************************)
EXTENDS Naturals, FiniteSets, SequencesExt, Tables

CONSTANTS Programs,          \* Forms a user grants, executes and reclaims
          BROKER_HANDLES,    \* MAX_HANDLES of the broker
          SHELL_HANDLES,     \* MAX_HANDLES of the shell
          MAX_RELATIONSHIPS,
          MaxHandleId        \* u32::MAX

VARIABLES session_broker,    \* CapabilityBroker
          handles,   \* the shell's table of Handles
          registered,\* FINs of the Forms in the shell's registry
          relations, \* RelationshipGraph: pairs of FINs
          durable,   \* the last published [handles, registered, relations]
          authority, \* of the session
          behind,    \* the last commit of the shell has failed
          lapsed,    \* some commit of the shell has failed
          fresh      \* the last step was a login or a boot

sessionVars == <<session_broker, handles, registered, relations, durable, authority,
                 behind, lapsed, fresh>>

Fixed == {"Root", "Network", "FormABI"}
Fins == Fixed \cup Programs

B == INSTANCE Capability WITH
       Requesters <- Fins, Targets <- Fins, Dimensions <- {"Stable"}, ZERO <- "none",
       Cfcs <- {"cfc"}, Cfc <- "cfc", Records <- {},
       OperationBits <- {"READ", "EXECUTE", "CONFIGURE", "NETWORK"},
       MAX_HANDLES <- BROKER_HANDLES, MAX_SEALS <- Cardinality(Programs),
       MaxId <- MaxHandleId, MaxTick <- 1, broker <- session_broker

-----------------------------------------------------------------------------
(* A session's first Handles.                                              *)

\* issue_for: the broker with a new Handle, if it may be issued.
Issued(b, requester, role, target, operations) ==
    {B!issue_for(b, k, requester, target, "Stable", operations, 1) :
       k \in {n \in 0..BROKER_HANDLES :
                /\ B!CanIssue(b, requester, role, target, "Stable", operations)
                /\ B!allocate_id(b, n)}}
Newest(b) == Last(b.handles)

BootOperations(role) ==
    {"READ"} \cup (IF role = "Guest" THEN {} ELSE {"EXECUTE"})
             \cup (IF role = "Operator" THEN {"CONFIGURE"} ELSE {})

Boot == 1
Net == 2
WithBoot(role) ==
    {[broker |-> b, handles |-> Put(EmptyTable, Boot, Newest(b))] :
       b \in Issued(B!NewBroker, "Root", role, "Root", BootOperations(role))}
WithNetwork(s, role) ==
    LET issued == Issued(s.broker, "Root", role, "Network", {"NETWORK"})
    IN  IF issued = {} THEN {s}
        ELSE {[broker |-> b, handles |-> Put(s.handles, Net, Newest(b))] : b \in issued}
session_capabilities(role, network) ==
    UNION {IF network THEN WithNetwork(s, role) ELSE {s} : s \in WithBoot(role)}

\* Slots for Handles other than the two the session starts with.
GrantSlots(table) == {i \in Free(table, SHELL_HANDLES) : i > Net}
FirstGrantSlot(table) ==
    {i \in GrantSlots(table) : \A j \in GrantSlots(table) : i <= j}

\* Mutant: a revoked record is left out, and its id is free again.
MutantDropsRevoked(s, record) ==
    IF record.revoked \/ ~B!CanRestore(s.broker, record) THEN s
    ELSE [broker |-> B!restore(s.broker, record),
          handles |-> IF FirstGrantSlot(s.handles) = {} THEN s.handles
                      ELSE Put(s.handles,
                               CHOOSE i \in FirstGrantSlot(s.handles) : TRUE, record)]
RestoreRecord(s, record) ==
    IF ~B!CanRestore(s.broker, record) THEN s
    ELSE [broker |-> B!restore(s.broker, record),
          handles |-> IF FirstGrantSlot(s.handles) = {} THEN s.handles
                      ELSE Put(s.handles,
                               CHOOSE i \in FirstGrantSlot(s.handles) : TRUE, record)]

\* restore_capabilities
Restored(s, records) == FoldLeft(RestoreRecord, s, records)

-----------------------------------------------------------------------------
(* Commits of the shell.                                                   *)

\* handles.iter().skip(2).flatten()
GrantRecords(table) ==
    LET slots == SetToSortSeq({i \in DOMAIN table : i > Net}, <)
    IN  [n \in DOMAIN slots |-> table[slots[n]]]

\* commit_action, done or failed, at the end of a command.
CommitSession ==
    \E ok \in BOOLEAN :
       /\ behind' = ~ok /\ lapsed' = (lapsed \/ ~ok)
       /\ durable' = IF ok THEN [handles |-> GrantRecords(handles'),
                                 registered |-> registered', relations |-> relations']
                     ELSE durable

-----------------------------------------------------------------------------
(* Commands.                                                               *)

\* kernel_control_allowed: the boot Handle must still authorize.
Allowed(operation) ==
    B!authorize(session_broker, handles[Boot].id, "Root", "Stable", {operation}, 0)

LoginSession(role, network) ==
    /\ authority' = role
    /\ \E s \in session_capabilities(role, network) :
         LET restored == Restored(s, durable.handles) IN
         /\ session_broker' = restored.broker
         /\ handles' = restored.handles
    /\ fresh' = TRUE
    /\ UNCHANGED <<registered, relations, durable, behind, lapsed>>

\* A boot reads the Forms and relationships back as well.
RebootSession(role, network) ==
    /\ authority' = role
    /\ registered' = durable.registered /\ relations' = durable.relations
    /\ behind' = FALSE
    /\ \E s \in session_capabilities(role, network) :
         LET restored == Restored(s, durable.handles) IN
         /\ session_broker' = restored.broker
         /\ handles' = restored.handles
    /\ fresh' = TRUE
    /\ UNCHANGED <<durable, lapsed>>

Grant(target, operation) ==
    /\ authority = "Operator" /\ Allowed("CONFIGURE")
    /\ target \in registered
    /\ \E b \in Issued(session_broker, "Root", authority, target, {operation}) :
         /\ session_broker' = b
         /\ IF FirstGrantSlot(handles) = {}
            THEN UNCHANGED <<handles, registered, relations, durable, behind, lapsed>>
            ELSE /\ \E i \in FirstGrantSlot(handles) : handles' = Put(handles, i, Newest(b))
                 /\ UNCHANGED <<registered, relations>>
                 /\ CommitSession
    /\ UNCHANGED authority

Revoked(id) ==
    [i \in DOMAIN handles |->
       IF handles[i].id = id THEN [handles[i] EXCEPT !.revoked = TRUE] ELSE handles[i]]

RevokeHandle(id) ==
    /\ authority = "Operator" /\ Allowed("CONFIGURE")
    /\ B!Known(session_broker, id)
    /\ session_broker' = B!Mark(session_broker, B!Cascade(session_broker, id))
    /\ handles' = Revoked(id)
    /\ UNCHANGED <<registered, relations, authority>>
    /\ CommitSession

\* find_authorized: the Form already has such a Handle.
Has(b, requester, target, operation) ==
    \E i \in DOMAIN b.handles :
       /\ b.handles[i].requester = requester
       /\ B!Authorizes(b.handles[i], target, "Stable", {operation}, 0)

Delegated(b, parent, requester) ==
    {B!delegate(b, k, parent, requester, {"EXECUTE"}, 0) :
       k \in {n \in 0..BROKER_HANDLES :
                /\ B!CanDelegate(b, parent, requester, {"EXECUTE"}, 0, 0)
                /\ B!allocate_id(b, n)}}

Sealed(b, form) ==
    IF B!is_sealed(b, form, "Stable") \/ ~B!CanSeal(b, form, "Stable") THEN b
    ELSE B!seal_context(b, form, "Stable")

\* execute and execute-parallel: an Execute Handle of the table is handed
\* down to the Form, a Log Handle is issued to it and its context is sealed.
\* Each stage may be refused and leaves what was done before.
Launch(form) ==
    LET usable == {i \in DOMAIN handles :
                     /\ ~handles[i].revoked /\ handles[i].target = form
                     /\ "EXECUTE" \in handles[i].operations}
    IN  /\ form \in registered
        /\ \E i \in usable :
             /\ \A j \in usable : i <= j
             /\ B!authorize(session_broker, handles[i].id, form, "Stable", {"EXECUTE"}, 0)
             /\ LET parent == CHOOSE h \in Range(session_broker.handles) : h.id = handles[i].id
                    owned == IF Has(session_broker, form, form, "EXECUTE") THEN {session_broker}
                             ELSE Delegated(session_broker, parent, form)
                    logged == UNION {IF Has(b, form, "FormABI", "READ") THEN {b}
                                     ELSE Issued(b, form, authority, "FormABI", {"READ"}) :
                                       b \in owned}
                IN  session_broker' \in IF logged # {} THEN {Sealed(b, form) : b \in logged}
                                ELSE owned
        /\ UNCHANGED <<handles, registered, relations, durable, authority, behind, lapsed>>

\* RelationshipGraph::relate and remove, by the commands relate and unrelate.
Relate(source, target) ==
    /\ authority # "Guest" /\ Allowed("EXECUTE")
    /\ source # target /\ {source, target} \subseteq registered
    /\ <<source, target>> \notin relations
    /\ Cardinality(relations) < MAX_RELATIONSHIPS
    /\ relations' = relations \cup {<<source, target>>}
    /\ UNCHANGED <<session_broker, handles, registered, authority>>
    /\ CommitSession

Unrelate(source, target) ==
    /\ authority # "Guest" /\ Allowed("EXECUTE")
    /\ <<source, target>> \in relations
    /\ relations' = relations \ {<<source, target>>}
    /\ UNCHANGED <<session_broker, handles, registered, authority>>
    /\ CommitSession

involves(form) == \E r \in relations : form \in {r[1], r[2]}

InHandles(form) ==
    \E i \in DOMAIN handles :
       ~handles[i].revoked /\ form \in {handles[i].target, handles[i].requester}

ReclaimForm(form) ==
    /\ authority = "Operator" /\ Allowed("CONFIGURE")
    /\ form \in registered \cap Programs
    /\ ~involves(form) /\ ~InHandles(form)
    /\ registered' = registered \ {form}
    /\ UNCHANGED <<session_broker, handles, relations, authority>>
    /\ CommitSession

SessionInit ==
    \E s \in session_capabilities("Operator", TRUE) :
       /\ session_broker = s.broker /\ handles = s.handles
       /\ registered = Fins /\ relations = {}
       /\ durable = [handles |-> <<>>, registered |-> Fins, relations |-> {}]
       /\ authority = "Operator" /\ behind = FALSE /\ lapsed = FALSE /\ fresh = TRUE

Command ==
    \/ Grant("Network", "NETWORK")
    \/ \E form \in Programs : Grant(form, "EXECUTE")
    \/ \E id \in {session_broker.handles[i].id : i \in DOMAIN session_broker.handles} : RevokeHandle(id)
    \/ \E form \in Programs : Launch(form) \/ ReclaimForm(form)
    \/ \E source, target \in {"Root"} \cup Programs :
         Relate(source, target) \/ Unrelate(source, target)

SessionNext ==
    \/ \E role \in B!Authorities, network \in BOOLEAN :
         LoginSession(role, network) \/ RebootSession(role, network)
    \/ Command /\ fresh' = FALSE

SessionSpec == SessionInit /\ [][SessionNext]_sessionVars

-----------------------------------------------------------------------------
(* Properties.                                                             *)

\* The shell's table and the broker agree: every listed Handle is the broker's
\* Handle of that id, revoked in one when it is in the other, through grants,
\* cascading revocations, launches, logins and boots (grant, revoke,
\* restore_capabilities).
TableMatchesBroker ==
    \A i \in DOMAIN handles : \E j \in DOMAIN session_broker.handles :
       session_broker.handles[j] = handles[i]

\* A Handle that Root holds and the table does not list was granted when the
\* table was full (grant).
UnlistedOnlyWhenFull ==
    \A j \in DOMAIN session_broker.handles :
       session_broker.handles[j].requester = "Root"
       => \/ GrantSlots(handles) = {}
          \/ \E i \in DOMAIN handles : handles[i].id = session_broker.handles[j].id

\* A grant or a revocation the shell lists is durable, unless the commit that
\* ended the command has failed (grant, revoke, commit_action).
ListedIsDurable ==
    ~behind => \A i \in DOMAIN handles : i > Net => handles[i] \in Range(durable.handles)

\* A login brings back every stored Handle, with its revocation, except one
\* whose id the session's own first Handles have taken (restore_capabilities).
StoredHandlesReturn ==
    fresh => \A n \in DOMAIN durable.handles :
       \/ durable.handles[n] \in Range(handles)
       \/ \E i \in DOMAIN handles \cap {Boot, Net} : handles[i].id = durable.handles[n].id

\* No relationship names a Form that has been reclaimed, however commands,
\* failed commits, logins and boots alternate; neither does a usable listed
\* Handle, unless a login has brought back one whose revocation was not
\* committed (reclaim).
NothingDangles ==
    /\ \A r \in relations : {r[1], r[2]} \subseteq registered
    /\ ~lapsed => \A i \in DOMAIN handles :
                    ~handles[i].revoked => handles[i].target \in registered

\* The Handles a session lists, the broker has and the disk keeps are the same
\* ones, through launches, revocations, reclaims and restarts.
HandlesKept ==
    /\ TableMatchesBroker /\ UnlistedOnlyWhenFull /\ ListedIsDurable
    /\ StoredHandlesReturn /\ NothingDangles
=============================================================================
