----------------------------- MODULE Capability -----------------------------
(***************************************************************************)
(* The capability broker of one CFC (expos-core capability.rs): the table  *)
(* of Form Handles and the table of ExpSeals.  A Handle is issued from a   *)
(* session's authority, derived from another Handle, or restored from a    *)
(* stored record; it is revoked together with everything derived from it.  *)
(*                                                                         *)
(* No operation empties a slot of either table, so the first free slot is  *)
(* always the one after the last used and the tables are sequences.        *)
(*                                                                         *)
(* A set of operation bits is a set.  The 32-bit id counter wraps at       *)
(* MaxId, as u32 does at u32::MAX.  The caller's clock is an input.        *)
(***************************************************************************)
EXTENDS Integers, Sequences

CONSTANTS Requesters,    \* FINs of the Forms that hold Handles
          Targets,       \* FINs that Handles give access to
          Dimensions,    \* FINs of Dimensions
          ZERO,          \* Fin::ZERO
          Cfcs,          \* identities of CFCs
          Cfc,           \* the CFC of this broker
          OperationBits, \* the bits of Operations
          Records,       \* Handles that storage may hold when a session starts
          MAX_HANDLES,
          MAX_SEALS,
          MaxId,         \* u32::MAX
          MaxTick        \* u64::MAX

Operations == SUBSET OperationBits
Ids == 1..MaxId
Ticks == 0..MaxTick
Authorities == {"Operator", "Power", "Guest"}

FormHandle ==
    [id : 0..MaxId, parent_id : 0..MaxId, cfc : Cfcs, requester : Requesters,
     target : Targets, dimension : Dimensions, operations : Operations,
     valid_until_tick : Ticks, revoked : BOOLEAN]

ExpSeal ==
    [requester : Requesters, dimension : Dimensions, root_handle_limit : 0..MaxId]

ASSUME CapabilityAssumption ==
    /\ Cfc \in Cfcs
    /\ Records \subseteq FormHandle
    /\ MAX_HANDLES \in Nat \ {0}
    /\ MAX_SEALS \in Nat
    /\ MaxId \in Nat /\ MaxId > MAX_HANDLES
    /\ MaxTick \in Nat

VARIABLE broker  \* [handles, seals, next_id]

BrokerType ==
    [handles : Seq(FormHandle), seals : Seq(ExpSeal), next_id : Ids]

----------------------------------------------------------------------------
(* Lookup and authorization *)

At(b, i, id) == i \in DOMAIN b.handles /\ b.handles[i].id = id
Known(b, id) == \E i \in DOMAIN b.handles : b.handles[i].id = id

Authorizes(h, target, dimension, operation, tick) ==
    /\ ~h.revoked
    /\ tick <= h.valid_until_tick
    /\ h.target = target /\ h.dimension = dimension
    /\ operation \subseteq h.operations

authorize(b, id, target, dimension, operation, tick) ==
    \E i \in DOMAIN b.handles :
       At(b, i, id) /\ Authorizes(b.handles[i], target, dimension, operation, tick)

is_sealed(b, requester, dimension) ==
    \E i \in DOMAIN b.seals : /\ b.seals[i].requester = requester
                              /\ b.seals[i].dimension = dimension

----------------------------------------------------------------------------
(* Ids: the k-th candidate counted from next_id, never zero *)

Candidate(b, k) == ((b.next_id - 1 + k) % MaxId) + 1
allocate_id(b, k) ==
    /\ k \in 0..MAX_HANDLES
    /\ ~Known(b, Candidate(b, k))
    /\ \A earlier \in 0..k - 1 : Known(b, Candidate(b, earlier))

\* The Handle takes the k-th candidate as its id and the next free slot.
Publish(b, k, handle) ==
    [b EXCEPT !.handles = Append(@, [handle EXCEPT !.id = Candidate(b, k)]),
              !.next_id = Candidate(b, k + 1)]

----------------------------------------------------------------------------
(* The operations of the broker *)

NewBroker == [handles |-> << >>, seals |-> << >>, next_id |-> 1]

Permitted(authority, operations) ==
    \/ authority = "Operator"
    \/ authority = "Power" /\ "RETIRE" \notin operations /\ "CONFIGURE" \notin operations
    \/ authority = "Guest" /\ operations # {} /\ operations \subseteq {"READ"}

\* Mutant: the seal is not consulted.
MutantUnsealed(b, requester, authority, target, dimension, operations) ==
    /\ Len(b.handles) < MAX_HANDLES
    /\ Permitted(authority, operations)
    /\ requester # ZERO /\ target # ZERO /\ dimension # ZERO
    /\ operations # {}
CanIssue(b, requester, authority, target, dimension, operations) ==
    /\ Len(b.handles) < MAX_HANDLES
    /\ ~is_sealed(b, requester, dimension)
    /\ Permitted(authority, operations)
    /\ requester # ZERO /\ target # ZERO /\ dimension # ZERO
    /\ operations # {}

issue_for(b, k, requester, target, dimension, operations, until) ==
    Publish(b, k, [id |-> 0, parent_id |-> 0, cfc |-> Cfc,
                   requester |-> requester, target |-> target,
                   dimension |-> dimension, operations |-> operations,
                   valid_until_tick |-> until, revoked |-> FALSE])

\* What a child may have: no more than the parent, and not all of it.
Narrower(parent, operations, until) ==
    /\ operations \subseteq parent.operations
    /\ until <= parent.valid_until_tick
    /\ ~(operations = parent.operations /\ until = parent.valid_until_tick)

CanDelegate(b, parent, requester, operations, until, tick) ==
    /\ Len(b.handles) < MAX_HANDLES
    /\ is_sealed(b, requester, parent.dimension) => requester = parent.requester
    /\ Authorizes(parent, parent.target, parent.dimension, operations, tick)
    /\ requester # ZERO /\ operations # {}
    /\ Narrower(parent, operations, until)

delegate(b, k, parent, requester, operations, until) ==
    Publish(b, k, [parent EXCEPT !.parent_id = parent.id, !.cfc = Cfc,
                                 !.requester = requester,
                                 !.operations = operations,
                                 !.valid_until_tick = until,
                                 !.revoked = FALSE])

CanSeal(b, requester, dimension) ==
    /\ requester # ZERO /\ dimension # ZERO
    /\ ~is_sealed(b, requester, dimension)
    /\ Len(b.seals) < MAX_SEALS

seal_context(b, requester, dimension) ==
    [b EXCEPT !.seals = Append(@, [requester |-> requester,
                                   dimension |-> dimension,
                                   root_handle_limit |-> b.next_id - 1])]

\* Mutant: a stored Handle comes back below a revoked one.
MutantRestorable(b, handle) ==
    /\ handle.cfc = Cfc
    /\ handle.id # 0 /\ handle.operations # {}
    /\ handle.requester # ZERO /\ handle.target # ZERO /\ handle.dimension # ZERO
    /\ ~Known(b, handle.id)
    /\ handle.parent_id # 0 =>
         \E i \in DOMAIN b.handles :
            LET parent == b.handles[i] IN
            /\ parent.id = handle.parent_id
            /\ parent.cfc = handle.cfc
            /\ parent.target = handle.target /\ parent.dimension = handle.dimension
            /\ Narrower(parent, handle.operations, handle.valid_until_tick)
    /\ Len(b.handles) < MAX_HANDLES
CanRestore(b, handle) ==
    /\ handle.cfc = Cfc
    /\ handle.id # 0 /\ handle.operations # {}
    /\ handle.requester # ZERO /\ handle.target # ZERO /\ handle.dimension # ZERO
    /\ ~Known(b, handle.id)
    /\ handle.parent_id # 0 =>
         \E i \in DOMAIN b.handles :
            LET parent == b.handles[i] IN
            /\ parent.id = handle.parent_id
            /\ parent.cfc = handle.cfc
            /\ parent.target = handle.target /\ parent.dimension = handle.dimension
            /\ ~parent.revoked
            /\ Narrower(parent, handle.operations, handle.valid_until_tick)
    /\ Len(b.handles) < MAX_HANDLES

restore(b, handle) ==
    [b EXCEPT !.handles = Append(@, handle),
              !.next_id = IF handle.id < MaxId /\ handle.id >= @
                            THEN handle.id + 1 ELSE @]

\* The loop of revoke stops when no Handle is left that is named by id or has
\* a revoked parent; what it has revoked then is the least such set.
Closed(b, id, R) ==
    \A i \in DOMAIN b.handles :
       \/ b.handles[i].id = id
       \/ b.handles[i].revoked
       \/ /\ b.handles[i].parent_id # 0
          /\ \E p \in R : b.handles[p].id = b.handles[i].parent_id
       => i \in R
Cascade(b, id) ==
    {i \in DOMAIN b.handles :
       \A R \in SUBSET DOMAIN b.handles : Closed(b, id, R) => i \in R}

Mark(b, R) ==
    [b EXCEPT !.handles =
       [i \in DOMAIN b.handles |-> [b.handles[i] EXCEPT !.revoked = i \in R]]]

----------------------------------------------------------------------------
Init == broker = NewBroker

IssueFor ==
    \E requester \in Requesters, target \in Targets, dimension \in Dimensions,
       authority \in Authorities, operations \in Operations :
       /\ CanIssue(broker, requester, authority, target, dimension, operations)
       /\ \E until \in Ticks, k \in 0..MAX_HANDLES :
             /\ allocate_id(broker, k)
             /\ broker' = issue_for(broker, k, requester, target, dimension,
                                    operations, until)

Delegate ==
    \E i \in DOMAIN broker.handles, requester \in Requesters,
       operations \in Operations, until, tick \in Ticks :
       /\ CanDelegate(broker, broker.handles[i], requester, operations, until, tick)
       /\ \E k \in 0..MAX_HANDLES :
             /\ allocate_id(broker, k)
             /\ broker' = delegate(broker, k, broker.handles[i], requester,
                                   operations, until)

SealContext ==
    \E requester \in Requesters, dimension \in Dimensions :
       /\ CanSeal(broker, requester, dimension)
       /\ broker' = seal_context(broker, requester, dimension)

\* The session restores its stored Handles before any Form is launched, and
\* only a launch seals a context.
Restore ==
    /\ broker.seals = << >>
    /\ \E handle \in Records : /\ CanRestore(broker, handle)
                               /\ broker' = restore(broker, handle)

Revoke ==
    \E id \in Ids : /\ Known(broker, id)
                    /\ \E R \in {Cascade(broker, id)} : broker' = Mark(broker, R)

\* A login or logout replaces the broker.
Login == broker' = NewBroker

Next == IssueFor \/ Delegate \/ SealContext \/ Restore \/ Revoke \/ Login

Spec == Init /\ [][Next]_broker

----------------------------------------------------------------------------
(* Properties *)

\* The tables stay within their sizes and the next id is one a Handle may have.
TypeOK ==
    /\ broker \in BrokerType
    /\ Len(broker.handles) <= MAX_HANDLES
    /\ Len(broker.seals) <= MAX_SEALS

\* Lookup by id finds one Handle: no sequence of issues, delegations and
\* restores gives an id to two Handles, even after the counter has wrapped
\* (allocate_id, restore).
HandlesDistinct(b) ==
    \A i, j \in DOMAIN b.handles : b.handles[i].id = b.handles[j].id => i = j
UniqueIds == HandlesDistinct(broker)

\* Whatever a derived Handle authorizes at some time its parent authorizes
\* too: delegation and restore never widen, and revoke leaves no derived
\* Handle usable once one above it is revoked.
FromParent(b) ==
    \A c \in DOMAIN b.handles : b.handles[c].parent_id # 0 =>
       \E p \in 1..c - 1 :
          /\ b.handles[p].id = b.handles[c].parent_id
          /\ \A target \in Targets, dimension \in Dimensions,
                operation \in Operations, tick \in Ticks :
                Authorizes(b.handles[c], target, dimension, operation, tick)
                  => Authorizes(b.handles[p], target, dimension, operation, tick)
AuthorityFromParent == FromParent(broker)

\* After a context is sealed nothing widens what its requester may do in that
\* Dimension while the broker lives: each Handle it gains is covered by one it
\* held, and a revoked Handle is never usable again (seal_context: "There is
\* deliberately no unseal operation").
Covers(h, g) ==
    /\ h.requester = g.requester
    /\ \A target \in Targets, dimension \in Dimensions,
          operation \in Operations, tick \in Ticks :
          Authorizes(g, target, dimension, operation, tick)
            => Authorizes(h, target, dimension, operation, tick)
OnlyNarrows ==
    \A s \in DOMAIN broker.seals :
       /\ s \in DOMAIN broker'.seals /\ broker'.seals[s] = broker.seals[s]
       /\ \A i \in DOMAIN broker'.handles :
             /\ broker'.handles[i].requester = broker.seals[s].requester
             /\ broker'.handles[i].dimension = broker.seals[s].dimension
             => \E j \in DOMAIN broker.handles :
                   Covers(broker.handles[j], broker'.handles[i])
SealedOnlyNarrows == [][broker' = NewBroker \/ OnlyNarrows]_broker

\* While a slot is free an id is found: MAX_HANDLES + 1 candidates always
\* include one that no Handle has (the loop bound of allocate_id).
IdsNeverRunOut ==
    Len(broker.handles) < MAX_HANDLES =>
       \E k \in 0..MAX_HANDLES : allocate_id(broker, k)
=============================================================================
