-------------------------- MODULE CapabilityProofs --------------------------
(***************************************************************************)
(* Proofs about Capability for any number of Handles, seals, identities,   *)
(* operation bits and ids.                                                 *)
(*                                                                         *)
(* BrokerOK is inductive.  It says of a derived Handle that its parent is  *)
(* in the table before it and holds at least what it holds (Link), which   *)
(* AuthorityFromParent follows from.  Issue, delegate and restore append   *)
(* one Handle (AppendOK); revoke marks a set that is closed under Link     *)
(* (CascadeClosed, MarkOK).                                                *)
(***************************************************************************)
EXTENDS Capability, TLAPS

Link(p, h) ==
    /\ p.id = h.parent_id
    /\ p.target = h.target /\ p.dimension = h.dimension
    /\ h.operations \subseteq p.operations
    /\ h.valid_until_tick <= p.valid_until_tick
    /\ p.revoked => h.revoked

Chained(b) ==
    \A c \in DOMAIN b.handles : b.handles[c].parent_id # 0 =>
       \E p \in 1..c - 1 : Link(b.handles[p], b.handles[c])

BrokerOK(b) ==
    /\ b \in BrokerType
    /\ Len(b.handles) <= MAX_HANDLES
    /\ Len(b.seals) <= MAX_SEALS
    /\ \A i \in DOMAIN b.handles : b.handles[i].id # 0
    /\ HandlesDistinct(b)
    /\ Chained(b)

IInv == BrokerOK(broker)

Add(b, h, n) == [b EXCEPT !.handles = Append(@, h), !.next_id = n]

LEMMA HandleTyped ==
    ASSUME NEW b \in BrokerType, NEW i \in DOMAIN b.handles
    PROVE  b.handles[i] \in FormHandle
BY DEF BrokerType

\* A Handle whose id is new may be appended when it has no parent, or is
\* linked to one that is in the table.
LEMMA AppendOK ==
    ASSUME NEW b, BrokerOK(b), Len(b.handles) < MAX_HANDLES,
           NEW h \in FormHandle, NEW n \in Ids,
           h.id # 0, ~Known(b, h.id),
           h.parent_id # 0 => \E p \in DOMAIN b.handles : Link(b.handles[p], h)
    PROVE  BrokerOK(Add(b, h, n))
<1> DEFINE c == Add(b, h, n)
<1>1. b \in BrokerType
  BY DEF BrokerOK
<1>2. /\ c.handles = Append(b.handles, h)
      /\ c.seals = b.seals
      /\ c.next_id = n
      /\ c \in [handles : {Append(b.handles, h)}, seals : {b.seals}, next_id : {n}]
  BY <1>1 DEF BrokerType, Add
<1> HIDE DEF c
<1>3. /\ b.handles \in Seq(FormHandle)
      /\ c.handles \in Seq(FormHandle)
      /\ Len(c.handles) = Len(b.handles) + 1
      /\ Len(b.handles) \in Nat
      /\ \A i \in 1..Len(b.handles) : c.handles[i] = b.handles[i]
      /\ c.handles[Len(b.handles) + 1] = h
  BY <1>1, <1>2 DEF BrokerType
<1>4. c \in BrokerType
  BY <1>1, <1>2, <1>3 DEF BrokerType
<1>5. /\ DOMAIN b.handles = 1..Len(b.handles)
      /\ DOMAIN c.handles = 1..Len(b.handles) + 1
  BY <1>3
<1>6. Len(c.handles) <= MAX_HANDLES /\ Len(c.seals) <= MAX_SEALS
  BY <1>2, <1>3, CapabilityAssumption DEF BrokerOK
<1>7. \A i \in DOMAIN c.handles : c.handles[i].id # 0
  <2>1. \A i \in 1..Len(b.handles) : b.handles[i].id # 0
    BY <1>5 DEF BrokerOK
  <2>2. SUFFICES ASSUME NEW i \in DOMAIN c.handles
                 PROVE  c.handles[i].id # 0
    OBVIOUS
  <2>3. CASE i \in 1..Len(b.handles)
    BY <2>1, <2>3, <1>3
  <2>4. CASE i = Len(b.handles) + 1
    BY <2>4, <1>3
  <2> QED  BY <2>3, <2>4, <1>3, <1>5
<1>8. HandlesDistinct(c)
  <2>1. \A i \in 1..Len(b.handles) : b.handles[i].id # h.id
    BY <1>5 DEF Known
  <2>2. \A i, j \in 1..Len(b.handles) : b.handles[i].id = b.handles[j].id => i = j
    BY <1>5 DEF BrokerOK, HandlesDistinct
  <2>3. SUFFICES ASSUME NEW i \in DOMAIN c.handles, NEW j \in DOMAIN c.handles,
                        c.handles[i].id = c.handles[j].id
                 PROVE  i = j
    BY DEF HandlesDistinct
  <2>4. /\ i \in 1..Len(b.handles) \/ i = Len(b.handles) + 1
        /\ j \in 1..Len(b.handles) \/ j = Len(b.handles) + 1
    BY <1>3, <1>5
  <2>5. CASE i \in 1..Len(b.handles) /\ j \in 1..Len(b.handles)
    BY <2>2, <2>3, <2>5, <1>3
  <2>6. CASE i \in 1..Len(b.handles) /\ j = Len(b.handles) + 1
    BY <2>1, <2>3, <2>6, <1>3
  <2>7. CASE i = Len(b.handles) + 1 /\ j \in 1..Len(b.handles)
    BY <2>1, <2>3, <2>7, <1>3
  <2> QED  BY <2>4, <2>5, <2>6, <2>7
<1>9. Chained(c)
  <2>1. SUFFICES ASSUME NEW i \in DOMAIN c.handles, c.handles[i].parent_id # 0
                 PROVE  \E p \in 1..i - 1 : Link(c.handles[p], c.handles[i])
    BY DEF Chained
  <2>2. CASE i \in 1..Len(b.handles)
    <3>1. c.handles[i] = b.handles[i]
      BY <2>2, <1>3
    <3>2. PICK p \in 1..i - 1 : Link(b.handles[p], b.handles[i])
      BY <2>1, <2>2, <3>1, <1>5 DEF BrokerOK, Chained
    <3>3. p \in 1..Len(b.handles)
      BY <2>2, <1>3
    <3> QED  BY <3>1, <3>2, <3>3, <1>3
  <2>3. CASE i = Len(b.handles) + 1
    <3>1. c.handles[i] = h
      BY <2>3, <1>3
    <3>2. PICK p \in DOMAIN b.handles : Link(b.handles[p], h)
      BY <2>1, <3>1
    <3>3. p \in 1..i - 1 /\ c.handles[p] = b.handles[p]
      BY <2>3, <3>2, <1>3, <1>5
    <3> QED  BY <3>1, <3>2, <3>3
  <2> QED  BY <2>2, <2>3, <1>3, <1>5
<1>10. BrokerOK(c)
  BY <1>4, <1>6, <1>7, <1>8, <1>9 DEF BrokerOK
<1> QED  BY <1>10 DEF c

\* The id that allocate_id finds is not zero, and neither is the next one.
LEMMA CandidateInIds ==
    ASSUME NEW b \in BrokerType, NEW k \in Nat
    PROVE  Candidate(b, k) \in Ids
<1>1. b.next_id \in Ids
  BY DEF BrokerType
<1>2. b.next_id - 1 + k \in Nat
  BY <1>1, CapabilityAssumption DEF Ids
<1>3. (b.next_id - 1 + k) % MaxId \in 0..MaxId - 1
  BY <1>2, CapabilityAssumption
<1> QED  BY <1>3, CapabilityAssumption DEF Candidate, Ids

\* Only the id of a Handle changes when it is published.
LEMMA Renamed ==
    ASSUME NEW h \in FormHandle, NEW id \in Ids
    PROVE  LET g == [h EXCEPT !.id = id] IN
           g \in FormHandle /\ g.id = id /\ g.parent_id = h.parent_id
<1>1. id \in 0..MaxId
  BY CapabilityAssumption DEF Ids
<1> QED  BY <1>1 DEF FormHandle

\* A Handle that issue or delegate publishes under a fresh id.
LEMMA PublishOK ==
    ASSUME NEW b, BrokerOK(b), Len(b.handles) < MAX_HANDLES,
           NEW k \in 0..MAX_HANDLES, allocate_id(b, k),
           NEW h \in FormHandle,
           h.parent_id # 0 => \E p \in DOMAIN b.handles : Link(b.handles[p], h)
    PROVE  BrokerOK(Publish(b, k, h))
<1> DEFINE g == [h EXCEPT !.id = Candidate(b, k)]
           n == Candidate(b, k + 1)
<1>1. Candidate(b, k) \in Ids /\ n \in Ids
  BY CandidateInIds, CapabilityAssumption DEF BrokerOK
<1>2. g \in FormHandle /\ g.id = Candidate(b, k) /\ g.parent_id = h.parent_id
  BY <1>1, Renamed
<1>3. g.id # 0 /\ ~Known(b, g.id)
  BY <1>1, <1>2 DEF allocate_id, Ids
<1>4. g.parent_id # 0 => \E p \in DOMAIN b.handles : Link(b.handles[p], g)
  <2>1. /\ g.target = h.target /\ g.dimension = h.dimension
        /\ g.operations = h.operations
        /\ g.valid_until_tick = h.valid_until_tick /\ g.revoked = h.revoked
    BY DEF FormHandle
  <2> QED  BY <2>1, <1>2 DEF Link
<1>5. Publish(b, k, h) = Add(b, g, n)
  BY DEF Publish, Add
<1> HIDE DEF g, n
<1>6. BrokerOK(Add(b, g, n))
  BY <1>1, <1>2, <1>3, <1>4, AppendOK
<1> QED  BY <1>5, <1>6

LEMMA IssueOK ==
    ASSUME NEW b, BrokerOK(b), NEW k \in 0..MAX_HANDLES, allocate_id(b, k),
           NEW requester \in Requesters, NEW target \in Targets,
           NEW dimension \in Dimensions, NEW authority \in Authorities,
           NEW operations \in Operations, NEW until \in Ticks,
           CanIssue(b, requester, authority, target, dimension, operations)
    PROVE  BrokerOK(issue_for(b, k, requester, target, dimension, operations, until))
<1> DEFINE h == [id |-> 0, parent_id |-> 0, cfc |-> Cfc,
                 requester |-> requester, target |-> target,
                 dimension |-> dimension, operations |-> operations,
                 valid_until_tick |-> until, revoked |-> FALSE]
<1>1. h \in FormHandle /\ h.parent_id = 0
  BY CapabilityAssumption DEF FormHandle
<1>2. issue_for(b, k, requester, target, dimension, operations, until)
        = Publish(b, k, h)
  BY DEF issue_for
<1>3. Len(b.handles) < MAX_HANDLES
  BY DEF CanIssue
<1> HIDE DEF h
<1> QED  BY <1>1, <1>2, <1>3, PublishOK

LEMMA DelegateOK ==
    ASSUME NEW b, BrokerOK(b), NEW k \in 0..MAX_HANDLES, allocate_id(b, k),
           NEW i \in DOMAIN b.handles, NEW requester \in Requesters,
           NEW operations \in Operations, NEW until \in Ticks, NEW tick \in Ticks,
           CanDelegate(b, b.handles[i], requester, operations, until, tick)
    PROVE  BrokerOK(delegate(b, k, b.handles[i], requester, operations, until))
<1> DEFINE p == b.handles[i]
           h == [p EXCEPT !.parent_id = p.id, !.cfc = Cfc,
                          !.requester = requester, !.operations = operations,
                          !.valid_until_tick = until, !.revoked = FALSE]
<1>1. p \in FormHandle
  BY HandleTyped DEF BrokerOK
<1>2. h \in FormHandle
  BY <1>1, CapabilityAssumption DEF FormHandle
<1>3. Link(p, h)
  <2>1. /\ h.parent_id = p.id
        /\ h.target = p.target /\ h.dimension = p.dimension
        /\ h.operations = operations /\ h.valid_until_tick = until
    BY <1>1 DEF FormHandle
  <2>2. ~p.revoked /\ operations \subseteq p.operations /\ until <= p.valid_until_tick
    BY DEF CanDelegate, Authorizes, Narrower
  <2> QED  BY <2>1, <2>2 DEF Link
<1>4. delegate(b, k, p, requester, operations, until) = Publish(b, k, h)
  BY DEF delegate
<1>5. Len(b.handles) < MAX_HANDLES
  BY DEF CanDelegate
<1>6. \E j \in DOMAIN b.handles : Link(b.handles[j], h)
  BY <1>3
<1>7. BrokerOK(Publish(b, k, h))
  <2> HIDE DEF h, p
  <2> QED  BY <1>2, <1>5, <1>6, PublishOK
<1> QED  BY <1>4, <1>7

LEMMA RestoreOK ==
    ASSUME NEW b, BrokerOK(b), NEW h \in Records, CanRestore(b, h)
    PROVE  BrokerOK(restore(b, h))
<1> DEFINE n == IF h.id < MaxId /\ h.id >= b.next_id THEN h.id + 1 ELSE b.next_id
<1>1. h \in FormHandle
  BY CapabilityAssumption
<1>2. b.next_id \in Ids /\ h.id \in 0..MaxId
  BY <1>1 DEF BrokerOK, BrokerType, FormHandle
<1>3. n \in Ids
  BY <1>2, CapabilityAssumption DEF Ids
<1>4. restore(b, h) = Add(b, h, n)
  BY DEF restore, Add
<1>5. h.parent_id # 0 => \E p \in DOMAIN b.handles : Link(b.handles[p], h)
  BY DEF CanRestore, Link, Narrower
<1>6. Len(b.handles) < MAX_HANDLES /\ h.id # 0 /\ ~Known(b, h.id)
  BY DEF CanRestore
<1> HIDE DEF n
<1>7. BrokerOK(Add(b, h, n))
  BY <1>1, <1>3, <1>5, <1>6, AppendOK
<1> QED  BY <1>4, <1>7

LEMMA SealOK ==
    ASSUME NEW b, BrokerOK(b), NEW requester \in Requesters,
           NEW dimension \in Dimensions, CanSeal(b, requester, dimension)
    PROVE  BrokerOK(seal_context(b, requester, dimension))
<1> DEFINE s == [requester |-> requester, dimension |-> dimension,
                 root_handle_limit |-> b.next_id - 1]
           c == seal_context(b, requester, dimension)
<1>1. b \in BrokerType
  BY DEF BrokerOK
<1>2. s \in ExpSeal
  BY <1>1, CapabilityAssumption DEF BrokerType, ExpSeal, Ids
<1>3. c.handles = b.handles /\ c.next_id = b.next_id /\ c.seals = Append(b.seals, s)
  BY <1>1 DEF BrokerType, seal_context
<1>4. Append(b.seals, s) \in Seq(ExpSeal) /\ Len(Append(b.seals, s)) = Len(b.seals) + 1
  <2> HIDE DEF s
  <2> QED  BY <1>1, <1>2 DEF BrokerType
<1>5. c \in BrokerType
  <2>1. c \in [handles : {b.handles}, seals : {Append(b.seals, s)}, next_id : {b.next_id}]
    BY <1>1 DEF BrokerType, seal_context
  <2> HIDE DEF c, s
  <2> QED  BY <2>1, <1>1, <1>4 DEF BrokerType
<1>6. Len(c.seals) <= MAX_SEALS
  <2>1. Len(b.seals) \in Nat /\ Len(b.seals) < MAX_SEALS
    BY <1>1 DEF BrokerType, CanSeal
  <2> HIDE DEF c, s
  <2> QED  BY <2>1, <1>3, <1>4, CapabilityAssumption
<1> HIDE DEF c
<1>7. BrokerOK(c)
  BY <1>3, <1>5, <1>6 DEF BrokerOK, HandlesDistinct, Chained
<1> QED  BY <1>7 DEF c

\* The set that revoke marks contains the Handle, everything revoked before,
\* and with a Handle everything derived from it.
LEMMA CascadeClosed ==
    ASSUME NEW b, NEW id
    PROVE  Closed(b, id, Cascade(b, id))
<1> DEFINE D == DOMAIN b.handles
           C == Cascade(b, id)
<1>1. C \subseteq D
  BY DEF Cascade
<1>2. SUFFICES ASSUME NEW i \in D,
                      \/ b.handles[i].id = id
                      \/ b.handles[i].revoked
                      \/ /\ b.handles[i].parent_id # 0
                         /\ \E p \in C : b.handles[p].id = b.handles[i].parent_id,
                      NEW R \in SUBSET D, Closed(b, id, R)
               PROVE  i \in R
  BY DEF Closed, Cascade
<1>3. C \subseteq R
  BY <1>2 DEF Cascade
<1> HIDE DEF C
<1> QED  BY <1>2, <1>3 DEF Closed

\* What Mark changes: the revoked flag of each Handle, to membership in R.
SameBut(h, g) ==
    /\ g.id = h.id /\ g.parent_id = h.parent_id /\ g.requester = h.requester
    /\ g.target = h.target /\ g.dimension = h.dimension
    /\ g.operations = h.operations
    /\ g.valid_until_tick = h.valid_until_tick

\* Marking a Handle changes nothing else of it.
LEMMA MarkedHandle ==
    ASSUME NEW h \in FormHandle, NEW v \in BOOLEAN
    PROVE  /\ [h EXCEPT !.revoked = v] \in FormHandle
           /\ SameBut(h, [h EXCEPT !.revoked = v])
           /\ [h EXCEPT !.revoked = v].revoked = v
BY DEF FormHandle, SameBut

LEMMA MarkFacts ==
    ASSUME NEW b \in BrokerType, NEW R
    PROVE  /\ Mark(b, R) \in BrokerType
           /\ Mark(b, R).seals = b.seals
           /\ DOMAIN Mark(b, R).handles = DOMAIN b.handles
           /\ Len(Mark(b, R).handles) = Len(b.handles)
           /\ \A i \in DOMAIN b.handles :
                 /\ SameBut(b.handles[i], Mark(b, R).handles[i])
                 /\ Mark(b, R).handles[i].revoked <=> i \in R
<1> DEFINE c == Mark(b, R)
<1>1. /\ b.handles \in Seq(FormHandle)
      /\ DOMAIN b.handles = 1..Len(b.handles)
      /\ Len(b.handles) \in Nat
  BY DEF BrokerType
<1>2. /\ c.seals = b.seals
      /\ c.handles = [i \in DOMAIN b.handles |->
                        [b.handles[i] EXCEPT !.revoked = i \in R]]
      /\ c \in [handles : {c.handles}, seals : {b.seals}, next_id : {b.next_id}]
  BY DEF BrokerType, Mark
<1> HIDE DEF c
<1>3. ASSUME NEW i \in DOMAIN b.handles
      PROVE  /\ c.handles[i] \in FormHandle
             /\ SameBut(b.handles[i], c.handles[i])
             /\ c.handles[i].revoked <=> i \in R
  <2> DEFINE v == i \in R
             g == [b.handles[i] EXCEPT !.revoked = v]
  <2>1. c.handles[i] = g
    BY <1>2
  <2>2. b.handles[i] \in FormHandle
    BY HandleTyped
  <2>3. v \in BOOLEAN
    OBVIOUS
  <2>4. g \in FormHandle /\ SameBut(b.handles[i], g) /\ g.revoked = v
    <3> HIDE DEF v
    <3> QED  BY <2>2, <2>3, MarkedHandle
  <2>5. g.revoked <=> v
    BY <2>4
  <2> HIDE DEF g
  <2>6. c.handles[i].revoked <=> v
    BY <2>1, <2>5
  <2> QED  BY <2>1, <2>4, <2>6
<1>4. DOMAIN c.handles = DOMAIN b.handles
  BY <1>2
<1>5. c.handles \in [1..Len(b.handles) -> FormHandle]
  <2>1. c.handles = [i \in DOMAIN b.handles |-> c.handles[i]]
    BY <1>2
  <2> QED  BY <2>1, <1>1, <1>3
<1>6. c.handles \in Seq(FormHandle) /\ Len(c.handles) = Len(b.handles)
  BY <1>1, <1>5
<1>7. c \in BrokerType
  BY <1>2, <1>6 DEF BrokerType
<1> QED  BY <1>2, <1>3, <1>4, <1>6, <1>7 DEF c

LEMMA MarkOK ==
    ASSUME NEW b, BrokerOK(b), NEW id
    PROVE  BrokerOK(Mark(b, Cascade(b, id)))
<1> DEFINE R == Cascade(b, id)
           c == Mark(b, R)
<1>1. Closed(b, id, R)
  BY CascadeClosed
<1> HIDE DEF R
<1>2. b \in BrokerType
  BY DEF BrokerOK
<1>3. DOMAIN b.handles = 1..Len(b.handles) /\ Len(b.handles) \in Nat
  BY <1>2 DEF BrokerType
<1>4. /\ c \in BrokerType
      /\ c.seals = b.seals
      /\ DOMAIN c.handles = DOMAIN b.handles
      /\ Len(c.handles) = Len(b.handles)
      /\ \A i \in DOMAIN b.handles : /\ SameBut(b.handles[i], c.handles[i])
                                     /\ c.handles[i].revoked <=> i \in R
  BY <1>2, MarkFacts
<1> HIDE DEF c
<1>5. Chained(c)
  <2>1. SUFFICES ASSUME NEW i \in DOMAIN b.handles, b.handles[i].parent_id # 0
                 PROVE  \E p \in 1..i - 1 : Link(c.handles[p], c.handles[i])
    BY <1>4 DEF Chained, SameBut
  <2>2. PICK p \in 1..i - 1 : Link(b.handles[p], b.handles[i])
    BY <2>1 DEF BrokerOK, Chained
  <2>3. p \in DOMAIN b.handles
    BY <2>2, <1>3
  <2>4. p \in R => i \in R
    BY <2>1, <2>2, <2>3, <1>1 DEF Closed, Link
  <2>5. Link(c.handles[p], c.handles[i])
    BY <2>2, <2>3, <2>4, <1>4 DEF Link, SameBut
  <2> QED  BY <2>5
<1>6. HandlesDistinct(c) /\ \A i \in DOMAIN c.handles : c.handles[i].id # 0
  BY <1>4 DEF BrokerOK, HandlesDistinct, SameBut
<1>7. BrokerOK(c)
  BY <1>4, <1>5, <1>6 DEF BrokerOK
<1> QED  BY <1>7 DEF c, R

LEMMA NewOK == BrokerOK(NewBroker)
<1>1. NewBroker \in BrokerType
  BY CapabilityAssumption DEF NewBroker, BrokerType, Ids
<1> QED  BY <1>1, CapabilityAssumption DEF NewBroker, BrokerOK, HandlesDistinct, Chained

----------------------------------------------------------------------------
(* The inductive invariant *)

LEMMA BrokerStep == IInv /\ [Next]_broker => IInv'
<1> SUFFICES ASSUME BrokerOK(broker), [Next]_broker
             PROVE  BrokerOK(broker')
  BY DEF IInv
<1>1. CASE IssueFor
  BY <1>1, IssueOK DEF IssueFor
<1>2. CASE Delegate
  BY <1>2, DelegateOK DEF Delegate
<1>3. CASE SealContext
  BY <1>3, SealOK DEF SealContext
<1>4. CASE Restore
  BY <1>4, RestoreOK DEF Restore
<1>5. CASE Revoke
  <2>1. PICK id \in Ids : broker' = Mark(broker, Cascade(broker, id))
    BY <1>5 DEF Revoke
  <2> QED  BY <2>1, MarkOK
<1>6. CASE Login
  BY <1>6, NewOK DEF Login
<1>7. CASE UNCHANGED broker
  BY <1>7
<1> QED  BY <1>1, <1>2, <1>3, <1>4, <1>5, <1>6, <1>7 DEF Next

LEMMA BrokerAlwaysOK == Spec => []IInv
<1>1. Init => IInv
  BY NewOK DEF Init, IInv
<1> QED  BY <1>1, BrokerStep, PTL DEF Spec

\* No sequence of broker operations fills a table past its size or leaves an
\* id or a Handle malformed.
THEOREM BrokerTyped == Spec => []TypeOK
<1>1. IInv => TypeOK
  BY DEF IInv, BrokerOK, TypeOK
<1> QED  BY <1>1, BrokerAlwaysOK, PTL

\* Two Handles of the table never have the same id, whatever ids were
\* restored and however often the counter wrapped.
THEOREM HandleIdsDistinct == Spec => []UniqueIds
<1>1. IInv => UniqueIds
  BY DEF IInv, BrokerOK, UniqueIds
<1> QED  BY <1>1, BrokerAlwaysOK, PTL

\* A derived Handle authorizes only what its parent still authorizes: chains
\* of any length attenuate, and revocation reaches all of them.
THEOREM DerivedAuthorityIsTheParents == Spec => []AuthorityFromParent
<1>1. IInv => AuthorityFromParent
  <2>1. SUFFICES ASSUME BrokerOK(broker),
                        NEW c \in DOMAIN broker.handles,
                        broker.handles[c].parent_id # 0
                 PROVE  \E p \in 1..c - 1 :
                           /\ broker.handles[p].id = broker.handles[c].parent_id
                           /\ \A target \in Targets, dimension \in Dimensions,
                                 operation \in Operations, tick \in Ticks :
                                 Authorizes(broker.handles[c], target, dimension, operation, tick)
                                   => Authorizes(broker.handles[p], target, dimension, operation, tick)
    BY DEF IInv, AuthorityFromParent, FromParent
  <2>2. PICK p \in 1..c - 1 : Link(broker.handles[p], broker.handles[c])
    BY <2>1 DEF BrokerOK, Chained
  <2>3. p \in DOMAIN broker.handles
    BY <2>1, <2>2 DEF BrokerOK, BrokerType
  <2>4. /\ broker.handles[p] \in FormHandle
        /\ broker.handles[c] \in FormHandle
    BY <2>1, <2>3, HandleTyped DEF BrokerOK
  <2>5. /\ broker.handles[p].valid_until_tick \in Nat
        /\ broker.handles[c].valid_until_tick \in Nat
    BY <2>4 DEF FormHandle, Ticks
  <2>6. ASSUME NEW target \in Targets, NEW dimension \in Dimensions,
               NEW operation \in Operations, NEW tick \in Ticks,
               Authorizes(broker.handles[c], target, dimension, operation, tick)
        PROVE  Authorizes(broker.handles[p], target, dimension, operation, tick)
    <3>1. tick <= broker.handles[p].valid_until_tick
      BY <2>2, <2>5, <2>6 DEF Link, Authorizes, Ticks
    <3> QED  BY <3>1, <2>2, <2>6 DEF Link, Authorizes
  <2> QED  BY <2>2, <2>6 DEF Link
<1> QED  BY <1>1, BrokerAlwaysOK, PTL

----------------------------------------------------------------------------
(* What a step may do to a sealed context *)

LEMMA CoversItself ==
    ASSUME NEW h
    PROVE  Covers(h, h)
BY DEF Covers

\* Appending a Handle leaves the others as they were.
LEMMA PublishFacts ==
    ASSUME NEW b \in BrokerType, NEW k, NEW h
    PROVE  /\ Publish(b, k, h).seals = b.seals
           /\ DOMAIN Publish(b, k, h).handles = 1..Len(b.handles) + 1
           /\ \A i \in DOMAIN b.handles : Publish(b, k, h).handles[i] = b.handles[i]
           /\ Publish(b, k, h).handles[Len(b.handles) + 1]
                 = [h EXCEPT !.id = Candidate(b, k)]
           /\ DOMAIN b.handles = 1..Len(b.handles) /\ Len(b.handles) \in Nat
<1> DEFINE g == [h EXCEPT !.id = Candidate(b, k)]
           c == Publish(b, k, h)
<1>1. c.seals = b.seals /\ c.handles = Append(b.handles, g)
  BY DEF Publish, BrokerType
<1>2. b.handles \in Seq(FormHandle)
  BY DEF BrokerType
<1> HIDE DEF c, g
<1>3. /\ DOMAIN c.handles = 1..Len(b.handles) + 1
      /\ \A i \in 1..Len(b.handles) : c.handles[i] = b.handles[i]
      /\ c.handles[Len(b.handles) + 1] = g
      /\ DOMAIN b.handles = 1..Len(b.handles) /\ Len(b.handles) \in Nat
  BY <1>1, <1>2
<1> QED  BY <1>1, <1>3 DEF c, g

\* It is enough to cover the Handles that a step adds or changes.
LEMMA IssueNarrows ==
    ASSUME BrokerOK(broker), IssueFor
    PROVE  OnlyNarrows
<1>1. PICK requester \in Requesters, target \in Targets, dimension \in Dimensions,
           authority \in Authorities, operations \in Operations,
           until \in Ticks, k \in 0..MAX_HANDLES :
           /\ CanIssue(broker, requester, authority, target, dimension, operations)
           /\ broker' = issue_for(broker, k, requester, target, dimension,
                                  operations, until)
  BY DEF IssueFor
<1> DEFINE h == [id |-> 0, parent_id |-> 0, cfc |-> Cfc,
                 requester |-> requester, target |-> target,
                 dimension |-> dimension, operations |-> operations,
                 valid_until_tick |-> until, revoked |-> FALSE]
           g == [h EXCEPT !.id = Candidate(broker, k)]
<1>2. broker' = Publish(broker, k, h)
  BY <1>1 DEF issue_for
<1>3. g.requester = requester /\ g.dimension = dimension
  OBVIOUS
<1> HIDE DEF h
<1>4. /\ broker'.seals = broker.seals
      /\ DOMAIN broker'.handles = 1..Len(broker.handles) + 1
      /\ \A i \in DOMAIN broker.handles : broker'.handles[i] = broker.handles[i]
      /\ broker'.handles[Len(broker.handles) + 1] = g
      /\ DOMAIN broker.handles = 1..Len(broker.handles) /\ Len(broker.handles) \in Nat
  BY <1>2, PublishFacts DEF BrokerOK
<1> HIDE DEF g
<1>5. ASSUME NEW s \in DOMAIN broker.seals, NEW i \in DOMAIN broker'.handles,
             broker'.handles[i].requester = broker.seals[s].requester,
             broker'.handles[i].dimension = broker.seals[s].dimension
      PROVE  \E j \in DOMAIN broker.handles :
                Covers(broker.handles[j], broker'.handles[i])
  <2>1. CASE i \in DOMAIN broker.handles
    BY <2>1, <1>4, CoversItself
  <2>2. CASE i = Len(broker.handles) + 1
    <3>1. is_sealed(broker, requester, dimension)
      BY <2>2, <1>3, <1>4, <1>5 DEF is_sealed
    <3> QED  BY <3>1, <1>1 DEF CanIssue
  <2> QED  BY <2>1, <2>2, <1>4, <1>5
<1> QED  BY <1>4, <1>5 DEF OnlyNarrows

LEMMA DelegateNarrows ==
    ASSUME BrokerOK(broker), Delegate
    PROVE  OnlyNarrows
<1>1. PICK d \in DOMAIN broker.handles, requester \in Requesters,
           operations \in Operations, until \in Ticks, tick \in Ticks,
           k \in 0..MAX_HANDLES :
           /\ CanDelegate(broker, broker.handles[d], requester, operations, until, tick)
           /\ broker' = delegate(broker, k, broker.handles[d], requester,
                                 operations, until)
  BY DEF Delegate
<1> DEFINE p == broker.handles[d]
           h == [p EXCEPT !.parent_id = p.id, !.cfc = Cfc,
                          !.requester = requester, !.operations = operations,
                          !.valid_until_tick = until, !.revoked = FALSE]
           g == [h EXCEPT !.id = Candidate(broker, k)]
<1>2. broker' = Publish(broker, k, h)
  BY <1>1 DEF delegate
<1>3. p \in FormHandle
  BY HandleTyped DEF BrokerOK
<1>4. /\ g.requester = requester /\ g.dimension = p.dimension
      /\ g.target = p.target /\ g.operations = operations
      /\ g.valid_until_tick = until
  BY <1>3 DEF FormHandle
<1> HIDE DEF h
<1>5. /\ broker'.seals = broker.seals
      /\ DOMAIN broker'.handles = 1..Len(broker.handles) + 1
      /\ \A i \in DOMAIN broker.handles : broker'.handles[i] = broker.handles[i]
      /\ broker'.handles[Len(broker.handles) + 1] = g
      /\ DOMAIN broker.handles = 1..Len(broker.handles) /\ Len(broker.handles) \in Nat
  BY <1>2, PublishFacts DEF BrokerOK
<1> HIDE DEF g
<1>6. /\ ~p.revoked /\ operations \subseteq p.operations
      /\ until <= p.valid_until_tick
      /\ is_sealed(broker, requester, p.dimension) => requester = p.requester
  BY <1>1 DEF CanDelegate, Authorizes, Narrower
<1>7. requester = p.requester => Covers(p, g)
  <2>1. p.valid_until_tick \in Nat /\ until \in Nat
    BY <1>3 DEF FormHandle, Ticks
  <2> HIDE DEF p
  <2>2. ASSUME NEW tick_ \in Ticks, tick_ <= until
        PROVE  tick_ <= p.valid_until_tick
    BY <2>1, <2>2, <1>6 DEF Ticks
  <2> QED  BY <2>2, <1>4, <1>6 DEF Covers, Authorizes
<1>8. ASSUME NEW s \in DOMAIN broker.seals, NEW i \in DOMAIN broker'.handles,
             broker'.handles[i].requester = broker.seals[s].requester,
             broker'.handles[i].dimension = broker.seals[s].dimension
      PROVE  \E j \in DOMAIN broker.handles :
                Covers(broker.handles[j], broker'.handles[i])
  <2>1. CASE i \in DOMAIN broker.handles
    BY <2>1, <1>5, CoversItself
  <2>2. CASE i = Len(broker.handles) + 1
    <3>1. is_sealed(broker, requester, p.dimension)
      BY <2>2, <1>4, <1>5, <1>8 DEF is_sealed
    <3>2. Covers(p, broker'.handles[i])
      BY <3>1, <1>5, <1>6, <1>7, <2>2
    <3> QED  BY <3>2
  <2> QED  BY <2>1, <2>2, <1>5, <1>8
<1> QED  BY <1>5, <1>8 DEF OnlyNarrows

LEMMA SealNarrows ==
    ASSUME BrokerOK(broker), SealContext
    PROVE  OnlyNarrows
<1>1. PICK requester \in Requesters, dimension \in Dimensions :
           broker' = seal_context(broker, requester, dimension)
  BY DEF SealContext
<1> DEFINE s == [requester |-> requester, dimension |-> dimension,
                 root_handle_limit |-> broker.next_id - 1]
<1>2. broker.seals \in Seq(ExpSeal)
  BY DEF BrokerOK, BrokerType
<1>3. broker'.handles = broker.handles /\ broker'.seals = Append(broker.seals, s)
  BY <1>1 DEF seal_context, BrokerOK, BrokerType
<1> HIDE DEF s
<1>4. \A i \in DOMAIN broker.seals :
         i \in DOMAIN broker'.seals /\ broker'.seals[i] = broker.seals[i]
  BY <1>2, <1>3
<1> QED  BY <1>3, <1>4, CoversItself DEF OnlyNarrows

LEMMA RevokeNarrows ==
    ASSUME BrokerOK(broker), Revoke
    PROVE  OnlyNarrows
<1>1. PICK id \in Ids : broker' = Mark(broker, Cascade(broker, id))
  BY DEF Revoke
<1> DEFINE R == Cascade(broker, id)
<1>2. Closed(broker, id, R)
  BY CascadeClosed
<1> HIDE DEF R
<1>3. /\ broker'.seals = broker.seals
      /\ DOMAIN broker'.handles = DOMAIN broker.handles
      /\ \A i \in DOMAIN broker.handles :
            /\ SameBut(broker.handles[i], broker'.handles[i])
            /\ broker'.handles[i].revoked <=> i \in R
  BY <1>1, MarkFacts DEF BrokerOK, R
<1>4. ASSUME NEW i \in DOMAIN broker.handles
      PROVE  Covers(broker.handles[i], broker'.handles[i])
  <2>1. ~broker'.handles[i].revoked => ~broker.handles[i].revoked
    BY <1>2, <1>3, <1>4 DEF Closed
  <2> QED  BY <2>1, <1>3, <1>4 DEF Covers, Authorizes, SameBut
<1> QED  BY <1>3, <1>4 DEF OnlyNarrows

\* For every broker that has sealed a context, no operation short of a login
\* gives the requester of that context more than it held when it was sealed.
THEOREM SealedContextsOnlyNarrow == Spec => SealedOnlyNarrows
<1>1. ASSUME IInv, [Next]_broker
      PROVE  [broker' = NewBroker \/ OnlyNarrows]_broker
  <2>1. BrokerOK(broker)
    BY <1>1 DEF IInv
  <2>2. CASE IssueFor
    BY <2>1, <2>2, IssueNarrows
  <2>3. CASE Delegate
    BY <2>1, <2>3, DelegateNarrows
  <2>4. CASE SealContext
    BY <2>1, <2>4, SealNarrows
  <2>5. CASE Restore
    <3>1. DOMAIN broker.seals = {}
      BY <2>5 DEF Restore
    <3> QED  BY <3>1 DEF OnlyNarrows
  <2>6. CASE Revoke
    BY <2>1, <2>6, RevokeNarrows
  <2>7. CASE Login
    BY <2>7 DEF Login
  <2> QED  BY <1>1, <2>2, <2>3, <2>4, <2>5, <2>6, <2>7 DEF Next
<1> QED  BY <1>1, BrokerAlwaysOK, PTL DEF Spec, SealedOnlyNarrows
=============================================================================
