------------------------ MODULE FormLifecycleProofs ------------------------
(***************************************************************************)
(* Proofs about FormLifecycle for any number of context slots, address     *)
(* spaces, programs and launches, any budget ceiling and any quantum: no   *)
(* unwrapped scheduler call fails, a launch holds a live context and an    *)
(* address space of its own, and a budget stop has spent the budget.       *)
(* ShellInv is inductive: one lemma per command, from the lemmas about the *)
(* calls it composes (LaunchProofs).                                       *)
(***************************************************************************)
EXTENDS LaunchProofs

-----------------------------------------------------------------------------
(* The steps of the shell.                                                 *)

\* What a command that leaves no foreground launch has to establish.
LEMMA IdleInv ==
    ASSUME SchedOK(sched)', BlockedIsSpent(sched)', SpacesOK(spaces)',
           (background \in Seq(LaunchType))', background_cursor' \in Nat,
           foreground' = Idle, Holds(sched', spaces', background', <<>>),
           panic' = FALSE
    PROVE  ShellInv'
<1>1. Idle.kind = "idle" /\ Idle.launches = <<>> /\ <<>> \in Seq(LaunchType)
  BY DEF Idle
<1>2. Idle = [kind |-> Idle.kind, launches |-> Idle.launches]
  BY DEF Idle
<1>3. ForegroundOK(sched', Idle)
  BY <1>1, <1>2 DEF ForegroundOK
<1> QED  BY <1>1, <1>3 DEF ShellInv

LEMMA IdleHolds ==
    ASSUME ShellInv, foreground = Idle
    PROVE  /\ SchedOK(sched) /\ BlockedIsSpent(sched) /\ SpacesOK(spaces)
           /\ background \in Seq(LaunchType) /\ background_cursor \in Nat
           /\ Holds(sched, spaces, background, <<>>) /\ panic = FALSE
BY DEF ShellInv, Idle

LEMMA ExecuteDocumentInv ==
    ASSUME ShellInv, NEW form \in Documents, ExecuteDocument(form)
    PROVE  ShellInv'
<1>1. PICK slot \in Slots :
        /\ CanLaunch(sched, form, slot)
        /\ sched' = dispatch_next(
               finish(resume(admit(sched, slot, form), slot), sched.next_id, slot))
  BY DEF ExecuteDocument
<1>2. UNCHANGED shell /\ foreground = Idle
  BY DEF ExecuteDocument
<1> DEFINE a == admit(sched, slot, form)
           r == resume(a, slot)
           e == finish(r, sched.next_id, slot)
           d == dispatch_next(e)
<1>3. /\ SchedOK(sched) /\ BlockedIsSpent(sched) /\ SpacesOK(spaces)
      /\ background \in Seq(LaunchType) /\ background_cursor \in Nat
      /\ Holds(sched, spaces, background, <<>>) /\ panic = FALSE
  BY <1>2, IdleHolds
<1>4. form \in Identities /\ Reusable(sched.contexts[slot])
  BY <1>1, LifecycleAssumption DEF CanLaunch, AdmitSlot
<1>5. /\ SchedOK(a) /\ Frame(sched, a, slot)
      /\ a.contexts[slot] = NewContext(sched.next_id, form)
  BY <1>3, <1>4, AdmitFrame
<1>6. a.contexts[slot].id = sched.next_id /\ a.contexts[slot].state = "Ready"
  BY <1>5, NewTicks
<1> HIDE DEF a
<1>7. SchedOK(r) /\ Frame(a, r, NoSlot) /\ r.contexts[slot].state = "Running"
  BY <1>5, <1>6, ResumeFrame DEF CanResume
<1> HIDE DEF r
<1>8. r.contexts[slot].id = sched.next_id
  BY <1>6, <1>7, SlotFacts DEF Frame, Same
<1>9. Position(r, sched.next_id, slot)
  BY <1>7, <1>8, FoundAt
<1>10. "Exited" \in States \ {"Running"} /\ "Exited" \in States
  BY DEF States
<1>11. SchedOK(e) /\ Frame(r, e, slot) /\ e.contexts[slot].state = "Exited"
  <2>1. SchedOK(e)
    BY <1>7, <1>9, <1>10, StopStateOK DEF finish
  <2>2. AfterState(r, e, slot, "Exited")
    BY <1>7, <1>10, StateFrame DEF finish
  <2> HIDE DEF e
  <2> QED  BY <2>1, <2>2 DEF AfterState
<1> HIDE DEF e
<1>12. SchedOK(d) /\ Frame(e, d, NoSlot)
  BY <1>11, DispatchOK, DispatchFrame
<1> HIDE DEF d
<1>13. Frame(sched, e, slot)
  BY <1>5, <1>7, <1>11, FrameChain
<1>14. BlockedIsSpent(e)
  BY <1>3, <1>11, <1>13, BlockedFrame
<1>15. BlockedIsSpent(d)
  BY <1>12, <1>14, SlotFacts, BlockedFrame
<1>16. Frame(sched, d, slot)
  BY <1>12, <1>13, FrameChain
<1>17. Holds(d, spaces, background, <<>>)
  BY <1>3, <1>4, <1>16, HoldsFrame
<1>18. sched' = d
  BY <1>1 DEF d, e, r, a
<1> QED  BY <1>2, <1>3, <1>12, <1>15, <1>17, <1>18, IdleInv DEF shell

\* LaunchDenied and RunService take an idle space and leave it idle.
LEMMA DeniedInv ==
    ASSUME ShellInv, NEW form \in Programs \cup Services, foreground = Idle,
           NEW i \in PreparedSpace(spaces, form), spaces' = Closed(spaces, form, i),
           UNCHANGED <<sched, background, background_cursor, foreground, panic>>
    PROVE  ShellInv'
<1>1. /\ SchedOK(sched) /\ BlockedIsSpent(sched) /\ SpacesOK(spaces)
      /\ background \in Seq(LaunchType) /\ background_cursor \in Nat
      /\ Holds(sched, spaces, background, <<>>) /\ panic = FALSE
  BY IdleHolds
<1>2. i \in Spaces /\ ~spaces[i].active
  BY <1>1, PreparedIdle
<1>3. Holds(sched, spaces', background, <<>>) /\ SpacesOK(spaces')
  BY <1>1, <1>2, HoldsClosed
<1> QED  BY <1>1, <1>3, IdleInv

LEMMA ExecuteInv ==
    ASSUME ShellInv, NEW form \in Programs, Execute(form)
    PROVE  ShellInv'
<1>1. PICK slot \in Slots, i \in PreparedSpace(spaces, form) :
        /\ CanLaunch(sched, form, slot)
        /\ sched' = resume(admit(sched, slot, form), slot)
        /\ panic' = ~CanResume(admit(sched, slot, form), slot)
        /\ spaces' = Opened(spaces, form, i)
        /\ foreground' = [kind |-> "execute",
                          launches |-> <<Launch(form, sched.next_id, i)>>]
  BY DEF Execute
<1>2. foreground = Idle /\ UNCHANGED <<background, background_cursor>>
  BY DEF Execute
<1> DEFINE a == admit(sched, slot, form)
           r == resume(a, slot)
           l == Launch(form, sched.next_id, i)
           sp2 == Opened(spaces, form, i)
<1>3. /\ SchedOK(sched) /\ BlockedIsSpent(sched) /\ SpacesOK(spaces)
      /\ background \in Seq(LaunchType) /\ background_cursor \in Nat
      /\ Holds(sched, spaces, background, <<>>)
  BY <1>2, IdleHolds
<1>4. /\ SchedOK(a) /\ SpacesOK(sp2) /\ l \in LaunchType /\ ~l.finished
      /\ LivesIn(a, l, slot) /\ a.contexts[slot].state = "Ready"
      /\ BlockedIsSpent(a)
  <2>1. AfterLaunch(sched, spaces, slot, i, a, sp2, l)
    BY <1>1, <1>3, Launched
  <2> HIDE DEF a, sp2, l
  <2> QED  BY <1>3, <2>1 DEF AfterLaunch
<1>5. <<>> \in Seq(LaunchType) /\ Append(<<>>, l) = <<l>>
  OBVIOUS
<1>6. Holds(a, sp2, background, <<l>>)
  <2>1. Holds(a, sp2, background, Append(<<>>, l))
    BY <1>1, <1>3, <1>5, HoldsExecuted
  <2> QED  BY <1>5, <2>1
<1> HIDE DEF a, l, sp2
<1>7. CanResume(a, slot)
  BY <1>4 DEF CanResume
<1>8. SchedOK(r) /\ Frame(a, r, NoSlot) /\ r.contexts[slot].state = "Running"
  BY <1>4, <1>7, ResumeFrame
<1> HIDE DEF r
<1>9. LivesIn(r, l, slot)
  BY <1>4, <1>8, SlotFacts, LivesOn
<1>10. BlockedIsSpent(r) /\ Holds(r, sp2, background, <<l>>)
  BY <1>4, <1>6, <1>8, SlotFacts, BlockedFrame, HoldsFrame
<1>11. /\ sched' = r /\ spaces' = sp2 /\ panic' = FALSE
       /\ foreground' = [kind |-> "execute", launches |-> <<l>>]
  BY <1>1, <1>7 DEF r, a, l, sp2
<1>12. /\ <<l>> \in Seq(LaunchType) /\ Len(<<l>>) = 1 /\ <<l>>[1] = l
  BY <1>4
<1>13. ForegroundOK(r, [kind |-> "execute", launches |-> <<l>>])
  BY <1>4, <1>8, <1>9, <1>12 DEF ForegroundOK, InState
<1> QED  BY <1>2, <1>3, <1>4, <1>8, <1>10, <1>11, <1>13 DEF ShellInv

LEMMA ExecuteSliceInv ==
    ASSUME ShellInv, ExecuteSlice
    PROVE  ShellInv'
<1> DEFINE fg == foreground.launches
           launch == fg[1]
           slot0 == SlotOf(sched, launch.id)
<1>1. /\ SchedOK(sched) /\ BlockedIsSpent(sched) /\ SpacesOK(spaces)
      /\ background \in Seq(LaunchType) /\ background_cursor \in Nat
      /\ Holds(sched, spaces, background, fg) /\ foreground.kind = "execute"
      /\ UNCHANGED <<background, background_cursor>>
  BY DEF ShellInv, ExecuteSlice
<1>2. /\ fg \in Seq(LaunchType) /\ Len(fg) = 1 /\ ~launch.finished
      /\ InState(sched, launch, "Running") /\ ForegroundOK(sched, foreground)
  BY <1>1 DEF ShellInv, ForegroundOK
<1>3. PICK slot \in Slots :
        LivesIn(sched, launch, slot) /\ sched.contexts[slot].state = "Running"
  BY <1>2 DEF InState
<1>4. slot0 = slot /\ Remaining(sched, launch) = Ticks(sched.contexts[slot])
  BY <1>1, <1>3, RemainingIs
<1>5. PICK result \in SliceResults(Remaining(sched, launch)) :
        \E charged \in {ChargeResult(sched, launch.id, slot0, result)} :
           \/ /\ ~Stops(result)
              /\ sched' = resume(charged, slot0)
              /\ panic' = ~(CanPreempt(sched, slot0) /\ CanResume(charged, slot0))
              /\ UNCHANGED <<spaces, foreground>>
           \/ /\ Stops(result)
              /\ sched' = dispatch_next(charged)
              /\ panic' = (result.reason = "BudgetExhausted" /\ ~CanPreempt(sched, slot0))
              /\ spaces' = Released(spaces, launch.space)
              /\ foreground' = Idle
  BY DEF ExecuteSlice
<1> DEFINE c == ChargeResult(sched, launch.id, slot, result)
<1>6. \/ /\ ~Stops(result)
         /\ sched' = resume(c, slot)
         /\ panic' = ~(CanPreempt(sched, slot) /\ CanResume(c, slot))
         /\ UNCHANGED <<spaces, foreground>>
      \/ /\ Stops(result)
         /\ sched' = dispatch_next(c)
         /\ panic' = (result.reason = "BudgetExhausted" /\ ~CanPreempt(sched, slot))
         /\ spaces' = Released(spaces, launch.space)
         /\ foreground' = Idle
  BY <1>4, <1>5
<1>7. CanPreempt(sched, slot) /\ sched.contexts[slot].id = launch.id
      /\ sched.contexts[slot].identity = launch.form /\ Ticks(sched.contexts[slot]) > 0
  BY <1>3 DEF CanPreempt, LivesIn
<1>8. /\ SchedOK(c) /\ Frame(sched, c, slot)
      /\ c.contexts[slot].id = launch.id
      /\ c.contexts[slot].identity = sched.contexts[slot].identity
      /\ ~Stops(result) => /\ c.contexts[slot].state = "Ready"
                           /\ Ticks(c.contexts[slot]) > 0
      /\ c.contexts[slot].state = "BudgetBlocked" => Ticks(c.contexts[slot]) = 0
  <2>1. result \in SliceResults(Ticks(sched.contexts[slot]))
        /\ sched.contexts[slot].state # "Absent"
    BY <1>3, <1>4
  <2>2. AfterSlice(sched, ChargeResult(sched, sched.contexts[slot].id, slot, result),
                   slot, result)
    BY <1>1, <1>7, <2>1, ChargeResultFacts
  <2>3. AfterSlice(sched, c, slot, result)
    BY <1>7, <2>2
  <2> HIDE DEF c, launch
  <2> QED  BY <1>7, <2>3 DEF AfterSlice
<1> HIDE DEF c, launch, fg
<1>9. BlockedIsSpent(c)
  BY <1>1, <1>8, BlockedFrame
<1>10. CASE ~Stops(result)
  <2> DEFINE r == resume(c, slot)
  <2>1. CanResume(c, slot) /\ LivesIn(c, launch, slot)
    BY <1>7, <1>8, <1>10 DEF CanResume, LivesIn, Reusable, Ended
  <2>2. SchedOK(r) /\ Frame(c, r, NoSlot) /\ r.contexts[slot].state = "Running"
    BY <1>8, <2>1, ResumeFrame
  <2>3. sched' = r /\ panic' = FALSE /\ UNCHANGED <<spaces, foreground>>
    BY <1>6, <1>7, <1>10, <2>1
  <2> HIDE DEF r
  <2>4. Holds(c, spaces, background, fg)
    BY <1>1, <1>3, <1>8, <2>1, HoldsKept
  <2>5. LivesIn(r, launch, slot) /\ BlockedIsSpent(r) /\ Holds(r, spaces, background, fg)
    BY <1>9, <2>1, <2>2, <2>4, SlotFacts, LivesOn, BlockedFrame, HoldsFrame
  <2>6. ForegroundOK(r, foreground)
    BY <1>1, <1>2, <2>2, <2>5 DEF ForegroundOK, InState, launch, fg
  <2> QED  BY <1>1, <2>2, <2>3, <2>5, <2>6 DEF ShellInv, fg
<1>11. CASE Stops(result)
  <2> DEFINE d == dispatch_next(c)
             fg2 == <<[launch EXCEPT !.finished = TRUE]>>
  <2>1. /\ sched' = d /\ panic' = FALSE /\ spaces' = Released(spaces, launch.space)
        /\ foreground' = Idle
    BY <1>6, <1>7, <1>11
  <2>2. SchedOK(d) /\ Frame(c, d, NoSlot)
    BY <1>8, DispatchOK, DispatchFrame
  <2> HIDE DEF d
  <2>3. 1..Len(fg) = {1} /\ launch \in LaunchType
    BY <1>2, ElementOfSeq DEF launch
  <2>4. /\ Len(fg2) = Len(fg) /\ fg2[1] = [fg[1] EXCEPT !.finished = TRUE]
        /\ fg2[1].space = launch.space
    BY <1>2, <2>3 DEF launch, LaunchType
  <2> HIDE DEF fg2
  <2>5. Holds(c, spaces, background, fg2)
    BY <1>1, <1>3, <1>8, <2>3, <2>4, HoldsMarked DEF launch
  <2>6. BlockedIsSpent(d) /\ Holds(d, spaces, background, fg2)
    BY <1>9, <2>2, <2>5, SlotFacts, BlockedFrame, HoldsFrame
  <2>7. Holds(d, spaces', background, <<>>) /\ SpacesOK(spaces')
    <3>1. Len(fg2) = 1 /\ spaces' = Released(spaces, fg2[1].space)
      BY <1>2, <2>1, <2>4 DEF fg
    <3>2. /\ Holds(d, Released(spaces, fg2[1].space), background, <<>>)
          /\ SpacesOK(Released(spaces, fg2[1].space))
      BY <1>1, <2>6, <3>1, HoldsEndedOne
    <3> QED  BY <3>1, <3>2
  <2> QED  BY <1>1, <2>1, <2>2, <2>6, <2>7, IdleInv
<1> QED  BY <1>10, <1>11

LEMMA AfterOne ==
    ASSUME NEW S, NEW b \in S, NEW one \in Seq(S), Len(one) = 1
    PROVE  /\ Append(one, b) \in Seq(S) /\ Len(Append(one, b)) = 2
           /\ Append(one, b)[2] = b /\ Append(one, b)[1] = one[1]
BY SMTT(30)

LEMMA AppendToOne ==
    ASSUME NEW S, NEW b \in S, NEW one \in Seq(S), Len(one) = 1,
           NEW two \in Seq(S), Len(two) = 2, two[1] = one[1], two[2] = b
    PROVE  Append(one, b) = two
<1>1. /\ Append(one, b) \in Seq(S) /\ Len(Append(one,b)) = 2
      /\ Append(one,b)[2] = b /\ Append(one,b)[1] = one[1]
  BY AfterOne
<1> DEFINE s == Append(one, b)
<1> HIDE DEF s
<1>2. s \in Seq(S) /\ Len(s) = 2 /\ s[2] = b /\ s[1] = one[1]
  BY <1>1 DEF s
<1>3. \A i \in 1..2 : s[i] = two[i]
  BY <1>2
<1>4. s = two
  BY <1>2, <1>3, SeqEqual
<1> QED BY <1>4 DEF s

LEMMA AppendOne == ASSUME NEW S, NEW a \in S, NEW b \in S PROVE Append(<<a>>, b) = <<a, b>>
<1>1. <<a>> \in Seq(S) /\ Len(<<a>>) = 1 /\ <<a>>[1] = a
  OBVIOUS
<1>2. <<a, b>> \in Seq(S) /\ Len(<<a, b>>) = 2 /\ <<a, b>>[1] = a /\ <<a, b>>[2] = b
  OBVIOUS
<1> DEFINE one == <<a>>
           two == <<a, b>>
<1> HIDE DEF one, two
<1>3. /\ one \in Seq(S) /\ Len(one) = 1 
      /\ two \in Seq(S) /\ Len(two) = 2 /\ two[1] = one[1] /\ two[2] = b
  BY <1>1, <1>2 DEF one, two
<1>4. Append(one, b) = two
  BY <1>3, AppendToOne
<1> QED  BY <1>4 DEF one, two

LEMMA ExecuteParallelInv ==
    ASSUME ShellInv, NEW left \in Programs, NEW right \in Programs,
           ExecuteParallel(left, right)
    PROVE  ShellInv'
<1>1. /\ foreground = Idle /\ UNCHANGED <<background, background_cursor, panic>>
  BY DEF ExecuteParallel
<1>2. /\ SchedOK(sched) /\ BlockedIsSpent(sched) /\ SpacesOK(spaces)
      /\ background \in Seq(LaunchType) /\ background_cursor \in Nat
      /\ Holds(sched, spaces, background, <<>>) /\ panic = FALSE
  BY <1>1, IdleHolds
<1>3. PICK slot \in Slots, i \in PreparedSpace(spaces, left) :
        LET s == admit(sched, slot, left)
            sp == Opened(spaces, left, i)
            first == Launch(left, sched.next_id, i)
        IN
        /\ CanLaunch(sched, left, slot)
        /\ \/ \E other \in Slots, j \in PreparedSpace(sp, right) :
                /\ CanLaunch(s, right, other)
                /\ sched' = admit(s, other, right)
                /\ spaces' = Opened(sp, right, j)
                /\ foreground' = [kind |-> "parallel",
                      launches |-> <<first, Launch(right, s.next_id, j)>>]
           \/ /\ sched' = finish(s, first.id, slot)
              /\ spaces' \in {Released(sp, i)} \cup
                     {Closed(Released(sp, i), right, j) :
                        j \in PreparedSpace(sp, right)}
              /\ UNCHANGED foreground
  BY DEF ExecuteParallel
<1> DEFINE s == admit(sched, slot, left)
           sp == Opened(spaces, left, i)
           l == Launch(left, sched.next_id, i)
<1>4. /\ SchedOK(s) /\ SpacesOK(sp) /\ l \in LaunchType /\ ~l.finished
      /\ LivesIn(s, l, slot) /\ s.contexts[slot].state = "Ready"
      /\ BlockedIsSpent(s) /\ Good(s, sp, l)
  <2>1. CanLaunch(sched, left, slot)
    BY <1>3
  <2>2. AfterLaunch(sched, spaces, slot, i, s, sp, l)
    BY <1>2, <2>1, Launched
  <2> HIDE DEF s, sp, l
  <2> QED  BY <1>2, <2>2 DEF AfterLaunch
<1>5. <<>> \in Seq(LaunchType) /\ Append(<<>>, l) = <<l>> /\ <<l>> \in Seq(LaunchType)
  BY <1>4
<1>6. Holds(s, sp, background, <<l>>)
  <2>1. Holds(s, sp, background, Append(<<>>, l))
    BY <1>2, <1>3, <1>5, HoldsExecuted
  <2> QED  BY <1>5, <2>1
<1>7. l.space = i /\ i \in Spaces
  BY <1>2, PreparedIdle DEF Launch
<1>8. \/ \E other \in Slots, j \in PreparedSpace(sp, right) :
           /\ CanLaunch(s, right, other)
           /\ sched' = admit(s, other, right)
           /\ spaces' = Opened(sp, right, j)
           /\ foreground' = [kind |-> "parallel",
                 launches |-> <<l, Launch(right, s.next_id, j)>>]
      \/ /\ sched' = finish(s, l.id, slot)
         /\ spaces' \in {Released(sp, i)} \cup
                {Closed(Released(sp, i), right, j) : j \in PreparedSpace(sp, right)}
         /\ UNCHANGED foreground
  BY <1>3
<1> HIDE DEF s, sp, l
<1>9. ASSUME NEW other \in Slots, NEW j \in PreparedSpace(sp, right),
             CanLaunch(s, right, other), sched' = admit(s, other, right),
             spaces' = Opened(sp, right, j),
             foreground' = [kind |-> "parallel",
                            launches |-> <<l, Launch(right, s.next_id, j)>>]
      PROVE  ShellInv'
  <2> DEFINE t == admit(s, other, right)
             sp2 == Opened(sp, right, j)
             m == Launch(right, s.next_id, j)
             fg == <<l, m>>
  <2>1. /\ SchedOK(t) /\ SpacesOK(sp2) /\ m \in LaunchType /\ ~m.finished
        /\ LivesIn(t, m, other) /\ t.contexts[other].state = "Ready"
        /\ BlockedIsSpent(t) /\ Frame(s, t, other)
        /\ \A k \in Slots : k # other => t.contexts[k] = s.contexts[k]
        /\ Reusable(s.contexts[other])
    <3>1. AfterLaunch(s, sp, other, j, t, sp2, m)
      BY <1>4, <1>9, Launched
    <3> HIDE DEF t, sp2, m
    <3> QED  BY <1>4, <3>1 DEF AfterLaunch
  <2>2. Append(<<l>>, m) = fg
    <3>1. l \in LaunchType /\ m \in LaunchType
      BY <1>4, <2>1
    <3> HIDE DEF t, sp2, m, fg
    <3> QED  BY <3>1, AppendOne DEF fg
  <2>3. Holds(t, sp2, background, fg)
    <3>1. Holds(t, sp2, background, Append(<<l>>, m))
      BY <1>4, <1>5, <1>6, <1>9, HoldsExecuted
    <3> QED  BY <2>2, <3>1
  <2> HIDE DEF t, sp2, m
  <2>4. LivesIn(t, l, slot) /\ t.contexts[slot].state = "Ready"
    <3>1. slot # other
      BY <1>4, <2>1 DEF LivesIn
    <3> QED  BY <1>4, <2>1, <3>1, LivesOn
  <2>5. fg \in Seq(LaunchType) /\ Len(fg) = 2 /\ fg[1] = l /\ fg[2] = m
    BY <1>4, <2>1
  <2>6. \A k \in 1..2 : k = 1 \/ k = 2
    OBVIOUS
  <2>7. ForegroundOK(t, [kind |-> "parallel", launches |-> fg])
    <3>1. \A k \in 1..2 : InState(t, fg[k], "Ready")
      BY <2>1, <2>4, <2>5, <2>6 DEF InState
    <3> HIDE DEF fg
    <3> QED  BY <2>5, <3>1 DEF ForegroundOK
  <2>8. /\ sched' = t /\ spaces' = sp2
        /\ foreground' = [kind |-> "parallel", launches |-> fg]
    BY <1>9 DEF t, sp2, m
  <2> HIDE DEF fg
  <2> QED  BY <1>1, <1>2, <2>1, <2>3, <2>7, <2>8 DEF ShellInv
<1>10. ASSUME sched' = finish(s, l.id, slot), UNCHANGED foreground,
              spaces' \in {Released(sp, i)} \cup
                {Closed(Released(sp, i), right, j) : j \in PreparedSpace(sp, right)}
       PROVE  ShellInv'
  <2> DEFINE e == finish(s, l.id, slot)
             free == Released(sp, i)
             fg2 == <<[l EXCEPT !.finished = TRUE]>>
  <2>1. "Exited" \in States \ {"Running"} /\ "Exited" \in States
    BY DEF States
  <2>2. Position(s, l.id, slot)
    BY <1>4, RemainingIs
  <2>3. SchedOK(e) /\ Frame(s, e, slot) /\ e.contexts[slot].state = "Exited"
    <3>1. SchedOK(e)
      BY <1>4, <2>1, <2>2, StopStateOK DEF finish
    <3>2. AfterState(s, e, slot, "Exited")
      BY <1>4, <2>1, StateFrame DEF finish
    <3> HIDE DEF e
    <3> QED  BY <3>1, <3>2 DEF AfterState
  <2> HIDE DEF e
  <2>4. BlockedIsSpent(e)
    BY <1>4, <2>3, BlockedFrame
  <2>5. /\ Len(<<l>>) = 1 /\ <<l>>[1] = l /\ Len(fg2) = 1
        /\ fg2[1] = [l EXCEPT !.finished = TRUE] /\ fg2[1].space = i
    BY <1>4, <1>7 DEF LaunchType
  <2> HIDE DEF fg2
  <2>6. Holds(e, sp, background, fg2)
    BY <1>4, <1>6, <2>3, <2>5, HoldsMarked
  <2>7. Holds(e, free, background, <<>>) /\ SpacesOK(free)
    BY <1>4, <2>5, <2>6, HoldsEndedOne
  <2>8. /\ ~free[i].active /\ \A k \in Spaces : k # i => free[k] = sp[k]
    BY <1>4, <1>7, ReleaseSpace
  <2> HIDE DEF free
  <2>9. spaces' = free \/ \E j \in PreparedSpace(sp, right) : spaces' = Closed(free, right, j)
    BY <1>10 DEF free
  <2>10. ASSUME NEW j \in PreparedSpace(sp, right)
         PROVE  Holds(e, Closed(free, right, j), background, <<>>)
                /\ SpacesOK(Closed(free, right, j))
    <3>1. j \in Spaces /\ ~sp[j].active
      BY <1>4, PreparedIdle
    <3>2. ~free[j].active
      BY <2>8, <3>1
    <3> QED  BY <2>7, <3>1, <3>2, HoldsClosed
  <2>11. Holds(e, spaces', background, <<>>) /\ SpacesOK(spaces')
    BY <2>7, <2>9, <2>10
  <2>12. sched' = e
    BY <1>10 DEF e
  <2> QED  BY <1>1, <1>2, <1>10, <2>3, <2>4, <2>11, <2>12, IdleInv
<1> QED  BY <1>8, <1>9, <1>10

LEMMA ParallelRoundInv ==
    ASSUME ShellInv, ParallelRound
    PROVE  ShellInv'
<1> DEFINE fg == foreground.launches
           left == fg[1]
           right == fg[2]
           Results(launch) == IF launch.finished THEN {NotRun}
                              ELSE SliceResults(Remaining(sched, launch))
           Account(s, launch, result) ==
               IF launch.finished THEN s ELSE account_parallel_slice(s, launch, result)
           After(launch, result) == [launch EXCEPT !.finished = @ \/ Stops(result)]
<1>1. /\ SchedOK(sched) /\ BlockedIsSpent(sched) /\ SpacesOK(spaces)
      /\ background \in Seq(LaunchType) /\ background_cursor \in Nat
      /\ Holds(sched, spaces, background, fg) /\ foreground.kind = "parallel"
      /\ UNCHANGED <<background, background_cursor>>
  BY DEF ShellInv, ParallelRound
<1>2. /\ fg \in Seq(LaunchType) /\ Len(fg) = 2 /\ ReadyPair(sched, fg)
      /\ foreground = [kind |-> "parallel", launches |-> fg]
  BY <1>1 DEF ShellInv, ForegroundOK, ReadyPair
<1>3. PICK a \in Results(left), b \in Results(right) :
        \E s \in {Account(sched, left, a)} :
        \E accounted \in {Account(s, right, b)} :
        LET launches == <<After(left, a), After(right, b)>> IN
        /\ panic' = \/ ~left.finished /\ ~AccountExpected(sched, left)
                    \/ ~right.finished /\ ~AccountExpected(s, right)
        /\ \/ /\ launches[1].finished /\ launches[2].finished
              /\ sched' = dispatch_next(accounted)
              /\ spaces' = Released(Released(spaces, left.space), right.space)
              /\ foreground' = Idle
           \/ /\ ~(launches[1].finished /\ launches[2].finished)
              /\ sched' = accounted
              /\ foreground' = [foreground EXCEPT !.launches = launches]
              /\ UNCHANGED spaces
  BY DEF ParallelRound
<1> DEFINE s == Account(sched, left, a)
           u == Account(s, right, b)
           fg1 == <<After(left, a), right>>
           fg2 == <<After(left, a), After(right, b)>>
<1>4. /\ panic' = \/ ~left.finished /\ ~AccountExpected(sched, left)
                  \/ ~right.finished /\ ~AccountExpected(s, right)
      /\ \/ /\ fg2[1].finished /\ fg2[2].finished
            /\ sched' = dispatch_next(u)
            /\ spaces' = Released(Released(spaces, left.space), right.space)
            /\ foreground' = Idle
         \/ /\ ~(fg2[1].finished /\ fg2[2].finished)
            /\ sched' = u
            /\ foreground' = [foreground EXCEPT !.launches = fg2]
            /\ UNCHANGED spaces
  BY <1>3
<1>5. 1 \in 1..2 /\ 2 \in 1..2 /\ \A i \in 1..2 : i = 1 \/ i = 2
  OBVIOUS
<1>6. left \in LaunchType /\ right \in LaunchType
  BY <1>2, <1>5, ElementOfSeq
<1>7. /\ After(left, a) \in LaunchType /\ After(left, a).space = left.space
      /\ After(right, b) \in LaunchType /\ After(right, b).space = right.space
  BY <1>6 DEF LaunchType, Stops
<1> HIDE DEF After
<1>8. /\ fg1 \in Seq(LaunchType) /\ Len(fg1) = 2
      /\ fg1[1] = After(left, a) /\ fg1[2] = right
      /\ fg2 \in Seq(LaunchType) /\ Len(fg2) = 2
      /\ fg2[1] = After(left, a) /\ fg2[2] = After(right, b)
  BY <1>6, <1>7
<1> HIDE DEF fg1, fg2
<1>9. /\ SchedOK(s) /\ BlockedIsSpent(s) /\ Holds(s, spaces, background, fg1)
      /\ ReadyPair(s, fg1)
      /\ ~left.finished => AccountExpected(sched, left)
      /\ ~right.finished => Remaining(s, right) = Remaining(sched, right)
  <2>1. \A i \in 1..2 : i # 1 => fg1[i] = fg[i]
    BY <1>5, <1>8
  <2>2. fg1[1] = [fg[1] EXCEPT !.finished = @ \/ Stops(a)]
    BY <1>8 DEF After
  <2>3. a \in IF fg[1].finished THEN {NotRun} ELSE SliceResults(Remaining(sched, fg[1]))
    OBVIOUS
  <2>4. s = IF fg[1].finished THEN sched ELSE account_parallel_slice(sched, fg[1], a)
    OBVIOUS
  <2> HIDE DEF s, fg
  <2>5. AfterRound(sched, s, spaces, background, fg, fg1, 1)
    BY <1>1, <1>2, <1>5, <1>8, <2>1, <2>2, <2>3, <2>4, RoundStep
  <2> QED  BY <1>5, <2>5 DEF AfterRound
<1> HIDE DEF s
<1>10. /\ SchedOK(u) /\ BlockedIsSpent(u) /\ Holds(u, spaces, background, fg2)
       /\ ReadyPair(u, fg2)
       /\ ~right.finished => AccountExpected(s, right)
  <2>1. \A i \in 1..2 : i # 2 => fg2[i] = fg1[i]
    BY <1>5, <1>8
  <2>2. fg2[2] = [fg1[2] EXCEPT !.finished = @ \/ Stops(b)]
    BY <1>8 DEF After
  <2>3. b \in IF fg1[2].finished THEN {NotRun} ELSE SliceResults(Remaining(s, fg1[2]))
    BY <1>8, <1>9
  <2>4. u = IF fg1[2].finished THEN s ELSE account_parallel_slice(s, fg1[2], b)
    BY <1>8
  <2> HIDE DEF u, left, right
  <2>5. /\ SchedOK(s) /\ BlockedIsSpent(s) /\ Holds(s, spaces, background, fg1)
        /\ ReadyPair(s, fg1) /\ fg1 \in Seq(LaunchType) /\ Len(fg1) = 2
        /\ fg2 \in Seq(LaunchType) /\ Len(fg2) = 2 /\ 2 \in 1..2
    BY <1>5, <1>8, <1>9
  <2>6. AfterRound(s, IF fg1[2].finished THEN s ELSE account_parallel_slice(s, fg1[2], b),
                   spaces, background, fg1, fg2, 2)
    BY <2>1, <2>2, <2>3, <2>5, RoundStep
  <2>7. AfterRound(s, u, spaces, background, fg1, fg2, 2)
    BY <2>4, <2>6
  <2> QED  BY <1>8, <2>7 DEF AfterRound
<1> HIDE DEF u
<1>11. panic' = FALSE
  <2>1. panic' = (\/ ~left.finished /\ ~AccountExpected(sched, left)
                  \/ ~right.finished /\ ~AccountExpected(s, right))
    BY <1>4
  <2> HIDE DEF left, right
  <2> QED  BY <1>9, <1>10, <2>1
<1>12. CASE fg2[1].finished /\ fg2[2].finished
  <2> DEFINE d == dispatch_next(u)
  <2>1. /\ sched' = d /\ foreground' = Idle
        /\ spaces' = Released(Released(spaces, fg2[1].space), fg2[2].space)
    BY <1>4, <1>7, <1>8, <1>12
  <2>2. SchedOK(d) /\ Frame(u, d, NoSlot)
    BY <1>10, DispatchOK, DispatchFrame
  <2> HIDE DEF d
  <2>3. BlockedIsSpent(d) /\ Holds(d, spaces, background, fg2)
    BY <1>10, <2>2, SlotFacts, BlockedFrame, HoldsFrame
  <2>4. Holds(d, spaces', background, <<>>) /\ SpacesOK(spaces')
    BY <1>1, <1>8, <2>1, <2>3, HoldsEndedTwo
  <2> QED  BY <1>1, <1>11, <2>1, <2>2, <2>3, <2>4, IdleInv
<1>13. CASE ~(fg2[1].finished /\ fg2[2].finished)
  <2>1. /\ sched' = u /\ UNCHANGED spaces
        /\ foreground' = [kind |-> "parallel", launches |-> fg2]
    BY <1>2, <1>4, <1>13
  <2>2. ForegroundOK(u, [kind |-> "parallel", launches |-> fg2])
    <3> HIDE DEF fg, left, right
    <3>1. \A i \in 1..2 : ~fg2[i].finished => InState(u, fg2[i], "Ready")
      BY <1>10 DEF ReadyPair
    <3> QED  BY <1>8, <3>1 DEF ForegroundOK
  <2> QED  BY <1>1, <1>10, <1>11, <2>1, <2>2 DEF ShellInv
<1> QED  BY <1>12, <1>13

\* start_background, from the state formctl start or the first half of formctl
\* restart leaves.
LEMMA StartInv ==
    ASSUME NEW s, SchedOK(s), BlockedIsSpent(s), NEW sp, SpacesOK(sp),
           NEW bg \in Seq(LaunchType), Holds(s, sp, bg, <<>>),
           NEW form \in Programs, start_background(s, sp, bg, form),
           background_cursor \in Nat, foreground = Idle, panic = FALSE,
           UNCHANGED <<background_cursor, foreground, panic>>
    PROVE  ShellInv'
<1>1. ASSUME NEW slot \in Slots, NEW i \in PreparedSpace(sp, form),
             CanLaunch(s, form, slot), sched' = admit(s, slot, form),
             spaces' = Opened(sp, form, i),
             background' = Append(bg, Launch(form, s.next_id, i))
      PROVE  ShellInv'
  <2>1. /\ SchedOK(sched') /\ SpacesOK(spaces') /\ BlockedIsSpent(sched')
        /\ Launch(form, s.next_id, i) \in LaunchType
    <3>1. AfterLaunch(s, sp, slot, i, sched', spaces', Launch(form, s.next_id, i))
      BY <1>1, Launched
    <3> QED  BY <3>1 DEF AfterLaunch
  <2>2. Holds(sched', spaces', background', <<>>)
    BY <1>1, HoldsStarted
  <2>3. background' \in Seq(LaunchType)
    BY <1>1, <2>1, Appended
  <2> QED  BY <2>1, <2>2, <2>3, IdleInv
<1>2. ASSUME NEW i \in PreparedSpace(sp, form), sched' = s,
             spaces' = Closed(sp, form, i), background' = bg
      PROVE  ShellInv'
  <2>1. i \in Spaces /\ ~sp[i].active
    BY PreparedIdle
  <2>2. Holds(s, spaces', bg, <<>>) /\ SpacesOK(spaces')
    BY <1>2, <2>1, HoldsClosed
  <2> QED  BY <1>2, <2>2, IdleInv
<1>3. ASSUME sched' = s, spaces' = sp, background' = bg
      PROVE  ShellInv'
  BY <1>3, IdleInv
<1> QED  BY <1>1, <1>2, <1>3 DEF start_background

\* A background launch holds a live context.
LEMMA BackgroundLives ==
    ASSUME ShellInv, NEW index \in 1..Len(background)
    PROVE  /\ \E slot \in Slots : LivesIn(sched, background[index], slot)
           /\ background[index] \in LaunchType
BY DEF ShellInv, Holds, Good

LEMMA PollInv ==
    ASSUME ShellInv, poll_background
    PROVE  ShellInv'
<1> DEFINE n == Len(background)
           index == (background_cursor % n) + 1
           launch == background[index]
           rest == swap_remove(background, index)
<1>1. foreground = Idle /\ background # <<>>
  BY DEF poll_background
<1>2. /\ SchedOK(sched) /\ BlockedIsSpent(sched) /\ SpacesOK(spaces)
      /\ background \in Seq(LaunchType) /\ background_cursor \in Nat
      /\ Holds(sched, spaces, background, <<>>) /\ panic = FALSE
  BY <1>1, IdleHolds
<1>3. n \in Nat \ {0}
  BY <1>1, <1>2, EmptySeq, LenProperties
<1>4. index \in 1..n /\ index % n \in Nat /\ index - 1 \in Nat
  BY <1>2, <1>3
<1>5. \/ /\ ContextOf(sched, launch).state # "Ready"
         /\ background_cursor' = SkipTo(index)
         /\ UNCHANGED <<sched, spaces, background, foreground, panic>>
      \/ /\ ContextOf(sched, launch).state = "Ready"
         /\ \E result \in SliceResults(Remaining(sched, launch)) :
               /\ sched' = account_parallel_slice(sched, launch, result)
               /\ panic' = ~AccountExpected(sched, launch)
               /\ \/ /\ Stops(result)
                     /\ spaces' = Released(spaces, launch.space)
                     /\ background' = rest
                     /\ background_cursor' = index - 1
                  \/ /\ ~Stops(result)
                     /\ background' = Append(rest, launch)
                     /\ background_cursor' = index % Len(background)
                     /\ UNCHANGED spaces
         /\ UNCHANGED foreground
  BY DEF poll_background
<1> HIDE DEF index
<1>6. CASE ContextOf(sched, launch).state # "Ready"
  <2>1. /\ background_cursor' = SkipTo(index)
        /\ UNCHANGED <<sched, spaces, background, foreground, panic>>
    BY <1>5, <1>6
  <2>2. background_cursor' \in Nat
    BY <1>4, <2>1 DEF SkipTo
  <2> QED  BY <1>1, <1>2, <2>1, <2>2, IdleInv
<1>7. CASE ContextOf(sched, launch).state = "Ready"
  <2>1. PICK slot \in Slots : LivesIn(sched, launch, slot)
    BY <1>4, BackgroundLives
  <2>2. sched.contexts[slot].state = "Ready"
    BY <1>2, <1>7, <2>1, RemainingIs
  <2>3. PICK result \in SliceResults(Remaining(sched, launch)) :
          /\ sched' = account_parallel_slice(sched, launch, result)
          /\ panic' = ~AccountExpected(sched, launch)
          /\ \/ /\ Stops(result)
                /\ spaces' = Released(spaces, launch.space)
                /\ background' = rest
                /\ background_cursor' = index - 1
             \/ /\ ~Stops(result)
                /\ background' = Append(rest, launch)
                /\ background_cursor' = index % Len(background)
                /\ UNCHANGED spaces
    BY <1>5, <1>7
  <2>4. /\ AccountExpected(sched, launch)
        /\ SchedOK(sched') /\ BlockedIsSpent(sched') /\ Frame(sched, sched', slot)
        /\ ~Stops(result) => LivesIn(sched', launch, slot)
    BY <1>2, <2>1, <2>2, <2>3, AccountedSlice
  <2>5. panic' = FALSE /\ background_cursor' \in Nat /\ foreground' = Idle
    BY <1>1, <1>4, <1>5, <1>7, <2>3, <2>4
  <2>6. CASE Stops(result)
    <3>1. /\ Holds(sched', spaces', background', <<>>) /\ SpacesOK(spaces')
          /\ background' \in Seq(LaunchType)
      BY <1>2, <1>4, <2>1, <2>3, <2>4, <2>6, HoldsRemoved
    <3> QED  BY <2>4, <2>5, <3>1, IdleInv
  <2>7. CASE ~Stops(result)
    <3>1. Holds(sched', spaces, background, <<>>)
      BY <1>2, <2>1, <2>4, <2>7, HoldsKept
    <3>2. /\ Holds(sched', spaces, background', <<>>)
          /\ background' \in Seq(LaunchType) /\ UNCHANGED spaces
      BY <1>2, <1>4, <2>3, <2>7, <3>1, HoldsMoved
    <3> QED  BY <1>2, <2>4, <2>5, <3>2, IdleInv
  <2> QED  BY <2>6, <2>7
<1> QED  BY <1>6, <1>7

\* A call of formctl replaces the live context of a launch by a live one.
LEMMA PutLive ==
    ASSUME ShellInv, NEW launch, NEW slot \in Slots, LivesIn(sched, launch, slot),
           foreground = Idle, UNCHANGED shell, SchedOK(sched'),
           Frame(sched, sched', slot),
           sched'.contexts[slot].id = sched.contexts[slot].id,
           sched'.contexts[slot].identity = sched.contexts[slot].identity,
           Ticks(sched'.contexts[slot]) = Ticks(sched.contexts[slot]),
           ~Reusable(sched'.contexts[slot]),
           sched'.contexts[slot].state # "BudgetBlocked"
    PROVE  ShellInv'
<1>1. /\ SchedOK(sched) /\ BlockedIsSpent(sched) /\ SpacesOK(spaces)
      /\ background \in Seq(LaunchType) /\ background_cursor \in Nat
      /\ Holds(sched, spaces, background, <<>>) /\ panic = FALSE
  BY IdleHolds
<1>2. LivesIn(sched', launch, slot)
  BY DEF LivesIn
<1>3. Holds(sched', spaces, background, <<>>) /\ BlockedIsSpent(sched')
  BY <1>1, <1>2, HoldsKept, BlockedFrame
<1> QED  BY <1>1, <1>3, IdleInv DEF shell

LEMMA PutFrame ==
    ASSUME NEW s, SchedOK(s), NEW slot \in Slots, NEW c
    PROVE  Put(s, slot, c).contexts[slot] = c /\ Frame(s, Put(s, slot, c), slot)
<1> DEFINE t == Put(s, slot, c)
<1>1. s \in SchedulerType /\ s.next_id \in Nat
  BY DEF SchedOK, SchedulerType
<1>2. t.next_id = s.next_id /\ t.contexts = [s.contexts EXCEPT ![slot] = c]
  BY <1>1 DEF Put, SchedulerType
<1> HIDE DEF t
<1>3. \A i \in Slots : t.contexts[i] = IF i = slot THEN c ELSE s.contexts[i]
  BY <1>1, <1>2 DEF SchedulerType
<1>4. Frame(s, t, slot)
  BY <1>1, <1>2, <1>3, SameSelf DEF Frame
<1> QED  BY <1>3, <1>4 DEF t

\* A message pushed to a context leaves its ticks alone.
LEMMA PushTicks ==
    ASSUME NEW c \in ContextType, NEW len \in Nat
    PROVE  /\ push_message(c, len).id = c.id
           /\ push_message(c, len).identity = c.identity
           /\ push_message(c, len).state = c.state
           /\ Ticks(push_message(c, len)) = Ticks(c)
<1> DEFINE b1 == charge(c.budget, "IpcMessages", 1)
           b2 == charge(b1, "IpcBytes", len)
           p == push_message(c, len)
<1>1. /\ c.budget \in [Kinds -> AccountType]
      /\ "IpcMessages" \in Kinds /\ "IpcBytes" \in Kinds /\ "CpuTicks" \in Kinds
  BY DEF ContextType, Kinds
<1>2. /\ b1 \in [Kinds -> AccountType]
      /\ b1["CpuTicks"].soft = c.budget["CpuTicks"].soft
      /\ b1["CpuTicks"].used = c.budget["CpuTicks"].used
  BY <1>1, ChargeOK
<1> HIDE DEF b1
<1>3. /\ b2["CpuTicks"].soft = b1["CpuTicks"].soft
      /\ b2["CpuTicks"].used = b1["CpuTicks"].used
  BY <1>1, <1>2, ChargeOK
<1> HIDE DEF b2
<1>4. p = [c EXCEPT !.messages = Append(c.messages, len), !.budget = b2]
  BY DEF push_message, b1, b2
<1>5. p.id = c.id /\ p.identity = c.identity /\ p.state = c.state /\ p.budget = b2
  BY <1>4 DEF ContextType
<1> HIDE DEF p
<1>6. Ticks(p) = Ticks(c)
  BY <1>2, <1>3, <1>5 DEF Ticks, remaining_before_soft
<1> QED  BY <1>5, <1>6 DEF p

LEMMA SendInv ==
    ASSUME ShellInv, NEW launch, NEW slot \in Slots, LivesIn(sched, launch, slot),
           foreground = Idle, UNCHANGED shell, SendMessage(slot)
    PROVE  ShellInv'
<1>1. PICK len \in Lengths : /\ CanPush(sched.contexts[slot], len)
                             /\ sched' = send_message(sched, slot, len)
  BY DEF SendMessage
<1> DEFINE c == sched.contexts[slot]
           p == push_message(c, len)
           state == IF p.state = "Waiting" THEN "Ready" ELSE p.state
           q == [p EXCEPT !.state = state]
<1>2. SchedOK(sched) /\ c \in ContextType /\ len \in Nat /\ ContextOK(c)
  BY ContextTyped, SchedulerAssumption DEF ShellInv, SchedOK
<1>3. /\ p.id = c.id /\ p.identity = c.identity /\ p.state = c.state
      /\ Ticks(p) = Ticks(c)
  BY <1>2, PushTicks
<1>4. p \in ContextType
  BY <1>1, <1>2, PushOK
<1>5. c.state \notin {"Absent", "Exited", "Terminated"} /\ Ticks(c) > 0
  BY DEF LivesIn, Reusable, Ended
<1>6. c.state # "BudgetBlocked"
  <2>1. BlockedIsSpent(sched)
    BY DEF ShellInv
  <2>2. c.state = "BudgetBlocked" => Ticks(c) = 0
    BY <2>1 DEF BlockedIsSpent
  <2> QED  BY <1>5, <2>2
<1>7. SchedOK(sched')
  BY <1>1, <1>2, <1>5, SendOK
<1>8. sched' = Put(sched, slot, q)
  <2> HIDE DEF p
  <2>1. q = [p EXCEPT !.state = IF @ = "Waiting" THEN "Ready" ELSE @]
    BY <1>4 DEF ContextType
  <2> HIDE DEF q
  <2>2. sched' = [sched EXCEPT !.contexts[slot] = q]
    BY <1>1, <2>1 DEF send_message, p
  <2> QED  BY <2>2 DEF Put
<1> HIDE DEF p
<1>9. /\ q.id = p.id /\ q.identity = p.identity /\ q.state = state /\ q.budget = p.budget
  BY <1>4 DEF ContextType
<1> HIDE DEF q
<1>10. Ticks(q) = Ticks(p)
  BY <1>9 DEF Ticks
<1>11. sched'.contexts[slot] = q /\ Frame(sched, sched', slot)
  BY <1>2, <1>8, PutFrame
<1>12. ~Reusable(q) /\ q.state # "BudgetBlocked"
  BY <1>3, <1>5, <1>6, <1>9 DEF Reusable, Ended
<1> QED  BY <1>3, <1>7, <1>9, <1>10, <1>11, <1>12, PutLive

\* formctl pause, continue, wake, wait and send.
LEMMA FormctlCallInv ==
    ASSUME ShellInv, NEW index \in 1..Len(background), FormctlCall(index)
    PROVE  ShellInv'
<1> DEFINE launch == background[index]
           id == launch.id
<1>1. PICK slot \in Slots : LivesIn(sched, launch, slot)
  BY BackgroundLives
<1>2. SchedOK(sched)
  BY DEF ShellInv
<1>3. SlotOf(sched, id) = slot /\ Position(sched, id, slot)
  BY <1>1, <1>2, RemainingIs
<1>4. /\ foreground = Idle /\ UNCHANGED shell
      /\ \/ Pause(id, slot) \/ Continue(slot) \/ Wake(slot)
         \/ Wait(id, slot) \/ SendMessage(slot)
  BY <1>3 DEF FormctlCall
<1>5. /\ {"Paused", "Waiting", "Ready"} \subseteq States
      /\ {"Paused", "Waiting"} \subseteq States \ {"Running"}
  BY DEF States
<1>6. ASSUME NEW state \in {"Paused", "Waiting"},
             sched' = ClearIfCurrent(SetState(sched, slot, state), id)
      PROVE  ShellInv'
  <2>1. state \in States /\ state \in States \ {"Running"}
    BY <1>5
  <2>2. SchedOK(sched')
    BY <1>2, <1>3, <1>6, <2>1, StopStateOK
  <2>3. /\ Frame(sched, sched', slot)
        /\ sched'.contexts[slot].id = sched.contexts[slot].id
        /\ sched'.contexts[slot].identity = sched.contexts[slot].identity
        /\ Ticks(sched'.contexts[slot]) = Ticks(sched.contexts[slot])
        /\ sched'.contexts[slot].state = state
    <3>1. AfterState(sched, ClearIfCurrent(SetState(sched, slot, state), id), slot, state)
      BY <1>2, <2>1, StateFrame
    <3>2. AfterState(sched, sched', slot, state)
      BY <1>6, <3>1
    <3> QED  BY <3>2 DEF AfterState
  <2>4. ~Reusable(sched'.contexts[slot]) /\ sched'.contexts[slot].state # "BudgetBlocked"
    BY <2>3 DEF Reusable, Ended
  <2> QED  BY <1>1, <1>4, <2>2, <2>3, <2>4, PutLive
<1>7. ASSUME sched' = SetState(sched, slot, "Ready"),
             sched.contexts[slot].state \in {"Paused", "Waiting"}
      PROVE  ShellInv'
  <2> DEFINE c == [sched.contexts[slot] EXCEPT !.state = "Ready"]
  <2>1. SchedOK(sched')
    BY <1>2, <1>7, ReadyOK
  <2>2. sched' = Put(sched, slot, c)
    BY <1>2, <1>5, <1>7, SetStateIsPut
  <2>3. /\ c.id = sched.contexts[slot].id /\ c.identity = sched.contexts[slot].identity
        /\ c.budget = sched.contexts[slot].budget /\ c.state = "Ready"
    BY <1>2, ContextTyped DEF ContextType
  <2> HIDE DEF c
  <2>4. sched'.contexts[slot] = c /\ Frame(sched, sched', slot)
    BY <1>2, <2>2, PutFrame
  <2>5. Ticks(c) = Ticks(sched.contexts[slot]) /\ ~Reusable(c)
    BY <2>3 DEF Ticks, Reusable, Ended
  <2>6. c.state # "BudgetBlocked"
    BY <2>3
  <2> QED  BY <1>1, <1>4, <2>1, <2>3, <2>4, <2>5, <2>6, PutLive
<1>8. CASE Pause(id, slot)
  BY <1>6, <1>8 DEF Pause, pause
<1>9. CASE Wait(id, slot)
  BY <1>6, <1>9 DEF Wait, wait
<1>10. CASE Continue(slot)
  BY <1>7, <1>10 DEF Continue, continue_context, CanContinue
<1>11. CASE Wake(slot)
  BY <1>7, <1>11 DEF Wake, wake, CanWake
<1>12. CASE SendMessage(slot)
  BY <1>1, <1>4, <1>12, SendInv
<1> QED  BY <1>4, <1>8, <1>9, <1>10, <1>11, <1>12

\* terminate, as formctl terminate and restart use it.
LEMMA TerminatedHolds ==
    ASSUME ShellInv, foreground = Idle, NEW index \in 1..Len(background)
    PROVE  /\ SchedOK(Terminated(index).sched) /\ BlockedIsSpent(Terminated(index).sched)
           /\ SpacesOK(Terminated(index).spaces)
           /\ Terminated(index).background \in Seq(LaunchType)
           /\ Holds(Terminated(index).sched, Terminated(index).spaces,
                    Terminated(index).background, <<>>)
<1> DEFINE launch == background[index]
           id == launch.id
<1>1. PICK slot \in Slots : LivesIn(sched, launch, slot)
  BY BackgroundLives
<1>2. /\ SchedOK(sched) /\ BlockedIsSpent(sched) /\ SpacesOK(spaces)
      /\ background \in Seq(LaunchType) /\ Holds(sched, spaces, background, <<>>)
  BY IdleHolds
<1>3. SlotOf(sched, id) = slot /\ Position(sched, id, slot)
  BY <1>1, <1>2, RemainingIs
<1> DEFINE t == ClearIfCurrent(SetState(sched, slot, "Terminated"), id)
<1>4. "Terminated" \in States \ {"Running"} /\ "Terminated" \in States
  BY DEF States
<1>5. SchedOK(t) /\ Frame(sched, t, slot) /\ t.contexts[slot].state = "Terminated"
  <2>1. SchedOK(t)
    BY <1>2, <1>3, <1>4, StopStateOK
  <2>2. AfterState(sched, t, slot, "Terminated")
    BY <1>2, <1>4, StateFrame
  <2> HIDE DEF t
  <2> QED  BY <2>1, <2>2 DEF AfterState
<1>6. /\ Terminated(index).sched = t
      /\ Terminated(index).spaces = Released(spaces, launch.space)
      /\ Terminated(index).background = swap_remove(background, index)
  BY <1>3 DEF Terminated, terminate
<1> HIDE DEF t
<1>7. BlockedIsSpent(t)
  BY <1>2, <1>5, BlockedFrame
<1>8. /\ Holds(t, Released(spaces, launch.space), swap_remove(background, index), <<>>)
      /\ SpacesOK(Released(spaces, launch.space))
      /\ swap_remove(background, index) \in Seq(LaunchType)
  BY <1>1, <1>2, <1>5, HoldsRemoved
<1> QED  BY <1>5, <1>6, <1>7, <1>8

LEMMA FormctlInv ==
    ASSUME ShellInv, NEW index \in 1..Len(background), Formctl(index)
    PROVE  ShellInv'
<1>1. CASE FormctlCall(index)
  BY <1>1, FormctlCallInv
<1>2. CASE FormctlTerminate(index)
  <2>1. /\ foreground = Idle /\ UNCHANGED <<background_cursor, foreground, panic>>
        /\ sched' = Terminated(index).sched /\ spaces' = Terminated(index).spaces
        /\ background' = Terminated(index).background
    BY <1>2 DEF FormctlTerminate
  <2>2. background_cursor \in Nat /\ panic = FALSE
    BY DEF ShellInv
  <2> QED  BY <2>1, <2>2, TerminatedHolds, IdleInv
<1>3. CASE FormctlRestart(index)
  <2>1. /\ foreground = Idle /\ UNCHANGED <<background_cursor, foreground, panic>>
        /\ start_background(Terminated(index).sched, Terminated(index).spaces,
                            Terminated(index).background, background[index].form)
    BY <1>3 DEF FormctlRestart
  <2>2. background_cursor \in Nat /\ panic = FALSE
    BY DEF ShellInv
  <2>3. background[index].form \in Programs
    BY BackgroundLives DEF LaunchType
  <2> QED  BY <2>1, <2>2, <2>3, TerminatedHolds, StartInv
<1> QED  BY <1>1, <1>2, <1>3 DEF Formctl

-----------------------------------------------------------------------------
(* The state machine.                                                      *)

LEMMA ShellInitInv == ShellInit => ShellInv
<1> SUFFICES ASSUME ShellInit PROVE ShellInv
  OBVIOUS
<1> DEFINE e == EmptyScheduler
           a == admit(e, 0, Root)
           d == dispatch_next(a)
<1>1. 0 \in Slots /\ Root \in Identities
  BY SchedulerAssumption, LifecycleAssumption DEF Slots
<1>2. \A slot \in Slots : e.contexts[slot].state = "Absent"
  BY DEF EmptyScheduler, Absent, NewContext
<1>3. SchedOK(e)
  BY EmptyOK
<1> HIDE DEF e
<1>4. Reusable(e.contexts[0]) /\ BlockedIsSpent(e)
  BY <1>1, <1>2 DEF Reusable, BlockedIsSpent
<1>5. /\ SchedOK(a) /\ Frame(e, a, 0)
      /\ a.contexts[0] = NewContext(e.next_id, Root)
  BY <1>1, <1>3, <1>4, AdmitFrame
<1>6. a.contexts[0].state = "Ready"
  BY <1>5, NewTicks
<1> HIDE DEF a
<1>7. BlockedIsSpent(a)
  BY <1>4, <1>5, <1>6, BlockedFrame
<1>8. SchedOK(d) /\ Frame(a, d, NoSlot)
  BY <1>5, DispatchOK, DispatchFrame
<1> HIDE DEF d
<1>9. BlockedIsSpent(d)
  BY <1>7, <1>8, SlotFacts, BlockedFrame
<1>10. sched = d
  BY DEF ShellInit, d, a, e
<1>11. SpacesOK(spaces) /\ \A i \in Spaces : ~spaces[i].active
  BY DEF ShellInit, SpacesOK, NativeSpace
<1>12. background = <<>> /\ background_cursor = 0 /\ foreground = Idle /\ panic = FALSE
  BY DEF ShellInit
<1>13. Len(<<>>) = 0 /\ 1..0 = {} /\ <<>> \in Seq(LaunchType)
  OBVIOUS
<1>14. Holds(sched, spaces, <<>>, <<>>)
  BY <1>11, <1>13 DEF Holds
<1>15. /\ Idle.kind = "idle" /\ Idle.launches = <<>>
       /\ Idle = [kind |-> Idle.kind, launches |-> Idle.launches]
  BY DEF Idle
<1>16. ForegroundOK(sched, Idle)
  BY <1>13, <1>15 DEF ForegroundOK
<1> QED  BY <1>8, <1>9, <1>10, <1>11, <1>12, <1>13, <1>14, <1>15, <1>16 DEF ShellInv

LEMMA StutterInv == ShellInv /\ UNCHANGED lifecycle => ShellInv'
BY DEF ShellInv, lifecycle, shell

LEMMA ShellStepInv == ShellInv /\ [ShellNext]_lifecycle => ShellInv'
<1> SUFFICES ASSUME ShellInv, [ShellNext]_lifecycle PROVE ShellInv'
  OBVIOUS
<1>1. CASE UNCHANGED lifecycle
  BY <1>1, StutterInv
<1>2. CASE ExecuteSlice
  BY <1>2, ExecuteSliceInv
<1>3. CASE ParallelRound
  BY <1>3, ParallelRoundInv
<1>4. CASE poll_background
  BY <1>4, PollInv
<1>5. ASSUME NEW form \in Documents, ExecuteDocument(form) PROVE ShellInv'
  BY <1>5, ExecuteDocumentInv
<1>6. ASSUME NEW form \in Programs, LaunchDenied(form) PROVE ShellInv'
  BY <1>6, DeniedInv DEF LaunchDenied
<1>7. ASSUME NEW form \in Programs, Execute(form) PROVE ShellInv'
  BY <1>7, ExecuteInv
<1>8. ASSUME NEW form \in Programs, FormctlStart(form) PROVE ShellInv'
  <2>1. /\ foreground = Idle /\ start_background(sched, spaces, background, form)
        /\ UNCHANGED <<background_cursor, foreground, panic>>
    BY <1>8 DEF FormctlStart
  <2> QED  BY <2>1, IdleHolds, StartInv
<1>9. ASSUME NEW left \in Programs, NEW right \in Programs, ExecuteParallel(left, right)
      PROVE  ShellInv'
  BY <1>9, ExecuteParallelInv
<1>10. ASSUME NEW service \in Services, RunService(service) PROVE ShellInv'
  BY <1>10, DeniedInv DEF RunService
<1>11. ASSUME NEW index \in 1..Len(background), Formctl(index) PROVE ShellInv'
  BY <1>11, FormctlInv
<1> QED  BY <1>1, <1>2, <1>3, <1>4, <1>5, <1>6, <1>7, <1>8, <1>9, <1>10, <1>11
            DEF ShellNext, ShellStep

-----------------------------------------------------------------------------
(* What the invariant says of the launches.                                *)

LEMMA LaunchIndex ==
    ASSUME NEW launch \in Launches
    PROVE  \/ \E i \in 1..Len(background) : launch = background[i]
           \/ \E i \in 1..Len(foreground.launches) : launch = foreground.launches[i]
BY DEF Launches

LEMMA LiveFromInv == ShellInv => LaunchesLive
<1> SUFFICES ASSUME ShellInv, NEW launch \in Launches, ~launch.finished
             PROVE  /\ \E slot \in Slots : Position(sched, launch.id, slot)
                    /\ ContextOf(sched, launch).identity = launch.form
                    /\ ~Reusable(ContextOf(sched, launch))
                    /\ Remaining(sched, launch) > 0
  BY DEF LaunchesLive
<1>1. SchedOK(sched) /\ Good(sched, spaces, launch)
  BY LaunchIndex DEF ShellInv, Holds
<1>2. PICK slot \in Slots : LivesIn(sched, launch, slot)
  BY <1>1 DEF Good
<1>3. /\ Position(sched, launch.id, slot)
      /\ ContextOf(sched, launch) = sched.contexts[slot]
      /\ Remaining(sched, launch) = Ticks(sched.contexts[slot])
  BY <1>1, <1>2, RemainingIs
<1> QED  BY <1>2, <1>3 DEF LivesIn

LEMMA SpacesFromInv == ShellInv => SpacesMatchLaunches
<1> SUFFICES ASSUME ShellInv PROVE SpacesMatchLaunches
  OBVIOUS
<1> DEFINE fg == foreground.launches
<1>1. Holds(sched, spaces, background, fg)
  BY DEF ShellInv
<1>2. \A launch \in Launches : Good(sched, spaces, launch)
  BY <1>1, LaunchIndex DEF Holds
<1>3. \A launch \in Launches : spaces[launch.space].active
                                 /\ spaces[launch.space].form = launch.form
  BY <1>2 DEF Good
<1>4. \A i \in Spaces : spaces[i].active => \E launch \in Launches : launch.space = i
  BY <1>1 DEF Holds, Launches
<1>5. ASSUME NEW a \in Launches, NEW b \in Launches, a.space = b.space
      PROVE  a = b
  <2>1. CASE \E i \in 1..Len(background), j \in 1..Len(background) :
               a = background[i] /\ b = background[j]
    BY <1>1, <1>5, <2>1 DEF Holds, Apart
  <2>2. CASE \E i \in 1..Len(fg), j \in 1..Len(fg) : a = fg[i] /\ b = fg[j]
    BY <1>1, <1>5, <2>2 DEF Holds, Apart
  <2>3. CASE \E i \in 1..Len(background), j \in 1..Len(fg) :
               (a = background[i] /\ b = fg[j]) \/ (b = background[i] /\ a = fg[j])
    BY <1>1, <1>5, <2>3 DEF Holds, Apart
  <2> QED  BY <2>1, <2>2, <2>3, LaunchIndex
<1> QED  BY <1>3, <1>4, <1>5 DEF SpacesMatchLaunches

\* The scheduler, the spaces and the launches of the shell keep their types.
THEOREM ShellTyped == ShellSpec => []ShellTypeOK
<1>1. ShellInv => ShellTypeOK
  <2> SUFFICES ASSUME ShellInv PROVE ShellTypeOK
    OBVIOUS
  <2>1. foreground \in [kind : {"idle", "execute", "parallel"}, launches : Seq(LaunchType)]
    BY DEF ShellInv, ForegroundOK
  <2> QED  BY <2>1 DEF ShellInv, ShellTypeOK, SchedOK, TypeOK, SpacesOK
<1> QED  BY <1>1, ShellInitInv, ShellStepInv, PTL DEF ShellSpec

\* For any number of Forms, slots and spaces, any budget and any quantum: no
\* unwrapped scheduler call fails, every launch has a live context with ticks
\* to spend and an address space of its own, and a Form that its budget
\* stopped has spent it.
THEOREM LaunchesAreHeld == ShellSpec => []LaunchesHold
<1>1. ShellInv => LaunchesHold
  <2>1. ShellInv => NoPanic
    BY DEF ShellInv, NoPanic
  <2>2. ShellInv => BudgetBlockedIsSpent
    BY DEF ShellInv, BlockedIsSpent, BudgetBlockedIsSpent, Ticks
  <2> QED  BY <2>1, <2>2, LiveFromInv, SpacesFromInv DEF LaunchesHold
<1> QED  BY <1>1, ShellInitInv, ShellStepInv, PTL DEF ShellSpec
=============================================================================
