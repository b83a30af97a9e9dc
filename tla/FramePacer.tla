----------------------------- MODULE FramePacer -----------------------------
(***************************************************************************)
(* Frame pacing (kernel/src/display_timing.rs) and its caller pace_frame   *)
(* (kernel/src/desktop.rs).  The pacer divides time since its epoch into   *)
(* refresh slots of clock / hz ticks, releases at most one frame per slot  *)
(* and counts what happened to every slot.  The clock is a counter of      *)
(* MaxTick + 1 values (u64 in the code); it may stop, and it may go back.  *)
(***************************************************************************)
EXTENDS Integers

CONSTANTS MaxTick,
          Rates,      \* refresh rates, in frames per second
          ClockRates, \* ticks per second
          MaxWait,    \* the longest time pace_frame waits (tsc_hz / 20)
          MaxPolls,   \* the most polls it makes (2_000_000)
          MaxDiscontinuities

ASSUME PacerAssumption == \A hz \in Rates, c \in ClockRates : hz > 0 /\ c >= hz

VARIABLES now,
          pacer,   \* config, epoch, next index (or none), last tick; `counted` is
                   \* what releases, missed and idle count of this phase together
          frame,   \* pace_frame: idle, or a frame waiting
          paced,     \* the index of the last release of this phase, and when
          panicked

pacerVars == <<now, pacer, frame, paced, panicked>>

NoIndex == -1

-----------------------------------------------------------------------------
(* Deadlines.                                                              *)

Divides(d, n) == n % d = 0
gcd(a, b) == CHOOSE d \in 1..b : /\ Divides(d, a) /\ Divides(d, b)
                                 /\ \A e \in d + 1..b : ~(Divides(e, a) /\ Divides(e, b))
Period(hz, clock) == LET g == gcd(clock, hz) IN [num |-> clock \div g, den |-> hz \div g]

\* deadline_from: the whole tick and the remainder, or none past the clock.
Deadline(epoch, p, index) ==
    [whole |-> epoch + (index * p.num) \div p.den, frac |-> (index * p.num) % p.den]
Fits(epoch, d) == d.whole <= MaxTick /\ ~(d.whole = MaxTick /\ d.frac # 0)

\* Mutant: the deadline is rounded down.
MutantFloor(d) == d.whole
not_before_tick(d) == d.whole + (IF d.frac # 0 THEN 1 ELSE 0)

DeadlineFor(p, index) == Deadline(p.epoch, Period(p.hz, p.clock), index)

latest_due_index(p, t) == ((t - p.epoch) * p.hz) \div p.clock

-----------------------------------------------------------------------------
(* FramePacer.                                                             *)

ResetPhase(p, t) ==
    [p EXCEPT !.epoch = t, !.next = 0, !.last = t, !.counted = 0]

\* observe_clock.
Observed(p, t) == IF t < p.last THEN ResetPhase(p, t) ELSE [p EXCEPT !.last = t]

Passed(q, latest) == IF latest > q.next THEN latest - q.next ELSE 0  \* saturating_sub

\* decide with no frame pending: the due slots are idle.
IdleSlots(q, latest) == [q EXCEPT !.counted = @ + Passed(q, latest) + 1, !.next = latest + 1]
\* decide with a frame pending: the newest due slot is used, the others missed.
Release(q, latest) ==
    [q EXCEPT !.counted = @ + 1 + Passed(q, latest), !.next = latest + 1]

\* The outcome of decide(t, pending): the decision, and the pacer after it.
decide(p, t, pending) ==
    LET q == Observed(p, t)
        d == DeadlineFor(q, q.next)
        latest == latest_due_index(q, t)
    IN  IF q.next = NoIndex THEN [kind |-> "exhausted", pacer |-> q]
        ELSE IF ~Fits(q.epoch, d) THEN [kind |-> "exhausted", pacer |-> [q EXCEPT !.next = NoIndex]]
        ELSE IF t < not_before_tick(d)
        THEN [kind |-> IF pending THEN "wait" ELSE "idle", pacer |-> q]
        ELSE IF ~pending THEN [kind |-> "idle", pacer |-> IdleSlots(q, latest)]
        ELSE IF ~Fits(q.epoch, DeadlineFor(q, latest)) THEN [kind |-> "panic", pacer |-> q]
        ELSE [kind |-> "present", pacer |-> Release(q, latest)]

\* The last release belongs to the phase: a new phase has none.
NoRelease == [index |-> NoIndex, at |-> 0]
Kept(after) == IF after.epoch # pacer.epoch \/ after.next = 0 THEN NoRelease ELSE paced

-----------------------------------------------------------------------------
(* The compositor.                                                         *)

At(state) == [state |-> state, at |-> 0, started |-> 0, polls |-> 0]
PacerIdle == frame.state = "idle"

\* begin_composition, the idle loop, and the decide after a present.
DecideIdle ==
    /\ PacerIdle
    /\ \E r \in {decide(pacer, now, FALSE)} : pacer' = r.pacer /\ paced' = Kept(r.pacer)
    /\ UNCHANGED <<now, frame, panicked>>

\* pace_frame begins.  A responsive damaged commit only restarts the phase.
Pace == /\ PacerIdle /\ frame' = At("pace")
        /\ UNCHANGED <<now, pacer, paced, panicked>>
Bypass ==
    /\ PacerIdle /\ pacer' = ResetPhase(pacer, now)
    /\ paced' = NoRelease
    /\ UNCHANGED <<now, frame, panicked>>

\* One turn of the loop in pace_frame.
PaceDecide ==
    /\ frame.state = "pace"
    /\ \E r \in {decide(pacer, now, TRUE)} :
           \/ /\ r.kind = "wait" /\ pacer' = r.pacer /\ paced' = Kept(r.pacer)
              /\ frame' = [state |-> "wait", started |-> now, polls |-> 0,
                           at |-> not_before_tick(DeadlineFor(r.pacer, r.pacer.next))]
              /\ UNCHANGED panicked
           \/ /\ r.kind = "present" /\ pacer' = r.pacer
              /\ paced' = [index |-> r.pacer.next - 1, at |-> now]
              /\ frame' = At("idle") /\ UNCHANGED panicked
           \/ /\ r.kind = "exhausted" /\ pacer' = ResetPhase(r.pacer, now)
              /\ paced' = NoRelease
              /\ UNCHANGED <<frame, panicked>>
           \/ /\ r.kind = "panic" /\ panicked' = TRUE /\ UNCHANGED <<pacer, frame, paced>>
    /\ UNCHANGED now

GivesUp(t) == t < frame.started \/ t - frame.started > MaxWait \/ frame.polls + 1 >= MaxPolls

\* One poll of the wait: the deadline passed, the wait gave up, or it goes on.
PaceWait ==
    /\ frame.state = "wait"
    /\ \/ /\ now >= frame.at /\ frame' = At("pace")
          /\ UNCHANGED <<pacer, paced>>
       \/ /\ now < frame.at /\ GivesUp(now)
          /\ pacer' = ResetPhase(pacer, now)
          /\ paced' = NoRelease
          /\ frame' = At("pace")
       \/ /\ now < frame.at /\ ~GivesUp(now)
          /\ frame' = [frame EXCEPT !.polls = IF @ < MaxPolls THEN @ + 1 ELSE @]
          /\ UNCHANGED <<pacer, paced>>
    /\ UNCHANGED <<now, panicked>>

\* reconfigure, when the settings change the rate.
Reconfigure(hz, clock) ==
    /\ PacerIdle /\ <<hz, clock>> # <<pacer.hz, pacer.clock>>
    /\ pacer' = ResetPhase([pacer EXCEPT !.hz = hz, !.clock = clock], now)
    /\ paced' = NoRelease
    /\ UNCHANGED <<now, frame, panicked>>

Tick == now < MaxTick /\ now' = now + 1 /\ UNCHANGED <<pacer, frame, paced, panicked>>
ClockBack(t) ==
    /\ t < now /\ pacer.back < MaxDiscontinuities
    /\ now' = t /\ pacer' = [pacer EXCEPT !.back = @ + 1]
    /\ UNCHANGED <<frame, paced, panicked>>

PacerInit ==
    /\ now = 0 /\ panicked = FALSE
    /\ \E hz \in Rates, clock \in ClockRates :
         pacer = [hz |-> hz, clock |-> clock, epoch |-> 0, next |-> 0, last |-> 0,
                     counted |-> 0, back |-> 0]
    /\ paced = NoRelease
    /\ frame = At("idle")

PaceLoop == PaceDecide \/ PaceWait

PacerNext ==
    \/ DecideIdle \/ Pace \/ Bypass \/ PaceLoop \/ Tick
    \/ \E hz \in Rates, clock \in ClockRates : Reconfigure(hz, clock)
    \/ \E t \in 0..MaxTick : ClockBack(t)

\* pace_frame runs to its end; the clock need not run, the devices need not
\* stop it: only the loop itself is scheduled.
PacerSpec == PacerInit /\ [][PacerNext]_pacerVars /\ WF_pacerVars(PaceLoop)

-----------------------------------------------------------------------------
(* Properties.                                                             *)

\* Every refresh slot of a phase is a release, missed or idle, exactly once.
SlotsAccounted == pacer.next # NoIndex => pacer.counted = pacer.next

\* A frame is never released before its exact, rational deadline: "rounds
\* upward and never releases a synchronized frame early".  That deadline fits
\* the clock, as decide's expect says.
NeverEarly ==
    /\ ~panicked
    /\ paced.index # NoIndex => paced.index * pacer.clock <= (paced.at - pacer.epoch) * pacer.hz

\* pace_frame always returns, even if the clock stops or goes back.
PaceEnds == frame.state = "wait" ~> PacerIdle

\* Presentation is paced: every slot between two frames is counted as presented
\* or missed, and no frame is early (display_timing.rs).
PacingHolds == SlotsAccounted /\ NeverEarly
=============================================================================
