--------------------------- MODULE DisplayServer ----------------------------
(***************************************************************************)
(* ExpDisplay (crates/expos-core/src/display.rs): surfaces with pending    *)
(* and committed state, damage kept until a frame is presented, FrameDone  *)
(* callbacks and the bounded event queue.                                  *)
(*                                                                         *)
(* The two axes are treated alike by the code; the model has one, so a     *)
(* rectangle is [x, w].  The payload of an input event is its arrival      *)
(* number.  Titles, formats and the diagnostic counters are left out.      *)
(***************************************************************************)
EXTENDS Integers, FiniteSetsExt, Tables

CONSTANTS Owners, Roles,
          MAX_SURFACES, MAX_DISPLAY_EVENTS,
          Rects,        \* rectangles clients ask for
          MaxSurfaceId, MaxCommits, MaxSerial  \* bounds on the counters

VARIABLES surfaces,  \* slot -> surface
          damage,    \* pending_output_damage, per slot
          awaiting,  \* pending_frame_commits, per slot; 0 is none
          events,    \* slot -> event
          server,    \* the counters and the focus
          stale,     \* output pixels that differ from what was presented
          seen       \* per surface: last FrameDone queued, last input polled

displayVars == <<surfaces, damage, awaiting, events, server, stale, seen>>

SurfaceSlots == 1..MAX_SURFACES
None == [x |-> 0, w |-> 0]
Pixels(rect) == rect.x..rect.x + rect.w - 1
NoFocus == 0

-----------------------------------------------------------------------------
(* Rectangles.  None stands for no rectangle.                              *)

surface_bounds(rect) == [x |-> 0, w |-> rect.w]
translate_damage(surface, d) == [x |-> surface.x + d.x, w |-> d.w]
intersect_damage(left, right) ==
    LET x1 == Max({left.x, right.x})
        x2 == Min({left.x + left.w, right.x + right.w})
    IN  IF x2 <= x1 THEN None ELSE [x |-> x1, w |-> x2 - x1]
merge_damage(left, right) ==
    IF left.w = 0 THEN right
    ELSE IF right.w = 0 THEN left
    ELSE LET x1 == Min({left.x, right.x})
             x2 == Max({left.x + left.w, right.x + right.w})
         IN  [x |-> x1, w |-> x2 - x1]

\* Mutant: the place a surface leaves is not repainted.
MutantNewFootprint(old, new) ==
    LET moved == old.rect # new.rect \/ old.visible # new.visible
    IN  merge_damage(IF moved /\ new.visible THEN new.rect ELSE None,
                     IF new.visible /\ new.damage # None
                     THEN translate_damage(new.rect, new.damage) ELSE None)
committed_output_damage(old, new) ==
    LET moved == old.rect # new.rect \/ old.visible # new.visible
    IN  merge_damage(
          merge_damage(IF moved /\ old.visible THEN old.rect ELSE None,
                       IF moved /\ new.visible THEN new.rect ELSE None),
          IF new.visible /\ new.damage # None
          THEN translate_damage(new.rect, new.damage) ELSE None)

-----------------------------------------------------------------------------
(* Events.                                                                 *)

Event(serial, surface, kind, value) ==
    [serial |-> serial, owner |-> surface.owner, surface |-> surface.id,
     kind |-> kind, value |-> value]
Serial == server.next_event_serial
Oldest(slots) == {i \in slots : \A j \in slots : events[i].serial <= events[j].serial}
Motions(q) == {i \in DOMAIN q : q[i].kind = "PointerMotion"}

\* push_event: a free slot, else the oldest motion gives way to an edge.
push_event(q, event) ==
    IF FirstFree(q, MAX_DISPLAY_EVENTS) # {}
    THEN Put(q, CHOOSE i \in FirstFree(q, MAX_DISPLAY_EVENTS) : TRUE, event)
    ELSE IF event.kind # "PointerMotion" /\ Motions(q) # {}
    THEN Put(q, CHOOSE i \in Motions(q) : \A j \in Motions(q) : q[i].serial <= q[j].serial,
             event)
    ELSE q

OfSurface(q, surface) ==
    {i \in DOMAIN q : q[i].owner = surface.owner /\ q[i].surface = surface.id}
NewestMotion(q, surface) ==
    {i \in OfSurface(q, surface) \cap Motions(q) :
       \A j \in OfSurface(q, surface) : q[j].serial <= q[i].serial}
push_pointer_motion(q, surface, serial) ==
    IF NewestMotion(q, surface) # {}
    THEN [q EXCEPT ![CHOOSE i \in NewestMotion(q, surface) : TRUE].value = serial,
                   ![CHOOSE i \in NewestMotion(q, surface) : TRUE].serial = serial]
    ELSE push_event(q, Event(serial, surface, "PointerMotion", serial))

\* push_frame_done: an unread FrameDone is updated, a full queue refuses.
Frames(q, surface) == {i \in OfSurface(q, surface) : q[i].kind = "FrameDone"}
CanQueueFrame(q, surface) ==
    Frames(q, surface) # {} \/ Free(q, MAX_DISPLAY_EVENTS) # {}
push_frame_done(q, surface, serial, sequence) ==
    IF Frames(q, surface) # {}
    THEN [q EXCEPT ![CHOOSE i \in Frames(q, surface) : TRUE] =
                     Event(serial, surface, "FrameDone", sequence)]
    ELSE Put(q, CHOOSE i \in FirstFree(q, MAX_DISPLAY_EVENTS) : TRUE,
             Event(serial, surface, "FrameDone", sequence))

-----------------------------------------------------------------------------
(* Requests of a client for a surface it owns.                             *)

Pending(i, state) == surfaces' = [surfaces EXCEPT ![i].pending = state]
Damaged(state, d) == [state EXCEPT !.damage = merge_damage(@, d)]
OnlySurfaces == UNCHANGED <<damage, awaiting, events, server, stale, seen>>

create_surface(owner, role, rect) ==
    /\ server.next_surface_id <= MaxSurfaceId /\ Serial <= MaxSerial
    /\ \E i \in FirstFree(surfaces, MAX_SURFACES) :
         LET state == [rect |-> rect, buffer |-> 0, damage |-> surface_bounds(rect),
                       visible |-> TRUE]
             surface == [id |-> server.next_surface_id, owner |-> owner, role |-> role,
                         current |-> state, pending |-> state, commit |-> 0,
                         z |-> server.next_z]
         IN  /\ surfaces' = Put(surfaces, i, surface)
             /\ events' = push_event(events, Event(Serial, surface, "Configure", rect.w))
             /\ seen' = Put(seen, surface.id, [frame |-> 0, input |-> 0])
    /\ server' = [server EXCEPT !.next_surface_id = @ + 1, !.next_z = @ + 1,
                                !.next_event_serial = @ + 1]
    /\ UNCHANGED <<damage, awaiting, stale>>

attach(i, width) ==
    LET p == surfaces[i].pending IN
    /\ width >= p.rect.w
    /\ Pending(i, Damaged([p EXCEPT !.buffer = width], surface_bounds(p.rect)))
    /\ OnlySurfaces

\* damage and damage_regions: clipped to the pending bounds.
Damage(i, region) ==
    LET p == surfaces[i].pending
        clipped == intersect_damage(region, surface_bounds(p.rect))
    IN  /\ clipped # None
        /\ Pending(i, Damaged(p, clipped))
        /\ OnlySurfaces

set_position(i, x) ==
    LET p == [surfaces[i].pending EXCEPT !.rect.x = x] IN
    /\ p # surfaces[i].pending
    /\ Pending(i, Damaged(p, surface_bounds(p.rect)))
    /\ OnlySurfaces

set_geometry(i, rect) ==
    LET p == surfaces[i].pending IN
    /\ p.buffer # 0 => rect.w <= p.buffer
    /\ Pending(i, [p EXCEPT !.rect = rect, !.damage = surface_bounds(rect)])
    /\ OnlySurfaces

set_visible(i, visible) ==
    LET p == surfaces[i].pending IN
    /\ p.visible # visible
    /\ Pending(i, Damaged([p EXCEPT !.visible = visible], surface_bounds(p.rect)))
    /\ OnlySurfaces

\* What a commit changes on the output: both footprints of a surface that
\* moved, and the pixels its client has drawn.
Changed(old, new) ==
    (IF old.rect # new.rect \/ old.visible # new.visible
     THEN (IF old.visible THEN Pixels(old.rect) ELSE {})
          \cup (IF new.visible THEN Pixels(new.rect) ELSE {})
     ELSE {})
    \cup (IF new.visible THEN Pixels(translate_damage(new.rect, new.damage)) ELSE {})

commit(i) ==
    LET surface == surfaces[i]
        old == surface.current
        new == surface.pending
        kept == IF awaiting[i] # 0 THEN intersect_damage(old.damage, surface_bounds(new.rect))
                ELSE None
        sequence == server.commit_sequence + 1
    IN  /\ sequence <= MaxCommits
        /\ damage' = [damage EXCEPT ![i] = merge_damage(@, committed_output_damage(old, new))]
        /\ surfaces' = [surfaces EXCEPT
             ![i].current = [new EXCEPT !.damage = merge_damage(kept, @)],
             ![i].pending.damage = None,
             ![i].commit = sequence]
        /\ awaiting' = [awaiting EXCEPT ![i] = sequence]
        /\ server' = [server EXCEPT !.commit_sequence = sequence]
        /\ stale' = stale \cup Changed(old, new)
        /\ UNCHANGED <<events, seen>>

Purged(q, surface) == [j \in DOMAIN q \ OfSurface(q, surface) |-> q[j]]
destroy(i) ==
    LET surface == surfaces[i] IN
    /\ damage' = [damage EXCEPT ![i] =
         IF surface.current.visible THEN merge_damage(@, surface.current.rect) ELSE @]
    /\ stale' = stale \cup (IF surface.current.visible THEN Pixels(surface.current.rect) ELSE {})
    /\ surfaces' = Take(surfaces, i)
    /\ awaiting' = [awaiting EXCEPT ![i] = 0]
    /\ events' = Purged(events, surface)
    /\ server' = [server EXCEPT !.focused = IF @ = surface.id THEN NoFocus ELSE @]
    /\ seen' = Take(seen, surface.id)

-----------------------------------------------------------------------------
(* The compositor.                                                         *)

\* complete_frame, slot by slot.
Acknowledge(s, i) ==
    IF awaiting[i] = 0 \/ i \notin DOMAIN surfaces \/ ~CanQueueFrame(s.events, surfaces[i])
    THEN s
    ELSE [events |-> push_frame_done(s.events, surfaces[i], s.serial, awaiting[i]),
          serial |-> s.serial + 1, done |-> s.done \cup {i}]
FramePass(n) ==
    LET f[i \in 0..n] == IF i = 0 THEN [events |-> events, serial |-> Serial, done |-> {}]
                         ELSE Acknowledge(f[i - 1], i)
    IN  f[n]
StillAwaiting(s) == [i \in SurfaceSlots |-> IF i \in s.done THEN 0 ELSE awaiting[i]]
complete_frame ==
    LET s == FramePass(MAX_SURFACES) IN
    /\ s.serial <= MaxSerial + 1
    /\ events' = s.events
    /\ server' = [server EXCEPT !.next_event_serial = s.serial]
    /\ awaiting' = StillAwaiting(s)
    /\ surfaces' = [i \in DOMAIN surfaces |->
         IF awaiting[i] = 0 THEN surfaces[i] ELSE [surfaces[i] EXCEPT !.current.damage = None]]
    /\ damage' = [i \in SurfaceSlots |-> None]
    /\ stale' = stale \ UNION {Pixels(damage[i]) : i \in SurfaceSlots}
    /\ seen' = [id \in DOMAIN seen |->
         IF \E i \in s.done : surfaces[i].id = id
         THEN [seen[id] EXCEPT !.frame = awaiting[CHOOSE i \in s.done : surfaces[i].id = id]]
         ELSE seen[id]]

Focused == {i \in DOMAIN surfaces : surfaces[i].id = server.focused}
focus(i) ==
    LET surface == surfaces[i]
        out == {j \in Focused : j # i}
        left == IF out = {} THEN events
                ELSE push_event(events, Event(Serial, surfaces[CHOOSE j \in out : TRUE],
                                              "FocusOut", 0))
        serial == IF out = {} THEN Serial ELSE Serial + 1
    IN  /\ surface.current.visible /\ surface.role # "Background" /\ serial <= MaxSerial
        /\ surfaces' = [surfaces EXCEPT ![i].z = server.next_z]
        /\ events' = push_event(left, Event(serial, surface, "FocusIn", 0))
        /\ server' = [server EXCEPT !.next_z = @ + 1, !.focused = surface.id,
                                    !.next_event_serial = serial + 1]
        /\ UNCHANGED <<damage, awaiting, stale, seen>>

route_key ==
    /\ Serial <= MaxSerial
    /\ \E i \in Focused : events' = push_event(events, Event(Serial, surfaces[i], "Key", Serial))
    /\ server' = [server EXCEPT !.next_event_serial = @ + 1]
    /\ UNCHANGED <<surfaces, damage, awaiting, stale, seen>>

hit_test(x) ==
    LET under == {i \in DOMAIN surfaces : surfaces[i].current.visible
                                          /\ x \in Pixels(surfaces[i].current.rect)}
    IN  {i \in under : \A j \in under : surfaces[j].z <= surfaces[i].z}
route_pointer(x, changed) ==
    /\ Serial < MaxSerial
    /\ \E i \in hit_test(x) :
         LET moved == push_pointer_motion(events, surfaces[i], Serial)
         IN  events' = IF changed THEN push_event(moved, Event(Serial + 1, surfaces[i],
                                                              "PointerButton", Serial))
                       ELSE moved
    /\ server' = [server EXCEPT !.next_event_serial = @ + (IF changed THEN 2 ELSE 1)]
    /\ UNCHANGED <<surfaces, damage, awaiting, stale, seen>>

Inputs == {"Key", "PointerMotion", "PointerButton"}
poll_event(owner) ==
    /\ \E i \in Oldest({j \in DOMAIN events : events[j].owner = owner}) :
         /\ events' = Take(events, i)
         /\ seen' = IF events[i].kind \in Inputs
                    THEN [seen EXCEPT ![events[i].surface].input = events[i].value] ELSE seen
    /\ UNCHANGED <<surfaces, damage, awaiting, server, stale>>

-----------------------------------------------------------------------------
DisplayInit ==
    /\ surfaces = EmptyTable /\ events = EmptyTable /\ seen = EmptyTable
    /\ damage = [i \in SurfaceSlots |-> None]
    /\ awaiting = [i \in SurfaceSlots |-> 0]
    /\ server = [next_surface_id |-> 1, next_z |-> 1, commit_sequence |-> 0,
                 next_event_serial |-> 1, focused |-> NoFocus]
    /\ stale = {}

Lifecycle ==
    \/ \E owner \in Owners, role \in Roles, rect \in Rects : create_surface(owner, role, rect)
    \/ \E i \in DOMAIN surfaces : commit(i) \/ destroy(i)
    \/ complete_frame
Paint ==
    \E i \in DOMAIN surfaces :
       \/ \E rect \in Rects : \/ attach(i, rect.w) \/ Damage(i, rect)
                              \/ set_position(i, rect.x) \/ set_geometry(i, rect)
       \/ \E visible \in BOOLEAN : set_visible(i, visible)
Input ==
    \/ \E i \in DOMAIN surfaces : focus(i)
    \/ route_key
    \/ \E x \in {rect.x : rect \in Rects}, changed \in BOOLEAN : route_pointer(x, changed)
    \/ \E owner \in Owners : poll_event(owner)

DisplayNext == Lifecycle \/ Paint \/ Input
DisplaySpec == DisplayInit /\ [][DisplayNext]_displayVars

-----------------------------------------------------------------------------
(* Properties.                                                             *)

\* Every output pixel that differs from what was presented lies in a region
\* the compositor is told to repaint: damage survives moves, hiding, several
\* commits and the destruction of its surface until complete_frame.
RepaintCovers == stale \subseteq UNION {Pixels(damage[i]) : i \in SurfaceSlots}

\* No frame callback is lost: the newest commit of a surface has been queued
\* as FrameDone or is still awaited, however full the queue is.
FrameDoneKept ==
    \A i \in DOMAIN surfaces :
       surfaces[i].commit # 0 => surfaces[i].commit \in {awaiting[i], seen[surfaces[i].id].frame}

\* A client reads the input of a surface in the order it happened: motions are
\* merged only behind the newest edge, dropped motions leave no reordering.
InputInOrder ==
    [][\A id \in DOMAIN seen \cap DOMAIN seen' : seen[id].input <= seen'[id].input]_displayVars

\* Focus and queued events name live surfaces: destroy leaves none behind.
EventsHaveSurfaces ==
    LET live == {surfaces[i].id : i \in DOMAIN surfaces}
    IN  /\ server.focused \in live \cup {NoFocus}
        /\ \A j \in DOMAIN events : events[j].surface \in live

\* Clients are served: every changed pixel is repainted, every frame callback
\* comes, and input goes to surfaces that exist, in the order it happened.
SurfacesServed ==
    [](RepaintCovers /\ FrameDoneKept /\ EventsHaveSurfaces) /\ InputInOrder
=============================================================================
