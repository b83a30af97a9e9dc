----------------------------- MODULE Compositor -----------------------------
(***************************************************************************)
(* How the desktop turns its state into pixels (kernel/src/desktop.rs      *)
(* render, render_active_window, render_taskbar_damage, PointerCursor and  *)
(* kernel/src/framebuffer.rs present_damage).                              *)
(*                                                                         *)
(* The screen is one row of cells; a cell holds the layer drawn last.  The *)
(* taskbar is the last cell, windows are two cells wide and stay in the    *)
(* work area, the cursor covers one cell.  Windows and taskbar are opaque. *)
(* `draw` is the page being composed, `front` the one on screen:           *)
(*   shadow  draw is RAM, presenting copies damage (GOP, VirtIO GPU);      *)
(*   flip    presenting swaps the pages and copies damage back (VBE);      *)
(*   direct  there is one page, drawing shows at once.                     *)
(***************************************************************************)
EXTENDS Integers, FiniteSets

CONSTANTS COMPOSED_APPS,
          WIDTH,                       \* cells of the screen
          MAX_COALESCED_COMPOSITIONS

ASSUME CompositorAssumption == WIDTH \in Nat /\ WIDTH >= 3

VARIABLES scene,    \* windows, active, taskbar, overlay, cursor
          draw, front,
          backend,
          pointer,  \* the cell under the cursor, and whether it is drawn
          comp,     \* the compositor's own state
          hint,     \* input_backlog_hint: an event is already waiting
          missed,   \* cells changed and left out of the last present
          slipped   \* a composition was deferred or missed cells

compositorVars == <<scene, draw, front, backend, pointer, comp, hint, missed, slipped>>

Apps == 1..COMPOSED_APPS      \* in the order of AppKind::ALL
NoApp == 0
Cells == 0..WIDTH - 1
Dock == WIDTH - 1
\* Layers other than windows, which are their app's number.
Wallpaper == <<0, 0, FALSE>>
DockLayer(clock) == <<-1, clock, TRUE>>
Cursor == <<-2, 0, TRUE>>
Overlay == <<-3, 0, TRUE>>
Window(x) == {x, x + 1}

Visible(s) == {a \in Apps : s.windows[a].open}

-----------------------------------------------------------------------------
(* Drawing.  A page is a function of cells.                                *)

DrawApp(page, s, app) ==
    [c \in Cells |-> IF c \in Window(s.windows[app].x)
                     THEN <<app, s.windows[app].text, app = s.active>> ELSE page[c]]
DrawDock(page, s) == [page EXCEPT ![Dock] = DockLayer(s.clock)]
DrawOthers(page, s) ==
    [c \in Cells |->
       LET over == {a \in Visible(s) \ {s.active} : c \in Window(s.windows[a].x)}
       IN  IF over = {} THEN page[c]
           ELSE LET top == CHOOSE a \in over : \A b \in over : b <= a
                IN  <<top, s.windows[top].text, FALSE>>]
DrawCursor(page, s) == [page EXCEPT ![s.cursor] = Cursor]

\* Everything render draws, except the cursor.
Composition(s) ==
    LET wall == [c \in Cells |-> Wallpaper]
        others == DrawOthers(wall, s)
        active == IF s.active \in Visible(s) THEN DrawApp(others, s, s.active) ELSE others
        dock == IF s.taskbar THEN DrawDock(active, s) ELSE active
    IN  IF s.overlay THEN [c \in Cells |-> Overlay] ELSE dock

Ideal == DrawCursor(Composition(scene), scene)

\* PointerCursor::restore and draw.
Restored(page, p) == IF p.drawn THEN [page EXCEPT ![p.cell] = p.under] ELSE page
Pointed(page, s) == [cell |-> s.cursor, under |-> page[s.cursor], drawn |-> TRUE]

-----------------------------------------------------------------------------
(* present_damage.                                                         *)

\* GOP promotion and VirtIO bounding boxes may copy more than was asked.
CopyOver(from, to, damage) == [c \in Cells |-> IF c \in damage THEN from[c] ELSE to[c]]
present_damage(page, damage) ==
    /\ missed' = {c \in Cells \ damage : page[c] # front[c]}
    /\ \/ backend = "shadow" /\ draw' = page /\ UNCHANGED backend
          /\ front' \in {CopyOver(page, front, damage), page}
       \/ backend = "flip" /\ front' = page /\ draw' = CopyOver(page, front, damage)
          /\ UNCHANGED backend
       \/ backend = "flip"      \* the adapter does not follow Y_OFFSET
          /\ front' = CopyOver(page, front, damage) /\ draw' = front' /\ backend' = "direct"
       \/ backend = "direct" /\ front' = page /\ draw' = page /\ UNCHANGED backend

\* Pixels drawn without presenting them.
Painted(page) ==
    /\ draw' = page
    /\ front' = IF backend = "direct" THEN page ELSE front
    /\ UNCHANGED <<backend, missed>>

\* defer_composition_for_input, after prefetch_event set the hint.
Defer == comp.frames /\ hint' /\ comp.deferred < MAX_COALESCED_COMPOSITIONS
Deferred(s, page, p) ==
    /\ scene' = s /\ Painted(page) /\ pointer' = p
    /\ comp' = [comp EXCEPT !.deferred = @ + 1]
    /\ slipped' = TRUE

-----------------------------------------------------------------------------
(* The three ways to repaint.  `page` and `p` are the draw page and cursor *)
(* the handler leaves, s the new scene.                                    *)

SceneDamage(s) ==
    IF s.overlay THEN Cells
    ELSE UNION {Window(s.windows[a].x) : a \in Visible(s)}
         \cup (IF s.taskbar THEN {Dock} ELSE {}) \cup {s.cursor}

Slip == slipped' = (slipped \/ missed' # {})

render(s, page, p) ==
    \/ Defer /\ Deferred(s, page, p)
    \/ /\ ~Defer
       /\ LET restored == comp.cached /\ backend = "shadow"
              composed == Composition(s)
          IN  /\ present_damage(DrawCursor(composed, s),
                    IF restored /\ comp.last # {} THEN comp.last \cup SceneDamage(s) ELSE Cells)
              /\ pointer' = Pointed(composed, s)
              /\ scene' = [s EXCEPT !.redraw = FALSE]
              /\ comp' = [comp EXCEPT !.deferred = 0, !.frames = TRUE,
                                      !.cached = (backend = "shadow"), !.last = SceneDamage(s)]
              /\ Slip

\* Mutant: the window is repainted over the cursor, which then saves itself.
MutantNoRestore(s, page, p) ==
    \/ s.redraw /\ render(s, page, p)
    \/ ~s.redraw /\ Defer /\ Deferred(s, page, p)
    \/ /\ ~s.redraw /\ ~Defer
       /\ LET shown == s.active \in Visible(s)
              drawn == IF shown THEN DrawApp(page, s, s.active) ELSE page
          IN  /\ present_damage(DrawCursor(drawn, s),
                   {s.cursor} \cup (IF shown THEN Window(s.windows[s.active].x) ELSE {}))
              /\ pointer' = Pointed(drawn, s)
       /\ scene' = s /\ comp' = [comp EXCEPT !.deferred = 0, !.frames = TRUE]
       /\ Slip
render_active_window(s, page, p) ==
    \/ s.redraw /\ render(s, page, p)
    \/ ~s.redraw /\ Defer /\ Deferred(s, page, p)
    \/ /\ ~s.redraw /\ ~Defer
       /\ LET clean == Restored(page, p)
              shown == s.active \in Visible(s)
              drawn == IF shown THEN DrawApp(clean, s, s.active) ELSE clean
          IN  /\ present_damage(DrawCursor(drawn, s),
                   {s.cursor} \cup (IF shown THEN Window(s.windows[s.active].x) ELSE {}))
              /\ pointer' = Pointed(drawn, s)
       /\ scene' = s /\ comp' = [comp EXCEPT !.deferred = 0, !.frames = TRUE]
       /\ Slip

render_taskbar_damage(s, page, p) ==
    \/ s.redraw /\ render(s, page, p)
    \/ ~s.redraw /\ Defer /\ Deferred(s, page, p)
    \/ /\ ~s.redraw /\ ~Defer
       /\ LET drawn == DrawDock(Restored(page, p), s)
          IN  /\ present_damage(DrawCursor(drawn, s), {s.cursor, Dock})
              /\ pointer' = Pointed(drawn, s)
       /\ scene' = s /\ comp' = [comp EXCEPT !.deferred = 0, !.frames = TRUE]
       /\ Slip

-----------------------------------------------------------------------------
(* Events of the session.                                                  *)

Prefetched == hint' \in BOOLEAN

\* A key that opens, closes, moves or raises a window, or toggles an overlay
\* (launcher, power menu, confirmation, lock): the whole scene is rendered.
OpenApp(app) ==
    LET s == [scene EXCEPT !.windows[app].open = TRUE, !.active = app, !.overlay = FALSE]
    IN  Prefetched /\ render(s, draw, pointer)
CloseActive ==
    LET s == [scene EXCEPT !.windows[scene.active].open = FALSE]
        left == Visible(s)
        next == IF left = {} THEN s ELSE [s EXCEPT !.active = CHOOSE a \in left : \A b \in left : a <= b]
    IN  /\ scene.active \in Visible(scene) /\ ~scene.overlay
        /\ Prefetched /\ render(next, draw, pointer)
MoveActive(x) ==
    LET s == [scene EXCEPT !.windows[scene.active].x = x]
    IN  /\ scene.active \in Visible(scene) /\ ~scene.overlay
        /\ Prefetched /\ render(s, draw, pointer)
ToggleOverlay ==
    LET s == [scene EXCEPT !.overlay = ~@] IN Prefetched /\ render(s, draw, pointer)

\* A key the active app takes.
Type ==
    LET s == [scene EXCEPT !.windows[scene.active].text = 1 - @]
    IN  /\ scene.active \in Visible(scene) /\ ~scene.overlay
        /\ Prefetched /\ render_active_window(s, draw, pointer)

\* A key nothing takes (ESC without an editor or a launcher).
IdleKey ==
    Prefetched /\ UNCHANGED <<scene, draw, front, backend, pointer, comp, missed, slipped>>

\* handle_pointer: the cursor is redrawn on the page first.  The taskbar and,
\* with a pointer focus policy, the active window may follow the cursor.
taskbar_should_show(x) == scene.autohide => x = Dock
Moved(x, focus) ==
    LET raised == IF focus # NoApp THEN [scene EXCEPT !.active = focus, !.redraw = TRUE] ELSE scene
    IN  [raised EXCEPT !.cursor = x, !.taskbar = taskbar_should_show(x)]
HandlePointer(x, focus) ==
    LET s == Moved(x, focus)
        clean == Restored(draw, pointer)
        page == DrawCursor(clean, s)
        p == Pointed(clean, s)
    IN  /\ x # scene.cursor /\ ~scene.overlay
        /\ focus # NoApp => focus \in Visible(scene) \ {scene.active}
                            /\ x \in Window(scene.windows[focus].x)
        /\ Prefetched
        /\ IF s.taskbar # scene.taskbar \/ s.redraw
           THEN render(s, page, p)
           ELSE /\ scene' = s /\ present_damage(page, {scene.cursor, x})
                /\ pointer' = p /\ Slip
                /\ comp' = [comp EXCEPT !.frames = TRUE]

\* With the power menu or the lock screen every motion renders the scene.
OverlayPointer(x) ==
    LET s == [scene EXCEPT !.cursor = x]
        clean == Restored(draw, pointer)
    IN  /\ x # scene.cursor /\ scene.overlay
        /\ Prefetched /\ render(s, DrawCursor(clean, s), Pointed(clean, s))

\* With no input: the clock of a shown taskbar changes.
ClockTick ==
    LET s == [scene EXCEPT !.clock = 1 - @]
    IN  /\ scene.taskbar /\ ~scene.overlay
        /\ ~hint /\ hint' = FALSE
        /\ render_taskbar_damage(s, draw, pointer)

CompositorInit ==
    /\ \E autohide \in BOOLEAN :
       scene = [windows |-> [a \in Apps |-> [open |-> FALSE, x |-> 0, text |-> 0]],
                active |-> 1,
                autohide |-> autohide, taskbar |-> ~autohide, overlay |-> FALSE, cursor |-> 0,
                clock |-> 0, redraw |-> FALSE]
    /\ backend \in {"shadow", "flip", "direct"}
    /\ draw = DrawCursor(Composition(scene), scene) /\ front = draw
    /\ pointer = [cell |-> 0, under |-> Composition(scene)[0], drawn |-> TRUE]
    /\ comp = [cached |-> backend = "shadow", last |-> SceneDamage(scene), frames |-> TRUE,
               deferred |-> 0]
    /\ hint = FALSE /\ missed = {} /\ slipped = FALSE

CompositorNext ==
    \/ \E app \in Apps : OpenApp(app)
    \/ \E x \in 0..WIDTH - 3 : MoveActive(x)
    \/ CloseActive \/ ToggleOverlay \/ Type \/ IdleKey \/ ClockTick
    \/ \E x \in Cells, focus \in Apps \cup {NoApp} : HandlePointer(x, focus)
    \/ \E x \in Cells : OverlayPointer(x)

CompositorSpec == CompositorInit /\ [][CompositorNext]_compositorVars

-----------------------------------------------------------------------------
(* Properties.                                                             *)

\* As long as no composition was deferred and no cell was left out, the
\* screen shows the scene exactly: repainting only the active window, the
\* taskbar or the cursor gives what a full composition would.
SceneExact == ~slipped => front = Ideal
=============================================================================
