---------------------------- MODULE DesktopShell ----------------------------
(***************************************************************************)
(* The desktop's window manager (kernel/src/desktop.rs): which application *)
(* windows are open, minimized, active or fullscreen, what the display     *)
(* server shows and has in focus, the launcher, the power menu, the lock   *)
(* screen and the shell confirmation, and how run_session sends a key or a *)
(* pointer event to one of them.                                           *)
(*                                                                         *)
(* The handlers are functions of the desktop's state, a record, as in the  *)
(* code.  Where the pointer is stands for what it hits: any surface shown. *)
(***************************************************************************)
EXTENDS Integers, FiniteSets

CONSTANTS
    APP_COUNT,       \* AppKind::ALL; the last one is Apps, the host of packages
    Enabled,         \* app_enabled
    MaxInstalled,    \* packages Ayo may have installed
    LAUNCHER_CAPACITY,  \* launcher_capacity: entries the menu shows
    LAUNCHER_COLUMNS

VARIABLE desk

AppKinds == 0..APP_COUNT - 1
AppsHost == APP_COUNT - 1
LauncherSurface == APP_COUNT
NoSurface == -1
\* Entries of the launcher that stand for no application.
PowerItem == -2
NoItem == -3

-----------------------------------------------------------------------------
(* What the state shows                                                    *)

app_is_visible(d, app) ==
    /\ app \in d.open /\ app \notin d.minimized
    /\ d.fullscreen => app = d.active
has_active_window(d) == d.active \in d.open /\ d.active \notin d.minimized

sync_visibility(d) == [d EXCEPT !.shown = {a \in AppKinds : app_is_visible(d, a)}]
\* DisplayServer::focus refuses a surface that is not visible.
FocusOn(d, s) ==
    IF s \in d.shown \/ (s = LauncherSurface /\ d.launcher) THEN [d EXCEPT !.focus = s] ELSE d
FocusActive(d) == IF has_active_window(d) THEN FocusOn(d, d.active) ELSE d

normalize_fullscreen(d) == [d EXCEPT !.fullscreen = FALSE]
close_launcher(d) == [d EXCEPT !.launcher = FALSE]
Replacement(d) == {a \in d.open \ d.minimized : \A b \in d.open \ d.minimized : a <= b}
ActivatedApp(d) ==
    IF Replacement(d) = {} THEN d ELSE [d EXCEPT !.active = CHOOSE a \in Replacement(d) : TRUE]

-----------------------------------------------------------------------------
(* Window commands                                                         *)

switch_to(d, next) ==
    IF next \notin Enabled THEN d
    ELSE LET e == [close_launcher(normalize_fullscreen(d)) EXCEPT
                      !.open = @ \cup {next}, !.minimized = @ \ {next}, !.active = next]
         IN  FocusOn(sync_visibility(e), next)

focus_existing(d, next) ==
    IF next \notin d.open THEN switch_to(d, next)
    ELSE LET e == [close_launcher(normalize_fullscreen(d)) EXCEPT
                      !.active = next, !.minimized = @ \ {next}]
         IN  FocusOn(sync_visibility(e), next)

CycleOrder(d) ==
    {o \in 1..APP_COUNT :
        LET a == (d.active + o) % APP_COUNT IN a \in d.open /\ a \notin d.minimized}
cycle_app(d) ==
    IF CycleOrder(d) = {} THEN d
    ELSE LET o == CHOOSE o \in CycleOrder(d) : \A p \in CycleOrder(d) : o <= p
             e == [normalize_fullscreen(d) EXCEPT !.active = (d.active + o) % APP_COUNT]
         IN  FocusOn(sync_visibility(e), e.active)

close_active(d) ==
    IF ~has_active_window(d) THEN d
    ELSE FocusActive(sync_visibility(ActivatedApp(
            [d EXCEPT !.open = @ \ {d.active}, !.minimized = @ \ {d.active}, !.fullscreen = FALSE])))

\* Mutant: minimizing only marks the window.
MutantMinimize(d) ==
    IF ~has_active_window(d) THEN d
    ELSE FocusActive(ActivatedApp([d EXCEPT !.minimized = @ \cup {d.active}, !.fullscreen = FALSE]))
minimize_active(d) ==
    IF ~has_active_window(d) THEN d
    ELSE FocusActive(sync_visibility(ActivatedApp(
            [d EXCEPT !.minimized = @ \cup {d.active}, !.fullscreen = FALSE])))

toggle_fullscreen(d) ==
    IF ~has_active_window(d) THEN d
    ELSE FocusOn(sync_visibility([d EXCEPT !.fullscreen = ~@]), d.active)

\* tile_active and a press on a fullscreen titlebar leave fullscreen without
\* sync_visibility: the windows it hid stay hidden until the next one.
tile_active(d) == IF has_active_window(d) THEN [d EXCEPT !.fullscreen = FALSE] ELSE d
TitlebarPress(d) == [d EXCEPT !.fullscreen = FALSE, !.drag = d.active]
reset_window_layout(d) == sync_visibility([d EXCEPT !.fullscreen = FALSE])

-----------------------------------------------------------------------------
(* The launcher                                                            *)

Builtins(d) == IF d.builtins THEN Enabled \ {AppsHost} ELSE {}
launcher_item_count(d) == Cardinality(Builtins(d)) + d.installed + 1
launcher_item(d, ordinal) ==
    LET n == Cardinality(Builtins(d))
    IN  IF ordinal < n
        THEN CHOOSE a \in Builtins(d) : Cardinality({b \in Builtins(d) : b < a}) = ordinal
        ELSE IF ordinal < n + d.installed THEN AppsHost
        ELSE IF ordinal = n + d.installed THEN PowerItem ELSE NoItem

Lesser2(a, b) == IF a < b THEN a ELSE b
toggle_launcher(d) ==
    IF d.launcher THEN FocusActive([d EXCEPT !.launcher = FALSE])
    ELSE FocusOn([d EXCEPT !.launcher = TRUE,
                           !.selection = Lesser2(@, launcher_item_count(d) - 1)], LauncherSurface)

activate_launcher_selection(d) ==
    LET item == launcher_item(d, d.selection)
    IN  IF item = PowerItem THEN [close_launcher(d) EXCEPT !.power = TRUE]
        ELSE IF item = NoItem THEN d ELSE focus_existing(d, item)

\* The window of entries follows the selection.
Scrolled2(d, s) ==
    [d EXCEPT !.selection = s,
              !.scroll = IF s < @ THEN s
                         ELSE IF s >= @ + LAUNCHER_CAPACITY THEN s + 1 - LAUNCHER_CAPACITY ELSE @]
move_launcher_selection(d, delta) ==
    LET s == d.selection + delta
    IN  Scrolled2(d, Lesser2(IF s < 0 THEN 0 ELSE s, launcher_item_count(d) - 1))
cycle_launcher_selection(d) ==
    IF d.selection + 1 >= launcher_item_count(d) THEN [d EXCEPT !.selection = 0, !.scroll = 0]
    ELSE move_launcher_selection(d, 1)
\* select_launcher_shortcut: names are abstracted, so any entry but Power may
\* match the key.
ShortcutTargets(d) == {o \in 0..launcher_item_count(d) - 1 : launcher_item(d, o) # PowerItem}
select_launcher_shortcut(d, ordinal) == Scrolled2(d, ordinal)

-----------------------------------------------------------------------------
(* Pointer events: handle_pointer, route_pointer, pointer_press            *)

\* Focus follows the pointer under policy 1 with no button held, under policy 2
\* always, and never during a drag.
PointerFocuses(d) ==
    /\ d.drag = NoSurface
    /\ d.policy = 2 \/ (d.policy = 1 /\ ~d.held)
route_desktop_pointer(d, hit) ==
    IF hit \in AppKinds /\ PointerFocuses(d) /\ hit # d.active
    THEN FocusOn([d EXCEPT !.active = hit], hit) ELSE d

\* What a body click or a key of an application may change of the desktop:
\* packages, the entries of the launcher, the focus policy, another window, and
\* the terminal's console command or a new resolution ends the session.
AppEffects(d) ==
    {d, switch_to(d, AppsHost), reset_window_layout(d), close_active(d), [d EXCEPT !.ended = TRUE]}
    \cup {[d EXCEPT !.installed = n] : n \in 0..MaxInstalled}
    \cup {[d EXCEPT !.builtins = ~@, !.scroll = 0], [d EXCEPT !.policy = (@ + 1) % 3]}
    \cup {switch_to(d, a) : a \in AppKinds}

DockPresses(d) ==
    {toggle_launcher(d)}
    \cup {IF a = d.active /\ a \notin d.minimized THEN minimize_active(d) ELSE focus_existing(d, a)
             : a \in d.open}
LauncherPresses(d) ==
    {close_launcher(d)}
    \cup {IF launcher_item(d, o) = NoItem THEN d
          ELSE activate_launcher_selection([d EXCEPT !.selection = o])
             : o \in d.scroll..launcher_item_count(d)}
WindowPresses(d, app) ==
    LET e == FocusOn([d EXCEPT !.active = app], app)
    IN  {close_active(e), toggle_fullscreen(e), minimize_active(e), TitlebarPress(e)}
        \cup AppEffects(e)
\* pointer_press: the outcomes of a press that hits `hit`.
pointer_press(d, hit) ==
    DockPresses(d) \cup
    (IF d.launcher THEN LauncherPresses(d)
     ELSE IF hit \in AppKinds THEN WindowPresses(d, hit) ELSE {d})

\* A pointer packet: the button is pressed, released or left as it is.  A packet
\* that moves with a drag still on only drags, even when it presses.
handle_pointer(d, hit, button) ==
    LET e == route_desktop_pointer([d EXCEPT !.held = button], hit)
        f == IF d.held /\ ~button THEN [e EXCEPT !.drag = NoSurface] ELSE e
        pressed == button /\ ~d.held
    IN  (IF pressed THEN pointer_press(f, hit) ELSE {f})
        \cup (IF pressed /\ f.drag # NoSurface THEN {f} ELSE {})

Pointer(hit, button) ==
    /\ ~desk.ended /\ ~desk.locked /\ ~desk.power
    /\ hit \in desk.shown \cup {NoSurface}
    /\ desk' \in handle_pointer(desk, hit, button)

-----------------------------------------------------------------------------
(* The power menu and the lock screen                                      *)

PowerActions == <<"Lock", "Sleep", "Suspend", "Restart", "Shutdown">>
PowerCount == 5
\* perform_power_action.  The selection is 0 whenever the menu opens, and kept 0
\* here while it is closed.  Restart and Shutdown do not come back.
perform_power_action(d, act) ==
    LET e == [d EXCEPT !.power = FALSE, !.choice = 0]
    IN  CASE act = "Lock" -> [e EXCEPT !.locked = TRUE]
          [] act \in {"Sleep", "Suspend"} -> e
          [] act \in {"Restart", "Shutdown"} -> [e EXCEPT !.ended = TRUE]

\* A pointer over a card selects it and a press performs it; a press outside
\* closes the menu.
PowerPointer(card, button) ==
    /\ ~desk.ended /\ ~desk.locked /\ desk.power
    /\ desk' = LET d == [desk EXCEPT !.held = button]
                   pressed == button /\ ~desk.held
               IN  IF card \in 1..PowerCount
                   THEN LET e == [d EXCEPT !.choice = card - 1]
                        IN  IF pressed THEN perform_power_action(e, PowerActions[card]) ELSE e
                   ELSE IF pressed /\ card = 0 THEN [d EXCEPT !.power = FALSE, !.choice = 0] ELSE d

PowerMoves(c) ==
    {IF c % 2 # 0 THEN c - 1 ELSE c,
     IF c % 2 = 0 /\ c + 1 < PowerCount THEN c + 1 ELSE c,
     IF c < 2 THEN 0 ELSE c - 2, Lesser2(c + 2, PowerCount - 1), (c + 1) % PowerCount}
PowerKey ==
    /\ ~desk.ended /\ ~desk.locked /\ desk.power
    /\ \/ desk' = [desk EXCEPT !.power = FALSE, !.choice = 0]
       \/ \E c \in PowerMoves(desk.choice) : desk' = [desk EXCEPT !.choice = c]
       \/ desk' = perform_power_action(desk, PowerActions[desk.choice + 1])

\* While locked, keys edit the password and the pointer only moves.
LockKey(verified) ==
    /\ ~desk.ended /\ desk.locked
    /\ desk' = IF verified THEN [desk EXCEPT !.locked = FALSE] ELSE desk
LockPointer(button) ==
    /\ ~desk.ended /\ desk.locked
    /\ desk' = [desk EXCEPT !.held = button]

-----------------------------------------------------------------------------
(* Keys, in the order run_session asks                                     *)

ConfirmKey(accepted) ==
    /\ ~desk.ended /\ ~desk.locked /\ ~desk.power /\ desk.confirm
    /\ desk' = [desk EXCEPT !.confirm = FALSE, !.ended = accepted]

Plain(d) == ~d.ended /\ ~d.locked /\ ~d.power /\ ~d.confirm
AskShell ==
    /\ Plain(desk) /\ desk' = [close_launcher(desk) EXCEPT !.confirm = TRUE]
EscapeKey ==
    /\ Plain(desk) /\ desk.launcher /\ desk' = FocusActive(close_launcher(desk))
LauncherToggleKey == Plain(desk) /\ desk' = toggle_launcher(desk)
LauncherKey ==
    /\ Plain(desk) /\ desk.launcher
    /\ \/ \E delta \in {-LAUNCHER_COLUMNS, LAUNCHER_COLUMNS, -1, 1} :
             desk' = move_launcher_selection(desk, delta)
       \/ desk' = cycle_launcher_selection(desk)
       \/ desk' = activate_launcher_selection(desk)
       \/ \E o \in ShortcutTargets(desk) : desk' = select_launcher_shortcut(desk, o)
\* A key the visible active application takes for itself.
AppKey ==
    /\ Plain(desk) /\ ~desk.launcher /\ app_is_visible(desk, desk.active)
    /\ desk' \in AppEffects(desk)
WindowKey ==
    /\ Plain(desk) /\ ~desk.launcher
    /\ desk' \in {close_active(desk), cycle_app(desk), toggle_fullscreen(desk),
                  tile_active(desk), minimize_active(desk)}

\* complete_visible_frame: a frame the scanout does not confirm ends the session.
FrameNotVisible == ~desk.ended /\ desk' = [desk EXCEPT !.ended = TRUE]

-----------------------------------------------------------------------------
\* DesktopState::new, for no start application (NoSurface) or one.
NewDesktop(start, installed, builtins, policy) ==
    LET apps == IF start \in Enabled THEN {start} ELSE {}
    IN  [open |-> apps, minimized |-> {}, active |-> IF apps = {} THEN 0 ELSE start,
         fullscreen |-> FALSE, shown |-> apps, focus |-> IF apps = {} THEN NoSurface ELSE start,
         launcher |-> FALSE, selection |-> 0, scroll |-> 0, installed |-> installed,
         builtins |-> builtins, policy |-> policy, drag |-> NoSurface, held |-> FALSE,
         power |-> FALSE, choice |-> 0, locked |-> FALSE, confirm |-> FALSE, ended |-> FALSE]

\* The shell enters the desktop again; packages and preferences were saved.
Reenter(start) ==
    desk.ended /\ desk' = NewDesktop(start, desk.installed, desk.builtins, desk.policy)

DesktopInit == desk = NewDesktop(NoSurface, 0, TRUE, 0)
DesktopNext ==
    \/ \E button \in BOOLEAN :
          \/ \E hit \in AppKinds \cup {NoSurface} : Pointer(hit, button)
          \/ \E card \in -1..PowerCount : PowerPointer(card, button)
          \/ LockKey(button) \/ LockPointer(button) \/ ConfirmKey(button)
    \/ PowerKey \/ AskShell \/ EscapeKey \/ LauncherToggleKey \/ LauncherKey \/ AppKey
    \/ WindowKey \/ FrameNotVisible
    \/ \E start \in AppKinds \cup {NoSurface} : Reenter(start)

-----------------------------------------------------------------------------
\* No window the desktop has closed or minimized stays on the display server,
\* where hit_test would still find it, and fullscreen shows the active window
\* and no other, whichever command, click or package action came last.
ShownIsOpen ==
    \A a \in desk.shown : app_is_visible(desk, a)

\* The keyboard focus of the display server is never another application's
\* window than the active one, which gets the keys run_session dispatches.
FocusIsActive == desk.focus \in AppKinds => desk.focus = desk.active

\* Overlays do not pile up: the launcher is closed under the power menu and the
\* lock screen, and the lock screen replaces the power menu.
OverlaysExclusive ==
    /\ ~(desk.power /\ desk.launcher) /\ ~(desk.locked /\ desk.launcher)
    /\ ~(desk.locked /\ desk.power)

\* The selected launcher entry exists while the launcher is up, though packages
\* come and go while it is closed.
SelectionExists == desk.launcher => launcher_item(desk, desk.selection) # NoItem

-----------------------------------------------------------------------------
(* Where a desktop window may be (kernel/src/desktop.rs): dragging, moving *)
(* by keys, tiling and fullscreen under constrain_window_position, with    *)
(* edge snapping and an allowance to leave the screen, while the settings  *)
(* move the taskbar and resize the titlebar.  Lengths are in a coarser     *)
(* unit than pixels.                                                       *)

CONSTANTS
    SCREEN_WIDTH, SCREEN_HEIGHT,
    GRAB,          \* the 160 px a window keeps on screen horizontally
    CONTROLS,      \* the 126 px of buttons at the right of its titlebar
    TITLE_KEPT,    \* the 32 px of titlebar it keeps vertically
    MIN_WIDTH, MIN_HEIGHT, MARGIN,   \* app_dimensions
    TitleHeights, Allowances, SnapDistances, Thicknesses,
    Steps          \* distances of one drag packet or key

VARIABLES win,      \* the surface's rectangle
          full,     \* fullscreen, with this window active
          pref      \* the preferences that matter

geometryVars == <<win, full, pref>>

Rectangle(x, y, w, h) == [x |-> x, y |-> y, w |-> w, h |-> h]
Least2(a, b) == IF a < b THEN a ELSE b
Most2(a, b) == IF a > b THEN a ELSE b
Distance(a, b) == IF a < b THEN b - a ELSE a - b
Clamp(v, lo, hi) == IF v < lo THEN lo ELSE IF v > hi THEN hi ELSE v

Placements == {"Bottom", "Top", "Left", "Right"}
work_area(p) ==
    LET t == p.thick
    IN  IF p.hidden THEN Rectangle(0, 0, SCREEN_WIDTH, SCREEN_HEIGHT)
        ELSE CASE p.placement = "Bottom" -> Rectangle(0, 0, SCREEN_WIDTH, SCREEN_HEIGHT - t)
               [] p.placement = "Top" -> Rectangle(0, t, SCREEN_WIDTH, SCREEN_HEIGHT - t)
               [] p.placement = "Left" -> Rectangle(t, 0, SCREEN_WIDTH - t, SCREEN_HEIGHT)
               [] p.placement = "Right" -> Rectangle(0, 0, SCREEN_WIDTH - t, SCREEN_HEIGHT)

fullscreen_rect(p) ==
    LET a == work_area(p)
    IN  Rectangle(a.x + MARGIN, a.y + MARGIN, Most2(a.w - 2 * MARGIN, 1), Most2(a.h - 2 * MARGIN, 1))
app_dimensions(a) ==
    [w |-> Least2(Most2(a.w - 2 * MARGIN, MIN_WIDTH), a.w - MARGIN),
     h |-> Least2(Most2(a.h - 2 * MARGIN, MIN_HEIGHT), a.h - MARGIN)]
\* The cascade offset of the application's index is left out: it is bounded by
\* max_x and max_y like the centered position.
default_rect(p) ==
    LET a == work_area(p)
        d == app_dimensions(a)
    IN  Rectangle(a.x + Least2(Most2((a.w - d.w) \div 2, MARGIN), Most2(a.w - d.w, MARGIN)),
                  a.y + Least2(Most2((a.h - d.h) \div 2, MARGIN), Most2(a.h - d.h, MARGIN)),
                  d.w, d.h)

-----------------------------------------------------------------------------
\* A coordinate moving from `old` to `new` snaps to an edge it moves towards.
Towards(old, new, edge) == (old > edge /\ new < old) \/ (old < edge /\ new > old)
Snapped(p, old, new, low, high) ==
    IF ~p.snap THEN new
    ELSE IF Distance(new, low) <= p.distance /\ Towards(old, new, low) THEN low
    ELSE IF Distance(new, high) <= p.distance /\ Towards(old, new, high) THEN high
    ELSE new

Overflow(p, extent, kept) == Least2(p.allowance, Most2(extent - kept, 0))

constrain_window_position(p, r, x, y) ==
    LET a == work_area(p)
        right == a.x + a.w
        bottom == a.y + a.h
        across == Overflow(p, r.w, GRAB)
        down == Overflow(p, r.h, p.title)
        sx == Snapped(p, r.x, x, a.x, right - r.w)
        sy == Snapped(p, r.y, y, a.y, bottom - r.h)
        min_x == a.x - across
        max_x == Most2(right - r.w + across, min_x)
        min_y == a.y - Least2(down, Most2(p.title - Least2(p.title, TITLE_KEPT), 0))
        max_y == Most2(bottom - r.h + down, min_y)
    IN  [r EXCEPT !.x = Clamp(sx, min_x, max_x), !.y = Clamp(sy, min_y, max_y)]

-----------------------------------------------------------------------------
\* drag_active.
MoveWindow(dx, dy) ==
    /\ win' = constrain_window_position(pref, win, win.x + dx, win.y + dy)
    /\ UNCHANGED <<full, pref>>

\* move_active, by an arrow key, which moves a fullscreen window too.
MoveKey(dx, dy) == (dx = 0 \/ dy = 0) /\ MoveWindow(dx, dy)

TileWindow(tiling, right_half) ==
    LET a == work_area(pref)
        third == a.w \div 3
        half == a.w \div 2
        low == win.y + (win.h \div 2) >= a.y + (a.h \div 2)
        tall == a.h \div 2
    IN  /\ win' = CASE tiling = 1 ->
                         Rectangle(IF right_half THEN a.x + a.w - third ELSE a.x, a.y, third, a.h)
                    [] tiling = 2 ->
                         Rectangle(IF right_half THEN a.x + a.w - half ELSE a.x,
                                   IF low THEN a.y + a.h - tall ELSE a.y, half, tall)
                    [] OTHER ->
                         IF right_half THEN Rectangle(a.x + half, a.y, a.w - half, a.h)
                         ELSE Rectangle(a.x, a.y, half, a.h)
        /\ full' = FALSE /\ UNCHANGED pref

ToggleFullscreen ==
    /\ full' = ~full
    /\ win' = IF full' THEN fullscreen_rect(pref) ELSE default_rect(pref)
    /\ UNCHANGED pref
\* Opening it again, a layout reset, a press on its fullscreen titlebar and every
\* command that ends fullscreen put the window at its default place.
ToDefault == win' = default_rect(pref) /\ full' = FALSE /\ UNCHANGED pref

reconstrain_windows(p, r) == IF full THEN r ELSE constrain_window_position(p, r, r.x, r.y)
\* sync_desktop_geometry, then reconstrain_windows.
DesktopGeometry(p, r) == reconstrain_windows(p, IF full THEN fullscreen_rect(p) ELSE r)

\* activate_setting: the taskbar's edge and size, and whether it takes room (it
\* does unless it is turned off or hides itself).
SetTaskbar ==
    \E p \in {[pref EXCEPT !.placement = e] : e \in Placements}
             \cup {[pref EXCEPT !.thick = t] : t \in Thicknesses} \cup {[pref EXCEPT !.hidden = ~@]} :
       pref' = p /\ win' = DesktopGeometry(p, win) /\ UNCHANGED full
\* activate_setting: the titlebar's height and the off-screen allowance.
SetWindows ==
    \E p \in {[pref EXCEPT !.title = t] : t \in TitleHeights}
             \cup {[pref EXCEPT !.allowance = v] : v \in Allowances} :
       pref' = p /\ win' = reconstrain_windows(p, win) /\ UNCHANGED full
\* activate_setting: snapping, which moves nothing by itself.
SetSnap ==
    \E p \in {[pref EXCEPT !.snap = ~@]} \cup {[pref EXCEPT !.distance = v] : v \in SnapDistances} :
       pref' = p /\ UNCHANGED <<win, full>>

AllPreferences ==
    [placement : Placements, thick : Thicknesses, hidden : BOOLEAN, title : TitleHeights,
     allowance : Allowances, snap : BOOLEAN, distance : SnapDistances]
GeometryInit == pref \in AllPreferences /\ win = default_rect(pref) /\ full = FALSE
GeometryNext ==
    \/ \E dx, dy \in Steps : MoveWindow(dx, dy) \/ MoveKey(dx, dy)
    \/ \E tiling \in 0..2, right_half \in BOOLEAN : TileWindow(tiling, right_half)
    \/ ToggleFullscreen \/ ToDefault
    \/ SetTaskbar \/ SetWindows \/ SetSnap

-----------------------------------------------------------------------------
Overlap(a, b, lo, hi) == Most2(0, Least2(b, hi) - Most2(a, lo))
\* A window can always be grabbed again: part of its titlebar that is not a
\* button stays in the work area, and as much of its height as the titlebar or
\* TITLE_KEPT, however windows, taskbar and titlebar were moved or resized.  A
\* fullscreen window is not constrained again when the titlebar changes.
GrabVisible ==
    ~full =>
    LET a == work_area(pref)
    IN  /\ Overlap(win.x, win.x + win.w - CONTROLS, a.x, a.x + a.w) >= GRAB - CONTROLS
        /\ Overlap(win.y, win.y + pref.title, a.y, a.y + a.h) >= Least2(pref.title, TITLE_KEPT)

\* A window follows the pointer or stays: no drag moves it the other way, and
\* one pushed away from an edge is not held there by snapping.
DragFollows ==
    ~full =>
    \A d \in Steps \ {0} :
        LET r == constrain_window_position(pref, win, win.x + d, win.y + d)
            a == work_area(pref)
        IN  /\ d > 0 => r.x >= win.x /\ r.y >= win.y
            /\ d < 0 => r.x <= win.x /\ r.y <= win.y
            /\ d > 0 /\ win.x = a.x /\ pref.allowance > 0 /\ win.w > GRAB /\ win.w <= a.w => r.x > win.x

\* What the desktop shows, focuses and lets be grabbed exists and can be reached.
DeskConsistent ==
    /\ ShownIsOpen /\ FocusIsActive /\ OverlaysExclusive /\ SelectionExists
    /\ GrabVisible /\ DragFollows
=============================================================================
