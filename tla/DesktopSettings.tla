--------------------------- MODULE DesktopSettings --------------------------
(***************************************************************************)
(* The desktop's Settings (kernel/src/desktop.rs): every row of the        *)
(* eighteen pages, the eight profiles, and the two places a choice is      *)
(* kept: the system state record, and the DesktopUI.state Data Form, which *)
(* is written after it and independently.  A preference is a number: the   *)
(* index of a choice, or 0 and 1 for a switch.                             *)
(***************************************************************************)
EXTENDS Integers, Sequences

CONSTANTS
    Visits,       \* the sets of pages one session opens, among Categories
    MaxChanges    \* rows activated per session

VARIABLES
    chosen,       \* DesktopState.preferences, radio policy and requested mode
    recorded,     \* the preferences of the system state record
    extension,    \* <<>>, or <<the preferences in DesktopUI.state>>
    visit,        \* the pages this session opens
    changes,      \* rows activated so far
    touched,      \* the page and the row activated last
    kept          \* both saves of the last change succeeded

settingsVars == <<chosen, recorded, extension, visit, changes, touched, kept>>

-----------------------------------------------------------------------------
\* A row of a page: what activating it does, to which preference, among how
\* many choices.
Row(op, f, n) == [op |-> op, field |-> f, count |-> n]
Toggle(f) == Row("toggle", f, 2)
Shift(f, n) == Row("shift", f, n)
Byte(f) == Row("byte", f, 256)
Information == Row("none", "", 0)       \* shows something, or acts elsewhere
Widget(f) == Row("widget", f, 2)
Radio(f) == Row("radio", f, 2)

WALLPAPER_VARIANT_CHOICES == 252
Profiles == <<"Balanced", "Compact", "Focus", "Accessible", "Showcase", "Touch", "Night", "Presentation">>
SystemPage ==
    <<Toggle("taskbar_visible"), Toggle("status_visible")>>
ProfilesPage ==
    [i \in 1..8 |-> Row("profile", Profiles[i], 0)]
AppearancePage ==
    <<Byte("theme"), Row("wallpaper", "wallpaper_variant", WALLPAPER_VARIANT_CHOICES),
      Byte("accent"), Byte("backdrop"), Toggle("pure_black_apps"),
      Toggle("rounded_controls"), Shift("font_face", 5), Shift("font_weight", 3)>>
AccessibilityPage ==
    <<Toggle("high_contrast"), Shift("font_face", 5), Shift("font_weight", 3),
      Shift("titlebar_density", 5), Shift("taskbar_size", 9), Shift("cursor", 4),
      Toggle("cursor_shadow"), Shift("animation_level", 5), Toggle("tooltips"),
      Toggle("reduce_transparency"), Toggle("focus_ring")>>
NetworkPage ==
    <<Radio("network_enabled"), Toggle("status_visible"), Radio("wifi_enabled"), Information>>
BluetoothPage ==
    <<Radio("bluetooth_enabled"), Information>>
DisplayPage ==
    <<Shift("display_mode", 3), Shift("refresh_rate", 4), Toggle("vsync"), Information,
      Row("borders", "window_borders", 2), Toggle("high_contrast")>>
AudioPage ==
    <<Row("volume", "audio_volume", 101), Toggle("audio_muted"), Information, Information,
      Information, Information, Information>>
PerformancePage ==
    <<Toggle("window_shadows"), Toggle("wallpaper_effects"),
      Toggle("responsive_presentation"), Information>>
InputPage ==
    <<Row("speed", "pointer_speed", 4), Shift("cursor", 4), Information, Information,
      Toggle("cursor_shadow")>>
WindowsPage ==
    <<Shift("window_corner_radius", 9), Row("width", "window_border_width", 7),
      Shift("titlebar_density", 5), Shift("window_opacity", 6),
      Shift("window_offscreen_allowance", 9), Toggle("window_snap"),
      Shift("window_snap_distance", 9), Shift("focus_policy", 3), Shift("window_tiling", 3)>>
TaskbarPage ==
    <<Shift("taskbar_placement", 4), Shift("taskbar_size", 9), Shift("taskbar_alignment", 3),
      Toggle("taskbar_autohide"), Toggle("taskbar_translucent"), Toggle("taskbar_labels"),
      Toggle("clock_seconds"), Widget("widget_date"), Widget("widget_active_app"),
      Widget("widget_weather"), Widget("widget_performance"), Widget("widget_audio"),
      Widget("widget_timezone"), Shift("taskbar_style", 3), Shift("taskbar_icon_scale", 3),
      Toggle("taskbar_indicators")>>
MenuPage ==
    <<Row("layout", "menu_layout", 4), Shift("menu_density", 5), Shift("ui_scale", 7),
      Toggle("menu_show_builtins"), Toggle("menu_show_installed"), Toggle("menu_categories"),
      Shift("animation_level", 5), Toggle("tooltips"), Toggle("notification_animations")>>
TerminalPage ==
    <<Shift("terminal_font_face", 5), Shift("terminal_font_weight", 3),
      Shift("terminal_scale", 3), Shift("terminal_foreground", 8), Shift("terminal_background", 8)>>
LanguagePage ==
    [i \in 1..5 |-> Row("language", "locale", 5)]
TimePage ==
    <<Shift("timezone", 16), Toggle("clock_24h"), Row("offset", "clock_offset_quarters", 0),
      Shift("date_format", 3), Toggle("week_starts_monday"),
      Row("reset", "clock_offset_quarters", 0), Information>>
PrivacyPage ==
    <<Information, Information, Information, Information, Information>>
AboutPage ==
    <<Information, Information, Information, Information>>
Pages ==
    [System |-> SystemPage, Profiles |-> ProfilesPage, Appearance |-> AppearancePage, Accessibility |-> AccessibilityPage,
     Network |-> NetworkPage, Bluetooth |-> BluetoothPage, Display |-> DisplayPage, Audio |-> AudioPage,
     Performance |-> PerformancePage, Input |-> InputPage, Windows |-> WindowsPage, Taskbar |-> TaskbarPage,
     Menu |-> MenuPage, Terminal |-> TerminalPage, Language |-> LanguagePage, Time |-> TimePage,
     Privacy |-> PrivacyPage, About |-> AboutPage]
Categories == DOMAIN Pages
AllRows == UNION {{Pages[c][i] : i \in DOMAIN Pages[c]} : c \in Categories}

\* What draw_settings shows in each row: a switch or a choice with the value of
\* a preference, a button, or something that cannot be changed.
Shown(control, f) == [control |-> control, field |-> f]
Switch(f) == Shown("Toggle", f)
Choice(f) == Shown("Choice", f)
Palette(f) == Shown("Palette", f)
Button == Shown("Action", "")
Status == Shown("Status", "")
SystemDrawn == <<Switch("taskbar_visible"), Switch("status_visible")>>
ProfilesDrawn == [i \in 1..Len(Profiles) |-> Button]
AppearanceDrawn ==
    <<Palette("theme"), Palette("wallpaper_variant"), Palette("accent"), Palette("backdrop"),
      Switch("pure_black_apps"), Switch("rounded_controls"), Choice("font_face"), Choice("font_weight")>>
AccessibilityDrawn ==
    <<Switch("high_contrast"), Choice("font_face"), Choice("font_weight"), Choice("titlebar_density"),
      Choice("taskbar_size"), Choice("cursor"), Switch("cursor_shadow"), Choice("animation_level"),
      Switch("tooltips"), Switch("reduce_transparency"), Switch("focus_ring")>>
NetworkDrawn == <<Switch("network_enabled"), Switch("status_visible"), Switch("wifi_enabled"), Status>>
BluetoothDrawn == <<Switch("bluetooth_enabled"), Status>>
DisplayDrawn ==
    <<Choice("display_mode"), Choice("refresh_rate"), Switch("vsync"), Status, Switch("window_borders"),
      Switch("high_contrast")>>
AudioDrawn == <<Choice("audio_volume"), Switch("audio_muted"), Button, Button, Status, Button, Button>>
PerformanceDrawn ==
    <<Switch("window_shadows"), Switch("wallpaper_effects"), Choice("responsive_presentation"), Status>>
InputDrawn == <<Choice("pointer_speed"), Choice("cursor"), Status, Status, Switch("cursor_shadow")>>
WindowsDrawn ==
    <<Choice("window_corner_radius"), Choice("window_border_width"), Choice("titlebar_density"),
      Choice("window_opacity"), Choice("window_offscreen_allowance"), Switch("window_snap"),
      Choice("window_snap_distance"), Choice("focus_policy"), Choice("window_tiling")>>
TaskbarPanelDrawn ==
    <<Choice("taskbar_placement"), Choice("taskbar_size"), Choice("taskbar_alignment"),
      Switch("taskbar_autohide"), Switch("taskbar_translucent"), Switch("taskbar_labels"),
      Switch("clock_seconds")>>
TaskbarWidgetsDrawn ==
    <<Switch("widget_date"), Switch("widget_active_app"), Switch("widget_weather"),
      Switch("widget_performance"), Switch("widget_audio"), Switch("widget_timezone")>>
TaskbarDrawn ==
    TaskbarPanelDrawn \o TaskbarWidgetsDrawn
      \o <<Choice("taskbar_style"), Choice("taskbar_icon_scale"), Switch("taskbar_indicators")>>
MenuDrawn ==
    <<Choice("menu_layout"), Choice("menu_density"), Choice("ui_scale"), Switch("menu_show_builtins"),
      Switch("menu_show_installed"), Switch("menu_categories"), Choice("animation_level"),
      Switch("tooltips"), Switch("notification_animations")>>
TerminalDrawn ==
    <<Choice("terminal_font_face"), Choice("terminal_font_weight"), Choice("terminal_scale"),
      Choice("terminal_foreground"), Choice("terminal_background")>>
LanguageDrawn == [i \in 1..5 |-> Choice("locale")]
TimeDrawn ==
    <<Choice("timezone"), Choice("clock_24h"), Choice("clock_offset_quarters"), Choice("date_format"),
      Choice("week_starts_monday"), Button, Status>>
PrivacyDrawn == <<Button, Button, Status, Status, Status>>
AboutDrawn == <<Status, Status, Status, Status>>
draw_settings ==
    [System |-> SystemDrawn, Profiles |-> ProfilesDrawn, Appearance |-> AppearanceDrawn,
     Accessibility |-> AccessibilityDrawn, Network |-> NetworkDrawn, Bluetooth |-> BluetoothDrawn,
     Display |-> DisplayDrawn, Audio |-> AudioDrawn, Performance |-> PerformanceDrawn, Input |-> InputDrawn,
     Windows |-> WindowsDrawn, Taskbar |-> TaskbarDrawn, Menu |-> MenuDrawn, Terminal |-> TerminalDrawn,
     Language |-> LanguageDrawn, Time |-> TimeDrawn, Privacy |-> PrivacyDrawn, About |-> AboutDrawn]

\* The fields of the DesktopUI.state extension; every other one is recorded in
\* the system state.
ExtensionFields ==
    {"locale", "menu_layout", "terminal_font_face", "terminal_font_weight", "terminal_scale",
     "terminal_foreground", "terminal_background", "timezone", "clock_24h", "clock_offset_quarters",
     "date_format", "week_starts_monday", "widget_date", "widget_active_app", "widget_weather",
     "widget_performance", "widget_audio", "widget_timezone", "audio_volume", "audio_muted",
     "reduce_transparency", "focus_ring", "window_tiling", "taskbar_style", "taskbar_icon_scale",
     "taskbar_indicators"}
Fields == ({r.field : r \in {x \in AllRows : x.op \notin {"none", "profile"}}}) \cup {"menu_grid", "wallpaper"}
RecordFields == (Fields \ ExtensionFields) \ {"wallpaper"}
\* The number of choices of a preference; 0 for the clock's correction.
Count == [f \in Fields |-> IF f = "menu_grid" THEN 2 ELSE IF f = "wallpaper" THEN 7
                           ELSE (CHOOSE r \in AllRows : r.field = f).count]

\* PersistentPreferences::new and the defaults from_persistent adds.
On == {"pure_black_apps", "rounded_controls", "taskbar_visible", "status_visible", "network_enabled", "vsync",
       "font_weight", "pointer_speed", "menu_show_builtins", "menu_show_installed", "taskbar_icon_scale",
       "taskbar_indicators", "terminal_font_weight", "clock_24h", "week_starts_monday"}
Defaults == [f \in Fields |-> CASE f = "timezone" -> 3 [] f = "audio_volume" -> 80
                                [] f \in On -> 1 [] OTHER -> 0]

-----------------------------------------------------------------------------
\* sanitize_preferences, on the way to the record and on the way back.
Sanitized(f, v) ==
    CASE f = "pointer_speed" -> IF v \in 1..3 THEN v ELSE 1
      [] f = "font_weight" -> IF v < 3 THEN v ELSE 1
      [] OTHER -> IF v < Count[f] THEN v ELSE 0
update_persistent(p) == [f \in RecordFields |-> Sanitized(f, p[f])]
encode_ui_extension(p) == [f \in ExtensionFields |-> IF f = "clock_offset_quarters" THEN p[f] % 256 ELSE p[f]]

from_persistent(r) ==
    [f \in Fields |->
        CASE f = "wallpaper" -> r["wallpaper_variant"] % 7
          [] f = "window_borders" -> IF r["window_border_width"] = 0 THEN 0 ELSE r[f]
          [] f = "menu_layout" -> r["menu_grid"]
          [] f \in RecordFields -> r[f]
          [] OTHER -> Defaults[f]]

\* A byte read back as a signed number and clamped.
Signed(b) == IF b > 127 THEN b - 256 ELSE b
ClampedOffset(q) == IF q < -48 THEN -48 ELSE IF q > 48 THEN 48 ELSE q
load_ui_extension(p, ext) ==
    IF ext = <<>> THEN p
    ELSE [f \in Fields |->
             CASE f = "menu_grid" -> IF ext[1]["menu_layout"] = 0 THEN 0 ELSE 1
               [] f = "clock_offset_quarters" -> ClampedOffset(Signed(ext[1][f]))
               [] f \in ExtensionFields -> IF ext[1][f] < Count[f] THEN ext[1][f] ELSE Count[f] - 1
               [] OTHER -> p[f]]
Reloaded == load_ui_extension(from_persistent(recorded), extension)

-----------------------------------------------------------------------------
Overrides(p, names, v) == [f \in Fields |-> IF f \in names THEN v ELSE p[f]]
\* What a profile leaves as it was chosen.
KeptByProfile ==
    {"refresh_rate", "vsync", "taskbar_visible", "status_visible", "display_mode", "network_enabled",
     "wifi_enabled", "bluetooth_enabled"} \cup ExtensionFields
Styled(p, names, on, off) ==
    Overrides(Overrides([f \in Fields |-> IF f \in DOMAIN names THEN names[f] ELSE p[f]], on, 1), off, 0)
with_profile(p, name) ==
    LET base == [f \in Fields |-> IF f = "menu_grid" THEN (IF p["menu_layout"] = 0 THEN 0 ELSE 1)
                                  ELSE IF f \in KeptByProfile THEN p[f] ELSE Defaults[f]]
    IN  CASE name = "Balanced" -> base
          [] name = "Compact" ->
               Styled(base, [theme |-> 1, font_face |-> 3], {"window_corner_radius", "window_border_width",
                      "window_borders", "ui_scale", "animation_level"}, {"pure_black_apps", "rounded_controls"})
          [] name = "Focus" ->
               Styled(base, [backdrop |-> 2], {"pure_black_apps", "taskbar_autohide"},
                      {"rounded_controls", "window_borders", "window_border_width"})
          [] name = "Accessible" ->
               Styled(base, [theme |-> 2, cursor |-> 3, font_weight |-> 2, window_corner_radius |-> 4,
                             window_border_width |-> 4, titlebar_density |-> 4, taskbar_size |-> 8,
                             menu_density |-> 4, ui_scale |-> 6],
                      {"high_contrast", "font_face", "window_borders", "taskbar_labels", "cursor_shadow", "tooltips",
                       "reduce_transparency", "focus_ring"}, {"animation_level"})
          [] name = "Showcase" ->
               Styled(base, [theme |-> 4, wallpaper |-> 5, wallpaper_variant |-> 145, cursor |-> 2, accent |-> 145,
                             window_corner_radius |-> 7, window_border_width |-> 2, titlebar_density |-> 2,
                             window_opacity |-> 2, taskbar_size |-> 4, menu_density |-> 2, animation_level |-> 3,
                             ui_scale |-> 4],
                      {"backdrop", "rounded_controls", "window_shadows", "wallpaper_effects",
                       "responsive_presentation", "window_borders", "taskbar_alignment", "taskbar_translucent",
                       "taskbar_labels", "cursor_shadow", "tooltips", "notification_animations", "menu_grid",
                       "menu_categories"}, {"pure_black_apps"})
          [] name = "Touch" ->
               Styled(base, [theme |-> 3, cursor |-> 2, pointer_speed |-> 2, window_corner_radius |-> 6,
                             window_border_width |-> 3, titlebar_density |-> 4, taskbar_size |-> 8,
                             menu_density |-> 4, animation_level |-> 2, ui_scale |-> 6],
                      {"rounded_controls", "window_borders", "taskbar_labels", "cursor_shadow", "tooltips",
                       "menu_grid", "menu_categories"}, {})
          [] name = "Night" ->
               Styled(base, [theme |-> 5, wallpaper |-> 1, wallpaper_variant |-> 226, accent |-> 226, backdrop |-> 2],
                      {"wallpaper_effects", "reduce_transparency", "animation_level"}, {})
          [] name = "Presentation" ->
               Styled(base, [theme |-> 2, font_weight |-> 2, titlebar_density |-> 3, taskbar_size |-> 5,
                             ui_scale |-> 4],
                      {"high_contrast", "taskbar_labels", "focus_ring", "reduce_transparency", "animation_level",
                       "tooltips"}, {"taskbar_autohide", "window_tiling"})

-----------------------------------------------------------------------------
shift_index(v, count, direction) == IF direction < 0 THEN (v + count - 1) % count ELSE (v + 1) % count

\* Going back adds the count without taking the remainder, and truncates to a byte.
ShiftWallpaper(v, direction) ==
    IF direction < 0 THEN (v + WALLPAPER_VARIANT_CHOICES + direction) % 256
    ELSE (v + direction) % WALLPAPER_VARIANT_CHOICES

vertical(p) == p["taskbar_placement"] \in {2, 3}
With(p, f, v) == [p EXCEPT ![f] = v]
ToggleBorders(p) ==
    LET q == With(p, "window_borders", 1 - p["window_borders"])
    IN  IF q["window_borders"] = 1 /\ q["window_border_width"] = 0 THEN With(q, "window_border_width", 1) ELSE q

\* The values activate_setting may leave: row i of page c, moved in `direction`.
Activated(p, c, i, direction) ==
    LET row == Pages[c][i]
        f == row.field
        step == IF direction < 0 THEN -1 ELSE 1
    IN  CASE row.op = "toggle" -> {With(p, f, 1 - p[f])}
          [] row.op = "shift" -> {With(p, f, shift_index(p[f], row.count, direction))}
          [] row.op = "byte" -> {With(p, f, (p[f] + direction) % 256)}
          [] row.op = "wallpaper" ->
               LET v == ShiftWallpaper(p[f], direction) IN {With(With(p, f, v), "wallpaper", v % 7)}
          [] row.op = "profile" -> {with_profile(p, f)}
          [] row.op = "borders" -> {ToggleBorders(p)}
          [] row.op = "width" ->
               LET w == shift_index(p[f], row.count, direction)
               IN  {With(With(p, f, w), "window_borders", IF w = 0 THEN 0 ELSE 1)}
          [] row.op = "volume" ->
               LET v == p[f] + 5 * step IN {With(p, f, IF v < 0 THEN 0 ELSE IF v > 100 THEN 100 ELSE v)}
          [] row.op = "speed" -> {With(p, f, ((p[f] - 1 + step + 3) % 3) + 1)}
          [] row.op = "widget" -> {IF vertical(p) THEN p ELSE With(p, f, 1 - p[f])}
          [] row.op = "layout" ->
               LET v == shift_index(p[f], row.count, direction)
               IN  {With(With(p, f, v), "menu_grid", IF v = 0 THEN 0 ELSE 1)}
          [] row.op = "language" -> {With(p, f, i - 1)}
          [] row.op = "offset" -> {With(p, f, ClampedOffset(p[f] + step))}
          [] row.op = "reset" -> {With(p, f, 0)}
          [] row.op = "radio" -> {p, With(p, f, 1 - p[f])}     \* p: access was not granted
          [] OTHER -> {p}

\* "," and "." move the first four rows of Appearance by 16.
Directions(c, i) == {-1, 1} \cup (IF c = "Appearance" /\ i <= 4 THEN {-16, 16} ELSE {})

\* save_preferences: each of the two saves may fail.
activate_setting(c, i, direction) ==
    /\ changes < MaxChanges /\ changes' = changes + 1 /\ touched' = <<c, i>>
    /\ chosen' \in Activated(chosen, c, i, direction)
    /\ \E record, form \in BOOLEAN :
          /\ recorded' = IF record THEN update_persistent(chosen') ELSE recorded
          /\ extension' = IF form THEN <<encode_ui_extension(chosen')>> ELSE extension
          /\ kept' = (record /\ form)
    /\ UNCHANGED visit

\* A new boot: the desktop's new reads both places.
RestartDesktop ==
    /\ chosen' = Reloaded
    /\ UNCHANGED <<recorded, extension, visit, changes, touched, kept>>

SettingsInit ==
    /\ chosen = Defaults /\ recorded = update_persistent(Defaults) /\ extension = <<>>
    /\ visit \in Visits /\ changes = 0 /\ touched = <<"System", 1>> /\ kept = TRUE
SettingsNext ==
    \/ \E c \in visit : \E i \in DOMAIN Pages[c] : \E d \in Directions(c, i) : activate_setting(c, i, d)
    \/ RestartDesktop

-----------------------------------------------------------------------------
\* Once both saves of the last change have succeeded, a new session shows the
\* preferences as they were chosen, whichever earlier saves failed and whatever
\* profile was applied.  The wallpaper and the launcher's grid are stated apart.
SettingsReturn ==
    kept => \A loaded \in {Reloaded} :
                \A f \in Fields \ {"wallpaper", "wallpaper_variant", "menu_grid"} : loaded[f] = chosen[f]

\* The page a user looks at is the page they change: a row that changes a
\* preference is drawn with that preference's value, and a row drawn as a status
\* changes nothing.  draw_settings and activate_setting number the rows of the
\* eighteen pages independently.
ChangeIsShown ==
    [][changes' # changes =>
         \A shown \in {draw_settings[touched'[1]][touched'[2]]} :
            /\ shown.control = "Status" => chosen' = chosen
            /\ shown.control \in {"Toggle", "Choice", "Palette"} /\ chosen' # chosen =>
                  chosen'[shown.field] # chosen[shown.field]]_settingsVars

\* Every choice is an index of its table of labels, which the desktop indexes
\* without a bound of its own, after any change and after a reload that mixes an
\* older record with a newer extension.
ChoicesHaveLabels ==
    \A p \in {chosen, Reloaded} : \A f \in Fields \ {"clock_offset_quarters", "wallpaper_variant"} :
        p[f] \in 0 .. Count[f] - 1

-----------------------------------------------------------------------------
(* Moving through the Settings window (kernel/src/desktop.rs): the         *)
(* selected page and row under keys and clicks, the part of a long page    *)
(* that is drawn, and the pixels a row is drawn on and answers to.  The    *)
(* drawing and the click handler each decide whether the window is         *)
(* compact.  Sizes are the program's, in pixels.                           *)

CONSTANT WindowSizes    \* the [w, h] the Settings window may be given

VARIABLES open_page, row, size

viewVars == <<open_page, row, size>>

PageOrder ==
    <<"System", "Appearance", "Network", "Bluetooth", "Display", "Audio", "Performance", "Input", "Windows",
      "Taskbar", "Menu", "Profiles", "Accessibility", "Privacy", "About", "Terminal", "Language", "Time">>
row_count(c) == Len(Pages[c])
PageIndex(c) == (CHOOSE i \in DOMAIN PageOrder : PageOrder[i] = c) - 1
Lesser3(a, b) == IF a < b THEN a ELSE b
Less(a, b) == IF a < b THEN 0 ELSE a - b     \* saturating_sub

-----------------------------------------------------------------------------
settings_compact(s) == s.h < 560 \/ s.w < 800
settings_sidebar_width(s) == IF settings_compact(s) THEN 158 ELSE 206
settings_category_top(s) == IF settings_compact(s) THEN 70 ELSE 92
settings_category_step(s) == IF settings_compact(s) THEN 38 ELSE 42
settings_category_capacity(s) == IF settings_compact(s) THEN 7 ELSE 11
settings_row_top(s) == IF settings_compact(s) THEN 88 ELSE 112
settings_row_height(s) == IF settings_compact(s) THEN 42 ELSE 54
settings_row_step(s) == IF settings_compact(s) THEN 47 ELSE 62
ContentWidth(s) == s.w - settings_sidebar_width(s) - 50
settings_row_capacity(width) == IF width < 600 THEN 5 ELSE 7

settings_category_view_start(s, selected) ==
    LET capacity == Lesser3(settings_category_capacity(s), Len(PageOrder))
    IN  Lesser3(Less(selected, capacity - 1), Len(PageOrder) - capacity)
\* Mutant: the page scrolls one row too late.
MutantViewStart(c, selected, width) ==
    LET capacity == Lesser3(settings_row_capacity(width), row_count(c))
    IN  Lesser3(Less(selected, capacity), row_count(c) - capacity)

settings_row_view_start(c, selected, width) ==
    LET capacity == Lesser3(settings_row_capacity(width), row_count(c))
    IN  Lesser3(Less(selected, capacity - 1), row_count(c) - capacity)

\* settings_row: the first and last pixel row i of page c is drawn on, if it is.
DrawnRow(s, c, selected, i) ==
    LET width == ContentWidth(s)
        top == IF width < 600 THEN 88 ELSE 112
        step == IF width < 600 THEN 47 ELSE 62
        height == IF width < 600 THEN 42 ELSE 54
        start == settings_row_view_start(c, selected, width)
    IN  IF i < start \/ i >= start + settings_row_capacity(width) THEN <<>>
        ELSE <<top + (i - start) * step, top + (i - start) * step + height - 1>>
\* draw_settings: the first and last pixel of a page's entry in the sidebar.
DrawnPage(s, selected, k) ==
    LET start == settings_category_view_start(s, selected)
        top == settings_category_top(s) + (k - start) * settings_category_step(s)
    IN  IF k < start \/ k >= Lesser3(start + settings_category_capacity(s), Len(PageOrder)) THEN <<>>
        ELSE <<top, top + settings_category_step(s) - 5>>

\* settings_click: the row, or the page, a click at height y selects; -1 for none.
ClickedRow(s, c, selected, y) ==
    LET slot == (y - settings_row_top(s)) \div settings_row_step(s)
        i == settings_row_view_start(c, selected, ContentWidth(s)) + slot
    IN  IF y >= settings_row_top(s) /\ i < row_count(c) /\ slot < settings_row_capacity(ContentWidth(s))
           /\ y < settings_row_top(s) + slot * settings_row_step(s) + settings_row_height(s)
        THEN i ELSE -1
ClickedPage(s, selected, y) ==
    LET slot == (y - settings_category_top(s)) \div settings_category_step(s)
        k == settings_category_view_start(s, selected) + slot
    IN  IF y >= settings_category_top(s) /\ k < Len(PageOrder) /\ slot < settings_category_capacity(s)
           /\ y < settings_category_top(s) + slot * settings_category_step(s) + settings_category_step(s) - 4
        THEN k ELSE -1

-----------------------------------------------------------------------------
select_settings_category(k) == open_page' = PageOrder[k + 1] /\ row' = 0 /\ UNCHANGED size
shifted(c, direction) == (PageIndex(c) + Len(PageOrder) + direction) % Len(PageOrder)
\* handle_settings_key; activating the selected row changes no selection.
SettingsKey ==
    \/ \E d \in {-1, 1} : select_settings_category(shifted(open_page, d))
    \/ row' = Less(row, 1) /\ UNCHANGED <<open_page, size>>
    \/ row' = Lesser3(row + 1, row_count(open_page) - 1) /\ UNCHANGED <<open_page, size>>
    \/ \E k \in 0..8 : select_settings_category(k)
settings_click(y) ==
    \/ ClickedPage(size, PageIndex(open_page), y) >= 0
       /\ select_settings_category(ClickedPage(size, PageIndex(open_page), y))
    \/ ClickedRow(size, open_page, row, y) >= 0
       /\ row' = ClickedRow(size, open_page, row, y) /\ UNCHANGED <<open_page, size>>
ResizeView == size' \in WindowSizes /\ UNCHANGED <<open_page, row>>

ViewInit == open_page = "System" /\ row = 0 /\ size \in WindowSizes
ViewNext == SettingsKey \/ (\E y \in {70 + 20 * k : k \in 0..25} : settings_click(y)) \/ ResizeView

-----------------------------------------------------------------------------
\* The selected row and the selected page are always drawn, inside the window
\* ("computes compact category/row viewports so the selected item remains
\* visible at 480p", ARCHITECTURE.md).
SelectionDrawn ==
    LET chosen_page == PageIndex(open_page)
        drawn == DrawnRow(size, open_page, row, row)
        entry == DrawnPage(size, chosen_page, chosen_page)
    IN  /\ row < row_count(open_page)
        /\ drawn # <<>> /\ drawn[2] < size.h
        /\ entry # <<>> /\ entry[2] < size.h

\* A click selects what is drawn where it falls: the first and last pixel of
\* every drawn row and sidebar entry answer to that row and that page.  (A window
\* tiled to a quarter of a 1080p screen is compact for the click handler only.)
ClickHitsDrawn ==
    LET chosen_page == PageIndex(open_page)
    IN  /\ \A i \in 0 .. row_count(open_page) - 1 : \A span \in {DrawnRow(size, open_page, row, i)} :
              \A n \in DOMAIN span : ClickedRow(size, open_page, row, span[n]) = i
        /\ \A k \in 0 .. Len(PageOrder) - 1 : \A span \in {DrawnPage(size, chosen_page, k)} :
              \A n \in DOMAIN span : ClickedPage(size, chosen_page, span[n]) = k
=============================================================================
