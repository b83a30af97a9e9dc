----------------------------- MODULE MCDesktop -----------------------------
(***************************************************************************)
(* The graphical session, each module in a small instance of its own: the  *)
(* display server, the windows, the settings, the Browser and the games.   *)
(* They share no state here, so one run checks them side by side: `part`   *)
(* says which one a behaviour is about, and the others keep their initial  *)
(* state.  Some come with more than one focus, which leaves out steps that *)
(* the properties of another focus need.                                   *)
(***************************************************************************)
EXTENDS DisplayServer, DesktopShell, DesktopSettings, Browser, PageScript, Games

VARIABLE part

-----------------------------------------------------------------------------
(* Constants.                                                              *)

SmallRects == {[x |-> 0, w |-> 2], [x |-> 2, w |-> 1]}

SmallSteps == {-9, 2}
\* Every settings page on its own, with a profile to apply in between.
SmallVisits == {{c, "Profiles"} : c \in Categories}
\* The default window at 480p, 720p and 1080p, the tiles that hold the settings,
\* and the whole screen.
Sizes ==
    {[w |-> 624, h |-> 412], [w |-> 624, h |-> 396], [w |-> 1040, h |-> 684],
     [w |-> 1040, h |-> 608], [w |-> 1280, h |-> 800], [w |-> 960, h |-> 1052],
     [w |-> 640, h |-> 1052], [w |-> 640, h |-> 692], [w |-> 624, h |-> 436],
     [w |-> 1264, h |-> 676], [w |-> 1904, h |-> 1036]}

At(scheme, host) == [scheme |-> scheme, host |-> host]
SmallAddresses ==
    {At("expos", "about"), At("https", "site"), At("https", "wiki"), At("query", "q"),
     At("http", "video"), At("http", "site")}
SmallLinks ==
    {[kind |-> "absolute", url |-> At("http", "site")],
     [kind |-> "absolute", url |-> At("https", "site")],
     [kind |-> "scheme", url |-> At("https", "site")],
     [kind |-> "path", url |-> At("http", "site")],
     [kind |-> "none", url |-> At("http", "site")]}
SmallManifests == {<<2, 0>>}
SmallHits == <<{1, 2}>>

Step(op, id) == [op |-> op, id |-> id]
OnClick(id, body, replace) == [op |-> "click", id |-> id, body |-> body, replace |-> replace]
SetDisplay(id, v) == [op |-> "display", id |-> id, value |-> v]
SmallPrograms ==
    {<<Step("ask", "a"), Step("show", "a")>>,
     <<OnClick("a", <<Step("show", "this")>>, FALSE), OnClick("b", <<Step("ask", "a")>>, FALSE)>>,
     <<OnClick("a", <<OnClick("b", <<Step("hide", "a")>>, FALSE), Step("ask", "a")>>, TRUE)>>,
     <<SetDisplay("a", "inline"), Step("text", "b")>>,
     <<Step("hide", "this")>>,
     <<Step("hide", "a")>>}
Rule(id, v, s) == [id |-> id, value |-> v, specificity |-> s]
SmallSheets ==
    {<<>>, <<Rule("a", "none", 100)>>, <<Rule("a", "inline", 10), Rule("z", "none", 1)>>}

\* Clicks on each of the game buttons and cards, and beside them.
SmallPoints ==
    {<<91, 100>>, <<92, 100>>, <<150, 404>>, <<100, 403>>, <<203, 150>>, <<204, 150>>,
     <<330, 300>>, <<539, 175>>, <<100, 260>>}
GameParts == {"Snake", "Pong", "Breakout", "Memory"}

-----------------------------------------------------------------------------
(* The parts.                                                              *)

windowVars == <<desk, geometryVars, settingsVars, viewVars>>
webPageVars == <<browserVars, scriptVars>>
desktopVars == <<displayVars, windowVars, webPageVars, gameVars, part>>

\* Damage is looked at with one surface, input with few commits.
DisplayPart ==
    \/ part = "paint" /\ (Lifecycle \/ Paint) /\ DOMAIN surfaces' \subseteq {1}
    \/ part = "input" /\ (Lifecycle \/ Input) /\ server'.commit_sequence <= 1

\* A session ends with no menu open; the power menu opens between two drags, under
\* the first focus policy, and so does the launcher with a package or without the
\* applications of the system.  Where a taskbar that takes no room hides does not
\* matter to the windows; a flat titlebar is looked at above the taskbar.  Of two
\* changes of the settings, one at most is not saved: a save writes every preference,
\* so the last one of each place decides.
WindowParts ==
    \/ /\ part = "desktop" /\ DesktopNext
       /\ desk'.ended => desk'.choice = 0 /\ ~desk.launcher /\ ~desk.held
       /\ desk'.power => desk'.drag = NoSurface /\ desk'.policy = 0
       /\ desk'.policy # 0 => desk'.installed = 0 /\ desk'.builtins
       /\ UNCHANGED <<geometryVars, settingsVars, viewVars>>
    \/ /\ part = "geometry" /\ GeometryNext
       /\ pref'.hidden \/ pref'.title = 1 => pref'.placement = "Bottom"
       /\ UNCHANGED <<desk, settingsVars, viewVars>>
    \/ /\ part = "settings" /\ SettingsNext
       /\ changes' > changes => kept \/ kept'
       /\ UNCHANGED <<desk, geometryVars, viewVars>>
    \/ /\ part = "view" /\ ViewNext
       /\ UNCHANGED <<desk, geometryVars, settingsVars>>

\* Tabs are looked at with one address and no redirect, and opened next to one that
\* started at home, a page with nothing but home before it, the search within a page
\* without navigation.
BrowserPart ==
    \/ /\ part = "tabs" /\ (Visiting \/ Tabbing \/ Fetching)
       /\ pending' \in {NoUrl, At("https", "site")}
       /\ trip'.stage = "fetch" => trip'.hop = 0
       /\ Len(tabs') = 2 => tabs'[1].history[1] = HomeUrl
    \/ /\ part = "page" /\ (Visiting \/ Fetching \/ Hydrating)
       /\ Len(tabs'[1].history) = 1 \/ tabs'[1].history[1] = HomeUrl
    \/ part = "find" /\ (Visiting \/ Finding) /\ pending' = NoUrl

WebPageParts ==
    \/ BrowserPart /\ UNCHANGED scriptVars
    \/ part = "script" /\ PageNext /\ UNCHANGED browserVars

\* A game is looked at with the paddles moving only as the ball nears, the buttons
\* of the hub before anything has been hit, eaten or uncovered.
GamePart ==
    \/ /\ part \in GameParts /\ hub.mode = "Menu" /\ handle_click /\ hub'.mode = part
    \/ /\ part \in GameParts /\ hub.mode # "Menu" /\ ArrowKey
       /\ part = "Pong" => /\ board.Pong.x \in 46..63 /\ board.Pong.vx < 0
                         /\ board'.Pong.player >= 230
       /\ part = "Breakout" => board.Breakout.y >= 500 /\ board.Breakout.vy > 0
    \/ /\ part \in GameParts /\ hub.mode # "Menu" /\ ~board.Pong.halted
       /\ tick(interval.Snake)
       /\ Cardinality(board'.Breakout.gone) <= 2
    \/ part = "Memory" /\ hub.mode = part /\ handle_click
    \/ /\ part = "hub" /\ GamesNext
       /\ ArrowKey => hub.mode = "Snake"
       /\ board'.Pong.x > 470 /\ board'.Breakout.x < 520
       /\ board'.Memory.matched \cup {board'.Memory.first} \subseteq {255}
       /\ Len(board'.Snake.body) = 3 /\ board'.Snake.next[2] = 0

DesktopPartsInit ==
    /\ part \in {"paint", "input", "desktop", "geometry", "settings", "view",
                 "tabs", "page", "find", "script", "hub"} \cup GameParts
    /\ DisplayInit /\ DesktopInit
    /\ GeometryInit /\ (pref.hidden \/ pref.title = 1 => pref.placement = "Bottom")
    /\ part # "geometry" => pref = CHOOSE p \in AllPreferences : TRUE
    /\ SettingsInit /\ (part # "settings" => visit = {"System", "Profiles"})
    /\ ViewInit /\ (part # "view" => size.h = 396)
    /\ BrowserInit /\ PageInit /\ GamesInit

DesktopPartsNext ==
    \/ DisplayPart /\ UNCHANGED <<windowVars, webPageVars, gameVars, part>>
    \/ WindowParts /\ UNCHANGED <<displayVars, webPageVars, gameVars, part>>
    \/ WebPageParts /\ UNCHANGED <<displayVars, windowVars, gameVars, part>>
    \/ GamePart /\ UNCHANGED <<displayVars, windowVars, webPageVars, part>>

DesktopSpec == DesktopPartsInit /\ [][DesktopPartsNext]_desktopVars

-----------------------------------------------------------------------------
\* Settings are shown where they are clicked, changed where they are shown, and
\* return with the next session (save_preferences, draw_settings, settings_click).
SettingsHold ==
    /\ [](part = "settings" => SettingsReturn /\ ChoicesHaveLabels)
    /\ [](part = "view" => SelectionDrawn /\ ClickHitsDrawn)
    /\ ChangeIsShown
=============================================================================
