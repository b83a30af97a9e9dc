------------------------------ MODULE AppHost ------------------------------
(***************************************************************************)
(* The native-app host of the Ayo desktop (kernel/src/apps.rs) and the     *)
(* code of desktop.rs that drives it: installing and opening packages, the *)
(* tools that keep state (Tasks, Counter, Dice, Clock, Timer, Weather),    *)
(* the durable `AyoApps.state` Form and the weather requests.              *)
(*                                                                         *)
(* A package is its name; the order of the catalog is that of Catalog.     *)
(* Text is a model value, a place is the name of its city, and a forecast  *)
(* is the place it was fetched for together with its days.                 *)
(***************************************************************************)
EXTENDS Integers, Sequences, TLC

CONSTANTS
    Cities,             \* valid city names a user types
    TASK_CAPACITY,
    DAYS,               \* WEATHER_FORECAST_DAYS
    COOLDOWN,           \* ticks between two weather requests
    TSC_HZ,             \* ticks of a second
    TIMER,              \* seconds of the countdown
    MaxClock            \* bound: the clock

VARIABLES
    apps,     \* NativeApps
    stored,   \* the content of AyoApps.state, <<>> when there is none
    clock,    \* the timestamp counter
    asked     \* last_weather_request_ticks and whether the store failed

appVars == <<apps, stored, clock, asked>>

Catalog == <<"Tasks", "Clock", "Counter", "Weather", "Timer", "Dice">>
Packages == {Catalog[i] : i \in DOMAIN Catalog}
NoCity == "none"

LowerOf2(a, b) == IF a < b THEN a ELSE b
Less1(n) == IF n = 0 THEN 0 ELSE n - 1

-----------------------------------------------------------------------------
(* The durable part of the state. *)

new ==
    [installed |-> {}, active |-> "Tasks", typed |-> NoCity,
     counter |-> 0, clock_24h |-> TRUE,
     tasks |-> <<>>, task |-> 0,
     seconds |-> TIMER, remaining |-> TIMER, started |-> 0, running |-> FALSE, ran |-> 0,
     weather |-> "empty", city |-> NoCity, place |-> NoCity, resolve |-> TRUE,
     forecast |-> NoCity, days |-> 0, day |-> 0, unit |-> "C"]

Durable == {"installed", "active", "counter", "clock_24h", "tasks", "task", "seconds",
            "city", "place", "forecast", "days", "day", "unit"}

encode_state(a) == [f \in Durable |-> a[f]] @@ [ready |-> a.weather = "ready"]

FirstInstalled(installed) ==
    LET found == {i \in DOMAIN Catalog : Catalog[i] \in installed}
    IN IF found = {} THEN Catalog[1] ELSE Catalog[CHOOSE i \in found : \A j \in found : i <= j]

restore_state(s) ==
    [new EXCEPT !.installed = s.installed,
                !.active = IF s.active \in s.installed THEN s.active
                           ELSE FirstInstalled(s.installed),
                !.counter = s.counter, !.clock_24h = s.clock_24h,
                !.tasks = s.tasks, !.task = LowerOf2(s.task, Less1(Len(s.tasks))),
                !.seconds = s.seconds, !.remaining = s.seconds,
                !.city = s.city, !.place = s.place, !.resolve = s.place = NoCity,
                !.forecast = s.forecast, !.days = s.days, !.unit = s.unit,
                !.day = LowerOf2(s.day, Less1(s.days)),
                !.weather = IF s.ready THEN "ready" ELSE "empty"]

(* persist_native_apps: a store that refuses is only logged. *)
persist_native_apps(a) ==
    \/ stored' = encode_state(a) /\ asked' = [asked EXCEPT !.unsaved = FALSE]
    \/ UNCHANGED stored /\ asked' = [asked EXCEPT !.unsaved = TRUE]

(* A key or click that marks a persistent change is followed by a save. *)
Marked(a) == apps' = a /\ persist_native_apps(a) /\ UNCHANGED clock
Transient(a) == apps' = a /\ UNCHANGED <<stored, clock, asked>>

-----------------------------------------------------------------------------
(* The package manager. *)

prepare_active_input(a) == [a EXCEPT !.typed = IF a.active = "Weather" THEN a.city ELSE NoCity]

install(package) ==
    Marked([apps EXCEPT !.installed = @ \cup {package}, !.active = package])

uninstall(package) ==
    /\ package \in apps.installed
    /\ LET left == apps.installed \ {package}
       IN Marked([apps EXCEPT !.installed = left,
                              !.active = IF @ = package THEN FirstInstalled(left) ELSE @])

handle_manager_key(package) ==
    /\ package \in apps.installed
    /\ Marked(prepare_active_input([apps EXCEPT !.active = package]))

(* Opening with the mouse clears the input. *)
handle_manager_click(package) ==
    /\ package \in apps.installed
    /\ Marked([apps EXCEPT !.active = package, !.typed = NoCity])

activate_installed(package) ==
    /\ package \in apps.installed
    /\ Transient(prepare_active_input([apps EXCEPT !.active = package]))

Manager ==
    \E package \in Packages :
        \/ install(package) \/ uninstall(package)
        \/ handle_manager_key(package) \/ handle_manager_click(package)
        \/ activate_installed(package)

-----------------------------------------------------------------------------
(* The tools. *)

Using(package) == apps.active = package /\ apps.installed # {}

Without(s, i) == SubSeq(s, 1, i - 1) \o SubSeq(s, i + 1, Len(s))

\* Mutant: the selection stays when the last task goes.
MutantDelete(a) == [a EXCEPT !.tasks = Without(@, a.task + 1)]

(* Deleting the selected task keeps the selection within the list. *)
DeleteTask(a) ==
    [a EXCEPT !.tasks = Without(@, a.task + 1),
              !.task = LowerOf2(@, Less1(Len(a.tasks) - 1))]

AddsTask(a) == Marked([a EXCEPT !.tasks = Append(@, FALSE), !.task = Len(a.tasks)])

(* A task is whether it is done. *)
handle_tasks_key ==
    /\ Using("Tasks")
    /\ \/ apps.tasks # <<>> /\ Transient([apps EXCEPT !.task = Less1(@)])
       \/ /\ apps.tasks # <<>>
          /\ Transient([apps EXCEPT !.task = LowerOf2(@ + 1, Len(apps.tasks) - 1)])
       \/ Len(apps.tasks) < TASK_CAPACITY /\ AddsTask(apps)
       \/ apps.tasks # <<>> /\ Marked([apps EXCEPT !.tasks[apps.task + 1] = ~@])
       \/ apps.tasks # <<>> /\ Marked(DeleteTask(apps))

(* Counter, Dice and Clock; the counter and the dice share one field. *)
handle_app_key ==
    \/ Using("Counter") /\ apps.counter < 2 /\ Marked([apps EXCEPT !.counter = @ + 1])
    \/ Using("Dice") /\ \E roll \in {1, 2} : Transient([apps EXCEPT !.counter = roll])
    \/ Using("Clock") /\ Marked([apps EXCEPT !.clock_24h = ~@])
    \/ Using("Weather") /\ Marked([apps EXCEPT !.unit = IF @ = "C" THEN "F" ELSE "C"])
    \/ Using("Weather") /\ apps.days # 0 /\ Transient([apps EXCEPT !.day = Less1(@)])
    \/ /\ Using("Weather") /\ apps.days # 0
       /\ Transient([apps EXCEPT !.day = LowerOf2(@ + 1, apps.days - 1)])

elapsed_seconds(since) == (clock - since) \div TSC_HZ

current_countdown_seconds(a) ==
    IF ~a.running THEN a.remaining
    ELSE IF a.remaining < elapsed_seconds(a.started) THEN 0
    ELSE a.remaining - elapsed_seconds(a.started)

(* Pausing keeps the seconds left; starting at zero begins again. *)
toggle_countdown ==
    /\ Using("Timer")
    /\ Transient(IF apps.running
                 THEN [apps EXCEPT !.remaining = current_countdown_seconds(apps),
                                   !.ran = @ + clock - apps.started, !.running = FALSE]
                 ELSE [apps EXCEPT !.remaining = IF @ = 0 THEN apps.seconds ELSE @,
                                   !.ran = IF apps.remaining = 0 THEN 0 ELSE @,
                                   !.started = clock, !.running = TRUE])

SetsCountdown ==
    /\ Using("Timer")
    /\ Marked([apps EXCEPT !.remaining = apps.seconds, !.started = clock, !.running = TRUE,
                           !.ran = 0])

ResetsCountdown ==
    /\ Using("Timer")
    /\ Transient([apps EXCEPT !.running = FALSE, !.remaining = apps.seconds, !.ran = 0])

-----------------------------------------------------------------------------
(* Weather. *)

weather_failed(a) == [a EXCEPT !.weather = "error"]

apply_weather_location(a) == [a EXCEPT !.place = a.city, !.resolve = FALSE]

apply_weather_forecast(a, days) ==
    [a EXCEPT !.forecast = a.place, !.days = days, !.day = LowerOf2(@, Less1(days)),
              !.weather = "ready"]

weather_needs_location(a) == a.resolve \/ a.place = NoCity

(* The two requests, each of which may fail; only a forecast is saved. *)
refresh_weather(a) ==
    \/ apps' = weather_failed(a) /\ UNCHANGED <<stored, asked>>
    \/ /\ asked.at = 0 \/ clock - asked.at >= COOLDOWN
       /\ \E located \in (IF weather_needs_location(a) THEN {weather_failed(a), apply_weather_location(a)}
                          ELSE {a}) :
            \/ /\ apps' = weather_failed(located)
               /\ asked' = [asked EXCEPT !.at = clock] /\ UNCHANGED stored
            \/ /\ located.weather # "error"
               /\ \E days \in 0 .. DAYS : apps' = apply_weather_forecast(located, days)
               /\ \/ /\ stored' = encode_state(apps')
                     /\ asked' = [at |-> clock, unsaved |-> FALSE]
                  \/ UNCHANGED stored /\ asked' = [at |-> clock, unsaved |-> TRUE]

(* Enter in the Weather app: the city typed becomes the city asked for, its *)
(* change is saved, and a refresh begins.                                   *)
EnterCity(a) ==
    [a EXCEPT !.resolve = a.typed # a.city \/ a.place = NoCity,
              !.city = a.typed, !.weather = "loading"]

(* The city is saved before the refresh runs. *)
SearchWeather ==
    /\ Using("Weather") /\ apps.weather # "loading"
    /\ IF apps.typed = NoCity THEN Transient(weather_failed(apps))
       ELSE Marked(EnterCity(apps))

RefreshWeather ==
    /\ apps.weather = "loading" /\ refresh_weather(apps) /\ UNCHANGED clock

TypeCity ==
    /\ Using("Weather")
    /\ \E city \in Cities : city # apps.typed /\ Transient([apps EXCEPT !.typed = city])

clear_weather_data ==
    Marked([apps EXCEPT !.weather = "empty", !.city = NoCity, !.place = NoCity,
                        !.days = 0, !.day = 0, !.resolve = TRUE, !.typed = NoCity])

-----------------------------------------------------------------------------
Tick == clock < MaxClock /\ clock' = clock + 1 /\ UNCHANGED <<apps, stored, asked>>

(* The next session starts from the stored Form, if there is one. *)
RestartApps ==
    /\ apps' = IF stored = <<>> THEN new ELSE restore_state(stored)
    /\ asked' = [at |-> 0, unsaved |-> FALSE]
    /\ UNCHANGED <<stored, clock>>

AppsInit ==
    /\ apps = new /\ stored = <<>> /\ clock = 1
    /\ asked = [at |-> 0, unsaved |-> FALSE]

(* While a refresh runs the desktop handles nothing else. *)
AppsNext ==
    \/ /\ apps.weather # "loading"
       /\ \/ Manager \/ handle_tasks_key \/ handle_app_key
          \/ toggle_countdown \/ SetsCountdown \/ ResetsCountdown
          \/ SearchWeather \/ TypeCity \/ clear_weather_data
    \/ RefreshWeather \/ Tick \/ RestartApps

-----------------------------------------------------------------------------
(* "installed packages and tool results survive": unless the store refused  *)
(* the last save, the packages, tasks, clock format, city and unit a        *)
(* restart brings back are the ones the user left.                          *)
ToolStateSurvives ==
    stored # <<>> /\ ~asked.unsaved =>
        LET back == restore_state(stored)
        IN \A f \in {"installed", "tasks", "clock_24h", "seconds", "city", "unit"} :
               back[f] = apps[f]

(* The app the host draws and sends keys to is an installed one, whatever   *)
(* was installed, removed, opened or restored before.                       *)
ActiveIsInstalled == apps.installed # {} => apps.active \in apps.installed

(* The selected task and the selected day exist: the tools index their      *)
(* arrays with them.                                                        *)
SelectionsExist ==
    /\ apps.tasks # <<>> => apps.task < Len(apps.tasks)
    /\ apps.days # 0 => apps.day < apps.days

(* A countdown paused and resumed never ends before it ran its seconds.     *)
CountdownNotEarly ==
    current_countdown_seconds(apps) * TSC_HZ >=
        apps.seconds * TSC_HZ - (apps.ran + IF apps.running THEN clock - apps.started ELSE 0)

(* Conditions are shown as current only for the place they were fetched     *)
(* for: a failed search or forecast never leaves the old ones on display.   *)
ShownForPlace == apps.weather = "ready" => apps.forecast = apps.place

\* The native applications keep their state and show what belongs together.
ToolsHold ==
    /\ ToolStateSurvives /\ ActiveIsInstalled /\ SelectionsExist
    /\ CountdownNotEarly /\ ShownForPlace
=============================================================================
