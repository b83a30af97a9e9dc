----------------------------- MODULE MCStorage -----------------------------
(***************************************************************************)
(* What the system keeps for its users, each module in a small instance of *)
(* its own: Handles, Forms, media, settings and accounts, editors, web     *)
(* storage and the native applications.  They share no state here, so one  *)
(* run checks them side by side: `part` says which one a behaviour is      *)
(* about, and the others keep their initial state.  Some come with more    *)
(* than one focus, which leaves out steps that the properties of another   *)
(* focus need.                                                             *)
(***************************************************************************)
EXTENDS Capability, ShellForms, SessionHandles, MediaStore, SystemState, Editor,
        WebStorage, AppHost

VARIABLE part

-----------------------------------------------------------------------------
(* Constants.                                                              *)

Record(id, parent, requester, operations, until, revoked) ==
    [id |-> id, parent_id |-> parent, cfc |-> "home", requester |-> requester,
     target |-> "app", dimension |-> "stable", operations |-> operations,
     valid_until_tick |-> until, revoked |-> revoked]

\* Stored Handles: a root with the last id, a child and a clone of it, a
\* revoked root and a Handle of another CFC.
SmallRecords ==
    {Record(4, 0, "app", {"READ", "CONFIGURE"}, 1, FALSE),
     Record(3, 4, "app", {"CONFIGURE"}, 1, FALSE),
     Record(2, 4, "app", {"READ", "CONFIGURE"}, 1, FALSE),
     Record(2, 0, "app", {"CONFIGURE"}, 1, TRUE),
     [Record(1, 0, "app", {"READ"}, 1, FALSE) EXCEPT !.cfc = "other"]}

SmallTexts == {<<"a">>, <<"b", "b">>}
SmallPatches == {<<"x">>}
SmallSettings == {[placement |-> 3, alignment |-> 2, focus |-> 1, weight |-> 9]}
SmallOther == {<<"n">>}

Origin(scheme) == [scheme |-> scheme, host |-> "site"]
SmallOrigins == {Origin("http"), Origin("https")}
Cookie(value, secure) == [kind |-> "cookie", name |-> "c", value |-> value, secure |-> secure]
SetItem(area, value) == [kind |-> "set", area |-> area, key |-> "k", value |-> value]
Fetch(scheme) == [kind |-> "fetch", to |-> Origin(scheme)]
SmallQueues ==
    {<<SetItem("local", 1), SetItem("session", 1)>>, <<SetItem("local", 2)>>,
     <<Cookie(2, FALSE), Fetch("https"), Fetch("http"), Fetch("http")>>}
SmallAnswers == {[kind |-> "fail"], Cookie(1, TRUE)}

\* The applications that a focus lets the user install.
Installable(focus) ==
    CASE focus = "tasks" -> {"Tasks", "Clock"}
      [] focus = "counter" -> {"Counter", "Dice"}
      [] focus = "weather" -> {"Weather"}
      [] focus = "timer" -> {"Timer"}
AppParts == {"tasks", "counter", "weather", "timer"}

-----------------------------------------------------------------------------
(* The loop of revoke.                                                     *)

\* One pass of the loop: R is the set of Handles already revoked.
Pass(b, id, R) ==
    R \cup {i \in DOMAIN b.handles :
              \/ b.handles[i].id = id
              \/ \E p \in R : /\ b.handles[i].parent_id # 0
                              /\ b.handles[p].id = b.handles[i].parent_id}
RevokeLoop(b, id) ==
    LET passes[n \in 0..MAX_HANDLES] ==
          IF n = 0 THEN {i \in DOMAIN b.handles : b.handles[i].revoked}
                   ELSE Pass(b, id, passes[n - 1])
    IN  passes[MAX_HANDLES]

\* The Handles that the loop of revoke marks, pass by pass over a copy of the
\* table, are those of Cascade, however the Handles of a full table descend from
\* each other and whichever are revoked already.
ASSUME LoopIsCascade ==
    \A parents \in [1..MAX_HANDLES -> 0..MAX_HANDLES], gone \in SUBSET (1..MAX_HANDLES) :
        LET b == [handles |-> [i \in 1..MAX_HANDLES |->
                                 Record(i, parents[i], "app", {}, 0, i \in gone)]]
        IN  \A id \in 1..MAX_HANDLES : RevokeLoop(b, id) = Cascade(b, id)

-----------------------------------------------------------------------------
(* The parts.                                                              *)

objectVars == <<broker, sessionVars, shellFormVars>>
recordVars == <<mediaVars, stateVars, loginVars>>
toolVars == <<editorVars, webVars, appVars>>
storageVars == <<objectVars, recordVars, toolVars, part>>

StorageInit ==
    /\ part \in {"capabilities", "session", "registry", "streams", "media", "state",
                 "login", "editor", "web"} \cup AppParts
    /\ Init /\ SessionInit /\ ShellFormsInit
    /\ MediaInit /\ StateInit /\ LoginInit
    /\ part # "state" => legacy.last = NoSlotData
    /\ EditorInit /\ WebInit /\ AppsInit
    /\ part # "editor" => user = "Guest"

\* The registry is looked at without streams, and streams under a registry
\* whose commands change no Form.  One name is a Data Form's, the other either's.
FormsPart ==
    /\ \/ part = "registry" /\ ShellFormsNext /\ streams' = EmptyTable
       \/ /\ part = "streams" /\ ShellFormsNext
          /\ registry'.stage = NoStage
          /\ registry'.forms = registry.forms \/ Reboot
    /\ \A f \in Range(snapshot'.forms) \cup Range(registry'.forms) :
          f.name = "note" => f.kind = "Data"

\* Relationships of one pair of Forms are enough for reclaim.
ObjectParts ==
    \/ part = "capabilities" /\ Next /\ UNCHANGED <<sessionVars, shellFormVars>>
    \/ /\ part = "session" /\ SessionNext
       /\ relations' \subseteq {<<"Root", "prog">>}
       /\ UNCHANGED <<broker, shellFormVars>>
    \/ FormsPart /\ UNCHANGED <<broker, sessionVars>>

\* The second track is downloaded while the first one is installed.
RecordParts ==
    \/ /\ part = "media" /\ MediaNext
       /\ installer'.track = "dash" => Current(cached).entries["imtq"] # NoSlot
       /\ UNCHANGED <<stateVars, loginVars>>
    \/ part = "state" /\ StateNext /\ UNCHANGED <<mediaVars, loginVars>>
    \/ part = "login" /\ LoginNext /\ UNCHANGED <<mediaVars, stateVars>>

AppPart ==
    /\ part \in AppParts
    /\ AppsNext
    /\ apps'.installed \subseteq Installable(part)
    /\ part \in {"tasks", "counter"} => clock' = clock
    /\ part # "weather" => apps'.weather = "empty"
    /\ part = "weather" => clock' <= 3 /\ ~asked'.unsaved /\ apps'.days # 1

\* An editor's settings are opened over an empty text, its name typed and its local
\* mode used with a short one.
ToolParts ==
    \/ /\ part = "editor" /\ EditorNext
       /\ ed'.operator \/ ed'.settings => ed'.code = <<>>
       /\ ed'.local \/ ed'.naming => Len(ed'.code) < CAPACITY
       /\ UNCHANGED <<webVars, appVars>>
    \/ part = "web" /\ WebNext /\ UNCHANGED <<editorVars, appVars>>
    \/ AppPart /\ UNCHANGED <<editorVars, webVars>>

StorageNext ==
    \/ ObjectParts /\ UNCHANGED <<recordVars, toolVars, part>>
    \/ RecordParts /\ UNCHANGED <<objectVars, toolVars, part>>
    \/ ToolParts /\ UNCHANGED <<objectVars, recordVars, part>>

StorageSpec == StorageInit /\ [][StorageNext]_storageVars
=============================================================================
