------------------------------- MODULE Editor -------------------------------
(***************************************************************************)
(* The text engine of Cliptick and Writer (kernel/src/editor.rs): buffer,  *)
(* cursor, file name, dirty flag, saving, opening and running.             *)
(*                                                                         *)
(* Texts are sequences over a letter and a newline.  A name is a sequence  *)
(* of letters whose last one stands for the extension: "p" Python, "c" a   *)
(* compiled language, "t" other text.  What a program prints, the theme    *)
(* and the line numbers are left out.  Other tools save and remove text    *)
(* Forms of the same CFC between events.                                   *)
(***************************************************************************)
EXTENDS Naturals, Sequences, FiniteSetsExt

CONSTANTS Ide,            \* TRUE for Cliptick, FALSE for Writer
          CAPACITY,       \* FORM_CONTENT_CAPACITY
          NAME_CAPACITY,
          Letters,        \* typed in a file name
          Nl,             \* the newline
          OtherTexts      \* what other tools save

VARIABLES ed,      \* the Editor
          saved,   \* texts in the CFC, by name
          base,    \* name and text last opened or saved, until they are changed
          user     \* authority of the desktop session

editorVars == <<ed, saved, base, user>>

DefaultName == IF Ide THEN <<"p">> ELSE <<"t">>
NoBase == [name |-> <<>>, text |-> <<>>]
Kept(e, b) == IF e.dirty THEN NoBase ELSE b
NoFiles == [n \in {} |-> <<>>]
is_text_name(name) == name # <<>> /\ name[Len(name)] \in {"p", "c", "t"}
Compiled(name) == name # <<>> /\ name[Len(name)] = "c"
Python(name) == name # <<>> /\ name[Len(name)] = "p"

\* Editor::reset
Reset(e) == [e EXCEPT !.code = <<>>, !.cursor = 0, !.name = DefaultName,
                      !.dirty = FALSE, !.naming = FALSE]
Listed(files) == {n \in DOMAIN files : is_text_name(n)}

-----------------------------------------------------------------------------
(* Text and cursor.                                                        *)

LineStart(code, cursor) == Max({0} \cup {n \in 1..cursor : code[n] = Nl})
LineEnd(code, from) ==
    Min({Len(code)} \cup {n - 1 : n \in {m \in from + 1..Len(code) : code[m] = Nl}})
Least(a, b) == IF a < b THEN a ELSE b

\* Editor::vertical
Up(code, cursor) ==
    LET start == LineStart(code, cursor)
    IN  IF start = 0 THEN cursor
        ELSE Least(LineStart(code, start - 1) + (cursor - start), start - 1)
Down(code, cursor) ==
    LET col == cursor - LineStart(code, cursor)
        next == LineEnd(code, cursor) + 1
    IN  IF next > Len(code) THEN cursor
        ELSE next + Least(col, LineEnd(code, next) - next)

Inserted(e, text) ==
    IF Len(e.code) + Len(text) > CAPACITY THEN e
    ELSE [e EXCEPT !.code = SubSeq(@, 1, e.cursor) \o text \o SubSeq(@, e.cursor + 1, Len(@)),
                   !.cursor = @ + Len(text), !.dirty = TRUE]
\* Mutant: erasing does not mark the text as changed.
MutantQuiet(e) ==
    IF e.cursor = 0 THEN e
    ELSE [e EXCEPT !.code = SubSeq(@, 1, e.cursor - 1) \o SubSeq(@, e.cursor + 1, Len(@)),
                   !.cursor = @ - 1]

EraseBack(e) ==
    IF e.cursor = 0 THEN e
    ELSE [e EXCEPT !.code = SubSeq(@, 1, e.cursor - 1) \o SubSeq(@, e.cursor + 1, Len(@)),
                   !.cursor = @ - 1, !.dirty = TRUE]

-----------------------------------------------------------------------------
(* Saving, opening, running.                                               *)

\* save: refused, failed in the store, or done.
MaySave == user # "Guest" /\ is_text_name(ed.name)
SavedText == [n \in DOMAIN saved \cup {ed.name} |-> IF n = ed.name THEN ed.code ELSE saved[n]]
Save(ok) ==
    IF MaySave /\ ok
    THEN /\ saved' = SavedText
         /\ ed' = [ed EXCEPT !.dirty = FALSE, !.files = Listed(SavedText)]
         /\ base' = [name |-> ed.name, text |-> ed.code]
    ELSE UNCHANGED <<ed, saved, base>>

Opened(e, name) ==
    IF e.dirty \/ name \notin DOMAIN saved THEN e
    ELSE [e EXCEPT !.code = saved[name], !.cursor = 0, !.name = name, !.naming = FALSE]
Open(e, name) ==
    /\ ed' = Opened(e, name)
    /\ base' = Kept(ed', [name |-> ed'.name, text |-> ed'.code])
    /\ UNCHANGED saved

\* run and run_compiled: a local run saves first; what runs is isolated.
\* Text::new(self.filename()).expect(...) refuses the empty name.
PanicsOnRun(e) == e.name = <<>>
MayRun(allowed) ==
    Ide /\ allowed /\ user # "Guest" /\ (ed.operator => user = "Operator")
RunCompiled(ok) ==
    IF PanicsOnRun(ed) THEN ed' = [ed EXCEPT !.panic = TRUE] /\ UNCHANGED <<saved, base>>
    ELSE IF Compiled(ed.name) /\ ed.local THEN Save(ok)
    ELSE UNCHANGED <<ed, saved, base>>
Run(allowed, ok) ==
    IF ~MayRun(allowed) THEN UNCHANGED <<ed, saved, base>>
    ELSE IF ~Python(ed.name) THEN RunCompiled(ok)
    ELSE IF ed.local THEN Save(ok)
    ELSE UNCHANGED <<ed, saved, base>>

-----------------------------------------------------------------------------
(* Events: Editor::key and Editor::click.                                  *)

Running == ~ed.panic
Edit(e) == ed' = e /\ base' = Kept(e, base) /\ UNCHANGED saved

NameKey(e, key) ==
    IF key = "back" THEN [e EXCEPT !.name = SubSeq(@, 1, Len(@) - 1), !.dirty = TRUE]
    ELSE [e EXCEPT !.name = Append(@, key), !.dirty = TRUE]

NamingKeys ==
    /\ ed.naming /\ ~ed.settings
    /\ \/ Edit([ed EXCEPT !.naming = FALSE])
       \/ Len(ed.name) > 0 /\ Edit(NameKey(ed, "back"))
       \/ \E letter \in Letters : Len(ed.name) < NAME_CAPACITY /\ Edit(NameKey(ed, letter))
TextKeys ==
    /\ ~ed.naming /\ ~ed.settings
    /\ \/ Edit([ed EXCEPT !.cursor = IF @ = 0 THEN 0 ELSE @ - 1])
       \/ Edit([ed EXCEPT !.cursor = Least(@ + 1, Len(ed.code))])
       \/ Edit([ed EXCEPT !.cursor = Up(ed.code, @)])
       \/ Edit([ed EXCEPT !.cursor = Down(ed.code, @)])
       \/ Edit(EraseBack(ed))
       \/ \E text \in {<<"a">>, <<Nl>>} : Edit(Inserted(ed, text))
Key ==
    /\ Running
    /\ \/ \E ok \in BOOLEAN : Save(ok) \/ \E allowed \in BOOLEAN : Run(allowed, ok)
       \/ NamingKeys \/ TextKeys
    /\ UNCHANGED user

\* The toolbar, the settings panel, the name field, the list of files, the text.
NewAllowed == ~ed.dirty
Toolbar ==
    \/ NewAllowed /\ ed' = Reset(ed) /\ UNCHANGED saved
       /\ base' = [name |-> DefaultName, text |-> <<>>]
    \/ Open([ed EXCEPT !.files = Listed(saved)], ed.name)
    \/ Edit([ed EXCEPT !.settings = ~@])
SettingsPanel ==
    /\ ed.settings /\ Ide
    /\ \/ (ed.operator \/ user = "Operator") /\ Edit([ed EXCEPT !.operator = ~@])
       \/ Edit([ed EXCEPT !.local = ~@])
TextClick ==
    \E line \in 1..Len(ed.code) + 1, col \in 0..CAPACITY :
       LET starts == {0} \cup {n \in 1..Len(ed.code) : ed.code[n] = Nl}
           start == Max({n \in starts : Cardinality({m \in starts : m < n}) < line})
       IN  Edit([ed EXCEPT !.naming = FALSE,
                           !.cursor = Least(start + col, LineEnd(ed.code, start))])
Click ==
    /\ Running
    /\ \/ Toolbar \/ SettingsPanel
       \/ ~ed.settings /\ \/ Edit([ed EXCEPT !.naming = TRUE])
                          \/ \E name \in ed.files : Open(ed, name)
                          \/ TextClick
    /\ UNCHANGED user

\* Another tool saves or removes a text; the desktop lists the files anew.
OtherTool ==
    /\ Running
    /\ \E name \in {DefaultName} :
         \/ \E text \in OtherTexts :
              saved' = [n \in DOMAIN saved \cup {name} |-> IF n = name THEN text ELSE saved[n]]
         \/ saved' = [n \in DOMAIN saved \ {name} |-> saved[n]]
    /\ UNCHANGED <<ed, base, user>>
refresh_editors == Running /\ Edit([ed EXCEPT !.files = Listed(saved)]) /\ UNCHANGED user

EditorInit ==
    /\ ed = [code |-> <<>>, cursor |-> 0, name |-> DefaultName, naming |-> FALSE,
             dirty |-> FALSE, files |-> {}, settings |-> FALSE, operator |-> FALSE,
             local |-> FALSE, panic |-> FALSE]
    /\ saved = NoFiles
    /\ base = [name |-> DefaultName, text |-> <<>>]
    /\ user \in {"Guest", "Operator"}

EditorNext == Key \/ Click \/ OtherTool \/ refresh_editors

EditorSpec == EditorInit /\ [][EditorNext]_editorVars

-----------------------------------------------------------------------------
(* Properties.                                                             *)

\* A buffer that is not marked as changed is what was last opened or saved,
\* so that New and Open never discard typed text (insert, key, open, save).
CleanIsKept == ~ed.dirty => base = [name |-> ed.name, text |-> ed.code]

\* Changes end only in the store: a changed text becomes unchanged by being
\* saved whole under its name (New, Open and save).
ChangesReachStore ==
    [][ed.dirty /\ ~ed'.dirty =>
         ed.name \in DOMAIN saved' /\ saved'[ed.name] = ed.code]_editorVars

Column(code, cursor) == cursor - LineStart(code, cursor)
Line(code, cursor) == Cardinality({n \in 1..cursor : code[n] = Nl})
LineLength(code, cursor) == LineEnd(code, cursor) - LineStart(code, cursor)

\* Up and Down move by exactly one line, to the same column or to the end of
\* a shorter line (vertical), and the cursor stays inside the text.
MovesOneLine ==
    LET code == ed.code
        Moves(to, lines) ==
          /\ Line(code, to) = lines
          /\ Column(code, to) = Least(Column(code, ed.cursor), LineLength(code, to))
        line == Line(code, ed.cursor)
    IN  /\ ed.cursor <= Len(code)
        /\ line > 0 => Moves(Up(code, ed.cursor), line - 1)
        /\ line < Line(code, Len(code)) => Moves(Down(code, ed.cursor), line + 1)

\* Text that is not marked as changed is in the store, changes are given up only
\* by writing them there, and the arrow keys move by one line.
EditorKeeps == [](CleanIsKept /\ MovesOneLine) /\ ChangesReachStore
=============================================================================
