----------------------------- MODULE PageScript -----------------------------
(* A page of the Browser: the style cascade, the script subset and the click *)
(* handlers (crates/expos-core/src/browser.rs, Document).  A program is the  *)
(* sequence of the commands its statements parse to; of the style properties *)
(* only display is kept, and the five kinds of Web request are one, "ask".   *)
EXTENDS Integers, Sequences, FiniteSets

CONSTANTS Ids,              \* the element ids of the page
          Programs,         \* scripts and onclick texts
          Sheets,           \* style sheets, each a sequence of rules
          MAX_SCRIPT_STATEMENTS, MAX_BROWSER_SCRIPTS, MAX_CLICK_HANDLERS,
          MAX_WEB_API_REQUESTS, MAX_STYLE_RULES,
          MaxClicks, MaxOrder

VARIABLES
    page,    \* the Document
    phase,   \* "parse" and "hydrate" build it, then it is "live"
    halted,  \* ghost: execute_script stopped although validation had passed
    clicks   \* ghost, bounded by MaxClicks

scriptVars == <<page, phase, halted, clicks>>

NotHidden == "unset"
NoNode == "nobody"
Block == "block"        \* default_display of the elements' tag
Hidden == "none"
INLINE_SPECIFICITY == 1000
SCRIPT_SPECIFICITY == 2000

PageInit ==
    /\ page = [display |-> [n \in Ids |-> Block],
               priority |-> [n \in Ids |-> <<0, 0>>],
               hidden |-> [n \in Ids |-> NotHidden],
               last |-> [n \in Ids |-> "css"],
               declared |-> {},
               handlers |-> [slot \in 1..MAX_CLICK_HANDLERS |-> <<>>],
               requests |-> 0, order |-> 0, rules |-> 0, seen |-> 0]
    /\ phase = "parse"
    /\ halted = FALSE
    /\ clicks = 0

----------------------------------------------------------------------------
(* The cascade.                                                              *)
Below(p, q) == p[1] < q[1] \/ (p[1] = q[1] /\ p[2] < q[2])

\* Mutant: the later declaration wins, whatever its specificity.
MutantLaterWins(doc, n, value, specificity) ==
    [doc EXCEPT !.declared = @ \cup {<<n, <<specificity, doc.order>>, value>>},
                !.priority[n] = <<specificity, doc.order>>,
                !.display[n] = value]

\* A declaration of lower priority than the one in force changes nothing.
\* declared is a ghost: every declaration the page has met.
apply_style_value(doc, n, value, specificity) ==
    LET met == [doc EXCEPT !.declared = @ \cup {<<n, <<specificity, doc.order>>, value>>}]
    IN  IF Below(<<specificity, doc.order>>, doc.priority[n]) THEN met
        ELSE [met EXCEPT !.priority[n] = <<specificity, doc.order>>,
                         !.display[n] = value]

Ordered(doc) == [doc EXCEPT !.order = @ + 1]

apply_script_style(doc, n, value, by) ==
    [apply_style_value(Ordered(doc), n, value, SCRIPT_SPECIFICITY)
        EXCEPT !.last[n] = by]

\* Every selector counts as a rule; the first one over the limit ends the
\* sheet, and the rules before it stay applied.
RECURSIVE apply_stylesheet(_, _)
apply_stylesheet(doc, sheet) ==
    IF sheet = <<>> \/ doc.rules >= MAX_STYLE_RULES THEN doc
    ELSE LET next == Ordered([doc EXCEPT !.rules = @ + 1])
             rule == Head(sheet)
         IN  apply_stylesheet(
                 IF rule.id \in Ids
                 THEN apply_style_value(next, rule.id, rule.value, rule.specificity)
                 ELSE next,
                 Tail(sheet))

TooManyRules(doc, sheet) == doc.rules + Len(sheet) > MAX_STYLE_RULES

----------------------------------------------------------------------------
(* Handlers and requests.                                                    *)
HandlerSlots(doc, n) ==
    {slot \in DOMAIN doc.handlers :
        doc.handlers[slot] # <<>> /\ doc.handlers[slot].id = n}
handler_count(doc) ==
    Cardinality({slot \in DOMAIN doc.handlers : doc.handlers[slot] # <<>>})
LeastSlot(slots) == CHOOSE slot \in slots : \A other \in slots : slot <= other

Done(doc) == [doc |-> doc, ok |-> TRUE]
Stopped(doc) == [doc |-> doc, ok |-> FALSE]

\* A replacing handler takes the first slot of its node and frees the others.
install_handler(doc, n, body, replace) ==
    LET own  == HandlerSlots(doc, n)
        free == {slot \in DOMAIN doc.handlers : doc.handlers[slot] = <<>>}
        new  == [id |-> n, body |-> body]
    IN  IF replace /\ own # {}
        THEN Done([doc EXCEPT !.handlers = [slot \in DOMAIN @ |->
                       IF slot = LeastSlot(own) THEN new
                       ELSE IF slot \in own THEN <<>> ELSE @[slot]]])
        ELSE IF free = {} THEN Stopped(doc)
        ELSE Done([doc EXCEPT !.handlers[LeastSlot(free)] = new])

push_web_request(doc) ==
    IF doc.requests = MAX_WEB_API_REQUESTS THEN Stopped(doc)
    ELSE Done([doc EXCEPT !.requests = @ + 1])

----------------------------------------------------------------------------
(* Programs.                                                                 *)
\* NoNode for an id the page does not have, and for this in a script.
parse_element_expression(id, implicit) ==
    IF id = "this" THEN implicit ELSE IF id \in Ids THEN id ELSE NoNode

\* The element a statement is about, NoNode when the statement is refused.
parse_command(command, implicit) ==
    IF command.op = "unsupported" THEN NoNode
    ELSE parse_element_expression(command.id, implicit)

Hide(doc, n) ==
    apply_script_style(
        IF doc.display[n] = Hidden THEN doc
        ELSE [doc EXCEPT !.hidden[n] = doc.display[n]], n, Hidden, "hide")

Show(doc, n) ==
    apply_script_style([doc EXCEPT !.hidden[n] = NotHidden], n,
        IF doc.hidden[n] = NotHidden THEN Block ELSE doc.hidden[n], "show")

run_command(doc, command, n) ==
    CASE command.op = "text"    -> Done(doc)
      [] command.op = "display" -> Done(apply_script_style(doc, n, command.value, "style"))
      [] command.op = "hide"    -> Done(Hide(doc, n))
      [] command.op = "show"    -> Done(Show(doc, n))
      [] command.op = "click"   -> install_handler(doc, n, command.body, command.replace)
      [] command.op = "ask"     -> push_web_request(doc)

\* The first statement that fails ends the program; what ran before it stays.
RECURSIVE run_program(_, _, _)
run_program(doc, program, implicit) ==
    IF program = <<>> THEN Done(doc)
    ELSE LET n == parse_command(Head(program), implicit)
         IN  IF n = NoNode THEN Stopped(doc)
             ELSE LET after == run_command(doc, Head(program), n)
                  IN  IF after.ok THEN run_program(after.doc, Tail(program), implicit)
                      ELSE after

Refused == [statements |-> -1, handlers |-> -1, requests |-> -1]
NoBudget == [statements |-> 0, handlers |-> 0, requests |-> 0]

\* A statement's charge, before the body of a handler is validated.
Charged(doc, budget, command) ==
    LET next == [budget EXCEPT
            !.statements = @ + 1,
            !.handlers = @ + IF command.op = "click" THEN 1 ELSE 0,
            !.requests = @ + IF command.op = "ask" THEN 1 ELSE 0]
    IN  IF \/ next.statements > MAX_SCRIPT_STATEMENTS
           \/ command.op = "click" /\ handler_count(doc) + next.handlers > MAX_CLICK_HANDLERS
           \/ command.op = "ask" /\ doc.requests + next.requests > MAX_WEB_API_REQUESTS
        THEN Refused ELSE next

\* What is left of the program after one statement is validated with what the
\* statement, and the body of a handler it registers, have used.
RECURSIVE Validated(_, _, _, _, _)
Validated(doc, program, implicit, depth, budget) ==
    IF program = <<>> \/ budget = Refused THEN budget
    ELSE LET command == Head(program)
             n == parse_command(command, implicit)
             charged == Charged(doc, budget, command)
             inner == IF command.op # "click" \/ charged = Refused THEN charged
                      ELSE IF depth = 2 \/ command.body = <<>> THEN Refused
                      ELSE Validated(doc, command.body, n, depth + 1, charged)
         IN  IF n = NoNode THEN Refused
             ELSE Validated(doc, Tail(program), implicit, depth, inner)

validate_program(doc, program, implicit, depth) ==
    program # <<>> /\ Validated(doc, program, implicit, depth, NoBudget) # Refused

----------------------------------------------------------------------------
(* Building the page: inline handlers, scripts, external sheets.             *)
note_script_seen(doc) == [doc EXCEPT !.seen = @ + 1]

submit_inline_handler(n, program) ==
    /\ phase = "parse"
    /\ page.seen < MAX_BROWSER_SCRIPTS
    /\ LET seen == note_script_seen(page)
       IN  page' = IF /\ validate_program(page, program, n, 1)
                      /\ handler_count(page) < MAX_CLICK_HANDLERS
                   THEN install_handler(seen, n, program, TRUE).doc
                   ELSE seen
    /\ UNCHANGED <<phase, halted, clicks>>

\* The embedded scripts come first, then the external ones between the sheets.
\* Scripts over MAX_BROWSER_SCRIPTS are refused without being looked at, and
\* a refused script changes only the report.
execute_script(program) ==
    /\ phase = "hydrate"
    /\ page.seen < MAX_BROWSER_SCRIPTS
    /\ IF validate_program(page, program, NoNode, 0)
       THEN \E ran \in {run_program(note_script_seen(page), program, NoNode)} :
              page' = ran.doc /\ halted' = (halted \/ ~ran.ok)
       ELSE page' = note_script_seen(page) /\ UNCHANGED halted
    /\ UNCHANGED <<phase, clicks>>

\* A sheet over the limit is reported as failed, its first rules applied and
\* not counted.
apply_external_stylesheet(sheet) ==
    /\ phase = "hydrate"
    /\ page.order < MaxOrder
    /\ page' = [apply_stylesheet(page, sheet) EXCEPT
                   !.rules = IF TooManyRules(page, sheet) THEN page.rules ELSE @]
    /\ UNCHANGED <<phase, halted, clicks>>

apply_inline_styles(doc, n, value) ==
    apply_style_value(Ordered(doc), n, value, INLINE_SPECIFICITY)

\* parse_mode: the page's own sheet, over the limit no page at all, and the
\* style attributes come before handlers and scripts.
ParseStyles(sheet, n, value) ==
    /\ phase = "parse" /\ page.order = 0 /\ page.seen = 0
    /\ ~TooManyRules(page, sheet)
    /\ page' = apply_inline_styles(apply_stylesheet(page, sheet), n, value)
    /\ UNCHANGED <<phase, halted, clicks>>

Parsed ==
    /\ phase = "parse"
    /\ phase' = "hydrate"
    /\ UNCHANGED <<page, halted, clicks>>

\* hydrate_document ends by taking the queued requests, which only an active
\* page has carried out.
Hydrated(active_content) ==
    /\ phase = "hydrate"
    /\ phase' = "live"
    /\ page' = [page EXCEPT !.requests = IF active_content THEN 0 ELSE @]
    /\ UNCHANGED <<halted, clicks>>

----------------------------------------------------------------------------
(* Clicks.                                                                   *)
\* The slots are visited in order and read when their turn comes: a handler
\* may have replaced a later one.  A handler that fails is not reported.
RECURSIVE Dispatched(_, _, _)
Dispatched(doc, n, slot) ==
    IF slot > MAX_CLICK_HANDLERS THEN doc
    ELSE Dispatched(
             IF slot \in HandlerSlots(doc, n)
             THEN run_program(doc, doc.handlers[slot].body, n).doc ELSE doc,
             n, slot + 1)

\* The click and the requests it queued, which the desktop takes at once.
dispatch_event_at_node(n) ==
    /\ phase = "live"
    /\ clicks < MaxClicks
    /\ HandlerSlots(page, n) # {}
    /\ page' = [Dispatched(page, n, 1) EXCEPT !.requests = 0]
    /\ clicks' = clicks + 1
    /\ UNCHANGED <<phase, halted>>

PageNext ==
    \/ \E n \in Ids, program \in Programs : submit_inline_handler(n, program)
    \/ \E program \in Programs : execute_script(program)
    \/ \E sheet \in Sheets : apply_external_stylesheet(sheet)
    \/ \E sheet \in Sheets, n \in Ids, value \in {Block, Hidden} : ParseStyles(sheet, n, value)
    \/ Parsed
    \/ \E active_content \in BOOLEAN : Hydrated(active_content)
    \/ \E n \in Ids : dispatch_event_at_node(n)

----------------------------------------------------------------------------
(* "Validation guarantees execution cannot fail or partially reject"         *)
(* (browser.rs:1337): the budget validate_program keeps, handlers of         *)
(* handlers included, is never smaller than what running the script takes.   *)
ValidatedRuns == ~halted

(* An element that a script shows is rendered: what hide() remembers is      *)
(* never the hidden state, whatever sheets, handlers and hides came before.  *)
ShowRenders == \A n \in Ids : page.last[n] = "show" => page.display[n] # Hidden

(* The display in force is that of the most specific declaration met, and    *)
(* among those of the latest, whichever order sheets and scripts arrived in. *)
CascadeWins ==
    \A n \in Ids :
        LET own == {d \in page.declared : d[1] = n}
        IN  \A d \in own :
                (\A other \in own : ~Below(d[2], other[2])) => page.display[n] = d[3]

\* A page's scripts run as validated, and the strongest declaration is rendered.
PageHolds == ValidatedRuns /\ ShowRenders /\ CascadeWins
=============================================================================
