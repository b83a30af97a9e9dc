----------------------------- MODULE WebStorage -----------------------------
(* The Browser's origin state: local and session storage, cookies, and the   *)
(* Form local storage is kept in (crates/expos-core/src/browser.rs,          *)
(* BrowserWebState, and its users in kernel/src/desktop.rs).                 *)
EXTENDS Integers, Sequences

CONSTANTS
    Origins,               \* records [scheme, host]
    Queues,                \* the requests a page has queued, sequences
    Answers,               \* what a fetch brings: "fail", "plain" or a cookie
    EntrySize,             \* bytes an entry takes in the encoded Form
    HeaderSize,            \* bytes a cookie takes in the Cookie header
    MAX_STORAGE_ENTRIES, MAX_COOKIE_ENTRIES,
    WEB_STATE_CAPACITY, COOKIE_HEADER_CAPACITY

VARIABLES
    storage,   \* slots of [area, origin, key, value], or Empty
    cookies,   \* slots of [origin, name, value, secure], or Empty
    kept,      \* the entries of the saved Form, in order
    missed,    \* ghost: the last save failed
    sent       \* ghost: the cookies sent last, with the origin they went to

webVars == <<storage, cookies, kept, missed, sent>>

Empty == [origin |-> [scheme |-> "", host |-> ""]]
WebSlots(n) == [slot \in 1..n |-> Empty]
FirstOf(slots) == CHOOSE slot \in slots : \A other \in slots : slot <= other

WebInit ==
    /\ storage = WebSlots(MAX_STORAGE_ENTRIES)
    /\ cookies = WebSlots(MAX_COOKIE_ENTRIES)
    /\ kept = <<>>
    /\ missed = FALSE
    /\ sent = {}

----------------------------------------------------------------------------
(* BrowserWebState.                                                          *)
\* A slot of the same name takes the new entry, else the first empty slot;
\* with neither, the quota is exceeded and nothing changes.
Placed(table, same, entry) ==
    LET free == {slot \in DOMAIN table : table[slot] = Empty}
    IN  IF same # {} THEN [table EXCEPT ![FirstOf(same)] = entry]
        ELSE IF free # {} THEN [table EXCEPT ![FirstOf(free)] = entry]
        ELSE table

EntriesOf(table, area, origin, key) ==
    {slot \in DOMAIN table : table[slot] # Empty
        /\ table[slot].area = area /\ table[slot].origin = origin /\ table[slot].key = key}

set_storage(table, area, origin, key, value) ==
    Placed(table, EntriesOf(table, area, origin, key),
           [area |-> area, origin |-> origin, key |-> key, value |-> value])

\* A secure cookie is accepted from an https origin only.
set_cookie(table, origin, name, value, secure) ==
    IF secure /\ origin.scheme # "https" THEN table
    ELSE Placed(table,
             {slot \in DOMAIN table : table[slot] # Empty /\ table[slot].origin = origin
                 /\ table[slot].name = name},
             [origin |-> origin, name |-> name, value |-> value, secure |-> secure])

\* Mutant: the scheme is not part of an origin, and the header has no bound.
MutantAllCookies(table, origin) ==
    {table[slot] : slot \in {s \in DOMAIN table : table[s] # Empty /\ table[s].origin.host = origin.host}}

\* The cookies of the origin in slot order, up to the first that does not fit.
cookie_header(table, origin) ==
    {table[slot] : slot \in {s \in DOMAIN table :
        /\ table[s].origin = origin
        /\ HeaderSize * (1 + Len(SelectSeq([i \in 1..(s - 1) |-> table[i]],
                             LAMBDA c : c.origin = origin))) <= COOKIE_HEADER_CAPACITY}}

IsLocal(entry) == entry # Empty /\ entry.area = "local"

\* The local entries in slot order, up to the first that does not fit.
encode_local(table) ==
    LET local == SelectSeq(table, IsLocal)
    IN  SubSeq(local, 1, IF Len(local) * EntrySize <= WEB_STATE_CAPACITY THEN Len(local)
                         ELSE WEB_STATE_CAPACITY \div EntrySize)

RECURSIVE restore_local(_, _)
restore_local(table, entries) ==
    IF entries = <<>> THEN table
    ELSE restore_local(
        set_storage(table, "local", Head(entries).origin, Head(entries).key, Head(entries).value),
        Tail(entries))

----------------------------------------------------------------------------
(* The desktop.  A step of the page works on [storage, cookies, kept,        *)
(* missed, sent, fetches].                                                   *)
persist_browser_web_state(web, saves) ==
    IF saves THEN [web EXCEPT !.kept = encode_local(web.storage), !.missed = FALSE]
    ELSE [web EXCEPT !.missed = TRUE]

store_response_cookie(web, origin, header) ==
    [web EXCEPT !.cookies = set_cookie(@, origin, header.name, header.value, header.secure)]

\* The cookies of the address's own origin go out, its Set-Cookie comes back.
browser_fetch(web, origin, answer) ==
    LET asked == [web EXCEPT !.sent = {[to |-> origin, cookie |-> c] :
                                           c \in cookie_header(web.cookies, origin)}]
    IN  IF answer.kind = "cookie" THEN store_response_cookie(asked, origin, answer)
        ELSE asked

\* One queued request of a page of origin.  Only the first two fetches of a
\* page are made, and none from https to http.
Request(web, origin, request, answer, saves) ==
    CASE request.kind = "set" ->
           LET next == [web EXCEPT !.storage =
                   set_storage(@, request.area, origin, request.key, request.value)]
           IN  IF request.area = "local" /\ EntriesOf(next.storage, "local", origin, request.key) # {}
               THEN persist_browser_web_state(next, saves) ELSE next
      [] request.kind = "get" -> web
      [] request.kind = "cookie" -> store_response_cookie(web, origin, request)
      [] request.kind = "fetch" ->
           IF web.fetches >= 2 \/ (origin.scheme = "https" /\ request.to.scheme = "http")
           THEN web
           ELSE browser_fetch([web EXCEPT !.fetches = @ + 1], request.to, answer)

RECURSIVE Requests(_, _, _, _, _)
Requests(web, origin, queue, answer, saves) ==
    IF queue = <<>> THEN web
    ELSE Requests(Request(web, origin, Head(queue), answer, saves),
                  origin, Tail(queue), answer, saves)

NowWeb == [storage |-> storage, cookies |-> cookies, kept |-> kept,
           missed |-> missed, sent |-> {}, fetches |-> 0]
Become(web) ==
    /\ storage' = web.storage /\ cookies' = web.cookies
    /\ kept' = web.kept /\ missed' = web.missed /\ sent' = web.sent

process_document_web_apis(origin, queue, answer, saves) ==
    \E web \in {Requests(NowWeb, origin, queue, answer, saves)} : Become(web)

\* A navigation or one of its resources.
Load(origin, answer) ==
    \E web \in {browser_fetch(NowWeb, origin, answer)} : Become(web)

ClearWebState(saves) ==
    \E web \in {persist_browser_web_state(
                    [NowWeb EXCEPT !.storage = WebSlots(MAX_STORAGE_ENTRIES),
                                   !.cookies = WebSlots(MAX_COOKIE_ENTRIES)], saves)} : Become(web)

\* A new desktop session: only the saved Form is left.
NewSession ==
    /\ storage' = restore_local(WebSlots(MAX_STORAGE_ENTRIES), kept)
    /\ cookies' = WebSlots(MAX_COOKIE_ENTRIES)
    /\ sent' = {}
    /\ UNCHANGED <<kept, missed>>

WebNext ==
    \/ \E origin \in Origins, queue \in Queues, answer \in Answers, saves \in BOOLEAN :
           process_document_web_apis(origin, queue, answer, saves)
    \/ \E origin \in Origins, answer \in Answers : Load(origin, answer)
    \/ \E saves \in BOOLEAN : ClearWebState(saves)
    \/ NewSession

----------------------------------------------------------------------------
LocalEntries(table) == {table[slot] : slot \in {s \in DOMAIN table : IsLocal(table[s])}}

(* Unless a save failed or the entries outgrow the Form, a new session finds *)
(* the local storage the pages left, nothing of session storage, and nothing *)
(* that "Clear browser data" removed.                                        *)
LocalReturns ==
    \/ missed
    \/ Len(SelectSeq(storage, IsLocal)) * EntrySize > WEB_STATE_CAPACITY
    \/ LET next == restore_local(WebSlots(MAX_STORAGE_ENTRIES), kept)
       IN  /\ LocalEntries(next) = LocalEntries(storage)
           /\ \A slot \in DOMAIN next : next[slot] # Empty => IsLocal(next[slot])

(* A cookie goes back to the origin that set it and to no other, and one     *)
(* marked secure only over https.                                            *)
CookiesStayHome ==
    \A message \in sent :
        /\ message.cookie.origin = message.to
        /\ message.cookie.secure => message.to.scheme = "https"

\* Local storage returns with the next session and cookies go back to the origin
\* that set them.
WebStateHolds == LocalReturns /\ CookiesStayHome
=============================================================================
