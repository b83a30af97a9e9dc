------------------------------ MODULE Browser ------------------------------
(* The Browser's tabs, histories and navigation (kernel/src/desktop.rs).     *)
(* A key or click handler shows an expos:// page at once, but only queues an *)
(* http(s) address; the desktop loop takes the queued address before it      *)
(* polls the next event, follows the redirects and hydrates the page.  An    *)
(* address keeps its scheme and its host; paths, page text and the network   *)
(* are data: what a host answers is a nondeterministic choice.               *)
EXTENDS Integers, Sequences, FiniteSets

CONSTANTS Addresses, VIDEO_HOST, WIKI_HOST, Links, NoUrl,
          BROWSER_TAB_CAPACITY, BROWSER_HISTORY_CAPACITY,
          BROWSER_BOOKMARK_CAPACITY, MAX_BROWSER_REDIRECTS,
          MAX_BROWSER_AUTO_RESOURCES, Manifests, FindHits

VARIABLES
    tabs,       \* browser_tabs[..browser_tab_count]: history, cursor, scroll
    active,     \* browser_active_tab
    scroll,     \* browser_scroll
    locked,     \* browser_history_locked
    pending,    \* browser_pending_address, NoUrl when its length is 0
    loading,    \* browser_loading
    document,   \* the live document: its url, and whether it can hold media
    media,      \* the page browser_media was filled for
    resources,  \* browser_resources: discovered, loaded and rejected
    marks,      \* browser_bookmarks
    finder,     \* what the keyboard edits, the query length and the match
    trip        \* the external navigation under way, as it is between calls

tabVars == <<tabs, active, scroll, locked>>
pageVars == <<document, media, resources>>
browserVars == <<tabs, active, scroll, locked, pending, loading, document,
                 media, resources, marks, finder, trip>>

Local(page) == [scheme |-> "expos", host |-> page]
HomeUrl == Local("home")
SearchUrl == [scheme |-> "https", host |-> "search"]
Idle == [stage |-> "idle"]
NoFind == [edits |-> "page", query |-> 0, match |-> 0]
NoResources == [discovered |-> 0, loaded |-> 0, rejected |-> 0]

home == [history |-> <<HomeUrl>>, cursor |-> 1, scroll |-> 0]
TabUrl(tab) == tab.history[tab.cursor]

BrowserInit ==
    /\ tabs = <<home>>
    /\ active = 1
    /\ scroll = 0
    /\ locked = FALSE
    /\ pending = NoUrl
    /\ loading = FALSE
    /\ document = [url |-> HomeUrl, rich |-> FALSE]
    /\ media = NoUrl
    /\ resources = NoResources
    /\ marks = <<>>
    /\ finder = NoFind
    /\ trip = Idle

----------------------------------------------------------------------------
\* Mutant: entries ahead of the cursor stay in the history.
MutantEntered(tab, url) ==
    LET room == IF Len(tab.history) = BROWSER_HISTORY_CAPACITY
                THEN Tail(tab.history) ELSE tab.history
    IN  [tab EXCEPT !.history = Append(room, url), !.cursor = Len(room) + 1]

\* set_document's history entry: what lies beyond the cursor is dropped, and
\* a full history loses its oldest entry.
Entered(tab, url) ==
    LET kept == SubSeq(tab.history, 1, tab.cursor)
        room == IF Len(kept) = BROWSER_HISTORY_CAPACITY THEN Tail(kept) ELSE kept
    IN  [tab EXCEPT !.history = Append(room, url), !.cursor = Len(room) + 1]

\* set_document: table is the tab table, at the active tab, lock the value
\* browser_history_locked has when the document arrives; rich says whether the
\* document was parsed from a site's own markup and may show images.
set_document(table, at, lock, url, rich) ==
    /\ tabs' = [table EXCEPT ![at] =
                  [(IF lock THEN @ ELSE Entered(@, url)) EXCEPT !.scroll = 0]]
    /\ active' = at
    /\ locked' = FALSE
    /\ document' = [url |-> url, rich |-> rich]
    /\ scroll' = 0

\* navigate on an expos:// page: no resource is fetched and browser_media and
\* the counters stay as they are.
navigate(table, at, lock, page) ==
    /\ set_document(table, at, lock, Local(page), FALSE)
    /\ UNCHANGED <<media, resources, pending, loading>>

queue_browser_navigation(address) ==
    /\ pending' = address
    /\ loading' = TRUE

\* navigate_address.  An address bar entry that is no address is a search:
\* the home page is shown at once and the query is queued.
navigate_address(table, at, lock, address) ==
    CASE address.scheme = "expos" -> navigate(table, at, lock, address.host)
      [] address.scheme = "query" ->
            /\ set_document(table, at, lock, HomeUrl, FALSE)
            /\ queue_browser_navigation(SearchUrl)
            /\ UNCHANGED <<media, resources>>
      [] OTHER ->
            /\ tabs' = table
            /\ active' = at
            /\ locked' = lock
            /\ queue_browser_navigation(address)
            /\ UNCHANGED <<scroll, document, media, resources>>

\* The handlers run between two rounds of the desktop loop, which empties the
\* queue before it polls another event.
Ready == pending = NoUrl /\ trip = Idle
\* A page shown at once drops the find match; a queued one drops it on arrival.
Unfound(address) ==
    finder' = IF address.scheme \in {"http", "https"} THEN finder
              ELSE [finder EXCEPT !.match = 0]

\* The address line and Enter, a bookmark, or a link of the page.
Visit(address) ==
    /\ Ready
    /\ navigate_address(tabs, active, locked, address)
    /\ Unfound(address)
    /\ UNCHANGED <<marks, trip>>

EnterAddress == \E address \in Addresses : finder.edits = "page" /\ Visit(address)
OpenBookmark == \E i \in 1..Len(marks) : Visit(marks[i])

browser_history_move(direction) ==
    LET next == tabs[active].cursor + direction
    IN  /\ Ready
        /\ next \in 1..Len(tabs[active].history)
        /\ navigate_address([tabs EXCEPT ![active].cursor = next], active, TRUE,
                            tabs[active].history[next])
        /\ Unfound(tabs[active].history[next])
        /\ UNCHANGED <<marks, trip>>

browser_reload ==
    /\ Ready
    /\ navigate_address(tabs, active, TRUE, document.url)
    /\ Unfound(document.url)
    /\ UNCHANGED <<marks, trip>>

browser_new_tab ==
    /\ Ready
    /\ Len(tabs) < BROWSER_TAB_CAPACITY
    /\ navigate(Append([tabs EXCEPT ![active].scroll = scroll], home),
                Len(tabs) + 1, TRUE, "home")
    /\ finder' = NoFind
    /\ UNCHANGED <<marks, trip>>

\* browser_switch_tab and the tail of browser_close_tab: the tab's page is
\* asked for again, then the tab's scroll offset is put back.
Returned(table, at) ==
    LET url == TabUrl(table[at])
        kept == table[at].scroll
    IN  /\ tabs' = table
        /\ active' = at
        /\ locked' = (url.scheme # "expos")
        /\ IF url.scheme = "expos"
           THEN /\ document' = [url |-> url, rich |-> FALSE]
                /\ UNCHANGED <<pending, loading>>
           ELSE queue_browser_navigation(url) /\ UNCHANGED document
        /\ scroll' = kept
        /\ UNCHANGED <<media, resources, marks, trip>>

browser_switch_tab ==
    /\ Ready
    /\ \E index \in 1..Len(tabs) \ {active} :
          /\ Returned([tabs EXCEPT ![active].scroll = scroll], index)
          /\ finder' = [NoFind EXCEPT !.match =
                          IF TabUrl(tabs[index]).scheme = "expos" THEN 0 ELSE finder.match]

Without(s, index) == SubSeq(s, 1, index - 1) \o SubSeq(s, index + 1, Len(s))

\* Which tab is active once the tab at index is gone.
AfterClose(index) ==
    IF active > index THEN active - 1
    ELSE IF active > Len(tabs) - 1 THEN Len(tabs) - 1 ELSE active

browser_close_tab(index) ==
    /\ Ready
    /\ IF Len(tabs) = 1
       THEN /\ navigate(<<home>>, 1, TRUE, "home")
            /\ Unfound(HomeUrl)
            /\ UNCHANGED <<marks, trip>>
       ELSE /\ Returned(Without(tabs, index), AfterClose(index))
            /\ Unfound(TabUrl(tabs'[active']))

CloseTab == \E index \in 1..Len(tabs) : browser_close_tab(index)

browser_toggle_bookmark ==
    LET at == {i \in 1..Len(marks) : marks[i] = document.url}
    IN  /\ Ready
        /\ marks' = IF at # {} THEN Without(marks, CHOOSE i \in at : TRUE)
                    ELSE IF Len(marks) = BROWSER_BOOKMARK_CAPACITY
                    THEN Append(Tail(marks), document.url)
                    ELSE Append(marks, document.url)
        /\ UNCHANGED <<tabVars, pageVars, pending, loading, finder, trip>>

\* The scrolling keys, each of which also records the offset in the tab.
ScrollKey ==
    /\ Ready /\ finder.edits = "page"
    /\ \E offset \in {0, 1} :
          /\ scroll' = offset
          /\ tabs' = [tabs EXCEPT ![active].scroll = offset]
    /\ UNCHANGED <<active, locked, pageVars, pending, loading, marks, finder, trip>>

----------------------------------------------------------------------------

(* Find in page: FindHits[n] is the set of nodes a query of n letters hits.  *)
browser_find_next(query, match) ==
    LET hits == IF query = 0 THEN {} ELSE FindHits[query]
        later == {n \in hits : n > match}
        from == IF later # {} THEN later ELSE hits
    IN  IF from = {} THEN 0 ELSE CHOOSE n \in from : \A m \in from : n <= m

\* The match, when it is laid out, is scrolled to.
Found(query, match) ==
    /\ finder' = [finder EXCEPT !.query = query, !.match = match]
    /\ \E offset \in IF match = 0 THEN {scroll} ELSE {scroll, 0, 1} :
          /\ scroll' = offset
          /\ tabs' = [tabs EXCEPT ![active].scroll = IF match = 0 THEN @ ELSE offset]
    /\ UNCHANGED <<active, locked, pageVars, pending, loading, marks, trip>>

\* A typed letter or a backspace starts the search over; Enter goes on.
FindType ==
    /\ Ready /\ finder.edits = "find"
    /\ \E query \in {finder.query - 1, finder.query + 1} \cap (0..Len(FindHits)) :
          Found(query, browser_find_next(query, 0))
FindEnter ==
    /\ Ready /\ finder.edits = "find"
    /\ Found(finder.query, browser_find_next(finder.query, finder.match))

\* 'f' and the find button, Escape, and the overlay's close button.
FindOpen ==
    /\ Ready
    /\ finder' \in {[finder EXCEPT !.edits = "find", !.match = 0],
                    [finder EXCEPT !.edits = "page"], NoFind}
    /\ UNCHANGED <<tabVars, pageVars, pending, loading, marks, trip>>

----------------------------------------------------------------------------
(* navigate_external_address, one step per request.                          *)
\* show_browser_notice: the live document is edited in place.
Notice ==
    /\ tabs' = [tabs EXCEPT ![active].scroll = 0]
    /\ scroll' = 0
    /\ finder' = [finder EXCEPT !.match = 0]
    /\ resources' = NoResources
    /\ media' = NoUrl
    /\ loading' = FALSE
    /\ trip' = Idle
    /\ UNCHANGED <<active, locked, document, marks>>

\* The youtube, offline and no-handle notices, or the first request; the wiki
\* reader asks for the article's summary and shows it under its own address.
navigate_external_address(address) ==
    \/ Notice
    \/ /\ address.host # VIDEO_HOST
       /\ trip' = [stage |-> "fetch", url |-> address, asked |-> address, hop |-> 0,
                   shown |-> IF address.host = WIKI_HOST /\ address.scheme = "https"
                             THEN address ELSE NoUrl]
       /\ loading' = TRUE
       /\ UNCHANGED <<tabVars, pageVars, marks, finder>>

process_pending_browser_navigation ==
    /\ pending # NoUrl
    /\ pending' = NoUrl
    /\ navigate_external_address(pending)

\* resolve_browser_link, without its path: NoUrl when the target has none.
resolve_browser_link(base, target) ==
    CASE target.kind = "absolute" -> target.url
      [] target.kind = "scheme" ->
            IF base.scheme = "expos" THEN NoUrl
            ELSE [scheme |-> base.scheme, host |-> target.url.host]
      [] target.kind = "path" -> base
      [] OTHER -> NoUrl

\* current_url.starts_with("https://") && next_url.starts_with("http://")
Downgrade(base, next) == base.scheme = "https" /\ next.scheme = "http"
Redirected ==
    /\ trip.stage = "fetch"
    /\ trip.hop < MAX_BROWSER_REDIRECTS
    /\ \E target \in Links : \E next \in {resolve_browser_link(trip.url, target)} :
          /\ next # NoUrl
          /\ ~Downgrade(trip.url, next)
          /\ trip' = [trip EXCEPT !.url = next, !.hop = @ + 1]
    /\ UNCHANGED <<tabVars, pageVars, pending, loading, marks, finder>>

\* The network failed, or the redirect leads nowhere, down to http or too far.
FetchFailed ==
    /\ trip.stage = "fetch"
    /\ Notice
    /\ UNCHANGED pending

\* The home page, edited in place, shows up to eight results.
apply_wikipedia_search_results == Notice

SearchAnswered ==
    /\ trip.stage = "fetch" /\ trip.url = SearchUrl
    /\ apply_wikipedia_search_results
    /\ UNCHANGED pending

\* parse_browser_document refused the page: reject_browser_candidate.
Contained ==
    /\ trip.stage = "fetch" /\ trip.url # SearchUrl
    /\ loading' = FALSE
    /\ trip' = Idle
    /\ UNCHANGED <<tabVars, pageVars, pending, marks, finder>>

\* set_document at the end of an external navigation.
Arrived(url, rich) ==
    /\ set_document(tabs, active, locked, url, rich)
    /\ finder' = [finder EXCEPT !.match = 0]
    /\ loading' = FALSE
    /\ trip' = Idle
    /\ UNCHANGED <<pending, marks>>

\* A page of more than 8 KiB, a truncated one or the node-limit reader's: no
\* active content, media and counters cleared.
PassiveArrived ==
    /\ trip.stage = "fetch" /\ trip.url # SearchUrl
    /\ trip.shown = NoUrl
    /\ media' = NoUrl
    /\ resources' = NoResources
    /\ Arrived(trip.url, TRUE)

\* The wiki reader's document, or a projected page of search results, has no
\* manifest: unless the answer was large, nothing is cleared.
ReaderArrived ==
    /\ trip.stage = "fetch" /\ trip.url # SearchUrl
    /\ Arrived(IF trip.shown # NoUrl THEN trip.shown ELSE trip.url, FALSE)
    /\ \/ UNCHANGED <<media, resources>>
       \/ media' = NoUrl /\ resources' = NoResources

\* hydrate_browser_document: manifest is the number of resources ResourceManifest::scan
\* kept and the number it turned away.
Hydrate ==
    /\ trip.stage = "fetch" /\ trip.url # SearchUrl
    /\ trip.shown = NoUrl
    /\ \E manifest \in Manifests :
          /\ trip' = [stage |-> "hydrate", url |-> trip.url, asked |-> trip.asked,
                      left |-> manifest[1], attempted |-> 0, scanned |-> manifest[2]]
          /\ resources' = [discovered |-> manifest[1], loaded |-> 0, rejected |-> manifest[2]]
    /\ media' = NoUrl
    /\ UNCHANGED <<tabVars, document, pending, loading, marks, finder>>

RejectResource ==
    /\ resources' = [resources EXCEPT !.rejected = @ + 1]
    /\ UNCHANGED media
LoadResource ==
    /\ resources' = [resources EXCEPT !.loaded = @ + 1]
    /\ media' \in {media, trip.url}

\* One resource: past the limit, or a video, it is rejected unasked; one whose
\* address does not resolve, or is http below an https page, costs an attempt;
\* one that arrives fills the media cache if it is an image or a sound.
HydrateNext ==
    /\ trip.stage = "hydrate" /\ trip.left > 0
    /\ \/ /\ trip' = [trip EXCEPT !.left = @ - 1]
          /\ RejectResource
       \/ /\ trip.attempted < MAX_BROWSER_AUTO_RESOURCES
          /\ trip' = [trip EXCEPT !.left = @ - 1, !.attempted = @ + 1]
          /\ \/ RejectResource
             \/ \E target \in Links : \E url \in {resolve_browser_link(trip.url, target)} :
                   /\ url # NoUrl /\ ~Downgrade(trip.url, url)
                   /\ LoadResource
    /\ UNCHANGED <<tabVars, document, pending, loading, marks, finder>>

PageHydrated ==
    /\ trip.stage = "hydrate" /\ trip.left = 0
    /\ Arrived(trip.url, TRUE)
    /\ UNCHANGED <<media, resources>>

----------------------------------------------------------------------------
\* Settings > Privacy, row 0: everything but the queue is reset.
ClearBrowserData ==
    /\ Ready
    /\ set_document(<<home>>, 1, TRUE, HomeUrl, FALSE)
    /\ finder' = NoFind
    /\ resources' = NoResources
    /\ media' = NoUrl
    /\ marks' = <<>>
    /\ UNCHANGED <<pending, loading, trip>>

Visiting ==
    \/ EnterAddress \/ OpenBookmark \/ browser_reload
    \/ \E direction \in {-1, 1} : browser_history_move(direction)
    \/ ClearBrowserData
Tabbing == ScrollKey \/ browser_new_tab \/ browser_switch_tab \/ CloseTab
Finding == browser_toggle_bookmark \/ FindType \/ FindEnter \/ FindOpen
Fetching ==
    \/ process_pending_browser_navigation
    \/ Redirected \/ FetchFailed \/ SearchAnswered \/ Contained
    \/ PassiveArrived \/ ReaderArrived
Hydrating == Hydrate \/ HydrateNext \/ PageHydrated

BrowserNext == Visiting \/ Tabbing \/ Finding \/ Fetching \/ Hydrating

----------------------------------------------------------------------------
\* "Loading securely" covers the page exactly while a navigation is queued or
\* under way: each of the many ways out of navigate_external_address takes it
\* down again, and none takes it down early.
LoadingIsPending == loading <=> ~Ready

\* A redirect chain, and a resource of the page at its end, that began with
\* https stays on https, however the targets are written (http://, //host or a
\* path) and wherever the chain turned to http and back.
SecureStaysSecure ==
    trip # Idle => (trip.asked.scheme = "https" => trip.url.scheme = "https")

\* Back from a page that was entered in the history leads to the page it was
\* opened from, also when the entry fell out of a full history or replaced
\* pages the user had gone back from.
BackLeadsToOrigin ==
    [][\A i \in 1..Len(tabs) :
          (Len(tabs') = Len(tabs) /\ marks' = marks /\ tabs'[i].history # tabs[i].history
             /\ tabs'[i].history # home.history)
             => /\ i = active
                /\ Len(tabs'[i].history) <= BROWSER_HISTORY_CAPACITY
                /\ TabUrl(tabs'[i]) = document'.url
                /\ tabs'[i].cursor > 1
                /\ tabs'[i].history[tabs'[i].cursor - 1] = TabUrl(tabs[i])]_browserVars

\* Every resource the manifest found is counted as loaded or as rejected, once,
\* the ones beyond the limit of automatic fetches included.
ResourcesAccounted ==
    trip.stage = "hydrate" =>
        /\ resources.loaded + resources.rejected + trip.left
              = resources.discovered + trip.scanned
        /\ trip.attempted <= MAX_BROWSER_AUTO_RESOURCES

\* The image and the sound in browser_media, which a page names by an address
\* relative to itself, were fetched for the page on the screen.
MediaIsOwn == Ready /\ document.rich => media \in {NoUrl, document.url}

\* Enter in the find box moves to another match while there is one.
FindMovesOn ==
    [][FindEnter /\ finder.query > 0 /\ Cardinality(FindHits[finder.query]) > 1
          => finder'.match # finder.match]_browserVars

\* The Browser shows the page it was asked for: loading ends, a secure page stays
\* secure, its media and resources are its own, back and find lead on.
BrowserHolds ==
    /\ [](LoadingIsPending /\ SecureStaysSecure /\ ResourcesAccounted /\ MediaIsOwn)
    /\ BackLeadsToOrigin /\ FindMovesOn
=============================================================================
