----------------------------- MODULE FetchPatch -----------------------------
(***************************************************************************)
(* plugins/logging/src/fetch-patch.ts: the plugin wraps window.fetch,      *)
(* rewrites links as they appear and guards a menu of console core's Node  *)
(* Logs page, so that the page reads the journal from the plugin.  Other   *)
(* plugins wrap fetch too, the page comes and goes, and installing may     *)
(* happen again.                                                           *)
(***************************************************************************)
EXTENDS Integers, Sequences, SequencesExt, FiniteSets, Absent

CONSTANTS Paths,        \* the entries of the "Select a path" menu
          MaxWrappers,  \* bound: functions window.fetch consists of
          MaxHrefs,     \* bound: times core sets the link's href
          MaxClicks     \* bound: clicks into the menu


VARIABLES
  fetch,    \* window.fetch: the wrappers from the outside in, around the browser's own
  sent,     \* history: the last call of fetch and what the browser was asked for
  installed,  \* __loggingPathSelectGuard and __loggingRawLinkRewriter
  onPage,   \* does the location match NODE_LOGS_PAGE_RE
  link,     \* the link core shows: its href, and history: how often it was set and rewritten
  records,  \* mutation records the observer has not been given yet
  menu      \* core's menu: open, selected path, spinner, fetch under way, timers of the guard,
            \* and history: was the spinner turned on before there was a guard

patchVars == <<fetch, sent, installed, onPage, link, records, menu>>

\* A URL is a place on console, and a query that is carried along.
URL(place, query) == [place |-> place, query |-> query]
Places == {"kubelet/journal", "kubelet/file", "plugin/journal", "plugin/journal/raw", "elsewhere"}
Queries == {"", "tailLines"}

\* No link is none of the links.
ASSUME PatchAssumption ==
  /\ {MaxWrappers, MaxHrefs, MaxClicks} \subseteq Nat /\ Paths # {}
  /\ None \notin [place : Places, query : Queries]

\* Mutant of rewriteTo: the query is left behind.
rewriteToBare(place, url) == IF url.place = "kubelet/journal" THEN URL(place, "") ELSE None

\* rewriteJournalURL and rewriteRawJournalURL
rewriteTo(place, url) == IF url.place = "kubelet/journal" THEN URL(place, url.query) ELSE None

\* What is given to fetch: a string, a URL or a Request, whose own headers are
\* not in init, or something else that the patch does not look into.
Inputs == {"string", "URL", "Request", "other"}
Call(form, url, headers) == [form |-> form, url |-> url, headers |-> headers]

patched(call) ==
  LET rewritten == IF call.form = "other" THEN None ELSE rewriteTo("plugin/journal", call.url)
  IN  IF rewritten = None THEN call
      ELSE Call("string", rewritten, IF call.form = "Request" THEN FALSE ELSE call.headers)

Through(call, wrapper) == IF wrapper = "patched" THEN patched(call) ELSE call

\* The call as each wrapper makes it, from the outside in.
Passing(call) ==
  LET passed[i \in 0..Len(fetch)] == IF i = 0 THEN call ELSE Through(passed[i - 1], fetch[i])
  IN  passed

NoLink == [href |-> None, sets |-> 0, rewrites |-> 0]
NoMenu == [open |-> FALSE, path |-> CHOOSE p \in Paths : TRUE, loading |-> FALSE, fetching |-> FALSE,
           timers |-> 0, clicks |-> 0, unguarded |-> FALSE]

PatchInit ==
  /\ fetch = <<>> /\ sent = None
  /\ installed = FALSE /\ onPage = FALSE
  /\ link = NoLink /\ records = 0 /\ menu = NoMenu

pageVars == <<onPage, link, records, menu>>

-----------------------------------------------------------------------------
(* fetch.                                                                   *)

rewriteAnchor(l) ==
  LET rewritten == IF l.href = None THEN None ELSE rewriteTo("plugin/journal/raw", l.href)
  IN  IF rewritten = None THEN l ELSE [l EXCEPT !.href = rewritten, !.rewrites = @ + 1]

\* The observer is not given a change that leaves the link as it is.
Observed(l) == IF installed' /\ l # link THEN records + 1 ELSE records

\* __loggingJournalPatch of window.fetch, which another wrapper hides
IsPatched == fetch # <<>> /\ Head(fetch) = "patched"

installJournalFetchPatch ==
  /\ IF IsPatched THEN UNCHANGED fetch
     ELSE Len(fetch) < MaxWrappers /\ fetch' = <<"patched">> \o fetch
  /\ installed' = TRUE
  /\ IF installed THEN UNCHANGED <<link, records>>
     ELSE link' = rewriteAnchor(link) /\ records' = Observed(link')
  /\ UNCHANGED <<sent, onPage, menu>>

\* Another plugin wraps fetch.
OtherWraps ==
  /\ Len(fetch) < MaxWrappers
  /\ fetch' = <<"other">> \o fetch
  /\ UNCHANGED <<sent, installed, pageVars>>

Fetch(call) ==
  /\ ~onPage
  /\ sent' = [call |-> call, got |-> Passing(call)[Len(fetch)], patched |-> "patched" \in Range(fetch)]
  /\ UNCHANGED <<fetch, installed, pageVars>>

-----------------------------------------------------------------------------
(* The link to the raw journal.                                             *)

Navigate ==
  /\ onPage' = ~onPage
  /\ link' = [link EXCEPT !.href = None]
  /\ records' = 0
  /\ menu' = [NoMenu EXCEPT !.clicks = menu.clicks]
  /\ sent' = None
  /\ UNCHANGED <<fetch, installed>>

\* Core shows the link, or sets its href again when the unit or the tail changes.
SetHref(url) ==
  /\ onPage /\ link.sets < MaxHrefs
  /\ link' = [link EXCEPT !.href = url, !.sets = @ + 1]
  /\ records' = IF installed THEN records + 1 ELSE 0
  /\ UNCHANGED <<fetch, sent, installed, onPage, menu>>

\* Mutant of ObserverRuns: only links that are added are looked at.
ObserverRunsOnce ==
  /\ records > 0
  /\ link' = IF onPage /\ link.sets = 1 THEN rewriteAnchor(link) ELSE link
  /\ records' = IF link' # link THEN 1 ELSE 0
  /\ UNCHANGED <<fetch, sent, installed, onPage, menu>>

\* The observer is given all records; what it rewrites makes another one.
ObserverRuns ==
  /\ records > 0
  /\ link' = IF onPage THEN rewriteAnchor(link) ELSE link
  /\ records' = IF link' # link THEN 1 ELSE 0
  /\ UNCHANGED <<fetch, sent, installed, onPage, menu>>

-----------------------------------------------------------------------------
(* The menu.  Core's onChangePath turns the spinner on whatever is chosen;  *)
(* only an effect of another path fetches, and turns it off.                *)

toggle(m) == [m EXCEPT !.open = ~@]
onChangePath(m, path) ==
  [m EXCEPT !.open = FALSE, !.loading = TRUE, !.path = path, !.fetching = @ \/ path # m.path,
            !.unguarded = @ \/ ~installed]

\* Mutant of Guarded: the guard looks at the menu of any page but this one.
GuardedElsewhere(path) == installed /\ ~onPage /\ path = menu.path

\* The listener of installPathSelectGuard swallows the click.
Guarded(path) == installed /\ onPage /\ path = menu.path

ClickToggle ==
  /\ onPage /\ menu.clicks < MaxClicks
  /\ menu' = [toggle(menu) EXCEPT !.clicks = @ + 1]
  /\ UNCHANGED <<fetch, sent, installed, onPage, link, records>>

ClickItem(path) ==
  /\ onPage /\ menu.open /\ menu.clicks < MaxClicks
  /\ menu' = [(IF Guarded(path) THEN [menu EXCEPT !.timers = @ + 1] ELSE onChangePath(menu, path))
                EXCEPT !.clicks = @ + 1]
  /\ UNCHANGED <<fetch, sent, installed, onPage, link, records>>

\* setTimeout: the guard closes the menu through core's own toggle.
TimerFires ==
  /\ menu.timers > 0
  /\ menu' = [toggle(menu) EXCEPT !.timers = @ - 1]
  /\ UNCHANGED <<fetch, sent, installed, onPage, link, records>>

LogFetched ==
  /\ menu.fetching
  /\ menu' = [menu EXCEPT !.fetching = FALSE, !.loading = FALSE, !.unguarded = FALSE]
  /\ UNCHANGED <<fetch, sent, installed, onPage, link, records>>

PatchNext ==
  \/ installJournalFetchPatch
  \/ OtherWraps
  \/ \E f \in Inputs, p \in Places, q \in Queries : Fetch(Call(f, URL(p, q), TRUE))
  \/ Navigate
  \/ \E p \in Places \ {"plugin/journal"}, q \in Queries : SetHref(URL(p, q))
  \/ ObserverRuns
  \/ ClickToggle
  \/ \E p \in Paths : ClickItem(p)
  \/ TimerFires
  \/ LogFetched

PatchSpec == PatchInit /\ [][PatchNext]_patchVars

-----------------------------------------------------------------------------
(* Properties.                                                              *)

\* However often fetch was wrapped and by whom, once the patch is in it a
\* request for the kubelet's journal reaches the plugin with its query, and
\* any other request the browser as it was made (fetch-patch.ts:176-179, 205);
\* and once the observer has run the page links to no journal of the kubelet,
\* each href having been rewritten at most once.
Rerouted ==
  /\ sent # None =>
       LET url == sent.call.url
       IN  IF sent.patched /\ sent.call.form # "other" /\ url.place = "kubelet/journal"
             THEN sent.got.url = [url EXCEPT !.place = "plugin/journal"]
             ELSE sent.got = sent.call
  /\ installed /\ onPage /\ records = 0 /\ link.href # None => link.href.place # "kubelet/journal"
  /\ link.rewrites <= link.sets

\* Choosing a path never leaves the page with a spinner that nothing will turn
\* off, once the guard is installed (fetch-patch.ts:117-123).
SpinnerHasFetch == menu.loading /\ ~menu.unguarded => menu.fetching

\* Core's page works on the plugin's journal as it does on its own.
CoreServed == Rerouted /\ SpinnerHasFetch
=============================================================================
