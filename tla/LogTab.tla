------------------------------- MODULE LogTab -------------------------------
(***************************************************************************)
(* A log tab of plugins/logging/src/logs: useLogStream streams the tail of *)
(* a log into the buffer, useEarlierPages fetches pages of earlier lines   *)
(* and puts them in front, and both go on while the log grows and the      *)
(* reader switches logs, reloads or scrolls.  Logs are container logs      *)
(* (PodLogsTab.tsx, joined by content) or journals (NodeLogsTab.tsx, paged *)
(* by cursor).  The buffer is the run of numbered lines that LogBuffer     *)
(* implements; no two lines of a log have the same text and none is blank. *)
(***************************************************************************)
EXTENDS Integers, Sequences, SequencesExt

CONSTANTS Logs,         \* what a tab can show
          Journals,     \* the logs that are node journals
          None,
          PageLines,    \* DEFAULT_TAIL, lines per page
          Slack,        \* JOIN_SEARCH_SLACK
          MaxLines,     \* lines the buffer retains
          MaxWritten,   \* bound: lines in each log
          MaxRequests,  \* bound: requests for a stream
          Errors        \* whether requests may fail

\* A page in flight: the log it is for, how many lines were held and how many
\* pages asked for, the line it is to end before, and what was fetched.
PageType ==
  [log : Logs, held : Nat, size : Nat \ {0}, anchor : Logs \X Nat,
   fetched : Seq(Logs \X Nat) \union {None}]

ASSUME TabAssumption ==
  /\ Journals \subseteq Logs /\ Errors \in BOOLEAN
  /\ {PageLines, MaxLines, MaxRequests} \subseteq Nat \ {0}
  /\ Slack \in Nat /\ MaxWritten \in [Logs -> Nat]
  /\ None \notin Logs \X Nat /\ None \notin Seq(Logs \X Nat)
  /\ None \notin PageType

VARIABLES
  written,   \* number of lines each log has
  log,       \* the log shown
  cur,       \* number of the current request; the key of useLogStream
  runs,      \* one record per request: its fetch and reader
  lines, first,  \* the buffer: lines <<log, position>>, number of the oldest
  state,     \* StreamState
  page,      \* the page in flight, or None
  paging,    \* PagingState
  pages,     \* pagesLoaded
  torn       \* a page was joined that could not be placed

streamVars == <<cur, runs, state>>
pageVars   == <<page, paging, pages>>
vars == <<written, log, streamVars, lines, first, pageVars, torn>>

Line(l, i) == <<l, i>>

\* The lines of log l from position i to j.
Segment(l, i, j) == [k \in 1..(j - i + 1) |-> Line(l, i + k - 1)]

\* Where the n lines up to position last begin.
TailStart(last, n) == IF last > n THEN last - n + 1 ELSE 1

\* The logs of the tab that shows log l.
Tabbed(l) == IF l \in Journals THEN Journals ELSE Logs \ Journals

RunType ==
  [log : Logs, phase : {"fetch", "read", "done"}, next : Nat, last : Nat, aborted : BOOLEAN]

Pending(key) == [key |-> key, loading |-> TRUE, streaming |-> FALSE, error |-> FALSE]
FreshPaging(key) == [key |-> key, loading |-> FALSE, canLoad |-> TRUE, error |-> FALSE]
NewRun(l) == [log |-> l, phase |-> "fetch", next |-> 0, last |-> 0, aborted |-> FALSE]

\* What the hooks return: state kept for something else reads as fresh.
Shown  == IF state.key = cur THEN state ELSE Pending(cur)
Paging == IF paging.key = log THEN paging ELSE FreshPaging(log)
CanLoad == Paging.canLoad /\ lines # <<>>

TypeOK ==
  /\ log \in Logs /\ written \in [Logs -> Nat] /\ \A l \in Logs : written[l] <= MaxWritten[l]
  /\ cur \in 1..MaxRequests /\ Len(runs) = cur
  /\ runs \in Seq(RunType)
  /\ \A k \in 1..cur : runs[k].aborted <=> k # cur
  /\ lines \in Seq(Logs \X Nat) /\ first \in Int
  /\ \A i \in DOMAIN lines : lines[i][2] \in 1..written[lines[i][1]]
  /\ state \in [key : 1..cur, loading : BOOLEAN, streaming : BOOLEAN, error : BOOLEAN]
  /\ paging \in [key : Logs, loading : BOOLEAN, canLoad : BOOLEAN, error : BOOLEAN]
  /\ page \in PageType \union {None}
  /\ (page # None) <=> paging.loading
  /\ pages \in Nat \ {0} /\ torn \in BOOLEAN

Init ==
  /\ log \in Logs
  /\ written \in {w \in [Logs -> UNION {0..MaxWritten[l] : l \in Logs}] : \A l \in Logs :
                     w[l] <= (IF l \in Tabbed(log) THEN MaxWritten[l] ELSE 0)}
  /\ cur = 1 /\ runs = <<NewRun(log)>>
  /\ lines = <<>> /\ first = 0
  /\ state = Pending(1)
  /\ page = None /\ paging = FreshPaging(log) /\ pages = 1
  /\ torn = FALSE

-----------------------------------------------------------------------------
(* The container writes; the reader changes what is shown.                  *)

Write(l) ==
  /\ l \in Tabbed(log) /\ written[l] < MaxWritten[l]
  /\ written' = [written EXCEPT ![l] = @ + 1]
  /\ UNCHANGED <<log, streamVars, lines, first, pageVars, torn>>

\* The effect of useLogStream runs again: abort the old request, clear the
\* buffer, start a new one.
NewRequest(l) ==
  /\ cur < MaxRequests
  /\ log' = l /\ cur' = cur + 1
  /\ runs' = Append([runs EXCEPT ![cur].aborted = TRUE], NewRun(l))
  /\ lines' = <<>> /\ first' = 0 /\ torn' = FALSE
  /\ UNCHANGED <<written, state, page, paging>>

\* onContainerChange, or another unit filter
SwitchLog(l) ==
  /\ l \in Tabbed(log) \ {log}
  /\ NewRequest(l) /\ pages' = 1

\* The checkbox for the container's previous run, which is another log but
\* does not reset pagesLoaded.
TogglePrevious(l) ==
  /\ l \in Tabbed(log) \ {log} /\ l \notin Journals
  /\ NewRequest(l) /\ UNCHANGED pages

\* Reload, or the Follow checkbox, which is part of the URL
Reload == NewRequest(log) /\ UNCHANGED pages

-----------------------------------------------------------------------------
(* useLogStream.                                                            *)

\* Mutant of Update: a request that was aborted still reports.
UpdateAlways(k, s) == state' = s

\* setState for request k, unless it was aborted.
Update(k, s) == IF runs[k].aborted THEN UNCHANGED state ELSE state' = s

\* The state of request k with some fields changed.
StateOf(k) == IF state.key = k THEN state ELSE Pending(k)

Finish(k, failed) ==
  /\ runs' = [runs EXCEPT ![k].phase = "done"]
  /\ Update(k, [StateOf(k) EXCEPT !.loading = FALSE, !.streaming = FALSE,
                                  !.error = @ \/ failed])

\* consoleFetch resolves: the server starts with the last PageLines lines and
\* goes on as the log grows, except that a journal is read once.
Respond(k) ==
  /\ runs[k].phase = "fetch"
  /\ IF runs[k].aborted
       THEN Finish(k, FALSE)
       ELSE /\ runs' = [runs EXCEPT ![k].phase = "read",
                          ![k].next = TailStart(written[runs[k].log], PageLines),
                          ![k].last = IF runs[k].log \in Journals
                                        THEN written[runs[k].log]
                                        ELSE MaxWritten[runs[k].log]]
            /\ Update(k, [StateOf(k) EXCEPT !.loading = FALSE, !.streaming = TRUE])
  /\ UNCHANGED <<written, log, cur, lines, first, pageVars, torn>>

\* The request, or the body that is being read, fails.
RequestFails(k) ==
  /\ Errors /\ runs[k].phase \in {"fetch", "read"}
  /\ Finish(k, TRUE)
  /\ UNCHANGED <<written, log, cur, lines, first, pageVars, torn>>

\* Mutant of AppendLine: lines that go do not use up their numbers.
AppendLineRenumbers(line) ==
  lines' = (IF Len(lines) >= MaxLines THEN SubSeq(lines, Len(lines) - MaxLines + 2, Len(lines))
                                      ELSE lines) \o <<line>> /\ first' = first

\* buffer.append: the oldest lines past MaxLines go.
AppendLine(line) ==
  LET all == Append(lines, line)
      excess == IF Len(all) > MaxLines THEN Len(all) - MaxLines ELSE 0
  IN  lines' = SubSeq(all, excess + 1, Len(all)) /\ first' = first + excess

\* The response of request k has another line.
HasMore(k) == runs[k].next <= written[runs[k].log] /\ runs[k].next <= runs[k].last

\* reader.read resolves with a line; an aborted reader stops.
ReadLine(k) ==
  /\ runs[k].phase = "read" /\ HasMore(k)
  /\ IF runs[k].aborted
       THEN Finish(k, FALSE) /\ UNCHANGED <<lines, first>>
       ELSE /\ AppendLine(Line(runs[k].log, runs[k].next))
            /\ runs' = [runs EXCEPT ![k].next = @ + 1]
            /\ UNCHANGED state
  /\ UNCHANGED <<written, log, cur, pageVars, torn>>

\* The response ends where the log does: it was not followed, or the
\* container has ended.
StreamEnds(k) ==
  /\ runs[k].phase = "read" /\ ~HasMore(k)
  /\ Finish(k, FALSE)
  /\ UNCHANGED <<written, log, cur, lines, first, pageVars, torn>>

-----------------------------------------------------------------------------
(* useEarlierPages and the two fetchEarlier.                                *)

\* loadEarlier, from a scroll near the top.
LoadEarlier ==
  /\ page = None /\ CanLoad /\ ~Paging.loading
  /\ page' = [log |-> log, held |-> Len(lines), size |-> pages + 1,
              anchor |-> lines[1], fetched |-> None]
  /\ paging' = [Paging EXCEPT !.loading = TRUE, !.error = FALSE]
  /\ UNCHANGED <<written, log, streamVars, lines, first, pages, torn>>

\* Where the page before the anchor may end: at the anchor, or, if that is a
\* line of another filter, anywhere in this one.
PageEnds == IF page.anchor[1] = page.log THEN {page.anchor[2]} ELSE 0..written[page.log]

\* The server answers: a bigger tail, or the page that ends with the cursor.
ServePage ==
  /\ page # None /\ page.fetched = None
  /\ \E last \in IF page.log \in Journals THEN PageEnds ELSE {written[page.log]} :
       LET size == IF page.log \in Journals THEN PageLines ELSE PageLines * page.size
       IN  page' = [page EXCEPT !.fetched = Segment(page.log, TailStart(last, size), last)]
  /\ UNCHANGED <<written, log, streamVars, lines, first, paging, pages, torn>>

Expected(fetched, held) == IF Len(fetched) > held THEN Len(fetched) - held ELSE 0

\* Where the search outward from the expected index meets the line.
Matches(fetched, line, expected) ==
  {i \in 0..(Len(fetched) - 1) :
     /\ fetched[i + 1] = line
     /\ i - expected <= Slack /\ expected - i <= Slack}

\* Mutant of EarlierPodLines: the window is taken not to have moved.
EarlierByCount(fetched, line, held) == SubSeq(fetched, 1, Expected(fetched, held))

\* earlierPodLines: what comes before the first line held, found by content;
\* line is None if the buffer is empty.
EarlierPodLines(fetched, line, held) ==
  LET found == Matches(fetched, line, Expected(fetched, held))
  IN  SubSeq(fetched, 1, IF found = {} THEN Expected(fetched, held)
                                       ELSE CHOOSE i \in found : TRUE)

\* earlierJournalLines: everything but the anchor, which is there once or not at
\* all, oldest first (the server's newest-first order and the reversal cancel out).
EarlierJournalLines(fetched, anchor) ==
  LET at == {i \in DOMAIN fetched : fetched[i] = anchor}
  IN  IF at = {} THEN fetched ELSE RemoveAt(fetched, CHOOSE i \in at : TRUE)

FirstLine == IF lines = <<>> THEN None ELSE lines[1]

\* A page that cannot be placed: the line to join at is no longer the one it was
\* fetched for, is a line of another log, is not in the page, or is too far from
\* where it is expected.
Misplaced ==
  IF page.log \in Journals
    THEN FirstLine # page.anchor \/ page.anchor[1] # page.log
    ELSE Matches(page.fetched, FirstLine, Expected(page.fetched, page.held)) = {}

\* Mutant of UpdatePaging: a failure leaves the spinner on.
UpdatePagingStuck(canLoad, failed) ==
  paging' = [(IF paging.key = page.log THEN paging ELSE FreshPaging(page.log))
               EXCEPT !.loading = failed, !.canLoad = @ /\ canLoad, !.error = @ \/ failed]

\* setState for the log the page was fetched for, and the finally block.
UpdatePaging(canLoad, failed) ==
  LET p == IF paging.key = page.log THEN paging ELSE FreshPaging(page.log)
  IN  paging' = [p EXCEPT !.loading = FALSE, !.canLoad = @ /\ canLoad,
                          !.error = @ \/ failed]

\* Mutant of PageReady: answers for a log no longer shown are thrown away.
PageReadyIfShown == page # None /\ page.fetched # None /\ page.log = log

\* fetchEarlier has resolved.  Only unmounting aborts a page, so switching logs
\* does not stop it.
PageReady == page # None /\ page.fetched # None

\* The page arrives and is put in front; nothing new ends the paging.
PageArrives ==
  /\ PageReady
  /\ LET earlier == IF page.log \in Journals
                      THEN EarlierJournalLines(page.fetched, page.anchor)
                      ELSE EarlierPodLines(page.fetched, FirstLine, page.held)
     IN  /\ lines' = earlier \o lines
         /\ first' = first - Len(earlier)
         /\ pages' = IF earlier # <<>> /\ page.log \notin Journals THEN page.size ELSE pages
         /\ UpdatePaging(earlier # <<>>, FALSE)
         /\ torn' = (torn \/ (earlier # <<>> /\ Misplaced))
  /\ page' = None
  /\ UNCHANGED <<written, log, streamVars>>

PageFails ==
  /\ Errors /\ page # None
  /\ UpdatePaging(FALSE, TRUE) /\ page' = None
  /\ UNCHANGED <<written, log, streamVars, lines, first, pages, torn>>

-----------------------------------------------------------------------------
Next ==
  \/ \E l \in Logs : Write(l) \/ SwitchLog(l) \/ TogglePrevious(l)
  \/ Reload
  \/ \E k \in 1..cur : Respond(k) \/ RequestFails(k) \/ ReadLine(k) \/ StreamEnds(k)
  \/ LoadEarlier \/ ServePage \/ PageArrives \/ PageFails

Spec == Init /\ [][Next]_vars

\* Servers answer and readers are read; nobody has to scroll or write.
Fairness ==
  /\ WF_vars(\E k \in 1..cur : Respond(k)) /\ WF_vars(ServePage) /\ WF_vars(PageArrives)

FairSpec == Spec /\ Fairness

-----------------------------------------------------------------------------
(* Properties.                                                              *)

\* The buffer is one uninterrupted piece of the log shown, nothing missing,
\* doubled or out of order, however stream, pages, evictions, switches and
\* reloads interleave (useLogStream.ts:174-186, pagination.ts:41-67), unless a
\* page was put in front that could not be placed.
OnePiece ==
  TypeOK /\ (~torn => \A i \in DOMAIN lines : lines[i] = Line(log, lines[1][2] + i - 1))

\* "Sequence numbers already handed out do not move" (buffer.ts:191): within
\* one request a number belongs to one line for good, also when the line was
\* evicted and comes back with a page, so a cached row is never another line's.
NumbersStick ==
  [][(cur' = cur /\ ~torn' /\ lines # <<>>) =>
       lines'[1][2] - first' = lines[1][2] - first]_vars

\* The flags shown are those of the request shown: a request that was replaced
\* cannot report over its successor (useLogStream.ts:112-127).
FlagsHonest ==
  /\ Shown.loading <=> runs[cur].phase = "fetch"
  /\ Shown.streaming <=> runs[cur].phase = "read"

\* Neither spinner stays for ever: the first response ends "loading" and every
\* page in flight ends, also when the reader switched away meanwhile.
SpinnersStop ==
  []<>(~Shown.loading) /\ (page # None ~> page = None)

\* loadEarlier "prepends the page before what is held" (useEarlierPages.ts:7),
\* so the buffer holds lines of the log shown only.
OneLog == \A i \in DOMAIN lines : lines[i][1] = log
=============================================================================
