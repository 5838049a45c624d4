----------------------------- MODULE LogFormat ------------------------------
(***************************************************************************)
(* What a log tab of plugins/logging/src/logs reads and how it is shown:   *)
(* the pod's format annotation (format-annotation.ts), the container and   *)
(* the format PodLogsTab.tsx picks for the reader, and the requests        *)
(* log-urls.ts builds from the filters of both tabs.                       *)
(***************************************************************************)
EXTENDS Integers, Sequences, SequencesExt, FiniteSets, Absent

CONSTANTS Tokens,         \* what may stand between two commas of an annotation
          MaxTokens,      \* bound: tokens of an annotation
          Annotations,    \* the annotations a pod shown may carry
          Containers,     \* the pod's containers in order: <<init, ordinary, ephemeral>>
          Picks,          \* the formats the reader picks
          TailLines,      \* PAGE_LINES, DEFAULT_TAIL of both tabs
          SniffLines,     \* SNIFF_LINES
          SniffRetained,  \* lines the buffer retains
          FilterChars,    \* what the unit filter may be typed of
          MaxFilter       \* bound: characters of the unit filter

ASSUME FormatAssumption ==
  /\ {MaxTokens, TailLines, SniffLines, SniffRetained, MaxFilter} \subseteq Nat
  /\ Len(Containers) = 3 /\ Containers[2] # <<>>

VARIABLES draft,     \* an annotation being written
          pod,       \* the pod shown: its annotation and its default container
          tab,       \* the state of PodLogsTab and of the page around it
          choice,    \* history: what the reader last picked and on which container
          filter,    \* the unit filter: what is typed and what is applied
          asked      \* history: what the previous request of the journal was for

formatVars == <<draft, pod, tab, choice, filter, asked>>

LogFormats == {"plain", "json", "ecs", "journald"}
ColumnTypes == {"date/rfc3339", "date/rfc3339nano", "date/epoch-ms", "epoch", "log-level",
                "abbreviate", "number", "string"}

-----------------------------------------------------------------------------
(* The annotation.  A token is name=value(:key=type); a name of None is a   *)
(* token without "=", an empty one is blank.                                *)

Token(name, value, first) == [name |-> name, value |-> value, first |-> first]

\* toLowerCase, of the values tokens are made of
lower(value) == CASE value = "JSON" -> "json" [] value = "Epoch" -> "epoch" [] OTHER -> value

IsEntry(token) == token.name # None /\ (token.first # None \/ lower(token.value) \in LogFormats)

\* Mutant of placeToken: a token that cannot be placed is skipped.
placeTokenSkip(acc, token) ==
  CASE token.name = None -> acc
    [] token.name # None /\ IsEntry(token) ->
         (IF token.name = "" \/ lower(token.value) \notin LogFormats THEN acc
          ELSE [hints |-> (token.name :> [format |-> lower(token.value), columns |-> <<>>]) @@ acc.hints,
                current |-> token.name])
    [] OTHER ->
         (IF acc.current # None /\ token.name # "" /\ token.value \in ColumnTypes
            THEN [acc EXCEPT !.hints[acc.current].columns = Append(@, [key |-> token.name, type |-> token.value])]
            ELSE acc)

\* One round of the loop of parseHints.
placeToken(acc, token) ==
  LET lost == [acc EXCEPT !.current = None]
      format == lower(token.value)
      column == [key |-> token.first.key, type |-> token.first.type]
      entry(columns) == (token.name :> [format |-> format, columns |-> columns]) @@ acc.hints
  IN  CASE token.name = None -> (IF token.value = "" THEN acc ELSE lost)
        [] token.name # None /\ IsEntry(token) ->
             (CASE token.name = "" \/ format \notin LogFormats -> lost
                [] token.name # "" /\ format \in LogFormats /\ token.first = None ->
                     [hints |-> entry(<<>>), current |-> token.name]
                [] OTHER ->
                     (IF column.key # "" /\ column.type \in ColumnTypes
                        THEN [hints |-> entry(<<column>>), current |-> token.name]
                        ELSE [hints |-> entry(<<>>), current |-> None]))
        [] OTHER ->
             (IF acc.current # None /\ token.name # "" /\ token.value \in ColumnTypes
                THEN [acc EXCEPT !.hints[acc.current].columns =
                                   Append(@, [key |-> token.name, type |-> token.value])]
                ELSE lost)

parseHints(annotation) ==
  FoldLeft(placeToken, [hints |-> [c \in {} |-> None], current |-> None], annotation).hints

annotatedFormat(annotation, container) ==
  LET hints == parseHints(annotation)
  IN  IF container \in DOMAIN hints THEN hints[container] ELSE None

-----------------------------------------------------------------------------
(* PodLogsTab.                                                              *)

AllContainers == Containers[1] \o Containers[2] \o Containers[3]

\* The pod's own preference, then its first ordinary container
preferred(p) == IF p.default \in Range(AllContainers) THEN p.default ELSE Containers[2][1]

active(t, p) == IF t.container \in Range(AllContainers) THEN t.container ELSE preferred(p)
activeContainer == active(tab, pod)

podLogURL(container, tailLines, follow, previous) ==
  [container |-> container, tailLines |-> tailLines, follow |-> follow, previous |-> previous]

\* The stream starts over, with an empty buffer, when its URL changes.
Streamed(t, p) ==
  LET url(t0, p0) == podLogURL(active(t0, p0), TailLines, t0.follow, t0.previous)
  IN  [t EXCEPT !.lines = IF url(t, p) = url(tab, pod) THEN @ ELSE <<>>]

\* A line is what sniffFormat makes of it: text, a JSON record or an ECS one.
sniff(sample) ==
  CASE "ecs" \in Range(sample) -> "ecs"
    [] "ecs" \notin Range(sample) /\ "json" \in Range(sample) -> "json"
    [] OTHER -> "plain"

sample == SubSeq(tab.lines, 1, IF Len(tab.lines) < SniffLines THEN Len(tab.lines) ELSE SniffLines)
hint == annotatedFormat(pod.annotation, activeContainer)
shownFormat ==
  CASE tab.picked # None -> tab.picked
    [] tab.picked = None /\ hint # None -> hint.format
    [] tab.picked = None /\ hint = None /\ tab.stored # None -> tab.stored
    [] OTHER -> sniff(sample)
shownColumns == IF hint # None /\ hint.format = shownFormat THEN hint.columns ELSE None

readStoredFormat(storage, allowed) ==
  IF allowed /\ storage \in LogFormats THEN storage ELSE None

NoTab == [open |-> FALSE, container |-> "", picked |-> None, stored |-> None, lines |-> <<>>,
          follow |-> TRUE, previous |-> FALSE, storage |-> None, allowed |-> TRUE]
NoFilter == [open |-> FALSE, typed |-> <<>>, applied |-> <<>>]
NoChoice == [format |-> None, on |-> None]

FormatInit ==
  /\ draft = <<>> /\ pod = [annotation |-> <<>>, default |-> ""]
  /\ tab = NoTab /\ choice = NoChoice
  /\ filter = NoFilter /\ asked = <<>>

Unopened == ~tab.open /\ ~filter.open

\* A workload's author writes its annotation.
Annotate(token) ==
  /\ Unopened /\ Len(draft) < MaxTokens
  /\ draft' = Append(draft, token)
  /\ UNCHANGED <<pod, tab, choice, filter, asked>>

\* The reader opens the tab on a pod.
OpenTab(annotation, storage, allowed) ==
  /\ Unopened /\ draft = <<>>
  /\ pod' = [pod EXCEPT !.annotation = annotation]
  /\ tab' = [NoTab EXCEPT !.open = TRUE, !.storage = storage, !.allowed = allowed,
                          !.stored = readStoredFormat(storage, allowed)]
  /\ choice' = [NoChoice EXCEPT !.format = readStoredFormat(storage, allowed)]
  /\ UNCHANGED <<draft, filter, asked>>

\* The reader leaves the tab and comes back to it.
Remount ==
  /\ tab.open
  /\ tab' = [tab EXCEPT !.container = "", !.picked = None, !.lines = <<>>,
                        !.follow = TRUE, !.previous = FALSE,
                        !.stored = readStoredFormat(tab.storage, tab.allowed)]
  /\ choice' = [on |-> None, format |-> IF tab.allowed THEN choice.format ELSE None]
  /\ UNCHANGED <<draft, pod, filter, asked>>

\* Mutant of onContainerChange: the pick stays.
onContainerChangeKeeps(container) ==
  tab' = Streamed([tab EXCEPT !.container = container], pod)

onContainerChange(container) ==
  tab' = Streamed([tab EXCEPT !.container = container, !.picked = None], pod)

SelectContainer(container) ==
  /\ tab.open /\ onContainerChange(container)
  /\ choice' = [choice EXCEPT !.on = None]
  /\ UNCHANGED <<draft, pod, filter, asked>>

storeFormat(format) == IF tab.allowed THEN format ELSE tab.storage

onFormatChange(format) ==
  /\ tab.open
  /\ tab' = [tab EXCEPT !.picked = format, !.stored = format, !.storage = storeFormat(format)]
  /\ choice' = [format |-> format, on |-> activeContainer]
  /\ UNCHANGED <<draft, pod, filter, asked>>

\* The checkboxes: follow, and the previous run of the container
Check(box) ==
  /\ tab.open
  /\ tab' = Streamed([tab EXCEPT ![box] = ~@], pod)
  /\ UNCHANGED <<draft, pod, choice, filter, asked>>

\* Lines arrive, and the oldest go; or a page is put in front.
LineArrives(kind) ==
  /\ tab.open
  /\ LET ls == Append(tab.lines, kind)
     IN  tab' = [tab EXCEPT !.lines = IF Len(ls) > SniffRetained THEN Tail(ls) ELSE ls]
  /\ UNCHANGED <<draft, pod, choice, filter, asked>>

PageInFront(kind) ==
  /\ tab.open /\ tab.lines # <<>> /\ Len(tab.lines) < SniffRetained
  /\ tab' = [tab EXCEPT !.lines = <<kind>> \o @]
  /\ UNCHANGED <<draft, pod, choice, filter, asked>>

\* The pod object is updated while it is shown.  A tab that was never told a
\* container follows the pod's preference; its pick goes with it.
EditPod(annotation, default) ==
  /\ tab.open
  /\ pod' = [annotation |-> annotation, default |-> default]
  /\ tab' = Streamed(tab, pod')
  /\ choice' = [choice EXCEPT !.on = IF @ = None THEN None ELSE active(tab, pod')]
  /\ UNCHANGED <<draft, filter, asked>>

-----------------------------------------------------------------------------
(* NodeLogsTab: a filter is typed, and applied or cleared.                  *)

Separators == {",", " "}
UnitChars == {"k", "-", "."}

\* One character of the typed text: the units so far and the one being read.
SplitUnits(acc, char) ==
  IF char \in Separators THEN [units |-> Append(acc.units, acc.unit), unit |-> <<>>]
                         ELSE [acc EXCEPT !.unit = Append(@, char)]

parseUnits(text) ==
  LET read == FoldLeft(SplitUnits, [units |-> <<>>, unit |-> <<>>], text)
      accepted(unit) == unit # <<>> /\ unit[1] # "-" /\ Range(unit) \subseteq UnitChars
  IN  SelectSeq(Append(read.units, read.unit), accepted)

\* What the request says, and the key paging is reset by.
nodeJournalURL(units) == [output |-> "json", tailLines |-> TailLines, unit |-> units]

\* Mutant of resetKey: the units are run together.
resetKeyJoined(units) == FlattenSeq(units)

resetKey(units) ==
  FlattenSeq([i \in DOMAIN units |-> IF i = 1 THEN units[i] ELSE <<",">> \o units[i]])

Texts == UNION {[1..n -> FilterChars] : n \in 0..MaxFilter}

\* The field's text is changed, at its end or anywhere in it.
Typing(text) ==
  /\ ~tab.open /\ draft = <<>>
  /\ filter' = [filter EXCEPT !.open = TRUE, !.typed = text]
  /\ UNCHANGED <<draft, pod, tab, choice, asked>>

applyUnits ==
  /\ filter.open
  /\ filter' = [filter EXCEPT !.applied = parseUnits(filter.typed)]
  /\ asked' = filter.applied
  /\ UNCHANGED <<draft, pod, tab, choice>>

onClear ==
  /\ filter.open
  /\ filter' = [filter EXCEPT !.typed = <<>>, !.applied = <<>>]
  /\ asked' = filter.applied
  /\ UNCHANGED <<draft, pod, tab, choice>>

FormatNext ==
  \/ \E t \in Tokens : Annotate(t)
  \/ \E a \in Annotations, s \in Picks \cup {None, "xml"}, ok \in BOOLEAN : OpenTab(a, s, ok)
  \/ Remount
  \/ \E c \in Range(AllContainers) : SelectContainer(c)
  \/ \E f \in Picks : onFormatChange(f)
  \/ \E box \in {"follow", "previous"} : Check(box)
  \/ \E k \in {"plain", "json", "ecs"} : LineArrives(k) \/ PageInFront(k)
  \/ \E a \in Annotations, d \in {""} \cup Range(AllContainers) : EditPod(a, d)
  \/ \E t \in Texts : Typing(t)
  \/ applyUnits
  \/ onClear

-----------------------------------------------------------------------------
(* Properties.                                                              *)

IsColumn(token) == /\ token.name \notin {None, ""} /\ ~IsEntry(token)
                   /\ token.value \in ColumnTypes
IsBlank(token) == token.name = None /\ token.value = ""

\* The hint of a container, read off the annotation: the last entry of that
\* name with a known format, and the columns that follow it without a break.
Placed(annotation, container) ==
  LET entries == {i \in DOMAIN annotation :
                    /\ IsEntry(annotation[i]) /\ annotation[i].name = container
                    /\ lower(annotation[i].value) \in LogFormats}
      last == CHOOSE i \in entries : \A j \in entries : j <= i
      first == annotation[last].first
      own == IF first = None \/ first.key = "" \/ first.type \notin ColumnTypes THEN <<>> ELSE <<first>>
      run(j) == \A k \in (last + 1)..j : IsColumn(annotation[k]) \/ IsBlank(annotation[k])
      end == CHOOSE j \in last..Len(annotation) : run(j) /\ (j = Len(annotation) \/ ~run(j + 1))
      more == SelectSeq(SubSeq(annotation, last + 1, end), IsColumn)
  IN  IF entries = {} THEN None
      ELSE [format |-> lower(annotation[last].value),
            columns |-> IF first # None /\ own = <<>> THEN <<>>
                        ELSE own \o [k \in DOMAIN more |-> [key |-> more[k].name, type |-> more[k].value]]]

\* However an annotation is written, a malformed entry costs only itself
\* (annotatedFormat, format-annotation.ts:77-85): every container gets the
\* format of its last valid entry and exactly the columns that follow it.
HintsPlaced ==
  \A c \in Range(AllContainers) : annotatedFormat(draft, c) = Placed(draft, c)

\* What the reader last picked holds on the container it was picked on, and,
\* in this view and in later ones, on every container the annotation does not
\* name; a container it names is shown as it says (PodLogsTab.tsx:51-57,
\* 193-196), with its columns.
ChoiceHonoured ==
  LET said == Placed(pod.annotation, activeContainer)
  IN  tab.open =>
        /\ choice.on = activeContainer => shownFormat = choice.format
        /\ choice.on # activeContainer /\ said # None =>
             shownFormat = said.format /\ shownColumns = said.columns
        /\ said = None =>
             /\ choice.format # None => shownFormat = choice.format
             /\ shownColumns = None

\* Two filters of a journal have the same paging key exactly when they ask for
\* the same entries, so that pages of one are never taken for pages of the
\* other (NodeLogsTab.tsx:87).
KeyTellsLogs ==
  resetKey(filter.applied) = resetKey(asked) <=> nodeJournalURL(filter.applied) = nodeJournalURL(asked)

\* The reader, then the annotation, decide what is read and how.
FormatHonoured == HintsPlaced /\ ChoiceHonoured /\ KeyTellsLogs
=============================================================================
