----------------------------- MODULE LogViewer ------------------------------
(* The virtualised list of LogViewer.tsx over the line buffer, the browser's   *)
(* scroll box under it and the reader in front of it.                          *)
(*                                                                             *)
(* held is the buffer: [first, count, gen], lines numbered from first. view    *)
(* keeps the element (top, height, whether a scroll event is on its way), the  *)
(* state and refs of the component, and first, count, gen as last rendered.    *)
(* The buffer changes outside React; a frame (due) or any state change renders *)
(* it. Heights are in small units.                                             *)
EXTENDS Integers, Sequences, SequencesExt, FiniteSetsExt, Absent

CONSTANTS RowHeight, Overscan, StickThreshold, TopThreshold,
          ViewHeights,    \* heights the viewer is measured at
          BodyHeights,    \* heights of an expansion, the least is the estimate
          RetainedLines,  \* the buffer's maxLines
          PageLines,      \* bound: lines in a page of history
          MaxBatch,       \* bound: lines that arrive at once
          MaxEarlier,     \* bound: lines before the first one loaded
          MaxSeq,         \* bound: the last line written
          MaxOpen,        \* bound: rows expanded at once
          MaxRestarts     \* bound: streams started again, but for following once more

ASSUME ViewerAssumption ==
  /\ {RowHeight, RetainedLines, PageLines} \subseteq Nat \ {0}
  /\ {Overscan, StickThreshold, TopThreshold, MaxBatch} \subseteq Nat
  /\ ViewHeights \subseteq Nat /\ BodyHeights \subseteq Nat /\ BodyHeights # {}
  /\ None \notin Int

VARIABLES held, view,
          earlier,   \* paging, as the viewer is told: "can", "loading" or "done"
          readerUp,  \* history: has the reader moved up since the view was last at the tail
          slipped    \* history: has holding the place taken a following view off the tail

viewerVars == <<held, view, earlier, readerUp, slipped>>

Empty(gen) == [first |-> 0, count |-> 0, gen |-> gen]

------------------------------------------------------------------------------
(* Geometry *)

\* Rows of the rendered log that are expanded, by index and in order: those
\* before row i, for every i.
Listed(v) ==
  LET listed[i \in 0..v.count] ==
        IF i = 0 THEN <<>>
        ELSE IF v.first + i - 1 \in DOMAIN v.expanded THEN Append(listed[i - 1], i - 1)
        ELSE listed[i - 1]
  IN  listed

expansions(v) == Listed(v)[v.count]

Body(v, index) == v.expanded[v.first + index]

\* Heights of the first k expansions, those of row index and below left out.
Above(v, index, es) ==
  LET above[k \in 0..Len(es)] ==
        IF k = 0 THEN 0
        ELSE IF es[k] >= index THEN above[k - 1] ELSE above[k - 1] + Body(v, es[k])
  IN  above

extraHeight(v) == LET es == expansions(v) IN Above(v, v.count, es)[Len(es)]
totalHeight(v) == v.count * RowHeight + extraHeight(v)

topOf(v, index) == LET es == expansions(v) IN index * RowHeight + Above(v, index, es)[Len(es)]

\* Mutant of indexAt: an expansion's own height is left out of its block.
indexAtRows(v, offset) ==
  LET Step(acc, e) ==
        LET blockTop == acc.top + (e - acc.index) * RowHeight
            blockBottom == blockTop + RowHeight
        IN IF acc.found # None THEN acc
           ELSE IF offset < blockTop THEN [acc EXCEPT !.found = acc.index + (offset - acc.top) \div RowHeight]
           ELSE IF offset < blockBottom THEN [acc EXCEPT !.found = e]
           ELSE [acc EXCEPT !.index = e + 1, !.top = blockBottom]
      end == FoldLeft(Step, [index |-> 0, top |-> 0, found |-> None], expansions(v))
  IN IF end.found # None THEN end.found ELSE end.index + (offset - end.top) \div RowHeight

\* One expansion of the walk: the offset is in the rows before its block, in the
\* block, or further down.
Past(v, offset, acc, e) ==
  LET blockTop == acc.top + (e - acc.index) * RowHeight
      blockBottom == blockTop + RowHeight + Body(v, e)
  IN IF acc.found # None THEN acc
     ELSE IF offset < blockTop THEN [acc EXCEPT !.found = acc.index + (offset - acc.top) \div RowHeight]
     ELSE IF offset < blockBottom THEN [acc EXCEPT !.found = e]
     ELSE [index |-> e + 1, top |-> blockBottom, found |-> None]

Walk(v, offset, es) ==
  LET walk[k \in 0..Len(es)] ==
        IF k = 0 THEN [index |-> 0, top |-> 0, found |-> None]
        ELSE Past(v, offset, walk[k - 1], es[k])
  IN  walk

\* The row drawn at an offset: expansions are passed one block at a time.
indexAt(v, offset) ==
  LET es == expansions(v)
      end == Walk(v, offset, es)[Len(es)]
  IN  IF end.found # None THEN end.found ELSE end.index + (offset - end.top) \div RowHeight

firstVisible(v) == Max({0, indexAt(v, v.scrollTop) - Overscan})
lastVisible(v) == Min({v.count - 1, indexAt(v, v.scrollTop + v.height) + Overscan})
Mounted(v) == firstVisible(v)..lastVisible(v)

------------------------------------------------------------------------------
(* The scroll box *)

scrollHeight(v) == Max({totalHeight(v), v.height})
MaxTop(v) == scrollHeight(v) - v.height

\* The browser keeps scrollTop in range and tells of every change later on.
ScrollTo(v, top) ==
  LET to == Max({0, Min({top, MaxTop(v)})})
  IN [v EXCEPT !.top = to, !.event = @ \/ to # v.top]

pinToBottom(v) == ScrollTo(v, scrollHeight(v))

------------------------------------------------------------------------------
(* Rendering *)

\* Mutant of HoldPlace: lines put in front push the reader's down.
HoldPlaceNot(v, shift) == v

\* The effect on firstSeq: what came to or left the front is scrolled over.
HoldPlace(v, shift) ==
  LET moved == ScrollTo(v, v.top + shift * RowHeight)
  IN IF shift = 0 THEN v ELSE [moved EXCEPT !.scrollTop = moved.top]

\* A commit: the box takes its new height and the browser keeps the position in
\* range, the place is held, and a view that follows is pinned to the tail.
Commit(v, log, changed) ==
  LET sized == [v EXCEPT !.first = log.first, !.count = log.count, !.gen = log.gen]
      placed == HoldPlace(ScrollTo(sized, v.top), v.first - log.first)
      pinned == pinToBottom(placed)
  IN IF v.follow /\ v.stick /\ (changed \/ totalHeight(placed) # totalHeight(view))
       THEN [pinned EXCEPT !.scrollTop = pinned.top] ELSE placed

------------------------------------------------------------------------------
(* The buffer and the stream *)

ViewerInit ==
  /\ held = Empty(0)
  /\ view \in [top : {0}, height : ViewHeights, event : {FALSE}, scrollTop : {0}, last : {0},
               hasScrolled : {FALSE}, stick : {TRUE}, expanded : {<<>>}, follow : {TRUE},
               first : {0}, count : {0}, gen : {0}, due : {FALSE}]
  /\ earlier = "can"
  /\ readerUp = FALSE
  /\ slipped = FALSE

\* append, and the eviction behind it; the frame that shows it is scheduled.
LinesArrive(n) ==
  LET count == held.count + n
      excess == Max({0, count - RetainedLines})
  IN /\ held.first + count - 1 <= MaxSeq
     /\ held' = [held EXCEPT !.first = @ + excess, !.count = count - excess]
     /\ view' = [view EXCEPT !.due = TRUE]
     /\ UNCHANGED <<earlier, readerUp>>

Frame ==
  /\ view.due
  /\ view' = Commit([view EXCEPT !.due = FALSE], held, TRUE)
  /\ UNCHANGED <<held, earlier, readerUp>>

\* A page comes back and is put in front, or there is none.
PageArrives(n) ==
  /\ earlier = "loading"
  /\ held.first - n >= -MaxEarlier
  /\ held' = [held EXCEPT !.first = @ - n, !.count = @ + n]
  /\ view' = Commit(view, held', n > 0)
  /\ earlier' = IF n > 0 THEN "can" ELSE "done"
  /\ UNCHANGED readerUp

\* Another log or the same one again: rendered once with the buffer as it is,
\* then the buffer starts over. Another log is paged from its own tail.
Restart(paging) ==
  /\ held.gen < MaxRestarts
  /\ view' = [Commit(view, held, TRUE) EXCEPT !.due = TRUE]
  /\ held' = Empty(held.gen + 1)
  /\ earlier' = paging
  /\ UNCHANGED readerUp

\* Follow is part of the request, so the stream starts over as well. What is
\* turned off within the bound can be turned on again.
ToggleFollow ==
  /\ held.gen < MaxRestarts \/ ~view.follow
  /\ LET v == Commit([view EXCEPT !.follow = ~@], held, TRUE)
     IN /\ view' = [v EXCEPT !.stick = @ \/ v.follow, !.due = TRUE]
        /\ readerUp' = (readerUp /\ ~v.follow)
  /\ held' = Empty(held.gen + 1)
  /\ UNCHANGED earlier

------------------------------------------------------------------------------
(* The reader and the window *)

ReaderScrolls(top) ==
  /\ top # view.top
  /\ view' = ScrollTo(view, top)
  /\ readerUp' = (readerUp \/ top < view.top)
  /\ UNCHANGED <<held, earlier>>

AtTail(v) == scrollHeight(v) - v.top - v.height <= StickThreshold

\* Near the end sticks; away from it only an upward movement detaches.
Sticks(v) == AtTail(v) \/ (v.stick /\ ~(v.top < v.last))

onScroll ==
  /\ view.event
  /\ LET scrolled == view.hasScrolled \/ view.top < view.last
         v == [view EXCEPT !.event = FALSE, !.last = view.top, !.scrollTop = view.top,
                           !.hasScrolled = scrolled, !.stick = Sticks(view)]
         asks == scrolled /\ v.top <= TopThreshold /\ earlier = "can" /\ held.count > 0
     IN /\ view' = IF v.scrollTop = view.scrollTop THEN v ELSE Commit(v, held, FALSE)
        /\ earlier' = IF asks THEN "loading" ELSE earlier
        /\ readerUp' = (readerUp /\ ~AtTail(v))
  /\ UNCHANGED held

\* Mutant of Resize: the new height is not followed by a pin.
ResizeUnpinned(height) ==
  /\ height # view.height
  /\ view' = Commit(ScrollTo([view EXCEPT !.height = height], view.top), held, FALSE)
  /\ UNCHANGED <<held, earlier, readerUp>>

\* measure: a new height, pinned whether or not the log is followed.
Resize(height) ==
  /\ height # view.height
  /\ LET sized == [view EXCEPT !.height = height]
         kept == ScrollTo(sized, view.top)
     IN view' = Commit(IF view.stick THEN pinToBottom(kept) ELSE kept, held, FALSE)
  /\ UNCHANGED <<held, earlier, readerUp>>

Shown == {view.first + i : i \in Mounted(view)}

Without(f, keys) == [k \in DOMAIN f \ keys |-> f[k]]
With(f, key, value) == [k \in DOMAIN f \cup {key} |-> IF k = key THEN value ELSE f[k]]

\* The toggle of a mounted row. Lines evicted since are forgotten, as the
\* callback knows the first line.
handleToggle(seq) ==
  /\ LET kept == Without(view.expanded, {k \in DOMAIN view.expanded : k < view.first})
         expanded == IF seq \in DOMAIN kept THEN Without(kept, {seq})
                     ELSE With(kept, seq, Min(BodyHeights))
     IN /\ Cardinality(DOMAIN expanded) <= MaxOpen
        /\ view' = Commit([view EXCEPT !.expanded = expanded], held, FALSE)
  /\ UNCHANGED <<held, earlier, readerUp>>

\* An expansion that is mounted reports its height, at first and when it changes.
handleMeasured(seq, height) ==
  /\ seq \in DOMAIN view.expanded /\ view.expanded[seq] # height
  /\ view' = Commit([view EXCEPT !.expanded[seq] = height], held, FALSE)
  /\ UNCHANGED <<held, earlier, readerUp>>

\* A commit that left a following view off the tail, until it is back: its place
\* was held, or it was not following before.
Slips ==
  /\ ~(AtTail(view') /\ view'.stick)
  /\ \/ slipped
     \/ view.follow /\ view'.stick /\ view'.first # view.first
     \/ view'.follow /\ ~view.follow

Step ==
  \/ \E n \in 1..MaxBatch : LinesArrive(n)
  \/ Frame
  \/ \E n \in 0..PageLines : PageArrives(n)
  \/ \E paging \in {earlier, "can"} : Restart(paging)
  \/ ToggleFollow
  \/ \E top \in 0..MaxTop(view) : ReaderScrolls(top)
  \/ onScroll
  \/ \E height \in ViewHeights : Resize(height)
  \/ \E seq \in Shown : handleToggle(seq) \/ \E h \in BodyHeights : handleMeasured(seq, h)

ViewerNext == Step /\ slipped' = Slips
ViewerSpec == ViewerInit /\ [][ViewerNext]_viewerVars

------------------------------------------------------------------------------
(* Properties *)

\* Where the rows begin, and the last one ends, counted row by row.
Tops(v) ==
  LET tops[i \in 0..v.count] ==
        IF i = 0 THEN 0
        ELSE tops[i - 1] + RowHeight
               + (IF v.first + i - 1 \in DOMAIN v.expanded THEN Body(v, i - 1) ELSE 0)
  IN  tops

RowStart(v, seq) == Tops(v)[seq - v.first]
RowEnd(v, seq) == Tops(v)[seq - v.first + 1]

\* Nothing in sight is missing: once the browser has told of the last change,
\* every row or expansion that reaches into the viewport is mounted, and at the
\* place where the rows above it end, whatever was evicted, put in front,
\* opened, measured or resized in between.
WindowCovered ==
  ~view.event =>
    \A seq \in view.first..(view.first + view.count - 1) :
      /\ topOf(view, seq - view.first) = RowStart(view, seq)
      /\ RowStart(view, seq) < view.top + view.height /\ RowEnd(view, seq) > view.top =>
           seq \in Shown

\* Following survives everything but the reader: the view shows the newest
\* rendered line and sticks to it until the reader has moved up; resizes,
\* expansions, pages, restarts and evictions do not detach it (LogViewer.tsx:588).
\* A render between the arrival of lines and their frame that evicts as many as it
\* adds holds the place and pins nothing, and following again pins nothing at
\* once; what still sticks is back at the tail with the next frame.
TailFollowed ==
  /\ (view.follow /\ ~readerUp /\ ~slipped /\ ~view.event) => (view.stick /\ AtTail(view))
  /\ (view.follow /\ view.stick /\ slipped) => view.due

\* "Keying the decision on direction cannot be tripped by our own adjustments"
\* (LogViewer.tsx:600): a view is detached only after the reader has
\* moved up.
OwnMovesHarmless == (view.follow /\ ~view.stick) => readerUp

TopSeq(v) == v.first + indexAt(v, v.top)

\* Where the box has to be scrolled to for the line under its top edge to stay there.
Place == RowStart(view', TopSeq(view)) - RowStart(view, TopSeq(view)) + view.top

\* The reader, not pinned to the tail, whose line is still there and can be
\* scrolled to after lines came to or left the front, none of them expanded.
Displaced ==
  /\ view'.first # view.first /\ view'.gen = view.gen
  /\ view'.expanded = view.expanded /\ view'.height = view.height
  /\ ~(view'.follow /\ view'.stick) /\ ~view.event
  /\ TopSeq(view) \in view'.first..(view'.first + view'.count - 1)
  /\ \A seq \in DOMAIN view.expanded : (seq >= view.first) <=> (seq >= view'.first)
  /\ Place \in 0..MaxTop(view')

\* The line under the top edge stays there when a page is put in front of it and
\* when lines before it are evicted, unless the log has become so short that the
\* browser has moved the box before the effect could.
PlaceKept == [][(Displaced /\ view.top <= MaxTop(view')) => view'.top = Place]_viewerVars

\* "Holds the reader's place when lines are added to (or dropped from) the
\* front" (LogViewer.tsx:646).
PlaceHeld == [][Displaced => view'.top = Place]_viewerVars

\* Every row in sight is drawn, and a reader who follows the log sees its end.
RowsInView == WindowCovered /\ TailFollowed
=============================================================================
