----------------------------- MODULE LogBuffer ------------------------------
(***************************************************************************)
(* The line index of plugins/logging/src/logs/buffer.ts: text in pages,    *)
(* lines as extents in three parallel arrays with free space in front,     *)
(* pages counted by the lines that use them.  The buffer is one record,    *)
(* its methods are operators on it.  Page numbers start at 1; array        *)
(* entries outside base..used-1 are never read and are kept blank here.    *)
(***************************************************************************)
EXTENDS Integers, Sequences, SequencesExt, FiniteSets

CONSTANTS Arriving,     \* text that append may be given
          Earlier,    \* text that prepend may be given
          MaxLines,   \* lines retained before the oldest are dropped
          PageSize,   \* a page is sealed at the first line boundary past it
          Capacity,   \* INITIAL_CAPACITY of the arrays
          NL, CR,     \* the newline and carriage return characters
          MaxText     \* bound: characters ever given to the buffer

\* append and prepend return at once when they are given no text, so texts have
\* characters.
ASSUME BufferAssumption ==
  /\ {MaxLines, PageSize, Capacity} \subseteq Nat \ {0} /\ MaxText \in Nat
  /\ NL # CR
  /\ \A text \in Arriving \cup Earlier : text # <<>> /\ text \in Seq(Range(text))

VARIABLES buf,    \* the LogBuffer
          given   \* characters given so far

bufferVars == <<buf, given>>

Free == [page |-> 1, start |-> 0, end |-> 0]

Fresh ==
  [pages |-> << <<>> >>, refs |-> <<0>>, tail |-> 1,
   slot |-> [i \in 0..(Capacity - 1) |-> Free],
   base |-> 0, used |-> 0, baseSeq |-> 0, lineStart |-> 0, scanFrom |-> 0]

-----------------------------------------------------------------------------
(* Reading.                                                                 *)

Size(b) == b.used - b.base
EndSeq(b) == b.baseSeq + Size(b)
ArrayLength(b) == Cardinality(DOMAIN b.slot)

\* A piece of text, offsets counted from 0 as in the code.
Slice(text, start, end) == SubSeq(text, start + 1, end)

Extent(b, i) == Slice(b.pages[b.slot[i].page], b.slot[i].start, b.slot[i].end)

\* lineAt of a retained line
LineAt(b, seq) == Extent(b, b.base + (seq - b.baseSeq))

-----------------------------------------------------------------------------
(* The private methods.                                                     *)

NewPage(b, text) ==
  [b EXCEPT !.pages = Append(@, text), !.refs = Append(@, 0)]

\* An end that leaves out a carriage return.
TrimmedEnd(text, start, end) ==
  IF end > start /\ text[end] = CR THEN end - 1 ELSE end

\* Mutant of CompactOrGrow: the front is reclaimed without moving the lines.
CompactInPlace(b) ==
  IF b.base > 0
    THEN [b EXCEPT !.used = @ - b.base, !.base = 0]
    ELSE [b EXCEPT !.slot = [i \in 0..(2 * ArrayLength(b) - 1) |->
                               IF i < ArrayLength(b) THEN b.slot[i] ELSE Free]]

\* compactOrGrow: move the lines to the front, or double the arrays.
CompactOrGrow(b) ==
  IF b.base > 0
    THEN [b EXCEPT !.slot = [i \in DOMAIN b.slot |->
                               IF i < Size(b) THEN b.slot[i + b.base] ELSE Free],
                   !.used = @ - b.base, !.base = 0]
    ELSE [b EXCEPT !.slot = [i \in 0..(2 * ArrayLength(b) - 1) |->
                               IF i < ArrayLength(b) THEN b.slot[i] ELSE Free]]

PushLine(b, page, start, end) ==
  LET r == IF b.used = ArrayLength(b) THEN CompactOrGrow(b) ELSE b
  IN  [r EXCEPT !.slot[r.used] = [page |-> page, start |-> start,
                                  end |-> TrimmedEnd(b.pages[page], start, end)],
                !.used = @ + 1,
                !.refs[page] = @ + 1]

\* reserveFront: room for count lines before base.
ReserveFront(b, count) ==
  LET gap == IF count > MaxLines \div 4 THEN count ELSE MaxLines \div 4
      need == gap + Size(b) + 1
      capacity == IF ArrayLength(b) > need THEN ArrayLength(b) ELSE need
  IN  IF b.base >= count THEN b
      ELSE [b EXCEPT !.slot = [i \in 0..(capacity - 1) |->
                                 IF i \in gap..(gap + Size(b) - 1)
                                   THEN b.slot[i - gap + b.base] ELSE Free],
                     !.base = gap, !.used = gap + Size(b)]

\* Mutant of Freed: the count is compared before it is taken down.
FreedLate(b, i) ==
  LET p == b.slot[i].page
  IN  [b EXCEPT !.refs[p] = @ - 1,
                !.pages[p] = IF b.refs[p] = 0 /\ p # b.tail THEN <<>> ELSE @]

\* The body of evict's loop: the line at i lets go of its page.
Freed(b, i) ==
  LET p == b.slot[i].page
      left == b.refs[p] - 1
  IN  [b EXCEPT !.refs[p] = left,
                !.pages[p] = IF left = 0 /\ p # b.tail THEN <<>> ELSE @]

\* The buffer after each round of the loop.
Freeing(b, excess) ==
  LET freed[k \in 0..excess] == IF k = 0 THEN b ELSE Freed(freed[k - 1], b.base + k - 1)
  IN  freed

Evict(b) ==
  LET excess == Size(b) - MaxLines
  IN  IF excess <= 0 THEN b
      ELSE [Freeing(b, excess)[excess] EXCEPT !.slot = [i \in DOMAIN @ |->
                                     IF i < b.base + excess THEN Free ELSE @[i]],
                         !.base = @ + excess, !.baseSeq = @ + excess]

-----------------------------------------------------------------------------
(* append, flushPartial, prepend, clear.                                    *)

\* append commits the line that ends at nl.
CommitLine(b, nl) ==
  [PushLine(b, b.tail, b.lineStart, nl) EXCEPT !.lineStart = nl + 1]

\* append's loop: the text of the tail page from scanFrom on.
Indexing(b, text) ==
  LET indexed[i \in b.scanFrom..Len(text)] ==
        IF i = b.scanFrom THEN [b EXCEPT !.pages[b.tail] = text]
        ELSE IF text[i] = NL THEN CommitLine(indexed[i - 1], i - 1) ELSE indexed[i - 1]
  IN  indexed

\* Mutant of Seal: a page is sealed as soon as it is full.
SealAnywhere(b) ==
  IF Len(b.pages[b.tail]) >= PageSize
    THEN [NewPage(b, <<>>) EXCEPT !.tail = Len(b.pages) + 1, !.lineStart = 0, !.scanFrom = 0]
    ELSE b

\* The tail page is full and ends with a line: the next page becomes the tail.
Seal(b) ==
  IF Len(b.pages[b.tail]) >= PageSize /\ b.lineStart = Len(b.pages[b.tail])
    THEN [NewPage(b, <<>>) EXCEPT !.tail = Len(b.pages) + 1, !.lineStart = 0, !.scanFrom = 0]
    ELSE b

Appended(b, chunk) ==
  LET text == b.pages[b.tail] \o chunk
  IN  Evict(Seal([Indexing(b, text)[Len(text)] EXCEPT !.scanFrom = Len(text)]))

Flushed(b) ==
  LET text == b.pages[b.tail]
  IN  IF b.lineStart < Len(text)
        THEN Evict([PushLine(b, b.tail, b.lineStart, Len(text)) EXCEPT !.lineStart = Len(text)])
        ELSE b

\* The extents prepend finds: what lies between newlines, unless it is empty.
Extended(scan, end) ==
  [from |-> end + 1,
   found |-> IF end > scan.from THEN Append(scan.found, [start |-> scan.from, end |-> end])
                                ELSE scan.found]

Scanning(text) ==
  LET scan[i \in 0..Len(text)] ==
        IF i = 0 THEN [from |-> 0, found |-> <<>>]
        ELSE IF text[i] = NL THEN Extended(scan[i - 1], i - 1) ELSE scan[i - 1]
  IN  scan

Extents(text) == Extended(Scanning(text)[Len(text)], Len(text)).found

Prepended(b, text) ==
  LET page == Len(b.pages) + 1
      found == Extents(text)
      count == Len(found)
      r == ReserveFront(NewPage(b, text), count)
      line(i) == [page |-> page, start |-> found[i].start,
                  end |-> TrimmedEnd(text, found[i].start, found[i].end)]
  IN  IF count = 0 THEN NewPage(b, text)
      ELSE [r EXCEPT !.slot = [i \in DOMAIN r.slot |->
                                 IF i \in (r.base - count)..(r.base - 1)
                                   THEN line(i - (r.base - count) + 1) ELSE r.slot[i]],
                     !.refs[page] = count,
                     !.base = @ - count,
                     !.baseSeq = @ - count]

\* clear() keeps the arrays as long as they have become.
\* The generation it counts up only tells a cache that numbers start again.
Cleared(b) == [Fresh EXCEPT !.slot = [i \in DOMAIN b.slot |-> Free]]

-----------------------------------------------------------------------------
BufferInit == buf = Fresh /\ given = 0

Takes(text) == given + Len(text) <= MaxText /\ given' = given + Len(text)

AppendChunk(chunk) == Takes(chunk) /\ buf' = Appended(buf, chunk)

FlushPartial == buf' = Flushed(buf) /\ UNCHANGED given

Prepend(text) == Takes(text) /\ buf' = Prepended(buf, text)

Clear == buf' = Cleared(buf) /\ UNCHANGED given

BufferNext ==
  \/ \E c \in Arriving : AppendChunk(c)
  \/ FlushPartial
  \/ \E t \in Earlier : Prepend(t)
  \/ Clear

BufferSpec == BufferInit /\ [][BufferNext]_bufferVars

-----------------------------------------------------------------------------
(* Properties.                                                              *)

\* The arrays, the counts and the offsets are in range, and no live line
\* reaches outside the text of its page.
InRange ==
  /\ DOMAIN buf.slot = 0..(ArrayLength(buf) - 1)
  /\ 0 <= buf.base /\ buf.base <= buf.used /\ buf.used <= ArrayLength(buf)
  /\ Len(buf.refs) = Len(buf.pages) /\ buf.tail \in DOMAIN buf.pages
  /\ buf.lineStart \in 0..Len(buf.pages[buf.tail])
  /\ buf.scanFrom = Len(buf.pages[buf.tail])
  /\ \A i \in buf.base..(buf.used - 1) :
       /\ buf.slot[i].page \in DOMAIN buf.pages
       /\ buf.slot[i].start <= buf.slot[i].end
       /\ buf.slot[i].end <= Len(buf.pages[buf.slot[i].page])

\* "Lines still referencing each page; a page is freed when this hits zero"
\* (buffer.ts:43): the counts are exact through prepends, compactions and
\* evictions in any order, and every unused page but the tail has given its
\* text back, except one that never held a line.
PagesCounted ==
  InRange /\ \A p \in DOMAIN buf.pages :
    /\ buf.refs[p] = Cardinality({i \in buf.base..(buf.used - 1) : buf.slot[i].page = p})
    /\ (buf.refs[p] = 0 /\ p # buf.tail) =>
         buf.pages[p] = <<>> \/ Extents(buf.pages[p]) = <<>>

\* The buffer behaves as a run of numbered lines (LogLines): no sealing,
\* compaction, reallocation, eviction or prepend changes, loses, repeats or
\* renumbers a retained line, and a line cut by chunk borders is put together.
Abstract == INSTANCE LogLines WITH
  lines <- [i \in 1..Size(buf) |-> Extent(buf, buf.base + i - 1)],
  first <- buf.baseSeq,
  partial <- Slice(buf.pages[buf.tail], buf.lineStart, Len(buf.pages[buf.tail]))

RefinesLines == Abstract!Spec
=============================================================================
