----------------------------- MODULE LogTabProofs -----------------------------
(***************************************************************************)
(* For any number of logs, lines, requests and pages, any page size, join  *)
(* slack and capacity of the buffer: what a log tab shows is one piece of  *)
(* the log it shows, the numbers of its lines stay, and its flags are      *)
(* those of the request shown.                                             *)
(***************************************************************************)
EXTENDS LogTab, SequenceTheorems, TLAPS

\* A request appends where the buffer ends: the request shown reads the log
\* shown, nothing is held before its response, and its next line follows the
\* last one held.
StreamInv ==
  /\ runs[cur].log = log
  /\ runs[cur].phase = "fetch" => torn \/ lines = <<>>
  /\ runs[cur].phase = "read" =>
       /\ runs[cur].next >= 1
       /\ torn \/ lines = <<>> \/ lines[Len(lines)][2] + 1 = runs[cur].next

\* Unless a page could not be placed, the lines held are consecutive lines of
\* the log shown.
PieceInv ==
  ~torn => \A i \in 1..Len(lines) : lines[i] = Line(log, lines[1][2] + i - 1)

\* A page is a segment of the log it was asked for, and a journal's page ends
\* with the line it was asked for.
PageInv ==
  page # None =>
    /\ page.anchor[2] \in 1..written[page.anchor[1]]
    /\ page.fetched # None =>
         \E to \in 0..written[page.log] : \E from \in 1..(to + 1) :
           /\ page.fetched = Segment(page.log, from, to)
           /\ (page.log \in Journals /\ page.anchor[1] = page.log) => to = page.anchor[2]

\* The state kept is that of the request shown, or of an earlier one while the
\* request shown has not been answered.
FlagsInv ==
  /\ state.key = cur => /\ state.loading <=> runs[cur].phase = "fetch"
                        /\ state.streaming <=> runs[cur].phase = "read"
  /\ state.key # cur => runs[cur].phase = "fetch"

TabInv == TypeOK /\ StreamInv /\ PieceInv /\ PageInv /\ FlagsInv

-----------------------------------------------------------------------------
(* Segments of a log, and joining them.                                     *)

\* The lines of log l from position i to j are j - i + 1 lines.
LEMMA SegmentIs ==
  ASSUME NEW l \in Logs, NEW i \in Nat \ {0}, NEW j \in Nat, i <= j + 1
  PROVE  /\ Segment(l, i, j) \in Seq(Logs \X Nat)
         /\ Len(Segment(l, i, j)) = j - i + 1
         /\ \A k \in 1..(j - i + 1) : Segment(l, i, j)[k] = <<l, i + k - 1>>
  <1> DEFINE n == j - i + 1
  <1>1. n \in Nat
    OBVIOUS
  <1>2. Segment(l, i, j) = [k \in 1..n |-> <<l, i + k - 1>>]
    BY DEF Segment, Line
  <1>3. \A k \in 1..n : <<l, i + k - 1>> \in Logs \X Nat
    OBVIOUS
  <1> HIDE DEF n
  <1>4. Segment(l, i, j) \in [1..n -> Logs \X Nat]
    BY <1>2, <1>3
  <1>5. Segment(l, i, j) \in Seq(Logs \X Nat) /\ Len(Segment(l, i, j)) = n
    BY <1>1, <1>4
  <1> QED
    BY <1>2, <1>5 DEF n

\* Where the tail of a log starts.
LEMMA TailStartIs ==
  ASSUME NEW last \in Nat, NEW n \in Nat
  PROVE  TailStart(last, n) \in 1..(last + 1)
  BY DEF TailStart

-----------------------------------------------------------------------------
(* The invariant, one lemma per group of steps.                             *)

\* A tab that has just been opened.
LEMMA TabStarts == Init => TabInv
  <1> SUFFICES ASSUME Init PROVE TabInv
    OBVIOUS
  <1> USE TabAssumption
  <1>1. log \in Logs /\ written \in [Logs -> Nat] /\ \A l \in Logs : written[l] <= MaxWritten[l]
    <2>1. \A l \in Logs : written[l] \in Nat /\ MaxWritten[l] \in Nat
      BY DEF Init
    <2>2. \A l \in Logs : written[l] <= IF l \in Tabbed(log) THEN MaxWritten[l] ELSE 0
      BY DEF Init
    <2>3. \A l \in Logs : written[l] <= MaxWritten[l]
      BY <2>1, <2>2
    <2>4. written \in [Logs -> UNION {0..MaxWritten[l] : l \in Logs}]
      BY DEF Init
    <2>5. written \in [Logs -> Nat]
      BY <2>1, <2>4
    <2> QED
      BY <2>3, <2>5 DEF Init
  <1>2. cur = 1 /\ runs = <<NewRun(log)>> /\ NewRun(log) \in RunType
    BY <1>1 DEF Init, NewRun, RunType
  <1>3. runs \in Seq(RunType) /\ Len(runs) = 1 /\ runs[1] = NewRun(log)
    BY <1>2
  <1>4. TypeOK
    <2>1. \A k \in 1..cur : runs[k].aborted <=> k # cur
      BY <1>2, <1>3 DEF NewRun
    <2>2. state \in [key : 1..cur, loading : BOOLEAN, streaming : BOOLEAN, error : BOOLEAN]
      BY <1>2 DEF Init, Pending
    <2>3. /\ paging \in [key : Logs, loading : BOOLEAN, canLoad : BOOLEAN, error : BOOLEAN]
          /\ page = None /\ ~paging.loading
      BY <1>1 DEF Init, FreshPaging
    <2>4. lines = <<>> /\ first \in Int /\ pages \in Nat \ {0} /\ torn = FALSE
      BY DEF Init
    <2>5. MaxRequests \in Nat \ {0}
      OBVIOUS
    <2>6. lines \in Seq(Logs \X Nat) /\ DOMAIN lines = {}
      BY <2>4
    <2>7. cur \in 1..MaxRequests
      BY <1>2, <2>5
    <2>8. Len(runs) = cur
      BY <1>2, <1>3
    <2>9. (page # None) <=> paging.loading
      BY <2>3
    <2> QED
      BY <1>1, <1>3, <2>1, <2>2, <2>3, <2>4, <2>6, <2>7, <2>8, <2>9 DEF TypeOK
  <1>5. StreamInv /\ PieceInv /\ PageInv
    BY <1>2, <1>3 DEF Init, StreamInv, PieceInv, PageInv, NewRun
  <1>6. FlagsInv
    BY <1>2, <1>3 DEF Init, FlagsInv, NewRun, Pending
  <1> QED
    BY <1>4, <1>5, <1>6 DEF TabInv

\* A line is written: positions of lines held and fetched stay in the log.
LEMMA WritePreserves ==
  ASSUME TabInv, NEW l \in Logs, Write(l)
  PROVE  TabInv'
  <1> USE TabAssumption
  <1>1. /\ written' = [written EXCEPT ![l] = @ + 1] /\ written[l] < MaxWritten[l]
        /\ UNCHANGED <<log, cur, runs, state, lines, first, page, paging, pages, torn>>
    BY DEF Write, streamVars, pageVars
  <1>2. /\ written' \in [Logs -> Nat] /\ \A m \in Logs : written'[m] <= MaxWritten[m]
        /\ \A m \in Logs : written[m] <= written'[m] /\ written[m] \in Nat
    BY <1>1, SMTT(30) DEF TabInv, TypeOK
  <1>3. \A i \in DOMAIN lines : lines[i][1] \in Logs /\ lines[i][2] \in Nat
    BY SMTT(30) DEF TabInv, TypeOK
  <1>4. \A i \in DOMAIN lines : lines[i][2] \in 1..written'[lines[i][1]]
    <2> TAKE i \in DOMAIN lines
    <2>1. lines[i][2] \in 1..written[lines[i][1]]
      BY DEF TabInv, TypeOK
    <2> QED
      BY <1>2, <1>3, <2>1
  <1>5. TypeOK'
    BY <1>1, <1>2, <1>4 DEF TabInv, TypeOK
  <1>6. StreamInv' /\ PieceInv' /\ FlagsInv'
    BY <1>1 DEF TabInv, StreamInv, PieceInv, FlagsInv
  <1>7. PageInv'
    <2> SUFFICES ASSUME page # None PROVE PageInv'
      BY <1>1 DEF PageInv
    <2>1. page.log \in Logs /\ page.anchor[1] \in Logs /\ page.anchor[2] \in Nat
      BY DEF TabInv, TypeOK, PageType
    <2>2. page.anchor[2] \in 1..written'[page.anchor[1]]
      BY <1>2, <2>1 DEF TabInv, PageInv
    <2>3. 0..written[page.log] \subseteq 0..written'[page.log]
      BY <1>2, <2>1
    <2> QED
      BY <1>1, <2>2, <2>3 DEF TabInv, PageInv
  <1> QED
    BY <1>5, <1>6, <1>7 DEF TabInv

\* A new request starts with an empty buffer, a request for the log shown, and
\* the state of its predecessor.
LEMMA NewRequestPreserves ==
  ASSUME TabInv, NEW l \in Logs, NewRequest(l), pages' \in Nat \ {0}
  PROVE  TabInv'
  <1> USE TabAssumption
  <1>1. /\ cur < MaxRequests /\ log' = l /\ cur' = cur + 1
        /\ runs' = Append([runs EXCEPT ![cur].aborted = TRUE], NewRun(l))
        /\ lines' = <<>> /\ first' = 0 /\ torn' = FALSE
        /\ UNCHANGED <<written, state, page, paging>>
    BY DEF NewRequest
  <1>2. /\ cur \in 1..MaxRequests /\ cur \in Nat /\ MaxRequests \in Nat
        /\ runs \in Seq(RunType) /\ Len(runs) = cur
    BY DEF TabInv, TypeOK
  <1> DEFINE old == [runs EXCEPT ![cur].aborted = TRUE]
  <1>3. runs[cur] \in RunType
    BY <1>2
  <1>4. [runs[cur] EXCEPT !.aborted = TRUE] \in RunType
    BY <1>3 DEF RunType
  <1>5. /\ old \in Seq(RunType) /\ Len(old) = cur
        /\ \A k \in 1..cur : old[k] = IF k = cur THEN [runs[k] EXCEPT !.aborted = TRUE] ELSE runs[k]
    <2> DEFINE r == [runs[cur] EXCEPT !.aborted = TRUE]
    <2>1. old = [runs EXCEPT ![cur] = r]
      OBVIOUS
    <2>2. r \in RunType /\ cur \in 1..Len(runs)
      BY <1>2, <1>4
    <2> HIDE DEF old, r
    <2>3. /\ old \in Seq(RunType) /\ Len(old) = cur
          /\ \A k \in 1..cur : old[k] = IF k = cur THEN r ELSE runs[k]
      BY <1>2, <2>1, <2>2, ExceptSeq
    <2> QED
      BY <2>3 DEF r
  <1>6. NewRun(l) \in RunType /\ NewRun(l).aborted = FALSE /\ NewRun(l).log = l
        /\ NewRun(l).phase = "fetch"
    BY DEF NewRun, RunType
  <1> HIDE DEF old
  <1>7. /\ runs' \in Seq(RunType) /\ Len(runs') = cur' /\ runs'[cur'] = NewRun(l)
        /\ \A k \in 1..cur : runs'[k] = old[k]
    BY <1>1, <1>2, <1>5, <1>6 DEF old
  <1>8. \A k \in 1..cur : old[k].aborted
    <2> TAKE k \in 1..cur
    <2>1. CASE k = cur
      BY <1>3, <1>5, <2>1 DEF RunType
    <2>2. CASE k # cur
      BY <1>5, <2>2 DEF TabInv, TypeOK
    <2> QED
      BY <2>1, <2>2
  <1>9. \A k \in 1..cur' : runs'[k].aborted <=> k # cur'
    BY <1>1, <1>2, <1>6, <1>7, <1>8
  <1>10. /\ state.key \in 1..cur
         /\ state' \in [key : 1..cur', loading : BOOLEAN, streaming : BOOLEAN, error : BOOLEAN]
    <2>1. 1..cur \subseteq 1..cur'
      BY <1>1, <1>2
    <2> QED
      BY <1>1, <2>1 DEF TabInv, TypeOK
  <1>11. TypeOK'
    <2>1. cur' \in 1..MaxRequests
      BY <1>1, <1>2
    <2>2. lines' \in Seq(Logs \X Nat) /\ first' \in Int /\ torn' = FALSE /\ DOMAIN lines' = {}
      BY <1>1
    <2>3. /\ written' \in [Logs -> Nat] /\ \A m \in Logs : written'[m] <= MaxWritten[m]
          /\ paging' \in [key : Logs, loading : BOOLEAN, canLoad : BOOLEAN, error : BOOLEAN]
          /\ page' \in PageType \union {None} /\ ((page' # None) <=> paging'.loading)
      BY <1>1 DEF TabInv, TypeOK
    <2> QED
      BY <1>1, <1>7, <1>9, <1>10, <2>1, <2>2, <2>3 DEF TypeOK
  <1>12. StreamInv' /\ PieceInv' /\ PageInv'
    BY <1>1, <1>6, <1>7, SMTT(30) DEF TabInv, StreamInv, PieceInv, PageInv
  <1>13. FlagsInv'
    BY <1>1, <1>2, <1>6, <1>7, <1>10 DEF FlagsInv
  <1> QED
    BY <1>11, <1>12, <1>13 DEF TabInv

-----------------------------------------------------------------------------
(* The steps of a request.                                                  *)

\* A step of one request leaves the others, its log and its aborted flag alone.
LEMMA RunStep ==
  ASSUME TypeOK, NEW k \in 1..cur, NEW r \in RunType, runs' = [runs EXCEPT ![k] = r],
         r.aborted = runs[k].aborted, cur' = cur
  PROVE  /\ runs' \in Seq(RunType) /\ Len(runs') = cur'
         /\ runs'[k] = r /\ \A j \in 1..cur : j # k => runs'[j] = runs[j]
         /\ \A j \in 1..cur' : runs'[j].aborted <=> j # cur'
  <1>1. runs \in Seq(RunType) /\ Len(runs) = cur /\ cur \in Nat
    BY TabAssumption DEF TypeOK
  <1>2. /\ runs' \in Seq(RunType) /\ Len(runs') = cur
        /\ \A j \in 1..cur : runs'[j] = IF j = k THEN r ELSE runs[j]
    BY <1>1, ExceptSeq
  <1>3. \A j \in 1..cur : runs'[j].aborted <=> j # cur
    BY <1>2 DEF TypeOK
  <1> QED
    BY <1>2, <1>3

\* What a request reports is a state.
LEMMA StateOfType ==
  ASSUME TypeOK, NEW k \in 1..cur
  PROVE  /\ StateOf(k) \in [key : 1..cur, loading : BOOLEAN, streaming : BOOLEAN, error : BOOLEAN]
         /\ StateOf(k).key = k
  BY DEF TypeOK, StateOf, Pending

\* The end of a request, whichever it is: only the one shown reports.
LEMMA FinishPreserves ==
  ASSUME TabInv, NEW k \in 1..cur, NEW failed \in BOOLEAN, Finish(k, failed),
         UNCHANGED <<written, log, cur, lines, first, page, paging, pages, torn>>
  PROVE  TabInv'
  <1> DEFINE r == [runs[k] EXCEPT !.phase = "done"]
             S == [key : 1..cur, loading : BOOLEAN, streaming : BOOLEAN, error : BOOLEAN]
             t == [StateOf(k) EXCEPT !.loading = FALSE, !.streaming = FALSE,
                                     !.error = @ \/ failed]
  <1>1. TypeOK /\ runs \in Seq(RunType) /\ Len(runs) = cur /\ cur \in 1..MaxRequests
    BY DEF TabInv, TypeOK
  <1>2. runs[k] \in RunType /\ runs[cur] \in RunType
    BY <1>1, TabAssumption
  <1>3. r \in RunType /\ r.aborted = runs[k].aborted /\ r.log = runs[k].log /\ r.phase = "done"
    BY <1>2 DEF RunType
  <1>4. runs' = [runs EXCEPT ![k] = r]
    BY DEF Finish
  <1> HIDE DEF r
  <1>5. /\ runs' \in Seq(RunType) /\ Len(runs') = cur'
        /\ runs'[k] = r /\ \A j \in 1..cur : j # k => runs'[j] = runs[j]
        /\ \A j \in 1..cur' : runs'[j].aborted <=> j # cur'
    BY <1>1, <1>3, <1>4, RunStep
  <1>6. t \in S /\ t.key = k /\ t.loading = FALSE /\ t.streaming = FALSE
    <2>1. StateOf(k) \in S /\ StateOf(k).key = k
      BY <1>1, StateOfType
    <2>2. StateOf(k).error \in BOOLEAN
      BY <2>1
    <2>3. (StateOf(k).error \/ failed) \in BOOLEAN
      BY <2>2
    <2> QED
      BY <2>1, <2>3
  <1>7. state' = IF runs[k].aborted THEN state ELSE t
    BY DEF Finish, Update
  <1> HIDE DEF t
  <1>8. state' \in S
    BY <1>1, <1>6, <1>7 DEF TypeOK
  <1>9. TypeOK'
    BY <1>1, <1>5, <1>8 DEF TypeOK
  <1>10. cur \in 1..cur /\ (k = cur \/ runs'[cur] = runs[cur])
    BY <1>1, <1>5, TabAssumption
  <1>11. StreamInv'
    BY <1>3, <1>5, <1>10 DEF TabInv, StreamInv
  <1>12. PieceInv' /\ PageInv'
    BY DEF TabInv, PieceInv, PageInv
  <1>13. FlagsInv'
    <2>1. CASE k = cur
      <3>1. ~runs[k].aborted
        BY <1>1, <2>1 DEF TypeOK
      <3> QED
        BY <1>3, <1>5, <1>6, <1>7, <2>1, <3>1 DEF FlagsInv
    <2>2. CASE k # cur
      <3>1. runs[k].aborted
        BY <1>1, <2>2 DEF TypeOK
      <3> QED
        BY <1>7, <1>10, <2>2, <3>1 DEF TabInv, FlagsInv
    <2> QED
      BY <2>1, <2>2
  <1> QED
    BY <1>9, <1>11, <1>12, <1>13 DEF TabInv

\* The first response of the request shown finds nothing held, or a torn buffer.
LEMMA RespondPreserves ==
  ASSUME TabInv, NEW k \in 1..cur, Respond(k)
  PROVE  TabInv'
  <1>1. /\ runs[k].phase = "fetch"
        /\ UNCHANGED <<written, log, cur, lines, first, page, paging, pages, torn>>
    BY DEF Respond, pageVars
  <1>2. CASE runs[k].aborted
    BY <1>1, <1>2, FinishPreserves DEF Respond
  <1>3. CASE ~runs[k].aborted
    <2> DEFINE l == runs[k].log
               from == TailStart(written[l], PageLines)
               to == IF l \in Journals THEN written[l] ELSE MaxWritten[l]
               r == [runs[k] EXCEPT !.phase = "read", !.next = from, !.last = to]
               S == [key : 1..cur, loading : BOOLEAN, streaming : BOOLEAN, error : BOOLEAN]
               t == [StateOf(k) EXCEPT !.loading = FALSE, !.streaming = TRUE]
    <2>1. TypeOK /\ runs \in Seq(RunType) /\ Len(runs) = cur /\ cur \in 1..MaxRequests
      BY DEF TabInv, TypeOK
    <2>2. k = cur
      BY <1>3, <2>1 DEF TypeOK
    <2>3. runs[k] \in RunType
      BY <2>1
    <2>4. l \in Logs /\ written[l] \in Nat /\ MaxWritten[l] \in Nat /\ PageLines \in Nat
      BY <2>1, <2>3, TabAssumption DEF TypeOK, RunType
    <2>5. from \in Nat /\ from >= 1 /\ to \in Nat
      <3>1. TailStart(written[l], PageLines) \in 1..(written[l] + 1)
        BY <2>4, TailStartIs
      <3> QED
        BY <2>4, <3>1
    <2>6. runs' = [runs EXCEPT ![k] = r] /\ state' = t
      BY <1>3 DEF Respond, Update
    <2> HIDE DEF from, to
    <2>7. /\ r \in RunType /\ r.aborted = runs[k].aborted /\ r.log = l
          /\ r.phase = "read" /\ r.next = from
      BY <2>3, <2>5 DEF RunType
    <2> HIDE DEF r
    <2>8. /\ runs' \in Seq(RunType) /\ Len(runs') = cur' /\ runs'[k] = r
          /\ \A j \in 1..cur' : runs'[j].aborted <=> j # cur'
      BY <1>1, <2>1, <2>6, <2>7, RunStep
    <2>9. t \in S /\ t.key = k /\ t.loading = FALSE /\ t.streaming = TRUE
      <3>1. StateOf(k) \in S /\ StateOf(k).key = k
        BY <2>1, StateOfType
      <3> QED
        BY <3>1
    <2> HIDE DEF t
    <2>10. TypeOK'
      BY <1>1, <2>1, <2>6, <2>8, <2>9 DEF TypeOK
    <2>11. StreamInv'
      BY <1>1, <2>2, <2>5, <2>7, <2>8 DEF TabInv, StreamInv
    <2>12. PieceInv' /\ PageInv'
      BY <1>1 DEF TabInv, PieceInv, PageInv
    <2>13. FlagsInv'
      BY <1>1, <2>2, <2>6, <2>7, <2>8, <2>9 DEF FlagsInv
    <2> QED
      BY <2>10, <2>11, <2>12, <2>13 DEF TabInv
  <1> QED
    BY <1>2, <1>3

\* What a buffer of consecutive lines keeps when a line that follows them is
\* appended and the oldest go.
LEMMA AppendKeeps ==
  ASSUME TypeOK, NEW line \in Logs \X Nat, AppendLine(line)
  PROVE  \E excess \in 0..Len(lines) :
             /\ first' = first + excess
             /\ lines' \in Seq(Logs \X Nat) /\ lines' # <<>>
             /\ Len(lines') = Len(lines) + 1 - excess
             /\ lines'[Len(lines')] = line
             /\ \A i \in 1..(Len(lines) - excess) : lines'[i] = lines[i + excess]
  <1> DEFINE all == Append(lines, line)
             excess == IF Len(all) > MaxLines THEN Len(all) - MaxLines ELSE 0
  <1>1. lines \in Seq(Logs \X Nat) /\ first \in Int /\ MaxLines \in Nat \ {0} /\ Len(lines) \in Nat
    BY TabAssumption DEF TypeOK
  <1>2. /\ all \in Seq(Logs \X Nat) /\ Len(all) = Len(lines) + 1 /\ all[Len(all)] = line
        /\ \A i \in 1..Len(lines) : all[i] = lines[i]
    BY <1>1
  <1>3. lines' = SubSeq(all, excess + 1, Len(all)) /\ first' = first + excess
    BY DEF AppendLine
  <1> HIDE DEF all
  <1>4. excess \in 0..Len(lines)
    BY <1>1, <1>2
  <1> HIDE DEF excess
  <1>5. /\ lines' \in Seq(Logs \X Nat) /\ Len(lines') = Len(lines) + 1 - excess
        /\ \A i \in 1..(Len(lines) + 1 - excess) : lines'[i] = all[i + excess]
    BY <1>1, <1>2, <1>3, <1>4
  <1>6. Len(lines') \in 1..(Len(lines) + 1 - excess) /\ Len(lines') + excess = Len(all)
    BY <1>1, <1>2, <1>4, <1>5
  <1>7. lines' # <<>> /\ lines'[Len(lines')] = line
    BY <1>2, <1>5, <1>6
  <1>8. \A i \in 1..(Len(lines) - excess) : lines'[i] = lines[i + excess]
    <2> TAKE i \in 1..(Len(lines) - excess)
    <2>1. i \in 1..(Len(lines) + 1 - excess) /\ i + excess \in 1..Len(lines)
      BY <1>1, <1>4
    <2> QED
      BY <1>2, <1>5, <2>1
  <1> QED
    BY <1>3, <1>4, <1>5, <1>7, <1>8

\* The request shown reads the line after the last one held.
LEMMA ReadLinePreserves ==
  ASSUME TabInv, NEW k \in 1..cur, ReadLine(k)
  PROVE  TabInv'
  <1>1. /\ runs[k].phase = "read" /\ HasMore(k)
        /\ UNCHANGED <<written, log, cur, page, paging, pages, torn>>
    BY DEF ReadLine, pageVars
  <1>2. CASE runs[k].aborted
    BY <1>1, <1>2, FinishPreserves DEF ReadLine
  <1>3. CASE ~runs[k].aborted
    <2> DEFINE l == runs[k].log
               next == runs[k].next
               line == Line(l, next)
               r == [runs[k] EXCEPT !.next = next + 1]
    <2>1. TypeOK /\ runs \in Seq(RunType) /\ Len(runs) = cur /\ cur \in 1..MaxRequests
      BY DEF TabInv, TypeOK
    <2>2. k = cur
      BY <1>3, <2>1 DEF TypeOK
    <2>3. runs[k] \in RunType
      BY <2>1
    <2>4. l \in Logs /\ next \in Nat /\ l = log /\ next >= 1 /\ next <= written[l]
      BY <1>1, <2>2, <2>3 DEF RunType, TabInv, StreamInv, HasMore
    <2>5. AppendLine(line) /\ runs' = [runs EXCEPT ![k] = r] /\ UNCHANGED state
      BY <1>3 DEF ReadLine
    <2>6. /\ r \in RunType /\ r.aborted = runs[k].aborted /\ r.log = l
          /\ r.phase = "read" /\ r.next = next + 1
      BY <1>1, <2>3, <2>4 DEF RunType
    <2> HIDE DEF r
    <2>7. /\ runs' \in Seq(RunType) /\ Len(runs') = cur' /\ runs'[k] = r
          /\ \A j \in 1..cur' : runs'[j].aborted <=> j # cur'
      BY <1>1, <2>1, <2>5, <2>6, RunStep
    <2>8. line = <<l, next>> /\ line \in Logs \X Nat
      BY <2>4 DEF Line
    <2> HIDE DEF line
    <2>9. PICK excess \in 0..Len(lines) :
            /\ first' = first + excess
            /\ lines' \in Seq(Logs \X Nat) /\ lines' # <<>>
            /\ Len(lines') = Len(lines) + 1 - excess
            /\ lines'[Len(lines')] = line
            /\ \A i \in 1..(Len(lines) - excess) : lines'[i] = lines[i + excess]
      BY <2>1, <2>5, <2>8, AppendKeeps
    <2>10. /\ lines \in Seq(Logs \X Nat) /\ Len(lines) \in Nat /\ excess \in 0..Len(lines)
           /\ Len(lines') = Len(lines) + 1 - excess /\ first' \in Int
           /\ DOMAIN lines = 1..Len(lines) /\ DOMAIN lines' = 1..Len(lines')
      BY <2>1, <2>9 DEF TypeOK
    <2>11. \A i \in DOMAIN lines' : lines'[i][2] \in 1..written[lines'[i][1]]
      <3> TAKE i \in DOMAIN lines'
      <3>1. i \in 1..(Len(lines) + 1 - excess)
        BY <2>10
      <3>2. CASE i = Len(lines) + 1 - excess
        <4>1. lines'[i] = <<l, next>>
          BY <2>8, <2>9, <3>2
        <4> QED
          BY <2>4, <4>1
      <3>3. CASE i # Len(lines) + 1 - excess
        <4>1. lines'[i] = lines[i + excess] /\ i + excess \in DOMAIN lines
          <5>1. i \in 1..(Len(lines) - excess) /\ i + excess \in 1..Len(lines)
            BY <2>10, <3>1, <3>3
          <5> QED
            BY <2>9, <2>10, <5>1
        <4> QED
          BY <2>1, <4>1 DEF TypeOK
      <3> QED
        BY <3>2, <3>3
    <2>12. TypeOK'
      BY <1>1, <2>1, <2>5, <2>7, <2>9, <2>10, <2>11 DEF TypeOK
    <2>13. StreamInv'
      <3>1. lines'[Len(lines')][2] = next
        BY <2>8, <2>9
      <3> QED
        BY <1>1, <2>2, <2>4, <2>6, <2>7, <3>1 DEF StreamInv
    <2>14. PieceInv'
      <3> SUFFICES ASSUME ~torn
                   PROVE  \A i \in 1..Len(lines') : lines'[i] = Line(log, lines'[1][2] + i - 1)
        BY <1>1 DEF PieceInv
      <3>1. CASE lines = <<>>
        <4>1. Len(lines) = 0 /\ Len(lines') = 1 /\ lines'[1] = <<log, next>>
          BY <2>4, <2>8, <2>9, <3>1
        <4> QED
          BY <2>4, <4>1 DEF Line
      <3>2. CASE lines # <<>>
        <4> DEFINE n == lines[1][2]
        <4>1. /\ n \in Nat /\ lines[1] = <<log, n>>
              /\ \A i \in 1..Len(lines) : lines[i] = <<log, n + i - 1>>
          <5>1. lines[1] \in Logs \X Nat /\ 1 \in 1..Len(lines)
            BY <2>10, <3>2
          <5>2. \A i \in 1..Len(lines) : lines[i] = <<log, n + i - 1>>
            BY DEF TabInv, PieceInv, Line
          <5>3. lines[1] = <<log, n + 1 - 1>> /\ n \in Nat
            BY <5>1, <5>2
          <5> QED
            BY <5>2, <5>3
        <4>2. next = n + Len(lines)
          <5>1. lines[Len(lines)][2] + 1 = next
            BY <1>1, <2>2, <3>2 DEF TabInv, StreamInv
          <5>2. Len(lines) \in 1..Len(lines)
            BY <2>10, <3>2
          <5>3. lines[Len(lines)] = <<log, n + Len(lines) - 1>>
            BY <4>1, <5>2
          <5> QED
            BY <2>10, <4>1, <5>1, <5>3
        <4> HIDE DEF n
        <4>3. \A i \in 1..Len(lines') : lines'[i] = <<log, n + excess + i - 1>>
          <5> TAKE i \in 1..Len(lines')
          <5>1. CASE i = Len(lines) + 1 - excess
            BY <2>4, <2>8, <2>9, <2>10, <4>1, <4>2, <5>1
          <5>2. CASE i # Len(lines) + 1 - excess
            <6>1. i \in 1..(Len(lines) - excess) /\ i + excess \in 1..Len(lines)
              BY <2>10, <5>2
            <6>2. lines'[i] = lines[i + excess]
              BY <2>9, <6>1
            <6>3. n + (i + excess) - 1 = n + excess + i - 1
              BY <2>10, <4>1
            <6> QED
              BY <4>1, <6>1, <6>2, <6>3
          <5> QED
            BY <5>1, <5>2
        <4>4. 1 \in 1..Len(lines')
          BY <2>10
        <4>5. lines'[1][2] = n + excess
          <5>1. lines'[1] = <<log, n + excess + 1 - 1>>
            BY <4>3, <4>4
          <5> QED
            BY <2>10, <4>1, <5>1
        <4> QED
          BY <4>3, <4>5 DEF Line
      <3> QED
        BY <3>1, <3>2
    <2>15. PageInv'
      BY <1>1 DEF TabInv, PageInv
    <2>16. FlagsInv'
      BY <1>1, <2>2, <2>5, <2>6, <2>7 DEF TabInv, FlagsInv
    <2> QED
      BY <2>12, <2>13, <2>14, <2>15, <2>16 DEF TabInv
  <1> QED
    BY <1>2, <1>3

-----------------------------------------------------------------------------
(* The steps of a page.                                                     *)

PagingType == [key : Logs, loading : BOOLEAN, canLoad : BOOLEAN, error : BOOLEAN]

\* A page asked for is one before the oldest line held.
LEMMA LoadEarlierPreserves ==
  ASSUME TabInv, LoadEarlier
  PROVE  TabInv'
  <1> DEFINE q == [log |-> log, held |-> Len(lines), size |-> pages + 1,
                   anchor |-> lines[1], fetched |-> None]
  <1>1. /\ page' = q /\ lines # <<>>
        /\ paging' = [Paging EXCEPT !.loading = TRUE, !.error = FALSE]
        /\ UNCHANGED <<written, log, cur, runs, state, lines, first, pages, torn>>
    BY DEF LoadEarlier, CanLoad, streamVars
  <1>2. TypeOK
    BY DEF TabInv
  <1>3. 1 \in DOMAIN lines /\ lines[1] \in Logs \X Nat /\ Len(lines) \in Nat
    BY <1>1, <1>2 DEF TypeOK
  <1>4. q \in PageType /\ q.fetched = None /\ q.anchor = lines[1] /\ q # None
    <2>1. log \in Logs /\ pages + 1 \in Nat \ {0}
      BY <1>2 DEF TypeOK
    <2>2. q \in PageType
      BY <1>3, <2>1 DEF PageType
    <2> QED
      BY <2>2, TabAssumption
  <1> HIDE DEF q
  <1>5. paging' \in PagingType /\ paging'.loading = TRUE
    <2>1. Paging \in PagingType
      BY <1>2 DEF TypeOK, Paging, FreshPaging, PagingType
    <2> QED
      BY <1>1, <2>1 DEF PagingType
  <1>6. TypeOK'
    BY <1>1, <1>2, <1>4, <1>5 DEF TypeOK, PagingType
  <1>7. StreamInv' /\ PieceInv' /\ FlagsInv'
    BY <1>1 DEF TabInv, StreamInv, PieceInv, FlagsInv
  <1>8. PageInv'
    BY <1>1, <1>2, <1>3, <1>4 DEF PageInv, TypeOK
  <1> QED
    BY <1>6, <1>7, <1>8 DEF TabInv

\* The server returns a segment of the log the page is for.
LEMMA ServePagePreserves ==
  ASSUME TabInv, ServePage
  PROVE  TabInv'
  <1>1. /\ page # None /\ page.fetched = None
        /\ UNCHANGED <<written, log, cur, runs, state, lines, first, paging, pages, torn>>
    BY DEF ServePage, streamVars
  <1> DEFINE size == IF page.log \in Journals THEN PageLines ELSE PageLines * page.size
  <1>2. PICK to \in (IF page.log \in Journals THEN PageEnds ELSE {written[page.log]}) :
          page' = [page EXCEPT !.fetched = Segment(page.log, TailStart(to, size), to)]
    BY DEF ServePage
  <1>3. /\ page \in PageType /\ page.log \in Logs /\ page.anchor[1] \in Logs
        /\ page.size \in Nat /\ PageLines \in Nat /\ written[page.log] \in Nat
        /\ page.anchor \in Logs \X Nat
    BY <1>1, TabAssumption DEF TabInv, TypeOK, PageType
  <1>4. size \in Nat
    BY <1>3
  <1>5. page.anchor[2] \in 1..written[page.anchor[1]]
    BY <1>1 DEF TabInv, PageInv
  <1>6. /\ to \in 0..written[page.log]
        /\ (page.log \in Journals /\ page.anchor[1] = page.log) => to = page.anchor[2]
    BY <1>2, <1>3, <1>5 DEF PageEnds
  <1> HIDE DEF size
  <1> DEFINE from == TailStart(to, size)
             seg == Segment(page.log, from, to)
  <1>7. from \in 1..(to + 1) /\ to \in Nat /\ from \in Nat \ {0} /\ from <= to + 1
    <2>1. to \in Nat
      BY <1>3, <1>6
    <2>2. TailStart(to, size) \in 1..(to + 1)
      BY <1>4, <2>1, TailStartIs
    <2> QED
      BY <2>1, <2>2
  <1> HIDE DEF from
  <1>8. seg \in Seq(Logs \X Nat)
    BY <1>3, <1>7, SegmentIs
  <1>9. page' = [page EXCEPT !.fetched = seg]
    BY <1>2 DEF from
  <1> HIDE DEF seg
  <1>10. /\ page' \in PageType /\ page' # None /\ page'.fetched = seg
         /\ page'.log = page.log /\ page'.anchor = page.anchor
    BY <1>3, <1>8, <1>9, TabAssumption DEF PageType
  <1>11. TypeOK'
    BY <1>1, <1>10 DEF TabInv, TypeOK
  <1>12. StreamInv' /\ PieceInv' /\ FlagsInv'
    BY <1>1 DEF TabInv, StreamInv, PieceInv, FlagsInv
  <1>13. PageInv'
    BY <1>1, <1>5, <1>6, <1>7, <1>10 DEF PageInv, seg
  <1> QED
    BY <1>11, <1>12, <1>13 DEF TabInv

\* What the tab makes of the answer.
LEMMA UpdatePagingType ==
  ASSUME TypeOK, page # None, NEW canLoad \in BOOLEAN, NEW failed \in BOOLEAN,
         UpdatePaging(canLoad, failed)
  PROVE  paging' \in PagingType /\ paging'.loading = FALSE
  <1> DEFINE q == IF paging.key = page.log THEN paging ELSE FreshPaging(page.log)
  <1>1. page.log \in Logs
    BY DEF TypeOK, PageType
  <1>2. q \in PagingType
    BY <1>1 DEF TypeOK, FreshPaging, PagingType
  <1>3. paging' = [q EXCEPT !.loading = FALSE, !.canLoad = @ /\ canLoad, !.error = @ \/ failed]
    BY DEF UpdatePaging
  <1> HIDE DEF q
  <1>4. (q.canLoad /\ canLoad) \in BOOLEAN /\ (q.error \/ failed) \in BOOLEAN
    OBVIOUS
  <1> QED
    BY <1>2, <1>3, <1>4 DEF PagingType

\* A page that fails leaves the buffer alone.
LEMMA PageFailsPreserves ==
  ASSUME TabInv, PageFails
  PROVE  TabInv'
  <1>1. /\ page # None /\ page' = None /\ UpdatePaging(FALSE, TRUE)
        /\ UNCHANGED <<written, log, cur, runs, state, lines, first, pages, torn>>
    BY DEF PageFails, streamVars
  <1>2. TypeOK
    BY DEF TabInv
  <1>3. paging' \in PagingType /\ paging'.loading = FALSE
    BY <1>1, <1>2, UpdatePagingType
  <1>4. TypeOK'
    BY <1>1, <1>2, <1>3 DEF TypeOK, PagingType
  <1>5. StreamInv' /\ PieceInv' /\ FlagsInv' /\ PageInv'
    BY <1>1 DEF TabInv, StreamInv, PieceInv, FlagsInv, PageInv
  <1> QED
    BY <1>4, <1>5 DEF TabInv

\* The lines a page puts in front.
Earlier ==
  IF page.log \in Journals
    THEN EarlierJournalLines(page.fetched, page.anchor)
    ELSE EarlierPodLines(page.fetched, FirstLine, page.held)

\* They are the start of a segment of the page's log, and unless the page is
\* misplaced that start ends right before the first line held.
LEMMA EarlierIs ==
  ASSUME TabInv, PageReady
  PROVE  \E to \in 0..written[page.log], from \in Nat \ {0}, n \in Nat :
           /\ from + n <= to + 1
           /\ Earlier \in Seq(Logs \X Nat) /\ Len(Earlier) = n
           /\ \A k \in 1..n : Earlier[k] = <<page.log, from + k - 1>>
           /\ (n # 0 /\ ~Misplaced) => lines # <<>> /\ lines[1] = <<page.log, from + n>>
  <1> DEFINE l == page.log
             f == page.fetched
             a == page.anchor
  <1>1. TypeOK /\ page # None /\ f # None
    BY DEF TabInv, PageReady
  <1>2. page \in PageType
    BY <1>1 DEF TypeOK
  <1>3. /\ l \in Logs /\ a \in Logs \X Nat /\ page.held \in Nat /\ f \in Seq(Logs \X Nat)
        /\ written[l] \in Nat
    BY <1>1, <1>2 DEF PageType, TypeOK
  <1>4. PICK to \in 0..written[l] : \E from \in 1..(to + 1) :
          /\ f = Segment(l, from, to)
          /\ (l \in Journals /\ a[1] = l) => to = a[2]
    BY <1>1 DEF TabInv, PageInv
  <1>5. PICK from \in 1..(to + 1) :
          /\ f = Segment(l, from, to)
          /\ (l \in Journals /\ a[1] = l) => to = a[2]
    BY <1>4
  <1> HIDE DEF l, f, a
  <1>6. to \in Nat /\ from \in Nat \ {0} /\ from <= to + 1 /\ to - from + 1 \in Nat
    BY <1>3
  <1>7. Len(f) = to - from + 1 /\ \A k \in 1..(to - from + 1) : f[k] = <<l, from + k - 1>>
    <2>1. f = Segment(l, from, to)
      BY <1>5
    <2>2. /\ Len(Segment(l, from, to)) = to - from + 1
          /\ \A k \in 1..(to - from + 1) : Segment(l, from, to)[k] = <<l, from + k - 1>>
      BY <1>3, <1>6, SegmentIs, ZenonT(30)
    <2> QED
      BY <2>1, <2>2, Zenon
  <1>8. DOMAIN f = 1..Len(f) /\ Len(f) \in Nat
    BY <1>3
  <1>9. SUFFICES \E n \in 0..Len(f) :
          /\ Earlier = SubSeq(f, 1, n)
          /\ (n # 0 /\ ~Misplaced) => lines # <<>> /\ lines[1] = <<l, from + n>>
    <2>1. PICK n \in 0..Len(f) :
            /\ Earlier = SubSeq(f, 1, n)
            /\ (n # 0 /\ ~Misplaced) => lines # <<>> /\ lines[1] = <<l, from + n>>
      BY <1>9
    <2>2. n \in Nat /\ n \in 0..(to - from + 1) /\ from + n <= to + 1
      BY <1>6, <1>7
    <2>3. SubSeq(f, 1, n) \in Seq(Logs \X Nat) /\ Len(SubSeq(f, 1, n)) = n
      BY <1>3, <1>8, <2>2
    <2>4. \A k \in 1..n : k \in 1..(to - from + 1) /\ SubSeq(f, 1, n)[k] = f[k]
      BY <1>3, <1>7, <1>8, <2>2
    <2>5. /\ Earlier \in Seq(Logs \X Nat) /\ Len(Earlier) = n
          /\ \A k \in 1..n : Earlier[k] = <<l, from + k - 1>>
      BY <1>7, <2>1, <2>3, <2>4
    <2> QED
      BY <1>6, <2>1, <2>2, <2>5 DEF l
  <1>10. FirstLine # None => lines # <<>> /\ lines[1] = FirstLine
    BY DEF FirstLine
  <1>11. None \notin Logs \X Nat
    BY TabAssumption
  <1>12. CASE l \in Journals
    <2> DEFINE at == {i \in DOMAIN f : f[i] = a}
    <2>1. Earlier = IF at = {} THEN f ELSE RemoveAt(f, CHOOSE i \in at : TRUE)
      BY <1>12 DEF Earlier, EarlierJournalLines, l, f, a
    <2>2. ~Misplaced => FirstLine = a /\ a[1] = l
      BY <1>12 DEF Misplaced, l, a
    <2>3. a = <<a[1], a[2]>>
      BY <1>3
    <2>4. CASE at = {}
      <3>1. Earlier = SubSeq(f, 1, Len(f))
        BY <1>3, <2>1, <2>4
      <3>2. Len(f) # 0 => Misplaced
        <4> SUFFICES ASSUME Len(f) # 0, ~Misplaced PROVE FALSE
          OBVIOUS
        <4>1. a = <<l, to>>
          BY <1>5, <1>12, <2>2, <2>3
        <4>2. Len(f) \in 1..(to - from + 1) /\ from + Len(f) - 1 = to
          BY <1>6, <1>7, <1>8
        <4>3. f[Len(f)] = <<l, to>> /\ Len(f) \in DOMAIN f
          BY <1>7, <1>8, <4>2
        <4> QED
          BY <2>4, <4>1, <4>3
      <3>3. Len(f) \in 0..Len(f)
        BY <1>8
      <3> QED
        BY <3>1, <3>2, <3>3
    <2>5. CASE at # {}
      <3> DEFINE i == CHOOSE i \in at : TRUE
      <3>1. i \in at
        BY <2>5
      <3>2. Earlier = RemoveAt(f, i)
        BY <2>1, <2>5
      <3> HIDE DEF i
      <3>3. i \in 1..Len(f) /\ i \in 1..(to - from + 1) /\ a = <<l, from + i - 1>>
        BY <1>7, <1>8, <3>1
      <3>4. to = from + i - 1
        BY <1>5, <1>12, <3>3
      <3>5. i = Len(f)
        BY <1>6, <1>7, <3>3, <3>4
      <3>6. Earlier = SubSeq(f, 1, i - 1) \o SubSeq(f, i + 1, Len(f))
        BY <3>2 DEF RemoveAt
      <3>7. SubSeq(f, i + 1, Len(f)) = <<>>
        BY <1>3, <1>8, <3>5
      <3>8. SubSeq(f, 1, i - 1) \in Seq(Logs \X Nat)
        BY <1>3, <3>3
      <3>9. Earlier = SubSeq(f, 1, i - 1)
        BY <3>6, <3>7, <3>8, ConcatEmptySeq
      <3>10. i - 1 \in 0..Len(f) /\ from + (i - 1) = from + i - 1
        BY <1>6, <1>8, <3>3
      <3>11. ~Misplaced => lines # <<>> /\ lines[1] = <<l, from + (i - 1)>>
        <4> SUFFICES ASSUME ~Misplaced PROVE lines # <<>> /\ lines[1] = <<l, from + (i - 1)>>
          OBVIOUS
        <4>1. FirstLine = a /\ a # None
          BY <1>3, <1>11, <2>2
        <4> QED
          BY <1>10, <3>3, <3>10, <4>1
      <3> QED
        BY <3>9, <3>10, <3>11
    <2> QED
      BY <2>4, <2>5
  <1>13. CASE l \notin Journals
    <2> DEFINE e == Expected(f, page.held)
               found == Matches(f, FirstLine, e)
               n == IF found = {} THEN e ELSE CHOOSE i \in found : TRUE
    <2>1. Earlier = SubSeq(f, 1, n)
      BY <1>13 DEF Earlier, EarlierPodLines, l, f
    <2>2. Misplaced <=> found = {}
      BY <1>13 DEF Misplaced, l, f
    <2>3. e \in 0..Len(f)
      BY <1>3, <1>8 DEF Expected
    <2>4. found # {} => n \in 0..(Len(f) - 1) /\ f[n + 1] = FirstLine
      BY DEF Matches
    <2>5. found = {} => n = e
      OBVIOUS
    <2> HIDE DEF n, found, e
    <2>6. n \in 0..Len(f)
      BY <1>8, <2>3, <2>4, <2>5
    <2>7. ~Misplaced => lines # <<>> /\ lines[1] = <<l, from + n>>
      <3> SUFFICES ASSUME ~Misplaced PROVE lines # <<>> /\ lines[1] = <<l, from + n>>
        OBVIOUS
      <3>1. n \in 0..(Len(f) - 1) /\ f[n + 1] = FirstLine
        BY <2>2, <2>4
      <3>2. n + 1 \in 1..(to - from + 1) /\ from + (n + 1) - 1 = from + n /\ from + n \in Nat
        BY <1>6, <1>7, <3>1
      <3>3. FirstLine = <<l, from + n>>
        BY <1>7, <3>1, <3>2
      <3>4. FirstLine # None
        BY <1>3, <1>11, <3>2, <3>3
      <3> QED
        BY <1>10, <3>3, <3>4
    <2> QED
      BY <2>1, <2>6, <2>7
  <1> QED
    BY <1>12, <1>13

\* A page put in front of the line it was fetched for continues the piece
\* downwards; any other page tears the buffer.
LEMMA PageArrivesPreserves ==
  ASSUME TabInv, PageArrives
  PROVE  TabInv'
  <1>1. /\ PageReady /\ lines' = Earlier \o lines /\ first' = first - Len(Earlier)
        /\ pages' = IF Earlier # <<>> /\ page.log \notin Journals THEN page.size ELSE pages
        /\ UpdatePaging(Earlier # <<>>, FALSE)
        /\ torn' = (torn \/ (Earlier # <<>> /\ Misplaced))
        /\ page' = None
        /\ UNCHANGED <<written, log, cur, runs, state>>
    BY DEF PageArrives, Earlier, streamVars
  <1>2. TypeOK /\ page # None
    BY <1>1 DEF TabInv, PageReady
  <1>3. /\ lines \in Seq(Logs \X Nat) /\ Len(lines) \in Nat /\ DOMAIN lines = 1..Len(lines)
        /\ first \in Int /\ page.log \in Logs /\ page \in PageType
    BY <1>2 DEF TypeOK, PageType
  <1>4. PICK to \in 0..written[page.log], from \in Nat \ {0}, n \in Nat :
          /\ from + n <= to + 1
          /\ Earlier \in Seq(Logs \X Nat) /\ Len(Earlier) = n
          /\ \A k \in 1..n : Earlier[k] = <<page.log, from + k - 1>>
          /\ (n # 0 /\ ~Misplaced) => lines # <<>> /\ lines[1] = <<page.log, from + n>>
    BY <1>1, EarlierIs
  <1>5. n \in Nat /\ from \in Nat \ {0} /\ from + n <= to + 1 /\ to \in 0..written[page.log]
        /\ written[page.log] \in Nat
    BY <1>2, <1>3, <1>4 DEF TypeOK
  <1>6. (n = 0) <=> (Earlier = <<>>)
    BY <1>4
  <1>7. /\ lines' \in Seq(Logs \X Nat) /\ Len(lines') = n + Len(lines)
        /\ DOMAIN lines' = 1..(n + Len(lines))
        /\ \A i \in 1..n : lines'[i] = Earlier[i]
        /\ \A i \in (n + 1)..(n + Len(lines)) : lines'[i] = lines[i - n]
    <2> DEFINE e == Earlier
    <2>1. e \in Seq(Logs \X Nat) /\ Len(e) = n
      BY <1>4
    <2> HIDE DEF e
    <2>2. /\ e \o lines \in Seq(Logs \X Nat)
          /\ Len(e \o lines) = Len(e) + Len(lines)
          /\ \A i \in 1..(Len(e) + Len(lines)) :
               (e \o lines)[i] = IF i <= Len(e) THEN e[i] ELSE lines[i - Len(e)]
      BY <1>3, <2>1, ConcatProperties
    <2>3. /\ \A i \in 1..n : i \in 1..(n + Len(lines)) /\ i <= n
          /\ \A i \in (n + 1)..(n + Len(lines)) : i \in 1..(n + Len(lines)) /\ ~(i <= n)
      BY <1>3, <1>5
    <2>4. lines' = e \o lines
      BY <1>1 DEF e
    <2>5. /\ lines' \in Seq(Logs \X Nat) /\ Len(lines') = n + Len(lines)
          /\ \A i \in 1..(n + Len(lines)) : lines'[i] = IF i <= n THEN e[i] ELSE lines[i - n]
      BY <2>1, <2>2, <2>4
    <2> QED
      BY <2>3, <2>5 DEF e
  <1>8. TypeOK'
    <2>1. \A i \in DOMAIN lines' : lines'[i][2] \in 1..written[lines'[i][1]]
      <3> TAKE i \in DOMAIN lines'
      <3>1. CASE i \in 1..n
        <4>1. lines'[i] = <<page.log, from + i - 1>>
          BY <1>4, <1>7, <3>1
        <4>2. from + i - 1 \in 1..written[page.log]
          BY <1>5, <3>1
        <4> QED
          BY <4>1, <4>2
      <3>2. CASE i \notin 1..n
        <4>1. i \in (n + 1)..(n + Len(lines)) /\ i - n \in DOMAIN lines
          BY <1>3, <1>5, <1>7, <3>2
        <4>2. lines'[i] = lines[i - n]
          BY <1>7, <4>1
        <4> QED
          BY <1>2, <4>1, <4>2 DEF TypeOK
      <3> QED
        BY <3>1, <3>2
    <2>2. paging' \in PagingType /\ paging'.loading = FALSE
      <3>1. (Earlier # <<>>) \in BOOLEAN
        OBVIOUS
      <3> QED
        BY <1>1, <1>2, <3>1, UpdatePagingType
    <2>3. pages' \in Nat \ {0} /\ first' \in Int
      BY <1>1, <1>2, <1>3, <1>4, <1>5 DEF TypeOK, PageType
    <2>4. torn' \in BOOLEAN
      BY <1>1, <1>2 DEF TypeOK
    <2> QED
      BY <1>1, <1>2, <1>7, <2>1, <2>2, <2>3, <2>4 DEF TypeOK, PagingType
  <1>9. CASE torn'
    <2>1. StreamInv'
      BY <1>1, <1>9 DEF TabInv, StreamInv
    <2>2. PieceInv' /\ PageInv'
      BY <1>1, <1>9 DEF PieceInv, PageInv
    <2>3. FlagsInv'
      BY <1>1 DEF TabInv, FlagsInv
    <2> QED
      BY <1>8, <2>1, <2>2, <2>3 DEF TabInv
  <1>10. CASE ~torn'
    <2>1. ~torn /\ (n # 0 => lines # <<>> /\ lines[1] = <<page.log, from + n>>)
      BY <1>1, <1>4, <1>6, <1>10
    <2>2. lines = <<>> => lines' = <<>>
      BY <1>3, <1>7, <2>1
    <2>3. lines # <<>> => lines'[Len(lines')] = lines[Len(lines)]
      <3> SUFFICES ASSUME lines # <<>> PROVE lines'[Len(lines')] = lines[Len(lines)]
        OBVIOUS
      <3>1. n + Len(lines) \in (n + 1)..(n + Len(lines)) /\ n + Len(lines) - n = Len(lines)
        BY <1>3, <1>5
      <3>2. \A i : i \in (n + 1)..(n + Len(lines)) => lines'[i] = lines[i - n]
        BY <1>7, Zenon
      <3>3. lines'[n + Len(lines)] = lines[n + Len(lines) - n]
        BY <3>1, <3>2
      <3> QED
        BY <1>7, <3>1, <3>3
    <2>4. StreamInv'
      BY <1>1, <2>1, <2>2, <2>3 DEF TabInv, StreamInv
    <2>5. PieceInv'
      <3>1. CASE n = 0
        <4>1. lines' = lines
          BY <1>1, <1>3, <1>6, <3>1
        <4> QED
          BY <1>1, <2>1, <4>1 DEF TabInv, PieceInv
      <3>2. CASE n # 0
        <4>1. lines # <<>> /\ lines[1] = <<page.log, from + n>> /\ 1 \in 1..Len(lines)
          BY <1>3, <2>1, <3>2
        <4>2. /\ \A i \in 1..Len(lines) : lines[i] = <<log, lines[1][2] + i - 1>>
              /\ lines[1][2] = from + n
          BY <2>1, <4>1 DEF TabInv, PieceInv, Line
        <4>3. page.log = log
          BY <4>1, <4>2
        <4>4. \A i \in 1..Len(lines') : lines'[i] = <<log, from + i - 1>>
          <5> TAKE i \in 1..Len(lines')
          <5>1. CASE i \in 1..n
            BY <1>4, <1>7, <4>3, <5>1
          <5>2. CASE i \notin 1..n
            <6>1. i \in (n + 1)..(n + Len(lines)) /\ i - n \in 1..Len(lines)
              BY <1>3, <1>5, <1>7, <5>2
            <6>2. lines'[i] = <<log, lines[1][2] + (i - n) - 1>>
              BY <1>7, <4>2, <6>1
            <6>3. lines[1][2] + (i - n) - 1 = from + i - 1
              BY <1>5, <4>2
            <6> QED
              BY <6>2, <6>3
          <5> QED
            BY <5>1, <5>2
        <4>5. 1 \in 1..Len(lines')
          BY <1>3, <1>5, <1>7, <3>2
        <4>6. lines'[1][2] = from
          <5>1. lines'[1] = <<log, from + 1 - 1>>
            BY <4>4, <4>5
          <5> QED
            BY <1>5, <5>1
        <4> QED
          BY <1>1, <4>4, <4>6 DEF PieceInv, Line
      <3> QED
        BY <3>1, <3>2
    <2>6. PageInv'
      BY <1>1 DEF PageInv
    <2>7. FlagsInv'
      BY <1>1 DEF TabInv, FlagsInv
    <2> QED
      BY <1>8, <2>4, <2>5, <2>6, <2>7 DEF TabInv
  <1> QED
    BY <1>9, <1>10

-----------------------------------------------------------------------------
(* The theorems.                                                            *)

\* Every step keeps the invariant.
LEMMA TabInductive == TabInv /\ [Next]_vars => TabInv'
  <1> SUFFICES ASSUME TabInv, [Next]_vars PROVE TabInv'
    OBVIOUS
  <1>1. CASE UNCHANGED vars
    BY <1>1 DEF vars, streamVars, pageVars, TabInv, TypeOK, StreamInv, PieceInv, PageInv, FlagsInv
  <1>2. ASSUME NEW l \in Logs, Write(l) PROVE TabInv'
    BY <1>2, WritePreserves
  <1>3. ASSUME NEW l \in Logs, SwitchLog(l) PROVE TabInv'
    <2>1. NewRequest(l) /\ pages' \in Nat \ {0}
      BY <1>3 DEF SwitchLog
    <2> QED
      BY <2>1, NewRequestPreserves
  <1>4. ASSUME NEW l \in Logs, TogglePrevious(l) PROVE TabInv'
    <2>1. NewRequest(l) /\ pages' \in Nat \ {0}
      BY <1>4 DEF TogglePrevious, TabInv, TypeOK
    <2> QED
      BY <2>1, NewRequestPreserves
  <1>5. CASE Reload
    <2>1. NewRequest(log) /\ pages' \in Nat \ {0} /\ log \in Logs
      BY <1>5 DEF Reload, TabInv, TypeOK
    <2> QED
      BY <2>1, NewRequestPreserves
  <1>6. ASSUME NEW k \in 1..cur, Respond(k) PROVE TabInv'
    BY <1>6, RespondPreserves
  <1>7. ASSUME NEW k \in 1..cur, RequestFails(k) PROVE TabInv'
    BY <1>7, FinishPreserves DEF RequestFails, pageVars
  <1>8. ASSUME NEW k \in 1..cur, ReadLine(k) PROVE TabInv'
    BY <1>8, ReadLinePreserves
  <1>9. ASSUME NEW k \in 1..cur, StreamEnds(k) PROVE TabInv'
    BY <1>9, FinishPreserves DEF StreamEnds, pageVars
  <1>10. LoadEarlier \/ ServePage \/ PageArrives \/ PageFails => TabInv'
    BY LoadEarlierPreserves, ServePagePreserves, PageArrivesPreserves, PageFailsPreserves
  <1> QED
    BY <1>1, <1>2, <1>3, <1>4, <1>5, <1>6, <1>7, <1>8, <1>9, <1>10 DEF Next

\* The invariant holds in every behaviour.
LEMMA TabInvariant == Spec => []TabInv
  BY TabStarts, TabInductive, PTL DEF Spec

\* The lines shown are always one uninterrupted piece of the log shown, unless
\* a page that could not be placed was put in front (useLogStream.ts:174-186,
\* pagination.ts:41-96).
THEOREM ShownInOnePiece == Spec => []OnePiece
  <1>1. TabInv => OnePiece
    <2> SUFFICES ASSUME TabInv PROVE OnePiece
      OBVIOUS
    <2>1. TypeOK /\ DOMAIN lines = 1..Len(lines)
      BY DEF TabInv, TypeOK
    <2> QED
      BY <2>1 DEF TabInv, PieceInv, OnePiece
  <1> QED
    BY <1>1, TabInvariant, PTL

\* What the tab says of loading and streaming is true of the request shown: an
\* aborted request never reports (useLogStream.ts:112-127).
THEOREM FlagsAreHonest == Spec => []FlagsHonest
  <1>1. TabInv => FlagsHonest
    BY DEF TabInv, FlagsInv, FlagsHonest, Shown, Pending
  <1> QED
    BY <1>1, TabInvariant, PTL

\* Consecutive lines are placed by either end.
LEMMA PieceEnds ==
  ASSUME NEW s \in Seq(Logs \X Nat), s # <<>>, NEW l,
         \A i \in 1..Len(s) : s[i] = <<l, s[1][2] + i - 1>>
  PROVE  s[1][2] \in Nat /\ s[Len(s)][2] = s[1][2] + Len(s) - 1
  <1>1. Len(s) \in Nat /\ 1 \in 1..Len(s) /\ Len(s) \in 1..Len(s) /\ s[1] \in Logs \X Nat
    OBVIOUS
  <1>2. s[Len(s)] = <<l, s[1][2] + Len(s) - 1>>
    BY <1>1
  <1> QED
    BY <1>1, <1>2

\* Within one request a number belongs to one line for good, through evictions
\* and pages put in front (buffer.ts:113-146, 191-232).
THEOREM NumbersStay == Spec => NumbersStick
  <1> DEFINE Steady == (cur' = cur /\ ~torn' /\ lines # <<>>) =>
                          lines'[1][2] - first' = lines[1][2] - first
  <1>1. ASSUME TabInv, TabInv', Next PROVE Steady
    <2> SUFFICES ASSUME cur' = cur, ~torn', lines # <<>>
                 PROVE  lines'[1][2] - first' = lines[1][2] - first
      OBVIOUS
    <2>1. /\ lines \in Seq(Logs \X Nat) /\ first \in Int /\ Len(lines) \in Nat
          /\ lines' \in Seq(Logs \X Nat) /\ Len(lines') \in Nat /\ cur \in Nat
      <3>1. lines \in Seq(Logs \X Nat) /\ first \in Int /\ cur \in 1..MaxRequests
        BY <1>1 DEF TabInv, TypeOK
      <3>2. lines' \in Seq(Logs \X Nat)
        BY <1>1 DEF TabInv, TypeOK
      <3> QED
        BY <3>1, <3>2
    <2>2. CASE UNCHANGED <<lines, first>>
      BY <2>2
    <2>3. ASSUME NEW k \in 1..cur, ReadLine(k), ~runs[k].aborted
          PROVE  lines'[1][2] - first' = lines[1][2] - first
      <3> DEFINE line == Line(runs[k].log, runs[k].next)
      <3>1. k = cur /\ ~torn /\ runs[k].phase = "read" /\ AppendLine(line)
        BY <1>1, <2>3 DEF ReadLine, TabInv, TypeOK
      <3>2. runs[k] \in RunType
        BY <1>1, <3>1 DEF TabInv, TypeOK
      <3>3. line \in Logs \X Nat /\ line[2] = runs[k].next
        BY <3>2 DEF RunType, Line
      <3>4. lines[Len(lines)][2] + 1 = runs[k].next
        BY <1>1, <3>1 DEF TabInv, StreamInv
      <3>5. TypeOK
        BY <1>1 DEF TabInv
      <3> HIDE DEF line
      <3>6. PICK excess \in 0..Len(lines) :
              /\ first' = first + excess /\ lines' # <<>>
              /\ Len(lines') = Len(lines) + 1 - excess
              /\ lines'[Len(lines')] = line
        BY <3>1, <3>3, <3>5, AppendKeeps
      <3>7. lines[1][2] \in Nat /\ lines[Len(lines)][2] = lines[1][2] + Len(lines) - 1
        BY <1>1, <2>1, <3>1, PieceEnds DEF TabInv, PieceInv, Line
      <3>8. lines'[1][2] \in Nat /\ lines'[Len(lines')][2] = lines'[1][2] + Len(lines') - 1
        BY <1>1, <2>1, <3>6, PieceEnds DEF TabInv, PieceInv, Line
      <3>9. /\ lines[1][2] + Len(lines) - 1 + 1 = runs[k].next
            /\ lines'[1][2] + (Len(lines) + 1 - excess) - 1 = runs[k].next
        BY <3>3, <3>4, <3>6, <3>7, <3>8
      <3>10. lines'[1][2] = lines[1][2] + excess
        <4>1. lines'[1][2] \in Nat /\ lines[1][2] \in Nat /\ Len(lines) \in Nat /\ excess \in Nat
          BY <2>1, <3>7, <3>8
        <4> QED
          BY <3>9, <4>1
      <3> QED
        BY <2>1, <3>6, <3>7, <3>10
    <2>4. CASE PageArrives
      <3> DEFINE n == Len(Earlier)
      <3>1. /\ PageReady /\ lines' = Earlier \o lines /\ first' = first - n /\ ~torn
        BY <2>4 DEF PageArrives, Earlier
      <3>2. Earlier \in Seq(Logs \X Nat) /\ n \in Nat
        BY <1>1, <3>1, EarlierIs
      <3> DEFINE e == Earlier
      <3> HIDE DEF e
      <3>3. /\ Len(e \o lines) = Len(e) + Len(lines)
            /\ \A i \in 1..(Len(e) + Len(lines)) :
                 (e \o lines)[i] = IF i <= Len(e) THEN e[i] ELSE lines[i - Len(e)]
        BY <2>1, <3>2, ConcatProperties DEF e
      <3>4. lines' = e \o lines /\ n = Len(e)
        BY <3>1 DEF e
      <3> HIDE DEF n
      <3>5. n + Len(lines) \in 1..(n + Len(lines)) /\ ~(n + Len(lines) <= n)
            /\ n + Len(lines) - n = Len(lines)
        BY <2>1, <3>2
      <3>6. Len(lines') = n + Len(lines) /\ lines'[Len(lines')] = lines[Len(lines)]
        BY <3>3, <3>4, <3>5
      <3>7. lines[1][2] \in Nat /\ lines[Len(lines)][2] = lines[1][2] + Len(lines) - 1
        BY <1>1, <2>1, <3>1, PieceEnds DEF TabInv, PieceInv, Line
      <3>8. lines' # <<>>
        BY <2>1, <3>2, <3>6
      <3>9. lines'[1][2] \in Nat /\ lines'[Len(lines')][2] = lines'[1][2] + Len(lines') - 1
        BY <1>1, <2>1, <3>8, PieceEnds DEF TabInv, PieceInv, Line
      <3>10. lines'[1][2] + (n + Len(lines)) - 1 = lines[1][2] + Len(lines) - 1
        BY <3>6, <3>7, <3>9
      <3>11. lines'[1][2] \in Nat /\ lines[1][2] \in Nat /\ Len(lines) \in Nat /\ n \in Nat
        BY <2>1, <3>2, <3>7, <3>9
      <3>12. lines'[1][2] = lines[1][2] - n
        <4> DEFINE x == lines'[1][2]
                   y == lines[1][2]
                   m == Len(lines)
        <4>1. x \in Nat /\ y \in Nat /\ m \in Nat /\ n \in Nat /\ x + (n + m) - 1 = y + m - 1
          BY <3>10, <3>11
        <4> HIDE DEF x, y, m
        <4>2. x = y - n
          BY <4>1
        <4> QED
          BY <4>2 DEF x, y
      <3> QED
        BY <2>1, <3>1, <3>11, <3>12
    <2>5. ASSUME NEW l \in Logs, NewRequest(l) PROVE FALSE
      BY <2>1, <2>5 DEF NewRequest
    <2>6. ASSUME NEW k \in 1..cur, ReadLine(k), runs[k].aborted PROVE UNCHANGED <<lines, first>>
      BY <2>6 DEF ReadLine
    <2>7. ASSUME NEW k \in 1..cur, Respond(k) \/ RequestFails(k) \/ StreamEnds(k)
          PROVE  UNCHANGED <<lines, first>>
      BY <2>7 DEF Respond, RequestFails, StreamEnds
    <2>8. ASSUME NEW l \in Logs, Write(l) PROVE UNCHANGED <<lines, first>>
      BY <2>8 DEF Write
    <2>9. LoadEarlier \/ ServePage \/ PageFails => UNCHANGED <<lines, first>>
      BY DEF LoadEarlier, ServePage, PageFails
    <2>10. log \in Logs
      BY <1>1 DEF TabInv, TypeOK
    <2> QED
      BY <1>1, <2>2, <2>3, <2>4, <2>5, <2>6, <2>7, <2>8, <2>9, <2>10
         DEF Next, SwitchLog, TogglePrevious, Reload
  <1>2. TabInv /\ TabInv' /\ [Next]_vars => [Steady]_vars
    BY <1>1
  <1>3. [][Steady]_vars <=> NumbersStick
    BY DEF NumbersStick
  <1> QED
    BY <1>2, <1>3, TabInvariant, PTL DEF Spec
=============================================================================
