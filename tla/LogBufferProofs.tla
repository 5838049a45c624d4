--------------------------- MODULE LogBufferProofs --------------------------
(***************************************************************************)
(* The line index of buffer.ts, for any text in any chunks, any number of  *)
(* lines retained, size of pages and capacity of the arrays: pages are     *)
(* counted exactly, and the buffer is a run of numbered lines (LogLines).  *)
(***************************************************************************)
EXTENDS LogBuffer, FiniteSetTheorems, SequenceTheorems, WellFoundedInduction, TLAPS

-----------------------------------------------------------------------------
(* Loops.                                                                   *)

\* What holds at m and is kept by every step up to n holds from m to n.
LEMMA UpTo ==
  ASSUME NEW m \in Nat, NEW n \in Nat, NEW S,
         m <= n => m \in S, \A k \in m..(n - 1) : k \in S => k + 1 \in S
  PROVE  m..n \subseteq S
  <1> DEFINE R == {p \in Nat \X Nat : p[1] < p[2]}
             B == (m..n) \ S
  <1>1. IsWellFoundedOn(R, Nat)
    <2>1. OpToRel(<, Nat) = R
      BY DEF OpToRel
    <2> QED
      BY <2>1, NatLessThanWellFounded, Zenon
  <1>2. ASSUME B # {} PROVE FALSE
    <2>1. B \subseteq Nat
      OBVIOUS
    <2> HIDE DEF R, B
    <2>2. PICK x \in B : \A y \in B : ~ (<<y, x>> \in R)
      BY <1>1, <1>2, <2>1, WFMin
    <2>3. x \in m..n /\ x \notin S /\ x # m
      BY DEF B
    <2>4. x - 1 \in m..(n - 1) /\ x - 1 \in Nat /\ x \in Nat /\ (x - 1) + 1 = x
      BY <2>3
    <2>5. <<x - 1, x>> \in R
      BY <2>4 DEF R
    <2>6. x - 1 \in S
      BY <2>2, <2>4, <2>5 DEF B
    <2> QED
      BY <2>3, <2>4, <2>6
  <1> QED
    BY <1>2

\* The loop of LogLines that reads text, round by round.
LEMMA ReadingIs ==
  ASSUME NEW text, Len(text) \in Nat, NEW blanks
  PROVE  LET r == Abstract!Reading(text, blanks)
         IN  /\ DOMAIN r = 0..Len(text)
             /\ r[0] = [done |-> <<>>, rest |-> <<>>]
             /\ \A i \in 1..Len(text) : r[i] = Abstract!ReadChar(r[i - 1], text[i], blanks)
  <1> DEFINE m == 0
             n == Len(text)
             Start == [done |-> <<>>, rest |-> <<>>]
             Round(f, k) == Abstract!ReadChar(f[k - 1], text[k], blanks)
             Is(f, j) == f = [i \in m..j |-> IF i = m THEN Start ELSE Round(f, i)]
             S == {j \in m..n : \E f : Is(f, j)}
  <1>1. m \in Nat /\ n \in Nat /\ m <= n
    OBVIOUS
  <1>2. Abstract!Reading(text, blanks) = CHOOSE g : Is(g, n)
    BY Zenon DEF Abstract!Reading
  <1>3. m \in S
    <2> DEFINE f == [i \in m..m |-> Start]
    <2>1. Is(f, m)
      OBVIOUS
    <2> HIDE DEF f, Start, Round, m, n
    <2> QED
      BY <1>1, <2>1
  <1>4. ASSUME NEW k \in m..(n - 1), k \in S PROVE k + 1 \in S
    <2>1. PICK f : Is(f, k)
      BY <1>4
    <2> DEFINE g == [i \in m..(k + 1) |-> IF i <= k THEN f[i] ELSE Round(f, k + 1)]
    <2> HIDE DEF Start, m, n
    <2>2. Is(g, k + 1)
      <3>1. k \in Nat /\ m \in Nat /\ m <= k /\ k + 1 # m /\ (k + 1) - 1 = k
        BY <1>1
      <3>2. \A i \in m..k : g[i] = f[i]
        BY <3>1
      <3>3. \A i \in m..k : i # m => i - 1 \in m..k
        BY <3>1
      <3>4. \A i \in m..k : f[i] = IF i = m THEN Start ELSE Round(f, i)
        BY <2>1
      <3>5. \A i \in m..k : g[i] = IF i = m THEN Start ELSE Round(g, i)
        BY <3>2, <3>3, <3>4
      <3>6. g[k + 1] = Round(g, k + 1)
        BY <3>1, <3>2
      <3>7. g = [i \in m..(k + 1) |-> g[i]]
        OBVIOUS
      <3> HIDE DEF g, Round
      <3>8. \A i \in m..(k + 1) : g[i] = IF i = m THEN Start ELSE Round(g, i)
        BY <3>1, <3>5, <3>6
      <3> QED
        BY <3>7, <3>8
    <2> HIDE DEF g, Round
    <2>3. k + 1 \in m..n
      BY <1>1
    <2> QED
      BY <2>2, <2>3
  <1>5. Is(Abstract!Reading(text, blanks), n)
    <2> HIDE DEF m, n, Start, Round
    <2>1. n \in S
      <3> HIDE DEF S
      <3>1. m..n \subseteq S
        BY <1>1, <1>3, <1>4, UpTo
      <3> QED
        BY <1>1, <3>1
    <2>2. PICK f : Is(f, n)
      BY <2>1
    <2> QED
      BY <1>2, <2>2, Zenon
  <1> QED
    <2> HIDE DEF Start, Round, m, n
    <2>1. /\ DOMAIN Abstract!Reading(text, blanks) = m..n /\ Abstract!Reading(text, blanks)[m] = Start
          /\ \A k \in (m + 1)..n : Abstract!Reading(text, blanks)[k] = Round(Abstract!Reading(text, blanks), k)
      BY <1>1, <1>5
    <2> QED
      BY <2>1 DEF Start, Round, m, n

\* The loop of prepend that looks for newlines.
LEMMA ScanningIs ==
  ASSUME NEW text, Len(text) \in Nat
  PROVE  LET s == Scanning(text)
         IN  /\ DOMAIN s = 0..Len(text)
             /\ s[0] = [from |-> 0, found |-> <<>>]
             /\ \A i \in 1..Len(text) :
                  s[i] = IF text[i] = NL THEN Extended(s[i - 1], i - 1) ELSE s[i - 1]
  <1> DEFINE m == 0
             n == Len(text)
             Start == [from |-> 0, found |-> <<>>]
             Round(f, k) == IF text[k] = NL THEN Extended(f[k - 1], k - 1) ELSE f[k - 1]
             Is(f, j) == f = [i \in m..j |-> IF i = m THEN Start ELSE Round(f, i)]
             S == {j \in m..n : \E f : Is(f, j)}
  <1>1. m \in Nat /\ n \in Nat /\ m <= n
    OBVIOUS
  <1>2. Scanning(text) = CHOOSE g : Is(g, n)
    BY Zenon DEF Scanning
  <1>3. m \in S
    <2> DEFINE f == [i \in m..m |-> Start]
    <2>1. Is(f, m)
      OBVIOUS
    <2> HIDE DEF f, Start, Round, m, n
    <2> QED
      BY <1>1, <2>1
  <1>4. ASSUME NEW k \in m..(n - 1), k \in S PROVE k + 1 \in S
    <2>1. PICK f : Is(f, k)
      BY <1>4
    <2> DEFINE g == [i \in m..(k + 1) |-> IF i <= k THEN f[i] ELSE Round(f, k + 1)]
    <2> HIDE DEF Start, m, n
    <2>2. Is(g, k + 1)
      <3>1. k \in Nat /\ m \in Nat /\ m <= k /\ k + 1 # m /\ (k + 1) - 1 = k
        BY <1>1
      <3>2. \A i \in m..k : g[i] = f[i]
        BY <3>1
      <3>3. \A i \in m..k : i # m => i - 1 \in m..k
        BY <3>1
      <3>4. \A i \in m..k : f[i] = IF i = m THEN Start ELSE Round(f, i)
        BY <2>1
      <3>5. \A i \in m..k : g[i] = IF i = m THEN Start ELSE Round(g, i)
        BY <3>2, <3>3, <3>4
      <3>6. g[k + 1] = Round(g, k + 1)
        BY <3>1, <3>2
      <3>7. g = [i \in m..(k + 1) |-> g[i]]
        OBVIOUS
      <3> HIDE DEF g, Round
      <3>8. \A i \in m..(k + 1) : g[i] = IF i = m THEN Start ELSE Round(g, i)
        BY <3>1, <3>5, <3>6
      <3> QED
        BY <3>7, <3>8
    <2> HIDE DEF g, Round
    <2>3. k + 1 \in m..n
      BY <1>1
    <2> QED
      BY <2>2, <2>3
  <1>5. Is(Scanning(text), n)
    <2> HIDE DEF m, n, Start, Round
    <2>1. n \in S
      <3> HIDE DEF S
      <3>1. m..n \subseteq S
        BY <1>1, <1>3, <1>4, UpTo
      <3> QED
        BY <1>1, <3>1
    <2>2. PICK f : Is(f, n)
      BY <2>1
    <2> QED
      BY <1>2, <2>2, Zenon
  <1> QED
    <2> HIDE DEF Start, Round, m, n
    <2>1. /\ DOMAIN Scanning(text) = m..n /\ Scanning(text)[m] = Start
          /\ \A k \in (m + 1)..n : Scanning(text)[k] = Round(Scanning(text), k)
      BY <1>1, <1>5
    <2> QED
      BY <2>1 DEF Start, Round, m, n

\* x has the buffer after each round of append's loop.
IndexRounds(b, text, x) ==
  /\ x[b.scanFrom] = [b EXCEPT !.pages[b.tail] = text]
  /\ \A i \in (b.scanFrom + 1)..Len(text) :
       x[i] = IF text[i] = NL THEN CommitLine(x[i - 1], i - 1) ELSE x[i - 1]

\* The loop of append.
LEMMA IndexingIs ==
  ASSUME NEW b, NEW text, Len(text) \in Nat, b.scanFrom \in 0..Len(text)
  PROVE  IndexRounds(b, text, Indexing(b, text))
  <1> DEFINE m == b.scanFrom
             n == Len(text)
             Start == [b EXCEPT !.pages[b.tail] = text]
             Round(f, k) == IF text[k] = NL THEN CommitLine(f[k - 1], k - 1) ELSE f[k - 1]
             Is(f, j) == f = [i \in m..j |-> IF i = m THEN Start ELSE Round(f, i)]
             S == {j \in m..n : \E f : Is(f, j)}
  <1>1. m \in Nat /\ n \in Nat /\ m <= n
    OBVIOUS
  <1>2. Indexing(b, text) = CHOOSE g : Is(g, n)
    BY Zenon DEF Indexing
  <1>3. m \in S
    <2> DEFINE f == [i \in m..m |-> Start]
    <2>1. Is(f, m)
      OBVIOUS
    <2> HIDE DEF f, Start, Round, m, n
    <2> QED
      BY <1>1, <2>1
  <1>4. ASSUME NEW k \in m..(n - 1), k \in S PROVE k + 1 \in S
    <2>1. PICK f : Is(f, k)
      BY <1>4
    <2> DEFINE g == [i \in m..(k + 1) |-> IF i <= k THEN f[i] ELSE Round(f, k + 1)]
    <2> HIDE DEF Start, m, n
    <2>2. Is(g, k + 1)
      <3>1. k \in Nat /\ m \in Nat /\ m <= k /\ k + 1 # m /\ (k + 1) - 1 = k
        BY <1>1
      <3>2. \A i \in m..k : g[i] = f[i]
        BY <3>1
      <3>3. \A i \in m..k : i # m => i - 1 \in m..k
        BY <3>1
      <3>4. \A i \in m..k : f[i] = IF i = m THEN Start ELSE Round(f, i)
        BY <2>1
      <3>5. \A i \in m..k : g[i] = IF i = m THEN Start ELSE Round(g, i)
        BY <3>2, <3>3, <3>4
      <3>6. g[k + 1] = Round(g, k + 1)
        BY <3>1, <3>2
      <3>7. g = [i \in m..(k + 1) |-> g[i]]
        OBVIOUS
      <3> HIDE DEF g, Round
      <3>8. \A i \in m..(k + 1) : g[i] = IF i = m THEN Start ELSE Round(g, i)
        BY <3>1, <3>5, <3>6
      <3> QED
        BY <3>7, <3>8
    <2> HIDE DEF g, Round
    <2>3. k + 1 \in m..n
      BY <1>1
    <2> QED
      BY <2>2, <2>3
  <1>5. Is(Indexing(b, text), n)
    <2> HIDE DEF m, n, Start, Round
    <2>1. n \in S
      <3> HIDE DEF S
      <3>1. m..n \subseteq S
        BY <1>1, <1>3, <1>4, UpTo
      <3> QED
        BY <1>1, <3>1
    <2>2. PICK f : Is(f, n)
      BY <2>1
    <2> QED
      BY <1>2, <2>2, Zenon
  <1> QED
    <2> HIDE DEF Start, Round, m, n
    <2>1. /\ Indexing(b, text)[m] = Start
          /\ \A k \in (m + 1)..n : Indexing(b, text)[k] = Round(Indexing(b, text), k)
      BY <1>1, <1>5
    <2> QED
      BY <2>1 DEF Start, Round, m, n, IndexRounds

\* f has the buffer after each round of evict's loop.
FreeRounds(b, excess, f) ==
  f[0] = b /\ \A k \in 1..excess : f[k] = Freed(f[k - 1], b.base + k - 1)

\* The loop of evict.
LEMMA FreeingIs ==
  ASSUME NEW b, NEW excess \in Nat
  PROVE  FreeRounds(b, excess, Freeing(b, excess))
  <1> DEFINE m == 0
             n == excess
             Start == b
             Round(f, k) == Freed(f[k - 1], b.base + k - 1)
             Is(f, j) == f = [i \in m..j |-> IF i = m THEN Start ELSE Round(f, i)]
             S == {j \in m..n : \E f : Is(f, j)}
  <1>1. m \in Nat /\ n \in Nat /\ m <= n
    OBVIOUS
  <1>2. Freeing(b, excess) = CHOOSE g : Is(g, n)
    BY Zenon DEF Freeing
  <1>3. m \in S
    <2> DEFINE f == [i \in m..m |-> Start]
    <2>1. Is(f, m)
      OBVIOUS
    <2> HIDE DEF f, Start, Round, m, n
    <2> QED
      BY <1>1, <2>1
  <1>4. ASSUME NEW k \in m..(n - 1), k \in S PROVE k + 1 \in S
    <2>1. PICK f : Is(f, k)
      BY <1>4
    <2> DEFINE g == [i \in m..(k + 1) |-> IF i <= k THEN f[i] ELSE Round(f, k + 1)]
    <2> HIDE DEF Start, m, n
    <2>2. Is(g, k + 1)
      <3>1. k \in Nat /\ m \in Nat /\ m <= k /\ k + 1 # m /\ (k + 1) - 1 = k
        BY <1>1
      <3>2. \A i \in m..k : g[i] = f[i]
        BY <3>1
      <3>3. \A i \in m..k : i # m => i - 1 \in m..k
        BY <3>1
      <3>4. \A i \in m..k : f[i] = IF i = m THEN Start ELSE Round(f, i)
        BY <2>1
      <3>5. \A i \in m..k : g[i] = IF i = m THEN Start ELSE Round(g, i)
        BY <3>2, <3>3, <3>4
      <3>6. g[k + 1] = Round(g, k + 1)
        BY <3>1, <3>2
      <3>7. g = [i \in m..(k + 1) |-> g[i]]
        OBVIOUS
      <3> HIDE DEF g, Round
      <3>8. \A i \in m..(k + 1) : g[i] = IF i = m THEN Start ELSE Round(g, i)
        BY <3>1, <3>5, <3>6
      <3> QED
        BY <3>7, <3>8
    <2> HIDE DEF g, Round
    <2>3. k + 1 \in m..n
      BY <1>1
    <2> QED
      BY <2>2, <2>3
  <1>5. Is(Freeing(b, excess), n)
    <2> HIDE DEF m, n, Start, Round
    <2>1. n \in S
      <3> HIDE DEF S
      <3>1. m..n \subseteq S
        BY <1>1, <1>3, <1>4, UpTo
      <3> QED
        BY <1>1, <3>1
    <2>2. PICK f : Is(f, n)
      BY <2>1
    <2> QED
      BY <1>2, <2>2, Zenon
  <1> QED
    <2> HIDE DEF Start, Round, m, n
    <2>1. /\ Freeing(b, excess)[m] = Start
          /\ \A k \in (m + 1)..n : Freeing(b, excess)[k] = Round(Freeing(b, excess), k)
      BY <1>1, <1>5
    <2> QED
      BY <2>1 DEF Start, Round, m, n, FreeRounds

-----------------------------------------------------------------------------
(* Text.                                                                    *)

Chars == UNION {Range(text) : text \in Arriving \cup Earlier}

\* What append and prepend are given is text, and not empty.
LEMMA GivenIs ==
  ASSUME NEW text \in Arriving \cup Earlier
  PROVE  text \in Seq(Chars) /\ Len(text) \in Nat \ {0}
  <1>1. text # <<>> /\ text \in Seq(Range(text))
    BY BufferAssumption
  <1>2. Range(text) \subseteq Chars
    BY DEF Chars
  <1>3. text \in Seq(Chars)
    BY <1>1, <1>2, SeqMonotonic
  <1> HIDE DEF Chars
  <1> QED
    BY <1>1, <1>3, EmptySeq

\* A slice and its characters.
LEMMA SliceIs ==
  ASSUME NEW C, NEW text \in Seq(C), NEW start \in Nat, NEW end \in Nat,
         start <= end, end <= Len(text)
  PROVE  /\ Slice(text, start, end) \in Seq(C)
         /\ Len(Slice(text, start, end)) = end - start
         /\ \A j \in 1..(end - start) : Slice(text, start, end)[j] = text[start + j]
  <1>1. \A i \in (start + 1)..end : text[i] \in C
    BY ElementOfSeq
  <1>2. /\ SubSeq(text, start + 1, end) \in Seq(C)
        /\ Len(SubSeq(text, start + 1, end)) = IF start + 1 <= end THEN end - (start + 1) + 1 ELSE 0
        /\ \A i \in 1..(end - (start + 1) + 1) : SubSeq(text, start + 1, end)[i] = text[start + 1 + i - 1]
    BY <1>1, SubSeqProperties
  <1>3. \A i \in 1..(end - start) : i \in 1..(end - (start + 1) + 1) /\ start + 1 + i - 1 = start + i
    OBVIOUS
  <1>4. Len(SubSeq(text, start + 1, end)) = end - start
    BY <1>2
  <1> QED
    BY <1>2, <1>3, <1>4 DEF Slice

\* Slices with the same characters are the same.
LEMMA SliceSame ==
  ASSUME NEW C, NEW one \in Seq(C), NEW other \in Seq(C), NEW start \in Nat, NEW end \in Nat,
         start <= end, end <= Len(one), end <= Len(other),
         \A j \in (start + 1)..end : one[j] = other[j]
  PROVE  Slice(one, start, end) = Slice(other, start, end)
  <1> DEFINE a == Slice(one, start, end)
             b == Slice(other, start, end)
  <1>1. /\ a \in Seq(C) /\ Len(a) = end - start
        /\ \A j \in 1..(end - start) : a[j] = one[start + j]
    <2>1. a \in Seq(C)
      BY SliceIs
    <2>2. Len(a) = end - start
      BY SliceIs
    <2>3. \A j \in 1..(end - start) : a[j] = one[start + j]
      BY SliceIs
    <2> QED
      BY <2>1, <2>2, <2>3
  <1>2. /\ b \in Seq(C) /\ Len(b) = end - start
        /\ \A j \in 1..(end - start) : b[j] = other[start + j]
    BY SliceIs, Zenon
  <1> HIDE DEF a, b
  <1>3. \A j \in 1..(end - start) : start + j \in (start + 1)..end
    OBVIOUS
  <1>4. \A j \in 1..Len(a) : a[j] = b[j]
    BY <1>1, <1>3, <1>2
  <1>5. a = b
    BY <1>1, <1>4, <1>2, SeqEqual
  <1> QED
    BY <1>5 DEF a, b

\* The line committed with pushLine's end is the line without its carriage
\* return.
LEMMA TrimIs ==
  ASSUME NEW C, NEW text \in Seq(C), NEW start \in Nat, NEW end \in Nat,
         start <= end, end <= Len(text)
  PROVE  /\ TrimmedEnd(text, start, end) \in start..end
         /\ Slice(text, start, TrimmedEnd(text, start, end)) = Abstract!Trimmed(Slice(text, start, end))
  <1> DEFINE line == Slice(text, start, end)
  <1>1. line \in Seq(C) /\ Len(line) = end - start
        /\ \A j \in 1..(end - start) : line[j] = text[start + j]
    BY SliceIs
  <1> HIDE DEF line
  <1>2. CASE end = start
    <2>1. line = <<>>
      BY <1>1, <1>2, EmptySeq
    <2>2. TrimmedEnd(text, start, end) = end
      BY <1>2 DEF TrimmedEnd
    <2> QED
      BY <1>2, <2>1, <2>2 DEF Abstract!Trimmed, line
  <1>3. CASE end > start
    <2>1. line # <<>> /\ end - start \in 1..(end - start) /\ start + (end - start) = end
      BY <1>1, <1>3
    <2>2. Last(line) = text[end]
      BY <1>1, <2>1 DEF Last
    <2>3. CASE text[end] # CR
      <3>1. TrimmedEnd(text, start, end) = end
        BY <2>3 DEF TrimmedEnd
      <3>2. Abstract!Trimmed(line) = line
        BY <2>2, <2>3 DEF Abstract!Trimmed, Abstract!Last, Last
      <3> QED
        BY <3>1, <3>2 DEF line
    <2>4. CASE text[end] = CR
      <3> DEFINE e == end - 1
                 cut == Slice(text, start, e)
      <3>1. TrimmedEnd(text, start, end) = e /\ e \in Nat /\ start <= e /\ e <= end
            /\ end - start = (e - start) + 1
        BY <1>3, <2>4 DEF TrimmedEnd
      <3>2. Abstract!Trimmed(line) = SubSeq(line, 1, Len(line) - 1)
        BY <2>1, <2>2, <2>4, Zenon DEF Abstract!Trimmed, Abstract!Last, Last, Abstract!Front
      <3> HIDE DEF e
      <3>3. e <= Len(text)
        BY <3>1, LenProperties
      <3>4. /\ cut \in Seq(C) /\ Len(cut) = e - start
            /\ \A j \in 1..(e - start) : cut[j] = text[start + j]
        <4>1. cut \in Seq(C)
          BY <3>1, <3>3, SliceIs
        <4>2. Len(cut) = e - start
          BY <3>1, <3>3, SliceIs
        <4>3. \A j \in 1..(e - start) : cut[j] = text[start + j]
          BY <3>1, <3>3, SliceIs
        <4> QED
          BY <4>1, <4>2, <4>3
      <3> HIDE DEF cut
      <3>5. \A i \in 1..(e - start) : line[i] \in C
        <4>1. \A i \in 1..(e - start) : i \in 1..Len(line)
          BY <1>1, <3>1
        <4> QED
          BY <1>1, <4>1, ElementOfSeq
      <3>6. Len(line) - 1 = e - start
        BY <1>1, <3>1
      <3>7. /\ SubSeq(line, 1, e - start) \in Seq(C)
            /\ Len(SubSeq(line, 1, e - start)) = e - start
            /\ \A i \in 1..(e - start) : SubSeq(line, 1, e - start)[i] = line[i]
        <4>1. /\ SubSeq(line, 1, e - start) \in Seq(C)
              /\ Len(SubSeq(line, 1, e - start))
                   = IF 1 <= e - start THEN (e - start) - 1 + 1 ELSE 0
              /\ \A i \in 1..((e - start) - 1 + 1) : SubSeq(line, 1, e - start)[i] = line[1 + i - 1]
          BY <3>1, <3>5, SubSeqProperties
        <4>2. \A i \in 1..(e - start) : i \in 1..((e - start) - 1 + 1) /\ 1 + i - 1 = i
          BY <3>1
        <4> QED
          BY <3>1, <4>1, <4>2
      <3>8. \A i \in 1..(e - start) : SubSeq(line, 1, e - start)[i] = cut[i]
        <4>1. \A i \in 1..(e - start) : i \in 1..(end - start)
          BY <3>1
        <4> QED
          BY <1>1, <3>4, <3>7, <4>1
      <3>9. SubSeq(line, 1, e - start) = cut
        BY <3>4, <3>7, <3>8, SeqEqual
      <3> QED
        BY <3>1, <3>2, <3>6, <3>9 DEF line, cut
    <2> QED
      BY <2>3, <2>4
  <1> QED
    BY <1>2, <1>3

\* A slice grows with the next character.
LEMMA SliceGrows ==
  ASSUME NEW C, NEW text \in Seq(C), NEW start \in Nat, NEW end \in Nat,
         start <= end, end < Len(text)
  PROVE  Append(Slice(text, start, end), text[end + 1]) = Slice(text, start, end + 1)
  <1> DEFINE m == start + 1
             n == end + 1
  <1>1. Len(text) \in Nat
    BY LenProperties
  <1>2. m \in 1..Len(text) /\ n \in m..Len(text) /\ n \in 1..Len(text) /\ n - 1 = end
    BY <1>1
  <1>3. text[n] \in C
    BY <1>2, ElementOfSeq
  <1>4. SubSeq(text, m, end) \in Seq(C)
    <2>1. end <= Len(text)
      BY <1>1
    <2> QED
      BY <2>1, SliceIs DEF Slice
  <1> HIDE DEF m, n
  <1>5. SubSeq(text, m, n) = SubSeq(text, m, n - 1) \o <<text[n]>>
    BY <1>2, SubSeqRecursiveSecond
  <1>6. Append(SubSeq(text, m, end), text[n]) = SubSeq(text, m, end) \o <<text[n]>>
    BY <1>3, <1>4, AppendIsConcat
  <1> QED
    BY <1>2, <1>5, <1>6 DEF Slice, m, n

\* A character is added to the line being read.
LEMMA CharAdded ==
  ASSUME NEW acc, NEW done, NEW rest, NEW char, acc = [done |-> done, rest |-> rest]
  PROVE  [acc EXCEPT !.rest = Append(@, char)] = [done |-> done, rest |-> Append(rest, char)]
  OBVIOUS

\* Nothing lies between an offset and itself.
LEMMA SliceEmpty ==
  ASSUME NEW text, NEW at \in Nat
  PROVE  Slice(text, at, at) = <<>>
  BY SubSeqEmpty DEF Slice

\* Extents found in text up to offset i and the lines that are read up to there.
Matched(text, found, done, i) ==
  /\ found \in Seq([start : Nat, end : Nat])
  /\ \A j \in 1..Len(found) : found[j].start < found[j].end /\ found[j].end <= i
  /\ done \in Seq(Seq(Chars)) /\ Len(done) = Len(found)
  /\ \A j \in 1..Len(found) : done[j] = Slice(text, found[j].start, found[j].end)

\* A line that ends at i is added to both, unless it is blank.
LEMMA BothExtended ==
  ASSUME NEW text \in Seq(Chars), NEW i \in 0..Len(text), NEW from \in 0..i, NEW found, NEW done,
         Matched(text, found, done, i)
  PROVE  LET scan == [from |-> from, found |-> found]
             acc == [done |-> done, rest |-> Slice(text, from, i)]
         IN  /\ Extended(scan, i) = [from |-> i + 1, found |-> Extended(scan, i).found]
             /\ Matched(text, Extended(scan, i).found, Abstract!Finished(acc, FALSE), i)
  <1> DEFINE scan == [from |-> from, found |-> found]
             line == Slice(text, from, i)
             acc == [done |-> done, rest |-> line]
             e == [start |-> from, end |-> i]
  <1>1. Len(text) \in Nat /\ i \in Nat /\ from \in Nat /\ from <= i /\ i <= Len(text)
    BY LenProperties
  <1>2. line \in Seq(Chars) /\ Len(line) = i - from
    BY <1>1, SliceIs
  <1>3. scan.from = from /\ scan.found = found /\ acc.done = done /\ acc.rest = line
    OBVIOUS
  <1>4. Extended(scan, i) = [from |-> i + 1, found |-> Extended(scan, i).found]
    BY DEF Extended
  <1> HIDE DEF line
  <1>5. CASE i = from
    <2>1. line = <<>>
      BY <1>2, <1>5, EmptySeq
    <2>2. Extended(scan, i).found = found
      BY <1>1, <1>3, <1>5 DEF Extended
    <2>3. Abstract!Finished(acc, FALSE) = done
      BY <1>3, <2>1 DEF Abstract!Finished
    <2> QED
      BY <1>4, <2>2, <2>3 DEF line
  <1>6. CASE i > from
    <2>1. line # <<>>
      BY <1>1, <1>2, <1>6
    <2>2. Extended(scan, i).found = Append(found, e)
      BY <1>1, <1>3, <1>6 DEF Extended
    <2>3. Abstract!Finished(acc, FALSE) = Append(done, line)
      BY <1>3, <2>1 DEF Abstract!Finished
    <2>4. e \in [start : Nat, end : Nat] /\ e.start < e.end /\ e.end <= i /\ e.start = from /\ e.end = i
      BY <1>1, <1>6
    <2>5. /\ Append(found, e) \in Seq([start : Nat, end : Nat]) /\ Len(Append(found, e)) = Len(found) + 1
          /\ \A j \in 1..Len(found) : Append(found, e)[j] = found[j]
          /\ Append(found, e)[Len(found) + 1] = e
      BY <2>4, AppendProperties DEF Matched
    <2>6. /\ Append(done, line) \in Seq(Seq(Chars)) /\ Len(Append(done, line)) = Len(done) + 1
          /\ \A j \in 1..Len(done) : Append(done, line)[j] = done[j]
          /\ Append(done, line)[Len(done) + 1] = line
      BY <1>2, AppendProperties DEF Matched
    <2>7. Len(found) \in Nat /\ Len(done) = Len(found)
      BY LenProperties DEF Matched
    <2> HIDE DEF e
    <2> DEFINE f == Append(found, e)
               d == Append(done, line)
    <2> HIDE DEF f, d
    <2>8. Matched(text, f, d, i)
      <3>1. ASSUME NEW j \in 1..Len(f)
            PROVE  /\ f[j].start < f[j].end /\ f[j].end <= i
                   /\ d[j] = Slice(text, f[j].start, f[j].end)
        <4>1. CASE j = Len(found) + 1
          <5>1. f[j] = e /\ d[j] = line
            BY <2>5, <2>6, <2>7, <4>1 DEF f, d
          <5> QED
            BY <5>1, <2>4 DEF line
        <4>2. CASE j # Len(found) + 1
          <5>1. j \in 1..Len(found)
            BY <2>5, <2>7, <4>2 DEF f
          <5>2. f[j] = found[j] /\ d[j] = done[j]
            BY <2>5, <2>6, <2>7, <5>1 DEF f, d
          <5> QED
            BY <5>1, <5>2 DEF Matched
        <4> QED
          BY <4>1, <4>2
      <3> QED
        BY <2>5, <2>6, <2>7, <3>1 DEF Matched, f, d
    <2> QED
      BY <1>4, <2>2, <2>3, <2>8 DEF line, f, d, e
  <1>7. i = from \/ i > from
    BY <1>1
  <1> QED
    BY <1>5, <1>6, <1>7, Zenon

\* prepend finds the extents of the lines that reading finds.
LEMMA ScanReads ==
  ASSUME NEW text \in Seq(Chars)
  PROVE  Matched(text, Extents(text), Abstract!Finished(Abstract!Read(text, FALSE), FALSE), Len(text))
  <1> DEFINE n == Len(text)
             s == Scanning(text)
             r == Abstract!Reading(text, FALSE)
             S == {i \in 0..n : /\ s[i] = [from |-> s[i].from, found |-> s[i].found]
                                /\ s[i].from \in 0..i
                                /\ r[i] = [done |-> r[i].done, rest |-> Slice(text, s[i].from, i)]
                                /\ Matched(text, s[i].found, r[i].done, i)}
  <1>1. n \in Nat
    BY LenProperties
  <1>2. /\ s[0] = [from |-> 0, found |-> <<>>]
        /\ \A i \in 1..n : s[i] = IF text[i] = NL THEN Extended(s[i - 1], i - 1) ELSE s[i - 1]
    BY <1>1, ScanningIs
  <1>3. /\ r[0] = [done |-> <<>>, rest |-> <<>>]
        /\ \A i \in 1..n : r[i] = Abstract!ReadChar(r[i - 1], text[i], FALSE)
    BY <1>1, ReadingIs
  <1> HIDE DEF n, s, r
  <1>4. 0 \in S
    <2>1. s[0].from = 0 /\ s[0].found = <<>> /\ r[0].done = <<>> /\ r[0].rest = <<>>
      BY <1>2, <1>3
    <2>2. Slice(text, 0, 0) = <<>>
      BY SliceEmpty
    <2>3. Matched(text, <<>>, <<>>, 0)
      BY EmptySeq DEF Matched
    <2> QED
      BY <1>1, <1>2, <1>3, <2>1, <2>2, <2>3
  <1>5. ASSUME NEW k \in 0..(n - 1), k \in S PROVE k + 1 \in S
    <2> DEFINE from == s[k].from
               found == s[k].found
               done == r[k].done
    <2>1. /\ s[k] = [from |-> from, found |-> found] /\ from \in 0..k
          /\ r[k] = [done |-> done, rest |-> Slice(text, from, k)]
          /\ Matched(text, found, done, k)
      BY <1>5
    <2>2. k \in Nat /\ k + 1 \in 1..n /\ k + 1 \in 0..n /\ (k + 1) - 1 = k /\ k \in 0..n /\ k < n
      BY <1>1
    <2>3. /\ s[k + 1] = IF text[k + 1] = NL THEN Extended(s[k], k) ELSE s[k]
          /\ r[k + 1] = Abstract!ReadChar(r[k], text[k + 1], FALSE)
      BY <1>2, <1>3, <2>2
    <2> HIDE DEF from, found, done, S
    <2>4. CASE text[k + 1] = NL
      <3> DEFINE x == Extended(s[k], k).found
                 y == Abstract!Finished(r[k], FALSE)
      <3>1. Extended(s[k], k) = [from |-> k + 1, found |-> x] /\ Matched(text, x, y, k)
        <4> DEFINE scan == [from |-> from, found |-> found]
                   acc == [done |-> done, rest |-> Slice(text, from, k)]
        <4>1. k \in 0..Len(text)
          BY <2>2 DEF n
        <4>2. /\ Extended(scan, k) = [from |-> k + 1, found |-> Extended(scan, k).found]
              /\ Matched(text, Extended(scan, k).found, Abstract!Finished(acc, FALSE), k)
          BY <2>1, <4>1, BothExtended, Zenon
        <4>3. s[k] = scan /\ r[k] = acc
          BY <2>1
        <4> HIDE DEF scan, acc
        <4> QED
          BY <4>2, <4>3
      <3> HIDE DEF x, y
      <3>2. s[k + 1] = [from |-> k + 1, found |-> x]
        BY <2>3, <2>4, <3>1
      <3>3. r[k + 1] = [done |-> y, rest |-> <<>>]
        BY <2>3, <2>4 DEF Abstract!ReadChar, y
      <3>4. Slice(text, k + 1, k + 1) = <<>>
        BY <2>2, SliceEmpty
      <3>5. Matched(text, x, y, k + 1)
        <4>1. \A j \in 1..Len(x) : x[j].end <= k => x[j].end <= k + 1
          <5> TAKE j \in 1..Len(x)
          <5>1. x[j] \in [start : Nat, end : Nat]
            BY <3>1, ElementOfSeq DEF Matched
          <5> QED
            BY <2>2, <5>1
        <4> QED
          BY <3>1, <4>1 DEF Matched
      <3>6. s[k + 1].from = k + 1 /\ s[k + 1].found = x /\ r[k + 1].done = y
        BY <3>2, <3>3
      <3>7. k + 1 \in 0..(k + 1)
        BY <2>2
      <3> QED
        BY <2>2, <3>2, <3>3, <3>4, <3>5, <3>6, <3>7 DEF S
    <2>5. CASE text[k + 1] # NL
      <3>1. s[k + 1] = [from |-> from, found |-> found]
        BY <2>1, <2>3, <2>5
      <3>2. Append(Slice(text, from, k), text[k + 1]) = Slice(text, from, k + 1)
        <4>1. from \in Nat /\ from <= k
          BY <2>1
        <4> QED
          BY <2>2, <4>1, SliceGrows DEF n
      <3>3. r[k + 1] = [done |-> done, rest |-> Slice(text, from, k + 1)]
        <4> DEFINE rest == Slice(text, from, k)
                   char == text[k + 1]
                   acc == r[k]
        <4>1. r[k + 1] = [acc EXCEPT !.rest = Append(@, char)]
          BY <2>3, <2>5 DEF Abstract!ReadChar
        <4>2. acc = [done |-> done, rest |-> rest]
          BY <2>1
        <4> HIDE DEF rest, char, acc
        <4>3. [acc EXCEPT !.rest = Append(@, char)] = [done |-> done, rest |-> Append(rest, char)]
          BY <4>2, CharAdded
        <4> QED
          BY <3>2, <4>1, <4>3 DEF rest, char
      <3>4. Matched(text, found, done, k + 1)
        <4>1. \A j \in 1..Len(found) : found[j].end <= k => found[j].end <= k + 1
          <5> TAKE j \in 1..Len(found)
          <5>1. found[j] \in [start : Nat, end : Nat]
            BY <2>1, ElementOfSeq DEF Matched
          <5> QED
            BY <2>2, <5>1
        <4> QED
          BY <2>1, <4>1 DEF Matched
      <3>5. s[k + 1].from = from /\ s[k + 1].found = found /\ r[k + 1].done = done
        BY <3>1, <3>3
      <3>6. from \in 0..(k + 1)
        BY <2>1, <2>2
      <3> QED
        BY <2>2, <3>1, <3>3, <3>4, <3>5, <3>6 DEF S
    <2> QED
      BY <2>4, <2>5
  <1>6. n \in S
    <2> HIDE DEF S
    <2>1. 0..n \subseteq S
      BY <1>1, <1>4, <1>5, UpTo
    <2> QED
      BY <1>1, <2>1
  <1>7. /\ s[n] = [from |-> s[n].from, found |-> s[n].found] /\ s[n].from \in 0..n
        /\ r[n] = [done |-> r[n].done, rest |-> Slice(text, s[n].from, n)]
        /\ Matched(text, s[n].found, r[n].done, n)
    BY <1>6
  <1>8. Matched(text, Extended(s[n], n).found, Abstract!Finished(r[n], FALSE), n)
    <2> DEFINE from == s[n].from
               found == s[n].found
               done == r[n].done
    <2> HIDE DEF from, found, done, S
    <2>1. n \in 0..n
      BY <1>1
    <2> QED
      BY <1>7, <2>1, BothExtended DEF n, from, found, done
  <1> QED
    BY <1>8 DEF n, s, r, Extents, Abstract!Read

-----------------------------------------------------------------------------
(* The buffer.                                                              *)

Text == Seq(Chars)
Entry == [page : Nat, start : Nat, end : Nat]

\* The fields have their types, the arrays hold base and used, and each page
\* has a count.
Shape(b) ==
  /\ b = [pages |-> b.pages, refs |-> b.refs, tail |-> b.tail, slot |-> b.slot, base |-> b.base,
          used |-> b.used, baseSeq |-> b.baseSeq, lineStart |-> b.lineStart, scanFrom |-> b.scanFrom]
  /\ b.pages \in Seq(Text) /\ b.refs \in Seq(Int) /\ Len(b.refs) = Len(b.pages)
  /\ b.tail \in 1..Len(b.pages)
  /\ ArrayLength(b) \in Nat \ {0} /\ b.slot \in [0..(ArrayLength(b) - 1) -> Entry]
  /\ b.base \in Nat /\ b.used \in Nat /\ b.base <= b.used /\ b.used <= ArrayLength(b)
  /\ b.baseSeq \in Int /\ b.lineStart \in Nat /\ b.scanFrom \in Nat

\* The retained lines lie in pages.
Laid(b) ==
  \A i \in b.base..(b.used - 1) :
    /\ b.slot[i].page \in 1..Len(b.pages)
    /\ b.slot[i].start <= b.slot[i].end
    /\ b.slot[i].end <= Len(b.pages[b.slot[i].page])

Users(b, p) == {i \in b.base..(b.used - 1) : b.slot[i].page = p}

\* Each page is counted by the lines in it.
Counted(b) == \A p \in 1..Len(b.pages) : b.refs[p] = Cardinality(Users(b, p))

\* A page that is not used has given its text back, but for the tail and pages
\* that never held a line.
Emptied(b) ==
  \A p \in 1..Len(b.pages) :
    (b.refs[p] = 0 /\ p # b.tail) => b.pages[p] = <<>> \/ Extents(b.pages[p]) = <<>>

LinesOf(b) == [i \in 1..Size(b) |-> Extent(b, b.base + i - 1)]

\* Lines are text.
LEMMA LinesAre ==
  ASSUME NEW b, Shape(b), Laid(b)
  PROVE  /\ LinesOf(b) \in Seq(Text) /\ Len(LinesOf(b)) = Size(b) /\ Size(b) \in Nat
         /\ \A i \in 1..Size(b) : LinesOf(b)[i] = Extent(b, b.base + i - 1)
  <1>1. Size(b) \in Nat /\ b.base \in Nat /\ b.used \in Nat /\ Size(b) = b.used - b.base
    BY DEF Shape, Size
  <1>2. ASSUME NEW i \in 1..Size(b) PROVE Extent(b, b.base + i - 1) \in Text
    <2> DEFINE k == b.base + i - 1
    <2>1. k \in b.base..(b.used - 1) /\ k \in 0..(ArrayLength(b) - 1)
      <3>1. ArrayLength(b) \in Nat /\ b.used <= ArrayLength(b)
        BY DEF Shape
      <3> QED
        BY <1>1, <3>1
    <2> HIDE DEF k
    <2>2. b.slot[k] \in Entry /\ b.slot[k].page \in 1..Len(b.pages)
      BY <2>1 DEF Shape, Laid
    <2>3. /\ b.slot[k].start \in Nat /\ b.slot[k].end \in Nat /\ b.slot[k].start <= b.slot[k].end
          /\ b.slot[k].end <= Len(b.pages[b.slot[k].page])
      BY <2>1, <2>2 DEF Entry, Laid
    <2>4. b.pages[b.slot[k].page] \in Seq(Chars)
      BY <2>2, ElementOfSeq DEF Shape, Text
    <2> QED
      BY <2>3, <2>4, SliceIs DEF Extent, Text, k
  <1>3. LinesOf(b) \in [1..Size(b) -> Text]
    BY <1>2 DEF LinesOf
  <1>4. LinesOf(b) \in Seq(Text) /\ Len(LinesOf(b)) = Size(b)
    BY <1>1, <1>3
  <1> QED
    BY <1>1, <1>4 DEF LinesOf

\* Arrays of n entries are n long.
LEMMA ArrayIs ==
  ASSUME NEW b, NEW n \in Nat, DOMAIN b.slot = 0..(n - 1)
  PROVE  ArrayLength(b) = n
  <1>1. 0 \in Int /\ n - 1 \in Int /\ (IF 0 > n - 1 THEN 0 ELSE (n - 1) - 0 + 1) = n
    OBVIOUS
  <1> QED
    BY <1>1, FS_Interval DEF ArrayLength

\* Entries of page p among n from a place on.
Entries(f, from, n, p) == {i \in from..(from + n - 1) : f[i].page = p}

\* n entries use the same pages from one place on as from another.
Alike(f, g, from, to, n) == \A i \in 0..(n - 1) : g[to + i].page = f[from + i].page

\* As many entries as before use each page when entries have moved by a distance.
LEMMA CountMoved ==
  ASSUME NEW f, NEW g, NEW from \in Nat, NEW to \in Nat, NEW n \in Nat, NEW p,
         Alike(f, g, from, to, n)
  PROVE  Cardinality(Entries(g, to, n, p)) = Cardinality(Entries(f, from, n, p))
  <1> DEFINE S == Entries(f, from, n, p)
             T == Entries(g, to, n, p)
             h == [i \in S |-> i - from + to]
  <1> USE DEF Entries, Alike
  <1>1. IsFiniteSet(S)
    <2>1. IsFiniteSet(from..(from + n - 1)) /\ S \in SUBSET (from..(from + n - 1))
      BY FS_Interval
    <2> QED
      BY <2>1, FS_Subset
  <1>2. h \in [S -> T]
    <2>1. ASSUME NEW i \in S PROVE i - from + to \in T
      <3>1. /\ i \in from..(from + n - 1) /\ f[i].page = p /\ i - from \in 0..(n - 1)
            /\ from + (i - from) = i /\ to + (i - from) = i - from + to
            /\ i - from + to \in to..(to + n - 1)
        OBVIOUS
      <3>2. g[to + (i - from)].page = f[from + (i - from)].page
        BY <3>1
      <3> QED
        BY <3>1, <3>2
    <2> QED
      BY <2>1
  <1>3. \A i, j \in S : h[i] = h[j] => i = j
    OBVIOUS
  <1>4. \A k \in T : \E i \in S : h[i] = k
    <2> TAKE k \in T
    <2> DEFINE i == k - to + from
    <2>1. /\ k \in to..(to + n - 1) /\ g[k].page = p /\ k - to \in 0..(n - 1)
          /\ to + (k - to) = k /\ from + (k - to) = i /\ i \in from..(from + n - 1)
          /\ i - from + to = k
      OBVIOUS
    <2>2. g[to + (k - to)].page = f[from + (k - to)].page
      BY <2>1
    <2>3. i \in S
      BY <2>1, <2>2
    <2> HIDE DEF i
    <2>4. h[i] = k
      BY <2>1, <2>3
    <2> QED
      BY <2>3, <2>4
  <1> HIDE DEF S, T, h
  <1>5. h \in Bijection(S, T)
    BY <1>2, <1>3, <1>4 DEF Bijection, Injection, Surjection, IsInjective
  <1>6. ExistsBijection(S, T)
    BY <1>5 DEF ExistsBijection
  <1>7. Cardinality(T) = Cardinality(S)
    BY <1>1, <1>6, FS_Bijection
  <1> QED
    BY <1>7 DEF S, T

\* r is b with its entries elsewhere in arrays that hold them.
Moved(b, r) ==
  /\ Shape(r)
  /\ r.pages = b.pages /\ r.refs = b.refs /\ r.tail = b.tail /\ r.baseSeq = b.baseSeq
  /\ r.lineStart = b.lineStart /\ r.scanFrom = b.scanFrom
  /\ Size(r) = Size(b)
  /\ \A i \in 0..(Size(b) - 1) : r.slot[r.base + i] = b.slot[b.base + i]

\* Moving entries changes neither lines nor counts.
LEMMA MovedKeeps ==
  ASSUME NEW b, NEW r, Shape(b), Moved(b, r), Laid(b)
  PROVE  Laid(r) /\ LinesOf(r) = LinesOf(b) /\ (Counted(b) => Counted(r))
  <1>1. /\ b.base \in Nat /\ b.used \in Nat /\ r.base \in Nat /\ r.used \in Nat
        /\ Size(b) = b.used - b.base /\ Size(r) = r.used - r.base /\ Size(r) = Size(b)
        /\ Size(b) \in Nat
    BY DEF Shape, Moved, Size
  <1>2. \A i \in 0..(Size(b) - 1) : r.slot[r.base + i] = b.slot[b.base + i]
    BY DEF Moved
  <1>3. r.pages = b.pages /\ r.refs = b.refs
    BY DEF Moved
  <1>4. Laid(r)
    <2> SUFFICES ASSUME NEW i \in r.base..(r.used - 1)
                 PROVE  /\ r.slot[i].page \in 1..Len(r.pages)
                        /\ r.slot[i].start <= r.slot[i].end
                        /\ r.slot[i].end <= Len(r.pages[r.slot[i].page])
      BY DEF Laid
    <2> DEFINE d == i - r.base
    <2>1. d \in 0..(Size(b) - 1) /\ r.base + d = i /\ b.base + d \in b.base..(b.used - 1)
      BY <1>1
    <2> HIDE DEF d
    <2>2. r.slot[i] = b.slot[b.base + d]
      BY <1>2, <2>1
    <2> QED
      BY <1>3, <2>1, <2>2 DEF Laid
  <1>5. LinesOf(r) = LinesOf(b)
    <2>1. ASSUME NEW i \in 1..Size(b) PROVE Extent(r, r.base + i - 1) = Extent(b, b.base + i - 1)
      <3>1. i - 1 \in 0..(Size(b) - 1) /\ r.base + (i - 1) = r.base + i - 1
            /\ b.base + (i - 1) = b.base + i - 1
        BY <1>1
      <3>2. r.slot[r.base + i - 1] = b.slot[b.base + i - 1]
        BY <1>2, <3>1
      <3> QED
        BY <1>3, <3>2 DEF Extent
    <2> QED
      BY <1>1, <2>1 DEF LinesOf
  <1>6. ASSUME Counted(b) PROVE Counted(r)
    <2>1. \A i \in 0..(Size(b) - 1) : r.slot[r.base + i].page = b.slot[b.base + i].page
      BY <1>2
    <2>2. \A p : Cardinality(Entries(r.slot, r.base, Size(b), p))
                   = Cardinality(Entries(b.slot, b.base, Size(b), p))
      <3>1. Alike(b.slot, r.slot, b.base, r.base, Size(b))
        BY <2>1 DEF Alike
      <3> QED
        BY <1>1, <3>1, CountMoved
    <2>3. r.base + Size(b) - 1 = r.used - 1 /\ b.base + Size(b) - 1 = b.used - 1
      BY <1>1
    <2>4. \A p : Cardinality(Users(r, p)) = Cardinality(Users(b, p))
      BY <2>2, <2>3 DEF Users, Entries
    <2> QED
      BY <1>3, <1>6, <2>4 DEF Counted
  <1> QED
    BY <1>4, <1>5, <1>6

\* A buffer whose arrays are full is given others.
LEMMA RoomIs ==
  ASSUME NEW b, Shape(b)
  PROVE  LET r == IF b.used = ArrayLength(b) THEN CompactOrGrow(b) ELSE b
         IN  Moved(b, r) /\ r.used < ArrayLength(r)
  <1> DEFINE n == ArrayLength(b)
             s == b.slot
  <1>1. /\ n \in Nat \ {0} /\ s \in [0..(n - 1) -> Entry] /\ b.base \in Nat /\ b.used \in Nat
        /\ b.base <= b.used /\ b.used <= n /\ Size(b) = b.used - b.base /\ DOMAIN s = 0..(n - 1)
        /\ Size(b) \in Nat
    BY DEF Shape, Size
  <1>2. Free \in Entry
    BY DEF Free, Entry
  <1>3. CASE b.used # n
    BY <1>1, <1>3 DEF Moved
  <1>4. CASE b.used = n /\ b.base > 0
    <2> DEFINE f == [i \in DOMAIN s |-> IF i < Size(b) THEN s[i + b.base] ELSE Free]
               r == [pages |-> b.pages, refs |-> b.refs, tail |-> b.tail, slot |-> f, base |-> 0,
                     used |-> Size(b), baseSeq |-> b.baseSeq, lineStart |-> b.lineStart,
                     scanFrom |-> b.scanFrom]
    <2>1. f \in [0..(n - 1) -> Entry]
      <3>1. \A i \in 0..(n - 1) : i < Size(b) => i + b.base \in 0..(n - 1)
        BY <1>1
      <3> QED
        BY <1>1, <1>2, <3>1
    <2>2. CompactOrGrow(b) = [b EXCEPT !.slot = f, !.used = @ - b.base, !.base = 0]
      BY <1>4 DEF CompactOrGrow
    <2> HIDE DEF f
    <2>3. CompactOrGrow(b) = r
      BY <1>1, <2>2 DEF Shape
    <2>4. ArrayLength(r) = n
      BY <1>1, <2>1, ArrayIs
    <2>5. Size(r) = Size(b) /\ Size(b) < n
      BY <1>1, <1>4 DEF Size
    <2>6. Shape(r)
      BY <1>1, <2>1, <2>4, <2>5 DEF Shape
    <2>7. \A i \in 0..(Size(b) - 1) : f[i] = s[b.base + i]
      <3>1. \A i \in 0..(Size(b) - 1) : i \in 0..(n - 1) /\ i < Size(b) /\ i + b.base = b.base + i
        BY <1>1
      <3> QED
        BY <1>1, <3>1 DEF f
    <2>8. \A i \in 0..(Size(b) - 1) : r.slot[r.base + i] = b.slot[b.base + i]
      BY <1>1, <2>7
    <2>9. Moved(b, r)
      BY <2>5, <2>6, <2>8 DEF Moved
    <2>10. r.used < ArrayLength(r)
      BY <2>4, <2>5
    <2> HIDE DEF r
    <2> QED
      BY <1>4, <2>3, <2>9, <2>10
  <1>5. CASE b.used = n /\ ~(b.base > 0)
    <2> DEFINE f == [i \in 0..(2 * n - 1) |-> IF i < n THEN s[i] ELSE Free]
               r == [pages |-> b.pages, refs |-> b.refs, tail |-> b.tail, slot |-> f, base |-> b.base,
                     used |-> b.used, baseSeq |-> b.baseSeq, lineStart |-> b.lineStart,
                     scanFrom |-> b.scanFrom]
    <2>1. f \in [0..(2 * n - 1) -> Entry]
      <3>1. \A i \in 0..(2 * n - 1) : i < n => i \in 0..(n - 1)
        BY <1>1
      <3> QED
        BY <1>1, <1>2, <3>1
    <2>2. CompactOrGrow(b) = [b EXCEPT !.slot = f]
      BY <1>5 DEF CompactOrGrow
    <2> HIDE DEF f
    <2>3. CompactOrGrow(b) = r
      BY <1>1, <2>2 DEF Shape
    <2>4. ArrayLength(r) = 2 * n
      <3>1. 2 * n \in Nat /\ DOMAIN r.slot = 0..(2 * n - 1)
        BY <1>1, <2>1
      <3> HIDE DEF r
      <3> QED
        BY <3>1, ArrayIs
    <2>5. Size(r) = Size(b) /\ b.used < 2 * n /\ 2 * n \in Nat \ {0} /\ b.base = 0
      BY <1>1, <1>5 DEF Size
    <2>6. Shape(r)
      BY <1>1, <2>1, <2>4, <2>5 DEF Shape
    <2>7. \A i \in 0..(Size(b) - 1) : r.slot[r.base + i] = b.slot[b.base + i]
      <3>1. \A i \in 0..(Size(b) - 1) : b.base + i \in 0..(2 * n - 1) /\ b.base + i < n
        BY <1>1, <1>5
      <3> QED
        BY <1>1, <3>1 DEF f
    <2>8. Moved(b, r)
      BY <2>5, <2>6, <2>7 DEF Moved
    <2>9. r.used < ArrayLength(r)
      BY <2>4, <2>5
    <2> HIDE DEF r
    <2> QED
      BY <1>5, <2>3, <2>8, <2>9
  <1> QED
    BY <1>3, <1>4, <1>5

\* How many lines use a page is a number.
LEMMA UsersFinite ==
  ASSUME NEW b, NEW p, b.base \in Nat, b.used \in Nat
  PROVE  IsFiniteSet(Users(b, p)) /\ Cardinality(Users(b, p)) \in Nat
  <1>1. IsFiniteSet(b.base..(b.used - 1)) /\ Users(b, p) \in SUBSET (b.base..(b.used - 1))
    <2>1. b.base \in Int /\ b.used - 1 \in Int
      OBVIOUS
    <2>2. IsFiniteSet(b.base..(b.used - 1))
      BY <2>1, FS_Interval
    <2> QED
      BY <2>2 DEF Users
  <1>2. IsFiniteSet(Users(b, p))
    BY <1>1, FS_Subset
  <1> QED
    BY <1>2, FS_CardinalityType

\* c is b with one more line, in that page.
LineAdded(b, page, line, c) ==
  /\ Shape(c) /\ Laid(c) /\ Counted(c)
  /\ c.pages = b.pages /\ c.tail = b.tail /\ c.baseSeq = b.baseSeq /\ c.scanFrom = b.scanFrom
  /\ c.refs = [b.refs EXCEPT ![page] = @ + 1]
  /\ LinesOf(c) = Append(LinesOf(b), Abstract!Trimmed(line))

\* pushLine appends a line without its carriage return and counts it.
LEMMA PushIs ==
  ASSUME NEW b, Shape(b), Laid(b), Counted(b), NEW page \in 1..Len(b.pages),
         NEW start \in Nat, NEW end \in Nat, start <= end, end <= Len(b.pages[page])
  PROVE  LET c == PushLine(b, page, start, end)
         IN  /\ LineAdded(b, page, Slice(b.pages[page], start, end), c)
             /\ c.lineStart = b.lineStart
  <1> DEFINE r == IF b.used = ArrayLength(b) THEN CompactOrGrow(b) ELSE b
             text == b.pages[page]
             e == [page |-> page, start |-> start, end |-> TrimmedEnd(text, start, end)]
             f == [r.slot EXCEPT ![r.used] = e]
             k == [b.refs EXCEPT ![page] = @ + 1]
             c == [pages |-> b.pages, refs |-> k, tail |-> b.tail, slot |-> f, base |-> r.base,
                   used |-> r.used + 1, baseSeq |-> b.baseSeq, lineStart |-> b.lineStart,
                   scanFrom |-> b.scanFrom]
             n == ArrayLength(r)
             last == Abstract!Trimmed(Slice(text, start, end))
  <1>1. Moved(b, r) /\ r.used < ArrayLength(r)
    BY RoomIs
  <1>2. PushLine(b, page, start, end)
          = [r EXCEPT !.slot[r.used] = e, !.used = @ + 1, !.refs[page] = @ + 1]
    BY DEF PushLine
  <1> HIDE DEF r
  <1>3. Laid(r) /\ LinesOf(r) = LinesOf(b) /\ Counted(r)
    BY <1>1, MovedKeeps
  <1>4. text \in Seq(Chars) /\ page \in Nat
    <2>1. b.pages \in Seq(Text) /\ page \in Nat
      BY DEF Shape
    <2>2. text \in Text
      BY <2>1, ElementOfSeq
    <2> QED
      BY <2>1, <2>2 DEF Text
  <1> HIDE DEF text
  <1>5. /\ TrimmedEnd(text, start, end) \in start..end
        /\ Slice(text, start, TrimmedEnd(text, start, end)) = last
    BY <1>4, TrimIs DEF text
  <1>6. e \in Entry /\ e.page = page /\ e.start = start /\ e.end = TrimmedEnd(text, start, end)
    BY <1>4, <1>5 DEF Entry
  <1> HIDE DEF e, last
  <1>7. /\ r = [pages |-> b.pages, refs |-> b.refs, tail |-> b.tail, slot |-> r.slot, base |-> r.base,
                used |-> r.used, baseSeq |-> b.baseSeq, lineStart |-> b.lineStart,
                scanFrom |-> b.scanFrom]
        /\ r.pages = b.pages /\ r.refs = b.refs /\ r.tail = b.tail
    BY <1>1 DEF Moved, Shape
  <1>8. PushLine(b, page, start, end) = c
    <2>1. r = [pages |-> b.pages, refs |-> b.refs, tail |-> b.tail, slot |-> r.slot, base |-> r.base,
                used |-> r.used, baseSeq |-> b.baseSeq, lineStart |-> b.lineStart,
                scanFrom |-> b.scanFrom]
      BY <1>7
    <2> DEFINE r1 == [r EXCEPT !.slot[r.used] = e]
               r2 == [r1 EXCEPT !.used = @ + 1]
               r3 == [r2 EXCEPT !.refs[page] = @ + 1]
    <2>2. [r EXCEPT !.slot[r.used] = e, !.used = @ + 1, !.refs[page] = @ + 1] = r3
      OBVIOUS
    <2>3. r1 = [pages |-> b.pages, refs |-> b.refs, tail |-> b.tail, slot |-> f, base |-> r.base,
                used |-> r.used, baseSeq |-> b.baseSeq, lineStart |-> b.lineStart,
                scanFrom |-> b.scanFrom]
      BY <2>1
    <2> HIDE DEF r1, f
    <2>4. r2 = [pages |-> b.pages, refs |-> b.refs, tail |-> b.tail, slot |-> f, base |-> r.base,
                used |-> r.used + 1, baseSeq |-> b.baseSeq, lineStart |-> b.lineStart,
                scanFrom |-> b.scanFrom]
      BY <2>3
    <2> HIDE DEF r2
    <2>5. r3 = c
      BY <2>4
    <2> HIDE DEF r3, c
    <2> QED
      BY <1>2, <2>2, <2>5
  <1>9. /\ n \in Nat \ {0} /\ r.slot \in [0..(n - 1) -> Entry] /\ r.base \in Nat /\ r.used \in Nat
        /\ r.base <= r.used /\ r.used < n /\ Size(r) = r.used - r.base /\ Size(r) \in Nat
        /\ r.used \in 0..(n - 1)
    <2>1. Shape(r)
      BY <1>1 DEF Moved
    <2>2. /\ n \in Nat \ {0} /\ r.slot \in [0..(n - 1) -> Entry] /\ r.base \in Nat /\ r.used \in Nat
          /\ r.base <= r.used
      BY <2>1 DEF Shape
    <2>3. r.used < n
      BY <1>1
    <2>4. Size(r) = r.used - r.base
      BY DEF Size
    <2> HIDE DEF n
    <2> QED
      BY <2>2, <2>3, <2>4
  <1> HIDE DEF n
  <1>10. /\ f \in [0..(n - 1) -> Entry] /\ f[r.used] = e
         /\ \A i \in 0..(n - 1) : i # r.used => f[i] = r.slot[i]
    BY <1>6, <1>9
  <1> HIDE DEF f
  <1>11. /\ k \in Seq(Int) /\ Len(k) = Len(b.refs) /\ k[page] = b.refs[page] + 1
         /\ \A p \in 1..Len(b.refs) : p # page => k[p] = b.refs[p]
    <2>1. b.refs \in Seq(Int) /\ page \in 1..Len(b.refs) /\ b.refs[page] + 1 \in Int
      <3>1. b.refs \in Seq(Int) /\ page \in 1..Len(b.refs)
        BY DEF Shape
      <3> QED
        BY <3>1, ElementOfSeq
    <2> QED
      BY <2>1, ExceptSeq
  <1> HIDE DEF k
  <1>12. /\ c.pages = b.pages /\ c.tail = b.tail /\ c.baseSeq = b.baseSeq /\ c.lineStart = b.lineStart
         /\ c.scanFrom = b.scanFrom /\ c.refs = k /\ c.slot = f /\ c.base = r.base
         /\ c.used = r.used + 1
         /\ c = [pages |-> c.pages, refs |-> c.refs, tail |-> c.tail, slot |-> c.slot,
                 base |-> c.base, used |-> c.used, baseSeq |-> c.baseSeq,
                 lineStart |-> c.lineStart, scanFrom |-> c.scanFrom]
    OBVIOUS
  <1> HIDE DEF c
  <1>13. ArrayLength(c) = n
    <2>1. DOMAIN c.slot = 0..(n - 1) /\ n \in Nat
      BY <1>9, <1>10, <1>12
    <2> QED
      BY <2>1, ArrayIs
  <1>14. Size(c) = Size(r) + 1 /\ c.base \in Nat /\ c.used \in Nat
    BY <1>9, <1>12 DEF Size
  <1>15. c.base = r.base /\ Size(c) \in Nat \ {0} /\ c.base + Size(c) - 1 = r.used
    <2>1. c.base = r.base
      BY <1>12
    <2>2. r.base \in Nat /\ r.used \in Nat /\ Size(r) \in Nat /\ Size(r) = r.used - r.base
      BY <1>9
    <2> QED
      BY <1>14, <2>1, <2>2
  <1>16. Shape(c)
    <2>1. c.base <= c.used /\ c.used <= n
      BY <1>9, <1>12
    <2>2. /\ b.pages \in Seq(Text) /\ Len(b.refs) = Len(b.pages) /\ b.tail \in 1..Len(b.pages)
          /\ b.baseSeq \in Int /\ b.lineStart \in Nat /\ b.scanFrom \in Nat
      BY DEF Shape
    <2> QED
      BY <1>9, <1>10, <1>11, <1>12, <1>13, <1>14, <2>1, <2>2 DEF Shape
  <1>17. \A i \in r.base..(r.used - 1) : c.slot[i] = r.slot[i]
    <2>1. \A i \in r.base..(r.used - 1) : i \in 0..(n - 1) /\ i # r.used
      BY <1>9
    <2> QED
      BY <1>10, <1>12, <2>1
  <1>18. Laid(c)
    <2> SUFFICES ASSUME NEW i \in c.base..(c.used - 1)
                 PROVE  /\ c.slot[i].page \in 1..Len(c.pages)
                        /\ c.slot[i].start <= c.slot[i].end
                        /\ c.slot[i].end <= Len(c.pages[c.slot[i].page])
      BY DEF Laid
    <2>1. CASE i = r.used
      <3>1. c.slot[i] = e /\ c.pages[page] = text
        BY <1>10, <1>12, <2>1 DEF text
      <3>2. e.start <= e.end /\ e.end <= end /\ Len(text) \in Nat /\ e.end \in Nat
        BY <1>4, <1>5, <1>6, LenProperties
      <3>3. end <= Len(text)
        BY DEF text
      <3>4. e.end <= Len(text)
        BY <3>2, <3>3
      <3> QED
        BY <1>6, <1>12, <3>1, <3>2, <3>4
    <2>2. CASE i # r.used
      <3>1. i \in r.base..(r.used - 1)
        BY <1>9, <1>12, <2>2
      <3> QED
        BY <1>3, <1>7, <1>12, <1>17, <3>1 DEF Laid
    <2> QED
      BY <2>1, <2>2
  <1>19. Counted(c)
    <2> SUFFICES ASSUME NEW p \in 1..Len(c.pages) PROVE c.refs[p] = Cardinality(Users(c, p))
      BY DEF Counted
    <2>1. IsFiniteSet(Users(r, p)) /\ Cardinality(Users(r, p)) \in Nat
      BY <1>9, UsersFinite
    <2>2. r.refs[p] = Cardinality(Users(r, p)) /\ p \in 1..Len(b.refs)
      BY <1>3, <1>7, <1>12 DEF Counted, Shape
    <2>3. r.used \notin Users(r, p)
      BY <1>9 DEF Users
    <2>4. \A i \in c.base..(c.used - 1) : i = r.used \/ i \in r.base..(r.used - 1)
      BY <1>9, <1>12
    <2>5. \A i \in r.base..(r.used - 1) : i \in c.base..(c.used - 1) /\ r.used \in c.base..(c.used - 1)
      BY <1>9, <1>12
    <2>6. r.used \in c.base..(c.used - 1) /\ c.slot[r.used].page = page
      BY <1>6, <1>9, <1>10, <1>12
    <2>7. CASE p = page
      <3>1. Users(c, p) = Users(r, p) \cup {r.used}
        BY <1>17, <2>4, <2>5, <2>6, <2>7 DEF Users
      <3>2. Cardinality(Users(c, p)) = Cardinality(Users(r, p)) + 1
        BY <2>1, <2>3, <3>1, FS_AddElement
      <3>3. c.refs[p] = b.refs[p] + 1 /\ r.refs[p] = b.refs[p]
        BY <1>7, <1>11, <1>12, <2>7
      <3> QED
        BY <2>2, <3>2, <3>3
    <2>8. CASE p # page
      <3>1. Users(c, p) = Users(r, p)
        BY <1>17, <2>4, <2>5, <2>6, <2>8 DEF Users
      <3> QED
        BY <1>7, <1>11, <1>12, <2>2, <2>8, <3>1
    <2> QED
      BY <2>7, <2>8
  <1>20. LinesOf(c) = Append(LinesOf(r), last)
    <2>1. /\ LinesOf(r) \in Seq(Text) /\ Len(LinesOf(r)) = Size(r) /\ Size(r) \in Nat
          /\ \A i \in 1..Size(r) : LinesOf(r)[i] = Extent(r, r.base + i - 1)
      <3>1. Shape(r)
        BY <1>1 DEF Moved
      <3> QED
        BY <1>3, <3>1, LinesAre
    <2>2. /\ LinesOf(c) \in Seq(Text) /\ Len(LinesOf(c)) = Size(c)
          /\ \A i \in 1..Size(c) : LinesOf(c)[i] = Extent(c, c.base + i - 1)
      BY <1>16, <1>18, LinesAre
    <2>3. c.base + Size(c) - 1 = r.used /\ Size(c) \in 1..Size(c)
      BY <1>15
    <2>4. LinesOf(c)[Size(c)] = last
      <3>1. Extent(c, r.used) = last
        BY <1>5, <1>6, <1>10, <1>12 DEF Extent, text
      <3> QED
        BY <2>2, <2>3, <3>1
    <2>5. last \in Text
      BY <2>2, <2>3, <2>4, ElementOfSeq
    <2>6. \A i \in 1..Size(r) : LinesOf(c)[i] = LinesOf(r)[i]
      <3> TAKE i \in 1..Size(r)
      <3>1. i \in 1..Size(c) /\ r.base + i - 1 \in r.base..(r.used - 1)
        <4>1. Size(r) = r.used - r.base /\ r.used \in Nat /\ r.base \in Nat /\ Size(r) \in Nat
          BY <1>9
        <4>2. Size(c) = Size(r) + 1
          BY <1>14
        <4> QED
          BY <4>1, <4>2
      <3>2. Extent(c, c.base + i - 1) = Extent(r, r.base + i - 1)
        BY <1>7, <1>12, <1>17, <3>1 DEF Extent
      <3> QED
        BY <2>1, <2>2, <3>1, <3>2
    <2> DEFINE u == LinesOf(r)
               w == LinesOf(c)
    <2>7. /\ u \in Seq(Text) /\ w \in Seq(Text) /\ Len(w) = Len(u) + 1 /\ Len(u) \in Nat
          /\ w[Len(u) + 1] = last /\ \A i \in 1..Len(u) : w[i] = u[i]
      BY <1>14, <2>1, <2>2, <2>4, <2>6
    <2> HIDE DEF u, w
    <2>8. /\ Append(u, last) \in Seq(Text) /\ Len(Append(u, last)) = Len(u) + 1
          /\ \A i \in 1..Len(u) : Append(u, last)[i] = u[i]
          /\ Append(u, last)[Len(u) + 1] = last
      BY <2>5, <2>7, AppendProperties
    <2>9. \A i \in 1..Len(w) : w[i] = Append(u, last)[i]
      <3>1. \A i \in 1..Len(w) : i \in 1..Len(u) \/ i = Len(u) + 1
        BY <2>7
      <3> QED
        BY <2>7, <2>8, <3>1
    <2>10. w = Append(u, last)
      BY <2>7, <2>8, <2>9, SeqEqual
    <2> QED
      BY <2>10 DEF u, w
  <1> QED
    BY <1>3, <1>8, <1>12, <1>16, <1>18, <1>19, <1>20 DEF k, last, text, LineAdded

\* d is c but for how far the tail page is scanned.
Rescanned(c, d) ==
  /\ d.pages = c.pages /\ d.refs = c.refs /\ d.tail = c.tail /\ d.slot = c.slot
  /\ d.base = c.base /\ d.used = c.used /\ d.baseSeq = c.baseSeq

\* The offsets in the tail page are no part of lines and counts.
LEMMA RescannedKeeps ==
  ASSUME NEW c, NEW d, Rescanned(c, d), Laid(c)
  PROVE  Laid(d) /\ LinesOf(d) = LinesOf(c) /\ Size(d) = Size(c) /\ (Counted(c) => Counted(d))
  <1> USE DEF Rescanned
  <1>1. Size(d) = Size(c)
    BY DEF Size
  <1>2. Laid(d)
    BY DEF Laid
  <1>3. LinesOf(d) = LinesOf(c)
    BY <1>1 DEF LinesOf, Extent
  <1>4. \A p : Users(d, p) = Users(c, p)
    BY DEF Users
  <1>5. Counted(c) => Counted(d)
    BY <1>4 DEF Counted
  <1> QED
    BY <1>1, <1>2, <1>3, <1>5

\* The next line begins elsewhere.
LEMMA LineStartSet ==
  ASSUME NEW c, Shape(c), NEW at \in Nat
  PROVE  LET d == [c EXCEPT !.lineStart = at]
         IN  Shape(d) /\ Rescanned(c, d) /\ d.lineStart = at /\ d.scanFrom = c.scanFrom
  <1> DEFINE d == [c EXCEPT !.lineStart = at]
  <1>1. d = [pages |-> c.pages, refs |-> c.refs, tail |-> c.tail, slot |-> c.slot, base |-> c.base,
             used |-> c.used, baseSeq |-> c.baseSeq, lineStart |-> at, scanFrom |-> c.scanFrom]
    <2>1. c = [pages |-> c.pages, refs |-> c.refs, tail |-> c.tail, slot |-> c.slot, base |-> c.base,
               used |-> c.used, baseSeq |-> c.baseSeq, lineStart |-> c.lineStart,
               scanFrom |-> c.scanFrom]
      BY DEF Shape
    <2> QED
      BY <2>1
  <1> HIDE DEF d
  <1>2. Rescanned(c, d) /\ d.lineStart = at /\ d.scanFrom = c.scanFrom
    BY <1>1 DEF Rescanned
  <1>3. ArrayLength(d) = ArrayLength(c)
    BY <1>1 DEF ArrayLength
  <1>4. Shape(d)
    BY <1>1, <1>3 DEF Shape
  <1> QED
    BY <1>2, <1>4 DEF d

\* The tail page is scanned up to elsewhere.
LEMMA ScanFromSet ==
  ASSUME NEW c, Shape(c), NEW at \in Nat
  PROVE  LET d == [c EXCEPT !.scanFrom = at]
         IN  Shape(d) /\ Rescanned(c, d) /\ d.lineStart = c.lineStart /\ d.scanFrom = at
  <1> DEFINE d == [c EXCEPT !.scanFrom = at]
  <1>1. d = [pages |-> c.pages, refs |-> c.refs, tail |-> c.tail, slot |-> c.slot, base |-> c.base,
             used |-> c.used, baseSeq |-> c.baseSeq, lineStart |-> c.lineStart, scanFrom |-> at]
    <2>1. c = [pages |-> c.pages, refs |-> c.refs, tail |-> c.tail, slot |-> c.slot, base |-> c.base,
               used |-> c.used, baseSeq |-> c.baseSeq, lineStart |-> c.lineStart,
               scanFrom |-> c.scanFrom]
      BY DEF Shape
    <2> QED
      BY <2>1
  <1> HIDE DEF d
  <1>2. Rescanned(c, d) /\ d.lineStart = c.lineStart /\ d.scanFrom = at
    BY <1>1 DEF Rescanned
  <1>3. ArrayLength(d) = ArrayLength(c)
    BY <1>1 DEF ArrayLength
  <1>4. Shape(d)
    BY <1>1, <1>3 DEF Shape
  <1> QED
    BY <1>2, <1>4 DEF d

\* A line of pages where the pages of lines have the same text up to its end.
LEMMA LinesStay ==
  ASSUME NEW c, NEW d, Shape(c), Laid(c),
         d.slot = c.slot, d.base = c.base, d.used = c.used,
         d.pages \in Seq(Text), Len(c.pages) <= Len(d.pages),
         \A i \in c.base..(c.used - 1) :
           /\ Len(c.pages[c.slot[i].page]) <= Len(d.pages[c.slot[i].page])
           /\ \A j \in 1..Len(c.pages[c.slot[i].page]) :
                d.pages[c.slot[i].page][j] = c.pages[c.slot[i].page][j]
  PROVE  Laid(d) /\ LinesOf(d) = LinesOf(c) /\ Size(d) = Size(c)
  <1>1. Size(d) = Size(c) /\ Len(c.pages) \in Nat /\ Len(d.pages) \in Nat
    BY LenProperties DEF Size, Shape
  <1>2. ASSUME NEW i \in c.base..(c.used - 1)
        PROVE  /\ c.slot[i].page \in 1..Len(c.pages) /\ c.slot[i].page \in 1..Len(d.pages)
               /\ c.slot[i].start \in Nat /\ c.slot[i].end \in Nat /\ c.slot[i].start <= c.slot[i].end
               /\ c.slot[i].end <= Len(c.pages[c.slot[i].page])
               /\ c.pages[c.slot[i].page] \in Seq(Chars) /\ d.pages[c.slot[i].page] \in Seq(Chars)
    <2>1. c.slot[i].page \in 1..Len(c.pages) /\ c.slot[i].page \in 1..Len(d.pages)
      BY <1>1 DEF Laid
    <2>2. c.slot[i].start <= c.slot[i].end /\ c.slot[i].end <= Len(c.pages[c.slot[i].page])
      BY DEF Laid
    <2>3. i \in 0..(ArrayLength(c) - 1)
      <3>1. c.base \in Nat /\ c.used \in Nat /\ ArrayLength(c) \in Nat /\ c.used <= ArrayLength(c)
        BY DEF Shape
      <3> QED
        BY <3>1
    <2>4. c.slot[i] \in Entry
      BY <2>3 DEF Shape
    <2>5. c.slot[i].start \in Nat /\ c.slot[i].end \in Nat
      BY <2>4 DEF Entry
    <2>6. c.pages[c.slot[i].page] \in Seq(Chars)
      BY <2>1, ElementOfSeq DEF Shape, Text
    <2>7. d.pages[c.slot[i].page] \in Seq(Chars)
      BY <2>1, ElementOfSeq DEF Text
    <2> QED
      BY <2>1, <2>2, <2>5, <2>6, <2>7
  <1>3. ASSUME NEW i \in c.base..(c.used - 1)
        PROVE  Extent(d, i) = Extent(c, i) /\ c.slot[i].end <= Len(d.pages[c.slot[i].page])
    <2> DEFINE t == c.pages[c.slot[i].page]
               u == d.pages[c.slot[i].page]
               x == c.slot[i].start
               y == c.slot[i].end
    <2>1. t \in Seq(Chars) /\ u \in Seq(Chars) /\ x \in Nat /\ y \in Nat /\ x <= y /\ y <= Len(t)
      BY <1>2
    <2>2. Len(t) <= Len(u) /\ \A j \in 1..Len(t) : u[j] = t[j]
      OBVIOUS
    <2>3. Extent(d, i) = Slice(u, x, y) /\ Extent(c, i) = Slice(t, x, y)
      BY DEF Extent
    <2> HIDE DEF t, u, x, y
    <2>4. Len(t) \in Nat /\ Len(u) \in Nat
      BY <2>1, LenProperties
    <2>5. y <= Len(u) /\ \A j \in (x + 1)..y : u[j] = t[j]
      <3>1. \A j \in (x + 1)..y : j \in 1..Len(t)
        BY <2>1, <2>4
      <3> QED
        BY <2>1, <2>2, <2>4, <3>1
    <2>6. Slice(u, x, y) = Slice(t, x, y)
      BY <2>1, <2>5, SliceSame
    <2> QED
      BY <2>3, <2>5, <2>6 DEF u, y
  <1>4. Laid(d)
    BY <1>2, <1>3 DEF Laid
  <1>5. LinesOf(d) = LinesOf(c)
    <2>1. \A i \in 1..Size(c) : c.base + i - 1 \in c.base..(c.used - 1)
      <3>1. c.base \in Nat /\ c.used \in Nat /\ Size(c) = c.used - c.base
        BY DEF Shape, Size
      <3> QED
        BY <3>1
    <2>2. \A i \in 1..Size(c) : Extent(d, c.base + i - 1) = Extent(c, c.base + i - 1)
      BY <1>3, <2>1
    <2> QED
      BY <1>1, <2>2 DEF LinesOf
  <1> QED
    BY <1>1, <1>4, <1>5

-----------------------------------------------------------------------------
(* append.                                                                  *)

\* The tail page gets more text.
LEMMA TextAdded ==
  ASSUME NEW b, Shape(b), Laid(b), Counted(b), NEW text \in Text,
         Len(b.pages[b.tail]) <= Len(text),
         \A j \in 1..Len(b.pages[b.tail]) : text[j] = b.pages[b.tail][j]
  PROVE  LET c == [b EXCEPT !.pages[b.tail] = text]
         IN  /\ Shape(c) /\ Laid(c) /\ Counted(c) /\ LinesOf(c) = LinesOf(b)
             /\ c.pages = [b.pages EXCEPT ![b.tail] = text]
             /\ c.tail = b.tail /\ c.baseSeq = b.baseSeq /\ c.lineStart = b.lineStart
             /\ c.scanFrom = b.scanFrom /\ c.refs = b.refs
  <1> DEFINE ps == [b.pages EXCEPT ![b.tail] = text]
             c == [b EXCEPT !.pages[b.tail] = text]
  <1>1. b.pages \in Seq(Text) /\ b.tail \in 1..Len(b.pages) /\ b.tail \in Nat /\ Len(b.pages) \in Nat
    <2>1. b.pages \in Seq(Text) /\ b.tail \in 1..Len(b.pages)
      BY DEF Shape
    <2> QED
      BY <2>1, LenProperties
  <1>2. /\ ps \in Seq(Text) /\ Len(ps) = Len(b.pages) /\ ps[b.tail] = text
        /\ \A p \in 1..Len(b.pages) : p # b.tail => ps[p] = b.pages[p]
    BY <1>1, ExceptSeq
  <1>3. c = [pages |-> ps, refs |-> b.refs, tail |-> b.tail, slot |-> b.slot, base |-> b.base,
             used |-> b.used, baseSeq |-> b.baseSeq, lineStart |-> b.lineStart,
             scanFrom |-> b.scanFrom]
    <2>1. b = [pages |-> b.pages, refs |-> b.refs, tail |-> b.tail, slot |-> b.slot, base |-> b.base,
               used |-> b.used, baseSeq |-> b.baseSeq, lineStart |-> b.lineStart,
               scanFrom |-> b.scanFrom]
      BY DEF Shape
    <2>2. c = [b EXCEPT !.pages = ps]
      OBVIOUS
    <2> HIDE DEF ps, c
    <2> QED
      BY <2>1, <2>2
  <1> HIDE DEF ps, c
  <1>4. /\ c.pages = ps /\ c.refs = b.refs /\ c.tail = b.tail /\ c.slot = b.slot /\ c.base = b.base
        /\ c.used = b.used /\ c.baseSeq = b.baseSeq /\ c.lineStart = b.lineStart
        /\ c.scanFrom = b.scanFrom
    BY <1>3
  <1>5. ArrayLength(c) = ArrayLength(b)
    BY <1>4 DEF ArrayLength
  <1>6. Shape(c)
    BY <1>2, <1>3, <1>4, <1>5 DEF Shape
  <1>7. Laid(c) /\ LinesOf(c) = LinesOf(b)
    <2>1. ASSUME NEW i \in b.base..(b.used - 1)
          PROVE  /\ Len(b.pages[b.slot[i].page]) <= Len(c.pages[b.slot[i].page])
                 /\ \A j \in 1..Len(b.pages[b.slot[i].page]) :
                      c.pages[b.slot[i].page][j] = b.pages[b.slot[i].page][j]
      <3>1. b.slot[i].page \in 1..Len(b.pages)
        BY DEF Laid
      <3>2. CASE b.slot[i].page = b.tail
        BY <1>2, <1>4, <3>2
      <3>3. CASE b.slot[i].page # b.tail
        <4>1. c.pages[b.slot[i].page] = b.pages[b.slot[i].page]
          BY <1>2, <1>4, <3>1, <3>3
        <4>2. Len(b.pages[b.slot[i].page]) \in Nat
          BY <1>1, <3>1, ElementOfSeq, LenProperties DEF Text
        <4> QED
          BY <4>1, <4>2
      <3> QED
        BY <3>2, <3>3
    <2>2. c.pages \in Seq(Text) /\ Len(b.pages) <= Len(c.pages)
      BY <1>1, <1>2, <1>4
    <2> QED
      BY <1>4, <2>1, <2>2, LinesStay
  <1>8. Counted(c)
    <2>1. \A p : Users(c, p) = Users(b, p)
      BY <1>4 DEF Users
    <2> QED
      BY <1>2, <1>4, <2>1 DEF Counted
  <1> QED
    BY <1>4, <1>6, <1>7, <1>8 DEF c, ps

\* A line without its carriage return is a line.
LEMMA TrimmedText ==
  ASSUME NEW line \in Text
  PROVE  Abstract!Trimmed(line) \in Text
  <1>1. line \in Seq(Chars) /\ Len(line) \in Nat
    BY LenProperties DEF Text
  <1>2. Slice(line, 0, Len(line)) = line
    BY <1>1, SubSeqFull DEF Slice
  <1>3. TrimmedEnd(line, 0, Len(line)) \in 0..Len(line)
    BY <1>1, TrimIs
  <1>4. Slice(line, 0, TrimmedEnd(line, 0, Len(line))) = Abstract!Trimmed(line)
    <2>1. 0 \in Nat /\ 0 <= Len(line) /\ Len(line) <= Len(line)
      BY <1>1
    <2> QED
      BY <1>1, <1>2, <2>1, TrimIs
  <1> DEFINE e == TrimmedEnd(line, 0, Len(line))
  <1>5. e \in Nat /\ 0 <= e /\ e <= Len(line)
    BY <1>1, <1>3
  <1> HIDE DEF e
  <1>6. Slice(line, 0, e) \in Seq(Chars)
    BY <1>1, <1>5, SliceIs
  <1> QED
    BY <1>4, <1>6 DEF e, Text

\* Lines without their carriage returns.
LEMMA TrimAllIs ==
  ASSUME NEW ls \in Seq(Text)
  PROVE  /\ Abstract!TrimAll(ls) \in Seq(Text) /\ Len(Abstract!TrimAll(ls)) = Len(ls)
         /\ \A i \in 1..Len(ls) : Abstract!TrimAll(ls)[i] = Abstract!Trimmed(ls[i])
  <1> DEFINE f == Abstract!TrimAll(ls)
  <1>1. Len(ls) \in Nat /\ DOMAIN ls = 1..Len(ls)
    BY LenProperties
  <1>2. \A i \in 1..Len(ls) : Abstract!Trimmed(ls[i]) \in Text
    BY ElementOfSeq, TrimmedText
  <1>3. f = [i \in 1..Len(ls) |-> Abstract!Trimmed(ls[i])]
    BY <1>1 DEF Abstract!TrimAll
  <1> HIDE DEF f
  <1>4. f \in [1..Len(ls) -> Text]
    BY <1>2, <1>3
  <1>5. f \in Seq(Text) /\ Len(f) = Len(ls)
    BY <1>1, <1>4
  <1> QED
    BY <1>3, <1>5 DEF f

\* One line more.
LEMMA TrimAllAppends ==
  ASSUME NEW ls \in Seq(Text), NEW line \in Text
  PROVE  Abstract!TrimAll(Append(ls, line)) = Append(Abstract!TrimAll(ls), Abstract!Trimmed(line))
  <1> DEFINE more == Append(ls, line)
             f == Abstract!TrimAll(more)
             g == Abstract!TrimAll(ls)
             l == Abstract!Trimmed(line)
             h == Append(g, l)
  <1>1. /\ more \in Seq(Text) /\ Len(more) = Len(ls) + 1 /\ Len(ls) \in Nat
        /\ \A i \in 1..Len(ls) : more[i] = ls[i]
        /\ more[Len(ls) + 1] = line
    BY AppendProperties, LenProperties
  <1> HIDE DEF more
  <1>2. /\ f \in Seq(Text) /\ Len(f) = Len(more)
        /\ \A i \in 1..Len(more) : f[i] = Abstract!Trimmed(more[i])
    BY <1>1, TrimAllIs
  <1>3. /\ g \in Seq(Text) /\ Len(g) = Len(ls)
        /\ \A i \in 1..Len(ls) : g[i] = Abstract!Trimmed(ls[i])
    BY TrimAllIs
  <1>4. l \in Text
    BY TrimmedText
  <1> HIDE DEF f, g
  <1>5. /\ h \in Seq(Text) /\ Len(h) = Len(g) + 1
        /\ \A i \in 1..Len(g) : h[i] = g[i]
        /\ h[Len(g) + 1] = l
    BY <1>3, <1>4, AppendProperties
  <1> HIDE DEF h
  <1>6. \A i \in 1..Len(f) : f[i] = h[i]
    <2> TAKE i \in 1..Len(f)
    <2>1. CASE i = Len(ls) + 1
      BY <1>1, <1>2, <1>3, <1>5, <2>1
    <2>2. CASE i # Len(ls) + 1
      <3>1. i \in 1..Len(ls) /\ i \in 1..Len(more)
        BY <1>1, <1>2, <2>2
      <3> QED
        BY <1>1, <1>2, <1>3, <1>5, <3>1
    <2> QED
      BY <2>1, <2>2
  <1>7. f = h
    BY <1>1, <1>2, <1>3, <1>5, <1>6, SeqEqual
  <1> QED
    BY <1>7 DEF f, g, h, more

\* A sequence is appended to with its second part.
LEMMA ConcatAppend ==
  ASSUME NEW s \in Seq(Text), NEW t \in Seq(Text), NEW e \in Text
  PROVE  Append(s \o t, e) = s \o Append(t, e)
  <1>1. s \o t \in Seq(Text) /\ <<e>> \in Seq(Text)
    BY ConcatProperties
  <1>2. Append(s \o t, e) = (s \o t) \o <<e>> /\ Append(t, e) = t \o <<e>>
    BY <1>1, AppendIsConcat
  <1> QED
    BY <1>1, <1>2, ConcatAssociative

\* While no line ends, reading adds to the rest.
LEMMA ReadPrefix ==
  ASSUME NEW text \in Seq(Chars), NEW m \in 0..Len(text), NEW blanks,
         \A j \in 1..m : text[j] # NL
  PROVE  Abstract!Reading(text, blanks)[m] = [done |-> <<>>, rest |-> Slice(text, 0, m)]
  <1> DEFINE r == Abstract!Reading(text, blanks)
             S == {i \in 0..m : r[i] = [done |-> <<>>, rest |-> Slice(text, 0, i)]}
  <1>1. Len(text) \in Nat /\ m \in Nat /\ m <= Len(text)
    BY LenProperties
  <1>2. /\ r[0] = [done |-> <<>>, rest |-> <<>>]
        /\ \A i \in 1..Len(text) : r[i] = Abstract!ReadChar(r[i - 1], text[i], blanks)
    BY <1>1, ReadingIs
  <1> HIDE DEF r
  <1>3. 0 \in S
    <2>1. Slice(text, 0, 0) = <<>>
      BY SliceEmpty
    <2> QED
      BY <1>1, <1>2, <2>1
  <1>4. ASSUME NEW k \in 0..(m - 1), k \in S PROVE k + 1 \in S
    <2>1. k \in Nat /\ k + 1 \in 1..Len(text) /\ k + 1 \in 0..m /\ (k + 1) - 1 = k /\ k < Len(text)
          /\ k + 1 \in 1..m
      BY <1>1
    <2> DEFINE acc == r[k]
               char == text[k + 1]
               rest == Slice(text, 0, k)
               none == <<>>
    <2>2. acc = [done |-> none, rest |-> rest]
      BY <1>4
    <2>3. r[k + 1] = Abstract!ReadChar(acc, char, blanks) /\ char # NL
      BY <1>2, <2>1
    <2>4. Append(rest, char) = Slice(text, 0, k + 1)
      <3>1. 0 \in Nat /\ 0 <= k
        BY <2>1
      <3> QED
        BY <2>1, <3>1, SliceGrows
    <2> HIDE DEF acc, char, rest, none
    <2>5. r[k + 1] = [acc EXCEPT !.rest = Append(@, char)]
      BY <2>3 DEF Abstract!ReadChar
    <2>6. [acc EXCEPT !.rest = Append(@, char)] = [done |-> none, rest |-> Append(rest, char)]
      BY <2>2, CharAdded
    <2> QED
      BY <2>1, <2>4, <2>5, <2>6 DEF none
  <1>5. m \in S
    <2> HIDE DEF S
    <2>1. 0..m \subseteq S
      BY <1>1, <1>3, <1>4, UpTo
    <2> QED
      BY <1>1, <2>1
  <1> QED
    BY <1>5 DEF r

\* A slice of what lies behind an offset.
LEMMA SliceOfSlice ==
  ASSUME NEW C, NEW text \in Seq(C), NEW start \in Nat, NEW n \in Nat, start + n <= Len(text)
  PROVE  Slice(Slice(text, start, Len(text)), 0, n) = Slice(text, start, start + n)
  <1> DEFINE w == Slice(text, start, Len(text))
             one == Slice(w, 0, n)
             other == Slice(text, start, start + n)
  <1>1. Len(text) \in Nat /\ start <= Len(text) /\ start <= start + n /\ start + n \in Nat
        /\ 0 \in Nat /\ 0 <= n /\ Len(text) <= Len(text)
    BY LenProperties
  <1>2. /\ w \in Seq(C) /\ Len(w) = Len(text) - start
        /\ \A j \in 1..(Len(text) - start) : w[j] = text[start + j]
    BY <1>1, SliceIs
  <1>3. /\ other \in Seq(C) /\ Len(other) = (start + n) - start
        /\ \A j \in 1..((start + n) - start) : other[j] = text[start + j]
    BY <1>1, SliceIs
  <1> HIDE DEF w, other
  <1>4. n <= Len(w)
    BY <1>1, <1>2
  <1>5. /\ one \in Seq(C) /\ Len(one) = n - 0 /\ \A j \in 1..(n - 0) : one[j] = w[0 + j]
    <2>1. w \in Seq(C) /\ 0 \in Nat /\ n \in Nat /\ 0 <= n /\ n <= Len(w)
      BY <1>1, <1>2, <1>4
    <2> QED
      BY <2>1, SliceIs
  <1> HIDE DEF one
  <1>6. (start + n) - start = n /\ n - 0 = n
    BY <1>1
  <1>7. \A j \in 1..Len(one) : one[j] = other[j]
    <2> TAKE j \in 1..Len(one)
    <2>1. j \in 1..n /\ 0 + j = j /\ j \in 1..(Len(text) - start)
      BY <1>1, <1>5, <1>6
    <2> QED
      BY <1>2, <1>3, <1>5, <1>6, <2>1
  <1>8. one = other
    BY <1>3, <1>5, <1>6, <1>7, SeqEqual
  <1> QED
    BY <1>8 DEF one, other, w

\* append commits a line of the tail page.
LEMMA CommitIs ==
  ASSUME NEW b, Shape(b), Laid(b), Counted(b), NEW nl \in Nat,
         b.lineStart <= nl, nl <= Len(b.pages[b.tail])
  PROVE  LET c == CommitLine(b, nl)
         IN  /\ LineAdded(b, b.tail, Slice(b.pages[b.tail], b.lineStart, nl), c)
             /\ c.lineStart = nl + 1
  <1> DEFINE d == PushLine(b, b.tail, b.lineStart, nl)
             at == nl + 1
             c == [d EXCEPT !.lineStart = at]
             line == Slice(b.pages[b.tail], b.lineStart, nl)
  <1>1. b.tail \in 1..Len(b.pages) /\ b.lineStart \in Nat /\ at \in Nat
    BY DEF Shape
  <1>2. LineAdded(b, b.tail, line, d)
    BY <1>1, PushIs
  <1> HIDE DEF d, at, line
  <1>3. Shape(d) /\ Laid(d) /\ Counted(d)
    BY <1>2 DEF LineAdded
  <1>4. Shape(c) /\ Rescanned(d, c) /\ c.lineStart = at /\ c.scanFrom = d.scanFrom
    BY <1>1, <1>3, LineStartSet
  <1> HIDE DEF c
  <1>5. Laid(c) /\ LinesOf(c) = LinesOf(d) /\ Counted(c)
    BY <1>3, <1>4, RescannedKeeps
  <1>6. LineAdded(b, b.tail, line, c)
    BY <1>2, <1>4, <1>5 DEF Rescanned, LineAdded
  <1>7. CommitLine(b, nl) = c
    BY DEF CommitLine, c, d, at
  <1> QED
    BY <1>4, <1>6, <1>7 DEF at, line

\* The tail page is scanned to its end, and there is no newline behind the last
\* line's.
Scanned(b) ==
  /\ b.scanFrom = Len(b.pages[b.tail]) /\ b.lineStart <= Len(b.pages[b.tail])
  /\ \A j \in (b.lineStart + 1)..Len(b.pages[b.tail]) : b.pages[b.tail][j] # NL

\* c has the lines of b and those that text holds up to offset i, which are
\* the lines acc has read.
Indexed(b, text, i, c, acc) ==
  /\ Shape(c) /\ Laid(c) /\ Counted(c)
  /\ c.pages = [b.pages EXCEPT ![b.tail] = text]
  /\ c.tail = b.tail /\ c.baseSeq = b.baseSeq /\ c.scanFrom = b.scanFrom
  /\ c.lineStart \in b.lineStart..i
  /\ \A j \in (c.lineStart + 1)..i : text[j] # NL
  /\ \A p \in 1..Len(b.pages) : p # b.tail => c.refs[p] = b.refs[p]
  /\ c.lineStart = b.lineStart \/ c.refs[b.tail] >= 1
  /\ acc.done \in Seq(Text)
  /\ acc = [done |-> acc.done, rest |-> Slice(text, c.lineStart, i)]
  /\ LinesOf(c) = LinesOf(b) \o Abstract!TrimAll(acc.done)

\* A character that ends no line.
LEMMA IndexedOn ==
  ASSUME NEW b, NEW text \in Text, NEW i \in Nat, i < Len(text), NEW c, NEW acc,
         b.lineStart \in Nat, Indexed(b, text, i, c, acc), text[i + 1] # NL
  PROVE  Indexed(b, text, i + 1, c, Abstract!ReadChar(acc, text[i + 1], TRUE))
  <1> DEFINE more == Abstract!ReadChar(acc, text[i + 1], TRUE)
             rest == Slice(text, c.lineStart, i)
             done == acc.done
             char == text[i + 1]
  <1>1. c.lineStart \in Nat /\ c.lineStart <= i /\ c.lineStart \in b.lineStart..(i + 1)
    BY DEF Indexed
  <1>2. Append(rest, char) = Slice(text, c.lineStart, i + 1)
    BY <1>1, SliceGrows DEF Text
  <1>3. acc = [done |-> done, rest |-> rest]
    BY DEF Indexed
  <1>4. more = [acc EXCEPT !.rest = Append(@, char)]
    BY DEF Abstract!ReadChar
  <1> HIDE DEF more, rest, done, char
  <1>5. more = [done |-> done, rest |-> Append(rest, char)]
    BY <1>3, <1>4, CharAdded
  <1>6. more.done = done /\ more = [done |-> more.done, rest |-> Slice(text, c.lineStart, i + 1)]
    BY <1>2, <1>5
  <1>7. \A j \in (c.lineStart + 1)..(i + 1) : text[j] # NL
    <2> TAKE j \in (c.lineStart + 1)..(i + 1)
    <2>1. j = i + 1 \/ j \in (c.lineStart + 1)..i
      BY <1>1
    <2> QED
      BY <2>1 DEF Indexed
  <1> QED
    BY <1>1, <1>6, <1>7 DEF Indexed, more, done

\* A newline: the line is committed.
LEMMA IndexedLine ==
  ASSUME NEW b, Shape(b), Laid(b), NEW text \in Text, NEW i \in Nat, i < Len(text), NEW c, NEW acc,
         Indexed(b, text, i, c, acc), text[i + 1] = NL
  PROVE  Indexed(b, text, i + 1, CommitLine(c, i), Abstract!ReadChar(acc, text[i + 1], TRUE))
  <1> DEFINE more == Abstract!ReadChar(acc, text[i + 1], TRUE)
             rest == Slice(text, c.lineStart, i)
             done == acc.done
             d == CommitLine(c, i)
             line == Abstract!Trimmed(rest)
  <1>1. /\ Shape(c) /\ Laid(c) /\ Counted(c)
        /\ c.pages = [b.pages EXCEPT ![b.tail] = text] /\ c.tail = b.tail
        /\ c.baseSeq = b.baseSeq /\ c.scanFrom = b.scanFrom
        /\ c.lineStart \in b.lineStart..i
        /\ \A p \in 1..Len(b.pages) : p # b.tail => c.refs[p] = b.refs[p]
    BY DEF Indexed
  <1>2. /\ done \in Seq(Text) /\ acc = [done |-> done, rest |-> rest]
        /\ LinesOf(c) = LinesOf(b) \o Abstract!TrimAll(done)
    BY DEF Indexed
  <1>3. /\ b.pages \in Seq(Text) /\ b.tail \in 1..Len(b.pages) /\ b.lineStart \in Nat
        /\ b.refs \in Seq(Int) /\ Len(b.refs) = Len(b.pages)
        /\ c.refs \in Seq(Int) /\ Len(c.refs) = Len(c.pages)
    BY <1>1 DEF Shape
  <1>4. c.pages[c.tail] = text /\ Len(c.pages) = Len(b.pages)
    BY <1>1, <1>3
  <1>5. c.lineStart \in Nat /\ c.lineStart <= i /\ i <= Len(text) /\ Len(text) \in Nat
        /\ b.lineStart <= i + 1 /\ i + 1 \in b.lineStart..(i + 1)
    <2>1. Len(text) \in Nat
      BY LenProperties DEF Text
    <2>2. c.lineStart \in b.lineStart..i /\ b.lineStart \in Nat
      BY <1>1, <1>3
    <2> QED
      BY <2>1, <2>2
  <1>6. /\ Shape(d) /\ Laid(d) /\ Counted(d)
        /\ d.pages = c.pages /\ d.tail = c.tail /\ d.baseSeq = c.baseSeq
        /\ d.scanFrom = c.scanFrom /\ d.lineStart = i + 1
        /\ d.refs = [c.refs EXCEPT ![c.tail] = @ + 1]
        /\ LinesOf(d) = Append(LinesOf(c), line)
    <2>1. d.lineStart = i + 1 /\ LineAdded(c, c.tail, Slice(c.pages[c.tail], c.lineStart, i), d)
      BY <1>1, <1>4, <1>5, CommitIs
    <2> HIDE DEF d
    <2> QED
      BY <1>4, <2>1 DEF LineAdded
  <1>7. rest \in Text
    BY <1>5, SliceIs DEF Text
  <1>8. more = [done |-> Append(done, rest), rest |-> <<>>]
    <2>1. more = [done |-> Append(acc.done, acc.rest), rest |-> <<>>]
      BY DEF Abstract!ReadChar, Abstract!Finished
    <2> HIDE DEF rest, done, more
    <2>2. acc.rest = rest /\ acc.done = done
      BY <1>2
    <2> QED
      BY <2>1, <2>2
  <1>9. Slice(text, i + 1, i + 1) = <<>>
    BY SliceEmpty
  <1> HIDE DEF more, rest, done, d
  <1>10. more.done = Append(done, rest)
         /\ more = [done |-> more.done, rest |-> Slice(text, d.lineStart, i + 1)]
    BY <1>6, <1>8, <1>9
  <1>11. more.done \in Seq(Text)
    BY <1>2, <1>7, <1>10, AppendProperties
  <1>12. LinesOf(d) = LinesOf(b) \o Abstract!TrimAll(more.done)
    <2>1. Abstract!TrimAll(Append(done, rest)) = Append(Abstract!TrimAll(done), line)
      BY <1>2, <1>7, TrimAllAppends
    <2>2. Abstract!TrimAll(done) \in Seq(Text)
      BY <1>2, TrimAllIs
    <2>3. line \in Text
      BY <1>7, TrimmedText
    <2>4. LinesOf(b) \in Seq(Text)
      BY LinesAre
    <2> DEFINE ls == LinesOf(b)
               ts == Abstract!TrimAll(done)
    <2> HIDE DEF line
    <2>5. Append(ls \o ts, line) = ls \o Append(ts, line)
      <3>1. ls \in Seq(Text) /\ ts \in Seq(Text)
        BY <2>2, <2>4
      <3> HIDE DEF ls, ts
      <3> QED
        BY <3>1, <2>3, ConcatAppend
    <2> QED
      BY <1>2, <1>6, <1>10, <2>1, <2>5
  <1>13. d.refs[b.tail] >= 1 /\ \A p \in 1..Len(b.pages) : p # b.tail => d.refs[p] = b.refs[p]
    <2>1. c.refs[b.tail] \in Nat
      <3>1. c.refs[b.tail] = Cardinality(Users(c, b.tail))
        BY <1>1, <1>3, <1>4 DEF Counted
      <3>2. c.base \in Nat /\ c.used \in Nat
        BY <1>1 DEF Shape
      <3> QED
        BY <3>1, <3>2, UsersFinite
    <2>2. d.refs = [c.refs EXCEPT ![b.tail] = @ + 1] /\ DOMAIN c.refs = 1..Len(b.pages)
          /\ b.tail \in 1..Len(b.pages)
      BY <1>1, <1>3, <1>4, <1>6
    <2>3. d.refs[b.tail] = c.refs[b.tail] + 1
      BY <2>2
    <2>4. \A p \in 1..Len(b.pages) : p # b.tail => d.refs[p] = b.refs[p]
      BY <1>1, <2>2
    <2> QED
      BY <2>1, <2>3, <2>4
  <1>14. \A j \in (d.lineStart + 1)..(i + 1) : text[j] # NL
    BY <1>5, <1>6
  <1>15. d.pages = [b.pages EXCEPT ![b.tail] = text] /\ d.tail = b.tail /\ d.baseSeq = b.baseSeq
         /\ d.scanFrom = b.scanFrom /\ d.lineStart \in b.lineStart..(i + 1)
    BY <1>1, <1>5, <1>6
  <1>16. Indexed(b, text, i + 1, d, more)
    BY <1>6, <1>10, <1>11, <1>12, <1>13, <1>14, <1>15 DEF Indexed
  <1> QED
    BY <1>16 DEF d, more

\* No lines, trimmed.
LEMMA TrimAllNone == Abstract!TrimAll(<<>>) = <<>>
  <1> DEFINE none == <<>>
             ts == Abstract!TrimAll(none)
  <1>1. none \in Seq(Text) /\ Len(none) = 0
    OBVIOUS
  <1> HIDE DEF none
  <1>2. ts \in Seq(Text) /\ Len(ts) = Len(none)
    BY <1>1, TrimAllIs
  <1> HIDE DEF ts
  <1>3. ts = <<>>
    BY <1>1, <1>2, EmptySeq
  <1> QED
    BY <1>3 DEF ts, none

\* Before the loop: the tail page has the new text.
LEMMA IndexedFirst ==
  ASSUME NEW b, Shape(b), Laid(b), Counted(b), Scanned(b), NEW text \in Text,
         Len(b.pages[b.tail]) <= Len(text),
         \A j \in 1..Len(b.pages[b.tail]) : text[j] = b.pages[b.tail][j]
  PROVE  Indexed(b, text, b.scanFrom, [b EXCEPT !.pages[b.tail] = text],
                 [done |-> <<>>, rest |-> Slice(text, b.lineStart, b.scanFrom)])
  <1> DEFINE c == [b EXCEPT !.pages[b.tail] = text]
             rest == Slice(text, b.lineStart, b.scanFrom)
             none == <<>>
             acc == [done |-> none, rest |-> rest]
             i == b.scanFrom
  <1>1. /\ Shape(c) /\ Laid(c) /\ Counted(c) /\ LinesOf(c) = LinesOf(b)
        /\ c.pages = [b.pages EXCEPT ![b.tail] = text]
        /\ c.tail = b.tail /\ c.baseSeq = b.baseSeq /\ c.lineStart = b.lineStart
        /\ c.scanFrom = b.scanFrom /\ c.refs = b.refs
    BY TextAdded
  <1>2. /\ b.lineStart \in Nat /\ b.scanFrom \in Nat /\ b.lineStart <= b.scanFrom
        /\ i = Len(b.pages[b.tail])
        /\ \A j \in (b.lineStart + 1)..i : b.pages[b.tail][j] # NL
    BY DEF Shape, Scanned
  <1> HIDE DEF c, i, rest
  <1>3. c.lineStart \in b.lineStart..i
    BY <1>1, <1>2 DEF i
  <1>4. \A j \in (c.lineStart + 1)..i : text[j] # NL
    <2> TAKE j \in (c.lineStart + 1)..i
    <2>1. j \in 1..i /\ j \in (b.lineStart + 1)..i
      BY <1>1, <1>2 DEF i
    <2> QED
      BY <1>2, <2>1
  <1>5. LinesOf(b) \o Abstract!TrimAll(<<>>) = LinesOf(b)
    <2>1. LinesOf(b) \in Seq(Text)
      BY LinesAre
    <2> DEFINE ls == LinesOf(b)
    <2> HIDE DEF ls
    <2>2. ls \o <<>> = ls
      BY <2>1, ConcatEmptySeq DEF ls
    <2> QED
      BY <2>2, TrimAllNone DEF ls
  <1>6. none \in Seq(Text)
    OBVIOUS
  <1>7. acc.done = none /\ acc = [done |-> acc.done, rest |-> Slice(text, c.lineStart, i)]
    <2>1. rest = Slice(text, c.lineStart, i)
      BY <1>1 DEF rest, i
    <2> HIDE DEF none
    <2> QED
      BY <2>1
  <1>8. Abstract!TrimAll(acc.done) = Abstract!TrimAll(<<>>) /\ acc.done \in Seq(Text)
    BY <1>6, <1>7
  <1> HIDE DEF acc
  <1>9. LinesOf(c) = LinesOf(b) \o Abstract!TrimAll(acc.done)
    BY <1>1, <1>5, <1>8
  <1>10. \A p \in 1..Len(b.pages) : p # b.tail => c.refs[p] = b.refs[p]
    BY <1>1
  <1>11. Indexed(b, text, i, c, acc)
    BY <1>1, <1>3, <1>4, <1>7, <1>8, <1>9, <1>10 DEF Indexed
  <1> QED
    BY <1>11 DEF i, c, acc, none, rest

\* append's loop indexes the lines that reading the partial line and the chunk
\* finds.
LEMMA IndexedAll ==
  ASSUME NEW b, Shape(b), Laid(b), Counted(b), Scanned(b), NEW text \in Text,
         Len(b.pages[b.tail]) <= Len(text),
         \A j \in 1..Len(b.pages[b.tail]) : text[j] = b.pages[b.tail][j]
  PROVE  Indexed(b, text, Len(text), Indexing(b, text)[Len(text)],
                 Abstract!Read(Slice(text, b.lineStart, Len(text)), TRUE))
  <1> DEFINE n == Len(text)
             m == b.scanFrom
             at == b.lineStart
             w == Slice(text, at, n)
             x == Indexing(b, text)
             r == Abstract!Reading(w, TRUE)
             S == {i \in m..n : Indexed(b, text, i, x[i], r[i - at])}
  <1>1. /\ n \in Nat /\ m \in Nat /\ at \in Nat /\ at <= m /\ m <= n
        /\ m = Len(b.pages[b.tail])
        /\ \A j \in (at + 1)..m : b.pages[b.tail][j] # NL
    BY LenProperties DEF Shape, Scanned, Text
  <1>2. /\ w \in Seq(Chars) /\ Len(w) = n - at /\ \A j \in 1..(n - at) : w[j] = text[at + j]
    <2>1. text \in Seq(Chars) /\ at <= n /\ n <= Len(text)
      BY <1>1 DEF Text
    <2> QED
      BY <1>1, <2>1, SliceIs
  <1>3. x[m] = [b EXCEPT !.pages[b.tail] = text]
        /\ \A i \in (m + 1)..n : x[i] = IF text[i] = NL THEN CommitLine(x[i - 1], i - 1) ELSE x[i - 1]
    <2>1. Len(text) \in Nat /\ b.scanFrom \in 0..Len(text)
      BY <1>1
    <2>2. IndexRounds(b, text, Indexing(b, text))
      BY <2>1, IndexingIs
    <2> HIDE DEF x
    <2> QED
      BY <2>2 DEF IndexRounds, x
  <1> HIDE DEF w
  <1>4. \A i \in 1..(n - at) : r[i] = Abstract!ReadChar(r[i - 1], w[i], TRUE)
    <2>1. Len(w) \in Nat
      BY <1>1, <1>2
    <2>2. \A i \in 1..Len(w) : r[i] = Abstract!ReadChar(r[i - 1], w[i], TRUE)
      BY <2>1, ReadingIs
    <2> HIDE DEF r
    <2> QED
      BY <1>2, <2>2
  <1>5. r[m - at] = [done |-> <<>>, rest |-> Slice(text, at, m)]
    <2> DEFINE k == m - at
    <2>1. k \in 0..Len(w) /\ k \in Nat /\ at + k <= Len(text) /\ at + k = m
      <3>1. Len(w) = n - at
        BY <1>2
      <3>2. k \in 0..(n - at) /\ k \in Nat /\ at + k <= n /\ at + k = m
        BY <1>1
      <3> QED
        BY <3>1, <3>2
    <2>2. \A j \in 1..k : w[j] # NL
      <3> TAKE j \in 1..k
      <3>1. j \in 1..(n - at) /\ at + j \in (at + 1)..m /\ at + j \in 1..m
        BY <1>1
      <3>2. w[j] = text[at + j]
        BY <1>2, <3>1
      <3>3. text[at + j] = b.pages[b.tail][at + j]
        BY <1>1, <3>1
      <3> QED
        BY <1>1, <3>1, <3>2, <3>3
    <2> HIDE DEF k
    <2>3. r[k] = [done |-> <<>>, rest |-> Slice(w, 0, k)]
      BY <1>2, <2>1, <2>2, ReadPrefix
    <2>4. Slice(w, 0, k) = Slice(text, at, at + k)
      BY <1>1, <2>1, SliceOfSlice DEF w, Text
    <2> QED
      BY <2>1, <2>3, <2>4 DEF k
  <1> HIDE DEF r, x
  <1>6. m \in S
    <2>1. Indexed(b, text, m, x[m], r[m - at])
      <3>1. Indexed(b, text, m, [b EXCEPT !.pages[b.tail] = text],
                    [done |-> <<>>, rest |-> Slice(text, at, m)])
        BY IndexedFirst
      <3> QED
        BY <1>3, <1>5, <3>1
    <2> QED
      BY <1>1, <2>1
  <1>7. ASSUME NEW i \in m..(n - 1), i \in S PROVE i + 1 \in S
    <2>1. /\ i \in Nat /\ i < n /\ i + 1 \in (m + 1)..n /\ (i + 1) - 1 = i
          /\ (i + 1) - at \in 1..(n - at) /\ ((i + 1) - at) - 1 = i - at
          /\ at + ((i + 1) - at) = i + 1 /\ i + 1 \in m..n
      BY <1>1
    <2> DEFINE c == x[i]
               acc == r[i - at]
               d == x[i + 1]
               more == r[(i + 1) - at]
    <2>2. Indexed(b, text, i, c, acc)
      BY <1>7
    <2>3. d = IF text[i + 1] = NL THEN CommitLine(c, i) ELSE c
      BY <1>3, <2>1
    <2>4. more = Abstract!ReadChar(acc, text[i + 1], TRUE)
      <3>1. w[(i + 1) - at] = text[i + 1]
        BY <1>2, <2>1
      <3>2. r[(i + 1) - at] = Abstract!ReadChar(r[((i + 1) - at) - 1], w[(i + 1) - at], TRUE)
        BY <1>4, <2>1
      <3> QED
        BY <2>1, <3>1, <3>2
    <2> HIDE DEF c, acc, d, more
    <2>5. CASE text[i + 1] = NL
      <3>1. Indexed(b, text, i + 1, CommitLine(c, i), Abstract!ReadChar(acc, text[i + 1], TRUE))
        BY <2>1, <2>2, <2>5, IndexedLine
      <3>2. Indexed(b, text, i + 1, d, more)
        BY <2>3, <2>4, <2>5, <3>1
      <3> QED
        BY <2>1, <3>2 DEF d, more
    <2>6. CASE text[i + 1] # NL
      <3>1. Indexed(b, text, i + 1, c, Abstract!ReadChar(acc, text[i + 1], TRUE))
        BY <1>1, <2>1, <2>2, <2>6, IndexedOn
      <3>2. Indexed(b, text, i + 1, d, more)
        BY <2>3, <2>4, <2>6, <3>1
      <3> QED
        BY <2>1, <3>2 DEF d, more
    <2> QED
      BY <2>5, <2>6
  <1>8. n \in S
    <2> HIDE DEF S
    <2>1. m..n \subseteq S
      BY <1>1, <1>6, <1>7, UpTo
    <2> QED
      BY <1>1, <2>1
  <1>9. r[n - at] = Abstract!Read(w, TRUE)
    BY <1>2 DEF r, Abstract!Read
  <1>10. Indexed(b, text, n, x[n], r[n - at])
    BY <1>8
  <1> QED
    BY <1>9, <1>10 DEF x, w

-----------------------------------------------------------------------------
(* New pages.                                                               *)

\* c is b with another page that holds no line.
PageAdded(b, text, c) ==
  /\ Shape(c) /\ Laid(c) /\ Counted(c) /\ LinesOf(c) = LinesOf(b)
  /\ c.pages = Append(b.pages, text) /\ c.refs = Append(b.refs, 0) /\ c.tail = b.tail
  /\ c.slot = b.slot /\ c.base = b.base /\ c.used = b.used /\ c.baseSeq = b.baseSeq
  /\ c.lineStart = b.lineStart /\ c.scanFrom = b.scanFrom

\* newPage adds a page.
LEMMA NewPageIs ==
  ASSUME NEW b, Shape(b), Laid(b), Counted(b), NEW text \in Text
  PROVE  PageAdded(b, text, NewPage(b, text))
  <1> DEFINE ps == Append(b.pages, text)
             rs == Append(b.refs, 0)
             c == [b EXCEPT !.pages = Append(@, text), !.refs = Append(@, 0)]
             n == Len(b.pages)
  <1>1. /\ b.pages \in Seq(Text) /\ b.refs \in Seq(Int) /\ Len(b.refs) = n
        /\ b.tail \in 1..n /\ b.base \in Nat /\ b.used \in Nat
    BY DEF Shape
  <1>2. n \in Nat
    BY <1>1, LenProperties
  <1>3. /\ ps \in Seq(Text) /\ Len(ps) = n + 1 /\ ps[n + 1] = text
        /\ \A p \in 1..n : ps[p] = b.pages[p]
    BY <1>1, AppendProperties
  <1>4. /\ rs \in Seq(Int) /\ Len(rs) = n + 1 /\ rs[n + 1] = 0
        /\ \A p \in 1..n : rs[p] = b.refs[p]
    BY <1>1, AppendProperties
  <1>5. c = [pages |-> ps, refs |-> rs, tail |-> b.tail, slot |-> b.slot, base |-> b.base,
             used |-> b.used, baseSeq |-> b.baseSeq, lineStart |-> b.lineStart,
             scanFrom |-> b.scanFrom]
    <2>1. b = [pages |-> b.pages, refs |-> b.refs, tail |-> b.tail, slot |-> b.slot, base |-> b.base,
               used |-> b.used, baseSeq |-> b.baseSeq, lineStart |-> b.lineStart,
               scanFrom |-> b.scanFrom]
      BY DEF Shape
    <2>2. c = [b EXCEPT !.pages = ps, !.refs = rs]
      OBVIOUS
    <2> HIDE DEF ps, rs, c
    <2> QED
      BY <2>1, <2>2
  <1> HIDE DEF ps, rs, c, n
  <1>6. /\ c.pages = ps /\ c.refs = rs /\ c.tail = b.tail /\ c.slot = b.slot /\ c.base = b.base
        /\ c.used = b.used /\ c.baseSeq = b.baseSeq /\ c.lineStart = b.lineStart
        /\ c.scanFrom = b.scanFrom
    BY <1>5
  <1>7. Shape(c)
    <2>1. ArrayLength(c) = ArrayLength(b)
      BY <1>6 DEF ArrayLength
    <2>2. b.tail \in 1..(n + 1)
      BY <1>1, <1>2
    <2>3. c.pages \in Seq(Text) /\ c.refs \in Seq(Int) /\ Len(c.refs) = Len(c.pages)
          /\ c.tail \in 1..Len(c.pages)
      BY <1>3, <1>4, <1>6, <2>2
    <2>4. c = [pages |-> c.pages, refs |-> c.refs, tail |-> c.tail, slot |-> c.slot,
               base |-> c.base, used |-> c.used, baseSeq |-> c.baseSeq,
               lineStart |-> c.lineStart, scanFrom |-> c.scanFrom]
      BY <1>5
    <2> QED
      BY <1>6, <2>1, <2>3, <2>4 DEF Shape
  <1>8. Laid(c) /\ LinesOf(c) = LinesOf(b)
    <2>1. ASSUME NEW i \in b.base..(b.used - 1)
          PROVE  /\ Len(b.pages[b.slot[i].page]) <= Len(c.pages[b.slot[i].page])
                 /\ \A j \in 1..Len(b.pages[b.slot[i].page]) :
                      c.pages[b.slot[i].page][j] = b.pages[b.slot[i].page][j]
      <3>1. b.slot[i].page \in 1..n
        BY DEF Laid, n
      <3>2. c.pages[b.slot[i].page] = b.pages[b.slot[i].page]
        BY <1>3, <1>6, <3>1
      <3>3. Len(b.pages[b.slot[i].page]) \in Nat
        BY <1>1, <3>1, ElementOfSeq, LenProperties DEF Text, n
      <3> QED
        BY <3>2, <3>3
    <2>2. c.pages \in Seq(Text) /\ Len(b.pages) <= Len(c.pages)
      BY <1>2, <1>3, <1>6 DEF n
    <2> QED
      BY <1>6, <2>1, <2>2, LinesStay
  <1>9. Counted(c)
    <2>1. \A p : Users(c, p) = Users(b, p)
      BY <1>6 DEF Users
    <2>2. Users(b, n + 1) = {}
      <3>1. \A i \in b.base..(b.used - 1) : b.slot[i].page \in 1..n
        BY DEF Laid, n
      <3>2. n + 1 \notin 1..n
        BY <1>2
      <3> QED
        BY <3>1, <3>2 DEF Users
    <2>3. Cardinality(Users(c, n + 1)) = 0
      BY <2>1, <2>2, FS_EmptySet
    <2>4. \A p \in 1..n : c.refs[p] = Cardinality(Users(c, p))
      BY <1>4, <1>6, <2>1 DEF Counted, n
    <2>5. \A p \in 1..Len(c.pages) : p \in 1..n \/ p = n + 1
      BY <1>2, <1>3, <1>6
    <2> QED
      BY <1>4, <1>6, <2>3, <2>4, <2>5 DEF Counted
  <1>10. PageAdded(b, text, c)
    BY <1>6, <1>7, <1>8, <1>9 DEF PageAdded, ps, rs
  <1> QED
    BY <1>10 DEF NewPage, c

\* What holds of the buffer between its methods.
Sound(b) == Shape(b) /\ Laid(b) /\ Counted(b) /\ Emptied(b) /\ Scanned(b)

\* The text behind the last line.
PartialOf(b) == Slice(b.pages[b.tail], b.lineStart, Len(b.pages[b.tail]))

\* c is b with the same lines under the same numbers.
SameLines(b, c) == LinesOf(c) = LinesOf(b) /\ c.baseSeq = b.baseSeq /\ PartialOf(c) = PartialOf(b)

\* A page is sealed when the lines found in it fill it: it holds a line then.
LEMMA SealIs ==
  ASSUME NEW b, Sound(b), b.lineStart = Len(b.pages[b.tail]) => b.refs[b.tail] >= 1
  PROVE  Sound(Seal(b)) /\ SameLines(b, Seal(b))
  <1>1. CASE ~(Len(b.pages[b.tail]) >= PageSize /\ b.lineStart = Len(b.pages[b.tail]))
    <2>1. Seal(b) = b
      BY <1>1 DEF Seal
    <2> QED
      BY <2>1 DEF SameLines
  <1>2. CASE Len(b.pages[b.tail]) >= PageSize /\ b.lineStart = Len(b.pages[b.tail])
    <2> DEFINE none == <<>>
               c == NewPage(b, none)
               n == Len(b.pages)
               d == [c EXCEPT !.tail = n + 1, !.lineStart = 0, !.scanFrom = 0]
    <2>1. Seal(b) = d
      BY <1>2 DEF Seal
    <2>2. none \in Text /\ Len(none) = 0
      BY DEF Text
    <2> HIDE DEF none
    <2>3. PageAdded(b, none, c)
      BY <2>2, NewPageIs DEF Sound
    <2>4. /\ b.pages \in Seq(Text) /\ b.refs \in Seq(Int) /\ Len(b.refs) = n
          /\ b.tail \in 1..n /\ b.lineStart \in Nat
      BY DEF Shape, Sound
    <2>5. n \in Nat
      BY <2>4, LenProperties
    <2> HIDE DEF n
    <2>6. /\ c.pages \in Seq(Text) /\ Len(c.pages) = n + 1 /\ c.pages[n + 1] = none
          /\ \A p \in 1..n : c.pages[p] = b.pages[p]
      <3>1. c.pages = Append(b.pages, none)
        BY <2>3 DEF PageAdded
      <3> HIDE DEF c
      <3> QED
        BY <2>2, <2>4, <3>1, AppendProperties DEF n
    <2>7. /\ c.refs[n + 1] = 0 /\ \A p \in 1..n : c.refs[p] = b.refs[p]
      <3>1. c.refs = Append(b.refs, 0) /\ Len(b.refs) = n
        BY <2>3, <2>4 DEF PageAdded
      <3> HIDE DEF c
      <3>2. /\ c.refs[Len(b.refs) + 1] = 0
            /\ \A p \in 1..Len(b.refs) : c.refs[p] = b.refs[p]
        BY <2>4, <3>1, AppendProperties
      <3> QED
        BY <3>1, <3>2
    <2>8. Shape(c) /\ Laid(c) /\ Counted(c) /\ LinesOf(c) = LinesOf(b) /\ c.baseSeq = b.baseSeq
      BY <2>3 DEF PageAdded
    <2> HIDE DEF c
    <2>9. d = [pages |-> c.pages, refs |-> c.refs, tail |-> n + 1, slot |-> c.slot, base |-> c.base,
               used |-> c.used, baseSeq |-> c.baseSeq, lineStart |-> 0, scanFrom |-> 0]
      <3>1. c = [pages |-> c.pages, refs |-> c.refs, tail |-> c.tail, slot |-> c.slot,
                 base |-> c.base, used |-> c.used, baseSeq |-> c.baseSeq,
                 lineStart |-> c.lineStart, scanFrom |-> c.scanFrom]
        BY <2>8 DEF Shape
      <3> DEFINE t == n + 1
                 c1 == [c EXCEPT !.tail = t]
                 c2 == [c1 EXCEPT !.lineStart = 0]
                 c3 == [c2 EXCEPT !.scanFrom = 0]
      <3>2. d = c3
        OBVIOUS
      <3> HIDE DEF t, d
      <3>3. c1 = [pages |-> c.pages, refs |-> c.refs, tail |-> t, slot |-> c.slot,
                  base |-> c.base, used |-> c.used, baseSeq |-> c.baseSeq,
                  lineStart |-> c.lineStart, scanFrom |-> c.scanFrom]
        BY <3>1
      <3> HIDE DEF c1
      <3>4. c2 = [pages |-> c.pages, refs |-> c.refs, tail |-> t, slot |-> c.slot,
                  base |-> c.base, used |-> c.used, baseSeq |-> c.baseSeq,
                  lineStart |-> 0, scanFrom |-> c.scanFrom]
        BY <3>3
      <3> HIDE DEF c2
      <3>5. c3 = [pages |-> c.pages, refs |-> c.refs, tail |-> t, slot |-> c.slot,
                  base |-> c.base, used |-> c.used, baseSeq |-> c.baseSeq,
                  lineStart |-> 0, scanFrom |-> 0]
        BY <3>4
      <3> QED
        BY <3>2, <3>5 DEF t
    <2> HIDE DEF d
    <2>10. Shape(d)
      <3>1. ArrayLength(d) = ArrayLength(c)
        BY <2>9 DEF ArrayLength
      <3>2. d.tail \in 1..Len(d.pages)
        BY <2>5, <2>6, <2>9
      <3>3. d = [pages |-> d.pages, refs |-> d.refs, tail |-> d.tail, slot |-> d.slot,
                 base |-> d.base, used |-> d.used, baseSeq |-> d.baseSeq,
                 lineStart |-> d.lineStart, scanFrom |-> d.scanFrom]
        BY <2>9
      <3>4. /\ d.pages = c.pages /\ d.refs = c.refs /\ d.slot = c.slot /\ d.base = c.base
            /\ d.used = c.used /\ d.baseSeq = c.baseSeq /\ d.lineStart \in Nat /\ d.scanFrom \in Nat
        BY <2>9
      <3> QED
        BY <2>8, <3>1, <3>2, <3>3, <3>4 DEF Shape
    <2>11. /\ d.pages = c.pages /\ d.refs = c.refs /\ d.slot = c.slot /\ d.base = c.base
           /\ d.used = c.used /\ d.baseSeq = c.baseSeq
           /\ d.tail = n + 1 /\ d.lineStart = 0 /\ d.scanFrom = 0
      BY <2>9
    <2>12. Laid(d)
      BY <2>8, <2>11 DEF Laid
    <2>13. LinesOf(d) = LinesOf(c)
      BY <2>11 DEF LinesOf, Extent, Size
    <2>14. Counted(d)
      BY <2>8, <2>11 DEF Counted, Users
    <2>15. Emptied(d)
      <3>1. ASSUME NEW p \in 1..Len(d.pages), d.refs[p] = 0, p # d.tail
            PROVE  d.pages[p] = <<>> \/ Extents(d.pages[p]) = <<>>
        <4>1. p \in 1..n /\ p # n + 1
          BY <2>5, <2>6, <2>11, <3>1
        <4>2. b.refs[p] = 0 /\ d.pages[p] = b.pages[p]
          BY <2>6, <2>7, <2>11, <3>1, <4>1
        <4>3. p # b.tail
          BY <1>2, <4>2
        <4>4. b.pages[p] = <<>> \/ Extents(b.pages[p]) = <<>>
          BY <4>1, <4>2, <4>3 DEF Sound, Emptied, n
        <4> QED
          BY <4>2, <4>4
      <3> QED
        BY <3>1 DEF Emptied
    <2>16. Scanned(d)
      <3>1. d.pages[d.tail] = none /\ Len(d.pages[d.tail]) = 0
        BY <2>2, <2>6, <2>11
      <3> QED
        BY <2>11, <3>1 DEF Scanned
    <2>17. PartialOf(d) = PartialOf(b)
      <3>1. PartialOf(d) = Slice(none, 0, 0)
        BY <2>2, <2>6, <2>11 DEF PartialOf
      <3>2. PartialOf(b) = Slice(b.pages[b.tail], b.lineStart, b.lineStart)
        BY <1>2 DEF PartialOf
      <3> QED
        BY <2>4, <3>1, <3>2, SliceEmpty
    <2> QED
      BY <2>1, <2>8, <2>10, <2>11, <2>12, <2>13, <2>14, <2>15, <2>16, <2>17 DEF Sound, SameLines
  <1> QED
    BY <1>1, <1>2

-----------------------------------------------------------------------------
(* Eviction.                                                                *)

\* The lines of page p but for the first k lines of all.
Left(b, k, p) == {i \in (b.base + k)..(b.used - 1) : b.slot[i].page = p}

\* c is b when the first k lines have let go of their pages.
Released(b, k, c) ==
  /\ Shape(c)
  /\ c.slot = b.slot /\ c.base = b.base /\ c.used = b.used /\ c.tail = b.tail
  /\ c.baseSeq = b.baseSeq /\ c.lineStart = b.lineStart /\ c.scanFrom = b.scanFrom
  /\ Len(c.pages) = Len(b.pages)
  /\ \A p \in 1..Len(b.pages) : c.refs[p] = Cardinality(Left(b, k, p))
  /\ \A p \in 1..Len(b.pages) :
       c.pages[p] = b.pages[p] \/ (c.refs[p] = 0 /\ p # b.tail /\ c.pages[p] = <<>>)
  /\ \A p \in 1..Len(b.pages) :
       (c.refs[p] = 0 /\ p # b.tail) => c.pages[p] = <<>> \/ Extents(c.pages[p]) = <<>>

\* How many lines are left is a number, and there are some when one is.
LEMMA LeftIs ==
  ASSUME NEW b, b.base \in Nat, b.used \in Nat, NEW k \in Nat, NEW p
  PROVE  /\ IsFiniteSet(Left(b, k, p)) /\ Cardinality(Left(b, k, p)) \in Nat
         /\ \A i \in (b.base + k)..(b.used - 1) :
              b.slot[i].page = p => Cardinality(Left(b, k, p)) # 0
  <1> DEFINE S == (b.base + k)..(b.used - 1)
             T == Left(b, k, p)
  <1>1. IsFiniteSet(S)
    <2>1. b.base + k \in Int /\ b.used - 1 \in Int
      OBVIOUS
    <2> QED
      BY <2>1, FS_Interval
  <1>2. T \in SUBSET S
    BY DEF Left
  <1> HIDE DEF S, T
  <1>3. IsFiniteSet(T)
    BY <1>1, <1>2, FS_Subset
  <1>4. Cardinality(T) \in Nat /\ (Cardinality(T) = 0 => T = {})
    BY <1>3, FS_CardinalityType, FS_EmptySet
  <1>5. \A i \in S : b.slot[i].page = p => i \in T
    BY DEF S, T, Left
  <1> QED
    BY <1>3, <1>4, <1>5 DEF S, T

\* The line at k lets go of its page, and of no other.
LEMMA LeftNext ==
  ASSUME NEW b, b.base \in Nat, b.used \in Nat, NEW k \in Nat, b.base + k < b.used, NEW p
  PROVE  Cardinality(Left(b, k + 1, p))
           = IF b.slot[b.base + k].page = p THEN Cardinality(Left(b, k, p)) - 1
                                            ELSE Cardinality(Left(b, k, p))
  <1> DEFINE S == Left(b, k, p)
             at == b.base + k
  <1>1. IsFiniteSet(S)
    BY LeftIs
  <1>2. /\ at \in at..(b.used - 1) /\ b.base + (k + 1) = at + 1
        /\ \A i : i \in (at + 1)..(b.used - 1) <=> (i \in at..(b.used - 1) /\ i # at)
    OBVIOUS
  <1>3. Left(b, k + 1, p) = S \ {at}
    BY <1>2 DEF Left
  <1>4. at \in S <=> b.slot[at].page = p
    BY <1>2 DEF Left
  <1> HIDE DEF S
  <1>5. Cardinality(S \ {at}) = IF at \in S THEN Cardinality(S) - 1 ELSE Cardinality(S)
    BY <1>1, FS_RemoveElement
  <1> QED
    BY <1>3, <1>4, <1>5 DEF S

\* A round of evict's loop.
LEMMA FreedIs ==
  ASSUME NEW b, Shape(b), Laid(b), NEW k \in Nat, b.base + k < b.used,
         NEW c, Released(b, k, c)
  PROVE  Released(b, k + 1, Freed(c, b.base + k))
  <1> DEFINE at == b.base + k
             q == c.slot[at].page
             left == c.refs[q] - 1
             rest == IF left = 0 /\ q # c.tail THEN <<>> ELSE c.pages[q]
             rs == [c.refs EXCEPT ![q] = left]
             ps == [c.pages EXCEPT ![q] = rest]
             d == Freed(c, at)
             n == Len(b.pages)
  <1>1. /\ c.pages \in Seq(Text) /\ c.refs \in Seq(Int) /\ Len(c.refs) = n /\ Len(c.pages) = n
        /\ c.slot = b.slot /\ c.base = b.base /\ c.used = b.used /\ c.tail = b.tail
        /\ c.baseSeq = b.baseSeq /\ c.lineStart = b.lineStart /\ c.scanFrom = b.scanFrom
        /\ Shape(c)
    BY DEF Released, Shape
  <1>2. b.base \in Nat /\ b.used \in Nat /\ n \in Nat /\ b.pages \in Seq(Text)
    <2>1. b.base \in Nat /\ b.used \in Nat /\ b.pages \in Seq(Text)
      BY DEF Shape
    <2> QED
      BY <2>1, LenProperties
  <1>3. at \in b.base..(b.used - 1) /\ q = b.slot[at].page /\ q \in 1..n
    <2>1. at \in b.base..(b.used - 1)
      BY <1>2
    <2> QED
      BY <1>1, <2>1 DEF Laid
  <1> HIDE DEF n, q
  <1>4. \A p \in 1..n :
          /\ c.refs[p] = Cardinality(Left(b, k, p))
          /\ c.pages[p] = b.pages[p] \/ (c.refs[p] = 0 /\ p # b.tail /\ c.pages[p] = <<>>)
          /\ (c.refs[p] = 0 /\ p # b.tail) => c.pages[p] = <<>> \/ Extents(c.pages[p]) = <<>>
    BY DEF Released, n
  <1>5. c.refs[q] \in Nat \ {0} /\ left \in Nat
    <2>1. Cardinality(Left(b, k, q)) \in Nat
      BY <1>2, LeftIs
    <2>2. at \in (b.base + k)..(b.used - 1) /\ b.slot[at].page = q
      BY <1>2, <1>3
    <2>3. Cardinality(Left(b, k, q)) # 0
      BY <1>2, <2>2, LeftIs
    <2> QED
      BY <1>3, <1>4, <2>1, <2>3
  <1>6. c.pages[q] = b.pages[q] /\ rest \in Text
    <2>1. c.pages[q] = b.pages[q]
      BY <1>3, <1>4, <1>5
    <2>2. c.pages[q] \in Text /\ <<>> \in Text
      BY <1>1, <1>3, ElementOfSeq DEF Text
    <2> QED
      BY <2>1, <2>2
  <1>7. d = [c EXCEPT !.refs = rs, !.pages = ps]
    BY DEF Freed, q
  <1> HIDE DEF rs, ps, d, left, rest
  <1>8. /\ rs \in Seq(Int) /\ Len(rs) = n /\ rs[q] = left
        /\ \A p \in 1..n : p # q => rs[p] = c.refs[p]
    BY <1>1, <1>3, <1>5, ExceptSeq DEF rs
  <1>9. /\ ps \in Seq(Text) /\ Len(ps) = n /\ ps[q] = rest
        /\ \A p \in 1..n : p # q => ps[p] = c.pages[p]
    BY <1>1, <1>3, <1>6, ExceptSeq DEF ps
  <1>10. d = [pages |-> ps, refs |-> rs, tail |-> c.tail, slot |-> c.slot, base |-> c.base,
              used |-> c.used, baseSeq |-> c.baseSeq, lineStart |-> c.lineStart,
              scanFrom |-> c.scanFrom]
    <2>1. c = [pages |-> c.pages, refs |-> c.refs, tail |-> c.tail, slot |-> c.slot,
               base |-> c.base, used |-> c.used, baseSeq |-> c.baseSeq,
               lineStart |-> c.lineStart, scanFrom |-> c.scanFrom]
      BY <1>1 DEF Shape
    <2> QED
      BY <1>7, <2>1
  <1>11. /\ d.pages = ps /\ d.refs = rs /\ d.slot = b.slot /\ d.base = b.base /\ d.used = b.used
         /\ d.tail = b.tail /\ d.baseSeq = b.baseSeq /\ d.lineStart = b.lineStart
         /\ d.scanFrom = b.scanFrom
    BY <1>1, <1>10
  <1>12. Shape(d)
    <2>1. ArrayLength(d) = ArrayLength(b)
      BY <1>11 DEF ArrayLength
    <2>2. d = [pages |-> d.pages, refs |-> d.refs, tail |-> d.tail, slot |-> d.slot,
               base |-> d.base, used |-> d.used, baseSeq |-> d.baseSeq,
               lineStart |-> d.lineStart, scanFrom |-> d.scanFrom]
      BY <1>10
    <2>3. d.pages \in Seq(Text) /\ d.refs \in Seq(Int) /\ Len(d.refs) = Len(d.pages)
          /\ Len(d.pages) = Len(b.pages)
      BY <1>8, <1>9, <1>11 DEF n
    <2> QED
      BY <1>11, <2>1, <2>2, <2>3 DEF Shape
  <1>13. ASSUME NEW p \in 1..n
         PROVE  /\ d.refs[p] = Cardinality(Left(b, k + 1, p))
                /\ d.pages[p] = b.pages[p] \/ (d.refs[p] = 0 /\ p # b.tail /\ d.pages[p] = <<>>)
                /\ (d.refs[p] = 0 /\ p # b.tail) => d.pages[p] = <<>> \/ Extents(d.pages[p]) = <<>>
    <2>1. Cardinality(Left(b, k + 1, p))
            = IF b.slot[b.base + k].page = p THEN Cardinality(Left(b, k, p)) - 1
                                             ELSE Cardinality(Left(b, k, p))
      BY <1>2, LeftNext
    <2>2. CASE p = q
      <3>1. d.refs[p] = left /\ d.pages[p] = rest
        BY <1>8, <1>9, <1>11, <2>2
      <3>2. left = Cardinality(Left(b, k + 1, p))
        BY <1>3, <1>4, <2>1, <2>2 DEF left
      <3>3. rest = IF left = 0 /\ p # b.tail THEN <<>> ELSE b.pages[p]
        BY <1>1, <1>6, <2>2 DEF rest
      <3> QED
        BY <3>1, <3>2, <3>3
    <2>3. CASE p # q
      <3>1. d.refs[p] = c.refs[p] /\ d.pages[p] = c.pages[p]
        BY <1>8, <1>9, <1>11, <2>3
      <3>2. Cardinality(Left(b, k + 1, p)) = Cardinality(Left(b, k, p))
        BY <1>3, <2>1, <2>3
      <3> QED
        BY <1>4, <3>1, <3>2
    <2> QED
      BY <2>2, <2>3
  <1>14. Released(b, k + 1, d)
    <2>1. Len(d.pages) = Len(b.pages)
      BY <1>9, <1>11 DEF n
    <2>2. \A p \in 1..Len(b.pages) : d.refs[p] = Cardinality(Left(b, k + 1, p))
      BY <1>13 DEF n
    <2>3. \A p \in 1..Len(b.pages) :
            d.pages[p] = b.pages[p] \/ (d.refs[p] = 0 /\ p # b.tail /\ d.pages[p] = <<>>)
      BY <1>13 DEF n
    <2>4. \A p \in 1..Len(b.pages) :
            (d.refs[p] = 0 /\ p # b.tail) => d.pages[p] = <<>> \/ Extents(d.pages[p]) = <<>>
      BY <1>13 DEF n
    <2> QED
      BY <1>11, <1>12, <2>1, <2>2, <2>3, <2>4 DEF Released
  <1> QED
    BY <1>14 DEF d

\* evict's loop lets the lines that are too many go.
LEMMA ReleasedAll ==
  ASSUME NEW b, Shape(b), Laid(b), Counted(b), Emptied(b), NEW excess \in Nat, excess <= Size(b)
  PROVE  Released(b, excess, Freeing(b, excess)[excess])
  <1> DEFINE f == Freeing(b, excess)
             S == {k \in 0..excess : Released(b, k, f[k])}
  <1>1. f[0] = b /\ \A k \in 1..excess : f[k] = Freed(f[k - 1], b.base + k - 1)
    <2>1. FreeRounds(b, excess, f)
      BY FreeingIs
    <2> HIDE DEF f
    <2> QED
      BY <2>1 DEF FreeRounds
  <1> HIDE DEF f
  <1>2. b.base \in Nat /\ b.used \in Nat /\ b.base + excess <= b.used
    BY DEF Shape, Size
  <1>3. 0 \in S
    <2>1. \A p : Left(b, 0, p) = Users(b, p)
      BY <1>2 DEF Left, Users
    <2>2. Released(b, 0, b)
      BY <2>1 DEF Released, Counted, Emptied
    <2> QED
      BY <1>1, <2>2
  <1>4. ASSUME NEW k \in 0..(excess - 1), k \in S PROVE k + 1 \in S
    <2>1. k \in Nat /\ k + 1 \in 1..excess /\ k + 1 \in 0..excess /\ b.base + k < b.used
          /\ (k + 1) - 1 = k /\ b.base + (k + 1) - 1 = b.base + k
      BY <1>2
    <2> DEFINE c == f[k]
    <2>2. Released(b, k, c)
      BY <1>4
    <2>3. f[k + 1] = Freed(c, b.base + k)
      <3>1. f[k + 1] = Freed(f[(k + 1) - 1], b.base + (k + 1) - 1)
        BY <1>1, <2>1
      <3> QED
        BY <2>1, <3>1
    <2> HIDE DEF c
    <2>4. Released(b, k + 1, Freed(c, b.base + k))
      BY <2>1, <2>2, FreedIs
    <2> QED
      BY <2>1, <2>3, <2>4
  <1>5. excess \in S
    <2> HIDE DEF S
    <2>1. 0..excess \subseteq S
      BY <1>3, <1>4, UpTo
    <2> QED
      BY <2>1
  <1> QED
    BY <1>5 DEF f

\* How many of n lines are too many.
Excess(n) == IF n > MaxLines THEN n - MaxLines ELSE 0

\* c is b with its newest MaxLines lines, which keep their numbers.
Retained(b, c) ==
  /\ c.baseSeq = b.baseSeq + Excess(Size(b))
  /\ LinesOf(c) = SubSeq(LinesOf(b), Excess(Size(b)) + 1, Size(b))
  /\ PartialOf(c) = PartialOf(b)

\* The lines behind the first of them.
LEMMA LinesBehind ==
  ASSUME NEW b, Shape(b), Laid(b), NEW c, Shape(c), Laid(c), NEW excess \in Nat, excess <= Size(b),
         c.base = b.base + excess, c.used = b.used,
         \A i \in c.base..(c.used - 1) : Extent(c, i) = Extent(b, i)
  PROVE  LinesOf(c) = SubSeq(LinesOf(b), excess + 1, Size(b))
  <1> DEFINE one == LinesOf(c)
             all == LinesOf(b)
             m == Size(c)
             n == Size(b)
             other == SubSeq(all, excess + 1, n)
  <1>1. /\ one \in Seq(Text) /\ Len(one) = m /\ m \in Nat
        /\ \A i \in 1..m : one[i] = Extent(c, c.base + i - 1)
    BY LinesAre
  <1>2. /\ all \in Seq(Text) /\ Len(all) = n /\ n \in Nat
        /\ \A i \in 1..n : all[i] = Extent(b, b.base + i - 1)
    BY LinesAre
  <1>3. b.base \in Nat /\ b.used \in Nat /\ m = c.used - c.base /\ n = b.used - b.base
    BY DEF Shape, Size
  <1> HIDE DEF one, all, m, n
  <1>4. m = n - excess /\ (excess + 1 <= n => n - (excess + 1) + 1 = m)
        /\ (~(excess + 1 <= n) => m = 0) /\ excess + 1 \in Int /\ n \in Int /\ excess <= n
    BY <1>2, <1>3 DEF n
  <1>5. \A i \in (excess + 1)..n : all[i] \in Text
    <2> TAKE i \in (excess + 1)..n
    <2>1. i \in 1..Len(all)
      BY <1>2, <1>4
    <2> QED
      BY <1>2, <2>1, ElementOfSeq
  <1>6. /\ other \in Seq(Text) /\ Len(other) = IF excess + 1 <= n THEN n - (excess + 1) + 1 ELSE 0
        /\ \A i \in 1..(n - (excess + 1) + 1) : other[i] = all[(excess + 1) + i - 1]
    BY <1>4, <1>5, SubSeqProperties
  <1> HIDE DEF other
  <1>7. Len(other) = m
    BY <1>4, <1>6
  <1>8. \A i \in 1..m : one[i] = other[i]
    <2> TAKE i \in 1..m
    <2>1. /\ i \in 1..(n - (excess + 1) + 1) /\ (excess + 1) + i - 1 = excess + i
          /\ excess + i \in 1..n /\ b.base + (excess + i) - 1 = c.base + i - 1
          /\ c.base + i - 1 \in c.base..(c.used - 1)
      <3>1. /\ m \in Nat /\ n \in Nat /\ b.base \in Nat /\ m = n - excess /\ m = c.used - c.base
            /\ c.base = b.base + excess /\ c.used \in Nat
        BY <1>1, <1>2, <1>3, <1>4
      <3>2. /\ i \in 1..(n - (excess + 1) + 1) /\ (excess + 1) + i - 1 = excess + i
            /\ excess + i \in 1..n
        BY <3>1
      <3>3. b.base + (excess + i) - 1 = c.base + i - 1
        BY <3>1
      <3>4. c.base + i - 1 \in c.base..(c.used - 1)
        BY <3>1
      <3> QED
        BY <3>2, <3>3, <3>4
    <2>2. other[i] = all[excess + i]
      BY <1>6, <2>1
    <2>3. all[excess + i] = Extent(b, b.base + (excess + i) - 1)
      BY <1>2, <2>1
    <2>4. one[i] = Extent(c, c.base + i - 1)
      BY <1>1
    <2>5. Extent(c, c.base + i - 1) = Extent(b, c.base + i - 1)
      BY <2>1
    <2> QED
      BY <2>1, <2>2, <2>3, <2>4, <2>5
  <1>9. one = other
    BY <1>1, <1>6, <1>7, <1>8, SeqEqual
  <1> QED
    BY <1>9 DEF one, other, all, n

\* evict keeps the newest lines, and the pages they are in.
LEMMA EvictIs ==
  ASSUME NEW b, Sound(b)
  PROVE  Sound(Evict(b)) /\ Retained(b, Evict(b))
  <1> DEFINE n == Size(b)
  <1>1. Shape(b) /\ Laid(b) /\ Counted(b) /\ Emptied(b) /\ Scanned(b)
    BY DEF Sound
  <1>2. b.base \in Nat /\ b.used \in Nat /\ b.base <= b.used /\ n = b.used - b.base /\ n \in Nat
        /\ b.baseSeq \in Int /\ b.tail \in 1..Len(b.pages)
    BY <1>1 DEF Shape, Size
  <1>3. MaxLines \in Nat
    BY BufferAssumption
  <1> HIDE DEF n
  <1>4. CASE n - MaxLines <= 0
    <2>1. Evict(b) = b /\ Excess(n) = 0
      BY <1>2, <1>3, <1>4 DEF Evict, Excess, n
    <2>2. LinesOf(b) = SubSeq(LinesOf(b), 0 + 1, n)
      <3>1. LinesOf(b) \in Seq(Text) /\ Len(LinesOf(b)) = n
        BY <1>1, LinesAre DEF n
      <3>2. SubSeq(LinesOf(b), 1, Len(LinesOf(b))) = LinesOf(b)
        BY <3>1, SubSeqFull
      <3> QED
        BY <3>1, <3>2
    <2>3. b.baseSeq = b.baseSeq + 0
      BY <1>2
    <2>4. Retained(b, b)
      BY <2>1, <2>2, <2>3 DEF Retained, n
    <2> QED
      BY <2>1, <2>4
  <1>5. CASE ~(n - MaxLines <= 0)
    <2> DEFINE x == n - MaxLines
               c == Freeing(b, x)[x]
               f == [i \in DOMAIN c.slot |-> IF i < b.base + x THEN Free ELSE c.slot[i]]
               base == b.base + x
               seq == b.baseSeq + x
               d == [c EXCEPT !.slot = f, !.base = base, !.baseSeq = seq]
    <2>1. x \in Nat /\ x <= n /\ Excess(n) = x /\ base \in Nat /\ base <= b.used /\ seq \in Int
          /\ x <= Size(b) /\ b.base <= base
      BY <1>2, <1>3, <1>5 DEF Excess, n
    <2> HIDE DEF x
    <2>2. Released(b, x, c)
      BY <1>1, <2>1, ReleasedAll
    <2>3. /\ Shape(c) /\ c.slot = b.slot /\ c.base = b.base /\ c.used = b.used /\ c.tail = b.tail
          /\ c.baseSeq = b.baseSeq /\ c.lineStart = b.lineStart /\ c.scanFrom = b.scanFrom
          /\ Len(c.pages) = Len(b.pages)
      BY <2>2 DEF Released
    <2>4. Evict(b) = d
      <3>1. Evict(b) = [c EXCEPT !.slot = [i \in DOMAIN @ |-> IF i < b.base + x THEN Free ELSE @[i]],
                                 !.base = @ + x, !.baseSeq = @ + x]
        BY <1>2, <1>3, <1>5 DEF Evict, n, x
      <3> HIDE DEF c
      <3>2. [c EXCEPT !.slot = [i \in DOMAIN @ |-> IF i < b.base + x THEN Free ELSE @[i]],
                      !.base = @ + x, !.baseSeq = @ + x] = d
        BY <2>3
      <3> QED
        BY <3>1, <3>2
    <2> HIDE DEF c, base, seq
    <2>5. \A p \in 1..Len(b.pages) :
            /\ c.refs[p] = Cardinality(Left(b, x, p))
            /\ c.pages[p] = b.pages[p] \/ (c.refs[p] = 0 /\ p # b.tail /\ c.pages[p] = <<>>)
            /\ (c.refs[p] = 0 /\ p # b.tail) => c.pages[p] = <<>> \/ Extents(c.pages[p]) = <<>>
      BY <2>2 DEF Released
    <2>6. f \in [0..(ArrayLength(b) - 1) -> Entry] /\ DOMAIN f = 0..(ArrayLength(b) - 1)
          /\ \A i \in base..(b.used - 1) : f[i] = b.slot[i]
      <3>1. b.slot \in [0..(ArrayLength(b) - 1) -> Entry] /\ b.used <= ArrayLength(b)
            /\ ArrayLength(b) \in Nat
        BY <1>1 DEF Shape
      <3>2. Free \in Entry
        BY DEF Free, Entry
      <3>3. \A i \in base..(b.used - 1) : i \in 0..(ArrayLength(b) - 1) /\ ~(i < b.base + x)
        BY <1>2, <2>1, <3>1 DEF base
      <3>4. f = [i \in 0..(ArrayLength(b) - 1) |-> IF i < b.base + x THEN Free ELSE b.slot[i]]
        BY <2>3, <3>1
      <3> HIDE DEF f
      <3> QED
        BY <3>1, <3>2, <3>3, <3>4
    <2> HIDE DEF f
    <2>7. d = [pages |-> c.pages, refs |-> c.refs, tail |-> c.tail, slot |-> f, base |-> base,
               used |-> c.used, baseSeq |-> seq, lineStart |-> c.lineStart,
               scanFrom |-> c.scanFrom]
      <3>1. c = [pages |-> c.pages, refs |-> c.refs, tail |-> c.tail, slot |-> c.slot,
                 base |-> c.base, used |-> c.used, baseSeq |-> c.baseSeq,
                 lineStart |-> c.lineStart, scanFrom |-> c.scanFrom]
        BY <2>3 DEF Shape
      <3> DEFINE c1 == [c EXCEPT !.slot = f]
                 c2 == [c1 EXCEPT !.base = base]
                 c3 == [c2 EXCEPT !.baseSeq = seq]
      <3>2. d = c3
        OBVIOUS
      <3> HIDE DEF d
      <3>3. c1 = [pages |-> c.pages, refs |-> c.refs, tail |-> c.tail, slot |-> f,
                  base |-> c.base, used |-> c.used, baseSeq |-> c.baseSeq,
                  lineStart |-> c.lineStart, scanFrom |-> c.scanFrom]
        BY <3>1
      <3> HIDE DEF c1
      <3>4. c2 = [pages |-> c.pages, refs |-> c.refs, tail |-> c.tail, slot |-> f,
                  base |-> base, used |-> c.used, baseSeq |-> c.baseSeq,
                  lineStart |-> c.lineStart, scanFrom |-> c.scanFrom]
        BY <3>3
      <3> HIDE DEF c2
      <3>5. c3 = [pages |-> c.pages, refs |-> c.refs, tail |-> c.tail, slot |-> f,
                  base |-> base, used |-> c.used, baseSeq |-> seq,
                  lineStart |-> c.lineStart, scanFrom |-> c.scanFrom]
        BY <3>4
      <3> QED
        BY <3>2, <3>5
    <2> HIDE DEF d
    <2>8. /\ d.pages = c.pages /\ d.refs = c.refs /\ d.tail = b.tail /\ d.slot = f /\ d.base = base
          /\ d.used = b.used /\ d.baseSeq = seq /\ d.lineStart = b.lineStart
          /\ d.scanFrom = b.scanFrom
      BY <2>3, <2>7
    <2>9. Shape(d)
      <3>1. ArrayLength(d) = ArrayLength(b)
        <4>1. ArrayLength(b) \in Nat
          BY <1>1 DEF Shape
        <4> QED
          BY <2>6, <2>8, <4>1, ArrayIs
      <3>2. d = [pages |-> d.pages, refs |-> d.refs, tail |-> d.tail, slot |-> d.slot,
                 base |-> d.base, used |-> d.used, baseSeq |-> d.baseSeq,
                 lineStart |-> d.lineStart, scanFrom |-> d.scanFrom]
        BY <2>7
      <3>3. /\ d.pages \in Seq(Text) /\ d.refs \in Seq(Int) /\ Len(d.refs) = Len(d.pages)
            /\ d.tail \in 1..Len(d.pages)
        BY <1>2, <2>3, <2>8 DEF Shape
      <3>4. /\ ArrayLength(d) \in Nat \ {0} /\ d.used \in Nat /\ d.used <= ArrayLength(d)
            /\ d.lineStart \in Nat /\ d.scanFrom \in Nat
        BY <1>1, <2>8, <3>1 DEF Shape
      <3>5. d.base \in Nat /\ d.base <= d.used /\ d.baseSeq \in Int
        BY <2>1, <2>8
      <3>6. d.slot \in [0..(ArrayLength(d) - 1) -> Entry]
        BY <2>6, <2>8, <3>1
      <3> QED
        BY <3>2, <3>3, <3>4, <3>5, <3>6 DEF Shape
    <2>10. ASSUME NEW i \in d.base..(d.used - 1)
           PROVE  /\ d.slot[i] = b.slot[i] /\ b.slot[i].page \in 1..Len(b.pages)
                  /\ d.pages[b.slot[i].page] = b.pages[b.slot[i].page]
                  /\ b.slot[i].start <= b.slot[i].end
                  /\ b.slot[i].end <= Len(b.pages[b.slot[i].page])
      <3>1. i \in base..(b.used - 1) /\ i \in (b.base + x)..(b.used - 1) /\ i \in b.base..(b.used - 1)
        BY <1>2, <2>1, <2>8 DEF base
      <3>2. d.slot[i] = b.slot[i]
        BY <2>6, <2>8, <3>1
      <3> DEFINE p == b.slot[i].page
      <3>3. p \in 1..Len(b.pages) /\ b.slot[i].start <= b.slot[i].end
            /\ b.slot[i].end <= Len(b.pages[p])
        BY <1>1, <3>1 DEF Laid
      <3>4. Cardinality(Left(b, x, p)) # 0
        BY <1>2, <2>1, <3>1, LeftIs
      <3> HIDE DEF p
      <3>5. d.pages[p] = b.pages[p]
        BY <2>5, <2>8, <3>3, <3>4
      <3> QED
        BY <3>2, <3>3, <3>5 DEF p
    <2>11. Laid(d)
      BY <2>3, <2>8, <2>10 DEF Laid
    <2>12. Counted(d)
      <3>1. \A p \in 1..Len(b.pages) : Users(d, p) = Left(b, x, p)
        BY <2>6, <2>8 DEF Users, Left, base
      <3> QED
        BY <2>3, <2>5, <2>8, <3>1 DEF Counted
    <2>13. Emptied(d)
      BY <2>3, <2>5, <2>8 DEF Emptied
    <2>14. d.pages[d.tail] = b.pages[b.tail]
      BY <1>2, <2>5, <2>8
    <2>15. Scanned(d) /\ PartialOf(d) = PartialOf(b)
      BY <1>1, <2>8, <2>14 DEF Scanned, PartialOf
    <2>16. LinesOf(d) = SubSeq(LinesOf(b), x + 1, Size(b))
      <3>1. \A i \in d.base..(d.used - 1) : Extent(d, i) = Extent(b, i)
        BY <2>10 DEF Extent
      <3>2. d.base = b.base + x /\ d.used = b.used
        BY <2>8 DEF base
      <3> QED
        BY <1>1, <2>1, <2>9, <2>11, <3>1, <3>2, LinesBehind
    <2>17. Retained(b, d)
      BY <2>1, <2>8, <2>15, <2>16 DEF Retained, n, seq
    <2> QED
      BY <2>4, <2>9, <2>11, <2>12, <2>13, <2>15, <2>17 DEF Sound
  <1> QED
    BY <1>4, <1>5

-----------------------------------------------------------------------------
(* append and flushPartial.                                                 *)

\* c holds the newest MaxLines of ls, the lines of b and those added to them,
\* and the text of a line that has not ended.
Becomes(b, ls, rest, c) ==
  /\ Sound(c)
  /\ c.baseSeq = b.baseSeq + Excess(Len(ls))
  /\ LinesOf(c) = SubSeq(ls, Excess(Len(ls)) + 1, Len(ls))
  /\ PartialOf(c) = rest

\* Eviction at the end of append and flushPartial.
LEMMA EvictBecomes ==
  ASSUME NEW b, NEW d, Sound(d), d.baseSeq = b.baseSeq
  PROVE  Becomes(b, LinesOf(d), PartialOf(d), Evict(d))
  <1>1. Sound(Evict(d)) /\ Retained(d, Evict(d))
    BY EvictIs
  <1>2. Len(LinesOf(d)) = Size(d)
    BY LinesAre DEF Sound
  <1> QED
    BY <1>1, <1>2 DEF Becomes, Retained

\* What is left of text is as long as the offsets say.
LEMMA PartialIs ==
  ASSUME NEW b, Sound(b)
  PROVE  /\ b.pages[b.tail] \in Text /\ Len(b.pages[b.tail]) \in Nat /\ b.lineStart \in Nat
         /\ b.lineStart <= Len(b.pages[b.tail])
         /\ PartialOf(b) \in Text /\ Len(PartialOf(b)) = Len(b.pages[b.tail]) - b.lineStart
         /\ \A j \in 1..(Len(b.pages[b.tail]) - b.lineStart) :
              PartialOf(b)[j] = b.pages[b.tail][b.lineStart + j]
  <1> DEFINE text == b.pages[b.tail]
  <1>1. b.pages \in Seq(Text) /\ b.tail \in 1..Len(b.pages) /\ b.lineStart \in Nat
    BY DEF Sound, Shape
  <1>2. text \in Text
    BY <1>1, ElementOfSeq
  <1> HIDE DEF text
  <1>3. Len(text) \in Nat
    BY <1>2, LenProperties DEF Text
  <1>4. b.lineStart <= Len(text)
    BY DEF Sound, Scanned, text
  <1> DEFINE part == Slice(text, b.lineStart, Len(text))
  <1>5. /\ part \in Seq(Chars) /\ Len(part) = Len(text) - b.lineStart
        /\ \A j \in 1..(Len(text) - b.lineStart) : part[j] = text[b.lineStart + j]
    <2> DEFINE e == Len(text)
               at == b.lineStart
    <2>1. text \in Seq(Chars) /\ e \in Nat /\ at \in Nat /\ at <= e /\ e <= Len(text)
      BY <1>1, <1>2, <1>3, <1>4 DEF Text
    <2> HIDE DEF e, at
    <2>2. /\ Slice(text, at, e) \in Seq(Chars) /\ Len(Slice(text, at, e)) = e - at
          /\ \A j \in 1..(e - at) : Slice(text, at, e)[j] = text[at + j]
      BY <2>1, SliceIs
    <2> QED
      BY <2>2 DEF e, at
  <1> QED
    BY <1>1, <1>2, <1>3, <1>4, <1>5 DEF PartialOf, text, Text

\* The partial line and the chunk are what is behind the start of the line.
LEMMA PartialGrows ==
  ASSUME NEW b, Sound(b), NEW chunk \in Text, Len(chunk) > 0
  PROVE  LET text == b.pages[b.tail] \o chunk
         IN  /\ text \in Text /\ Len(text) \in Nat /\ Len(b.pages[b.tail]) < Len(text)
             /\ \A j \in 1..Len(b.pages[b.tail]) : text[j] = b.pages[b.tail][j]
             /\ Slice(text, b.lineStart, Len(text)) = PartialOf(b) \o chunk
  <1> DEFINE old == b.pages[b.tail]
             text == old \o chunk
             at == b.lineStart
             part == PartialOf(b)
             m == Len(old)
             n == Len(chunk)
             one == Slice(text, at, Len(text))
             other == part \o chunk
  <1>1. /\ old \in Text /\ m \in Nat /\ at \in Nat /\ at <= m
        /\ part \in Text /\ Len(part) = m - at
        /\ \A j \in 1..(m - at) : part[j] = old[at + j]
    BY PartialIs
  <1>2. chunk \in Seq(Chars) /\ n \in Nat /\ n > 0
    BY LenProperties DEF Text
  <1> HIDE DEF old, at, part, m, n
  <1>3. /\ text \in Seq(Chars) /\ Len(text) = m + n
        /\ \A j \in 1..(m + n) : text[j] = IF j <= m THEN old[j] ELSE chunk[j - m]
    BY <1>1, <1>2, ConcatProperties DEF Text, m, n
  <1>4. /\ other \in Seq(Chars) /\ Len(other) = (m - at) + n
        /\ \A j \in 1..((m - at) + n) :
             other[j] = IF j <= m - at THEN part[j] ELSE chunk[j - (m - at)]
    <2>1. part \in Seq(Chars) /\ Len(part) = m - at /\ Len(chunk) = n
      BY <1>1 DEF Text, n
    <2>2. /\ part \o chunk \in Seq(Chars) /\ Len(part \o chunk) = Len(part) + Len(chunk)
          /\ \A j \in 1..(Len(part) + Len(chunk)) :
               (part \o chunk)[j] = IF j <= Len(part) THEN part[j] ELSE chunk[j - Len(part)]
      BY <1>2, <2>1, ConcatProperties
    <2> QED
      BY <2>1, <2>2
  <1> HIDE DEF text, other
  <1>5. /\ one \in Seq(Chars) /\ Len(one) = (m + n) - at
        /\ \A j \in 1..((m + n) - at) : one[j] = text[at + j]
    <2> DEFINE e == Len(text)
    <2>1. text \in Seq(Chars) /\ e \in Nat /\ at \in Nat /\ at <= e /\ e <= Len(text)
      BY <1>1, <1>2, <1>3
    <2>2. e = m + n
      BY <1>3
    <2> HIDE DEF e
    <2>3. /\ Slice(text, at, e) \in Seq(Chars) /\ Len(Slice(text, at, e)) = e - at
          /\ \A j \in 1..(e - at) : Slice(text, at, e)[j] = text[at + j]
      BY <2>1, SliceIs
    <2> QED
      BY <2>2, <2>3 DEF e
  <1> HIDE DEF one
  <1>6. Len(one) = Len(other) /\ Len(one) \in Nat
    BY <1>1, <1>2, <1>4, <1>5
  <1>7. \A j \in 1..Len(one) : one[j] = other[j]
    <2> TAKE j \in 1..Len(one)
    <2>1. m \in Nat /\ n \in Nat /\ at \in Nat /\ at <= m /\ Len(one) = (m + n) - at
      BY <1>1, <1>2, <1>5
    <2>2. /\ j \in 1..((m + n) - at) /\ j \in 1..((m - at) + n) /\ at + j \in 1..(m + n)
          /\ (j <= m - at <=> at + j <= m) /\ (at + j) - m = j - (m - at)
          /\ (j <= m - at => j \in 1..(m - at))
      BY <2>1
    <2>3. one[j] = IF at + j <= m THEN old[at + j] ELSE chunk[(at + j) - m]
      BY <1>3, <1>5, <2>2
    <2>4. other[j] = IF j <= m - at THEN part[j] ELSE chunk[j - (m - at)]
      BY <1>4, <2>2
    <2>5. j <= m - at => part[j] = old[at + j]
      BY <1>1, <2>2
    <2> QED
      BY <2>2, <2>3, <2>4, <2>5
  <1>8. one = other
    BY <1>4, <1>5, <1>6, <1>7, SeqEqual
  <1>9. \A j \in 1..m : text[j] = old[j]
    BY <1>1, <1>2, <1>3
  <1>10. Len(text) \in Nat /\ m < Len(text)
    BY <1>1, <1>2, <1>3
  <1> QED
    BY <1>3, <1>8, <1>9, <1>10 DEF text, old, one, other, part, at, m, Text

\* append puts the lines that end in the chunk behind the others.
LEMMA AppendedIs ==
  ASSUME NEW b, Sound(b), NEW chunk \in Text, Len(chunk) > 0
  PROVE  LET read == Abstract!Read(PartialOf(b) \o chunk, TRUE)
         IN  Becomes(b, LinesOf(b) \o Abstract!TrimAll(read.done), read.rest, Appended(b, chunk))
  <1> DEFINE text == b.pages[b.tail] \o chunk
             n == Len(text)
             x == Indexing(b, text)[n]
             read == Abstract!Read(Slice(text, b.lineStart, n), TRUE)
             d == [x EXCEPT !.scanFrom = n]
  <1>1. /\ text \in Text /\ n \in Nat /\ Len(b.pages[b.tail]) < n
        /\ \A j \in 1..Len(b.pages[b.tail]) : text[j] = b.pages[b.tail][j]
        /\ Slice(text, b.lineStart, n) = PartialOf(b) \o chunk
    BY PartialGrows
  <1>2. /\ b.tail \in 1..Len(b.pages) /\ b.pages \in Seq(Text) /\ b.lineStart \in Nat
        /\ b.lineStart <= Len(b.pages[b.tail]) /\ Len(b.pages[b.tail]) \in Nat
        /\ Len(b.refs) = Len(b.pages) /\ Emptied(b)
    <2>1. Len(b.pages[b.tail]) \in Nat
      BY PartialIs
    <2> QED
      BY <2>1 DEF Sound, Shape, Scanned
  <1>3. Appended(b, chunk) = Evict(Seal(d))
    BY DEF Appended
  <1>4. Indexed(b, text, n, x, read)
    <2>1. Shape(b) /\ Laid(b) /\ Counted(b) /\ Scanned(b)
      BY DEF Sound
    <2> HIDE DEF text
    <2>2. Len(b.pages[b.tail]) <= Len(text)
      BY <1>1, <1>2
    <2> QED
      BY <1>1, <2>1, <2>2, IndexedAll
  <1> HIDE DEF text, n, x, read
  <1>5. /\ Shape(x) /\ Laid(x) /\ Counted(x)
        /\ x.pages = [b.pages EXCEPT ![b.tail] = text] /\ x.tail = b.tail /\ x.baseSeq = b.baseSeq
        /\ x.lineStart \in b.lineStart..n
        /\ \A j \in (x.lineStart + 1)..n : text[j] # NL
        /\ \A p \in 1..Len(b.pages) : p # b.tail => x.refs[p] = b.refs[p]
        /\ x.lineStart = b.lineStart \/ x.refs[b.tail] >= 1
        /\ LinesOf(x) = LinesOf(b) \o Abstract!TrimAll(read.done)
    BY <1>4 DEF Indexed
  <1>6. read.rest = Slice(text, x.lineStart, n)
    <2> DEFINE rest == Slice(text, x.lineStart, n)
               done == read.done
    <2>1. read = [done |-> done, rest |-> rest]
      BY <1>4 DEF Indexed
    <2> HIDE DEF rest, done
    <2>2. read.rest = rest
      BY <2>1
    <2> QED
      BY <2>2 DEF rest
  <1>7. Shape(d) /\ Rescanned(x, d) /\ d.lineStart = x.lineStart /\ d.scanFrom = n
    BY <1>1, <1>5, ScanFromSet
  <1> HIDE DEF d
  <1>8. Laid(d) /\ LinesOf(d) = LinesOf(x) /\ Counted(d)
    BY <1>5, <1>7, RescannedKeeps
  <1>9. /\ d.pages = [b.pages EXCEPT ![b.tail] = text] /\ d.tail = b.tail
        /\ d.baseSeq = b.baseSeq /\ d.refs = x.refs
    BY <1>5, <1>7 DEF Rescanned
  <1>10. d.pages[d.tail] = text /\ Len(d.pages) = Len(b.pages) /\ Len(text) = n
    BY <1>2, <1>9 DEF n
  <1>11. Scanned(d)
    BY <1>5, <1>7, <1>10 DEF Scanned
  <1>12. Emptied(d)
    <2>1. ASSUME NEW p \in 1..Len(d.pages), d.refs[p] = 0, p # d.tail
          PROVE  d.pages[p] = <<>> \/ Extents(d.pages[p]) = <<>>
      <3>1. p \in 1..Len(b.pages) /\ p # b.tail
        BY <1>9, <1>10, <2>1
      <3>2. d.pages[p] = b.pages[p]
        BY <1>2, <1>9, <3>1
      <3>3. b.refs[p] = 0
        BY <1>5, <1>9, <2>1, <3>1
      <3> QED
        BY <1>2, <3>1, <3>2, <3>3 DEF Emptied
    <2> QED
      BY <2>1 DEF Emptied
  <1>13. Sound(d)
    BY <1>7, <1>8, <1>11, <1>12 DEF Sound
  <1>14. d.lineStart = Len(d.pages[d.tail]) => d.refs[d.tail] >= 1
    BY <1>1, <1>2, <1>5, <1>7, <1>9, <1>10
  <1>15. Sound(Seal(d)) /\ SameLines(d, Seal(d))
    BY <1>13, <1>14, SealIs
  <1>16. /\ LinesOf(Seal(d)) = LinesOf(b) \o Abstract!TrimAll(read.done)
         /\ PartialOf(Seal(d)) = read.rest /\ Seal(d).baseSeq = b.baseSeq
    <2>1. PartialOf(d) = Slice(text, x.lineStart, n)
      BY <1>7, <1>10 DEF PartialOf
    <2> QED
      BY <1>5, <1>6, <1>8, <1>9, <1>15, <2>1 DEF SameLines
  <1>17. Becomes(b, LinesOf(Seal(d)), PartialOf(Seal(d)), Evict(Seal(d)))
    BY <1>15, <1>16, EvictBecomes
  <1> QED
    BY <1>1, <1>3, <1>16, <1>17 DEF read

\* A line more leaves no page unused.
LEMMA EmptiedKept ==
  ASSUME NEW b, Shape(b), Counted(b), Emptied(b), NEW page \in 1..Len(b.pages), NEW line, NEW c,
         LineAdded(b, page, line, c)
  PROVE  Emptied(c)
  <1>1. c.pages = b.pages /\ c.tail = b.tail /\ c.refs = [b.refs EXCEPT ![page] = @ + 1]
    BY DEF LineAdded
  <1>2. DOMAIN b.refs = 1..Len(b.pages) /\ b.base \in Nat /\ b.used \in Nat
    BY DEF Shape
  <1>3. b.refs[page] \in Nat
    <2>1. Cardinality(Users(b, page)) \in Nat
      BY <1>2, UsersFinite
    <2> QED
      BY <2>1 DEF Counted
  <1>4. ASSUME NEW p \in 1..Len(c.pages), c.refs[p] = 0, p # c.tail
        PROVE  c.pages[p] = <<>> \/ Extents(c.pages[p]) = <<>>
    <2>1. p # page /\ b.refs[p] = 0
      BY <1>1, <1>2, <1>3, <1>4
    <2> QED
      BY <1>1, <1>4, <2>1 DEF Emptied
  <1> QED
    BY <1>4 DEF Emptied

\* flushPartial makes what is left a line, if there is something left.
LEMMA FlushedIs ==
  ASSUME NEW b, Sound(b)
  PROVE  IF PartialOf(b) = <<>>
           THEN Flushed(b) = b
           ELSE Becomes(b, Append(LinesOf(b), Abstract!Trimmed(PartialOf(b))), <<>>, Flushed(b))
  <1> DEFINE text == b.pages[b.tail]
             n == Len(text)
             at == b.lineStart
  <1>1. /\ text \in Text /\ n \in Nat /\ at \in Nat /\ at <= n
        /\ PartialOf(b) \in Text /\ Len(PartialOf(b)) = n - at
    BY PartialIs
  <1>2. b.tail \in 1..Len(b.pages) /\ Shape(b) /\ Laid(b) /\ Counted(b) /\ Emptied(b) /\ Scanned(b)
    BY DEF Sound, Shape
  <1>3. CASE at = n
    <2>1. Flushed(b) = b
      BY <1>1, <1>3 DEF Flushed
    <2>2. PartialOf(b) = <<>>
      <3>1. PartialOf(b) \in Seq(Chars) /\ Len(PartialOf(b)) = 0
        BY <1>1, <1>3 DEF Text
      <3> QED
        BY <3>1, EmptySeq
    <2> QED
      BY <2>1, <2>2
  <1>4. CASE at # n
    <2> DEFINE c == PushLine(b, b.tail, at, n)
               d == [c EXCEPT !.lineStart = n]
               line == Slice(text, at, n)
    <2>1. Flushed(b) = Evict(d)
      BY <1>1, <1>4 DEF Flushed
    <2>2. LineAdded(b, b.tail, line, c)
      <3> DEFINE page == b.tail
      <3>1. page \in 1..Len(b.pages) /\ n <= Len(b.pages[page])
        BY <1>1, <1>2
      <3> HIDE DEF page, at, n
      <3>2. LineAdded(b, page, Slice(b.pages[page], at, n), PushLine(b, page, at, n))
        BY <1>1, <1>2, <3>1, PushIs
      <3> QED
        BY <3>2 DEF page
    <2>3. c.scanFrom = n
      <3>1. c.scanFrom = b.scanFrom
        BY <2>2 DEF LineAdded
      <3> QED
        BY <1>2, <3>1 DEF Scanned
    <2>4. line = PartialOf(b)
      BY DEF PartialOf
    <2> HIDE DEF c, line
    <2>5. /\ Shape(c) /\ Laid(c) /\ Counted(c) /\ c.pages = b.pages /\ c.tail = b.tail
          /\ c.baseSeq = b.baseSeq /\ LinesOf(c) = Append(LinesOf(b), Abstract!Trimmed(line))
      BY <2>2 DEF LineAdded
    <2>6. Emptied(c)
      BY <1>2, <2>2, EmptiedKept
    <2>7. Shape(d) /\ Rescanned(c, d) /\ d.lineStart = n /\ d.scanFrom = n
      BY <1>1, <2>3, <2>5, LineStartSet
    <2> HIDE DEF d
    <2>8. Laid(d) /\ LinesOf(d) = LinesOf(c) /\ Counted(d)
      BY <2>5, <2>7, RescannedKeeps
    <2>9. d.pages = b.pages /\ d.tail = b.tail /\ d.refs = c.refs /\ d.baseSeq = b.baseSeq
      BY <2>5, <2>7 DEF Rescanned
    <2>10. Emptied(d)
      BY <2>5, <2>6, <2>9 DEF Emptied
    <2>11. Scanned(d)
      <3>1. d.pages[d.tail] = text
        BY <2>9
      <3>2. (n + 1)..n = {} /\ n <= n
        BY <1>1
      <3> QED
        BY <2>7, <3>1, <3>2 DEF Scanned
    <2>12. PartialOf(d) = <<>>
      <3>1. PartialOf(d) = Slice(text, n, n)
        BY <2>7, <2>9 DEF PartialOf
      <3> QED
        BY <1>1, <3>1, SliceEmpty
    <2>13. Sound(d)
      BY <2>7, <2>8, <2>10, <2>11 DEF Sound
    <2>14. Becomes(b, LinesOf(d), PartialOf(d), Evict(d))
      BY <2>9, <2>13, EvictBecomes
    <2>15. Becomes(b, Append(LinesOf(b), Abstract!Trimmed(PartialOf(b))), <<>>, Flushed(b))
      BY <2>1, <2>4, <2>5, <2>8, <2>12, <2>14
    <2>16. PartialOf(b) # <<>>
      <3>1. n - at # 0
        BY <1>1, <1>4
      <3>2. Len(PartialOf(b)) # 0
        BY <1>1, <3>1
      <3> QED
        BY <3>2
    <2> QED
      BY <2>15, <2>16
  <1> QED
    BY <1>3, <1>4

-----------------------------------------------------------------------------
(* prepend.                                                                 *)

\* reserveFront moves the lines until count lines fit before them.
LEMMA ReserveIs ==
  ASSUME NEW b, Shape(b), NEW count \in Nat
  PROVE  Moved(b, ReserveFront(b, count)) /\ count <= ReserveFront(b, count).base
  <1> DEFINE n == ArrayLength(b)
             s == b.slot
             m == Size(b)
             part == MaxLines \div 4
             gap == IF count > part THEN count ELSE part
             need == gap + m + 1
             capacity == IF n > need THEN n ELSE need
             f == [i \in 0..(capacity - 1) |-> IF i \in gap..(gap + m - 1) THEN s[i - gap + b.base]
                                                                          ELSE Free]
             r == [pages |-> b.pages, refs |-> b.refs, tail |-> b.tail, slot |-> f, base |-> gap,
                   used |-> gap + m, baseSeq |-> b.baseSeq, lineStart |-> b.lineStart,
                   scanFrom |-> b.scanFrom]
  <1>1. /\ n \in Nat \ {0} /\ s \in [0..(n - 1) -> Entry] /\ b.base \in Nat /\ b.used \in Nat
        /\ b.base <= b.used /\ b.used <= n /\ m = b.used - b.base /\ m \in Nat
    BY DEF Shape, Size
  <1>2. CASE b.base >= count
    <2>1. ReserveFront(b, count) = b
      BY <1>2 DEF ReserveFront
    <2>2. Moved(b, b)
      BY DEF Moved
    <2> QED
      BY <1>1, <1>2, <2>1, <2>2
  <1>3. CASE ~(b.base >= count)
    <2>1. part \in Nat
      <3>1. MaxLines \in Nat
        BY BufferAssumption
      <3> QED
        BY <3>1
    <2> HIDE DEF part
    <2>2. gap \in Nat /\ count <= gap
      BY <2>1
    <2>3. ReserveFront(b, count) = [b EXCEPT !.slot = f, !.base = gap, !.used = gap + m]
      BY <1>3 DEF ReserveFront, part
    <2> HIDE DEF gap
    <2>4. capacity \in Nat \ {0} /\ gap + m < capacity
      BY <1>1, <2>2
    <2> HIDE DEF capacity, m
    <2>5. f \in [0..(capacity - 1) -> Entry]
      <3>1. Free \in Entry
        BY DEF Free, Entry
      <3>2. ASSUME NEW i \in 0..(capacity - 1), i \in gap..(gap + m - 1)
            PROVE  i - gap + b.base \in 0..(n - 1)
        <4>1. b.base \in Nat /\ m \in Nat /\ n \in Nat /\ b.base + m <= n /\ gap \in Nat
          BY <1>1, <2>2
        <4> HIDE DEF n
        <4>2. i - gap \in 0..(m - 1)
          BY <3>2, <4>1
        <4> QED
          BY <4>1, <4>2
      <3> QED
        BY <1>1, <3>1, <3>2
    <2>6. \A i \in 0..(m - 1) : f[gap + i] = s[b.base + i]
      <3> TAKE i \in 0..(m - 1)
      <3>1. b.base \in Nat /\ m \in Nat /\ gap \in Nat /\ capacity \in Nat /\ gap + m < capacity
        BY <1>1, <2>2, <2>4
      <3>2. gap + i \in 0..(capacity - 1) /\ gap + i \in gap..(gap + m - 1)
        BY <3>1
      <3>3. (gap + i) - gap + b.base = b.base + i
        BY <3>1
      <3> QED
        BY <3>2, <3>3
    <2> HIDE DEF f
    <2>7. ReserveFront(b, count) = r
      <3>1. b = [pages |-> b.pages, refs |-> b.refs, tail |-> b.tail, slot |-> b.slot, base |-> b.base,
                 used |-> b.used, baseSeq |-> b.baseSeq, lineStart |-> b.lineStart,
                 scanFrom |-> b.scanFrom]
        BY DEF Shape
      <3> DEFINE c1 == [b EXCEPT !.slot = f]
                 c2 == [c1 EXCEPT !.base = gap]
                 u == gap + m
                 c3 == [c2 EXCEPT !.used = u]
      <3>2. ReserveFront(b, count) = c3
        BY <2>3
      <3> HIDE DEF u
      <3>3. c1 = [pages |-> b.pages, refs |-> b.refs, tail |-> b.tail, slot |-> f, base |-> b.base,
                  used |-> b.used, baseSeq |-> b.baseSeq, lineStart |-> b.lineStart,
                  scanFrom |-> b.scanFrom]
        BY <3>1
      <3> HIDE DEF c1
      <3>4. c2 = [pages |-> b.pages, refs |-> b.refs, tail |-> b.tail, slot |-> f, base |-> gap,
                  used |-> b.used, baseSeq |-> b.baseSeq, lineStart |-> b.lineStart,
                  scanFrom |-> b.scanFrom]
        BY <3>3
      <3> HIDE DEF c2
      <3>5. c3 = [pages |-> b.pages, refs |-> b.refs, tail |-> b.tail, slot |-> f, base |-> gap,
                  used |-> u, baseSeq |-> b.baseSeq, lineStart |-> b.lineStart,
                  scanFrom |-> b.scanFrom]
        BY <3>4
      <3> QED
        BY <3>2, <3>5 DEF u
    <2>8. ArrayLength(r) = capacity
      <3>1. capacity \in Nat /\ DOMAIN r.slot = 0..(capacity - 1)
        BY <2>4, <2>5
      <3> HIDE DEF r
      <3> QED
        BY <3>1, ArrayIs
    <2>9. Size(r) = m
      <3>1. r.base = gap /\ r.used = gap + m
        OBVIOUS
      <3> HIDE DEF r
      <3> QED
        BY <1>1, <2>2, <3>1 DEF Size
    <2>10. Shape(r)
      <3>1. gap + m \in Nat /\ gap <= gap + m /\ gap + m <= capacity
        BY <1>1, <2>2, <2>4
      <3>2. r.slot \in [0..(ArrayLength(r) - 1) -> Entry] /\ ArrayLength(r) \in Nat \ {0}
            /\ r.base \in Nat /\ r.used \in Nat /\ r.base <= r.used /\ r.used <= ArrayLength(r)
        BY <2>2, <2>4, <2>5, <2>8, <3>1
      <3>3. /\ r.pages = b.pages /\ r.refs = b.refs /\ r.tail = b.tail /\ r.baseSeq = b.baseSeq
            /\ r.lineStart = b.lineStart /\ r.scanFrom = b.scanFrom
        OBVIOUS
      <3>4. r = [pages |-> r.pages, refs |-> r.refs, tail |-> r.tail, slot |-> r.slot,
                 base |-> r.base, used |-> r.used, baseSeq |-> r.baseSeq,
                 lineStart |-> r.lineStart, scanFrom |-> r.scanFrom]
        OBVIOUS
      <3> HIDE DEF r
      <3> QED
        BY <3>2, <3>3, <3>4 DEF Shape
    <2>11. Moved(b, r)
      <3>1. \A i \in 0..(Size(b) - 1) : r.slot[r.base + i] = b.slot[b.base + i]
        BY <2>6 DEF m
      <3>2. /\ r.pages = b.pages /\ r.refs = b.refs /\ r.tail = b.tail /\ r.baseSeq = b.baseSeq
            /\ r.lineStart = b.lineStart /\ r.scanFrom = b.scanFrom
        OBVIOUS
      <3> HIDE DEF r
      <3> QED
        BY <2>9, <2>10, <3>1, <3>2 DEF Moved, m
    <2>12. r.base = gap
      OBVIOUS
    <2> HIDE DEF r
    <2> QED
      BY <2>2, <2>7, <2>11, <2>12
  <1> QED
    BY <1>2, <1>3

\* The entry of an extent of a page.
EntryOf(page, text, extent) ==
  [page |-> page, start |-> extent.start, end |-> TrimmedEnd(text, extent.start, extent.end)]

\* It lies in the page.
LEMMA EntryIs ==
  ASSUME NEW text \in Text, NEW page \in Nat, NEW extent \in [start : Nat, end : Nat],
         extent.start < extent.end, extent.end <= Len(text)
  PROVE  LET e == EntryOf(page, text, extent)
         IN  /\ e \in Entry /\ e.page = page /\ e.start <= e.end /\ e.end <= Len(text)
             /\ Slice(text, e.start, e.end) = Abstract!Trimmed(Slice(text, extent.start, extent.end))
  <1> DEFINE from == extent.start
             to == extent.end
             end == TrimmedEnd(text, from, to)
             e == [page |-> page, start |-> from, end |-> end]
  <1>1. from \in Nat /\ to \in Nat /\ from <= to /\ to <= Len(text) /\ Len(text) \in Nat
        /\ text \in Seq(Chars)
    BY LenProperties DEF Text
  <1> HIDE DEF from, to
  <1>2. end \in from..to /\ Slice(text, from, end) = Abstract!Trimmed(Slice(text, from, to))
    BY <1>1, TrimIs
  <1> HIDE DEF end
  <1>3. end \in Nat /\ from <= end /\ end <= Len(text)
    BY <1>1, <1>2
  <1>4. e \in Entry /\ e.page = page /\ e.start = from /\ e.end = end
    BY <1>1, <1>3 DEF Entry
  <1>5. EntryOf(page, text, extent) = e
    BY DEF EntryOf, from, to, end
  <1> HIDE DEF e
  <1> QED
    BY <1>2, <1>3, <1>4, <1>5 DEF from, to

\* The entries of extents of a page take the places before the lines.
Fronted(r, page, found) ==
  [r EXCEPT !.slot = [i \in DOMAIN r.slot |->
                        IF i \in (r.base - Len(found))..(r.base - 1)
                          THEN EntryOf(page, r.pages[page], found[i - (r.base - Len(found)) + 1])
                          ELSE r.slot[i]],
            !.refs[page] = Len(found),
            !.base = @ - Len(found),
            !.baseSeq = @ - Len(found)]

\* d is r with the lines in front, all in that page.
LinesPut(r, page, lines, d) ==
  /\ Shape(d) /\ Laid(d) /\ Counted(d)
  /\ d.pages = r.pages /\ d.tail = r.tail /\ d.lineStart = r.lineStart /\ d.scanFrom = r.scanFrom
  /\ d.refs = [r.refs EXCEPT ![page] = Len(lines)] /\ d.baseSeq = r.baseSeq - Len(lines)
  /\ LinesOf(d) = Abstract!TrimAll(lines) \o LinesOf(r)

\* The place of the j-th of the entries from a to u - 1.
LEMMA PlaceIs ==
  ASSUME NEW a \in Nat, NEW u \in Nat, NEW j \in 1..(u - a)
  PROVE  a + j - 1 \in a..(u - 1)
  OBVIOUS

\* The lines of a page that is not used yet are put in front and counted.
LEMMA FrontedIs ==
  ASSUME NEW r, Shape(r), Laid(r), Counted(r), NEW page \in 1..Len(r.pages), r.refs[page] = 0,
         NEW found, NEW lines, Matched(r.pages[page], found, lines, Len(r.pages[page])),
         Len(found) <= r.base
  PROVE  LinesPut(r, page, lines, Fronted(r, page, found))
  <1> DEFINE text == r.pages[page]
             count == Len(found)
             from == r.base - count
             n == ArrayLength(r)
             s == r.slot
             f == [i \in DOMAIN s |-> IF i \in from..(r.base - 1)
                                        THEN EntryOf(page, text, found[i - from + 1]) ELSE s[i]]
             rs == [r.refs EXCEPT ![page] = count]
             seq == r.baseSeq - count
             d == [pages |-> r.pages, refs |-> rs, tail |-> r.tail, slot |-> f, base |-> from,
                   used |-> r.used, baseSeq |-> seq, lineStart |-> r.lineStart,
                   scanFrom |-> r.scanFrom]
  <1>1. /\ n \in Nat \ {0} /\ s \in [0..(n - 1) -> Entry] /\ DOMAIN s = 0..(n - 1)
        /\ r.pages \in Seq(Text) /\ r.refs \in Seq(Int) /\ Len(r.refs) = Len(r.pages)
        /\ r.baseSeq \in Int
    BY DEF Shape
  <1>2. r.base \in Nat /\ r.used \in Nat /\ r.base <= r.used /\ r.used <= n /\ page \in Nat
    BY DEF Shape
  <1>3. text \in Text
    BY <1>1, ElementOfSeq
  <1>4. /\ found \in Seq([start : Nat, end : Nat])
        /\ \A j \in 1..count : found[j].start < found[j].end /\ found[j].end <= Len(text)
        /\ lines \in Seq(Text) /\ Len(lines) = count
        /\ \A j \in 1..count : lines[j] = Slice(text, found[j].start, found[j].end)
    BY DEF Matched, Text
  <1>5. count \in Nat
    BY <1>4, LenProperties
  <1> HIDE DEF text, count, n
  <1>6. from \in Nat /\ from + count = r.base /\ from <= r.base /\ seq \in Int
    <2>1. count <= r.base
      BY DEF count
    <2>2. r.base \in Nat /\ r.baseSeq \in Int
      BY <1>1, <1>2
    <2> QED
      BY <1>5, <2>1, <2>2
  <1> HIDE DEF from, seq
  <1>7. ASSUME NEW j \in 1..count
        PROVE  /\ EntryOf(page, text, found[j]) \in Entry /\ EntryOf(page, text, found[j]).page = page
               /\ EntryOf(page, text, found[j]).start <= EntryOf(page, text, found[j]).end
               /\ EntryOf(page, text, found[j]).end <= Len(text)
               /\ Slice(text, EntryOf(page, text, found[j]).start, EntryOf(page, text, found[j]).end)
                    = Abstract!Trimmed(lines[j])
    <2> DEFINE x == found[j]
    <2>1. x \in [start : Nat, end : Nat]
      BY <1>4, ElementOfSeq DEF count
    <2>2. x.start < x.end /\ x.end <= Len(text) /\ lines[j] = Slice(text, x.start, x.end)
      BY <1>4
    <2> HIDE DEF x
    <2> DEFINE e == EntryOf(page, text, x)
    <2>3. /\ e \in Entry /\ e.page = page /\ e.start <= e.end /\ e.end <= Len(text)
          /\ Slice(text, e.start, e.end) = Abstract!Trimmed(Slice(text, x.start, x.end))
      BY <1>2, <1>3, <2>1, <2>2, EntryIs
    <2> HIDE DEF e
    <2>4. e = EntryOf(page, text, found[j])
      BY DEF e, x
    <2> QED
      BY <2>2, <2>3, <2>4
  <1>8. \A i \in from..(r.base - 1) : i - from + 1 \in 1..count /\ i \in 0..(n - 1)
    BY <1>1, <1>2, <1>5, <1>6
  <1>9. /\ f \in [0..(n - 1) -> Entry] /\ DOMAIN f = 0..(n - 1)
        /\ \A i \in from..(r.base - 1) : f[i] = EntryOf(page, text, found[i - from + 1])
        /\ \A i \in r.base..(r.used - 1) : f[i] = s[i]
    <2>1. \A i \in r.base..(r.used - 1) : i \in 0..(n - 1) /\ ~(i \in from..(r.base - 1))
      <3>1. n \in Nat
        BY <1>1
      <3> QED
        BY <1>2, <1>6, <3>1
    <2>2. \A i \in from..(r.base - 1) : EntryOf(page, text, found[i - from + 1]) \in Entry
      BY <1>7, <1>8
    <2>3. f = [i \in 0..(n - 1) |-> IF i \in from..(r.base - 1)
                                      THEN EntryOf(page, text, found[i - from + 1]) ELSE s[i]]
      BY <1>1
    <2> HIDE DEF f
    <2> QED
      BY <1>1, <1>8, <2>1, <2>2, <2>3
  <1> HIDE DEF s
  <1>10. rs \in Seq(Int) /\ Len(rs) = Len(r.pages) /\ rs[page] = count
         /\ \A p \in 1..Len(r.pages) : p # page => rs[p] = r.refs[p]
    <2>1. count \in Int /\ page \in 1..Len(r.refs)
      BY <1>1, <1>5
    <2> QED
      BY <1>1, <2>1, ExceptSeq
  <1>11. Fronted(r, page, found) = [r EXCEPT !.slot = f, !.refs = rs, !.base = from, !.baseSeq = seq]
    BY DEF Fronted, s, text, count, from, seq
  <1> HIDE DEF f, rs
  <1>12. Fronted(r, page, found) = d
    <2>1. r = [pages |-> r.pages, refs |-> r.refs, tail |-> r.tail, slot |-> r.slot, base |-> r.base,
               used |-> r.used, baseSeq |-> r.baseSeq, lineStart |-> r.lineStart,
               scanFrom |-> r.scanFrom]
      BY DEF Shape
    <2> DEFINE c1 == [r EXCEPT !.slot = f]
               c2 == [c1 EXCEPT !.refs = rs]
               c3 == [c2 EXCEPT !.base = from]
               c4 == [c3 EXCEPT !.baseSeq = seq]
    <2>2. Fronted(r, page, found) = c4
      BY <1>11
    <2>3. c1 = [pages |-> r.pages, refs |-> r.refs, tail |-> r.tail, slot |-> f, base |-> r.base,
                used |-> r.used, baseSeq |-> r.baseSeq, lineStart |-> r.lineStart,
                scanFrom |-> r.scanFrom]
      BY <2>1
    <2> HIDE DEF c1
    <2>4. c2 = [pages |-> r.pages, refs |-> rs, tail |-> r.tail, slot |-> f, base |-> r.base,
                used |-> r.used, baseSeq |-> r.baseSeq, lineStart |-> r.lineStart,
                scanFrom |-> r.scanFrom]
      BY <2>3
    <2> HIDE DEF c2
    <2>5. c3 = [pages |-> r.pages, refs |-> rs, tail |-> r.tail, slot |-> f, base |-> from,
                used |-> r.used, baseSeq |-> r.baseSeq, lineStart |-> r.lineStart,
                scanFrom |-> r.scanFrom]
      BY <2>4
    <2> HIDE DEF c3
    <2>6. c4 = d
      BY <2>5
    <2> QED
      BY <2>2, <2>6
  <1>13. /\ d.pages = r.pages /\ d.refs = rs /\ d.tail = r.tail /\ d.slot = f /\ d.base = from
         /\ d.used = r.used /\ d.baseSeq = seq /\ d.lineStart = r.lineStart
         /\ d.scanFrom = r.scanFrom
    OBVIOUS
  <1>14. d = [pages |-> d.pages, refs |-> d.refs, tail |-> d.tail, slot |-> d.slot, base |-> d.base,
              used |-> d.used, baseSeq |-> d.baseSeq, lineStart |-> d.lineStart,
              scanFrom |-> d.scanFrom]
    OBVIOUS
  <1> HIDE DEF d
  <1>15. Shape(d)
    <2>1. ArrayLength(d) = n
      BY <1>1, <1>9, <1>13, ArrayIs
    <2>2. /\ d.base \in Nat /\ d.base <= d.used /\ d.used \in Nat /\ d.used <= ArrayLength(d)
          /\ ArrayLength(d) \in Nat \ {0} /\ d.baseSeq \in Int
      BY <1>1, <1>2, <1>6, <1>13, <2>1
    <2>3. d.slot \in [0..(ArrayLength(d) - 1) -> Entry]
      BY <1>9, <1>13, <2>1
    <2>4. /\ d.pages \in Seq(Text) /\ d.refs \in Seq(Int) /\ Len(d.refs) = Len(d.pages)
          /\ d.tail \in 1..Len(d.pages) /\ d.lineStart \in Nat /\ d.scanFrom \in Nat
      BY <1>1, <1>10, <1>13 DEF Shape
    <2> QED
      BY <1>14, <2>2, <2>3, <2>4 DEF Shape
  <1>16. \A i \in d.base..(d.used - 1) : i \in from..(r.base - 1) \/ i \in r.base..(r.used - 1)
    BY <1>2, <1>6, <1>13
  <1>17. Laid(d)
    <2>1. ASSUME NEW i \in d.base..(d.used - 1)
          PROVE  /\ d.slot[i].page \in 1..Len(d.pages) /\ d.slot[i].start <= d.slot[i].end
                 /\ d.slot[i].end <= Len(d.pages[d.slot[i].page])
      <3>1. CASE i \in from..(r.base - 1)
        <4> DEFINE e == EntryOf(page, text, found[i - from + 1])
        <4>1. d.slot[i] = e
          BY <1>9, <1>13, <3>1
        <4>2. e.page = page /\ e.start <= e.end /\ e.end <= Len(text)
          BY <1>7, <1>8, <3>1
        <4> HIDE DEF e
        <4> QED
          BY <1>13, <4>1, <4>2 DEF text
      <3>2. CASE i \in r.base..(r.used - 1)
        <4>1. d.slot[i] = r.slot[i] /\ d.pages = r.pages
          BY <1>9, <1>13, <3>2 DEF s
        <4> QED
          BY <3>2, <4>1 DEF Laid
      <3> QED
        BY <1>16, <3>1, <3>2
    <2> QED
      BY <2>1 DEF Laid
  <1>18. \A i \in from..(r.base - 1) : d.slot[i].page = page
    BY <1>7, <1>8, <1>9, <1>13
  <1>19. \A i \in r.base..(r.used - 1) : d.slot[i].page = r.slot[i].page
    BY <1>9, <1>13 DEF s
  <1>20. Counted(d)
    <2>1. Users(r, page) = {}
      <3>1. IsFiniteSet(Users(r, page))
        BY <1>2, UsersFinite
      <3>2. Cardinality(Users(r, page)) = 0
        BY DEF Counted
      <3> QED
        BY <3>1, <3>2, FS_EmptySet
    <2>2. Users(d, page) = from..(r.base - 1)
      <3>1. \A i \in r.base..(r.used - 1) : d.slot[i].page # page
        BY <1>19, <2>1 DEF Users
      <3>2. \A i \in from..(r.base - 1) : i \in d.base..(d.used - 1)
        BY <1>2, <1>6, <1>13
      <3> QED
        BY <1>16, <1>18, <3>1, <3>2 DEF Users
    <2>3. Cardinality(from..(r.base - 1)) = count
      <3>1. from \in Int /\ r.base - 1 \in Int
        BY <1>2, <1>6
      <3>2. Cardinality(from..(r.base - 1)) = IF from > r.base - 1 THEN 0 ELSE (r.base - 1) - from + 1
        BY <3>1, FS_Interval
      <3> QED
        BY <1>2, <1>5, <1>6, <3>2
    <2>4. \A p : p # page => Users(d, p) = Users(r, p)
      <3>1. \A i \in r.base..(r.used - 1) : i \in d.base..(d.used - 1)
        BY <1>2, <1>6, <1>13
      <3> QED
        BY <1>16, <1>18, <1>19, <3>1 DEF Users
    <2>5. ASSUME NEW p \in 1..Len(d.pages) PROVE d.refs[p] = Cardinality(Users(d, p))
      <3>1. CASE p = page
        BY <1>10, <1>13, <2>2, <2>3, <3>1
      <3>2. CASE p # page
        BY <1>10, <1>13, <2>4, <3>2 DEF Counted
      <3> QED
        BY <3>1, <3>2
    <2> QED
      BY <2>5 DEF Counted
  <1>21. LinesOf(d) = Abstract!TrimAll(lines) \o LinesOf(r)
    <2> DEFINE one == LinesOf(d)
               front == Abstract!TrimAll(lines)
               back == LinesOf(r)
               m == Size(r)
               other == front \o back
    <2>1. /\ one \in Seq(Text) /\ Len(one) = Size(d)
          /\ \A i \in 1..Size(d) : one[i] = Extent(d, d.base + i - 1)
      BY <1>15, <1>17, LinesAre
    <2>2. /\ back \in Seq(Text) /\ Len(back) = m /\ m \in Nat
          /\ \A i \in 1..m : back[i] = Extent(r, r.base + i - 1)
      BY LinesAre
    <2>3. /\ front \in Seq(Text) /\ Len(front) = count
          /\ \A i \in 1..count : front[i] = Abstract!Trimmed(lines[i])
      BY <1>4, TrimAllIs
    <2>4. Size(d) = count + m /\ m = r.used - r.base
      BY <1>2, <1>5, <1>6, <1>13 DEF Size
    <2> HIDE DEF one, front, back, m
    <2>5. /\ other \in Seq(Text) /\ Len(other) = count + m
          /\ \A i \in 1..(count + m) : other[i] = IF i <= count THEN front[i] ELSE back[i - count]
      <3>1. /\ other \in Seq(Text) /\ Len(other) = Len(front) + Len(back)
            /\ \A i \in 1..(Len(front) + Len(back)) :
                 other[i] = IF i <= Len(front) THEN front[i] ELSE back[i - Len(front)]
        BY <2>2, <2>3, ConcatProperties
      <3> HIDE DEF other
      <3> QED
        BY <2>2, <2>3, <3>1
    <2> HIDE DEF other
    <2>6. ASSUME NEW i \in 1..(count + m) PROVE one[i] = other[i]
      <3>1. one[i] = Extent(d, d.base + i - 1)
        BY <2>1, <2>4
      <3>2. CASE i <= count
        <4>1. i \in 1..count /\ d.base + i - 1 = from + i - 1 /\ (from + i - 1) - from + 1 = i
              /\ from + i - 1 \in from..(r.base - 1)
          BY <1>2, <1>5, <1>6, <1>13, <2>2, <3>2
        <4> DEFINE k == from + i - 1
                   e == EntryOf(page, text, found[i])
        <4>2. d.slot[k] = e
          <5>1. f[k] = EntryOf(page, text, found[k - from + 1])
            BY <1>9, <4>1
          <5> QED
            BY <1>13, <4>1, <5>1
        <4>3. e.page = page /\ Slice(text, e.start, e.end) = Abstract!Trimmed(lines[i])
          BY <1>7, <4>1
        <4> HIDE DEF e, k
        <4>4. Extent(d, k) = Abstract!Trimmed(lines[i])
          BY <1>13, <4>2, <4>3 DEF Extent, text
        <4>5. other[i] = front[i] /\ front[i] = Abstract!Trimmed(lines[i])
          BY <2>3, <2>5, <3>2, <4>1
        <4> QED
          BY <3>1, <4>1, <4>4, <4>5 DEF k
      <3>3. CASE ~(i <= count)
        <4>1. i - count \in 1..m /\ d.base + i - 1 = r.base + (i - count) - 1
              /\ r.base + (i - count) - 1 \in r.base..(r.used - 1)
          <5>1. /\ r.base \in Nat /\ r.used \in Nat /\ count \in Nat /\ m \in Nat /\ d.base \in Nat
                /\ d.base + count = r.base /\ m = r.used - r.base
            BY <1>2, <1>5, <1>6, <1>13, <2>2, <2>4
          <5>2. i - count \in 1..m
            BY <3>3, <5>1
          <5>3. d.base + i - 1 = r.base + (i - count) - 1
            BY <5>1
          <5>4. r.base + (i - count) - 1 \in r.base..(r.used - 1)
            <6> DEFINE j == i - count
            <6>1. j \in 1..(r.used - r.base)
              BY <5>1, <5>2
            <6> HIDE DEF j
            <6>2. r.base + j - 1 \in r.base..(r.used - 1)
              BY <5>1, <6>1, PlaceIs
            <6> QED
              BY <6>2 DEF j
          <5> QED
            BY <5>2, <5>3, <5>4
        <4> DEFINE k == r.base + (i - count) - 1
        <4>2. d.slot[k] = r.slot[k] /\ d.pages = r.pages
          BY <1>9, <1>13, <4>1 DEF s
        <4>3. back[i - count] = Extent(r, k)
          BY <2>2, <4>1
        <4> HIDE DEF k
        <4>4. Extent(d, k) = Extent(r, k)
          BY <4>2 DEF Extent
        <4>5. other[i] = back[i - count]
          BY <2>5, <3>3
        <4> QED
          BY <3>1, <4>1, <4>3, <4>4, <4>5 DEF k
      <3> QED
        BY <3>2, <3>3
    <2>7. one = other
      BY <2>1, <2>4, <2>5, <2>6, SeqEqual
    <2> QED
      BY <2>7 DEF one, other, front, back
  <1>22. LinesPut(r, page, lines, d)
    <2>1. d.refs = [r.refs EXCEPT ![page] = Len(lines)] /\ d.baseSeq = r.baseSeq - Len(lines)
      BY <1>4, <1>13 DEF rs, seq
    <2> QED
      BY <1>13, <1>15, <1>17, <1>20, <1>21, <2>1 DEF LinesPut
  <1> QED
    BY <1>12, <1>22

\* prepend puts the lines of text that are not blank in front; without any it
\* only leaves a page.
LEMMA PrependedIs ==
  ASSUME NEW b, Sound(b), NEW text \in Text
  PROVE  LET lines == Abstract!Finished(Abstract!Read(text, FALSE), FALSE)
             c == Prepended(b, text)
         IN  /\ Sound(c) /\ PartialOf(c) = PartialOf(b) /\ c.baseSeq = b.baseSeq - Len(lines)
             /\ LinesOf(c) = Abstract!TrimAll(lines) \o LinesOf(b)
             /\ Len(Abstract!TrimAll(lines)) = Len(lines)
  <1> DEFINE lines == Abstract!Finished(Abstract!Read(text, FALSE), FALSE)
             found == Extents(text)
             count == Len(found)
             n == Len(b.pages)
             page == n + 1
             p == NewPage(b, text)
  <1>1. Matched(text, found, lines, Len(text))
    BY ScanReads DEF Text
  <1>2. Shape(b) /\ Laid(b) /\ Counted(b) /\ Emptied(b) /\ Scanned(b)
    BY DEF Sound
  <1>3. PageAdded(b, text, p)
    BY <1>2, NewPageIs
  <1>4. n \in Nat /\ b.pages \in Seq(Text) /\ b.refs \in Seq(Int) /\ Len(b.refs) = n
        /\ b.tail \in 1..n /\ b.baseSeq \in Int
    <2>1. b.pages \in Seq(Text)
      BY <1>2 DEF Shape
    <2> QED
      BY <1>2, <2>1, LenProperties DEF Shape
  <1> HIDE DEF lines, found, p
  <1>5. found \in Seq([start : Nat, end : Nat]) /\ lines \in Seq(Text) /\ Len(lines) = count
        /\ count \in Nat
    <2>1. found \in Seq([start : Nat, end : Nat]) /\ lines \in Seq(Text) /\ Len(lines) = Len(found)
      BY <1>1 DEF Matched, Text
    <2> QED
      BY <2>1, LenProperties
  <1>6. Len(Abstract!TrimAll(lines)) = Len(lines) /\ Abstract!TrimAll(lines) \in Seq(Text)
    BY <1>5, TrimAllIs
  <1> HIDE DEF n, count
  <1>7. /\ Shape(p) /\ Laid(p) /\ Counted(p) /\ LinesOf(p) = LinesOf(b) /\ p.tail = b.tail
        /\ p.baseSeq = b.baseSeq /\ p.lineStart = b.lineStart /\ p.scanFrom = b.scanFrom
    BY <1>3 DEF PageAdded
  <1>8. /\ Len(p.pages) = page /\ p.pages[page] = text
        /\ \A q \in 1..n : p.pages[q] = b.pages[q]
    <2>1. p.pages = Append(b.pages, text)
      BY <1>3 DEF PageAdded
    <2> QED
      BY <1>4, <2>1, AppendProperties DEF n
  <1>9. p.refs[page] = 0 /\ DOMAIN p.refs = 1..page /\ \A q \in 1..n : p.refs[q] = b.refs[q]
    <2>1. p.refs = Append(b.refs, 0) /\ Len(b.refs) = n
      BY <1>3, <1>4 DEF PageAdded
    <2>2. /\ p.refs \in Seq(Int) /\ Len(p.refs) = Len(b.refs) + 1 /\ p.refs[Len(b.refs) + 1] = 0
          /\ \A q \in 1..Len(b.refs) : p.refs[q] = b.refs[q]
      BY <1>4, <2>1, AppendProperties
    <2>3. DOMAIN p.refs = 1..Len(p.refs)
      BY <2>2
    <2> QED
      BY <2>1, <2>2, <2>3
  <1>10. \A q \in 1..page : q \in 1..n \/ q = page
    BY <1>4
  <1>11. CASE count = 0
    <2>1. Prepended(b, text) = p
      BY <1>11 DEF Prepended, found, count, p
    <2>2. found = <<>> /\ Abstract!TrimAll(lines) = <<>>
      BY <1>5, <1>6, <1>11, EmptySeq DEF count
    <2>3. Emptied(p)
      <3>1. ASSUME NEW q \in 1..Len(p.pages), p.refs[q] = 0, q # p.tail
            PROVE  p.pages[q] = <<>> \/ Extents(p.pages[q]) = <<>>
        <4>1. CASE q = page
          BY <1>8, <2>2, <4>1 DEF found
        <4>2. CASE q \in 1..n
          BY <1>2, <1>7, <1>8, <1>9, <3>1, <4>2 DEF Emptied, n
        <4> QED
          BY <1>8, <1>10, <4>1, <4>2
      <3> QED
        BY <3>1 DEF Emptied
    <2>4. Scanned(p) /\ PartialOf(p) = PartialOf(b)
      <3>1. p.pages[p.tail] = b.pages[b.tail]
        BY <1>4, <1>7, <1>8
      <3> QED
        BY <1>2, <1>7, <3>1 DEF Scanned, PartialOf
    <2>5. <<>> \o LinesOf(b) = LinesOf(b)
      <3>1. LinesOf(b) \in Seq(Text)
        BY <1>2, LinesAre
      <3> QED
        BY <3>1, ConcatEmptySeq
    <2>6. b.baseSeq = b.baseSeq - 0
      BY <1>4
    <2> QED
      BY <1>5, <1>6, <1>7, <1>11, <2>1, <2>2, <2>3, <2>4, <2>5, <2>6 DEF Sound, lines
  <1>12. CASE count # 0
    <2> DEFINE r == ReserveFront(p, count)
               d == Fronted(r, page, found)
    <2>1. Moved(p, r) /\ count <= r.base
      BY <1>5, <1>7, ReserveIs
    <2> HIDE DEF r
    <2>2. Shape(r) /\ r.pages = p.pages /\ r.refs = p.refs /\ r.tail = p.tail
          /\ r.baseSeq = p.baseSeq /\ r.lineStart = p.lineStart /\ r.scanFrom = p.scanFrom
      BY <2>1 DEF Moved
    <2>3. Laid(r) /\ LinesOf(r) = LinesOf(p) /\ Counted(r)
      BY <1>7, <2>1, MovedKeeps
    <2>4. Prepended(b, text) = d
      <3>1. r = ReserveFront(NewPage(b, text), Len(Extents(text)))
        BY DEF r, p, count, found
      <3>2. r.pages[page] = text
        BY <1>8, <2>2
      <3> DEFINE g == [i \in DOMAIN r.slot |->
                         IF i \in (r.base - count)..(r.base - 1)
                           THEN [page |-> page, start |-> found[i - (r.base - count) + 1].start,
                                 end |-> TrimmedEnd(text, found[i - (r.base - count) + 1].start,
                                                          found[i - (r.base - count) + 1].end)]
                           ELSE r.slot[i]]
      <3>3. Prepended(b, text) = [r EXCEPT !.slot = g, !.refs[page] = count, !.base = @ - count,
                                           !.baseSeq = @ - count]
        BY <1>12, <3>1 DEF Prepended, found, count, n
      <3>4. d = [r EXCEPT !.slot = g, !.refs[page] = count, !.base = @ - count,
                          !.baseSeq = @ - count]
        BY <3>2 DEF Fronted, EntryOf, count
      <3> QED
        BY <3>3, <3>4
    <2>5. LinesPut(r, page, lines, d)
      <3>1. page \in 1..Len(r.pages) /\ r.refs[page] = 0 /\ Len(found) <= r.base
            /\ Matched(r.pages[page], found, lines, Len(r.pages[page]))
        BY <1>1, <1>4, <1>8, <1>9, <2>1, <2>2 DEF count
      <3> QED
        BY <2>2, <2>3, <3>1, FrontedIs
    <2> HIDE DEF d
    <2>6. /\ Shape(d) /\ Laid(d) /\ Counted(d)
          /\ d.pages = p.pages /\ d.tail = b.tail /\ d.lineStart = b.lineStart
          /\ d.scanFrom = b.scanFrom /\ d.refs = [p.refs EXCEPT ![page] = count]
          /\ d.baseSeq = b.baseSeq - Len(lines)
          /\ LinesOf(d) = Abstract!TrimAll(lines) \o LinesOf(b)
      BY <1>5, <1>7, <2>2, <2>3, <2>5 DEF LinesPut
    <2>7. Emptied(d)
      <3>1. ASSUME NEW q \in 1..Len(d.pages), d.refs[q] = 0, q # d.tail
            PROVE  d.pages[q] = <<>> \/ Extents(d.pages[q]) = <<>>
        <4>1. page \in DOMAIN p.refs /\ q \in 1..page
          BY <1>4, <1>8, <1>9, <2>6
        <4>2. q # page
          BY <1>9, <1>12, <2>6, <3>1, <4>1
        <4>3. q \in 1..n
          BY <1>10, <4>1, <4>2
        <4>4. b.refs[q] = 0
          BY <1>9, <2>6, <3>1, <4>1, <4>2, <4>3
        <4> QED
          BY <1>2, <1>8, <2>6, <3>1, <4>3, <4>4 DEF Emptied, n
      <3> QED
        BY <3>1 DEF Emptied
    <2>8. Scanned(d) /\ PartialOf(d) = PartialOf(b)
      <3>1. d.pages[d.tail] = b.pages[b.tail]
        BY <1>4, <1>8, <2>6
      <3> QED
        BY <1>2, <2>6, <3>1 DEF Scanned, PartialOf
    <2> QED
      BY <1>6, <2>4, <2>6, <2>7, <2>8 DEF Sound, lines
  <1> QED
    BY <1>11, <1>12

-----------------------------------------------------------------------------
(* The buffer.                                                              *)

\* A buffer with nothing in it.
LEMMA EmptyIs ==
  ASSUME NEW n \in Nat \ {0}, NEW c, c = [Fresh EXCEPT !.slot = [i \in 0..(n - 1) |-> Free]]
  PROVE  Sound(c) /\ LinesOf(c) = <<>> /\ c.baseSeq = 0 /\ PartialOf(c) = <<>>
  <1> DEFINE f == [i \in 0..(n - 1) |-> Free]
             none == <<>>
             ps == <<none>>
             rs == <<0>>
  <1>1. c = [pages |-> ps, refs |-> rs, tail |-> 1, slot |-> f, base |-> 0, used |-> 0,
             baseSeq |-> 0, lineStart |-> 0, scanFrom |-> 0]
    BY DEF Fresh
  <1>2. none \in Text /\ Len(none) = 0
    BY DEF Text
  <1>3. f \in [0..(n - 1) -> Entry] /\ DOMAIN f = 0..(n - 1)
    BY DEF Free, Entry
  <1>4. rs \in Seq(Int) /\ Len(rs) = 1 /\ rs[1] = 0
    OBVIOUS
  <1> HIDE DEF f, none
  <1>5. ps \in Seq(Text) /\ Len(ps) = 1 /\ ps[1] = none
    BY <1>2
  <1> HIDE DEF ps, rs
  <1>6. /\ c.pages = ps /\ c.refs = rs /\ c.tail = 1 /\ c.slot = f /\ c.base = 0 /\ c.used = 0
        /\ c.baseSeq = 0 /\ c.lineStart = 0 /\ c.scanFrom = 0
    BY <1>1
  <1>7. c = [pages |-> c.pages, refs |-> c.refs, tail |-> c.tail, slot |-> c.slot, base |-> c.base,
             used |-> c.used, baseSeq |-> c.baseSeq, lineStart |-> c.lineStart,
             scanFrom |-> c.scanFrom]
    BY <1>1
  <1>8. Shape(c)
    <2>1. ArrayLength(c) = n
      BY <1>3, <1>6, ArrayIs
    <2>2. c.tail \in 1..Len(c.pages)
      BY <1>5, <1>6
    <2>3. /\ c.base \in Nat /\ c.used \in Nat /\ c.base <= c.used /\ c.used <= ArrayLength(c)
          /\ c.baseSeq \in Int /\ c.lineStart \in Nat /\ c.scanFrom \in Nat
      BY <1>6, <2>1
    <2> QED
      BY <1>3, <1>4, <1>5, <1>6, <1>7, <2>1, <2>2, <2>3 DEF Shape
  <1>9. c.base..(c.used - 1) = {}
    BY <1>6
  <1>10. Laid(c)
    BY <1>9 DEF Laid
  <1>11. Counted(c)
    <2>1. \A p : Users(c, p) = {}
      BY <1>9 DEF Users
    <2>2. \A p \in 1..Len(c.pages) : c.refs[p] = 0
      BY <1>4, <1>5, <1>6
    <2> QED
      BY <2>1, <2>2, FS_EmptySet DEF Counted
  <1>12. Emptied(c)
    BY <1>5, <1>6 DEF Emptied
  <1>13. c.pages[c.tail] = none
    BY <1>5, <1>6
  <1>14. Scanned(c)
    BY <1>2, <1>6, <1>13 DEF Scanned
  <1>15. PartialOf(c) = <<>>
    <2>1. PartialOf(c) = Slice(none, 0, 0)
      BY <1>2, <1>6, <1>13 DEF PartialOf
    <2> QED
      BY <2>1, SliceEmpty
  <1>16. LinesOf(c) = <<>>
    <2>1. LinesOf(c) \in Seq(Text) /\ Len(LinesOf(c)) = Size(c)
      BY <1>8, <1>10, LinesAre
    <2>2. Size(c) = 0
      BY <1>6 DEF Size
    <2> QED
      BY <2>1, <2>2, EmptySeq
  <1> QED
    BY <1>6, <1>8, <1>10, <1>11, <1>12, <1>14, <1>15, <1>16 DEF Sound

\* The new buffer holds nothing.
LEMMA FreshIs == Sound(Fresh) /\ LinesOf(Fresh) = <<>> /\ Fresh.baseSeq = 0 /\ PartialOf(Fresh) = <<>>
  <1>1. Capacity \in Nat \ {0}
    BY BufferAssumption
  <1>2. Fresh = [Fresh EXCEPT !.slot = [i \in 0..(Capacity - 1) |-> Free]]
    <2> DEFINE f == [i \in 0..(Capacity - 1) |-> Free]
               ps == << <<>> >>
               rs == <<0>>
    <2>1. Fresh = [pages |-> ps, refs |-> rs, tail |-> 1, slot |-> f, base |-> 0, used |-> 0,
                   baseSeq |-> 0, lineStart |-> 0, scanFrom |-> 0]
      BY DEF Fresh
    <2> HIDE DEF f, ps, rs
    <2>2. Fresh = [Fresh EXCEPT !.slot = f]
      BY <2>1
    <2> QED
      BY <2>2 DEF f
  <1> QED
    BY <1>1, <1>2, EmptyIs

\* The cleared buffer holds nothing, in arrays as long as they were.
LEMMA ClearedIs ==
  ASSUME NEW b, Sound(b)
  PROVE  /\ Sound(Cleared(b)) /\ LinesOf(Cleared(b)) = <<>> /\ Cleared(b).baseSeq = 0
         /\ PartialOf(Cleared(b)) = <<>>
  <1> DEFINE n == ArrayLength(b)
  <1>1. n \in Nat \ {0} /\ DOMAIN b.slot = 0..(n - 1)
    BY DEF Sound, Shape
  <1> HIDE DEF n
  <1>2. Cleared(b) = [Fresh EXCEPT !.slot = [i \in 0..(n - 1) |-> Free]]
    BY <1>1 DEF Cleared
  <1> QED
    BY <1>1, <1>2, EmptyIs

\* The buffer is sound between its methods: its lines lie in its pages, each
\* page is counted by its lines, unused pages have given their text back, and
\* the tail page is scanned to its end, whatever text comes in whatever chunks.
THEOREM SoundAlways == BufferSpec => []Sound(buf)
  <1>1. BufferInit => Sound(buf)
    BY FreshIs DEF BufferInit
  <1>2. Sound(buf) /\ [BufferNext]_bufferVars => Sound(buf)'
    <2> SUFFICES ASSUME Sound(buf), [BufferNext]_bufferVars PROVE Sound(buf')
      OBVIOUS
    <2>1. ASSUME NEW chunk \in Arriving, AppendChunk(chunk) PROVE Sound(buf')
      <3>1. chunk \in Text /\ Len(chunk) > 0
        BY GivenIs DEF Text
      <3>2. Sound(Appended(buf, chunk))
        BY <3>1, AppendedIs DEF Becomes
      <3> QED
        BY <2>1, <3>2 DEF AppendChunk
    <2>2. CASE FlushPartial
      <3>1. Sound(Flushed(buf))
        BY FlushedIs DEF Becomes
      <3> QED
        BY <2>2, <3>1 DEF FlushPartial
    <2>3. ASSUME NEW text \in Earlier, Prepend(text) PROVE Sound(buf')
      <3>1. text \in Text
        BY GivenIs DEF Text
      <3>2. Sound(Prepended(buf, text))
        BY <3>1, PrependedIs
      <3> QED
        BY <2>3, <3>2 DEF Prepend
    <2>4. CASE Clear
      <3>1. Sound(Cleared(buf))
        BY ClearedIs
      <3> QED
        BY <2>4, <3>1 DEF Clear
    <2>5. CASE UNCHANGED bufferVars
      BY <2>5 DEF bufferVars
    <2> QED
      BY <2>1, <2>2, <2>3, <2>4, <2>5 DEF BufferNext
  <1> QED
    BY <1>1, <1>2, PTL DEF BufferSpec

\* A sound buffer counts its pages exactly.
LEMMA SoundCounts == Sound(buf) => PagesCounted
  <1> SUFFICES ASSUME Sound(buf) PROVE PagesCounted
    OBVIOUS
  <1>1. /\ buf.pages \in Seq(Text) /\ Len(buf.refs) = Len(buf.pages)
        /\ buf.tail \in 1..Len(buf.pages) /\ buf.base \in Nat /\ buf.base <= buf.used
        /\ buf.used <= ArrayLength(buf) /\ DOMAIN buf.slot = 0..(ArrayLength(buf) - 1)
    BY DEF Sound, Shape
  <1>2. DOMAIN buf.pages = 1..Len(buf.pages)
    BY <1>1
  <1>3. buf.lineStart \in 0..Len(buf.pages[buf.tail]) /\ buf.scanFrom = Len(buf.pages[buf.tail])
    <2>1. /\ Len(buf.pages[buf.tail]) \in Nat /\ buf.lineStart \in Nat
          /\ buf.lineStart <= Len(buf.pages[buf.tail])
      BY PartialIs
    <2> QED
      BY <2>1 DEF Sound, Scanned
  <1>4. InRange
    <2>1. Laid(buf)
      BY DEF Sound
    <2> QED
      BY <1>1, <1>2, <1>3, <2>1 DEF InRange, Laid
  <1> QED
    BY <1>2, <1>4 DEF PagesCounted, Sound, Counted, Users, Emptied

\* PagesCounted, for every value of the constants: prepends, compactions,
\* reallocations, sealed pages and evictions in any order leave the counts of
\* the pages exact and every live line inside its page.
THEOREM PagesCountedAlways == BufferSpec => []PagesCounted
  BY SoundAlways, SoundCounts, PTL

\* The buffer implements LogLines: each method is a step of a run of numbered
\* lines, or changes nothing a reader sees.
THEOREM BufferRefinesLines == BufferSpec => RefinesLines
  <1>1. BufferInit => Abstract!Init
    <2> SUFFICES ASSUME BufferInit PROVE Abstract!Init
      OBVIOUS
    <2>1. LinesOf(buf) = <<>> /\ buf.baseSeq = 0 /\ PartialOf(buf) = <<>>
      BY FreshIs DEF BufferInit
    <2> QED
      BY <2>1 DEF Abstract!Init, LinesOf, PartialOf
  <1>2. Sound(buf) /\ [BufferNext]_bufferVars
          => [Abstract!vars' # Abstract!vars /\ Abstract!Next]_Abstract!vars
    <2> SUFFICES ASSUME Sound(buf), [BufferNext]_bufferVars
                 PROVE  Abstract!Next \/ UNCHANGED Abstract!vars
      OBVIOUS
    <2>1. ASSUME NEW chunk \in Arriving, AppendChunk(chunk) PROVE Abstract!Arrives(chunk)
      <3> DEFINE read == Abstract!Read(PartialOf(buf) \o chunk, TRUE)
                 ls == LinesOf(buf) \o Abstract!TrimAll(read.done)
      <3>1. chunk \in Text /\ Len(chunk) > 0
        BY GivenIs DEF Text
      <3>2. Becomes(buf, ls, read.rest, Appended(buf, chunk))
        BY <3>1, AppendedIs
      <3>3. Becomes(buf, ls, read.rest, buf')
        BY <2>1, <3>2 DEF AppendChunk
      <3> HIDE DEF ls
      <3>4. /\ LinesOf(buf') = SubSeq(ls, Excess(Len(ls)) + 1, Len(ls))
            /\ buf'.baseSeq = buf.baseSeq + Excess(Len(ls)) /\ PartialOf(buf') = read.rest
        BY <3>3 DEF Becomes
      <3> QED
        BY <3>4 DEF Abstract!Arrives, Abstract!Retain, LinesOf, PartialOf, Excess, ls
    <2>2. CASE FlushPartial
      <3>1. CASE PartialOf(buf) = <<>>
        <4>1. buf' = buf
          BY <2>2, <3>1, FlushedIs DEF FlushPartial
        <4> QED
          BY <4>1 DEF Abstract!vars
      <3>2. CASE PartialOf(buf) # <<>>
        <4> DEFINE ls == Append(LinesOf(buf), Abstract!Trimmed(PartialOf(buf)))
        <4>1. Becomes(buf, ls, <<>>, buf')
          BY <2>2, <3>2, FlushedIs DEF FlushPartial
        <4> HIDE DEF ls
        <4>2. /\ LinesOf(buf') = SubSeq(ls, Excess(Len(ls)) + 1, Len(ls))
              /\ buf'.baseSeq = buf.baseSeq + Excess(Len(ls)) /\ PartialOf(buf') = <<>>
          BY <4>1 DEF Becomes
        <4>3. Abstract!Ends
          BY <3>2, <4>2 DEF Abstract!Ends, Abstract!Retain, LinesOf, PartialOf, Excess, ls
        <4> QED
          BY <4>3 DEF Abstract!Next
      <3> QED
        BY <3>1, <3>2
    <2>3. ASSUME NEW text \in Earlier, Prepend(text) PROVE Abstract!Precedes(text)
      <3> DEFINE lines == Abstract!Finished(Abstract!Read(text, FALSE), FALSE)
                 added == Abstract!TrimAll(lines)
      <3>1. text \in Text
        BY GivenIs DEF Text
      <3>2. /\ LinesOf(buf') = added \o LinesOf(buf) /\ buf'.baseSeq = buf.baseSeq - Len(lines)
            /\ PartialOf(buf') = PartialOf(buf) /\ Len(added) = Len(lines)
        BY <2>3, <3>1, PrependedIs DEF Prepend
      <3> HIDE DEF lines
      <3>3. buf'.baseSeq = buf.baseSeq - Len(added)
        BY <3>2
      <3> QED
        BY <3>2, <3>3 DEF Abstract!Precedes, LinesOf, PartialOf, lines
    <2>4. CASE Clear
      <3>1. LinesOf(buf') = <<>> /\ buf'.baseSeq = 0 /\ PartialOf(buf') = <<>>
        BY <2>4, ClearedIs DEF Clear
      <3>2. Abstract!Restarts
        BY <3>1 DEF Abstract!Restarts, LinesOf, PartialOf
      <3> QED
        BY <3>2 DEF Abstract!Next
    <2>5. CASE UNCHANGED bufferVars
      BY <2>5 DEF bufferVars, Abstract!vars
    <2> QED
      BY <2>1, <2>2, <2>3, <2>4, <2>5 DEF BufferNext, Abstract!Next
  <1> QED
    BY <1>1, <1>2, SoundAlways, PTL DEF BufferSpec, RefinesLines, Abstract!Spec

=============================================================================
