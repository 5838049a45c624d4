--------------------------- MODULE LoggingProofs ----------------------------
(***************************************************************************)
(* The logging plugin's fetch patch, for any number of wrappers, hrefs and *)
(* clicks; its cache of parsed rows, for any formats, sizes and streams;   *)
(* and its viewer, for any heights, limits and histories of a log.         *)
(***************************************************************************)
EXTENDS FetchPatch, ParseCache, LogViewer, SequenceTheorems, WellFoundedInduction, TLAPS

-----------------------------------------------------------------------------
(* The cache of parsed rows.                                                *)

Parsed == [seq : Int, text : {"a", "b"} \X Int, format : CachedFormats]

\* The cache is never ahead of the buffer; while it is of the same stream, what
\* it holds are the lines that have those numbers.
CacheInv ==
  /\ stored \in [gen : Nat, log : {"a", "b"}, base : Nat, first : Int, count : Nat]
  /\ parseCache # None =>
       /\ parseCache \in [format : CachedFormats, gen : Nat, entries : Seq(Parsed)]
       /\ parseCache.gen <= stored.gen
       /\ Len(parseCache.entries) <= ParseCacheSize
       /\ \A i \in 1..Len(parseCache.entries) :
            LET entry == parseCache.entries[i]
            IN  /\ entry.format = parseCache.format
                /\ parseCache.gen = stored.gen => entry.text = StoredText(entry.seq)
  /\ rowEntry # None => (rowEntry.got.text = rowEntry.want /\ rowEntry.got.format = rowEntry.format)

\* The buffer moves within its stream: numbers keep their lines.
LEMMA CacheKept ==
  ASSUME CacheInv, stored' \in [gen : Nat, log : {"a", "b"}, base : Nat, first : Int, count : Nat],
         \/ stored'.gen = stored.gen /\ stored'.log = stored.log /\ stored'.base = stored.base
         \/ stored'.gen > stored.gen,
         UNCHANGED <<parseCache, rowEntry>>
  PROVE  CacheInv'
  BY DEF CacheInv, StoredText

\* A row found in the cache, or parsed and kept, is the line that has its number.
LEMMA RowFound ==
  ASSUME CacheInv, NEW seq \in stored.first..(stored.first + stored.count - 1),
         NEW format \in CachedFormats, entryFor(seq, format)
  PROVE  CacheInv'
  <1> DEFINE cache == IF Valid(format) THEN parseCache ELSE NewCache(format)
             hits == {i \in DOMAIN cache.entries : cache.entries[i].seq = seq}
             parsed == [seq |-> seq, text |-> StoredText(seq), format |-> format]
             kept == Append(cache.entries, parsed)
             Keeps(es) == /\ es \in Seq(Parsed) /\ Len(es) <= ParseCacheSize
                          /\ \A i \in 1..Len(es) :
                               es[i].format = format /\ es[i].text = StoredText(es[i].seq)
  <1>1. stored \in [gen : Nat, log : {"a", "b"}, base : Nat, first : Int, count : Nat] /\ seq \in Int
    BY DEF CacheInv
  <1>2. /\ cache = [format |-> format, gen |-> stored.gen, entries |-> cache.entries]
        /\ Keeps(cache.entries)
    <2>1. CASE Valid(format)
      BY <1>1, <2>1 DEF CacheInv, Valid
    <2>2. CASE ~Valid(format)
      <3>1. cache = [format |-> format, gen |-> stored.gen, entries |-> <<>>]
        BY <2>2 DEF NewCache
      <3>2. Keeps(<<>>)
        BY CacheAssumption
      <3>3. cache.entries = <<>>
        BY <3>1
      <3> HIDE DEF cache, Keeps
      <3> QED
        BY <3>1, <3>2, <3>3
    <2> QED
      BY <2>1, <2>2
  <1>3. parsed \in Parsed /\ parsed.format = format /\ parsed.text = StoredText(parsed.seq)
    BY <1>1 DEF Parsed, StoredText
  <1>4. UNCHANGED stored
    BY DEF entryFor
  <1>5. CASE hits # {}
    <2>1. /\ parseCache' = cache
          /\ rowEntry' = [seq |-> seq, format |-> format, want |-> StoredText(seq),
                          got |-> cache.entries[CHOOSE i \in hits : TRUE]]
      BY <1>5 DEF entryFor
    <2>2. PICK i \in hits : i = CHOOSE j \in hits : TRUE
      BY <1>5
    <2>3. i \in 1..Len(cache.entries) /\ cache.entries[i].seq = seq
      BY <1>2, <2>2
    <2>4. rowEntry'.got.text = rowEntry'.want /\ rowEntry'.got.format = rowEntry'.format
      BY <1>2, <2>1, <2>2, <2>3
    <2> HIDE DEF cache
    <2> QED
      BY <1>1, <1>2, <1>4, <2>1, <2>4 DEF CacheInv, StoredText
  <1>6. CASE hits = {}
    <2> DEFINE es == IF Len(kept) > ParseCacheSize THEN Tail(kept) ELSE kept
    <2>1. /\ parseCache' = [cache EXCEPT !.entries = es]
          /\ rowEntry' = [seq |-> seq, format |-> format, want |-> StoredText(seq), got |-> parsed]
      BY <1>6 DEF entryFor
    <2> HIDE DEF cache, parsed
    <2>2. /\ kept \in Seq(Parsed) /\ Len(kept) = Len(cache.entries) + 1
          /\ \A i \in 1..Len(kept) :
               kept[i].format = format /\ kept[i].text = StoredText(kept[i].seq)
      BY <1>2, <1>3
    <2>3. ParseCacheSize \in Nat \ {0}
      BY CacheAssumption
    <2> HIDE DEF kept
    <2>4. Keeps(es)
      <3>1. CASE Len(kept) > ParseCacheSize
        <4>1. /\ Tail(kept) \in Seq(Parsed) /\ Len(Tail(kept)) = Len(kept) - 1
              /\ \A i \in 1..Len(Tail(kept)) : Tail(kept)[i] = kept[i + 1]
          BY <2>2, <2>3, <3>1
        <4>2. \A i \in 1..Len(Tail(kept)) : i + 1 \in 1..Len(kept)
          BY <2>2, <4>1
        <4> QED
          BY <1>2, <2>2, <2>3, <3>1, <4>1, <4>2
      <3>2. CASE ~(Len(kept) > ParseCacheSize)
        BY <2>2, <2>3, <3>2
      <3> QED
        BY <3>1, <3>2
    <2> HIDE DEF es
    <2>5. parseCache' = [format |-> format, gen |-> stored.gen, entries |-> es]
      BY <1>2, <2>1
    <2>6. rowEntry'.got.text = rowEntry'.want /\ rowEntry'.got.format = rowEntry'.format
      BY <1>3, <2>1 DEF parsed
    <2>7. /\ parseCache' \in [format : CachedFormats, gen : Nat, entries : Seq(Parsed)]
          /\ parseCache'.gen = stored'.gen /\ parseCache'.entries = es /\ parseCache'.format = format
      BY <1>1, <1>4, <2>4, <2>5
    <2>8. \A i \in 1..Len(es) : es[i].format = format
          /\ es[i].text = <<stored'.log, stored'.base + es[i].seq>>
      BY <1>4, <2>4 DEF StoredText
    <2> QED
      BY <1>1, <1>4, <2>4, <2>6, <2>7, <2>8 DEF CacheInv, StoredText
  <1> QED
    BY <1>5, <1>6

\* A row always shows the line that has its number now, read in the format
\* chosen now, and the cache stays within its size: numbers are given to other
\* lines only by clear, which changes the buffer's generation, and an entry of
\* another generation is never looked at.
THEOREM CacheStaysHonest == CacheSpec => []CacheHonest
  <1>1. CacheInit => CacheInv
    BY DEF CacheInit, CacheInv, NewStore
  <1>2. CacheInv /\ [CacheNext]_cacheVars => CacheInv'
    <2> SUFFICES ASSUME CacheInv, [CacheNext]_cacheVars PROVE CacheInv'
      OBVIOUS
    <2>1. /\ stored \in [gen : Nat, log : {"a", "b"}, base : Nat, first : Int, count : Nat]
          /\ StoredLines \in Nat \ {0}
      BY CacheAssumption DEF CacheInv
    <2>2. CASE LineStored
      <3>1. /\ stored' \in [gen : Nat, log : {"a", "b"}, base : Nat, first : Int, count : Nat]
            /\ stored'.gen = stored.gen /\ stored'.log = stored.log /\ stored'.base = stored.base
        <4>1. CASE stored.count < StoredLines
          <5>1. stored' = [stored EXCEPT !.count = stored.count + 1]
            BY <2>2, <4>1 DEF LineStored
          <5> QED
            BY <2>1, <5>1
        <4>2. CASE ~(stored.count < StoredLines)
          <5>1. stored' = [stored EXCEPT !.first = stored.first + stored.count + 1 - StoredLines,
                                         !.count = StoredLines]
            BY <2>2, <4>2 DEF LineStored
          <5>2. stored' = [gen |-> stored.gen, log |-> stored.log, base |-> stored.base,
                           first |-> stored.first + stored.count + 1 - StoredLines, count |-> StoredLines]
            BY <2>1, <5>1
          <5> QED
            BY <2>1, <5>2
        <4> QED
          BY <4>1, <4>2
      <3> QED
        BY <2>2, <3>1, CacheKept DEF LineStored
    <2>3. CASE LinePrepended
      <3>1. /\ stored' \in [gen : Nat, log : {"a", "b"}, base : Nat, first : Int, count : Nat]
            /\ stored'.gen = stored.gen /\ stored'.log = stored.log /\ stored'.base = stored.base
        <4>1. stored' = [stored EXCEPT !.first = stored.first - 1, !.count = stored.count + 1]
          BY <2>3 DEF LinePrepended
        <4>2. stored' = [gen |-> stored.gen, log |-> stored.log, base |-> stored.base,
                         first |-> stored.first - 1, count |-> stored.count + 1]
          BY <2>1, <4>1
        <4> QED
          BY <2>1, <4>2
      <3> QED
        BY <2>3, <3>1, CacheKept DEF LinePrepended
    <2>4. ASSUME NEW log \in {"a", "b"}, NEW base \in 0..MaxStored, StreamCleared(log, base)
          PROVE  CacheInv'
      <3>1. /\ stored' \in [gen : Nat, log : {"a", "b"}, base : Nat, first : Int, count : Nat]
            /\ stored'.gen > stored.gen
        BY <2>1, <2>4 DEF StreamCleared, NewStore
      <3> QED
        BY <2>4, <3>1, CacheKept DEF StreamCleared
    <2>5. CASE UNCHANGED cacheVars
      BY <2>1, <2>5, CacheKept DEF cacheVars
    <2> QED
      BY <2>2, <2>3, <2>4, <2>5, RowFound DEF CacheNext
  <1>3. CacheInv => CacheHonest
    BY DEF CacheInv, CacheHonest
  <1> QED
    BY <1>1, <1>2, <1>3, PTL DEF CacheSpec

-----------------------------------------------------------------------------
(* The fetch patch.                                                         *)

URLs == [place : Places, query : Queries]
Calls == [form : Inputs, url : URLs, headers : BOOLEAN]

\* The link still leads to the kubelet.
Unrewritten(l) == l.href # None /\ l.href.place = "kubelet/journal"

\* What holds at m and is kept by every step up to n holds from m to n.
LEMMA UpTo ==
  ASSUME NEW m \in Nat, NEW n \in Nat, NEW S,
         m <= n => m \in S, \A k \in m..(n - 1) : k \in S => k + 1 \in S
  PROVE  m..n \subseteq S
  <1> DEFINE R == {p \in Nat \X Nat : p[1] < p[2]}
             B == (m..n) \ S
  <1>1. IsWellFoundedOn(R, Nat)
    <2>1. OpToRel(<, Nat) = R
      BY DEF OpToRel
    <2> QED
      BY <2>1, NatLessThanWellFounded, Zenon
  <1>2. ASSUME B # {} PROVE FALSE
    <2>1. B \subseteq Nat
      OBVIOUS
    <2> HIDE DEF R, B
    <2>2. PICK x \in B : \A y \in B : ~ (<<y, x>> \in R)
      BY <1>1, <1>2, <2>1, WFMin
    <2>3. x \in m..n /\ x \notin S /\ x # m
      BY DEF B
    <2>4. x - 1 \in m..(n - 1) /\ x - 1 \in Nat /\ x \in Nat /\ (x - 1) + 1 = x
      BY <2>3
    <2>5. <<x - 1, x>> \in R
      BY <2>4 DEF R
    <2>6. x - 1 \in S
      BY <2>2, <2>4, <2>5 DEF B
    <2> QED
      BY <2>3, <2>4, <2>6
  <1> QED
    BY <1>2

\* A call passes the wrappers one by one.
LEMMA PassingIs ==
  ASSUME NEW call, Len(fetch) \in Nat
  PROVE  LET r == Passing(call)
         IN  /\ DOMAIN r = 0..Len(fetch)
             /\ r[0] = call
             /\ \A i \in 1..Len(fetch) : r[i] = Through(r[i - 1], fetch[i])
  <1> DEFINE m == 0
             n == Len(fetch)
             Start == call
             Round(f, k) == Through(f[k - 1], fetch[k])
             Is(f, j) == f = [i \in m..j |-> IF i = m THEN Start ELSE Round(f, i)]
             S == {j \in m..n : \E f : Is(f, j)}
  <1>1. m \in Nat /\ n \in Nat /\ m <= n
    OBVIOUS
  <1>2. Passing(call) = CHOOSE g : Is(g, n)
    BY Zenon DEF Passing
  <1>3. m \in S
    <2> DEFINE f == [i \in m..m |-> Start]
    <2>1. Is(f, m)
      OBVIOUS
    <2> HIDE DEF f, Start, Round, m, n
    <2> QED
      BY <1>1, <2>1
  <1>4. ASSUME NEW k \in m..(n - 1), k \in S PROVE k + 1 \in S
    <2>1. PICK f : Is(f, k)
      BY <1>4
    <2> DEFINE g == [i \in m..(k + 1) |-> IF i <= k THEN f[i] ELSE Round(f, k + 1)]
    <2> HIDE DEF Start, m, n
    <2>2. Is(g, k + 1)
      <3>1. k \in Nat /\ m \in Nat /\ m <= k /\ k + 1 # m /\ (k + 1) - 1 = k
        BY <1>1
      <3>2. \A i \in m..k : g[i] = f[i]
        BY <3>1
      <3>3. \A i \in m..k : i # m => i - 1 \in m..k
        BY <3>1
      <3>4. \A i \in m..k : f[i] = IF i = m THEN Start ELSE Round(f, i)
        BY <2>1
      <3>5. \A i \in m..k : g[i] = IF i = m THEN Start ELSE Round(g, i)
        BY <3>2, <3>3, <3>4
      <3>6. g[k + 1] = Round(g, k + 1)
        BY <3>1, <3>2
      <3>7. g = [i \in m..(k + 1) |-> g[i]]
        OBVIOUS
      <3> HIDE DEF g, Round
      <3>8. \A i \in m..(k + 1) : g[i] = IF i = m THEN Start ELSE Round(g, i)
        BY <3>1, <3>5, <3>6
      <3> QED
        BY <3>7, <3>8
    <2> HIDE DEF g, Round
    <2>3. k + 1 \in m..n
      BY <1>1
    <2> QED
      BY <2>2, <2>3
  <1>5. Is(Passing(call), n)
    <2> HIDE DEF m, n, Start, Round
    <2>1. n \in S
      <3> HIDE DEF S
      <3>1. m..n \subseteq S
        BY <1>1, <1>3, <1>4, UpTo
      <3> QED
        BY <1>1, <3>1
    <2>2. PICK f : Is(f, n)
      BY <2>1
    <2> QED
      BY <1>2, <2>2, Zenon
  <1> QED
    <2> HIDE DEF Start, Round, m, n
    <2>1. /\ DOMAIN Passing(call) = m..n /\ Passing(call)[m] = Start
          /\ \A k \in (m + 1)..n : Passing(call)[k] = Round(Passing(call), k)
      BY <1>1, <1>5
    <2> QED
      BY <2>1 DEF Start, Round, m, n

\* A URL is of one place only.
LEMMA RewrittenIs ==
  ASSUME NEW place \in Places, NEW url \in URLs
  PROVE  /\ None \notin URLs /\ URL(place, url.query) \in URLs
         /\ url.place = "kubelet/journal" =>
              /\ rewriteTo(place, url) = URL(place, url.query) /\ rewriteTo(place, url) # None
              /\ rewriteTo(place, url) = [url EXCEPT !.place = place]
         /\ url.place # "kubelet/journal" => rewriteTo(place, url) = None
  <1>1. None \notin URLs
    BY PatchAssumption DEF URLs
  <1>2. URL(place, url.query) \in URLs
    BY DEF URL, URLs
  <1>3. [url EXCEPT !.place = place] = URL(place, url.query)
    BY DEF URL, URLs
  <1> QED
    BY <1>1, <1>2, <1>3 DEF rewriteTo

\* The patch makes a call to the kubelet's journal one to the plugin, and
\* leaves any other as it is, the ones it has made too.
LEMMA PatchedIs ==
  ASSUME NEW call \in Calls
  PROVE  /\ patched(call) \in Calls /\ patched(patched(call)) = patched(call)
         /\ IF call.form # "other" /\ call.url.place = "kubelet/journal"
              THEN patched(call).url = [call.url EXCEPT !.place = "plugin/journal"]
              ELSE patched(call) = call
  <1>1. /\ call.form \in Inputs /\ call.url \in URLs /\ call.headers \in BOOLEAN
        /\ call = [form |-> call.form, url |-> call.url, headers |-> call.headers]
    BY DEF Calls
  <1>2. CASE call.form # "other" /\ call.url.place = "kubelet/journal"
    <2> DEFINE to == URL("plugin/journal", call.url.query)
               headers == IF call.form = "Request" THEN FALSE ELSE call.headers
    <2>1. /\ rewriteTo("plugin/journal", call.url) = to /\ to # None /\ to \in URLs
          /\ to = [call.url EXCEPT !.place = "plugin/journal"]
      BY <1>1, <1>2, RewrittenIs DEF Places
    <2>2. to.place # "kubelet/journal"
      BY DEF URL
    <2>3. headers \in BOOLEAN
      BY <1>1
    <2> HIDE DEF to, headers
    <2>4. patched(call) = [form |-> "string", url |-> to, headers |-> headers]
      BY <1>2, <2>1 DEF patched, Call, headers
    <2>5. patched(call) \in Calls /\ patched(call).url = to
      BY <2>1, <2>3, <2>4 DEF Calls, Inputs
    <2>6. rewriteTo("plugin/journal", to) = None
      BY <2>2 DEF rewriteTo
    <2>7. patched(patched(call)) = patched(call)
      BY <2>5, <2>6 DEF patched
    <2> QED
      BY <1>2, <2>1, <2>5, <2>7
  <1>3. CASE ~(call.form # "other" /\ call.url.place = "kubelet/journal")
    <2>1. patched(call) = call
      BY <1>1, <1>3 DEF patched, rewriteTo
    <2> QED
      BY <1>3, <2>1
  <1> QED
    BY <1>2, <1>3

\* However many wrappers there are, one patch among them is as good as several.
LEMMA PassedIs ==
  ASSUME NEW call \in Calls, fetch \in Seq({"patched", "other"})
  PROVE  Passing(call)[Len(fetch)] = IF "patched" \in Range(fetch) THEN patched(call) ELSE call
  <1> DEFINE passed == Passing(call)
             n == Len(fetch)
             Some(i) == \E j \in 1..i : fetch[j] = "patched"
             After(i) == passed[i] = IF Some(i) THEN patched(call) ELSE call
             S == {i \in 0..n : After(i)}
  <1>1. /\ n \in Nat /\ passed[0] = call
        /\ \A i \in 1..n : passed[i] = Through(passed[i - 1], fetch[i])
    BY PassingIs
  <1>2. 0 \in S
    BY <1>1
  <1> HIDE DEF passed
  <1>3. ASSUME NEW k \in 0..(n - 1), k \in S PROVE k + 1 \in S
    <2>1. k + 1 \in 1..n /\ (k + 1) - 1 = k /\ k \in Nat
      BY <1>1
    <2>2. passed[k + 1] = Through(passed[k], fetch[k + 1])
      BY <1>1, <2>1
    <2>3. passed[k] = IF Some(k) THEN patched(call) ELSE call
      BY <1>3
    <2>4. Some(k + 1) <=> Some(k) \/ fetch[k + 1] = "patched"
      BY <2>1
    <2> HIDE DEF Some
    <2>5. passed[k + 1] = IF Some(k + 1) THEN patched(call) ELSE call
      BY <2>2, <2>3, <2>4, PatchedIs DEF Through
    <2> QED
      BY <2>1, <2>5
  <1>4. n \in S
    <2> HIDE DEF S, n
    <2>1. 0..n \subseteq S
      BY <1>1, <1>2, <1>3, UpTo
    <2> QED
      BY <1>1, <2>1
  <1>5. Some(n) <=> "patched" \in Range(fetch)
    BY DEF Range
  <1> QED
    BY <1>4, <1>5 DEF passed

\* A link that is rewritten no longer leads to the kubelet.
LEMMA AnchorIs ==
  ASSUME NEW l \in [href : URLs \cup {None}, sets : Nat, rewrites : Nat]
  PROVE  LET r == rewriteAnchor(l)
         IN  /\ r \in [href : URLs \cup {None}, sets : Nat, rewrites : Nat]
             /\ ~Unrewritten(r) /\ r.sets = l.sets
             /\ IF Unrewritten(l) THEN r.rewrites = l.rewrites + 1 /\ r # l ELSE r = l
  <1> DEFINE to == rewriteTo("plugin/journal/raw", l.href)
  <1>1. CASE Unrewritten(l)
    <2>1. l.href \in URLs /\ l.href # None /\ l.href.place = "kubelet/journal"
      BY <1>1 DEF Unrewritten
    <2>2. to = URL("plugin/journal/raw", l.href.query) /\ to \in URLs /\ to # None
      BY <2>1, RewrittenIs DEF Places
    <2>3. to.place # "kubelet/journal"
      BY <2>2 DEF URL
    <2> HIDE DEF to
    <2>4. rewriteAnchor(l) = [href |-> to, sets |-> l.sets, rewrites |-> l.rewrites + 1]
      BY <2>1, <2>2 DEF rewriteAnchor, to
    <2> QED
      BY <1>1, <2>2, <2>3, <2>4 DEF Unrewritten
  <1>2. CASE ~Unrewritten(l)
    <2>1. rewriteAnchor(l) = l
      BY <1>2 DEF rewriteAnchor, rewriteTo, Unrewritten
    <2> QED
      BY <1>2, <2>1
  <1> QED
    BY <1>1, <1>2

\* What a call has become is what it should.
Delivered ==
  sent # None =>
    LET url == sent.call.url
    IN  IF sent.patched /\ sent.call.form # "other" /\ url.place = "kubelet/journal"
          THEN sent.got.url = [url EXCEPT !.place = "plugin/journal"]
          ELSE sent.got = sent.call

\* A link to the kubelet has been set once more than it was rewritten, and it is
\* seen by an observer that has not run yet, if there is one; a spinner that is
\* on waits for a fetch, unless it was turned on before there was a guard.
PatchInv ==
  /\ fetch \in Seq({"patched", "other"}) /\ records \in Nat
  /\ installed \in BOOLEAN /\ onPage \in BOOLEAN
  /\ link \in [href : URLs \cup {None}, sets : Nat, rewrites : Nat]
  /\ link.rewrites <= link.sets /\ (Unrewritten(link) => link.rewrites < link.sets)
  /\ (installed /\ onPage /\ records = 0) => ~Unrewritten(link)
  /\ menu \in [open : BOOLEAN, path : Paths, loading : BOOLEAN, fetching : BOOLEAN,
               timers : Nat, clicks : Nat, unguarded : BOOLEAN]
  /\ (menu.loading /\ ~menu.unguarded) => menu.fetching
  /\ Delivered

LinkType == [href : URLs \cup {None}, sets : Nat, rewrites : Nat]
MenuType == [open : BOOLEAN, path : Paths, loading : BOOLEAN, fetching : BOOLEAN,
             timers : Nat, clicks : Nat, unguarded : BOOLEAN]

\* The menu alone changes.
LEMMA MenuMoves ==
  ASSUME PatchInv, menu' \in MenuType, (menu'.loading /\ ~menu'.unguarded) => menu'.fetching,
         UNCHANGED <<fetch, sent, installed, onPage, link, records>>
  PROVE  PatchInv'
  BY DEF PatchInv, MenuType, Delivered, Unrewritten

\* The patch is installed, with its observer if there is none yet.
LEMMA PatchInstalls == PatchInv /\ installJournalFetchPatch => PatchInv'
  <1> SUFFICES ASSUME PatchInv, installJournalFetchPatch PROVE PatchInv'
    OBVIOUS
  <1>1. fetch' \in Seq({"patched", "other"})
    <2>1. fetch' = fetch \/ fetch' = <<"patched">> \o fetch
      BY DEF installJournalFetchPatch
    <2>2. <<"patched">> \in Seq({"patched", "other"}) /\ fetch \in Seq({"patched", "other"})
      BY DEF PatchInv
    <2> QED
      BY <2>1, <2>2, ConcatProperties
  <1>2. UNCHANGED <<sent, onPage, menu>> /\ installed' = TRUE
    BY DEF installJournalFetchPatch
  <1>3. CASE installed
    BY <1>1, <1>2, <1>3 DEF installJournalFetchPatch, PatchInv, Delivered, Unrewritten
  <1>4. CASE ~installed
    <2>1. link' = rewriteAnchor(link) /\ records' = Observed(link')
      BY <1>4 DEF installJournalFetchPatch
    <2>2. records' \in Nat
      BY <2>1 DEF Observed, PatchInv
    <2>3. /\ link' \in LinkType /\ ~Unrewritten(link)' /\ link'.rewrites <= link'.sets
      BY <2>1, AnchorIs DEF PatchInv, LinkType, Unrewritten
    <2> QED
      BY <1>1, <1>2, <2>2, <2>3 DEF PatchInv, LinkType, Delivered
  <1> QED
    BY <1>3, <1>4

\* A call arrives as it should.
LEMMA CallPasses ==
  ASSUME PatchInv, NEW f \in Inputs, NEW p \in Places, NEW q \in Queries,
         Fetch(Call(f, URL(p, q), TRUE))
  PROVE  PatchInv'
  <1> DEFINE call == Call(f, URL(p, q), TRUE)
  <1>1. call \in Calls
    BY DEF Calls, Call, URL, URLs
  <1>2. sent' = [call |-> call, got |-> Passing(call)[Len(fetch)], patched |-> "patched" \in Range(fetch)]
    BY DEF Fetch
  <1>3. Passing(call)[Len(fetch)] = IF "patched" \in Range(fetch) THEN patched(call) ELSE call
    BY <1>1, PassedIs DEF PatchInv
  <1> HIDE DEF call
  <1>4. Delivered'
    BY <1>1, <1>2, <1>3, PatchedIs DEF Delivered
  <1> QED
    BY <1>4 DEF Fetch, pageVars, PatchInv, Unrewritten

\* A page without a link and with its menu closed.
LEMMA PageBegins ==
  /\ NoMenu \in MenuType /\ ~NoMenu.loading
  /\ NoLink \in LinkType /\ NoLink.href = None /\ NoLink.sets = 0 /\ NoLink.rewrites = 0
  BY PatchAssumption DEF NoMenu, MenuType, NoLink, LinkType

\* The page comes or goes, and with it the link and the menu.
LEMMA PageTurns == PatchInv /\ Navigate => PatchInv'
  <1> SUFFICES ASSUME PatchInv, Navigate PROVE PatchInv'
    OBVIOUS
  <1>1. UNCHANGED <<fetch, installed>> /\ onPage' \in BOOLEAN /\ records' = 0 /\ sent' = None
    BY DEF Navigate, PatchInv
  <1>2. link' \in LinkType /\ link'.href = None /\ link'.rewrites <= link'.sets
    BY DEF Navigate, PatchInv, LinkType
  <1>3. menu' \in MenuType /\ ~menu'.loading
    <2>1. menu' = [NoMenu EXCEPT !.clicks = menu.clicks] /\ menu.clicks \in Nat
      BY DEF Navigate, PatchInv
    <2> QED
      BY <2>1, PageBegins DEF MenuType
  <1> QED
    BY <1>1, <1>2, <1>3 DEF PatchInv, LinkType, MenuType, Unrewritten, Delivered

\* Core sets the link, which the observer is told.
LEMMA LinkSet ==
  ASSUME PatchInv, NEW url \in URLs, SetHref(url)
  PROVE  PatchInv'
  <1>1. UNCHANGED <<fetch, sent, installed, onPage, menu>>
    BY DEF SetHref
  <1>2. records' \in Nat /\ (installed => records' # 0)
    BY DEF SetHref, PatchInv
  <1>3. link' \in LinkType /\ link'.rewrites < link'.sets
    <2>1. link' = [href |-> url, sets |-> link.sets + 1, rewrites |-> link.rewrites]
      BY DEF SetHref, PatchInv
    <2> QED
      BY <2>1 DEF PatchInv, LinkType
  <1> QED
    BY <1>1, <1>2, <1>3 DEF PatchInv, LinkType, Delivered

\* The observer rewrites the link it is told of.
LEMMA LinkSeen == PatchInv /\ ObserverRuns => PatchInv'
  <1> SUFFICES ASSUME PatchInv, ObserverRuns PROVE PatchInv'
    OBVIOUS
  <1>1. /\ link' = (IF onPage THEN rewriteAnchor(link) ELSE link) /\ records' \in Nat
        /\ UNCHANGED <<fetch, sent, installed, onPage, menu>>
    BY DEF ObserverRuns
  <1>2. /\ link' \in LinkType /\ link'.rewrites <= link'.sets
        /\ Unrewritten(link)' => link'.rewrites < link'.sets
        /\ onPage => ~Unrewritten(link)'
    BY <1>1, AnchorIs DEF PatchInv, LinkType, Unrewritten
  <1> QED
    BY <1>1, <1>2 DEF PatchInv, LinkType, Delivered

\* However often fetch is wrapped, the page comes and goes, links are set and
\* the menu is clicked, requests and links for the kubelet's journal lead to the
\* plugin, others are left alone, and no spinner is left that nothing turns off.
THEOREM CoreIsServed == PatchSpec => []CoreServed
  <1>1. PatchInit => PatchInv
    <2> SUFFICES ASSUME PatchInit PROVE PatchInv
      OBVIOUS
    <2>1. /\ fetch = <<>> /\ sent = None /\ records = 0 /\ installed = FALSE /\ onPage = FALSE
          /\ link = NoLink /\ menu = NoMenu
      BY DEF PatchInit
    <2>2. /\ link \in LinkType /\ link.href = None /\ link.sets = 0 /\ link.rewrites = 0
          /\ menu \in MenuType /\ ~menu.loading
      BY <2>1, PageBegins
    <2>3. fetch \in Seq({"patched", "other"})
      BY <2>1
    <2>4. ~Unrewritten(link) /\ Delivered /\ link.rewrites <= link.sets
      BY <2>1, <2>2 DEF Unrewritten, Delivered
    <2> QED
      BY <2>1, <2>2, <2>3, <2>4 DEF PatchInv, MenuType, LinkType
  <1>2. PatchInv /\ [PatchNext]_patchVars => PatchInv'
    <2> SUFFICES ASSUME PatchInv, [PatchNext]_patchVars PROVE PatchInv'
      OBVIOUS
    <2>1. /\ menu \in MenuType /\ ((menu.loading /\ ~menu.unguarded) => menu.fetching)
          /\ installed \in BOOLEAN
      BY DEF PatchInv, MenuType
    <2>2. CASE OtherWraps
      <3>1. fetch' \in Seq({"patched", "other"})
        BY <2>2 DEF OtherWraps, PatchInv
      <3> QED
        BY <2>2, <3>1 DEF OtherWraps, pageVars, PatchInv, Delivered, Unrewritten
    <2>3. ASSUME NEW p \in Places, NEW q \in Queries, SetHref(URL(p, q)) PROVE PatchInv'
      <3>1. URL(p, q) \in URLs
        BY DEF URL, URLs
      <3> QED
        BY <2>3, <3>1, LinkSet
    <2>4. CASE ClickToggle
      <3>1. menu' = [open |-> ~menu.open, path |-> menu.path, loading |-> menu.loading,
                     fetching |-> menu.fetching, timers |-> menu.timers, clicks |-> menu.clicks + 1,
                     unguarded |-> menu.unguarded]
        BY <2>1, <2>4 DEF ClickToggle, toggle, MenuType
      <3>2. menu' \in MenuType /\ ((menu'.loading /\ ~menu'.unguarded) => menu'.fetching)
        BY <2>1, <3>1 DEF MenuType
      <3> QED
        BY <2>4, <3>2, MenuMoves DEF ClickToggle
    <2>5. ASSUME NEW p \in Paths, ClickItem(p) PROVE PatchInv'
      <3>1. menu' \in MenuType /\ ((menu'.loading /\ ~menu'.unguarded) => menu'.fetching)
        <4>1. CASE Guarded(p)
          <5>1. menu' = [open |-> menu.open, path |-> menu.path, loading |-> menu.loading,
                         fetching |-> menu.fetching, timers |-> menu.timers + 1,
                         clicks |-> menu.clicks + 1, unguarded |-> menu.unguarded]
            BY <2>1, <2>5, <4>1 DEF ClickItem, MenuType
          <5> QED
            BY <2>1, <5>1 DEF MenuType
        <4>2. CASE ~Guarded(p)
          <5>1. menu' = [onChangePath(menu, p) EXCEPT !.clicks = menu.clicks + 1] /\ onPage
            BY <2>1, <2>5, <4>2 DEF ClickItem, onChangePath, MenuType
          <5>2. menu' = [open |-> FALSE, path |-> p, loading |-> TRUE,
                         fetching |-> menu.fetching \/ p # menu.path, timers |-> menu.timers,
                         clicks |-> menu.clicks + 1, unguarded |-> menu.unguarded \/ ~installed]
            BY <2>1, <5>1 DEF onChangePath, MenuType
          <5>3. menu' \in MenuType
            BY <2>1, <5>2 DEF MenuType
          <5>4. ~installed \/ p # menu.path
            BY <4>2, <5>1 DEF Guarded
          <5> QED
            BY <5>2, <5>3, <5>4
        <4> QED
          BY <4>1, <4>2
      <3> QED
        BY <2>5, <3>1, MenuMoves DEF ClickItem
    <2>6. CASE TimerFires
      <3>1. /\ menu' = [open |-> ~menu.open, path |-> menu.path, loading |-> menu.loading,
                        fetching |-> menu.fetching, timers |-> menu.timers - 1,
                        clicks |-> menu.clicks, unguarded |-> menu.unguarded]
            /\ menu.timers > 0
        BY <2>1, <2>6 DEF TimerFires, toggle, MenuType
      <3>2. menu' \in MenuType /\ ((menu'.loading /\ ~menu'.unguarded) => menu'.fetching)
        BY <2>1, <3>1 DEF MenuType
      <3> QED
        BY <2>6, <3>2, MenuMoves DEF TimerFires
    <2>7. CASE LogFetched
      <3>1. menu' \in MenuType /\ ((menu'.loading /\ ~menu'.unguarded) => menu'.fetching)
        BY <2>1, <2>7 DEF LogFetched, MenuType
      <3> QED
        BY <2>7, <3>1, MenuMoves DEF LogFetched
    <2>8. CASE UNCHANGED patchVars
      BY <2>8 DEF patchVars, pageVars, PatchInv, Delivered, Unrewritten
    <2> QED
      BY <2>2, <2>3, <2>4, <2>5, <2>6, <2>7, <2>8, PatchInstalls, CallPasses, PageTurns, LinkSeen
      DEF PatchNext
  <1>3. PatchInv => CoreServed
    BY DEF PatchInv, CoreServed, Rerouted, SpinnerHasFetch, Delivered, Unrewritten
  <1> QED
    BY <1>1, <1>2, <1>3, PTL DEF PatchSpec

-----------------------------------------------------------------------------
(* The viewer: recursive definitions over its rows.                         *)

\* A value for every step up to n, each found from the one before.
Stepwise(n, T, start, G, g) ==
  g \in [0..n -> T] /\ g[0] = start /\ \A i \in 1..n : g[i] = G[<<i, g[i - 1]>>]

\* Such values exist.
LEMMA Recursion ==
  ASSUME NEW n \in Nat, NEW T, NEW start \in T, NEW G \in [(1..n) \X T -> T]
  PROVE  \E g : Stepwise(n, T, start, G, g)
  <1> DEFINE Is(g, k) == g \in [0..k -> T] /\ g[0] = start /\ \A i \in 1..k : g[i] = G[<<i, g[i - 1]>>]
             S == {k \in 0..n : \E g : Is(g, k)}
  <1>1. 0 \in S
    <2> DEFINE g == [i \in 0..0 |-> start]
    <2>1. Is(g, 0)
      OBVIOUS
    <2> HIDE DEF Is
    <2> QED
      BY <2>1
  <1>2. ASSUME NEW k \in 0..(n - 1), k \in S PROVE k + 1 \in S
    <2>1. PICK g : Is(g, k)
      BY <1>2
    <2>2. k \in 0..k /\ g[k] \in T /\ k + 1 \in 1..n
      BY <2>1
    <2> DEFINE next == G[<<k + 1, g[k]>>]
               h == [i \in 0..(k + 1) |-> IF i <= k THEN g[i] ELSE next]
    <2>3. next \in T
      BY <2>2
    <2> HIDE DEF next
    <2>4. h \in [0..(k + 1) -> T] /\ h[0] = start /\ h[k + 1] = next /\ \A i \in 0..k : h[i] = g[i]
      BY <2>1, <2>3
    <2>5. ASSUME NEW i \in 1..(k + 1) PROVE h[i] = G[<<i, h[i - 1]>>]
      <3> HIDE DEF h
      <3>1. CASE i = k + 1
        <4>1. i - 1 = k /\ h[i - 1] = g[k]
          BY <2>2, <2>4, <3>1
        <4> QED
          BY <2>4, <3>1, <4>1 DEF next
      <3>2. CASE i # k + 1
        <4>1. i \in 1..k /\ i \in 0..k /\ i - 1 \in 0..k
          BY <3>2
        <4> QED
          BY <2>1, <2>4, <4>1
      <3> QED
        BY <3>1, <3>2
    <2> HIDE DEF h
    <2>6. Is(h, k + 1)
      BY <2>4, <2>5
    <2> HIDE DEF Is
    <2> QED
      BY <2>2, <2>6
  <1>3. n \in S
    <2> HIDE DEF S
    <2>1. 0..n \subseteq S
      BY <1>1, <1>2, UpTo
    <2> QED
      BY <2>1
  <1> QED
    BY <1>3 DEF Stepwise

\* Whatever is found in this way is of that kind.
Stepping(n, T, start, G, f) ==
  /\ f = [i \in 0..n |-> f[i]] /\ f[0] = start
  /\ \A i \in 1..n : f[i - 1] \in T => f[i] = G[<<i, f[i - 1]>>]

LEMMA RecursionIs ==
  ASSUME NEW n \in Nat, NEW T, NEW start \in T, NEW G \in [(1..n) \X T -> T],
         NEW f, Stepping(n, T, start, G, f)
  PROVE  Stepwise(n, T, start, G, f)
  <1> DEFINE S == {i \in 0..n : f[i] \in T}
  <1>1. 0 \in S
    BY DEF Stepping
  <1>2. ASSUME NEW k \in 0..(n - 1), k \in S PROVE k + 1 \in S
    <2>1. k + 1 \in 1..n /\ (k + 1) - 1 = k /\ f[k] \in T
      BY <1>2
    <2>2. f[k + 1] = G[<<k + 1, f[k]>>]
      BY <2>1 DEF Stepping
    <2> QED
      BY <2>1, <2>2
  <1>3. 0..n \subseteq S
    <2> HIDE DEF S
    <2> QED
      BY <1>1, <1>2, UpTo
  <1>4. f \in [0..n -> T] /\ \A i \in 1..n : i - 1 \in 0..n
    BY <1>3 DEF Stepping
  <1> QED
    BY <1>4 DEF Stepping, Stepwise

-----------------------------------------------------------------------------
(* Geometry of the list.                                                    *)

\* What is drawn has a number of rows and heights of expansions.
Drawable(v) ==
  v.first \in Int /\ v.count \in Nat /\ \A seq \in DOMAIN v.expanded : v.expanded[seq] \in Nat

\* The height of what is expanded under a row.
Extra(v, i) == IF v.first + i \in DOMAIN v.expanded THEN v.expanded[v.first + i] ELSE 0

\* Row by row.
LEMMA TopsAre ==
  ASSUME NEW v, Drawable(v)
  PROVE  LET t == Tops(v)
         IN  /\ t \in [0..v.count -> Nat] /\ t[0] = 0
             /\ \A i \in 0..(v.count - 1) : t[i + 1] = t[i] + RowHeight + Extra(v, i)
  <1> DEFINE n == v.count
             x(i) == IF v.first + i - 1 \in DOMAIN v.expanded THEN Body(v, i - 1) ELSE 0
             Is(f) == f = [i \in 0..n |-> IF i = 0 THEN 0 ELSE f[i - 1] + RowHeight + x(i)]
             G == [p \in (1..n) \X Nat |-> p[2] + RowHeight + x(p[1])]
  <1>1. Tops(v) = CHOOSE g : Is(g)
    BY Zenon DEF Tops
  <1>2. n \in Nat /\ RowHeight \in Nat /\ 0 \in Nat
    BY ViewerAssumption DEF Drawable
  <1>3. ASSUME NEW i \in 1..n PROVE x(i) = Extra(v, i - 1) /\ x(i) \in Nat
    <2>1. v.first \in Int /\ v.first + i - 1 = v.first + (i - 1)
      BY DEF Drawable
    <2> QED
      BY <2>1 DEF Drawable, Extra, Body
  <1> HIDE DEF n, x
  <1>4. G \in [(1..n) \X Nat -> Nat]
    BY <1>2, <1>3
  <1>5. PICK g : Stepwise(n, Nat, 0, G, g)
    <2> HIDE DEF G, Is
    <2> QED
      BY <1>2, <1>4, Recursion, Zenon
  <1>6. Is(g)
    <2>1. \A i \in 1..n : i - 1 \in 0..n /\ i \in 0..n
      BY <1>2
    <2>2. g \in [0..n -> Nat] /\ g[0] = 0 /\ \A i \in 1..n : g[i] = g[i - 1] + RowHeight + x(i)
      BY <1>5, <2>1 DEF Stepwise
    <2>3. \A i \in 0..n : i # 0 => i \in 1..n
      BY <1>2
    <2> QED
      BY <2>2, <2>3
  <1>7. Is(Tops(v))
    <2> HIDE DEF Is
    <2> QED
      BY <1>1, <1>6, Zenon
  <1> DEFINE t == Tops(v)
  <1>8. /\ t = [i \in 0..n |-> t[i]] /\ t[0] = 0
        /\ \A i \in 1..n : t[i] = t[i - 1] + RowHeight + x(i)
    <2> HIDE DEF t
    <2>1. Is(t)
      BY <1>7 DEF t
    <2>2. \A i \in 1..n : i \in 0..n /\ i # 0
      BY <1>2
    <2>3. t[0] = 0
      BY <1>2, <2>1
    <2>4. \A i \in 1..n : t[i] = t[i - 1] + RowHeight + x(i)
      BY <2>1, <2>2
    <2> QED
      BY <2>1, <2>3, <2>4
  <1> HIDE DEF t
  <1>9. t \in [0..n -> Nat]
    <2>1. Stepping(n, Nat, 0, G, t)
      BY <1>8 DEF Stepping
    <2> HIDE DEF G
    <2>2. Stepwise(n, Nat, 0, G, t)
      BY <1>2, <1>4, <2>1, RecursionIs
    <2> QED
      BY <2>2 DEF Stepwise
  <1>10. ASSUME NEW i \in 0..(n - 1) PROVE t[i + 1] = t[i] + RowHeight + Extra(v, i)
    <2>1. i + 1 \in 1..n /\ (i + 1) - 1 = i
      BY <1>2
    <2> QED
      BY <1>3, <1>8, <2>1
  <1> QED
    BY <1>8, <1>9, <1>10 DEF t, n

\* Row by row too: what is expanded is put behind what is listed.
LEMMA ListedAre ==
  ASSUME NEW v, Drawable(v)
  PROVE  LET l == Listed(v)
         IN  /\ l \in [0..v.count -> Seq(Nat)] /\ l[0] = <<>>
             /\ \A i \in 0..(v.count - 1) :
                  l[i + 1] = IF v.first + i \in DOMAIN v.expanded THEN Append(l[i], i) ELSE l[i]
  <1> DEFINE n == v.count
             Here(i) == v.first + i - 1 \in DOMAIN v.expanded
             Is(f) == f = [i \in 0..n |-> IF i = 0 THEN <<>>
                                          ELSE IF Here(i) THEN Append(f[i - 1], i - 1) ELSE f[i - 1]]
             G == [p \in (1..n) \X Seq(Nat) |-> IF Here(p[1]) THEN Append(p[2], p[1] - 1) ELSE p[2]]
  <1>1. Listed(v) = CHOOSE g : Is(g)
    BY Zenon DEF Listed
  <1>2. n \in Nat /\ <<>> \in Seq(Nat)
    BY DEF Drawable
  <1>3. ASSUME NEW i \in 1..n PROVE Here(i) <=> (v.first + (i - 1) \in DOMAIN v.expanded)
    <2>1. v.first \in Int /\ v.first + i - 1 = v.first + (i - 1)
      BY DEF Drawable
    <2> QED
      BY <2>1
  <1> HIDE DEF n, Here
  <1>4. G \in [(1..n) \X Seq(Nat) -> Seq(Nat)]
    <2>1. ASSUME NEW i \in 1..n, NEW s \in Seq(Nat) PROVE Append(s, i - 1) \in Seq(Nat)
      <3>1. i - 1 \in Nat
        OBVIOUS
      <3> QED
        BY <3>1, AppendProperties
    <2>2. \A q \in (1..n) \X Seq(Nat) : (IF Here(q[1]) THEN Append(q[2], q[1] - 1) ELSE q[2]) \in Seq(Nat)
      BY <2>1
    <2> QED
      BY <2>2
  <1>5. PICK g : Stepwise(n, Seq(Nat), <<>>, G, g)
    <2> HIDE DEF G, Is
    <2> QED
      BY <1>2, <1>4, Recursion, Zenon
  <1>6. Is(g)
    <2>1. \A i \in 1..n : i - 1 \in 0..n /\ i \in 0..n
      BY <1>2
    <2>2. /\ g \in [0..n -> Seq(Nat)] /\ g[0] = <<>>
          /\ \A i \in 1..n : g[i] = IF Here(i) THEN Append(g[i - 1], i - 1) ELSE g[i - 1]
      BY <1>5, <2>1 DEF Stepwise
    <2>3. \A i \in 0..n : i # 0 => i \in 1..n
      BY <1>2
    <2> QED
      BY <2>2, <2>3
  <1>7. Is(Listed(v))
    <2> HIDE DEF Is
    <2> QED
      BY <1>1, <1>6, Zenon
  <1> DEFINE t == Listed(v)
  <1>8. /\ t = [i \in 0..n |-> t[i]] /\ t[0] = <<>>
        /\ \A i \in 1..n : t[i] = IF Here(i) THEN Append(t[i - 1], i - 1) ELSE t[i - 1]
    <2> HIDE DEF t
    <2>1. Is(t)
      BY <1>7 DEF t
    <2>2. \A i \in 1..n : i \in 0..n /\ i # 0
      BY <1>2
    <2>3. t[0] = <<>>
      BY <1>2, <2>1
    <2>4. \A i \in 1..n : t[i] = IF Here(i) THEN Append(t[i - 1], i - 1) ELSE t[i - 1]
      BY <2>1, <2>2
    <2> QED
      BY <2>1, <2>3, <2>4
  <1> HIDE DEF t
  <1>9. t \in [0..n -> Seq(Nat)]
    <2>1. Stepping(n, Seq(Nat), <<>>, G, t)
      BY <1>8 DEF Stepping
    <2> HIDE DEF G
    <2>2. Stepwise(n, Seq(Nat), <<>>, G, t)
      BY <1>2, <1>4, <2>1, RecursionIs, Zenon
    <2> QED
      BY <2>2 DEF Stepwise
  <1>10. ASSUME NEW i \in 0..(n - 1)
         PROVE  t[i + 1] = IF v.first + i \in DOMAIN v.expanded THEN Append(t[i], i) ELSE t[i]
    <2>1. i + 1 \in 1..n /\ (i + 1) - 1 = i
      BY <1>2
    <2>2. Here(i + 1) <=> (v.first + i \in DOMAIN v.expanded)
      BY <1>3, <2>1
    <2> QED
      BY <1>8, <2>1, <2>2
  <1> QED
    BY <1>8, <1>9, <1>10 DEF t, n

\* A list in order of the rows before the n-th that are expanded.
Lists(v, es, n) ==
  /\ es \in Seq(Nat)
  /\ \A k \in 1..Len(es) : es[k] < n /\ v.first + es[k] \in DOMAIN v.expanded
  /\ \A j, k \in 1..Len(es) : j < k => es[j] < es[k]
  /\ \A i \in 0..(n - 1) : v.first + i \in DOMAIN v.expanded => \E k \in 1..Len(es) : es[k] = i

\* One row further, its expansion is listed if it has one.
LEMMA OneListed ==
  ASSUME NEW v, Drawable(v), NEW es, NEW n \in Nat, Lists(v, es, n)
  PROVE  Lists(v, IF v.first + n \in DOMAIN v.expanded THEN Append(es, n) ELSE es, n + 1)
  <1>1. CASE v.first + n \notin DOMAIN v.expanded
    BY <1>1 DEF Lists
  <1>2. CASE v.first + n \in DOMAIN v.expanded
    <2> DEFINE fs == Append(es, n)
    <2>1. /\ fs \in Seq(Nat) /\ Len(fs) = Len(es) + 1 /\ fs[Len(es) + 1] = n
          /\ \A k \in 1..Len(es) : fs[k] = es[k]
      BY AppendProperties DEF Lists
    <2> HIDE DEF fs
    <2>2. Len(es) \in Nat /\ \A k \in 1..Len(fs) : k \in 1..Len(es) \/ k = Len(es) + 1
      BY <2>1 DEF Lists
    <2>3. \A k \in 1..Len(es) : es[k] \in Nat /\ es[k] < n /\ v.first + es[k] \in DOMAIN v.expanded
      BY DEF Lists
    <2>4. ASSUME NEW k \in 1..Len(fs) PROVE fs[k] < n + 1 /\ v.first + fs[k] \in DOMAIN v.expanded
      <3>1. CASE k \in 1..Len(es)
        <4>1. fs[k] = es[k] /\ es[k] \in Nat /\ es[k] < n /\ v.first + es[k] \in DOMAIN v.expanded
          BY <2>1, <2>3, <3>1
        <4> QED
          BY <4>1
      <3>2. CASE k = Len(es) + 1
        <4>1. fs[k] = n
          BY <2>1, <3>2
        <4> QED
          BY <1>2, <4>1
      <3> QED
        BY <2>2, <3>1, <3>2
    <2>5. ASSUME NEW j \in 1..Len(fs), NEW k \in 1..Len(fs), j < k PROVE fs[j] < fs[k]
      <3>1. j \in 1..Len(es)
        BY <2>1, <2>2, <2>5
      <3>2. CASE k \in 1..Len(es)
        BY <2>1, <2>5, <3>1, <3>2 DEF Lists
      <3>3. CASE k = Len(es) + 1
        BY <2>1, <2>3, <3>1, <3>3
      <3> QED
        BY <2>2, <3>2, <3>3
    <2>6. ASSUME NEW i \in 0..((n + 1) - 1), v.first + i \in DOMAIN v.expanded
          PROVE  \E k \in 1..Len(fs) : fs[k] = i
      <3>1. CASE i = n
        <4>1. Len(es) + 1 \in 1..Len(fs)
          BY <2>1, <2>2
        <4> QED
          BY <2>1, <3>1, <4>1
      <3>2. CASE i # n
        <4>1. i \in 0..(n - 1)
          BY <3>2
        <4>2. PICK k \in 1..Len(es) : es[k] = i
          BY <2>6, <4>1 DEF Lists
        <4>3. k \in 1..Len(fs)
          BY <2>1, <2>2
        <4> QED
          BY <2>1, <4>2, <4>3
      <3> QED
        BY <3>1, <3>2
    <2>7. Lists(v, fs, n + 1)
      BY <2>1, <2>4, <2>5, <2>6 DEF Lists
    <2> QED
      BY <1>2, <2>7 DEF fs
  <1> QED
    BY <1>1, <1>2

\* The expansions are listed in order, and all of them.
LEMMA ExpansionsListed ==
  ASSUME NEW v, Drawable(v)
  PROVE  Lists(v, expansions(v), v.count)
  <1> DEFINE l == Listed(v)
             S == {i \in 0..v.count : Lists(v, l[i], i)}
  <1>1. /\ v.count \in Nat /\ l[0] = <<>>
        /\ \A i \in 0..(v.count - 1) :
             l[i + 1] = IF v.first + i \in DOMAIN v.expanded THEN Append(l[i], i) ELSE l[i]
    BY ListedAre DEF Drawable
  <1> HIDE DEF l
  <1>2. 0 \in S
    <2>1. Lists(v, <<>>, 0)
      BY DEF Lists
    <2> QED
      BY <1>1, <2>1
  <1>3. ASSUME NEW i \in 0..(v.count - 1), i \in S PROVE i + 1 \in S
    <2>1. i \in Nat /\ i + 1 \in 0..v.count /\ Lists(v, l[i], i)
      BY <1>1, <1>3
    <2>2. Lists(v, l[i + 1], i + 1)
      BY <1>1, <2>1, OneListed
    <2> QED
      BY <2>1, <2>2
  <1>4. 0..v.count \subseteq S
    <2> HIDE DEF S
    <2> QED
      BY <1>1, <1>2, <1>3, UpTo
  <1> QED
    BY <1>1, <1>4 DEF expansions, l

\* Rows with nothing expanded are as high as their number says.
LEMMA Flat ==
  ASSUME NEW v, Drawable(v), NEW i \in 0..v.count, NEW j \in i..v.count,
         \A e \in i..(j - 1) : v.first + e \notin DOMAIN v.expanded
  PROVE  Tops(v)[j] = Tops(v)[i] + (j - i) * RowHeight
  <1> DEFINE t == Tops(v)
             S == {k \in i..j : t[k] = t[i] + (k - i) * RowHeight}
  <1>1. /\ v.count \in Nat /\ t \in [0..v.count -> Nat] /\ RowHeight \in Nat
        /\ \A k \in 0..(v.count - 1) : t[k + 1] = t[k] + RowHeight + Extra(v, k)
    BY TopsAre, ViewerAssumption DEF Drawable
  <1> HIDE DEF t
  <1>2. i \in Nat /\ j \in Nat /\ i \in S
    BY <1>1
  <1>3. ASSUME NEW k \in i..(j - 1), k \in S PROVE k + 1 \in S
    <2>0. k \in 0..(v.count - 1) /\ k \in 0..v.count /\ Extra(v, k) = 0
      BY <1>1, <1>2 DEF Extra
    <2>1. k \in 0..(v.count - 1) /\ Extra(v, k) = 0 /\ t[k] \in Nat /\ t[i] \in Nat
      BY <1>1, <2>0
    <2>2. t[k + 1] = t[k] + RowHeight
      BY <1>1, <2>1
    <2>3. (k - i) * RowHeight + RowHeight = ((k + 1) - i) * RowHeight
      BY <1>1, <1>2
    <2>4. t[k] = t[i] + (k - i) * RowHeight /\ (k - i) * RowHeight \in Int
      BY <1>1, <1>2, <1>3
    <2> HIDE DEF S
    <2>5. t[k + 1] = t[i] + ((k + 1) - i) * RowHeight
      BY <1>1, <2>1, <2>2, <2>3, <2>4
    <2> QED
      BY <1>2, <2>5 DEF S
  <1>4. i..j \subseteq S
    <2> HIDE DEF S
    <2> QED
      BY <1>2, <1>3, UpTo
  <1> QED
    BY <1>2, <1>4 DEF t

\* A row further down begins further down.
LEMMA Rising ==
  ASSUME NEW v, Drawable(v), NEW i \in 0..v.count, NEW j \in i..v.count
  PROVE  Tops(v)[i] <= Tops(v)[j] /\ Tops(v)[i] \in Nat /\ Tops(v)[j] \in Nat
  <1> DEFINE t == Tops(v)
             S == {k \in i..j : t[i] <= t[k]}
  <1>1. /\ v.count \in Nat /\ t \in [0..v.count -> Nat] /\ RowHeight \in Nat
        /\ \A k \in 0..(v.count - 1) : t[k + 1] = t[k] + RowHeight + Extra(v, k) /\ Extra(v, k) \in Nat
    BY TopsAre, ViewerAssumption DEF Drawable, Extra
  <1> HIDE DEF t
  <1>2. i \in Nat /\ j \in Nat /\ i \in S
    BY <1>1
  <1>3. ASSUME NEW k \in i..(j - 1), k \in S PROVE k + 1 \in S
    <2>1. k \in 0..(v.count - 1) /\ k \in 0..v.count /\ k + 1 \in i..j
      BY <1>1, <1>2
    <2>2. t[k] \in Nat /\ t[i] \in Nat /\ t[i] <= t[k]
      BY <1>1, <1>3, <2>1
    <2>3. t[k + 1] = t[k] + RowHeight + Extra(v, k) /\ Extra(v, k) \in Nat
      BY <1>1, <2>1
    <2>4. t[i] <= t[k + 1]
      BY <1>1, <2>2, <2>3
    <2> QED
      BY <2>1, <2>4
  <1>4. i..j \subseteq S
    <2> HIDE DEF S
    <2> QED
      BY <1>2, <1>3, UpTo
  <1> QED
    BY <1>1, <1>2, <1>4 DEF t

\* The row after the k-th expansion.
Below(es, k) == IF k = 0 THEN 0 ELSE es[k] + 1

\* The next expansion, or the end of n rows.
Ahead(es, k, n) == IF k = Len(es) THEN n ELSE es[k + 1]

\* From the one to the other nothing is expanded.
LEMMA Between ==
  ASSUME NEW v, NEW n \in Nat, NEW es, Lists(v, es, n), NEW k \in 0..Len(es)
  PROVE  /\ Below(es, k) \in 0..n /\ Below(es, k) <= Ahead(es, k, n) /\ Ahead(es, k, n) \in 0..n
         /\ k # Len(es) => Ahead(es, k, n) < n
         /\ \A e \in Below(es, k)..(Ahead(es, k, n) - 1) : v.first + e \notin DOMAIN v.expanded
  <1> DEFINE to == Ahead(es, k, n)
  <1>1. /\ Len(es) \in Nat /\ k \in Nat /\ \A j \in 1..Len(es) : es[j] \in Nat /\ es[j] < n
        /\ k # Len(es) => k + 1 \in 1..Len(es)
        /\ k # 0 => k \in 1..Len(es)
    BY DEF Lists
  <1>2. k # 0 /\ k # Len(es) => es[k] < es[k + 1]
    BY <1>1 DEF Lists
  <1>3. /\ Below(es, k) \in 0..n /\ Below(es, k) <= to /\ to \in 0..n
        /\ k # Len(es) => to < n
    BY <1>1, <1>2 DEF Below, Ahead
  <1> HIDE DEF to
  <1>4. ASSUME NEW e \in Below(es, k)..(to - 1), v.first + e \in DOMAIN v.expanded PROVE FALSE
    <2>1. e \in 0..(n - 1)
      <3>1. Below(es, k) \in Nat /\ to \in Nat /\ to <= n
        BY <1>3
      <3> HIDE DEF Below
      <3> QED
        BY <3>1
    <2>2. PICK j \in 1..Len(es) : es[j] = e
      BY <1>4, <2>1 DEF Lists
    <2>3. j > k
      <3>1. ASSUME j <= k PROVE FALSE
        <4>1. k # 0 /\ k \in 1..Len(es) /\ es[k] < e /\ es[k] \in Nat
          BY <1>1, <2>1, <3>1 DEF Below
        <4>2. j = k \/ es[j] < es[k]
          BY <1>1, <3>1, <4>1 DEF Lists
        <4> QED
          BY <2>1, <2>2, <4>1, <4>2
      <3> QED
        BY <1>1, <3>1
    <2>4. k # Len(es) /\ k + 1 \in 1..Len(es) /\ e < es[k + 1] /\ es[k + 1] \in Nat
      BY <1>1, <1>3, <2>1, <2>3 DEF to, Ahead
    <2>5. es[k + 1] <= es[j]
      BY <1>1, <2>3, <2>4 DEF Lists
    <2> QED
      BY <2>1, <2>2, <2>4, <2>5
  <1>5. \A e \in Below(es, k)..(to - 1) : v.first + e \notin DOMAIN v.expanded
    BY <1>4
  <1> HIDE DEF Below
  <1> QED
    BY <1>3, <1>5 DEF to

\* Expansion by expansion: the heights of those above a row.
LEMMA AboveIs ==
  ASSUME NEW v, Drawable(v), NEW es, Lists(v, es, v.count), NEW index \in Nat
  PROVE  LET a == Above(v, index, es)
         IN  /\ a \in [0..Len(es) -> Nat] /\ a[0] = 0
             /\ \A k \in 0..(Len(es) - 1) :
                  a[k + 1] = IF es[k + 1] >= index THEN a[k] ELSE a[k] + Extra(v, es[k + 1])
  <1> DEFINE n == Len(es)
             x(k) == IF es[k] >= index THEN 0 ELSE Body(v, es[k])
             Is(f) == f = [k \in 0..n |-> IF k = 0 THEN 0
                                          ELSE IF es[k] >= index THEN f[k - 1] ELSE f[k - 1] + Body(v, es[k])]
             G == [p \in (1..n) \X Nat |-> p[2] + x(p[1])]
  <1>1. Above(v, index, es) = CHOOSE g : Is(g)
    BY Zenon DEF Above
  <1>2. n \in Nat /\ 0 \in Nat
    BY DEF Lists
  <1>3. ASSUME NEW k \in 1..n
        PROVE  Body(v, es[k]) = Extra(v, es[k]) /\ Body(v, es[k]) \in Nat /\ x(k) \in Nat
    BY DEF Drawable, Lists, Body, Extra
  <1>4. G \in [(1..n) \X Nat -> Nat]
    <2> HIDE DEF x, n
    <2> QED
      BY <1>2, <1>3
  <1>5. PICK g : Stepwise(n, Nat, 0, G, g)
    <2> HIDE DEF G, Is, n
    <2> QED
      BY <1>2, <1>4, Recursion, Zenon
  <1>6. Is(g)
    <2>1. \A k \in 1..n : k - 1 \in 0..n /\ k \in 0..n
      BY <1>2
    <2>2. g \in [0..n -> Nat] /\ g[0] = 0 /\ \A k \in 1..n : g[k] = g[k - 1] + x(k) /\ g[k - 1] \in Nat
      <3> HIDE DEF x, n
      <3> QED
        BY <1>5, <2>1 DEF Stepwise
    <2>3. \A k \in 1..n : g[k] = IF es[k] >= index THEN g[k - 1] ELSE g[k - 1] + Body(v, es[k])
      <3> HIDE DEF n
      <3> QED
        BY <2>2
    <2>4. \A k \in 0..n : k # 0 => k \in 1..n
      BY <1>2
    <2> HIDE DEF n, x
    <2> QED
      BY <2>2, <2>3, <2>4
  <1>7. Is(Above(v, index, es))
    <2> HIDE DEF Is
    <2> QED
      BY <1>1, <1>6, Zenon
  <1> DEFINE t == Above(v, index, es)
  <1>8. /\ t = [k \in 0..n |-> t[k]] /\ t[0] = 0
        /\ \A k \in 1..n : t[k] = IF es[k] >= index THEN t[k - 1] ELSE t[k - 1] + Body(v, es[k])
    <2> HIDE DEF t, n
    <2>1. Is(t)
      BY <1>7 DEF t
    <2>2. \A k \in 1..n : k \in 0..n /\ k # 0
      BY <1>2
    <2>3. t[0] = 0
      BY <1>2, <2>1
    <2>4. \A k \in 1..n : t[k] = IF es[k] >= index THEN t[k - 1] ELSE t[k - 1] + Body(v, es[k])
      BY <2>1, <2>2
    <2> QED
      BY <2>1, <2>3, <2>4
  <1> HIDE DEF t
  <1>9. t \in [0..n -> Nat]
    <2>1. ASSUME NEW k \in 1..n, t[k - 1] \in Nat PROVE t[k] = G[<<k, t[k - 1]>>]
      <3>1. G[<<k, t[k - 1]>>] = t[k - 1] + x(k)
        <4> HIDE DEF x, n
        <4> QED
          BY <2>1
      <3> HIDE DEF G, n
      <3>2. CASE es[k] >= index
        BY <1>8, <2>1, <3>1, <3>2
      <3>3. CASE ~(es[k] >= index)
        BY <1>8, <2>1, <3>1, <3>3
      <3> QED
        BY <3>2, <3>3
    <2>2. Stepping(n, Nat, 0, G, t)
      <3> HIDE DEF G, n
      <3> QED
        BY <1>8, <2>1 DEF Stepping
    <2> HIDE DEF G
    <2>3. Stepwise(n, Nat, 0, G, t)
      BY <1>2, <1>4, <2>2, RecursionIs
    <2> QED
      BY <2>3 DEF Stepwise
  <1>10. ASSUME NEW k \in 0..(n - 1)
         PROVE  t[k + 1] = IF es[k + 1] >= index THEN t[k] ELSE t[k] + Extra(v, es[k + 1])
    <2>1. k + 1 \in 1..n /\ (k + 1) - 1 = k
      BY <1>2
    <2>2. Body(v, es[k + 1]) = Extra(v, es[k + 1])
      BY <1>3, <2>1
    <2> HIDE DEF n
    <2> QED
      BY <1>8, <2>1, <2>2
  <1> QED
    BY <1>8, <1>9, <1>10 DEF t

\* They are what a row's place is more than its number says.
LEMMA AboveCounts ==
  ASSUME NEW v, Drawable(v), NEW index \in 0..v.count
  PROVE  LET es == expansions(v)
         IN  /\ Above(v, index, es)[Len(es)] \in Nat
             /\ index * RowHeight + Above(v, index, es)[Len(es)] = Tops(v)[index]
  <1> DEFINE es == expansions(v)
             n == v.count
             t == Tops(v)
             a == Above(v, index, es)
             Passed(k) == IF Below(es, k) <= index THEN Below(es, k) ELSE index
             S == {k \in 0..Len(es) : a[k] = t[Passed(k)] - Passed(k) * RowHeight}
  <1>1. Lists(v, es, n) /\ Len(es) \in Nat /\ n \in Nat /\ index \in 0..n /\ RowHeight \in Nat
    <2>1. Lists(v, es, n) /\ n \in Nat
      BY ExpansionsListed DEF Drawable
    <2>2. RowHeight \in Nat
      BY ViewerAssumption
    <2> QED
      BY <2>1, <2>2 DEF Lists
  <1> HIDE DEF es
  <1>2. /\ a \in [0..Len(es) -> Nat] /\ a[0] = 0
        /\ \A k \in 0..(Len(es) - 1) :
             a[k + 1] = IF es[k + 1] >= index THEN a[k] ELSE a[k] + Extra(v, es[k + 1])
    BY <1>1, AboveIs
  <1>3. /\ t \in [0..n -> Nat] /\ t[0] = 0
        /\ \A i \in 0..(n - 1) : t[i + 1] = t[i] + RowHeight + Extra(v, i)
    BY TopsAre
  <1>4. ASSUME NEW i \in 0..n, NEW j \in i..n, \A e \in i..(j - 1) : v.first + e \notin DOMAIN v.expanded
        PROVE  t[j] - j * RowHeight = t[i] - i * RowHeight
    <2>1. t[j] = t[i] + (j - i) * RowHeight
      BY <1>4, Flat
    <2>2. (j - i) * RowHeight = j * RowHeight - i * RowHeight /\ j * RowHeight \in Int
          /\ i * RowHeight \in Int
      BY <1>1
    <2>3. t[i] \in Nat /\ t[j] \in Nat
      BY <1>1, <1>3
    <2> HIDE DEF t, n
    <2> QED
      BY <2>1, <2>2, <2>3
  <1> HIDE DEF n, t, a
  <1>5. 0 \in S
    BY <1>1, <1>2, <1>3 DEF Below
  <1>6. ASSUME NEW k \in 0..(Len(es) - 1), k \in S PROVE k + 1 \in S
    <2> DEFINE e == es[k + 1]
               i == Below(es, k)
    <2>1. k \in 0..Len(es) /\ k # Len(es) /\ k + 1 \in 0..Len(es) /\ k + 1 # 0
      BY <1>1
    <2>2. i \in 0..n /\ e \in i..(n - 1) /\ \A r \in i..(e - 1) : v.first + r \notin DOMAIN v.expanded
      <3>1. Ahead(es, k, n) = e
        BY <2>1 DEF Ahead
      <3> HIDE DEF e
      <3>2. /\ i \in 0..n /\ i <= e /\ e \in 0..n /\ e < n
            /\ \A r \in i..(e - 1) : v.first + r \notin DOMAIN v.expanded
        BY <1>1, <2>1, <3>1, Between
      <3> HIDE DEF i
      <3> QED
        BY <1>1, <3>2
    <2>3. Below(es, k + 1) = e + 1
      BY <2>1 DEF Below
    <2>4. a[k] = t[Passed(k)] - Passed(k) * RowHeight
      BY <1>6
    <2>5. a[k + 1] = IF e >= index THEN a[k] ELSE a[k] + Extra(v, e)
      BY <1>2
    <2> HIDE DEF e, i
    <2>6. CASE e >= index
      <3>1. Passed(k + 1) = index
        BY <1>1, <2>2, <2>3, <2>6
      <3>2. CASE i <= index
        <4>1. Passed(k) = i
          BY <3>2 DEF i
        <4>2. \A r \in i..(index - 1) : v.first + r \notin DOMAIN v.expanded
          BY <1>1, <2>2, <2>6
        <4>3. t[index] - index * RowHeight = t[i] - i * RowHeight
          <5>1. index \in i..n
            BY <1>1, <2>2, <3>2
          <5> QED
            BY <1>4, <2>2, <4>2, <5>1
        <4> QED
          BY <2>1, <2>4, <2>5, <2>6, <3>1, <4>1, <4>3
      <3>3. CASE ~(i <= index)
        <4>1. Passed(k) = index
          BY <3>3 DEF i
        <4> QED
          BY <2>1, <2>4, <2>5, <2>6, <3>1, <4>1
      <3> QED
        BY <3>2, <3>3
    <2>7. CASE ~(e >= index)
      <3>1. Passed(k + 1) = e + 1 /\ i <= index /\ e \in 0..(n - 1)
        BY <1>1, <2>2, <2>3, <2>7
      <3>2. Passed(k) = i
        BY <3>1 DEF i
      <3>3. t[e] - e * RowHeight = t[i] - i * RowHeight
        BY <1>1, <1>4, <2>2
      <3>4. t[e + 1] = t[e] + RowHeight + Extra(v, e) /\ t[e] \in Nat /\ Extra(v, e) \in Nat
        BY <1>1, <1>3, <3>1 DEF Extra, Drawable
      <3>5. (e + 1) * RowHeight = e * RowHeight + RowHeight /\ e * RowHeight \in Int
        BY <1>1, <3>1
      <3>6. a[k] = t[e] - e * RowHeight
        BY <2>4, <3>2, <3>3
      <3>7. a[k + 1] = t[e + 1] - (e + 1) * RowHeight
        BY <1>1, <2>5, <2>7, <3>4, <3>5, <3>6
      <3> QED
        BY <2>1, <3>1, <3>7
    <2> QED
      BY <2>6, <2>7
  <1>7. Len(es) \in S
    <2> HIDE DEF S
    <2>1. 0..Len(es) \subseteq S
      BY <1>1, <1>5, <1>6, UpTo
    <2> QED
      BY <1>1, <2>1
  <1>8. a[Len(es)] = t[index] - index * RowHeight
    <2> DEFINE i == Below(es, Len(es))
    <2>1. i \in 0..n /\ \A r \in i..(n - 1) : v.first + r \notin DOMAIN v.expanded
      <3>1. Ahead(es, Len(es), n) = n /\ Len(es) \in 0..Len(es)
        BY <1>1 DEF Ahead
      <3> QED
        BY <1>1, <3>1, Between
    <2>2. a[Len(es)] = t[Passed(Len(es))] - Passed(Len(es)) * RowHeight
      BY <1>7
    <2>3. CASE i <= index
      <3>1. Passed(Len(es)) = i
        BY <2>3
      <3> HIDE DEF i
      <3>2. t[index] - index * RowHeight = t[i] - i * RowHeight
        BY <1>1, <1>4, <2>1, <2>3
      <3> QED
        BY <2>2, <3>1, <3>2
    <2>4. CASE ~(i <= index)
      BY <2>2, <2>4
    <2> QED
      BY <2>3, <2>4
  <1>9. a[Len(es)] \in Nat /\ t[index] \in Nat /\ index * RowHeight \in Int
    BY <1>1, <1>2, <1>3
  <1> QED
    BY <1>8, <1>9 DEF es, t, a

WalkType == [index : Int, top : Int, found : Int \cup {None}]

\* One expansion of the walk.
LEMMA PastIs ==
  ASSUME NEW v, Drawable(v), NEW offset \in Nat, NEW acc \in WalkType, NEW e \in Nat,
         v.first + e \in DOMAIN v.expanded
  PROVE  LET top == acc.top + (e - acc.index) * RowHeight
             bottom == top + RowHeight + Extra(v, e)
             past == Past(v, offset, acc, e)
         IN  /\ past \in WalkType
             /\ acc.found # None => past = acc
             /\ (acc.found = None /\ offset < top) =>
                  past.found = acc.index + (offset - acc.top) \div RowHeight
             /\ (acc.found = None /\ offset >= top /\ offset < bottom) => past.found = e
             /\ (acc.found = None /\ offset >= top /\ offset >= bottom) =>
                  past.found = None /\ past.index = e + 1 /\ past.top = bottom
  <1> DEFINE top == acc.top + (e - acc.index) * RowHeight
             body == Body(v, e)
             bottom == top + RowHeight + body
             past == Past(v, offset, acc, e)
             f == acc.index + (offset - acc.top) \div RowHeight
  <1>1. body = Extra(v, e) /\ body \in Nat
    BY DEF Drawable, Body, Extra
  <1>2. RowHeight \in Nat /\ RowHeight > 0
    BY ViewerAssumption
  <1>3. acc.index \in Int /\ acc.top \in Int
        /\ acc = [index |-> acc.index, top |-> acc.top, found |-> acc.found]
    BY DEF WalkType
  <1>4. top \in Int /\ bottom \in Int
    BY <1>1, <1>2, <1>3
  <1>5. f \in Int
    <2>1. (offset - acc.top) \div RowHeight \in Int
      BY <1>2, <1>3
    <2> QED
      BY <1>3, <2>1
  <1>6. past = IF acc.found # None THEN acc
               ELSE IF offset < top THEN [acc EXCEPT !.found = f]
               ELSE IF offset < bottom THEN [acc EXCEPT !.found = e]
               ELSE [index |-> e + 1, top |-> bottom, found |-> None]
    BY DEF Past
  <1> HIDE DEF top, bottom, body, past, f
  <1>7. /\ past \in WalkType
        /\ acc.found # None => past = acc
        /\ (acc.found = None /\ offset < top) => past.found = f
        /\ (acc.found = None /\ offset >= top /\ offset < bottom) => past.found = e
        /\ (acc.found = None /\ offset >= top /\ offset >= bottom) =>
             past.found = None /\ past.index = e + 1 /\ past.top = bottom
    <2>1. CASE acc.found # None
      BY <1>6, <2>1
    <2>2. CASE acc.found = None /\ offset < top
      <3>1. past = [index |-> acc.index, top |-> acc.top, found |-> f]
        BY <1>3, <1>6, <2>2
      <3> QED
        BY <1>3, <1>4, <1>5, <2>2, <3>1 DEF WalkType
    <2>3. CASE acc.found = None /\ offset >= top /\ offset < bottom
      <3>1. past = [index |-> acc.index, top |-> acc.top, found |-> e]
        BY <1>3, <1>4, <1>6, <2>3
      <3> QED
        BY <1>3, <1>4, <2>3, <3>1 DEF WalkType
    <2>4. CASE acc.found = None /\ offset >= top /\ offset >= bottom
      <3>1. past = [index |-> e + 1, top |-> bottom, found |-> None]
        BY <1>4, <1>6, <2>4
      <3> QED
        BY <1>3, <1>4, <2>4, <3>1 DEF WalkType
    <2> QED
      BY <1>4, <2>1, <2>2, <2>3, <2>4
  <1> QED
    BY <1>1, <1>7 DEF top, bottom, past, f

\* Expansion by expansion: the walk.
LEMMA WalkIs ==
  ASSUME NEW v, Drawable(v), NEW es, Lists(v, es, v.count), NEW offset \in Nat
  PROVE  LET w == Walk(v, offset, es)
         IN  /\ w \in [0..Len(es) -> WalkType] /\ w[0] = [index |-> 0, top |-> 0, found |-> None]
             /\ \A k \in 0..(Len(es) - 1) : w[k + 1] = Past(v, offset, w[k], es[k + 1])
  <1> DEFINE n == Len(es)
             Start == [index |-> 0, top |-> 0, found |-> None]
             Is(f) == f = [k \in 0..n |-> IF k = 0 THEN Start ELSE Past(v, offset, f[k - 1], es[k])]
             G == [p \in (1..n) \X WalkType |-> Past(v, offset, p[2], es[p[1]])]
  <1>1. Walk(v, offset, es) = CHOOSE g : Is(g)
    BY Zenon DEF Walk
  <1>2. n \in Nat /\ Start \in WalkType
    BY DEF Lists, WalkType
  <1>3. ASSUME NEW k \in 1..n, NEW acc \in WalkType PROVE Past(v, offset, acc, es[k]) \in WalkType
    <2>1. es[k] \in Nat /\ v.first + es[k] \in DOMAIN v.expanded
      BY DEF Lists
    <2> QED
      BY <2>1, PastIs
  <1> HIDE DEF n, Start
  <1>4. G \in [(1..n) \X WalkType -> WalkType]
    BY <1>3
  <1>5. PICK g : Stepwise(n, WalkType, Start, G, g)
    <2> HIDE DEF G, Is
    <2> QED
      BY <1>2, <1>4, Recursion, Zenon
  <1>6. Is(g)
    <2>1. \A k \in 1..n : k - 1 \in 0..n /\ k \in 0..n
      BY <1>2
    <2>2. g \in [0..n -> WalkType] /\ g[0] = Start
          /\ \A k \in 1..n : g[k] = Past(v, offset, g[k - 1], es[k])
      BY <1>5, <2>1 DEF Stepwise
    <2>3. \A k \in 0..n : k # 0 => k \in 1..n
      BY <1>2
    <2> QED
      BY <2>2, <2>3
  <1>7. Is(Walk(v, offset, es))
    <2> HIDE DEF Is
    <2> QED
      BY <1>1, <1>6, Zenon
  <1> DEFINE t == Walk(v, offset, es)
  <1>8. /\ t = [k \in 0..n |-> t[k]] /\ t[0] = Start
        /\ \A k \in 1..n : t[k] = Past(v, offset, t[k - 1], es[k])
    <2> HIDE DEF t
    <2>1. Is(t)
      BY <1>7 DEF t
    <2>2. \A k \in 1..n : k \in 0..n /\ k # 0
      BY <1>2
    <2>3. t[0] = Start
      BY <1>2, <2>1
    <2>4. \A k \in 1..n : t[k] = Past(v, offset, t[k - 1], es[k])
      BY <2>1, <2>2
    <2> QED
      BY <2>1, <2>3, <2>4
  <1> HIDE DEF t
  <1>9. t \in [0..n -> WalkType]
    <2>1. Stepping(n, WalkType, Start, G, t)
      BY <1>8 DEF Stepping
    <2> HIDE DEF G
    <2>2. Stepwise(n, WalkType, Start, G, t)
      BY <1>2, <1>4, <2>1, RecursionIs, Zenon
    <2> QED
      BY <2>2 DEF Stepwise
  <1>10. ASSUME NEW k \in 0..(n - 1) PROVE t[k + 1] = Past(v, offset, t[k], es[k + 1])
    <2>1. k + 1 \in 1..n /\ (k + 1) - 1 = k
      BY <1>2
    <2> QED
      BY <1>8, <2>1
  <1> QED
    BY <1>8, <1>9, <1>10 DEF t, n, Start

\* The row at an offset: those above it end there or before, those below it
\* begin further down.
DrawnAt(v, offset, row) ==
  /\ row \in Nat
  /\ \A i \in 0..(v.count - 1) : i < row => Tops(v)[i + 1] <= offset
  /\ \A i \in 0..(v.count - 1) : i > row => Tops(v)[i] > offset
  /\ offset <= Tops(v)[v.count] => row <= v.count

\* Counting on from a row with nothing expanded up to another one.
LEMMA CountedOn ==
  ASSUME NEW v, Drawable(v), NEW i \in 0..v.count, NEW j \in i..v.count, NEW offset \in Nat,
         \A e \in i..(j - 1) : v.first + e \notin DOMAIN v.expanded,
         Tops(v)[i] <= offset, j = v.count \/ offset < Tops(v)[j]
  PROVE  DrawnAt(v, offset, i + (offset - Tops(v)[i]) \div RowHeight)
  <1> DEFINE t == Tops(v)
             n == v.count
             d == offset - t[i]
             q == d \div RowHeight
  <1>1. RowHeight \in Nat /\ RowHeight > 0
    BY ViewerAssumption
  <1>2. t \in [0..n -> Nat] /\ n \in Nat /\ i \in Nat /\ j \in Nat
    BY TopsAre DEF Drawable
  <1>3. \A a \in 0..n : \A b \in a..n : t[a] <= t[b]
    BY Rising
  <1>4. \A k \in i..j : t[k] = t[i] + (k - i) * RowHeight
    <2>1. ASSUME NEW k \in i..j PROVE t[k] = t[i] + (k - i) * RowHeight
      <3>1. k \in i..n /\ \A e \in i..(k - 1) : v.first + e \notin DOMAIN v.expanded
        BY <1>2
      <3> HIDE DEF t
      <3> QED
        BY <3>1, Flat DEF t
    <2> QED
      BY <2>1
  <1>5. d \in Nat /\ t[i] + d = offset
    BY <1>2
  <1>6. q \in Nat /\ q * RowHeight <= d /\ d < (q + 1) * RowHeight
    <2> HIDE DEF d
    <2> QED
      BY <1>1, <1>5
  <1> HIDE DEF t, n, d, q
  <1>7. ASSUME NEW k \in 0..(n - 1), k < i + q PROVE t[k + 1] <= offset
    <2>1. CASE k + 1 <= i
      <3>1. k + 1 \in 0..n /\ i \in (k + 1)..n
        BY <1>2, <2>1 DEF n
      <3> QED
        BY <1>2, <1>3, <3>1 DEF t
    <2>2. CASE k + 1 > i /\ k + 1 <= j
      <3>1. k + 1 \in i..j /\ (k + 1) - i <= q /\ (k + 1) - i \in Int
        BY <1>2, <1>6, <1>7, <2>2
      <3>2. t[k + 1] = t[i] + ((k + 1) - i) * RowHeight
        BY <1>4, <3>1
      <3>3. ((k + 1) - i) * RowHeight <= q * RowHeight /\ ((k + 1) - i) * RowHeight \in Int
            /\ q * RowHeight \in Int
        BY <1>1, <1>6, <3>1
      <3> HIDE DEF t
      <3>4. t[i] \in Nat
        BY <1>2 DEF n
      <3> QED
        BY <1>5, <1>6, <3>2, <3>3, <3>4
    <2>3. CASE k + 1 > j
      <3>1. j # n /\ offset < t[j]
        BY <1>2, <1>7, <2>3 DEF n, t
      <3>2. j \in i..j /\ t[j] = t[i] + (j - i) * RowHeight
        BY <1>2, <1>4
      <3>3. j - i <= q /\ (j - i) * RowHeight <= q * RowHeight /\ (j - i) * RowHeight \in Int
            /\ q * RowHeight \in Int
        BY <1>1, <1>2, <1>6, <1>7, <2>3
      <3>4. t[i] \in Nat /\ t[j] \in Nat
        BY <1>2 DEF n
      <3> QED
        BY <1>5, <1>6, <3>1, <3>2, <3>3, <3>4
    <2> QED
      BY <1>2, <2>1, <2>2, <2>3
  <1>8. ASSUME NEW k \in 0..(n - 1), k > i + q PROVE t[k] > offset
    <2>1. k \in 0..n /\ k > i
      BY <1>2, <1>6, <1>8
    <2>2. CASE k <= j
      <3>1. k \in i..j /\ q + 1 <= k - i /\ k - i \in Int
        BY <1>2, <1>6, <1>8, <2>1, <2>2
      <3>2. t[k] = t[i] + (k - i) * RowHeight
        BY <1>4, <3>1
      <3>3. (q + 1) * RowHeight <= (k - i) * RowHeight /\ (k - i) * RowHeight \in Int
            /\ (q + 1) * RowHeight \in Int
        BY <1>1, <1>6, <3>1
      <3>4. t[i] \in Nat
        BY <1>2 DEF n
      <3> QED
        BY <1>5, <1>6, <3>2, <3>3, <3>4
    <2>3. CASE k > j
      <3>1. offset < t[j] /\ k \in j..n /\ j \in 0..n
        BY <1>2, <2>1, <2>3 DEF n, t
      <3>2. t[j] <= t[k] /\ t[j] \in Nat /\ t[k] \in Nat
        BY <1>2, <1>3, <2>1, <3>1
      <3> QED
        BY <3>1, <3>2
    <2> QED
      BY <1>2, <2>1, <2>2, <2>3
  <1>9. ASSUME offset <= t[n] PROVE i + q <= n
    <2>1. CASE j = n
      <3>1. t[n] = t[i] + (n - i) * RowHeight
        BY <1>2, <1>4, <2>1
      <3>2. ASSUME n - i < q PROVE FALSE
        <4>1. (n - i) + 1 <= q /\ ((n - i) + 1) * RowHeight <= q * RowHeight
          BY <1>1, <1>2, <1>6, <3>2
        <4>2. ((n - i) + 1) * RowHeight = (n - i) * RowHeight + RowHeight
              /\ (n - i) * RowHeight \in Int /\ q * RowHeight \in Int
          BY <1>1, <1>2, <1>6
        <4>3. t[i] \in Nat
          BY <1>2 DEF n
        <4> QED
          BY <1>1, <1>5, <1>6, <1>9, <3>1, <4>1, <4>2, <4>3
      <3> QED
        BY <1>2, <1>6, <3>2
    <2>2. CASE j # n
      <3>1. offset < t[j] /\ t[j] = t[i] + (j - i) * RowHeight
        BY <1>2, <1>4, <2>2 DEF n, t
      <3>2. ASSUME j - i <= q PROVE FALSE
        <4>1. (j - i) * RowHeight <= q * RowHeight /\ (j - i) * RowHeight \in Int /\ q * RowHeight \in Int
          BY <1>1, <1>2, <1>6, <3>2
        <4>2. t[i] \in Nat
          BY <1>2 DEF n
        <4> QED
          BY <1>5, <1>6, <3>1, <4>1, <4>2
      <3>3. j <= n
        BY DEF n
      <3> QED
        BY <1>2, <1>6, <3>2, <3>3
    <2> QED
      BY <2>1, <2>2
  <1>10. i + q \in Nat
    BY <1>2, <1>6
  <1> QED
    BY <1>7, <1>8, <1>9, <1>10 DEF DrawnAt, t, n, d, q

\* An offset inside a row's own block.
LEMMA InBlock ==
  ASSUME NEW v, Drawable(v), NEW e \in 0..(v.count - 1), NEW offset \in Nat,
         Tops(v)[e] <= offset, offset < Tops(v)[e + 1]
  PROVE  DrawnAt(v, offset, e)
  <1> DEFINE t == Tops(v)
             n == v.count
  <1>1. t \in [0..n -> Nat] /\ n \in Nat /\ e \in Nat /\ e < n
    BY TopsAre DEF Drawable
  <1>2. \A a \in 0..n : \A b \in a..n : t[a] <= t[b]
    BY Rising
  <1> HIDE DEF t, n
  <1>3. ASSUME NEW i \in 0..(n - 1), i < e PROVE t[i + 1] <= offset
    <2>1. i + 1 \in 0..n /\ e \in (i + 1)..n /\ e \in 0..n
      BY <1>1, <1>3
    <2> QED
      BY <1>1, <1>2, <2>1 DEF t
  <1>4. ASSUME NEW i \in 0..(n - 1), i > e PROVE t[i] > offset
    <2>1. e + 1 \in 0..n /\ i \in (e + 1)..n /\ i \in 0..n
      BY <1>1, <1>4
    <2>2. t[e + 1] <= t[i] /\ t[e + 1] \in Nat /\ t[i] \in Nat
      BY <1>1, <1>2, <2>1
    <2> QED
      BY <2>2 DEF t
  <1> QED
    BY <1>1, <1>3, <1>4 DEF DrawnAt, t, n

\* The walk stops at the row drawn at the offset.
LEMMA IndexAtIs ==
  ASSUME NEW v, Drawable(v), NEW offset \in Nat
  PROVE  DrawnAt(v, offset, indexAt(v, offset))
  <1> DEFINE es == expansions(v)
             n == v.count
             t == Tops(v)
             w == Walk(v, offset, es)
             Rest(k) == t[Below(es, k)] <= offset /\ w[k].index = Below(es, k) /\ w[k].top = t[Below(es, k)]
             S == {k \in 0..Len(es) : IF w[k].found = None THEN Rest(k) ELSE DrawnAt(v, offset, w[k].found)}
  <1>1. Lists(v, es, n) /\ Len(es) \in Nat /\ n \in Nat
    <2>1. Lists(v, es, n) /\ n \in Nat
      BY ExpansionsListed DEF Drawable
    <2> QED
      BY <2>1 DEF Lists
  <1> HIDE DEF es
  <1>2. /\ w \in [0..Len(es) -> WalkType] /\ w[0] = [index |-> 0, top |-> 0, found |-> None]
        /\ \A k \in 0..(Len(es) - 1) : w[k + 1] = Past(v, offset, w[k], es[k + 1])
    BY <1>1, WalkIs
  <1>3. /\ t \in [0..n -> Nat] /\ t[0] = 0
        /\ \A i \in 0..(n - 1) : t[i + 1] = t[i] + RowHeight + Extra(v, i)
    BY TopsAre
  <1>4. None \notin Nat
    BY ViewerAssumption
  <1> HIDE DEF w, t, n
  <1>5. 0 \in S
    BY <1>1, <1>2, <1>3 DEF Below
  <1>6. ASSUME NEW k \in 0..(Len(es) - 1), k \in S PROVE k + 1 \in S
    <2> DEFINE e == es[k + 1]
               i == Below(es, k)
               acc == w[k]
    <2>1. k \in 0..Len(es) /\ k # Len(es) /\ k + 1 \in 0..Len(es) /\ k + 1 # 0 /\ k + 1 \in 1..Len(es)
      BY <1>1
    <2>2. acc \in WalkType /\ w[k + 1] = Past(v, offset, acc, e)
      BY <1>2, <2>1
    <2>3. e \in Nat /\ v.first + e \in DOMAIN v.expanded
      BY <1>1, <2>1 DEF Lists
    <2>4. i \in 0..n /\ e \in i..(n - 1) /\ \A r \in i..(e - 1) : v.first + r \notin DOMAIN v.expanded
      <3>1. Ahead(es, k, n) = e
        BY <2>1 DEF Ahead
      <3> HIDE DEF e
      <3>2. /\ i \in 0..n /\ i <= e /\ e \in 0..n /\ e < n
            /\ \A r \in i..(e - 1) : v.first + r \notin DOMAIN v.expanded
        BY <1>1, <2>1, <3>1, Between
      <3> HIDE DEF i
      <3> QED
        BY <1>1, <3>2
    <2>5. Below(es, k + 1) = e + 1
      BY <2>1 DEF Below
    <2>6. IF acc.found = None THEN Rest(k) ELSE DrawnAt(v, offset, acc.found)
      BY <1>6
    <2>7. CASE acc.found # None
      <3>1. w[k + 1] = acc
        <4> HIDE DEF acc, e
        <4> QED
          BY <2>2, <2>3, <2>7, PastIs
      <3> QED
        BY <2>1, <2>6, <2>7, <3>1
    <2>8. CASE acc.found = None
      <3> DEFINE top == acc.top + (e - acc.index) * RowHeight
                 bottom == top + RowHeight + Extra(v, e)
      <3>1. t[i] <= offset /\ acc.index = i /\ acc.top = t[i]
        BY <2>6, <2>8
      <3>2. /\ offset < top => w[k + 1].found = acc.index + (offset - acc.top) \div RowHeight
            /\ (offset >= top /\ offset < bottom) => w[k + 1].found = e
            /\ (offset >= top /\ offset >= bottom) =>
                 w[k + 1].found = None /\ w[k + 1].index = e + 1 /\ w[k + 1].top = bottom
        <4> HIDE DEF acc, e
        <4> QED
          BY <2>2, <2>3, <2>8, PastIs
      <3> HIDE DEF acc, e, i
      <3>3. top = t[e]
        <4>1. t[e] = t[i] + (e - i) * RowHeight
          <5>1. i \in 0..n /\ e \in i..n
            BY <1>1, <2>4
          <5> QED
            BY <2>4, <5>1, Flat DEF t, n
        <4> QED
          BY <3>1, <4>1
      <3>4. bottom = t[e + 1] /\ t[e] \in Nat /\ t[e + 1] \in Nat /\ e \in 0..(n - 1)
        BY <1>1, <1>3, <2>4, <3>3
      <3> HIDE DEF top, bottom
      <3>5. CASE offset < top
        <4>1. DrawnAt(v, offset, i + (offset - t[i]) \div RowHeight)
          <5>1. i \in 0..v.count /\ e \in i..v.count
            BY <1>1, <2>4 DEF n
          <5> QED
            BY <2>4, <3>1, <3>3, <3>5, <5>1, CountedOn DEF t
        <4>2. w[k + 1].found = i + (offset - t[i]) \div RowHeight
          BY <3>1, <3>2, <3>5
        <4>3. w[k + 1].found # None
          BY <1>4, <4>1, <4>2 DEF DrawnAt
        <4> QED
          BY <2>1, <4>1, <4>2, <4>3
      <3>6. CASE offset >= top /\ offset < bottom
        <4>1. DrawnAt(v, offset, e)
          BY <3>3, <3>4, <3>6, InBlock DEF t, n
        <4> QED
          BY <1>4, <2>1, <2>3, <3>2, <3>6, <4>1
      <3>7. CASE offset >= top /\ offset >= bottom
        BY <2>1, <2>5, <3>2, <3>3, <3>4, <3>7
      <3> QED
        BY <3>3, <3>4, <3>5, <3>6, <3>7
    <2> QED
      BY <2>7, <2>8
  <1>7. Len(es) \in S
    <2> HIDE DEF S
    <2>1. 0..Len(es) \subseteq S
      BY <1>1, <1>5, <1>6, UpTo
    <2> QED
      BY <1>1, <2>1
  <1> DEFINE end == w[Len(es)]
  <1>8. indexAt(v, offset) = IF end.found # None THEN end.found
                             ELSE end.index + (offset - end.top) \div RowHeight
    BY DEF indexAt, w, es
  <1>9. CASE end.found # None
    BY <1>7, <1>8, <1>9
  <1>10. CASE end.found = None
    <2> DEFINE i == Below(es, Len(es))
    <2>1. i \in 0..n /\ \A r \in i..(n - 1) : v.first + r \notin DOMAIN v.expanded
      <3>1. Ahead(es, Len(es), n) = n /\ Len(es) \in 0..Len(es)
        BY <1>1 DEF Ahead
      <3> QED
        BY <1>1, <3>1, Between
    <2>2. t[i] <= offset /\ end.index = i /\ end.top = t[i]
      BY <1>7, <1>10
    <2> HIDE DEF i, end
    <2>3. n \in i..n
      BY <1>1, <2>1
    <2>4. DrawnAt(v, offset, i + (offset - t[i]) \div RowHeight)
      BY <2>1, <2>2, <2>3, CountedOn DEF t, n
    <2> QED
      BY <1>8, <1>10, <2>2, <2>4
  <1> QED
    BY <1>9, <1>10

\* The lesser and the greater of two numbers, the least of the body heights.
LEMMA MinOf ==
  ASSUME NEW a \in Int, NEW b \in Int
  PROVE  Min({a, b}) = IF a <= b THEN a ELSE b
  <1> DEFINE m == IF a <= b THEN a ELSE b
  <1>1. m \in {a, b} /\ \A y \in {a, b} : m <= y
    OBVIOUS
  <1>2. \A x \in {a, b} : (\A y \in {a, b} : x <= y) => x = m
    OBVIOUS
  <1> HIDE DEF m
  <1>3. Min({a, b}) = m
    BY <1>1, <1>2 DEF Min
  <1> QED
    BY <1>3 DEF m

LEMMA MaxOf ==
  ASSUME NEW a \in Int, NEW b \in Int
  PROVE  Max({a, b}) = IF a >= b THEN a ELSE b
  <1> DEFINE m == IF a >= b THEN a ELSE b
  <1>1. m \in {a, b} /\ \A y \in {a, b} : m >= y
    OBVIOUS
  <1>2. \A x \in {a, b} : (\A y \in {a, b} : x >= y) => x = m
    OBVIOUS
  <1> HIDE DEF m
  <1>3. Max({a, b}) = m
    BY <1>1, <1>2 DEF Max
  <1> QED
    BY <1>3 DEF m

\* The estimate is one of the heights.
LEMMA LeastBody == Min(BodyHeights) \in BodyHeights
  <1> DEFINE R == {p \in Nat \X Nat : p[1] < p[2]}
  <1>1. IsWellFoundedOn(R, Nat)
    <2>1. OpToRel(<, Nat) = R
      BY DEF OpToRel
    <2> QED
      BY <2>1, NatLessThanWellFounded, Zenon
  <1>2. BodyHeights \subseteq Nat /\ BodyHeights # {}
    BY ViewerAssumption
  <1> HIDE DEF R
  <1>3. PICK x \in BodyHeights : \A y \in BodyHeights : ~ (<<y, x>> \in R)
    BY <1>1, <1>2, WFMin
  <1>4. ASSUME NEW y \in BodyHeights PROVE x <= y
    <2>1. x \in Nat /\ y \in Nat
      BY <1>2
    <2>2. ~ (y < x)
      BY <1>3, <2>1 DEF R
    <2> QED
      BY <2>1, <2>2
  <1>5. \E z \in BodyHeights : \A y \in BodyHeights : z <= y
    BY <1>4
  <1> QED
    BY <1>5 DEF Min

\* Where the list ends, and where each row is put, is where the rows above end.
LEMMA PlacedByRows ==
  ASSUME NEW v, Drawable(v)
  PROVE  /\ totalHeight(v) = Tops(v)[v.count]
         /\ \A i \in 0..v.count : topOf(v, i) = Tops(v)[i]
  <1>1. v.count \in 0..v.count
    BY DEF Drawable
  <1> QED
    BY <1>1, AboveCounts DEF totalHeight, extraHeight, topOf

\* The rows of a log that begins d lines earlier, with the same expansions.
LEMMA Shifted ==
  ASSUME NEW v, Drawable(v), NEW w, Drawable(w), w.expanded = v.expanded,
         NEW d \in Nat, w.first + d = v.first,
         \A seq \in DOMAIN v.expanded : seq >= w.first => seq >= v.first,
         NEW j \in 0..v.count, d + j <= w.count
  PROVE  Tops(w)[d + j] = d * RowHeight + Tops(v)[j]
  <1> DEFINE t == Tops(v)
             u == Tops(w)
             n == v.count
             m == w.count
             S == {i \in 0..j : u[d + i] = d * RowHeight + t[i]}
  <1>1. /\ t \in [0..n -> Nat] /\ t[0] = 0
        /\ \A i \in 0..(n - 1) : t[i + 1] = t[i] + RowHeight + Extra(v, i)
    BY TopsAre
  <1>2. /\ u \in [0..m -> Nat] /\ u[0] = 0
        /\ \A i \in 0..(m - 1) : u[i + 1] = u[i] + RowHeight + Extra(w, i)
    BY TopsAre
  <1>3. /\ v.first \in Int /\ w.first \in Int /\ n \in Nat /\ m \in Nat
        /\ RowHeight \in Nat /\ d * RowHeight \in Nat
    <2>1. v.first \in Int /\ w.first \in Int /\ n \in Nat /\ m \in Nat
      BY DEF Drawable
    <2>2. RowHeight \in Nat
      BY ViewerAssumption
    <2>3. d * RowHeight \in Nat
      BY <2>2
    <2> QED
      BY <2>1, <2>2, <2>3
  <1>4. u[d] = d * RowHeight
    <2>1. 0 \in 0..m /\ d \in 0..m
      BY <1>3
    <2>2. \A e \in 0..(d - 1) : w.first + e \notin DOMAIN w.expanded
      BY <1>3
    <2>3. u[d] = u[0] + (d - 0) * RowHeight
      <3> HIDE DEF u, m
      <3>1. Tops(w)[d] = Tops(w)[0] + (d - 0) * RowHeight
        BY <2>1, <2>2, Flat DEF m
      <3> QED
        BY <3>1 DEF u
    <2> QED
      BY <1>2, <1>3, <2>3
  <1> HIDE DEF t, u, n, m
  <1>5. 0 \in S
    BY <1>1, <1>3, <1>4
  <1>6. ASSUME NEW i \in 0..(j - 1), i \in S PROVE i + 1 \in S
    <2>1. i \in 0..(n - 1) /\ d + i \in 0..(m - 1) /\ i + 1 \in 0..j /\ d + (i + 1) = (d + i) + 1
      BY <1>3 DEF n, m
    <2>2. Extra(w, d + i) = Extra(v, i)
      <3>1. w.first + (d + i) = v.first + i
        BY <1>3, <2>1
      <3> QED
        BY <3>1 DEF Extra
    <2>3. u[d + i] = d * RowHeight + t[i] /\ t[i] \in Nat /\ Extra(v, i) \in Nat
      <3>1. Extra(v, i) \in Nat
        BY DEF Extra, Drawable
      <3>2. i \in 0..n /\ u[d + i] = d * RowHeight + t[i]
        BY <1>3, <1>6, <2>1
      <3> QED
        BY <1>1, <3>1, <3>2
    <2>4. u[(d + i) + 1] = u[d + i] + RowHeight + Extra(w, d + i)
      BY <1>2, <2>1
    <2>5. t[i + 1] = t[i] + RowHeight + Extra(v, i)
      BY <1>1, <2>1
    <2>6. u[d + (i + 1)] = d * RowHeight + t[i + 1]
      BY <1>3, <2>1, <2>2, <2>3, <2>4, <2>5
    <2> QED
      BY <2>1, <2>6
  <1>7. j \in S
    <2> HIDE DEF S
    <2>1. 0..j \subseteq S
      BY <1>5, <1>6, UpTo
    <2> QED
      BY <2>1
  <1> QED
    BY <1>7 DEF t, u

\* The same lines with the same expansions are as high.
LEMMA SameHeight ==
  ASSUME NEW v, Drawable(v), NEW w, Drawable(w),
         w.expanded = v.expanded, w.first = v.first, w.count = v.count
  PROVE  totalHeight(w) = totalHeight(v)
  <1>1. v.count \in 0..v.count /\ 0 + v.count = v.count /\ w.first + 0 = v.first
    BY DEF Drawable
  <1>2. Tops(w)[0 + v.count] = 0 * RowHeight + Tops(v)[v.count]
    BY <1>1, Shifted
  <1>3. RowHeight \in Nat /\ Tops(v)[v.count] \in Nat
    <2>1. Tops(v) \in [0..v.count -> Nat]
      BY TopsAre
    <2> QED
      BY <1>1, <2>1, ViewerAssumption
  <1>4. Tops(w)[w.count] = Tops(v)[v.count]
    BY <1>1, <1>2, <1>3
  <1> QED
    BY <1>4, PlacedByRows

-----------------------------------------------------------------------------
(* The scroll box.                                                          *)

\* An element and what is drawn in it.
View(v) ==
  /\ v \in [top : Nat, height : Nat, event : BOOLEAN, scrollTop : Nat, last : Nat,
            hasScrolled : BOOLEAN, stick : BOOLEAN, expanded : {v.expanded}, follow : BOOLEAN,
            first : Int, count : Nat, gen : Nat, due : BOOLEAN]
  /\ \A seq \in DOMAIN v.expanded : v.expanded[seq] \in Nat

\* How far a box of this height scrolls over rows of that height.
Room(total, height) == IF total > height THEN total - height ELSE 0

\* How far a view scrolls, and what it is to be at the tail.
LEMMA BoxIs ==
  ASSUME NEW v, View(v)
  PROVE  /\ Drawable(v) /\ totalHeight(v) \in Nat /\ MaxTop(v) \in Nat
         /\ MaxTop(v) = Room(totalHeight(v), v.height) /\ MaxTop(v) <= totalHeight(v)
         /\ AtTail(v) <=> MaxTop(v) - v.top <= StickThreshold
         /\ scrollHeight(v) \in Nat /\ scrollHeight(v) >= MaxTop(v)
  <1>1. Drawable(v) /\ v.height \in Nat /\ v.top \in Nat /\ v.count \in Nat
    BY DEF View, Drawable
  <1>2. totalHeight(v) \in Nat
    <2>1. Tops(v) \in [0..v.count -> Nat] /\ v.count \in 0..v.count
      BY <1>1, TopsAre
    <2> QED
      BY <1>1, <2>1, PlacedByRows
  <1>3. scrollHeight(v) = IF totalHeight(v) >= v.height THEN totalHeight(v) ELSE v.height
    <2> DEFINE total == totalHeight(v)
    <2>1. total \in Int /\ v.height \in Int
      BY <1>1, <1>2
    <2> HIDE DEF total
    <2>2. Max({total, v.height}) = IF total >= v.height THEN total ELSE v.height
      BY <2>1, MaxOf
    <2> QED
      BY <2>2 DEF scrollHeight, total
  <1>4. StickThreshold \in Nat
    BY ViewerAssumption
  <1> QED
    BY <1>1, <1>2, <1>3, <1>4 DEF MaxTop, Room, AtTail

\* What is in sight is mounted once the component knows where the box is, and
\* every row is put where those above it end.
LEMMA Covered ==
  ASSUME View(view), ~view.event => view.scrollTop = view.top
  PROVE  WindowCovered
  <1> SUFFICES ASSUME ~view.event, NEW seq \in view.first..(view.first + view.count - 1)
               PROVE  /\ topOf(view, seq - view.first) = RowStart(view, seq)
                      /\ RowStart(view, seq) < view.top + view.height /\ RowEnd(view, seq) > view.top =>
                           seq \in Shown
    BY DEF WindowCovered
  <1> DEFINE i == seq - view.first
             n == view.count
             t == Tops(view)
             a == indexAt(view, view.scrollTop)
             b == indexAt(view, view.scrollTop + view.height)
  <1>1. /\ Drawable(view) /\ n \in Nat /\ view.first \in Int /\ view.top \in Nat /\ view.height \in Nat
        /\ view.scrollTop = view.top
    BY BoxIs DEF View
  <1>2. i \in 0..(n - 1) /\ i \in 0..n /\ view.first + i = seq
    BY <1>1
  <1>3. topOf(view, i) = t[i]
    BY <1>1, <1>2, PlacedByRows
  <1>4. t[i] \in Nat /\ t[i + 1] \in Nat
    <2>1. t \in [0..n -> Nat] /\ i + 1 \in 0..n
      BY <1>1, <1>2, TopsAre
    <2> QED
      BY <1>2, <2>1
  <1>5. DrawnAt(view, view.top, a)
    BY <1>1, IndexAtIs
  <1>6. DrawnAt(view, view.top + view.height, b)
    <2>1. view.scrollTop + view.height \in Nat /\ view.scrollTop + view.height = view.top + view.height
      BY <1>1
    <2> QED
      BY <1>1, <2>1, IndexAtIs
  <1> HIDE DEF a, b
  <1>7. Overscan \in Nat
    BY ViewerAssumption
  <1>8. firstVisible(view) = IF 0 >= a - Overscan THEN 0 ELSE a - Overscan
    <2>1. a - Overscan \in Int /\ 0 \in Int
      BY <1>5, <1>7 DEF DrawnAt
    <2>2. Max({0, a - Overscan}) = IF 0 >= a - Overscan THEN 0 ELSE a - Overscan
      BY <2>1, MaxOf
    <2> QED
      BY <2>2 DEF firstVisible, a
  <1>9. lastVisible(view) = IF n - 1 <= b + Overscan THEN n - 1 ELSE b + Overscan
    <2>1. n - 1 \in Int /\ b + Overscan \in Int
      BY <1>1, <1>6, <1>7 DEF DrawnAt
    <2> HIDE DEF n
    <2>2. Min({n - 1, b + Overscan}) = IF n - 1 <= b + Overscan THEN n - 1 ELSE b + Overscan
      BY <2>1, MinOf
    <2> QED
      BY <2>2 DEF lastVisible, b, n
  <1>10. ASSUME t[i] < view.top + view.height, t[i + 1] > view.top
         PROVE  seq \in Shown
    <2>1. a \in Nat /\ b \in Nat /\ ~(i < a) /\ ~(i > b)
      <3>1. a \in Nat /\ \A k \in 0..(n - 1) : k < a => t[k + 1] <= view.top
        BY <1>5 DEF DrawnAt
      <3>2. b \in Nat /\ \A k \in 0..(n - 1) : k > b => t[k] > view.top + view.height
        BY <1>6 DEF DrawnAt
      <3> HIDE DEF t, i, n
      <3> QED
        BY <1>1, <1>2, <1>4, <1>10, <3>1, <3>2
    <2> HIDE DEF t, i, n
    <2>2. i \in firstVisible(view)..lastVisible(view)
      BY <1>1, <1>2, <1>7, <1>8, <1>9, <2>1
    <2>3. i \in Mounted(view)
      BY <2>2 DEF Mounted
    <2> QED
      BY <1>2, <2>3 DEF Shown
  <1> QED
    BY <1>3, <1>10 DEF RowStart, RowEnd

\* Everything but where the box is, and whether it tells.
Moved(v, w) ==
  /\ View(w)
  /\ w.height = v.height /\ w.last = v.last /\ w.hasScrolled = v.hasScrolled
  /\ w.stick = v.stick /\ w.expanded = v.expanded /\ w.follow = v.follow
  /\ w.first = v.first /\ w.count = v.count /\ w.gen = v.gen /\ w.due = v.due
  /\ totalHeight(w) = totalHeight(v) /\ MaxTop(w) = MaxTop(v)

\* That much decides how far it scrolls.
LEMMA MovedIs ==
  ASSUME NEW v, View(v), NEW w, View(w), w.height = v.height, w.last = v.last,
         w.hasScrolled = v.hasScrolled, w.stick = v.stick, w.expanded = v.expanded,
         w.follow = v.follow, w.first = v.first, w.count = v.count, w.gen = v.gen, w.due = v.due
  PROVE  Moved(v, w)
  <1>1. totalHeight(w) = totalHeight(v)
    BY BoxIs, SameHeight
  <1>2. MaxTop(w) = MaxTop(v)
    BY <1>1, BoxIs
  <1> QED
    BY <1>1, <1>2 DEF Moved

\* The browser keeps the box in range, and is about to tell if it moved it.
LEMMA ScrollToIs ==
  ASSUME NEW v, View(v), NEW top \in Int
  PROVE  LET w == ScrollTo(v, top)
         IN  /\ Moved(v, w) /\ w.scrollTop = v.scrollTop /\ w.top \in 0..MaxTop(v)
             /\ top \in 0..MaxTop(v) => w.top = top
             /\ top >= MaxTop(v) => w.top = MaxTop(v)
             /\ ~w.event => ~v.event /\ w.top = v.top
  <1> DEFINE m == MaxTop(v)
             least == Min({top, m})
             to == Max({0, least})
             w == [v EXCEPT !.top = to, !.event = @ \/ to # v.top]
  <1>1. m \in Nat
    BY BoxIs
  <1> HIDE DEF m
  <1>2. least = IF top <= m THEN top ELSE m
    BY <1>1, MinOf
  <1>3. to = IF 0 >= least THEN 0 ELSE least
    <2>1. least \in Int /\ 0 \in Int
      BY <1>1, <1>2
    <2> HIDE DEF least
    <2> QED
      BY <2>1, MaxOf
  <1>4. to \in 0..m /\ (top \in 0..m => to = top) /\ (top >= m => to = m)
    <2> HIDE DEF to, least
    <2> QED
      BY <1>1, <1>2, <1>3
  <1> HIDE DEF to
  <1>5. View(w) /\ w.top = to /\ w.event = (v.event \/ to # v.top) /\ w.scrollTop = v.scrollTop
    <2>1. to \in Nat /\ v.top \in Nat /\ v.event \in BOOLEAN /\ (v.event \/ to # v.top) \in BOOLEAN
      BY <1>1, <1>4 DEF View
    <2> QED
      BY <2>1 DEF View
  <1>6. /\ w.height = v.height /\ w.last = v.last /\ w.hasScrolled = v.hasScrolled
        /\ w.stick = v.stick /\ w.expanded = v.expanded /\ w.follow = v.follow
        /\ w.first = v.first /\ w.count = v.count /\ w.gen = v.gen /\ w.due = v.due
    BY DEF View
  <1> HIDE DEF w
  <1>7. Moved(v, w)
    BY <1>5, <1>6, MovedIs
  <1>8. ScrollTo(v, top) = w
    BY DEF ScrollTo, w, to, least, m
  <1> QED
    BY <1>4, <1>5, <1>7, <1>8 DEF m

\* A log to be drawn.
Log(log) == log.first \in Int /\ log.count \in Nat /\ log.gen \in Nat

\* What a commit leaves alone.
Committed(v, log, c) ==
  /\ View(c)
  /\ c.height = v.height /\ c.last = v.last /\ c.hasScrolled = v.hasScrolled
  /\ c.stick = v.stick /\ c.expanded = v.expanded /\ c.follow = v.follow /\ c.due = v.due
  /\ c.first = log.first /\ c.count = log.count /\ c.gen = log.gen

\* A commit leaves the box in range, and tells if it moved it. A view that
\* follows is at the tail, if the commit is to pin it; one that does not has its
\* place held where the box can be scrolled to.
LEMMA CommitIs ==
  ASSUME NEW v, View(v), NEW log, Log(log), NEW changed \in BOOLEAN
  PROVE  LET c == Commit(v, log, changed)
             place == v.top + (v.first - log.first) * RowHeight
         IN  /\ Committed(v, log, c) /\ c.top \in 0..MaxTop(c)
             /\ ~c.event => /\ ~v.event /\ c.top = v.top
                            /\ v.scrollTop = v.top => c.scrollTop = c.top
             /\ v.follow /\ v.stick /\ (changed \/ totalHeight(c) # totalHeight(view)) =>
                  c.top = MaxTop(c)
             /\ ~(v.follow /\ v.stick) /\ v.top <= MaxTop(c) /\ place \in 0..MaxTop(c) =>
                  c.top = place
             /\ (/\ v.first = log.first /\ v.top <= MaxTop(c)
                 /\ ~(v.follow /\ v.stick /\ (changed \/ totalHeight(c) # totalHeight(view)))) =>
                  c.top = v.top
  <1> DEFINE sized == [v EXCEPT !.first = log.first, !.count = log.count, !.gen = log.gen]
             ranged == ScrollTo(sized, v.top)
             shift == v.first - log.first
             place == v.top + shift * RowHeight
             moved == ScrollTo(ranged, ranged.top + shift * RowHeight)
             held1 == [moved EXCEPT !.scrollTop = moved.top]
             placed == HoldPlace(ranged, shift)
             pinned == pinToBottom(placed)
             pinned1 == [pinned EXCEPT !.scrollTop = pinned.top]
             pins == v.follow /\ v.stick /\ (changed \/ totalHeight(placed) # totalHeight(view))
             c == Commit(v, log, changed)
  <1>1. c = IF pins THEN pinned1 ELSE placed
    BY DEF Commit
  <1>2. /\ v.top \in Nat /\ v.first \in Int /\ RowHeight \in Nat /\ shift \in Int
        /\ shift * RowHeight \in Int /\ v.event \in BOOLEAN
    <2>1. v.top \in Nat /\ v.first \in Int /\ v.event \in BOOLEAN /\ RowHeight \in Nat /\ shift \in Int
      BY ViewerAssumption DEF View, Log
    <2> HIDE DEF shift
    <2> QED
      BY <2>1
  <1>3. View(sized) /\ Committed(v, log, sized) /\ sized.top = v.top
        /\ sized.event = v.event /\ sized.scrollTop = v.scrollTop
    <2>1. View(sized)
      BY DEF View, Log
    <2>2. /\ sized.height = v.height /\ sized.last = v.last /\ sized.hasScrolled = v.hasScrolled
          /\ sized.stick = v.stick /\ sized.expanded = v.expanded /\ sized.follow = v.follow
          /\ sized.due = v.due /\ sized.first = log.first /\ sized.count = log.count
          /\ sized.gen = log.gen /\ sized.top = v.top
          /\ sized.event = v.event /\ sized.scrollTop = v.scrollTop
      BY DEF View
    <2> HIDE DEF sized
    <2> QED
      BY <2>1, <2>2 DEF Committed
  <1> DEFINE m == MaxTop(sized)
             On(w) == Moved(sized, w) /\ w.top \in 0..m /\ (~w.event => ~v.event /\ w.top = v.top)
  <1> HIDE DEF sized
  <1>4. /\ On(ranged) /\ ranged.scrollTop = v.scrollTop /\ ranged.top \in Nat
        /\ v.top <= m => ranged.top = v.top
    <2>1. m \in Nat
      BY <1>3, BoxIs
    <2> HIDE DEF m
    <2>2. /\ Moved(sized, ranged) /\ ranged.scrollTop = v.scrollTop /\ ranged.top \in 0..m
          /\ v.top \in 0..m => ranged.top = v.top
          /\ ~ranged.event => ~v.event /\ ranged.top = v.top
      BY <1>2, <1>3, ScrollToIs DEF m
    <2> HIDE DEF ranged
    <2> QED
      BY <1>2, <2>1, <2>2
  <1> HIDE DEF ranged
  <1>5. /\ On(held1) /\ held1.scrollTop = held1.top
        /\ ranged.top + shift * RowHeight \in 0..m => held1.top = ranged.top + shift * RowHeight
    <2>1. ranged.top + shift * RowHeight \in Int /\ View(ranged)
      BY <1>2, <1>4 DEF Moved
    <2> DEFINE to == ranged.top + shift * RowHeight
    <2> HIDE DEF to
    <2>2. /\ Moved(ranged, moved) /\ moved.top \in 0..m
          /\ to \in 0..m => moved.top = to
          /\ ~moved.event => ~ranged.event /\ moved.top = ranged.top
      <3>1. MaxTop(ranged) = m
        BY <1>4 DEF Moved
      <3> QED
        BY <2>1, <3>1, ScrollToIs DEF to
    <2> HIDE DEF moved
    <2>3. /\ View(held1) /\ held1.top = moved.top /\ held1.event = moved.event
          /\ held1.scrollTop = moved.top
          /\ held1.height = moved.height /\ held1.last = moved.last
          /\ held1.hasScrolled = moved.hasScrolled /\ held1.stick = moved.stick
          /\ held1.expanded = moved.expanded /\ held1.follow = moved.follow
          /\ held1.first = moved.first /\ held1.count = moved.count /\ held1.gen = moved.gen
          /\ held1.due = moved.due
      BY <2>2 DEF Moved, View
    <2> HIDE DEF held1
    <2>4. Moved(moved, held1)
      BY <2>2, <2>3, MovedIs DEF Moved
    <2>5. Moved(sized, held1)
      BY <1>4, <2>2, <2>4 DEF Moved
    <2> QED
      BY <1>4, <2>2, <2>3, <2>5 DEF to
  <1> HIDE DEF held1
  <1>6. placed = IF shift = 0 THEN ranged ELSE held1
    BY DEF HoldPlace, held1, moved
  <1> HIDE DEF placed
  <1>7. /\ On(placed) /\ (~placed.event /\ v.scrollTop = v.top => placed.scrollTop = placed.top)
        /\ v.top <= m /\ place \in 0..m => placed.top = place
        /\ shift = 0 /\ v.top <= m => placed.top = v.top
    <2>1. CASE shift = 0
      <3>1. place = v.top
        BY <1>2, <2>1
      <3> QED
        BY <1>4, <1>6, <2>1, <3>1
    <2>2. CASE shift # 0
      <3> HIDE DEF shift
      <3> QED
        BY <1>4, <1>5, <1>6, <2>2
    <2> QED
      BY <2>1, <2>2
  <1>8. On(pinned1) /\ pinned1.scrollTop = pinned1.top /\ pinned1.top = m
    <2>1. View(placed) /\ MaxTop(placed) = m
      BY <1>7 DEF Moved
    <2>2. scrollHeight(placed) \in Nat /\ scrollHeight(placed) >= m
      BY <2>1, BoxIs
    <2>3. /\ Moved(placed, pinned) /\ pinned.top = m
          /\ ~pinned.event => ~placed.event /\ pinned.top = placed.top
      <3> HIDE DEF m
      <3> QED
        BY <2>1, <2>2, ScrollToIs DEF pinToBottom
    <2> HIDE DEF pinned
    <2>4. /\ View(pinned1) /\ pinned1.top = pinned.top /\ pinned1.event = pinned.event
          /\ pinned1.scrollTop = pinned.top
          /\ pinned1.height = pinned.height /\ pinned1.last = pinned.last
          /\ pinned1.hasScrolled = pinned.hasScrolled /\ pinned1.stick = pinned.stick
          /\ pinned1.expanded = pinned.expanded /\ pinned1.follow = pinned.follow
          /\ pinned1.first = pinned.first /\ pinned1.count = pinned.count
          /\ pinned1.gen = pinned.gen /\ pinned1.due = pinned.due
      BY <2>3 DEF Moved, View
    <2> HIDE DEF pinned1
    <2>5. Moved(pinned, pinned1)
      BY <2>3, <2>4, MovedIs DEF Moved
    <2>6. Moved(sized, pinned1)
      BY <1>7, <2>3, <2>5 DEF Moved
    <2>7. m \in Nat
      BY <1>3, BoxIs
    <2> HIDE DEF m
    <2> QED
      BY <1>7, <2>3, <2>4, <2>6, <2>7
  <1> HIDE DEF pinned1
  <1>9. /\ On(c) /\ (~c.event /\ v.scrollTop = v.top => c.scrollTop = c.top)
        /\ totalHeight(c) = totalHeight(placed) /\ MaxTop(c) = m
    <2>1. On(c) /\ (~c.event /\ v.scrollTop = v.top => c.scrollTop = c.top)
      <3> HIDE DEF pins, m, c
      <3> QED
        BY <1>1, <1>7, <1>8
    <2> HIDE DEF c
    <2> QED
      BY <1>7, <2>1 DEF Moved
  <1>10. Committed(v, log, c)
    <2> HIDE DEF c
    <2> QED
      BY <1>3, <1>9 DEF Committed, Moved
  <1>11. pins => c.top = m
    BY <1>1, <1>8
  <1>12. ~pins => c = placed
    BY <1>1
  <1>13. pins <=> (v.follow /\ v.stick /\ (changed \/ totalHeight(c) # totalHeight(view)))
    BY <1>9
  <1>14. (v.first = log.first) <=> (shift = 0)
    <2>1. v.first \in Int /\ log.first \in Int
      BY <1>2 DEF Log
    <2> QED
      BY <2>1
  <1> HIDE DEF c, pins, shift
  <1>15. /\ Committed(v, log, c) /\ c.top \in 0..MaxTop(c)
         /\ ~c.event => /\ ~v.event /\ c.top = v.top
                        /\ v.scrollTop = v.top => c.scrollTop = c.top
         /\ v.follow /\ v.stick /\ (changed \/ totalHeight(c) # totalHeight(view)) =>
              c.top = MaxTop(c)
         /\ ~(v.follow /\ v.stick) /\ v.top <= MaxTop(c) /\ place \in 0..MaxTop(c) =>
              c.top = place
         /\ (/\ v.first = log.first /\ v.top <= MaxTop(c)
             /\ ~(v.follow /\ v.stick /\ (changed \/ totalHeight(c) # totalHeight(view)))) =>
              c.top = v.top
    BY <1>7, <1>9, <1>10, <1>11, <1>12, <1>13, <1>14
  <1> QED
    BY <1>15 DEF c, shift

\* The same rows in a box of the same height.
LEMMA SameBox ==
  ASSUME NEW v, View(v), NEW w, View(w), w.height = v.height, w.expanded = v.expanded,
         w.first = v.first, w.count = v.count
  PROVE  totalHeight(w) = totalHeight(v) /\ MaxTop(w) = MaxTop(v)
  BY BoxIs, SameHeight

\* A commit that pins a view to the tail, or changes nothing in front of a view
\* that is there, leaves it there.
LEMMA AtTailAfter ==
  ASSUME NEW v, View(v), NEW log, Log(log), NEW changed \in BOOLEAN, v.follow, v.stick,
         changed \/ (/\ log.first = v.first /\ v.top <= Room(totalHeight(view), v.height)
                     /\ Room(totalHeight(view), v.height) - v.top <= StickThreshold)
  PROVE  AtTail(Commit(v, log, changed))
  <1> DEFINE c == Commit(v, log, changed)
  <1>1. /\ Committed(v, log, c)
        /\ (changed \/ totalHeight(c) # totalHeight(view)) => c.top = MaxTop(c)
        /\ (v.first = log.first /\ v.top <= MaxTop(c) /\ ~(changed \/ totalHeight(c) # totalHeight(view))) =>
             c.top = v.top
    BY CommitIs
  <1> HIDE DEF c
  <1>2. View(c) /\ c.height = v.height
    BY <1>1 DEF Committed
  <1>3. /\ MaxTop(c) \in Nat /\ MaxTop(c) = Room(totalHeight(c), v.height)
        /\ AtTail(c) <=> MaxTop(c) - c.top <= StickThreshold
    BY <1>2, BoxIs
  <1>4. StickThreshold \in Nat
    BY ViewerAssumption
  <1>5. AtTail(c)
    <2>1. CASE changed \/ totalHeight(c) # totalHeight(view)
      BY <1>1, <1>3, <1>4, <2>1
    <2>2. CASE ~(changed \/ totalHeight(c) # totalHeight(view))
      BY <1>1, <1>3, <2>2
    <2> QED
      BY <2>1, <2>2
  <1> QED
    BY <1>5 DEF c

-----------------------------------------------------------------------------
(* The view.                                                                *)

\* Unless an event is on its way, the component knows where the box is.
Told(v) == ~v.event => v.scrollTop = v.top /\ v.last = v.top

InBox(v) == View(v) /\ Told(v) /\ v.top \in 0..MaxTop(v)

\* Unless a frame is due, the rows drawn are those of the buffer.
Rendered == ~view.due => view.first = held.first /\ view.count = held.count

AtNewest == (view.follow /\ ~readerUp /\ ~slipped) => (view.stick /\ AtTail(view))

CatchesUp == (view.follow /\ view.stick /\ slipped) => view.due

ViewerInv ==
  /\ held \in [first : Int, count : Nat, gen : Nat]
  /\ readerUp \in BOOLEAN /\ slipped \in BOOLEAN
  /\ InBox(view) /\ Rendered /\ AtNewest /\ CatchesUp

\* A commit keeps what the component knows of the box.
LEMMA InBoxAfter ==
  ASSUME NEW v, View(v), Told(v), NEW log, Log(log), NEW changed \in BOOLEAN
  PROVE  InBox(Commit(v, log, changed))
  <1> DEFINE c == Commit(v, log, changed)
  <1>1. /\ Committed(v, log, c) /\ c.top \in 0..MaxTop(c)
        /\ ~c.event => /\ ~v.event /\ c.top = v.top
                       /\ v.scrollTop = v.top => c.scrollTop = c.top
    BY CommitIs
  <1> HIDE DEF c
  <1>2. Told(c)
    BY <1>1 DEF Told, Committed
  <1> QED
    BY <1>1, <1>2 DEF InBox, Committed, c

\* What slips has not been at the tail, and is drawn again.
LEMMA TailAgain ==
  ASSUME ViewerInv, slipped' = Slips,
         (view.follow /\ view'.follow /\ ~readerUp' /\ ~slipped /\ (view'.stick => view'.first = view.first)) =>
           (view'.stick /\ AtTail(view')),
         (view'.follow /\ view'.stick) =>
           (AtTail(view') \/ view'.due \/ (view'.first = view.first /\ ~slipped /\ view.follow))
  PROVE  AtNewest' /\ CatchesUp' /\ slipped' \in BOOLEAN
  BY DEF Slips, AtNewest, CatchesUp

\* An empty view is at its tail.
LEMMA InitInv == ViewerInit => ViewerInv
  <1> SUFFICES ASSUME ViewerInit PROVE ViewerInv
    OBVIOUS
  <1>1. /\ view.top = 0 /\ ~view.event /\ view.scrollTop = 0 /\ view.last = 0 /\ view.expanded = <<>>
        /\ view.first = 0 /\ view.count = 0 /\ view.stick /\ view.follow /\ ~readerUp /\ ~slipped
        /\ held = [first |-> 0, count |-> 0, gen |-> 0] /\ readerUp \in BOOLEAN /\ slipped \in BOOLEAN
    BY DEF ViewerInit, Empty
  <1>2. View(view)
    <2>1. /\ view \in [top : {0}, height : ViewHeights, event : {FALSE}, scrollTop : {0}, last : {0},
                       hasScrolled : {FALSE}, stick : {TRUE}, expanded : {<<>>}, follow : {TRUE},
                       first : {0}, count : {0}, gen : {0}, due : {FALSE}]
          /\ ViewHeights \subseteq Nat
      BY ViewerAssumption DEF ViewerInit
    <2>2. view \in [top : Nat, height : Nat, event : BOOLEAN, scrollTop : Nat, last : Nat,
                    hasScrolled : BOOLEAN, stick : BOOLEAN, expanded : {<<>>}, follow : BOOLEAN,
                    first : Int, count : Nat, gen : Nat, due : BOOLEAN]
      <3>1. PICK h \in Nat :
              view = [top |-> 0, height |-> h, event |-> FALSE, scrollTop |-> 0, last |-> 0,
                      hasScrolled |-> FALSE, stick |-> TRUE, expanded |-> <<>>, follow |-> TRUE,
                      first |-> 0, count |-> 0, gen |-> 0, due |-> FALSE]
        BY <2>1
      <3> QED
        BY <3>1
    <2>3. view.expanded = <<>> /\ \A seq \in DOMAIN view.expanded : view.expanded[seq] \in Nat
      BY <1>1
    <2> QED
      BY <2>2, <2>3 DEF View
  <1>3. MaxTop(view) = 0 /\ AtTail(view)
    <2>1. totalHeight(view) = 0
      <3>1. Tops(view)[view.count] = 0
        BY <1>1, <1>2, TopsAre, BoxIs
      <3> QED
        BY <1>2, <3>1, BoxIs, PlacedByRows
    <2>2. view.height \in Nat /\ StickThreshold \in Nat
      BY <1>2, ViewerAssumption DEF View
    <2>3. MaxTop(view) = 0
      BY <1>2, <2>1, <2>2, BoxIs DEF Room
    <2> QED
      BY <1>1, <1>2, <2>2, <2>3, BoxIs
  <1>4. InBox(view) /\ Rendered
    BY <1>1, <1>2, <1>3 DEF InBox, Told, Rendered
  <1> QED
    BY <1>1, <1>3, <1>4 DEF ViewerInv, AtNewest, CatchesUp

\* Lines in the buffer are drawn by the next frame.
LEMMA LinesArriveInv ==
  ASSUME ViewerInv, NEW n \in Nat, LinesArrive(n), slipped' = Slips
  PROVE  ViewerInv'
  <1>1. View(view) /\ Told(view) /\ view.top \in 0..MaxTop(view)
        /\ held.first \in Int /\ held.count \in Nat /\ held.gen \in Nat
    BY DEF ViewerInv, InBox
  <1>2. /\ View(view') /\ view'.due /\ view'.top = view.top /\ view'.event = view.event
        /\ view'.scrollTop = view.scrollTop /\ view'.last = view.last /\ view'.height = view.height
        /\ view'.expanded = view.expanded /\ view'.first = view.first /\ view'.count = view.count
        /\ view'.follow = view.follow /\ view'.stick = view.stick
    BY <1>1 DEF LinesArrive, View
  <1>3. MaxTop(view') = MaxTop(view)
    BY <1>1, <1>2, SameBox
  <1>4. InBox(view') /\ Rendered'
    BY <1>1, <1>2, <1>3 DEF InBox, Told, Rendered
  <1>5. held' \in [first : Int, count : Nat, gen : Nat]
    <2> DEFINE count == held.count + n
               excess == Max({0, count - RetainedLines})
    <2>1. count \in Nat /\ RetainedLines \in Nat
      BY <1>1, ViewerAssumption
    <2>2. held' = [held EXCEPT !.first = @ + excess, !.count = count - excess]
      BY DEF LinesArrive
    <2> HIDE DEF count
    <2>3. excess = IF 0 >= count - RetainedLines THEN 0 ELSE count - RetainedLines
      BY <2>1, MaxOf
    <2> HIDE DEF excess
    <2>4. excess \in Int /\ count - excess \in Nat
      BY <2>1, <2>3
    <2>5. held \in [first : Int, count : Nat, gen : Nat] /\ held.first + excess \in Int
      BY <1>1, <2>4 DEF ViewerInv
    <2> QED
      BY <2>2, <2>4, <2>5
  <1>6. readerUp' \in BOOLEAN /\ readerUp' = readerUp
    BY DEF LinesArrive, ViewerInv
  <1>7. AtTail(view) => AtTail(view')
    BY <1>1, <1>2, <1>3, BoxIs
  <1>8. AtNewest' /\ CatchesUp' /\ slipped' \in BOOLEAN
    BY <1>2, <1>6, <1>7, TailAgain DEF ViewerInv, AtNewest
  <1> QED
    BY <1>4, <1>5, <1>6, <1>8 DEF ViewerInv

\* A frame draws the buffer, and is at the tail if the log is followed.
LEMMA FrameInv ==
  ASSUME ViewerInv, Frame, slipped' = Slips
  PROVE  ViewerInv'
  <1> DEFINE v == [view EXCEPT !.due = FALSE]
  <1>1. View(view) /\ Told(view) /\ Log(held)
    BY DEF ViewerInv, InBox, Log
  <1>2. view' = Commit(v, held, TRUE) /\ UNCHANGED <<held, readerUp>>
    BY DEF Frame
  <1>3. View(v) /\ v.event = view.event /\ v.top = view.top /\ v.scrollTop = view.scrollTop
        /\ v.last = view.last /\ v.follow = view.follow /\ v.stick = view.stick
    BY <1>1 DEF View
  <1> HIDE DEF v
  <1>4. InBox(view') /\ Committed(v, held, view')
    <2>1. Told(v)
      BY <1>1, <1>3 DEF Told
    <2> QED
      BY <1>1, <1>2, <1>3, <2>1, InBoxAfter, CommitIs
  <1>5. (view'.follow /\ view'.stick) => AtTail(view')
    BY <1>1, <1>2, <1>3, <1>4, AtTailAfter DEF Committed
  <1>6. AtNewest' /\ CatchesUp' /\ slipped' \in BOOLEAN
    BY <1>2, <1>3, <1>4, <1>5, TailAgain DEF ViewerInv, AtNewest, Committed
  <1> QED
    BY <1>2, <1>4, <1>6 DEF ViewerInv, Rendered, Committed

\* A page comes in front, and a view that follows is pinned again.
LEMMA PageArrivesInv ==
  ASSUME ViewerInv, NEW n \in Nat, PageArrives(n), slipped' = Slips
  PROVE  ViewerInv'
  <1>1. View(view) /\ Told(view) /\ view.top \in 0..MaxTop(view)
    BY DEF ViewerInv, InBox
  <1>2. /\ view' = Commit(view, held', n > 0) /\ readerUp' = readerUp /\ (n > 0) \in BOOLEAN
        /\ held' = [held EXCEPT !.first = @ - n, !.count = @ + n]
    BY DEF PageArrives
  <1>3. /\ held' \in [first : Int, count : Nat, gen : Nat] /\ Log(held')
        /\ n = 0 => held'.first = held.first
    <2>1. held \in [first : Int, count : Nat, gen : Nat]
      BY DEF ViewerInv
    <2>2. /\ held' = [first |-> held.first - n, count |-> held.count + n, gen |-> held.gen]
          /\ held.first \in Int /\ held.count \in Nat /\ held.gen \in Nat
      BY <1>2, <2>1
    <2> QED
      BY <2>2 DEF Log
  <1>4. InBox(view') /\ Committed(view, held', view')
    BY <1>1, <1>2, <1>3, InBoxAfter, CommitIs
  <1>5. (view.follow /\ view.stick /\ n > 0) => AtTail(view')
    BY <1>1, <1>2, <1>3, AtTailAfter
  <1>6. (view.follow /\ view.stick /\ AtTail(view) /\ view'.first = view.first) => AtTail(view')
    <2>1. /\ AtTail(view) => Room(totalHeight(view), view.height) - view.top <= StickThreshold
          /\ view.top <= Room(totalHeight(view), view.height)
      BY <1>1, BoxIs
    <2>2. view'.first = held'.first
      BY <1>4 DEF Committed
    <2> QED
      BY <1>1, <1>2, <1>3, <2>1, <2>2, AtTailAfter
  <1>7. AtNewest' /\ CatchesUp' /\ slipped' \in BOOLEAN
    <2>1. n = 0 \/ n > 0
      OBVIOUS
    <2> QED
      BY <1>2, <1>3, <1>4, <1>5, <1>6, <2>1, TailAgain
         DEF ViewerInv, AtNewest, CatchesUp, Rendered, Committed
  <1> QED
    BY <1>2, <1>3, <1>4, <1>7 DEF ViewerInv, Rendered, Committed

\* Another log is drawn by the next frame.
LEMMA RestartInv ==
  ASSUME ViewerInv, NEW paging, Restart(paging), slipped' = Slips
  PROVE  ViewerInv'
  <1> DEFINE c == Commit(view, held, TRUE)
  <1>1. View(view) /\ Told(view) /\ Log(held)
    BY DEF ViewerInv, InBox, Log
  <1>2. /\ view' = [c EXCEPT !.due = TRUE] /\ readerUp' = readerUp
        /\ held' = [first |-> 0, count |-> 0, gen |-> held.gen + 1]
    BY DEF Restart, Empty
  <1>3. InBox(c) /\ Committed(view, held, c)
    BY <1>1, InBoxAfter, CommitIs
  <1>4. (view.follow /\ view.stick) => AtTail(c)
    BY <1>1, AtTailAfter
  <1> HIDE DEF c
  <1>5. /\ View(view') /\ view'.due /\ view'.top = c.top /\ view'.event = c.event
        /\ view'.scrollTop = c.scrollTop /\ view'.last = c.last /\ view'.height = c.height
        /\ view'.expanded = c.expanded /\ view'.first = c.first /\ view'.count = c.count
        /\ view'.follow = c.follow /\ view'.stick = c.stick
    BY <1>2, <1>3 DEF InBox, View
  <1>6. MaxTop(view') = MaxTop(c)
    BY <1>3, <1>5, SameBox DEF InBox
  <1>7. InBox(view') /\ (AtTail(c) => AtTail(view'))
    BY <1>3, <1>5, <1>6, BoxIs DEF InBox, Told
  <1>8. AtNewest' /\ CatchesUp' /\ slipped' \in BOOLEAN
    BY <1>2, <1>3, <1>4, <1>5, <1>7, TailAgain DEF ViewerInv, AtNewest, Committed
  <1>9. held' \in [first : Int, count : Nat, gen : Nat]
    BY <1>1, <1>2 DEF Log
  <1> QED
    BY <1>2, <1>5, <1>7, <1>8, <1>9 DEF ViewerInv, Rendered

\* So is the one that is followed from now on.
LEMMA ToggleFollowInv ==
  ASSUME ViewerInv, ToggleFollow, slipped' = Slips
  PROVE  ViewerInv'
  <1> DEFINE turned == [view EXCEPT !.follow = ~@]
             c == Commit(turned, held, TRUE)
  <1>1. View(view) /\ Told(view) /\ Log(held) /\ view.follow \in BOOLEAN
    BY DEF ViewerInv, InBox, Log, View
  <1>2. /\ view' = [c EXCEPT !.stick = @ \/ c.follow, !.due = TRUE]
        /\ readerUp' = (readerUp /\ ~c.follow)
        /\ held' = [first |-> 0, count |-> 0, gen |-> held.gen + 1]
    BY DEF ToggleFollow, Empty
  <1>3. /\ View(turned) /\ turned.event = view.event /\ turned.top = view.top
        /\ turned.scrollTop = view.scrollTop /\ turned.last = view.last /\ turned.follow = ~view.follow
    BY <1>1 DEF View
  <1> HIDE DEF turned
  <1>4. InBox(c) /\ Committed(turned, held, c)
    <2>1. Told(turned)
      BY <1>1, <1>3 DEF Told
    <2> QED
      BY <1>1, <1>3, <2>1, InBoxAfter, CommitIs
  <1> HIDE DEF c
  <1>5. /\ View(view') /\ view'.due /\ view'.top = c.top /\ view'.event = c.event
        /\ view'.scrollTop = c.scrollTop /\ view'.last = c.last /\ view'.height = c.height
        /\ view'.expanded = c.expanded /\ view'.first = c.first /\ view'.count = c.count
        /\ view'.follow = c.follow
    <2>1. View(c) /\ (c.stick \/ c.follow) \in BOOLEAN
      BY <1>4 DEF InBox, View
    <2> QED
      BY <1>2, <2>1 DEF View
  <1>6. MaxTop(view') = MaxTop(c)
    BY <1>4, <1>5, SameBox DEF InBox
  <1>7. InBox(view')
    BY <1>4, <1>5, <1>6 DEF InBox, Told
  <1>8. view'.follow = ~view.follow
    BY <1>3, <1>4, <1>5 DEF Committed
  <1>9. AtNewest' /\ CatchesUp' /\ slipped' \in BOOLEAN
    BY <1>5, <1>8, TailAgain
  <1>10. held' \in [first : Int, count : Nat, gen : Nat] /\ readerUp' \in BOOLEAN
    BY <1>1, <1>2 DEF Log
  <1> QED
    BY <1>5, <1>7, <1>9, <1>10 DEF ViewerInv, Rendered

\* The reader who has not moved up is no further from the tail.
LEMMA ReaderScrollsInv ==
  ASSUME ViewerInv, NEW top \in 0..MaxTop(view), ReaderScrolls(top), slipped' = Slips
  PROVE  ViewerInv'
  <1>1. View(view) /\ Told(view) /\ view.top \in 0..MaxTop(view) /\ MaxTop(view) \in Nat
    BY BoxIs DEF ViewerInv, InBox
  <1>2. /\ top # view.top /\ view' = ScrollTo(view, top) /\ held' = held
        /\ readerUp' = (readerUp \/ top < view.top)
    BY DEF ReaderScrolls
  <1>3. Moved(view, view') /\ view'.top = top /\ (~view'.event => view'.top = view.top)
    BY <1>1, <1>2, ScrollToIs
  <1>4. InBox(view') /\ Rendered'
    BY <1>1, <1>2, <1>3 DEF InBox, Told, Moved, Rendered, ViewerInv
  <1>5. (AtTail(view) /\ ~(top < view.top)) => AtTail(view')
    <2>1. StickThreshold \in Nat /\ View(view') /\ MaxTop(view') = MaxTop(view)
      BY <1>3, ViewerAssumption DEF Moved
    <2>2. /\ AtTail(view) => MaxTop(view) - view.top <= StickThreshold
          /\ MaxTop(view) - top <= StickThreshold => AtTail(view')
      BY <1>1, <1>3, <2>1, BoxIs
    <2> QED
      BY <1>1, <2>1, <2>2
  <1>6. AtNewest' /\ CatchesUp' /\ slipped' \in BOOLEAN
    BY <1>2, <1>3, <1>5, TailAgain DEF ViewerInv, AtNewest, CatchesUp, Moved
  <1>7. readerUp' \in BOOLEAN
    BY <1>2 DEF ViewerInv
  <1> QED
    BY <1>2, <1>4, <1>6, <1>7 DEF ViewerInv

\* What the browser tells attaches a view at the tail.
LEMMA onScrollInv ==
  ASSUME ViewerInv, onScroll, slipped' = Slips
  PROVE  ViewerInv'
  <1> DEFINE scrolled == view.hasScrolled \/ view.top < view.last
             v == [view EXCEPT !.event = FALSE, !.last = view.top, !.scrollTop = view.top,
                               !.hasScrolled = scrolled, !.stick = Sticks(view)]
  <1>1. View(view) /\ view.top \in 0..MaxTop(view) /\ Log(held) /\ readerUp \in BOOLEAN
    BY DEF ViewerInv, InBox, Log
  <1>2. /\ view' = IF v.scrollTop = view.scrollTop THEN v ELSE Commit(v, held, FALSE)
        /\ readerUp' = (readerUp /\ ~AtTail(v)) /\ held' = held
    BY DEF onScroll
  <1>3. /\ View(v) /\ ~v.event /\ v.top = view.top /\ v.last = view.top /\ v.scrollTop = view.top
        /\ v.height = view.height /\ v.expanded = view.expanded /\ v.first = view.first
        /\ v.count = view.count /\ v.follow = view.follow /\ v.due = view.due
        /\ v.stick = Sticks(view)
    <2>1. scrolled \in BOOLEAN /\ Sticks(view) \in BOOLEAN /\ view.top \in Nat
      BY <1>1 DEF View, Sticks, AtTail
    <2> HIDE DEF scrolled
    <2> QED
      BY <1>1, <2>1 DEF View
  <1> HIDE DEF v
  <1>4. MaxTop(v) = MaxTop(view) /\ (AtTail(v) <=> AtTail(view)) /\ InBox(v)
    <2>1. totalHeight(v) = totalHeight(view) /\ MaxTop(v) = MaxTop(view)
      BY <1>1, <1>3, SameBox
    <2> QED
      BY <1>1, <1>3, <2>1, BoxIs DEF InBox, Told
  <1>5. view' = v \/ (view' = Commit(v, held, FALSE) /\ Committed(v, held, view') /\ InBox(view'))
    BY <1>1, <1>2, <1>3, <1>4, InBoxAfter, CommitIs DEF InBox
  <1>6. InBox(view') /\ Rendered' /\ view'.follow = view.follow /\ view'.stick = Sticks(view)
        /\ view'.due = view.due
    BY <1>2, <1>3, <1>4, <1>5 DEF Committed, Rendered, ViewerInv
  <1>7. (view.follow /\ Sticks(view) /\ AtTail(view) /\ view'.first = view.first) => AtTail(view')
    <2>1. /\ AtTail(view) => Room(totalHeight(view), v.height) - v.top <= StickThreshold
          /\ v.top <= Room(totalHeight(view), v.height)
      BY <1>1, <1>3, BoxIs
    <2> QED
      BY <1>1, <1>3, <1>4, <1>5, <2>1, AtTailAfter DEF Committed
  <1>8. AtTail(view) => Sticks(view)
    BY DEF Sticks
  <1>9. ~view.due => view'.first = view.first
    BY <1>2, <1>3, <1>5 DEF Committed, ViewerInv, Rendered
  <1>10. Sticks(view) => view.stick \/ AtTail(view)
    BY DEF Sticks
  <1>11. AtNewest' /\ CatchesUp' /\ slipped' \in BOOLEAN
    BY <1>2, <1>4, <1>6, <1>7, <1>8, <1>9, <1>10, TailAgain DEF ViewerInv, AtNewest, CatchesUp
  <1> QED
    BY <1>1, <1>2, <1>6, <1>11 DEF ViewerInv

\* A new height is pinned before it is drawn.
LEMMA ResizeInv ==
  ASSUME ViewerInv, NEW height \in ViewHeights, Resize(height), slipped' = Slips
  PROVE  ViewerInv' /\ view'.height = height
  <1> DEFINE sized == [view EXCEPT !.height = height]
             kept == ScrollTo(sized, view.top)
             v == IF view.stick THEN pinToBottom(kept) ELSE kept
  <1>1. View(view) /\ Told(view) /\ view.top \in Nat /\ Log(held)
    BY DEF ViewerInv, InBox, View, Log
  <1>2. view' = Commit(v, held, FALSE) /\ held' = held /\ readerUp' = readerUp
    BY DEF Resize
  <1>3. /\ View(sized) /\ sized.height = height /\ sized.event = view.event /\ sized.top = view.top
        /\ sized.scrollTop = view.scrollTop /\ sized.last = view.last /\ sized.stick = view.stick
        /\ sized.expanded = view.expanded /\ sized.follow = view.follow /\ sized.first = view.first
        /\ sized.count = view.count /\ sized.due = view.due
    <2>1. height \in Nat
      BY ViewerAssumption
    <2> QED
      BY <1>1, <2>1 DEF View
  <1> HIDE DEF sized
  <1>4. /\ Moved(sized, kept) /\ kept.scrollTop = view.scrollTop /\ kept.top \in 0..MaxTop(sized)
        /\ ~kept.event => ~view.event /\ kept.top = view.top
    BY <1>1, <1>3, ScrollToIs
  <1> HIDE DEF kept
  <1>5. /\ Moved(sized, v) /\ v.scrollTop = view.scrollTop
        /\ ~v.event => ~view.event /\ v.top = view.top
        /\ v.top \in 0..MaxTop(v) /\ (view.stick => v.top = MaxTop(v))
    <2>1. CASE view.stick
      <3> DEFINE pinned == pinToBottom(kept)
      <3>1. View(kept) /\ scrollHeight(kept) \in Nat /\ scrollHeight(kept) >= MaxTop(kept)
            /\ MaxTop(kept) \in Nat
        BY <1>4, BoxIs DEF Moved
      <3>2. /\ Moved(kept, pinned) /\ pinned.scrollTop = kept.scrollTop /\ pinned.top = MaxTop(kept)
            /\ ~pinned.event => ~kept.event /\ pinned.top = kept.top
        BY <3>1, ScrollToIs DEF pinToBottom
      <3>3. v = pinned
        BY <2>1
      <3> HIDE DEF pinned, v
      <3> QED
        BY <1>4, <3>1, <3>2, <3>3 DEF Moved
    <2>2. CASE ~view.stick
      <3>1. v = kept
        BY <2>2
      <3> HIDE DEF v
      <3> QED
        BY <1>4, <2>2, <3>1 DEF Moved
    <2> QED
      BY <2>1, <2>2
  <1> HIDE DEF v
  <1>6. /\ View(v) /\ Told(v) /\ v.height = height /\ v.first = view.first /\ v.follow = view.follow
        /\ v.stick = view.stick /\ v.due = view.due /\ totalHeight(v) = totalHeight(view)
    <2>1. totalHeight(sized) = totalHeight(view)
      BY <1>1, <1>3, BoxIs, SameHeight
    <2> QED
      BY <1>1, <1>3, <1>5, <2>1 DEF Moved, Told
  <1>7. InBox(view') /\ Committed(v, held, view')
    BY <1>1, <1>2, <1>6, InBoxAfter, CommitIs
  <1>8. (view.follow /\ view.stick /\ view'.first = view.first) => AtTail(view')
    <2>1. view.stick => /\ Room(totalHeight(view), v.height) - v.top <= StickThreshold
                        /\ v.top <= Room(totalHeight(view), v.height)
      <3>1. StickThreshold \in Nat /\ MaxTop(v) \in Nat /\ MaxTop(v) = Room(totalHeight(view), v.height)
        BY <1>6, BoxIs, ViewerAssumption
      <3> QED
        BY <1>5, <3>1
    <2> QED
      BY <1>1, <1>2, <1>6, <1>7, <2>1, AtTailAfter DEF Committed
  <1>9. AtNewest' /\ CatchesUp' /\ slipped' \in BOOLEAN
    BY <1>2, <1>6, <1>7, <1>8, TailAgain
       DEF ViewerInv, AtNewest, CatchesUp, Rendered, Committed
  <1> QED
    BY <1>2, <1>6, <1>7, <1>9 DEF ViewerInv, Rendered, Committed

\* Expansions are opened, closed and measured.
Redrawn(e) ==
  /\ view' = Commit([view EXCEPT !.expanded = e], held, FALSE)
  /\ UNCHANGED <<held, readerUp>>

\* Whatever is expanded, the box is in range and a view at the tail stays there.
LEMMA RedrawnInv ==
  ASSUME ViewerInv, NEW e, \A seq \in DOMAIN e : e[seq] \in Nat, Redrawn(e), slipped' = Slips
  PROVE  ViewerInv'
  <1> DEFINE v == [view EXCEPT !.expanded = e]
  <1>1. View(view) /\ Told(view) /\ view.top \in 0..MaxTop(view) /\ Log(held)
    BY DEF ViewerInv, InBox, Log
  <1>2. view' = Commit(v, held, FALSE) /\ held' = held /\ readerUp' = readerUp
    BY DEF Redrawn
  <1>3. /\ View(v) /\ v.event = view.event /\ v.top = view.top /\ v.scrollTop = view.scrollTop
        /\ v.last = view.last /\ v.height = view.height /\ v.first = view.first
        /\ v.follow = view.follow /\ v.stick = view.stick /\ v.due = view.due
    BY <1>1 DEF View
  <1> HIDE DEF v
  <1>4. InBox(view') /\ Committed(v, held, view')
    <2>1. Told(v)
      BY <1>1, <1>3 DEF Told
    <2> QED
      BY <1>1, <1>2, <1>3, <2>1, InBoxAfter, CommitIs
  <1>5. (view.follow /\ view.stick /\ AtTail(view) /\ view'.first = view.first) => AtTail(view')
    <2>1. /\ AtTail(view) => Room(totalHeight(view), v.height) - v.top <= StickThreshold
          /\ v.top <= Room(totalHeight(view), v.height)
      BY <1>1, <1>3, BoxIs
    <2> QED
      BY <1>1, <1>2, <1>3, <1>4, <2>1, AtTailAfter DEF Committed
  <1>6. AtNewest' /\ CatchesUp' /\ slipped' \in BOOLEAN
    BY <1>2, <1>3, <1>4, <1>5, TailAgain
       DEF ViewerInv, AtNewest, CatchesUp, Rendered, Committed
  <1> QED
    BY <1>2, <1>4, <1>6 DEF ViewerInv, Rendered, Committed

\* A row toggled is drawn again with the estimate, or without its expansion.
LEMMA ToggleRedraws ==
  ASSUME ViewerInv, NEW seq, handleToggle(seq)
  PROVE  \E e : (\A s \in DOMAIN e : e[s] \in Nat) /\ Redrawn(e)
  <1> DEFINE kept == Without(view.expanded, {k \in DOMAIN view.expanded : k < view.first})
             expanded == IF seq \in DOMAIN kept THEN Without(kept, {seq})
                         ELSE With(kept, seq, Min(BodyHeights))
  <1>1. \A s \in DOMAIN view.expanded : view.expanded[s] \in Nat
    BY DEF ViewerInv, InBox, View
  <1>2. \A s \in DOMAIN kept : kept[s] \in Nat
    BY <1>1 DEF Without
  <1>3. Redrawn(expanded)
    BY DEF handleToggle, Redrawn
  <1>4. Min(BodyHeights) \in Nat
    BY LeastBody, ViewerAssumption
  <1> HIDE DEF kept
  <1>5. \A s \in DOMAIN expanded : expanded[s] \in Nat
    <2>1. CASE seq \in DOMAIN kept
      BY <1>2, <2>1 DEF Without
    <2>2. CASE seq \notin DOMAIN kept
      BY <1>2, <1>4, <2>2 DEF With
    <2> QED
      BY <2>1, <2>2
  <1> HIDE DEF expanded
  <1> QED
    BY <1>3, <1>5

\* So is one measured, with its height.
LEMMA MeasuredRedraws ==
  ASSUME ViewerInv, NEW seq, NEW h \in BodyHeights, handleMeasured(seq, h)
  PROVE  \E e : (\A s \in DOMAIN e : e[s] \in Nat) /\ Redrawn(e)
  <1> DEFINE expanded == [view.expanded EXCEPT ![seq] = h]
  <1>1. \A s \in DOMAIN view.expanded : view.expanded[s] \in Nat
    BY DEF ViewerInv, InBox, View
  <1>2. h \in Nat
    BY ViewerAssumption
  <1>3. \A s \in DOMAIN expanded : expanded[s] \in Nat
    BY <1>1, <1>2
  <1>4. Redrawn(expanded)
    BY DEF handleMeasured, Redrawn
  <1> HIDE DEF expanded
  <1> QED
    BY <1>3, <1>4

-----------------------------------------------------------------------------
(* The reader's place.                                                      *)

\* Rows that stay are moved by the rows that came to or left the front.
LEMMA PlaceIs ==
  ASSUME View(view), View(view'), view.top \in 0..MaxTop(view), Displaced
  PROVE  Place = view.top + (view.first - view'.first) * RowHeight
  <1> DEFINE i == indexAt(view, view.top)
             k == TopSeq(view) - view'.first
  <1>1. /\ Drawable(view) /\ Drawable(view') /\ view.first \in Int /\ view'.first \in Int
        /\ view.count \in Nat /\ view'.count \in Nat /\ view.top \in Nat /\ RowHeight \in Nat
        /\ view'.expanded = view.expanded
    BY BoxIs, ViewerAssumption DEF View, Displaced
  <1>2. i \in 0..view.count
    <2>1. view.top <= Tops(view)[view.count]
      BY <1>1, BoxIs, PlacedByRows
    <2> QED
      BY <1>1, <2>1, IndexAtIs DEF DrawnAt
  <1> HIDE DEF i
  <1>3. k \in 0..view'.count /\ TopSeq(view) - view.first = i /\ view'.first + k = view.first + i
    BY <1>1, <1>2 DEF Displaced, TopSeq, i
  <1> HIDE DEF k
  <1>4. Tops(view)[i] \in Nat /\ Tops(view')[k] \in Nat
    <2>1. Tops(view) \in [0..view.count -> Nat] /\ Tops(view') \in [0..view'.count -> Nat]
      BY <1>1, TopsAre
    <2> QED
      BY <1>2, <1>3, <2>1
  <1>5. Tops(view')[k] - Tops(view)[i] = (view.first - view'.first) * RowHeight
    <2>1. CASE view'.first <= view.first
      <3> DEFINE d == view.first - view'.first
      <3>1. d \in Nat /\ view'.first + d = view.first /\ d + i = k /\ d + i <= view'.count
        BY <1>1, <1>2, <1>3, <2>1
      <3>2. \A seq \in DOMAIN view.expanded : seq >= view'.first => seq >= view.first
        BY DEF Displaced
      <3> HIDE DEF d
      <3>3. Tops(view')[d + i] = d * RowHeight + Tops(view)[i]
        BY <1>1, <1>2, <3>1, <3>2, Shifted
      <3>4. d * RowHeight \in Nat
        BY <1>1, <3>1
      <3> QED
        BY <1>4, <3>1, <3>3, <3>4 DEF d
    <2>2. CASE ~(view'.first <= view.first)
      <3> DEFINE d == view'.first - view.first
      <3>1. d \in Nat /\ view.first + d = view'.first /\ d + k = i /\ d + k <= view.count
            /\ view.first - view'.first = -d
        BY <1>1, <1>2, <1>3, <2>2
      <3>2. \A seq \in DOMAIN view'.expanded : seq >= view.first => seq >= view'.first
        BY DEF Displaced
      <3> HIDE DEF d
      <3>3. Tops(view)[d + k] = d * RowHeight + Tops(view')[k]
        BY <1>1, <1>3, <3>1, <3>2, Shifted
      <3>4. d * RowHeight \in Nat /\ (-d) * RowHeight = -(d * RowHeight)
        BY <1>1, <3>1
      <3> QED
        BY <1>4, <3>1, <3>3, <3>4
    <2> QED
      BY <2>1, <2>2
  <1>6. (view.first - view'.first) * RowHeight \in Int
    BY <1>1
  <1>7. Place = Tops(view')[k] - Tops(view)[i] + view.top
    BY <1>3 DEF Place, RowStart, k
  <1> HIDE DEF Place
  <1> QED
    BY <1>1, <1>4, <1>5, <1>6, <1>7

KeepsPlace == (Displaced /\ view.top <= MaxTop(view')) => view'.top = Place

\* A commit that does not pin puts the box where the line is.
LEMMA KeptBy ==
  ASSUME View(view), view.top \in 0..MaxTop(view), View(view'),
         NEW v, View(v), v.top = view.top, v.first = view.first, NEW log, Log(log),
         NEW changed \in BOOLEAN,
         view'.top = Commit(v, log, changed).top, view'.first = log.first,
         MaxTop(view') = MaxTop(Commit(v, log, changed)),
         (v.follow /\ v.stick) => (view'.follow /\ view'.stick)
  PROVE  KeepsPlace
  <1> SUFFICES ASSUME Displaced, view.top <= MaxTop(view')
               PROVE  view'.top = Place
    BY DEF KeepsPlace
  <1> DEFINE c == Commit(v, log, changed)
             place == v.top + (v.first - log.first) * RowHeight
  <1>1. ~(v.follow /\ v.stick) /\ v.top <= MaxTop(c) /\ place \in 0..MaxTop(c) => c.top = place
    BY CommitIs
  <1>2. Place = place
    BY PlaceIs
  <1>3. Place \in 0..MaxTop(view') /\ ~(view'.follow /\ view'.stick)
    BY DEF Displaced
  <1> HIDE DEF c, place, Place
  <1>4. c.top = place
    BY <1>1, <1>2, <1>3 DEF c
  <1> QED
    BY <1>2, <1>4 DEF c

\* Each commit of an action keeps the place: of a frame,
LEMMA FrameKeeps ==
  ASSUME ViewerInv, Frame
  PROVE  KeepsPlace
  <1> DEFINE v == [view EXCEPT !.due = FALSE]
             c == Commit(v, held, TRUE)
  <1>1. View(view) /\ view.top \in 0..MaxTop(view) /\ Log(held)
    BY DEF ViewerInv, InBox, Log
  <1>2. view' = c
    BY DEF Frame
  <1>3. /\ View(v) /\ v.top = view.top /\ v.first = view.first /\ v.follow = view.follow
        /\ v.stick = view.stick
    BY <1>1 DEF View
  <1> HIDE DEF v
  <1>4. Committed(v, held, c)
    BY <1>1, <1>3, CommitIs
  <1> HIDE DEF c
  <1>5. View(view') /\ view'.first = held.first /\ ((v.follow /\ v.stick) => (view'.follow /\ view'.stick))
    BY <1>2, <1>4 DEF Committed
  <1> QED
    BY <1>1, <1>2, <1>3, <1>5, KeptBy DEF c

\* of a page,
LEMMA PageArrivesKeeps ==
  ASSUME ViewerInv, NEW n \in Nat, PageArrives(n)
  PROVE  KeepsPlace
  <1> DEFINE c == Commit(view, held', n > 0)
  <1>1. View(view) /\ view.top \in 0..MaxTop(view) /\ (n > 0) \in BOOLEAN
    BY DEF ViewerInv, InBox
  <1>2. view' = c
    BY DEF PageArrives
  <1>3. Log(held')
    <2>1. held \in [first : Int, count : Nat, gen : Nat]
      BY DEF ViewerInv
    <2>2. /\ held' = [first |-> held.first - n, count |-> held.count + n, gen |-> held.gen]
          /\ held.first \in Int /\ held.count \in Nat /\ held.gen \in Nat
      BY <2>1 DEF PageArrives
    <2> QED
      BY <2>2 DEF Log
  <1>4. Committed(view, held', c)
    BY <1>1, <1>3, CommitIs
  <1> HIDE DEF c
  <1>5. /\ View(view') /\ view'.first = held'.first
        /\ (view.follow /\ view.stick) => (view'.follow /\ view'.stick)
    BY <1>2, <1>4 DEF Committed
  <1> QED
    BY <1>1, <1>2, <1>3, <1>5, KeptBy DEF c

\* of another log,
LEMMA RestartKeeps ==
  ASSUME ViewerInv, NEW paging, Restart(paging)
  PROVE  KeepsPlace
  <1> DEFINE c == Commit(view, held, TRUE)
  <1>1. View(view) /\ view.top \in 0..MaxTop(view) /\ Log(held)
    BY DEF ViewerInv, InBox, Log
  <1>2. view' = [c EXCEPT !.due = TRUE]
    BY DEF Restart
  <1>3. Committed(view, held, c)
    BY <1>1, CommitIs
  <1> HIDE DEF c
  <1>4. /\ View(view') /\ View(c) /\ view'.top = c.top /\ view'.height = c.height
        /\ view'.expanded = c.expanded /\ view'.first = c.first /\ view'.count = c.count
        /\ view'.follow = c.follow /\ view'.stick = c.stick
    BY <1>2, <1>3 DEF Committed, View
  <1>5. MaxTop(view') = MaxTop(c)
    BY <1>4, SameBox
  <1>6. view'.first = held.first /\ ((view.follow /\ view.stick) => (view'.follow /\ view'.stick))
    BY <1>3, <1>4 DEF Committed
  <1> QED
    BY <1>1, <1>4, <1>5, <1>6, KeptBy DEF c

\* of the switch,
LEMMA ToggleFollowKeeps ==
  ASSUME ViewerInv, ToggleFollow
  PROVE  KeepsPlace
  <1> DEFINE turned == [view EXCEPT !.follow = ~@]
             c == Commit(turned, held, TRUE)
  <1>1. View(view) /\ view.top \in 0..MaxTop(view) /\ Log(held)
    BY DEF ViewerInv, InBox, Log
  <1>2. view' = [c EXCEPT !.stick = @ \/ c.follow, !.due = TRUE]
    BY DEF ToggleFollow
  <1>3. View(turned) /\ turned.top = view.top /\ turned.first = view.first
    BY <1>1 DEF View
  <1> HIDE DEF turned
  <1>4. Committed(turned, held, c)
    BY <1>1, <1>3, CommitIs
  <1> HIDE DEF c
  <1>5. /\ View(view') /\ View(c) /\ view'.top = c.top /\ view'.height = c.height
        /\ view'.expanded = c.expanded /\ view'.first = c.first /\ view'.count = c.count
        /\ view'.follow = c.follow /\ view'.stick = (c.stick \/ c.follow)
    <2>1. View(c) /\ (c.stick \/ c.follow) \in BOOLEAN
      BY <1>4 DEF Committed, View
    <2> QED
      BY <1>2, <2>1 DEF View
  <1>6. MaxTop(view') = MaxTop(c)
    BY <1>5, SameBox
  <1>7. view'.first = held.first /\ ((turned.follow /\ turned.stick) => (view'.follow /\ view'.stick))
    BY <1>4, <1>5 DEF Committed
  <1> QED
    BY <1>1, <1>3, <1>5, <1>6, <1>7, KeptBy DEF c

\* of an expansion.
LEMMA RedrawnKeeps ==
  ASSUME ViewerInv, NEW e, \A seq \in DOMAIN e : e[seq] \in Nat, Redrawn(e)
  PROVE  KeepsPlace
  <1> DEFINE v == [view EXCEPT !.expanded = e]
             c == Commit(v, held, FALSE)
  <1>1. View(view) /\ view.top \in 0..MaxTop(view) /\ Log(held)
    BY DEF ViewerInv, InBox, Log
  <1>2. view' = c
    BY DEF Redrawn
  <1>3. View(v) /\ v.top = view.top /\ v.first = view.first
    BY <1>1 DEF View
  <1> HIDE DEF v
  <1>4. Committed(v, held, c)
    BY <1>1, <1>3, CommitIs
  <1> HIDE DEF c
  <1>5. View(view') /\ view'.first = held.first /\ ((v.follow /\ v.stick) => (view'.follow /\ view'.stick))
    BY <1>2, <1>4 DEF Committed
  <1> QED
    BY <1>1, <1>2, <1>3, <1>5, KeptBy DEF c

\* The other steps leave the front alone, resize the box or tell of a move.
LEMMA OthersKeep ==
  ASSUME \/ view'.first = view.first
         \/ view'.height # view.height
         \/ view.event
  PROVE  KeepsPlace
  BY DEF KeepsPlace, Displaced

-----------------------------------------------------------------------------

\* Every step keeps the invariant and the place.
LEMMA NextInv ==
  ASSUME ViewerInv, ViewerNext
  PROVE  ViewerInv' /\ KeepsPlace
  <1>1. slipped' = Slips /\ Step
    BY DEF ViewerNext
  <1>2. MaxBatch \in Nat /\ PageLines \in Nat /\ View(view)
    BY ViewerAssumption DEF ViewerInv, InBox
  <1>3. ASSUME NEW n \in 1..MaxBatch, LinesArrive(n) PROVE ViewerInv' /\ KeepsPlace
    <2>1. n \in Nat
      BY <1>2
    <2>2. view'.first = view.first
      BY <1>2, <1>3 DEF LinesArrive, View
    <2> QED
      BY <1>1, <1>3, <2>1, <2>2, LinesArriveInv, OthersKeep
  <1>4. CASE Frame
    BY <1>1, <1>4, FrameInv, FrameKeeps
  <1>5. ASSUME NEW n \in 0..PageLines, PageArrives(n) PROVE ViewerInv' /\ KeepsPlace
    <2>1. n \in Nat
      BY <1>2
    <2> QED
      BY <1>1, <1>5, <2>1, PageArrivesInv, PageArrivesKeeps
  <1>6. ASSUME NEW paging, Restart(paging) PROVE ViewerInv' /\ KeepsPlace
    BY <1>1, <1>6, RestartInv, RestartKeeps
  <1>7. CASE ToggleFollow
    BY <1>1, <1>7, ToggleFollowInv, ToggleFollowKeeps
  <1>8. ASSUME NEW top \in 0..MaxTop(view), ReaderScrolls(top) PROVE ViewerInv' /\ KeepsPlace
    <2>1. view'.first = view.first
      <3>1. top \in Int /\ view' = ScrollTo(view, top)
        BY <1>8 DEF ReaderScrolls
      <3> QED
        BY <1>2, <3>1, ScrollToIs DEF Moved
    <2> QED
      BY <1>1, <1>8, <2>1, ReaderScrollsInv, OthersKeep
  <1>9. CASE onScroll
    <2>1. view.event
      BY <1>9 DEF onScroll
    <2> QED
      BY <1>1, <1>9, <2>1, onScrollInv, OthersKeep
  <1>10. ASSUME NEW height \in ViewHeights, Resize(height) PROVE ViewerInv' /\ KeepsPlace
    <2>1. ViewerInv' /\ view'.height = height
      BY <1>1, <1>10, ResizeInv
    <2>2. height # view.height
      BY <1>10 DEF Resize
    <2> QED
      BY <2>1, <2>2, OthersKeep
  <1>11. ASSUME NEW seq, handleToggle(seq) \/ \E h \in BodyHeights : handleMeasured(seq, h)
         PROVE  ViewerInv' /\ KeepsPlace
    <2>1. PICK e : (\A s \in DOMAIN e : e[s] \in Nat) /\ Redrawn(e)
      BY <1>11, ToggleRedraws, MeasuredRedraws
    <2> QED
      BY <1>1, <2>1, RedrawnInv, RedrawnKeeps
  <1> QED
    BY <1>1, <1>3, <1>4, <1>5, <1>6, <1>7, <1>8, <1>9, <1>10, <1>11 DEF Step

\* A stutter keeps the invariant.
LEMMA StutterInv ==
  ASSUME ViewerInv, UNCHANGED viewerVars
  PROVE  ViewerInv'
  BY DEF viewerVars, ViewerInv, InBox, Told, View, Rendered, AtNewest, CatchesUp

\* It holds in every state of the viewer.
LEMMA ViewerInvAlways == ViewerSpec => []ViewerInv
  <1>1. ViewerInv /\ [ViewerNext]_viewerVars => ViewerInv'
    BY NextInv, StutterInv
  <1> QED
    BY <1>1, InitInv, PTL DEF ViewerSpec

\* Whatever has been evicted, put in front, opened, measured or resized, and
\* wherever the box is: the rows in sight are mounted, where the rows above them
\* end; and one who follows and has not moved up sees the newest line drawn, or
\* will with the frame that is due.
THEOREM RowsInViewAlways == ViewerSpec => []RowsInView
  <1>1. ViewerInv => RowsInView
    <2> SUFFICES ASSUME ViewerInv PROVE RowsInView
      OBVIOUS
    <2>1. WindowCovered
      BY Covered DEF ViewerInv, InBox, Told
    <2>2. TailFollowed
      BY DEF TailFollowed, ViewerInv, AtNewest, CatchesUp
    <2> QED
      BY <2>1, <2>2 DEF RowsInView
  <1> QED
    BY <1>1, ViewerInvAlways, PTL

\* The line under the top edge of a view that is not pinned stays there when
\* lines come to the front or leave it, wherever the box can be scrolled to it.
THEOREM PlaceKeptAlways == ViewerSpec => PlaceKept
  <1>1. ViewerInv /\ [ViewerNext]_viewerVars =>
          [(Displaced /\ view.top <= MaxTop(view')) => view'.top = Place]_viewerVars
    BY NextInv DEF KeepsPlace
  <1> QED
    BY <1>1, ViewerInvAlways, PTL DEF ViewerSpec, PlaceKept
=============================================================================
