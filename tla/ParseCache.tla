----------------------------- MODULE ParseCache -----------------------------
(* entryFor of LogViewer.tsx: parsed rows are kept by sequence number, beside  *)
(* a buffer that drops, puts back and renumbers its lines.                     *)
(*                                                                             *)
(* stored is the buffer: [gen, log, base, first, count], where number seq is   *)
(* line base + seq of the log. A parsed row is what it was parsed from.        *)
EXTENDS Integers, Sequences, FiniteSets, Absent

CONSTANTS CachedFormats,    \* formats, each with its columns
          ParseCacheSize,   \* PARSE_CACHE_SIZE
          StoredLines,      \* lines the buffer retains
          MaxStored,        \* bound: lines of a log
          MaxGenerations    \* bound: streams started again

ASSUME CacheAssumption == {ParseCacheSize, StoredLines, MaxStored, MaxGenerations} \subseteq Nat \ {0}

VARIABLES stored, parseCache,
          rowEntry   \* the row last asked for: its number, format and what came back

cacheVars == <<stored, parseCache, rowEntry>>

\* The cache: what its entries were parsed for, and the entries as they came.
NewCache(format) == [format |-> format, gen |-> stored.gen, entries |-> <<>>]

NewStore(gen, log, base) == [gen |-> gen, log |-> log, base |-> base, first |-> 0, count |-> 0]

StoredText(seq) == <<stored.log, stored.base + seq>>

CacheInit ==
  /\ stored = NewStore(0, "a", 1)
  /\ parseCache = None /\ rowEntry = None

\* A line arrives; the oldest go when there are too many.
LineStored ==
  /\ stored.base + stored.first + stored.count < MaxStored
  /\ stored' = IF stored.count < StoredLines THEN [stored EXCEPT !.count = @ + 1]
               ELSE [stored EXCEPT !.first = @ + stored.count + 1 - StoredLines, !.count = StoredLines]
  /\ UNCHANGED <<parseCache, rowEntry>>

\* The line before the oldest is fetched, for the first time or again.
LinePrepended ==
  /\ stored.count > 0 /\ stored.base + stored.first > 0
  /\ stored' = [stored EXCEPT !.first = @ - 1, !.count = @ + 1]
  /\ UNCHANGED <<parseCache, rowEntry>>

\* clear: another log, or the same one again from where its tail is by then.
StreamCleared(log, base) ==
  /\ stored.gen < MaxGenerations
  /\ stored' = NewStore(stored.gen + 1, log, base)
  /\ UNCHANGED <<parseCache, rowEntry>>

\* Mutant of Valid: what the entries were read from is not compared.
ValidAnyStream(format) == parseCache # None /\ parseCache.format = format

Valid(format) ==
  parseCache # None /\ parseCache.format = format /\ parseCache.gen = stored.gen

\* A row is rendered: its entry is found, or parsed and kept for the next time,
\* and the entry kept longest goes when there are too many.
entryFor(seq, format) ==
  LET cache == IF Valid(format) THEN parseCache ELSE NewCache(format)
      hits == {i \in DOMAIN cache.entries : cache.entries[i].seq = seq}
      parsed == [seq |-> seq, text |-> StoredText(seq), format |-> format]
      kept == Append(cache.entries, parsed)
  IN /\ seq \in stored.first..(stored.first + stored.count - 1)
     /\ IF hits # {}
          THEN /\ parseCache' = cache
               /\ rowEntry' = [seq |-> seq, format |-> format, want |-> StoredText(seq),
                            got |-> cache.entries[CHOOSE i \in hits : TRUE]]
          ELSE /\ parseCache' = [cache EXCEPT !.entries = IF Len(kept) > ParseCacheSize THEN Tail(kept) ELSE kept]
               /\ rowEntry' = [seq |-> seq, format |-> format, want |-> StoredText(seq), got |-> parsed]
     /\ UNCHANGED stored

CacheNext ==
  \/ LineStored
  \/ LinePrepended
  \/ \E log \in {"a", "b"}, base \in 0..MaxStored : StreamCleared(log, base)
  \/ \E seq \in stored.first..(stored.first + stored.count - 1), format \in CachedFormats : entryFor(seq, format)

CacheSpec == CacheInit /\ [][CacheNext]_cacheVars

\* A row shows the line that has its number now, read in the format chosen now,
\* whatever was read, evicted, fetched again, cleared or renumbered before; and
\* the cache stays within its size.
CacheHonest ==
  /\ rowEntry # None => (rowEntry.got.text = rowEntry.want /\ rowEntry.got.format = rowEntry.format)
  /\ parseCache # None => Len(parseCache.entries) <= ParseCacheSize
=============================================================================
