------------------------------ MODULE DnsCache ------------------------------
(***************************************************************************)
(* plugins/external-dns/api: what the backend answers about hostnames.     *)
(* Every hostname of a request is served from a cache, from the cache with *)
(* a refresh behind it, or after a lookup of its own, which is a handful   *)
(* of DNS queries side by side.  Zones change and time passes meanwhile,   *)
(* queries fail, clients leave.                                            *)
(*                                                                         *)
(* A key is <<kind, resolver, hostname>>: "lookup" and "settings" have a   *)
(* cache each.  All hostnames have the records of the zone.                *)
(***************************************************************************)
EXTENDS Integers, Sequences, FiniteSets, FiniteSetsExt, SequencesExt, Absent

CONSTANTS Zone,         \* what the zone holds, one after the other: [txt, A, AAAA]
          Families,     \* the address families enabled, of {"A", "AAAA"}
          Questions,    \* what requests ask: <<kind, resolver, hostnames>>
          Internal,     \* resolvers that are the cluster's own
          MinTTL, MaxTTL, FallbackTTL,  \* minCacheTTL, maxCacheTTL, fallbackCacheTTL
          Timeout,      \* lookupTimeout
          Slots,        \* maxConcurrentLookups
          MaxAsks,      \* bound: requests
          MaxTime       \* bound: the clock

ASSUME DnsAssumption ==
  /\ {MinTTL, MaxTTL, Timeout, Slots} \subseteq Nat \ {0} /\ FallbackTTL \in MinTTL..MaxTTL
  /\ Families \subseteq {"A", "AAAA"} /\ {MaxAsks, MaxTime} \subseteq Nat
  /\ \A question \in Questions : question[1] \in {"lookup", "settings"} /\ IsFiniteSet(question[3])
  /\ Zone \in Seq(Range(Zone)) /\ Zone # <<>>

VARIABLES
  dnsNow,      \* the time
  zone,        \* the index of what the zone holds now
  entries,     \* the caches, by key: [result, ttl, fetchedAt]
  refreshing,  \* keys with a refresh in flight
  lookups,     \* resolutions under way: by request and hostname, or by <<0, key>> for a refresh
  asks         \* the requests: [kind, resolver, todo, stale, answers, deadline, done]

dnsVars == <<dnsNow, zone, entries, refreshing, lookups, asks>>

NoLookups == [by \in {} |-> 0]

DnsInit ==
  /\ dnsNow = 0 /\ zone = 1 /\ entries = NoLookups /\ refreshing = {}
  /\ lookups = NoLookups /\ asks = <<>>

clampCacheTTL(ttl) == Max({MinTTL, Min({MaxTTL, ttl})})

\* Mutant of expired: whatever is cached is served while it is refreshed.
expiredNever(e) == FALSE

expired(e) == dnsNow - e.fetchedAt >= e.ttl

stale(e) == 2 * (dnsNow - e.fetchedAt) >= e.ttl

-----------------------------------------------------------------------------
(* The queries of a resolution and what their answers mean *)

txtRecordTypePrefixes ==
  {"", "cname-"} \cup {IF f = "A" THEN "a-" ELSE "aaaa-" : f \in Families}

\* resolveHostname asks for the families enabled, resolveDNSSettings for both.
TxtQueries == {<<"txt", p>> : p \in txtRecordTypePrefixes}
RrQueries(kind) == {<<"rr", t>> : t \in IF kind = "lookup" THEN Families ELSE {"A", "AAAA"}}
DnsQueries(kind) == TxtQueries \cup RrQueries(kind)

\* The zone has sets of records with TTLs, and texts at every name asked.
ASSUME ZoneAssumption ==
  \A v \in DOMAIN Zone :
    /\ \A q \in TxtQueries : Zone[v].txt[q[2]] # None
    /\ \A q \in RrQueries("settings") : \A r \in Zone[v][q[2]] : r.ttl \in Nat

\* A TXT record is [marker, owner]: has it the heritage marker, and which owner
\* does it name, if any.
parseTXTClaim(data) == [managed |-> data.marker, owner |-> IF data.marker THEN data.owner ELSE ""]

\* A message of a name server: does it answer this query, its code, is it
\* truncated, and its records of the types known. NXDOMAIN is an answer.
parseDNSResponse(m) ==
  IF m # None /\ m.mine /\ m.rcode \in {0, 3} THEN [records |-> m.records, truncated |-> m.truncated] ELSE None

\* Mutant of queryRecords: a truncated answer is taken for the answer.
queryRecordsUDP(udp, tcp) ==
  LET u == parseDNSResponse(udp) IN IF u = None THEN None ELSE u.records

\* Over UDP, and over TCP when that is truncated. A message is None when none
\* arrives in time.
queryRecords(udp, tcp) ==
  LET u == parseDNSResponse(udp)
      t == parseDNSResponse(tcp)
  IN  IF u = None THEN None
      ELSE IF ~u.truncated THEN u.records
      ELSE IF t = None THEN None ELSE t.records

\* What a name server may say about the records rrs.
Messages(rrs) ==
  LET Message(mine, rcode, truncated, records) ==
        [mine |-> mine, rcode |-> rcode, truncated |-> truncated, records |-> records]
  IN  {None, Message(TRUE, IF rrs = {} THEN 3 ELSE 0, FALSE, rrs), Message(TRUE, 0, TRUE, {}),
       Message(TRUE, 2, FALSE, {}), Message(FALSE, 0, FALSE, {})}

\* What a query for the records rrs may come back with. The library's resolver
\* behind lookupHost retries by itself and tells no TTL.
Found(kind, rrs) ==
  IF kind = "lookup" THEN {rrs, None}
  ELSE {queryRecords(udp, tcp) :
          udp \in Messages(rrs), tcp \in {m \in Messages(rrs) : m # None => ~m.truncated}}

-----------------------------------------------------------------------------
(* Resolutions *)

\* The owners one of which is reported: that of the query answered last among
\* those that name one, and of several records the last.
Owners(records) ==
  LET named == SelectSeq(records, LAMBDA data : parseTXTClaim(data).owner # "")
  IN  IF named = <<>> THEN {} ELSE {Last(named).owner}

\* Mutant of resolve: a lookup that found addresses is no failure.
resolveDropsErrors(kind, txt, rr) ==
  LET claims == UNION {Range(txt[q]) : q \in {p \in DOMAIN txt : txt[p] # None}}
      owners == UNION {Owners(txt[q]) : q \in {p \in DOMAIN txt : txt[p] # None}}
      records == UNION {rr[q] : q \in {p \in DOMAIN rr : rr[p] # None}}
  IN  {[managed |-> \E data \in claims : parseTXTClaim(data).managed, owner |-> o, records |-> records,
        error |-> records = {} /\ \E q \in DOMAIN txt : txt[q] = None] :
         o \in IF owners = {} THEN {""} ELSE owners}

\* resolveHostname and resolveDNSSettings, from what each query came back with,
\* None if it failed: what may be answered, as queries end in any order.
\* lookupHost fails only without any address; the settings report an error only
\* without any record.
resolve(kind, txt, rr) ==
  LET claims == UNION {Range(txt[q]) : q \in {p \in DOMAIN txt : txt[p] # None}}
      owners == UNION {Owners(txt[q]) : q \in {p \in DOMAIN txt : txt[p] # None}}
      records == UNION {rr[q] : q \in {p \in DOMAIN rr : rr[p] # None}}
      txtErr == \E q \in DOMAIN txt : txt[q] = None
      rrErr == \E q \in DOMAIN rr : rr[q] = None
  IN  {[managed |-> \E data \in claims : parseTXTClaim(data).managed, owner |-> o, records |-> records,
        error |-> (records = {} /\ rrErr) \/ (txtErr /\ (records = {} \/ kind = "lookup"))] :
         o \in IF owners = {} THEN {""} ELSE owners}

\* What the queries of a kind may come back with when each is answered while
\* the zone holds one of versions, or none of them is answered any more.
TxtAnswers(versions) ==
  [TxtQueries -> {None} \cup versions]

Txt(read) == [q \in DOMAIN read |-> IF read[q] = None THEN None ELSE Zone[read[q]].txt[q[2]]]

RrAnswers(kind, versions) ==
  {rr \in [RrQueries(kind) -> {None} \cup UNION {Found(kind, Zone[v][t]) : v \in versions, t \in {"A", "AAAA"}}] :
     \A q \in RrQueries(kind) : rr[q] = None \/ \E v \in versions : rr[q] \in Found(kind, Zone[v][q[2]])}

Outcomes(kind, versions) ==
  UNION {resolve(kind, Txt(read), rr) : read \in TxtAnswers(versions), rr \in RrAnswers(kind, versions)}

\* The lowest of the records' TTLs; plain lookups know none.
Lowest(kind, records) == IF kind = "lookup" \/ records = {} THEN None ELSE Min({r.ttl : r \in records})

TTL(lowest) == IF lowest = None THEN FallbackTTL ELSE clampCacheTTL(lowest)

\* A resolution under way; since is when it began, and from what the zone held
\* then. One begun after its context has ended gets no answers.
NewResolution(key, deadline) ==
  [key |-> key, deadline |-> deadline, dead |-> deadline <= dnsNow, since |-> dnsNow, from |-> zone,
   stored |-> FALSE]

\* A request's resolutions end with its context, a refresh with its own.
Deadline(by) == IF by[1] = 0 THEN lookups[by].deadline ELSE asks[by[1]].deadline

\* What a resolution may result in, reduced to what the cache looks at.
LowestTTLs ==
  [kind \in {"lookup", "settings"} |->
     [versions \in SUBSET DOMAIN Zone |-> {Lowest(kind, o.records) : o \in Outcomes(kind, versions)}]]

Results(l) ==
  {[key |-> l.key, since |-> l.since, lowest |-> n] :
     n \in LowestTTLs[l.key[1]][IF l.dead THEN {} ELSE l.from..zone]}

Stored(result) ==
  [k \in DOMAIN entries \cup {result.key} |->
     IF k = result.key
       THEN [result |-> result, ttl |-> TTL(result.lowest), fetchedAt |-> dnsNow]
       ELSE entries[k]]

Without(f, x) == [y \in DOMAIN f \ {x} |-> f[y]]

\* isInternalClusterResolver
skipCache(key) == key[2] \in Internal

AnsweredFor(i, h, result) ==
  [h2 \in DOMAIN asks[i].answers \cup {h} |->
     IF h2 = h THEN [result |-> result, at |-> dnsNow] ELSE asks[i].answers[h2]]

\* The last query of a request's resolution ends: the result is kept and answered.
FetchEnds(by) ==
  /\ by[1] # 0
  /\ \E result \in Results(lookups[by]) :
       /\ entries' = IF skipCache(result.key) THEN entries ELSE Stored(result)
       /\ asks' = [asks EXCEPT ![by[1]].answers = AnsweredFor(by[1], by[2], result)]
  /\ lookups' = Without(lookups, by)
  /\ UNCHANGED <<dnsNow, zone, refreshing>>

RefreshStores(by) ==
  /\ by[1] = 0 /\ ~lookups[by].stored
  /\ \E result \in Results(lookups[by]) : entries' = Stored(result)
  /\ lookups' = [lookups EXCEPT ![by].stored = TRUE]
  /\ UNCHANGED <<dnsNow, zone, refreshing, asks>>

endRefresh(by) ==
  /\ by[1] = 0 /\ lookups[by].stored
  /\ refreshing' = refreshing \ {by[2]}
  /\ lookups' = Without(lookups, by)
  /\ UNCHANGED <<dnsNow, zone, entries, asks>>

-----------------------------------------------------------------------------
(* Requests *)

Waves(hosts) == (Cardinality(hosts) + Slots - 1) \div Slots

\* lookupHandler and dnsSettingsHandler; the latter takes one hostname.
AskAbout(kind, resolver, hosts) ==
  /\ Len(asks) < MaxAsks
  /\ hosts # {} /\ (kind = "settings" => Cardinality(hosts) = 1)
  /\ asks' = Append(asks, [kind |-> kind, resolver |-> resolver, todo |-> hosts, stale |-> {},
                           answers |-> NoLookups, deadline |-> dnsNow + Waves(hosts) * Timeout, done |-> FALSE])
  /\ UNCHANGED <<dnsNow, zone, entries, refreshing, lookups>>

Key(i, h) == <<asks[i].kind, asks[i].resolver, h>>

Busy(i) == asks[i].stale \cup {by[2] : by \in {b \in DOMAIN lookups : b[1] = i}}

Start(f, by, key, deadline) ==
  [b \in DOMAIN f \cup {by} |-> IF b = by THEN NewResolution(key, deadline) ELSE f[b]]

\* A hostname gets a slot and is looked up in the cache.
cachedFetch(i, h) ==
  LET key == Key(i, h)
      hit == ~skipCache(key) /\ key \in DOMAIN entries /\ ~expired(entries[key])
  IN  /\ h \in asks[i].todo /\ Cardinality(Busy(i)) < Slots
      /\ IF hit
           THEN /\ asks' = [asks EXCEPT ![i].todo = @ \ {h},
                                        ![i].stale = IF stale(entries[key]) THEN @ \cup {h} ELSE @,
                                        ![i].answers = AnsweredFor(i, h, entries[key].result)]
                /\ UNCHANGED lookups
           ELSE /\ asks' = [asks EXCEPT ![i].todo = @ \ {h}]
                /\ lookups' = Start(lookups, <<i, h>>, key, asks[i].deadline)
      /\ UNCHANGED <<dnsNow, zone, entries, refreshing>>

refreshInBackground(i, h) ==
  LET key == Key(i, h)
  IN  /\ h \in asks[i].stale
      /\ asks' = [asks EXCEPT ![i].stale = @ \ {h}]
      /\ IF key \in refreshing THEN UNCHANGED <<refreshing, lookups>>
         ELSE /\ refreshing' = refreshing \cup {key}
              /\ lookups' = Start(lookups, <<0, key>>, key, dnsNow + Timeout)
      /\ UNCHANGED <<dnsNow, zone, entries>>

\* The response is written when every hostname has its result, and is gone.
Respond(i) ==
  /\ ~asks[i].done /\ asks[i].todo = {} /\ Busy(i) = {}
  /\ asks' = [asks EXCEPT ![i].done = TRUE, ![i].answers = NoLookups, ![i].deadline = 0]
  /\ UNCHANGED <<dnsNow, zone, entries, refreshing, lookups>>

\* The client goes away and takes the request's context with it.
ClientLeaves(i) ==
  /\ ~asks[i].done /\ asks[i].deadline > dnsNow
  /\ asks' = [asks EXCEPT ![i].deadline = dnsNow]
  /\ UNCHANGED <<dnsNow, zone, entries, refreshing, lookups>>

ZoneChanges ==
  /\ zone < Len(Zone)
  /\ zone' = zone + 1
  /\ UNCHANGED <<dnsNow, entries, refreshing, lookups, asks>>

\* Time passes; what has reached its deadline ends first, and a step without a
\* query takes no time.
DnsTick ==
  /\ dnsNow < MaxTime
  /\ \A by \in DOMAIN lookups : ~lookups[by].stored /\ Deadline(by) > dnsNow
  /\ \A i \in DOMAIN asks :
       /\ asks[i].stale = {}
       /\ asks[i].todo # {} => Cardinality(Busy(i)) = Slots
  /\ dnsNow' = dnsNow + 1
  /\ UNCHANGED <<zone, entries, refreshing, lookups, asks>>

DnsNext ==
  \/ \E question \in Questions : AskAbout(question[1], question[2], question[3])
  \/ \E i \in DOMAIN asks :
       \/ \E h \in asks[i].todo : cachedFetch(i, h)
       \/ \E h \in asks[i].stale : refreshInBackground(i, h)
       \/ Respond(i) \/ ClientLeaves(i)
  \/ \E by \in DOMAIN lookups :
       \/ FetchEnds(by) \/ RefreshStores(by) \/ endRefresh(by)
  \/ ZoneChanges \/ DnsTick

DnsSpec == DnsInit /\ [][DnsNext]_dnsVars

-----------------------------------------------------------------------------
Answers == UNION {{asks[i].answers[h] : h \in DOMAIN asks[i].answers} : i \in DOMAIN asks}

\* What is answered is not older than a resolution and the time it may be kept:
\* the lowest TTL of its records within the limits, however refreshes and
\* requests overlap and whichever stored last (cache.go:8-13,
\* dnssettings.go:39-43).
NotTooOld ==
  \A a \in Answers :
    LET kept == IF a.result.lowest = None THEN FallbackTTL ELSE a.result.lowest
    IN  \E question \in Questions :
          a.at - a.result.since < Waves(question[3]) * Timeout + Max({MinTTL, Min({MaxTTL, kept})})

Claimed(v, q) == \E k \in DOMAIN Zone[v].txt[q[2]] : Zone[v].txt[q[2]][k].marker

\* A name is only called unmanaged, without an error, when every place a claim
\* may stand was read and held none; the settings of a name with records are
\* left out, they call it unmanaged when the claim could not be read
\* (lookup.go:200-231, dnssettings.go:90-92).
UnmanagedMeansUnclaimed ==
  \A kind \in {"lookup", "settings"} :
    \A read \in TxtAnswers(DOMAIN Zone), rr \in RrAnswers(kind, DOMAIN Zone) : \A got \in resolve(kind, Txt(read), rr) :
      ~got.managed /\ ~got.error =>
        \A q \in TxtQueries :
          IF read[q] = None THEN kind = "settings" /\ got.records # {} ELSE ~Claimed(read[q], q)

\* A query that is answered gives all records there are, never the part that
\* fitted into a datagram (dnsquery.go:222-227).
RecordsWhole ==
  \A v \in DOMAIN Zone, t \in {"A", "AAAA"} : Found("settings", Zone[v][t]) \subseteq {None, Zone[v][t]}

\* The keys claimed for a refresh are those with a refresh in flight, so that
\* none is refreshed twice at once or never again (cache.go:58-62).
RefreshesTracked == refreshing = {by[2] : by \in {b \in DOMAIN lookups : b[1] = 0}}

\* What the backend answers about a name can be relied on. What the answers of
\* the queries mean does not depend on the state, and is looked at as the first
\* resolutions begin.
AnswersFresh ==
  /\ NotTooOld
  /\ RefreshesTracked
  /\ Len(asks) = 1 /\ lookups # NoLookups /\ dnsNow = 0 => UnmanagedMeansUnclaimed /\ RecordsWhole
=============================================================================
