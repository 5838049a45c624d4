----------------------------- MODULE PageProofs -----------------------------
(***************************************************************************)
(* What pages are answered and show: the cache of external-dns lookups,    *)
(* for any zone, requests, families, resolvers, limits of the TTL, timeout *)
(* and number of slots; references and reconciles of Flux objects, for any *)
(* objects and specs, requests and edits; and the file browser's tree and  *)
(* uploads, for any containers, file systems, files and operations.        *)
(***************************************************************************)
EXTENDS DnsCache, FluxReconcile, FileBrowser, FiniteSetTheorems, SequenceTheorems,
        WellFoundedInduction, TLAPS

-----------------------------------------------------------------------------
(* Limits.                                                                  *)

\* The naturals are well-founded.
LEMMA NatDescends == IsWellFoundedOn({p \in Nat \X Nat : p[1] < p[2]}, Nat)
  <1>1. OpToRel(<, Nat) = {p \in Nat \X Nat : p[1] < p[2]}
    BY DEF OpToRel
  <1> QED
    BY <1>1, NatLessThanWellFounded, Zenon

\* A set of naturals has a least element.
LEMMA MinIs ==
  ASSUME NEW S, S \subseteq Nat, S # {}
  PROVE  Min(S) \in S /\ \A y \in S : Min(S) <= y
  <1> DEFINE R == {p \in Nat \X Nat : p[1] < p[2]}
  <1>1. IsWellFoundedOn(R, Nat)
    BY NatDescends
  <1> HIDE DEF R
  <1>2. PICK x \in S : \A y \in S : ~ (<<y, x>> \in R)
    BY <1>1, WFMin
  <1>3. ASSUME NEW y \in S PROVE x <= y
    <2>1. x \in Nat /\ y \in Nat
      OBVIOUS
    <2>2. ~ (<<y, x>> \in R)
      BY <1>2
    <2>3. ~ (y < x)
      BY <2>1, <2>2 DEF R
    <2> QED
      BY <2>1, <2>3
  <1>4. \E z \in S : \A y \in S : z <= y
    BY <1>3
  <1> QED
    BY <1>4 DEF Min

\* The lesser of two numbers.
LEMMA MinOfTwo ==
  ASSUME NEW a \in Int, NEW b \in Int
  PROVE  Min({a, b}) = IF a <= b THEN a ELSE b
  <1> DEFINE m == IF a <= b THEN a ELSE b
  <1>1. m \in {a, b} /\ \A y \in {a, b} : m <= y
    OBVIOUS
  <1>2. \A x \in {a, b} : (\A y \in {a, b} : x <= y) => x = m
    OBVIOUS
  <1> HIDE DEF m
  <1>3. Min({a, b}) = m
    BY <1>1, <1>2 DEF Min
  <1> QED
    BY <1>3 DEF m

\* The greater of two numbers.
LEMMA MaxOfTwo ==
  ASSUME NEW a \in Int, NEW b \in Int
  PROVE  Max({a, b}) = IF a >= b THEN a ELSE b
  <1> DEFINE m == IF a >= b THEN a ELSE b
  <1>1. m \in {a, b} /\ \A y \in {a, b} : m >= y
    OBVIOUS
  <1>2. \A x \in {a, b} : (\A y \in {a, b} : x >= y) => x = m
    OBVIOUS
  <1> HIDE DEF m
  <1>3. Max({a, b}) = m
    BY <1>1, <1>2 DEF Max
  <1> QED
    BY <1>3 DEF m

\* The limits of what is kept, as numbers.
LEMMA LimitsAre ==
  /\ MinTTL \in Nat \ {0} /\ MaxTTL \in Nat \ {0} /\ Timeout \in Nat \ {0} /\ Slots \in Nat \ {0}
  /\ FallbackTTL \in Nat \ {0} /\ MinTTL <= FallbackTTL /\ FallbackTTL <= MaxTTL
  BY DnsAssumption

\* How long a result is kept: the limits hold whatever the zone says.
LEMMA Clamped ==
  ASSUME NEW ttl \in Nat
  PROVE  clampCacheTTL(ttl) \in Nat \ {0} /\ MinTTL <= clampCacheTTL(ttl)
  <1>1. Min({MaxTTL, ttl}) \in Nat
    BY LimitsAre, MinOfTwo
  <1>2. Max({MinTTL, Min({MaxTTL, ttl})}) \in Nat \ {0}
        /\ MinTTL <= Max({MinTTL, Min({MaxTTL, ttl})})
    <2> DEFINE n == Min({MaxTTL, ttl})
    <2> HIDE DEF n
    <2>1. n \in Nat
      BY <1>1 DEF n
    <2>2. Max({MinTTL, n}) = IF MinTTL >= n THEN MinTTL ELSE n
      BY <2>1, LimitsAre, MaxOfTwo
    <2>3. Max({MinTTL, n}) \in Nat \ {0} /\ MinTTL <= Max({MinTTL, n})
      BY <2>1, <2>2, LimitsAre
    <2> QED
      BY <2>3 DEF n
  <1> QED
    BY <1>2 DEF clampCacheTTL

\* The TTL a result is stored with is the one the property speaks of.
LEMMA TTLIs ==
  ASSUME NEW n \in Nat \cup {None}
  PROVE  /\ TTL(n) = clampCacheTTL(IF n = None THEN FallbackTTL ELSE n)
         /\ TTL(n) \in Nat \ {0}
  <1>1. CASE n = None
    <2>1. Min({MaxTTL, FallbackTTL}) = FallbackTTL
      BY LimitsAre, MinOfTwo
    <2>2. Max({MinTTL, FallbackTTL}) = FallbackTTL
      BY LimitsAre, MaxOfTwo
    <2>3. clampCacheTTL(FallbackTTL) = FallbackTTL
      BY <2>1, <2>2 DEF clampCacheTTL
    <2> QED
      BY <1>1, <2>3, LimitsAre DEF TTL
  <1>2. CASE n # None
    BY <1>2, Clamped DEF TTL
  <1> QED
    BY <1>1, <1>2

-----------------------------------------------------------------------------
(* What the answers of the queries mean.                                    *)

\* Whatever arrives over UDP and TCP, a query that is answered gives all of the
\* records there are (dnsquery.go, queryRecords).
LEMMA QueriesGiveAll ==
  ASSUME NEW rrs
  PROVE  Found("settings", rrs) \subseteq {None, rrs}
  <1> SUFFICES ASSUME NEW udp \in Messages(rrs), NEW tcp \in Messages(rrs),
                      tcp # None => ~tcp.truncated
               PROVE  queryRecords(udp, tcp) \in {None, rrs}
    BY DEF Found
  <1>1. ASSUME NEW m \in Messages(rrs)
        PROVE  \/ parseDNSResponse(m) = None
               \/ parseDNSResponse(m) = [records |-> rrs, truncated |-> FALSE]
               \/ m.truncated /\ parseDNSResponse(m) = [records |-> {}, truncated |-> TRUE]
    <2> DEFINE Message(mine, rcode, truncated, records) ==
                 [mine |-> mine, rcode |-> rcode, truncated |-> truncated, records |-> records]
    <2>1. m \in {None, Message(TRUE, IF rrs = {} THEN 3 ELSE 0, FALSE, rrs), Message(TRUE, 0, TRUE, {}),
                 Message(TRUE, 2, FALSE, {}), Message(FALSE, 0, FALSE, {})}
      BY DEF Messages
    <2>2. CASE m = None
      BY <2>2 DEF parseDNSResponse
    <2>3. CASE m = Message(TRUE, IF rrs = {} THEN 3 ELSE 0, FALSE, rrs)
      <3>1. m.rcode \in {0, 3} /\ m.truncated = FALSE /\ m.records = rrs
        BY <2>3
      <3> QED
        BY <3>1 DEF parseDNSResponse
    <2>4. CASE m = Message(TRUE, 0, TRUE, {})
      <3>1. m.rcode \in {0, 3} /\ m.truncated = TRUE /\ m.records = {}
        BY <2>4
      <3> QED
        BY <3>1 DEF parseDNSResponse
    <2>5. CASE m = Message(TRUE, 2, FALSE, {})
      <3>1. m.rcode \notin {0, 3}
        BY <2>5
      <3> QED
        BY <3>1 DEF parseDNSResponse
    <2>6. CASE m = Message(FALSE, 0, FALSE, {})
      <3>1. m.mine = FALSE
        BY <2>6
      <3> QED
        BY <3>1 DEF parseDNSResponse
    <2> QED
      BY <2>1, <2>2, <2>3, <2>4, <2>5, <2>6
  <1> QED
    BY <1>1 DEF queryRecords, parseDNSResponse

\* What a resolution tells, field by field.
LEMMA ResolveIs ==
  ASSUME NEW kind, NEW txt, NEW rr, NEW got \in resolve(kind, txt, rr)
  PROVE  /\ got.records = UNION {rr[q] : q \in {p \in DOMAIN rr : rr[p] # None}}
         /\ \A q \in DOMAIN txt : \A data \in Range(txt[q]) :
              txt[q] # None /\ parseTXTClaim(data).managed => got.managed
         /\ \A q \in DOMAIN txt :
              txt[q] = None /\ (got.records = {} \/ kind = "lookup") => got.error
  <1> DEFINE claims == UNION {Range(txt[q]) : q \in {p \in DOMAIN txt : txt[p] # None}}
             owners == UNION {Owners(txt[q]) : q \in {p \in DOMAIN txt : txt[p] # None}}
             records == UNION {rr[q] : q \in {p \in DOMAIN rr : rr[p] # None}}
             txtErr == \E q \in DOMAIN txt : txt[q] = None
             rrErr == \E q \in DOMAIN rr : rr[q] = None
             managed == \E data \in claims : parseTXTClaim(data).managed
             error == (records = {} /\ rrErr) \/ (txtErr /\ (records = {} \/ kind = "lookup"))
             names == IF owners = {} THEN {""} ELSE owners
  <1>1. resolve(kind, txt, rr) = {[managed |-> managed, owner |-> o, records |-> records, error |-> error] :
                                    o \in names}
    BY Zenon DEF resolve
  <1> HIDE DEF claims, owners, records, txtErr, rrErr, managed, error, names
  <1>2. PICK o : got = [managed |-> managed, owner |-> o, records |-> records, error |-> error]
    BY <1>1
  <1>3. got.records = records /\ (managed => got.managed) /\ (error => got.error)
    BY <1>2
  <1>4. ASSUME NEW q \in DOMAIN txt, NEW data \in Range(txt[q]), txt[q] # None,
               parseTXTClaim(data).managed
        PROVE  got.managed
    <2>1. data \in claims
      BY <1>4 DEF claims
    <2> QED
      BY <1>3, <1>4, <2>1 DEF managed
  <1>5. ASSUME NEW q \in DOMAIN txt, txt[q] = None, records = {} \/ kind = "lookup"
        PROVE  got.error
    BY <1>3, <1>5 DEF error, txtErr
  <1> QED
    BY <1>3, <1>4, <1>5 DEF records

\* Every record a resolution of settings knows is one of the zone.
LEMMA RecordsOfZone ==
  ASSUME NEW versions, versions \subseteq DOMAIN Zone, NEW rr \in RrAnswers("settings", versions),
         NEW q \in DOMAIN rr, rr[q] # None, NEW r \in rr[q]
  PROVE  r.ttl \in Nat
  <1>1. q \in RrQueries("settings") /\ \E v \in versions : rr[q] \in Found("settings", Zone[v][q[2]])
    BY DEF RrAnswers
  <1>2. PICK v \in versions : rr[q] = Zone[v][q[2]]
    BY <1>1, QueriesGiveAll
  <1> QED
    BY <1>1, <1>2, ZoneAssumption

\* The lowest TTL of what was found is a number, where there is one.
LEMMA LowestIs ==
  ASSUME NEW kind \in {"lookup", "settings"}, NEW versions, versions \subseteq DOMAIN Zone,
         NEW got \in Outcomes(kind, versions)
  PROVE  Lowest(kind, got.records) \in Nat \cup {None}
  <1> SUFFICES ASSUME kind = "settings", got.records # {}
               PROVE  Min({r.ttl : r \in got.records}) \in Nat
    BY DEF Lowest
  <1>1. PICK read, rr : rr \in RrAnswers("settings", versions) /\ got \in resolve("settings", Txt(read), rr)
    BY DEF Outcomes
  <1>2. got.records = UNION {rr[q] : q \in {p \in DOMAIN rr : rr[p] # None}}
    BY <1>1, ResolveIs
  <1>3. \A r \in got.records : r.ttl \in Nat
    BY <1>1, <1>2, RecordsOfZone
  <1>4. {r.ttl : r \in got.records} \subseteq Nat /\ {r.ttl : r \in got.records} # {}
    BY <1>3
  <1> QED
    BY <1>4, MinIs

\* No claim is overlooked, and no record (lookup.go, dnssettings.go,
\* dnsquery.go): what an answer says holds whatever the queries came back with.
LEMMA AnswersMean == UnmanagedMeansUnclaimed /\ RecordsWhole
  <1>1. RecordsWhole
    BY QueriesGiveAll DEF RecordsWhole
  <1>2. UnmanagedMeansUnclaimed
    <2> SUFFICES ASSUME NEW kind \in {"lookup", "settings"}, NEW read \in TxtAnswers(DOMAIN Zone),
                        NEW rr, NEW got \in resolve(kind, Txt(read), rr),
                        ~got.managed, ~got.error, NEW q \in TxtQueries
                 PROVE  IF read[q] = None THEN kind = "settings" /\ got.records # {}
                        ELSE ~Claimed(read[q], q)
      BY DEF UnmanagedMeansUnclaimed
    <2> DEFINE txt == Txt(read)
    <2>1. DOMAIN read = TxtQueries /\ read[q] \in {None} \cup DOMAIN Zone
      BY DEF TxtAnswers
    <2>2. /\ q \in DOMAIN txt
          /\ txt[q] = IF read[q] = None THEN None ELSE Zone[read[q]].txt[q[2]]
      BY <2>1 DEF Txt
    <2> HIDE DEF txt
    <2>3. CASE read[q] = None
      <3>1. txt[q] = None
        BY <2>2, <2>3
      <3>2. ~(got.records = {} \/ kind = "lookup")
        BY <2>2, <3>1, ResolveIs DEF txt
      <3> QED
        BY <2>3, <3>2
    <2>4. CASE read[q] # None
      <3>1. txt[q] # None /\ txt[q] = Zone[read[q]].txt[q[2]]
        BY <2>1, <2>2, <2>4, ZoneAssumption
      <3>2. \A data \in Range(txt[q]) : ~parseTXTClaim(data).managed
        BY <2>2, <3>1, ResolveIs DEF txt
      <3>3. \A k \in DOMAIN txt[q] : ~txt[q][k].marker
        BY <3>2 DEF Range, parseTXTClaim
      <3> QED
        BY <2>4, <3>1, <3>3 DEF Claimed
    <2> QED
      BY <2>3, <2>4
  <1> QED
    BY <1>1, <1>2

-----------------------------------------------------------------------------
(* How old an answer gets.                                                  *)

Kinds == {"lookup", "settings"}

\* No longer than some request may take.
Soon(d) == \E question \in Questions : d <= Waves(question[3]) * Timeout

\* An answer is younger than a resolution and the time it is kept.
Fresh(a) ==
  LET kept == IF a.result.lowest = None THEN FallbackTTL ELSE a.result.lowest
  IN  \E question \in Questions :
        a.at - a.result.since < Waves(question[3]) * Timeout + Max({MinTTL, Min({MaxTTL, kept})})

AskShape(a) ==
  a = [kind |-> a.kind, resolver |-> a.resolver, todo |-> a.todo, stale |-> a.stale,
       answers |-> a.answers, deadline |-> a.deadline, done |-> a.done]

LookupShape(l) ==
  l = [key |-> l.key, deadline |-> l.deadline, dead |-> l.dead, since |-> l.since,
       from |-> l.from, stored |-> l.stored]

\* A request's context ends in time, and so do refreshes.
AskOK(a, now) ==
  /\ AskShape(a) /\ a.kind \in Kinds
  /\ a.deadline \in Int /\ Soon(a.deadline - now) /\ Soon(Timeout)
  /\ \A h \in DOMAIN a.answers : Fresh(a.answers[h])

\* What is cached was fetched in time and is kept for its TTL.
EntryOK(e) ==
  /\ e.result.since \in Int /\ e.result.lowest \in Nat \cup {None} /\ e.fetchedAt \in Int
  /\ e.ttl = TTL(e.result.lowest)
  /\ Soon(e.fetchedAt - e.result.since)

\* A resolution is of a request, or a refresh, and ends in time.
LookupOK(by, l, as, now) ==
  /\ LookupShape(l) /\ l.key[1] \in Kinds
  /\ l.since \in Int /\ l.from \in Nat \ {0} /\ l.deadline \in Int
  /\ Soon(now - l.since)
  /\ by = <<by[1], by[2]>> /\ by[1] \in {0} \cup DOMAIN as
  /\ Soon((IF by[1] = 0 THEN l.deadline ELSE as[by[1]].deadline) - l.since)

DnsInv ==
  /\ dnsNow \in Nat /\ zone \in DOMAIN Zone
  /\ asks \in Seq(Range(asks))
  /\ \A i \in DOMAIN asks : AskOK(asks[i], dnsNow)
  /\ \A k \in DOMAIN entries : EntryOK(entries[k])
  /\ \A by \in DOMAIN lookups : LookupOK(by, lookups[by], asks, dnsNow)
  /\ RefreshesTracked

\* The zone has a content to begin with.
LEMMA ZoneIsSeq == DOMAIN Zone = 1..Len(Zone) /\ Len(Zone) \in Nat /\ 1 \in DOMAIN Zone
  <1>1. Zone \in Seq(Range(Zone)) /\ Zone # <<>>
    BY DnsAssumption
  <1> DEFINE S == Range(Zone)
  <1> HIDE DEF S
  <1>2. Zone \in Seq(S)
    BY <1>1 DEF S
  <1>3. DOMAIN Zone = 1..Len(Zone) /\ Len(Zone) \in Nat \ {0}
    BY <1>1, <1>2, LenProperties, EmptySeq
  <1> QED
    BY <1>3

\* A request with a hostname waits for at least one lookup.
LEMMA WavesAre ==
  ASSUME NEW question \in Questions
  PROVE  /\ Waves(question[3]) * Timeout \in Nat
         /\ question[3] # {} => Timeout <= Waves(question[3]) * Timeout
  <1> DEFINE n == Cardinality(question[3])
             w == Waves(question[3])
  <1>1. n \in Nat /\ (question[3] # {} => n >= 1)
    <2>1. IsFiniteSet(question[3])
      BY DnsAssumption
    <2>2. n \in Nat /\ (n = 0 <=> question[3] = {})
      BY <2>1, FS_CardinalityType, FS_EmptySet
    <2> QED
      BY <2>2
  <1>2. w = (n + Slots - 1) \div Slots
    BY DEF Waves
  <1> HIDE DEF n, w
  <1>3. n + Slots - 1 \in Nat /\ (n >= 1 => n + Slots - 1 >= Slots)
    BY <1>1, LimitsAre
  <1>4. w \in Nat /\ (n >= 1 => w >= 1)
    BY <1>2, <1>3, LimitsAre
  <1>5. w * Timeout \in Nat /\ (w >= 1 => Timeout <= w * Timeout)
    BY <1>4, LimitsAre
  <1> QED
    BY <1>1, <1>4, <1>5 DEF w

\* What ends in time does so against a later deadline.
LEMMA Sooner ==
  ASSUME NEW d \in Int, NEW e \in Int, e <= d, Soon(d)
  PROVE  Soon(e)
  BY WavesAre DEF Soon

\* A result is fresh when it arrives, and for as long as it is cached.
LEMMA FreshIs ==
  ASSUME NEW a, a.at \in Int, a.result.since \in Int, a.result.lowest \in Nat \cup {None},
         NEW t \in Int, Soon(t - a.result.since), a.at - t < TTL(a.result.lowest)
  PROVE  Fresh(a)
  <1> DEFINE kept == IF a.result.lowest = None THEN FallbackTTL ELSE a.result.lowest
  <1>1. TTL(a.result.lowest) = Max({MinTTL, Min({MaxTTL, kept})}) /\ TTL(a.result.lowest) \in Nat
    BY TTLIs DEF clampCacheTTL
  <1>2. PICK question \in Questions : t - a.result.since <= Waves(question[3]) * Timeout
    BY DEF Soon
  <1>3. Waves(question[3]) * Timeout \in Nat
    BY WavesAre
  <1>4. a.at - a.result.since < Waves(question[3]) * Timeout + TTL(a.result.lowest)
    BY <1>1, <1>2, <1>3
  <1> QED
    BY <1>1, <1>4 DEF Fresh

\* Replacing one request by another.
LEMMA OneReplaced ==
  ASSUME NEW s, s \in Seq(Range(s)), NEW i \in DOMAIN s, NEW b, NEW t, t = [s EXCEPT ![i] = b]
  PROVE  /\ t \in Seq(Range(t)) /\ DOMAIN t = DOMAIN s
         /\ t[i] = b /\ \A j \in DOMAIN s : j # i => t[j] = s[j]
  <1>1. DOMAIN t = DOMAIN s /\ t[i] = b /\ \A j \in DOMAIN s : j # i => t[j] = s[j]
    OBVIOUS
  <1>2. DOMAIN s = 1..Len(s) /\ Len(s) \in Nat
    OBVIOUS
  <1>3. t \in Seq(Range(s) \cup {b})
    <2>1. s \in Seq(Range(s) \cup {b}) /\ b \in Range(s) \cup {b} /\ i \in 1..Len(s)
      BY <1>2 DEF Range
    <2> QED
      BY <2>1, ExceptSeq
  <1> QED
    BY <1>1, <1>3, SeqOfRange

\* A request goes on: its resolutions stay in time as long as its context does
\* not end later than it would have, or it has none.
LEMMA AskGoesOn ==
  ASSUME DnsInv, NEW i \in DOMAIN asks, NEW b, asks' = [asks EXCEPT ![i] = b],
         AskOK(b, dnsNow), dnsNow' = dnsNow,
         b.deadline <= asks[i].deadline \/ \A by \in DOMAIN lookups : by[1] # i
  PROVE  /\ asks' \in Seq(Range(asks')) /\ DOMAIN asks' = DOMAIN asks
         /\ \A j \in DOMAIN asks' : AskOK(asks'[j], dnsNow')
         /\ \A by \in DOMAIN lookups : LookupOK(by, lookups[by], asks', dnsNow')
  <1>1. asks \in Seq(Range(asks)) /\ \A j \in DOMAIN asks : AskOK(asks[j], dnsNow)
    BY DEF DnsInv
  <1>2. /\ asks' \in Seq(Range(asks')) /\ DOMAIN asks' = DOMAIN asks
        /\ asks'[i] = b /\ \A j \in DOMAIN asks : j # i => asks'[j] = asks[j]
    BY <1>1, OneReplaced
  <1>3. \A j \in DOMAIN asks' : AskOK(asks'[j], dnsNow')
    BY <1>1, <1>2
  <1>4. ASSUME NEW by \in DOMAIN lookups PROVE LookupOK(by, lookups[by], asks', dnsNow')
    <2> DEFINE l == lookups[by]
    <2>1. LookupOK(by, l, asks, dnsNow)
      BY DEF DnsInv
    <2>2. CASE by[1] # i
      BY <1>2, <2>1, <2>2 DEF LookupOK
    <2>3. CASE by[1] = i
      <3>1. b.deadline <= asks[i].deadline /\ b.deadline \in Int /\ asks[i].deadline \in Int
        BY <1>1, <2>3 DEF AskOK
      <3>2. i # 0
        BY <1>1
      <3>3. l.since \in Int /\ Soon(asks[i].deadline - l.since)
        BY <2>1, <2>3, <3>2 DEF LookupOK
      <3>4. Soon(b.deadline - l.since)
        <4>1. b.deadline - l.since \in Int /\ asks[i].deadline - l.since \in Int
              /\ b.deadline - l.since <= asks[i].deadline - l.since
          BY <3>1, <3>3
        <4> QED
          BY <3>3, <4>1, Sooner
      <3> QED
        BY <1>2, <2>1, <2>3, <3>2, <3>4 DEF LookupOK
    <2> QED
      BY <2>2, <2>3
  <1> QED
    BY <1>2, <1>3, <1>4

\* A resolution that begins now ends in time if its context does.
LEMMA ResolutionBegins ==
  ASSUME DnsInv, NEW key, key[1] \in Kinds, NEW deadline \in Int, NEW as, NEW by,
         by = <<by[1], by[2]>>, by[1] \in {0} \cup DOMAIN as,
         by[1] # 0 => as[by[1]].deadline = deadline, Soon(deadline - dnsNow), Soon(Timeout)
  PROVE  LookupOK(by, NewResolution(key, deadline), as, dnsNow)
  <1> DEFINE l == NewResolution(key, deadline)
  <1>1. /\ LookupShape(l) /\ l.key = key /\ l.since = dnsNow /\ l.from = zone /\ l.deadline = deadline
    BY DEF NewResolution, LookupShape
  <1> HIDE DEF l
  <1>2. dnsNow \in Int /\ zone \in Nat \ {0}
    BY ZoneIsSeq DEF DnsInv
  <1>3. Soon(dnsNow - dnsNow)
    <2>1. dnsNow - dnsNow \in Int /\ Timeout \in Int /\ dnsNow - dnsNow <= Timeout
      BY <1>2, LimitsAre
    <2> QED
      BY <2>1, Sooner
  <1>4. Soon((IF by[1] = 0 THEN l.deadline ELSE as[by[1]].deadline) - l.since)
    BY <1>1
  <1>5. LookupOK(by, l, as, dnsNow)
    BY <1>1, <1>2, <1>3, <1>4 DEF LookupOK
  <1> QED
    BY <1>5 DEF l

\* What a resolution may end with, and that it is fresh then.
LEMMA ResultsAre ==
  ASSUME DnsInv, NEW by \in DOMAIN lookups, NEW result \in Results(lookups[by])
  PROVE  /\ EntryOK([result |-> result, ttl |-> TTL(result.lowest), fetchedAt |-> dnsNow])
         /\ Fresh([result |-> result, at |-> dnsNow])
  <1> DEFINE l == lookups[by]
             versions == IF l.dead THEN {} ELSE l.from..zone
  <1>1. /\ l.key[1] \in Kinds /\ l.since \in Int /\ l.from \in Nat \ {0} /\ Soon(dnsNow - l.since)
        /\ dnsNow \in Int /\ zone \in DOMAIN Zone
    BY DEF DnsInv, LookupOK
  <1>2. versions \in SUBSET DOMAIN Zone
    <2>1. DOMAIN Zone = 1..Len(Zone) /\ Len(Zone) \in Nat
      BY ZoneIsSeq
    <2> QED
      BY <1>1, <2>1
  <1>3. result.since = l.since /\ result.lowest \in LowestTTLs[l.key[1]][versions]
    BY DEF Results
  <1>4. LowestTTLs[l.key[1]][versions]
          = {Lowest(l.key[1], o.records) : o \in Outcomes(l.key[1], versions)}
    BY <1>1, <1>2 DEF LowestTTLs, Kinds
  <1> HIDE DEF versions, l
  <1>5. result.lowest \in Nat \cup {None}
    BY <1>1, <1>2, <1>3, <1>4, LowestIs DEF Kinds
  <1> DEFINE e == [result |-> result, ttl |-> TTL(result.lowest), fetchedAt |-> dnsNow]
             a == [result |-> result, at |-> dnsNow]
  <1>6. e.result = result /\ e.ttl = TTL(result.lowest) /\ e.fetchedAt = dnsNow
    OBVIOUS
  <1>7. a.result = result /\ a.at = dnsNow
    OBVIOUS
  <1> HIDE DEF e, a
  <1>8. EntryOK(e)
    BY <1>1, <1>3, <1>5, <1>6 DEF EntryOK
  <1>9. Fresh(a)
    <2>1. dnsNow - dnsNow < TTL(result.lowest)
      <3>1. TTL(result.lowest) \in Nat \ {0}
        BY <1>5, TTLIs
      <3> QED
        BY <1>1, <3>1
    <2> QED
      BY <1>1, <1>3, <1>5, <1>7, <2>1, FreshIs
  <1> QED
    BY <1>8, <1>9 DEF e, a

\* A new request.
LEMMA AskKeeps ==
  ASSUME DnsInv, NEW question \in Questions, AskAbout(question[1], question[2], question[3])
  PROVE  DnsInv'
  <1> DEFINE a == [kind |-> question[1], resolver |-> question[2], todo |-> question[3], stale |-> {},
                   answers |-> NoLookups, deadline |-> dnsNow + Waves(question[3]) * Timeout,
                   done |-> FALSE]
  <1>1. /\ asks' = Append(asks, a) /\ question[3] # {}
        /\ UNCHANGED <<dnsNow, zone, entries, refreshing, lookups>>
    BY DEF AskAbout
  <1>2. /\ asks \in Seq(Range(asks)) /\ dnsNow \in Nat
        /\ \A i \in DOMAIN asks : AskOK(asks[i], dnsNow)
    BY DEF DnsInv
  <1>3. /\ Waves(question[3]) * Timeout \in Nat /\ Timeout <= Waves(question[3]) * Timeout
        /\ question[1] \in Kinds
    BY <1>1, WavesAre, DnsAssumption DEF Kinds
  <1>4. AskOK(a, dnsNow)
    <2>1. /\ AskShape(a) /\ a.kind = question[1] /\ a.answers = NoLookups
          /\ a.deadline = dnsNow + Waves(question[3]) * Timeout
      BY DEF AskShape
    <2> HIDE DEF a
    <2>2. a.deadline \in Int /\ a.deadline - dnsNow <= Waves(question[3]) * Timeout
      BY <1>2, <1>3, <2>1
    <2>3. DOMAIN a.answers = {}
      BY <2>1 DEF NoLookups
    <2>4. Soon(a.deadline - dnsNow) /\ Soon(Timeout)
      BY <1>3, <2>2 DEF Soon
    <2> QED
      BY <1>3, <2>1, <2>2, <2>3, <2>4 DEF AskOK
  <1> HIDE DEF a
  <1>5. /\ DOMAIN asks = 1..Len(asks) /\ DOMAIN asks' = 1..(Len(asks) + 1) /\ Len(asks) \in Nat
        /\ \A i \in 1..Len(asks) : asks'[i] = asks[i]
        /\ asks'[Len(asks) + 1] = a
        /\ asks' \in Seq(Range(asks) \cup {a})
    BY <1>1, <1>2
  <1>6. asks' \in Seq(Range(asks'))
    BY <1>5, SeqOfRange
  <1>7. \A i \in DOMAIN asks' : AskOK(asks'[i], dnsNow')
    BY <1>1, <1>2, <1>4, <1>5
  <1>8. ASSUME NEW by \in DOMAIN lookups PROVE LookupOK(by, lookups[by], asks', dnsNow')
    <2>1. LookupOK(by, lookups[by], asks, dnsNow)
      BY DEF DnsInv
    <2>2. by[1] # 0 => by[1] \in 1..Len(asks) /\ asks'[by[1]] = asks[by[1]]
      BY <1>5, <2>1 DEF LookupOK
    <2>3. by[1] \in {0} \cup DOMAIN asks'
      BY <1>5, <2>1 DEF LookupOK
    <2> QED
      BY <1>1, <2>1, <2>2, <2>3 DEF LookupOK
  <1> QED
    BY <1>1, <1>6, <1>7, <1>8 DEF DnsInv, RefreshesTracked

\* A request that is answered or left has no resolution that would outlive it.
LEMMA AskEnds ==
  ASSUME DnsInv, NEW i \in DOMAIN asks, Respond(i) \/ ClientLeaves(i)
  PROVE  DnsInv'
  <1> DEFINE a == asks[i]
  <1>1. AskOK(a, dnsNow) /\ dnsNow \in Nat
    BY DEF DnsInv
  <1>2. UNCHANGED <<dnsNow, zone, entries, refreshing, lookups>>
    BY DEF Respond, ClientLeaves
  <1>3. \E b : /\ asks' = [asks EXCEPT ![i] = b] /\ AskOK(b, dnsNow)
               /\ b.deadline <= a.deadline \/ \A by \in DOMAIN lookups : by[1] # i
    <2>1. CASE Respond(i)
      <3> DEFINE b == [a EXCEPT !.done = TRUE, !.answers = NoLookups, !.deadline = 0]
      <3>1. asks' = [asks EXCEPT ![i] = b]
        BY <2>1 DEF Respond
      <3>2. Busy(i) = {}
        BY <2>1 DEF Respond
      <3>3. \A by \in DOMAIN lookups : by[1] # i
        BY <3>2 DEF Busy
      <3>4. /\ AskShape(b) /\ b.kind = a.kind /\ b.answers = NoLookups /\ b.deadline = 0
        <4>1. AskShape(a) /\ b = [a EXCEPT !.done = TRUE, !.answers = NoLookups, !.deadline = 0]
          BY <1>1 DEF AskOK
        <4> HIDE DEF b, a
        <4> QED
          BY <4>1 DEF AskShape
      <3> HIDE DEF b
      <3>5. DOMAIN b.answers = {}
        BY <3>4 DEF NoLookups
      <3>6. Soon(0 - dnsNow)
        <4>1. 0 - dnsNow \in Int /\ Timeout \in Int /\ 0 - dnsNow <= Timeout
          BY <1>1, LimitsAre
        <4> QED
          BY <1>1, <4>1, Sooner DEF AskOK
      <3>7. AskOK(b, dnsNow)
        BY <1>1, <3>4, <3>5, <3>6 DEF AskOK
      <3> QED
        BY <3>1, <3>3, <3>7
    <2>2. CASE ClientLeaves(i)
      <3> DEFINE b == [a EXCEPT !.deadline = dnsNow]
      <3>1. asks' = [asks EXCEPT ![i] = b] /\ a.deadline > dnsNow
        BY <2>2 DEF ClientLeaves
      <3>2. /\ AskShape(b) /\ b.kind = a.kind /\ b.answers = a.answers /\ b.deadline = dnsNow
        <4>1. AskShape(a) /\ b = [a EXCEPT !.deadline = dnsNow]
          BY <1>1 DEF AskOK
        <4> HIDE DEF b, a
        <4> QED
          BY <4>1 DEF AskShape
      <3> HIDE DEF b
      <3>3. Soon(dnsNow - dnsNow)
        <4>1. dnsNow - dnsNow \in Int /\ Timeout \in Int /\ dnsNow - dnsNow <= Timeout
          BY <1>1, LimitsAre
        <4> QED
          BY <1>1, <4>1, Sooner DEF AskOK
      <3>4. AskOK(b, dnsNow)
        BY <1>1, <3>2, <3>3 DEF AskOK
      <3>5. b.deadline <= a.deadline
        BY <1>1, <3>1, <3>2 DEF AskOK
      <3> QED
        BY <3>1, <3>4, <3>5
    <2> QED
      BY <2>1, <2>2
  <1>4. /\ asks' \in Seq(Range(asks')) /\ \A j \in DOMAIN asks' : AskOK(asks'[j], dnsNow')
        /\ \A by \in DOMAIN lookups : LookupOK(by, lookups[by], asks', dnsNow')
    BY <1>2, <1>3, AskGoesOn
  <1> QED
    BY <1>2, <1>4 DEF DnsInv, RefreshesTracked

\* A hostname is looked up in the cache: a hit is fresh, a miss is resolved.
LEMMA CachedKeeps ==
  ASSUME DnsInv, NEW i \in DOMAIN asks, NEW h, cachedFetch(i, h)
  PROVE  DnsInv'
  <1> DEFINE a == asks[i]
             key == Key(i, h)
             hit == ~skipCache(key) /\ key \in DOMAIN entries /\ ~expired(entries[key])
  <1>1. /\ AskOK(a, dnsNow) /\ dnsNow \in Nat /\ i # 0 /\ key[1] \in Kinds
    <2>1. AskOK(a, dnsNow) /\ dnsNow \in Nat /\ i # 0
      BY DEF DnsInv
    <2>2. key[1] = a.kind
      BY DEF Key
    <2> QED
      BY <2>1, <2>2 DEF AskOK
  <1>2. UNCHANGED <<dnsNow, zone, entries, refreshing>>
    BY DEF cachedFetch
  <1>3. CASE hit
    <2> DEFINE e == entries[key]
               x == [result |-> e.result, at |-> dnsNow]
               b == [a EXCEPT !.todo = @ \ {h},
                              !.stale = IF stale(e) THEN @ \cup {h} ELSE @,
                              !.answers = AnsweredFor(i, h, e.result)]
    <2>1. asks' = [asks EXCEPT ![i] = b] /\ UNCHANGED lookups
      BY <1>3 DEF cachedFetch
    <2>2. EntryOK(e) /\ ~expired(e)
      BY <1>3 DEF DnsInv
    <2>3. Fresh(x)
      <3>1. x.at = dnsNow /\ x.result = e.result
        OBVIOUS
      <3> HIDE DEF x
      <3>2. TTL(e.result.lowest) \in Nat /\ e.ttl = TTL(e.result.lowest) /\ e.fetchedAt \in Int
        BY <2>2, TTLIs DEF EntryOK
      <3>3. dnsNow - e.fetchedAt < TTL(e.result.lowest)
        BY <1>1, <2>2, <3>2 DEF expired
      <3> QED
        BY <1>1, <2>2, <3>1, <3>3, FreshIs DEF EntryOK
    <2>4. /\ AskShape(b) /\ b.kind = a.kind /\ b.deadline = a.deadline
          /\ b.answers = [k \in DOMAIN a.answers \cup {h} |-> IF k = h THEN x ELSE a.answers[k]]
      <3> DEFINE f == AnsweredFor(i, h, e.result)
      <3>1. f = [k \in DOMAIN a.answers \cup {h} |-> IF k = h THEN x ELSE a.answers[k]]
        BY DEF AnsweredFor
      <3> DEFINE t == a.todo \ {h}
                 s == IF stale(e) THEN a.stale \cup {h} ELSE a.stale
      <3>2. AskShape(a)
        BY <1>1 DEF AskOK
      <3>3. b = [a EXCEPT !.todo = t, !.stale = s, !.answers = f]
        OBVIOUS
      <3> HIDE DEF f, t, s, a, b
      <3>4. /\ AskShape(b) /\ b.kind = a.kind /\ b.deadline = a.deadline /\ b.answers = f
        BY <3>2, <3>3 DEF AskShape
      <3> QED
        BY <3>1, <3>4 DEF f, a
    <2> HIDE DEF b, x
    <2>5. \A k \in DOMAIN b.answers : Fresh(b.answers[k])
      BY <1>1, <2>3, <2>4 DEF AskOK
    <2>6. AskOK(b, dnsNow) /\ b.deadline <= a.deadline
      <3>1. /\ a.kind \in Kinds /\ a.deadline \in Int /\ Soon(a.deadline - dnsNow) /\ Soon(Timeout)
        BY <1>1 DEF AskOK
      <3>2. b.deadline \in Int /\ b.deadline <= a.deadline /\ b.kind \in Kinds
        BY <3>1, <2>4
      <3>3. Soon(b.deadline - dnsNow)
        BY <3>1, <2>4
      <3> HIDE DEF a
      <3> QED
        BY <2>4, <2>5, <3>1, <3>2, <3>3 DEF AskOK
    <2>7. /\ asks' \in Seq(Range(asks')) /\ \A j \in DOMAIN asks' : AskOK(asks'[j], dnsNow')
          /\ \A by \in DOMAIN lookups : LookupOK(by, lookups[by], asks', dnsNow')
      BY <1>2, <2>1, <2>6, AskGoesOn
    <2> QED
      BY <1>2, <2>1, <2>7 DEF DnsInv, RefreshesTracked
  <1>4. CASE ~hit
    <2> DEFINE b == [a EXCEPT !.todo = @ \ {h}]
               l == NewResolution(key, a.deadline)
               new == <<i, h>>
    <2>1. asks' = [asks EXCEPT ![i] = b] /\ lookups' = Start(lookups, new, key, a.deadline)
      BY <1>4 DEF cachedFetch
    <2>2. ASSUME NEW v, v = b
          PROVE  /\ AskShape(v) /\ v.kind = a.kind /\ v.deadline = a.deadline
                 /\ v.answers = a.answers
      BY <1>1, <2>2 DEF AskOK, AskShape
    <2>3. AskOK(b, dnsNow) /\ b.deadline = a.deadline /\ b.deadline <= a.deadline
      BY <1>1, <2>2 DEF AskOK
    <2> HIDE DEF b
    <2>4. /\ asks' \in Seq(Range(asks')) /\ \A j \in DOMAIN asks' : AskOK(asks'[j], dnsNow')
          /\ \A by \in DOMAIN lookups : LookupOK(by, lookups[by], asks', dnsNow')
          /\ DOMAIN asks' = DOMAIN asks
      BY <1>2, <2>1, <2>3, AskGoesOn
    <2>5. asks'[i] = b
      BY <2>1
    <2>6. new = <<new[1], new[2]>> /\ new[1] = i
      OBVIOUS
    <2> HIDE DEF new
    <2>7. LookupOK(new, l, asks', dnsNow)
      BY <1>1, <2>3, <2>4, <2>5, <2>6, ResolutionBegins DEF AskOK
    <2>8. /\ DOMAIN lookups' = DOMAIN lookups \cup {new}
          /\ \A by \in DOMAIN lookups' : lookups'[by] = IF by = new THEN l ELSE lookups[by]
      BY <2>1 DEF Start
    <2> HIDE DEF l
    <2>9. \A by \in DOMAIN lookups' : LookupOK(by, lookups'[by], asks', dnsNow')
      BY <1>2, <2>4, <2>7, <2>8
    <2>10. {b2 \in DOMAIN lookups' : b2[1] = 0} = {b2 \in DOMAIN lookups : b2[1] = 0}
      BY <1>1, <2>6, <2>8
    <2>11. RefreshesTracked'
      BY <1>2, <2>10 DEF DnsInv, RefreshesTracked
    <2> QED
      BY <1>2, <2>4, <2>9, <2>11 DEF DnsInv
  <1> QED
    BY <1>3, <1>4

\* A stale hit starts a refresh, unless one is in flight.
LEMMA RefreshBegins ==
  ASSUME DnsInv, NEW i \in DOMAIN asks, NEW h, refreshInBackground(i, h)
  PROVE  DnsInv'
  <1> DEFINE a == asks[i]
             key == Key(i, h)
             b == [a EXCEPT !.stale = @ \ {h}]
             new == <<0, key>>
             deadline == dnsNow + Timeout
             l == NewResolution(key, deadline)
  <1>1. AskOK(a, dnsNow) /\ dnsNow \in Nat /\ key[1] \in Kinds
    <2>1. AskOK(a, dnsNow) /\ dnsNow \in Nat
      BY DEF DnsInv
    <2>2. key[1] = a.kind
      BY DEF Key
    <2> QED
      BY <2>1, <2>2 DEF AskOK
  <1>2. asks' = [asks EXCEPT ![i] = b] /\ UNCHANGED <<dnsNow, zone, entries>>
    BY DEF refreshInBackground
  <1>3. ASSUME NEW v, v = b
        PROVE  /\ AskShape(v) /\ v.kind = a.kind /\ v.deadline = a.deadline
               /\ v.answers = a.answers
    BY <1>1, <1>3 DEF AskOK, AskShape
  <1>4. AskOK(b, dnsNow) /\ b.deadline <= a.deadline
    BY <1>1, <1>3 DEF AskOK
  <1> HIDE DEF b
  <1>5. /\ asks' \in Seq(Range(asks')) /\ \A j \in DOMAIN asks' : AskOK(asks'[j], dnsNow')
        /\ \A by \in DOMAIN lookups : LookupOK(by, lookups[by], asks', dnsNow')
    BY <1>2, <1>4, AskGoesOn
  <1>6. CASE key \in refreshing
    <2>1. UNCHANGED <<refreshing, lookups>>
      BY <1>6 DEF refreshInBackground
    <2> QED
      BY <1>2, <1>5, <2>1 DEF DnsInv, RefreshesTracked
  <1>7. CASE key \notin refreshing
    <2>1. refreshing' = refreshing \cup {key} /\ lookups' = Start(lookups, new, key, deadline)
      BY <1>7 DEF refreshInBackground
    <2>2. new = <<new[1], new[2]>> /\ new[1] = 0 /\ new[2] = key
      OBVIOUS
    <2>3. deadline \in Int /\ deadline - dnsNow = Timeout
      BY <1>1, LimitsAre
    <2> HIDE DEF new, deadline
    <2>4. LookupOK(new, l, asks', dnsNow)
      BY <1>1, <2>2, <2>3, ResolutionBegins DEF AskOK
    <2>5. /\ DOMAIN lookups' = DOMAIN lookups \cup {new}
          /\ \A by \in DOMAIN lookups' : lookups'[by] = IF by = new THEN l ELSE lookups[by]
      BY <2>1 DEF Start
    <2> HIDE DEF l, key
    <2>6. \A by \in DOMAIN lookups' : LookupOK(by, lookups'[by], asks', dnsNow')
      BY <1>2, <1>5, <2>4, <2>5
    <2>7. {by[2] : by \in {x \in DOMAIN lookups' : x[1] = 0}}
            = {by[2] : by \in {x \in DOMAIN lookups : x[1] = 0}} \cup {key}
      BY <2>2, <2>5
    <2>8. RefreshesTracked'
      BY <2>1, <2>7 DEF DnsInv, RefreshesTracked
    <2> QED
      BY <1>2, <1>5, <2>6, <2>8 DEF DnsInv
  <1> QED
    BY <1>6, <1>7

\* The last query of a resolution ends: what is kept and answered is fresh.
LEMMA ResolutionEnds ==
  ASSUME DnsInv, NEW by \in DOMAIN lookups, FetchEnds(by) \/ RefreshStores(by) \/ endRefresh(by)
  PROVE  DnsInv'
  <1>1. LookupOK(by, lookups[by], asks, dnsNow) /\ dnsNow \in Nat
    BY DEF DnsInv
  <1>2. UNCHANGED <<dnsNow, zone>>
    BY DEF FetchEnds, RefreshStores, endRefresh
  <1>3. ASSUME NEW result \in Results(lookups[by]), entries' = Stored(result)
        PROVE  \A k \in DOMAIN entries' : EntryOK(entries'[k])
    <2>1. EntryOK([result |-> result, ttl |-> TTL(result.lowest), fetchedAt |-> dnsNow])
      BY ResultsAre
    <2> QED
      BY <1>3, <2>1 DEF Stored, DnsInv
  <1>4. CASE FetchEnds(by)
    <2> DEFINE i == by[1]
               a == asks[i]
    <2>1. i # 0 /\ i \in DOMAIN asks /\ AskOK(a, dnsNow)
      BY <1>1, <1>4 DEF FetchEnds, LookupOK, DnsInv
    <2>2. PICK result \in Results(lookups[by]) :
            /\ entries' = IF skipCache(result.key) THEN entries ELSE Stored(result)
            /\ asks' = [asks EXCEPT ![i].answers = AnsweredFor(i, by[2], result)]
      BY <1>4 DEF FetchEnds
    <2>3. lookups' = Without(lookups, by) /\ UNCHANGED refreshing
      BY <1>4 DEF FetchEnds
    <2> DEFINE x == [result |-> result, at |-> dnsNow]
               h == by[2]
               f == AnsweredFor(i, h, result)
               b == [a EXCEPT !.answers = f]
    <2>4. Fresh(x)
      BY ResultsAre
    <2>5. f = [k \in DOMAIN a.answers \cup {h} |-> IF k = h THEN x ELSE a.answers[k]]
      BY DEF AnsweredFor
    <2>6. asks' = [asks EXCEPT ![i] = b]
      BY <2>2
    <2> HIDE DEF f, x, h
    <2>7. ASSUME NEW v, v = b
          PROVE  AskShape(v) /\ v.kind = a.kind /\ v.deadline = a.deadline /\ v.answers = f
      BY <2>1, <2>7 DEF AskOK, AskShape
    <2>8. b.kind = a.kind /\ b.deadline = a.deadline /\ b.answers = f /\ AskShape(b)
      BY <2>7
    <2> HIDE DEF b
    <2>9. AskOK(b, dnsNow) /\ b.deadline <= a.deadline
      BY <2>1, <2>4, <2>5, <2>8 DEF AskOK
    <2>10. /\ asks' \in Seq(Range(asks')) /\ \A j \in DOMAIN asks' : AskOK(asks'[j], dnsNow')
           /\ \A x2 \in DOMAIN lookups : LookupOK(x2, lookups[x2], asks', dnsNow')
      BY <1>2, <2>1, <2>6, <2>9, AskGoesOn
    <2>11. /\ DOMAIN lookups' = DOMAIN lookups \ {by}
           /\ \A x2 \in DOMAIN lookups' : lookups'[x2] = lookups[x2]
      BY <2>3 DEF Without
    <2>12. {x2 \in DOMAIN lookups' : x2[1] = 0} = {x2 \in DOMAIN lookups : x2[1] = 0}
      BY <2>1, <2>11
    <2>13. RefreshesTracked'
      BY <2>3, <2>12 DEF DnsInv, RefreshesTracked
    <2>14. \A k \in DOMAIN entries' : EntryOK(entries'[k])
      BY <1>3, <2>2 DEF DnsInv
    <2>15. \A x2 \in DOMAIN lookups' : LookupOK(x2, lookups'[x2], asks', dnsNow')
      BY <2>10, <2>11
    <2> QED
      BY <1>2, <2>10, <2>13, <2>14, <2>15 DEF DnsInv
  <1>5. CASE RefreshStores(by)
    <2> DEFINE l == lookups[by]
               m == [l EXCEPT !.stored = TRUE]
    <2>1. /\ \A k \in DOMAIN entries' : EntryOK(entries'[k])
          /\ lookups' = [lookups EXCEPT ![by] = m] /\ UNCHANGED <<refreshing, asks>>
      BY <1>3, <1>5 DEF RefreshStores
    <2>2. ASSUME NEW v, v = m
          PROVE  /\ LookupShape(v) /\ v.key = l.key /\ v.since = l.since /\ v.from = l.from
                 /\ v.deadline = l.deadline
      BY <1>1, <2>2 DEF LookupOK, LookupShape
    <2>3. LookupOK(by, m, asks, dnsNow)
      BY <1>1, <2>2 DEF LookupOK
    <2> HIDE DEF m
    <2>4. /\ DOMAIN lookups' = DOMAIN lookups
          /\ \A x \in DOMAIN lookups' : lookups'[x] = IF x = by THEN m ELSE lookups[x]
      BY <2>1
    <2>5. \A x \in DOMAIN lookups' : LookupOK(x, lookups'[x], asks', dnsNow')
      BY <1>2, <2>1, <2>3, <2>4 DEF DnsInv
    <2>6. RefreshesTracked'
      BY <2>1, <2>4 DEF DnsInv, RefreshesTracked
    <2> QED
      BY <1>2, <2>1, <2>5, <2>6 DEF DnsInv
  <1>6. CASE endRefresh(by)
    <2>1. /\ by[1] = 0 /\ refreshing' = refreshing \ {by[2]} /\ lookups' = Without(lookups, by)
          /\ UNCHANGED <<entries, asks>>
      BY <1>6 DEF endRefresh
    <2>2. /\ DOMAIN lookups' = DOMAIN lookups \ {by}
          /\ \A x \in DOMAIN lookups' : lookups'[x] = lookups[x]
      BY <2>1 DEF Without
    <2>3. ASSUME NEW x \in DOMAIN lookups, x[1] = 0, x[2] = by[2] PROVE x = by
      <3>1. x = <<x[1], x[2]>> /\ by = <<by[1], by[2]>>
        BY DEF DnsInv, LookupOK
      <3> QED
        BY <2>1, <2>3, <3>1
    <2>4. RefreshesTracked'
      BY <2>1, <2>2, <2>3 DEF DnsInv, RefreshesTracked
    <2>5. \A x \in DOMAIN lookups' : LookupOK(x, lookups'[x], asks', dnsNow')
      BY <1>2, <2>1, <2>2 DEF DnsInv
    <2> QED
      BY <1>2, <2>1, <2>4, <2>5 DEF DnsInv
  <1> QED
    BY <1>4, <1>5, <1>6

\* Time only passes while every resolution is within its deadline.
LEMMA TickKeeps == DnsInv /\ DnsTick => DnsInv'
  <1> SUFFICES ASSUME DnsInv, DnsTick PROVE DnsInv'
    OBVIOUS
  <1>1. /\ dnsNow' = dnsNow + 1 /\ UNCHANGED <<zone, entries, refreshing, lookups, asks>>
        /\ \A by \in DOMAIN lookups : Deadline(by) > dnsNow
    BY DEF DnsTick
  <1>2. dnsNow \in Nat /\ dnsNow' \in Nat
    BY <1>1 DEF DnsInv
  <1>3. ASSUME NEW i \in DOMAIN asks PROVE AskOK(asks[i], dnsNow')
    <2>1. AskOK(asks[i], dnsNow)
      BY DEF DnsInv
    <2>2. /\ asks[i].deadline - dnsNow \in Int /\ asks[i].deadline - dnsNow' \in Int
          /\ asks[i].deadline - dnsNow' <= asks[i].deadline - dnsNow
      BY <1>1, <1>2, <2>1 DEF AskOK
    <2>3. Soon(asks[i].deadline - dnsNow')
      BY <2>1, <2>2, Sooner DEF AskOK
    <2> QED
      BY <2>1, <2>3 DEF AskOK
  <1>4. ASSUME NEW by \in DOMAIN lookups PROVE LookupOK(by, lookups[by], asks, dnsNow')
    <2> DEFINE l == lookups[by]
               d == IF by[1] = 0 THEN l.deadline ELSE asks[by[1]].deadline
    <2>1. LookupOK(by, l, asks, dnsNow) /\ d > dnsNow
      BY <1>1 DEF DnsInv, Deadline
    <2>2. d \in Int /\ l.since \in Int /\ Soon(d - l.since)
      BY <2>1 DEF LookupOK, DnsInv, AskOK
    <2> HIDE DEF d
    <2>3. dnsNow' - l.since <= d - l.since /\ dnsNow' - l.since \in Int /\ d - l.since \in Int
      BY <1>1, <1>2, <2>1, <2>2
    <2>4. Soon(dnsNow' - l.since)
      BY <2>2, <2>3, Sooner
    <2> QED
      BY <2>1, <2>4 DEF LookupOK
  <1> QED
    BY <1>1, <1>2, <1>3, <1>4 DEF DnsInv, RefreshesTracked

\* What the backend answers about a name is not older than a request and the
\* TTL, refreshes in flight are those claimed, and answers mean what they say
\* (cache.go, lookup.go, dnssettings.go, dnsquery.go).
THEOREM AnswersStayFresh == DnsSpec => []AnswersFresh
  <1>1. DnsInit => DnsInv
    <2> SUFFICES ASSUME DnsInit PROVE DnsInv
      OBVIOUS
    <2>1. asks \in Seq(Range(asks)) /\ DOMAIN asks = {} /\ dnsNow \in Nat
      BY DEF DnsInit, Range
    <2>2. zone \in DOMAIN Zone
      BY ZoneIsSeq DEF DnsInit
    <2>3. DOMAIN entries = {} /\ DOMAIN lookups = {} /\ refreshing = {}
      BY DEF DnsInit, NoLookups
    <2> QED
      BY <2>1, <2>2, <2>3 DEF DnsInv, RefreshesTracked
  <1>2. DnsInv /\ [DnsNext]_dnsVars => DnsInv'
    <2> SUFFICES ASSUME DnsInv, [DnsNext]_dnsVars PROVE DnsInv'
      OBVIOUS
    <2>1. CASE ZoneChanges
      <3>1. zone' \in DOMAIN Zone /\ UNCHANGED <<dnsNow, entries, refreshing, lookups, asks>>
        BY <2>1, ZoneIsSeq DEF ZoneChanges, DnsInv
      <3> QED
        BY <3>1 DEF DnsInv, RefreshesTracked
    <2>2. CASE UNCHANGED dnsVars
      BY <2>2 DEF dnsVars, DnsInv, RefreshesTracked
    <2> QED
      BY <2>1, <2>2, AskKeeps, AskEnds, CachedKeeps, RefreshBegins, ResolutionEnds, TickKeeps
         DEF DnsNext
  <1>3. DnsInv => AnswersFresh
    <2> SUFFICES ASSUME DnsInv PROVE NotTooOld /\ RefreshesTracked
      BY AnswersMean DEF AnswersFresh
    <2>1. \A a \in Answers : Fresh(a)
      BY DEF DnsInv, AskOK, Answers
    <2> QED
      BY <2>1 DEF NotTooOld, Fresh, DnsInv
  <1> QED
    BY <1>1, <1>2, <1>3, PTL DEF DnsSpec

-----------------------------------------------------------------------------
(* References of Flux objects.                                              *)

\* The specs there may be.
SpecOf(id, spec) == \E specs \in Specs : id \in DOMAIN specs /\ spec = specs[id]

\* An object has a spec there may be, and was annotated by a request, or by none.
ObjectOf(id, o, n) ==
  /\ SpecOf(id, o.spec)
  /\ o \in [spec : {o.spec}, suspend : BOOLEAN, requested : 0..n, forced : {o.forced}, reset : {o.reset}]

\* A request that has a source to annotate has done so before it goes on; until
\* then nothing is annotated on its behalf.
RequestOf(objs, r, q) ==
  /\ q \in [id : {q.id}, action : {q.action}, at : {"resolve", "source", "patch", "done"},
            source : {q.source}, answer : {q.answer}, noted : BOOLEAN]
  /\ q.at # "done" => q.answer = None
  /\ q.at = "resolve" => q.action = "reconcile-with-source" /\ q.source = None
  /\ q.at \in {"resolve", "source"} => \A o \in DOMAIN objs : objs[o].requested # r
  /\ q.at = "patch" /\ q.action = "reconcile-with-source" /\ q.source \notin {None, q.id} => q.noted
  /\ (q.answer = "ok" \/ (q.id \in DOMAIN objs /\ objs[q.id].requested = r))
       /\ q.action = "reconcile-with-source" /\ q.source \notin {None, q.id} => q.noted

\* What holds of all objects and requests together.
FluxInv ==
  /\ \E S : requests \in Seq(S)
  /\ objects = [id \in DOMAIN objects |-> objects[id]]
  /\ \A id \in DOMAIN objects : ObjectOf(id, objects[id], Len(requests))
  /\ \A r \in DOMAIN requests : RequestOf(objects, r, requests[r])

\* Nothing was requested to begin with.
LEMMA FluxInvInit == FluxInit => FluxInv
  <1> SUFFICES ASSUME FluxInit PROVE FluxInv
    OBVIOUS
  <1>1. PICK specs \in Specs : objects = [id \in DOMAIN specs |-> NewObject(specs[id])]
    BY DEF FluxInit
  <1>2. requests = <<>>
    BY DEF FluxInit
  <1>3. requests \in Seq({}) /\ Len(requests) = 0 /\ DOMAIN requests = {}
    BY <1>2
  <1>4. ASSUME NEW id \in DOMAIN objects PROVE ObjectOf(id, objects[id], 0)
    <2>1. id \in DOMAIN specs /\ objects[id] = NewObject(specs[id])
      BY <1>1
    <2> QED
      BY <2>1 DEF ObjectOf, SpecOf, NewObject
  <1> QED
    BY <1>1, <1>3, <1>4 DEF FluxInv

\* What is annotated on behalf of a request as before says of it what it did.
LEMMA RequestStays ==
  ASSUME NEW r, NEW q, RequestOf(objects, r, q),
         \A id \in DOMAIN objects' :
           objects'[id].requested = r => id \in DOMAIN objects /\ objects[id].requested = r
  PROVE  RequestOf(objects', r, q)
  BY DEF RequestOf

\* A request moves on, and nothing is annotated on behalf of another one.
LEMMA RequestMoves ==
  ASSUME FluxInv, NEW r \in DOMAIN requests, NEW q, requests' = [requests EXCEPT ![r] = q],
         RequestOf(objects', r, q), objects' = [id \in DOMAIN objects' |-> objects'[id]],
         \A id \in DOMAIN objects' :
           /\ id \in DOMAIN objects /\ ObjectOf(id, objects'[id], Len(requests))
           /\ objects'[id].requested \in {objects[id].requested, r}
  PROVE  FluxInv'
  <1>1. PICK S : requests \in Seq(S)
    BY DEF FluxInv
  <1>2. requests' \in Seq(S \cup {q}) /\ Len(requests') = Len(requests)
        /\ DOMAIN requests' = DOMAIN requests
    BY <1>1
  <1>3. ASSUME NEW s \in DOMAIN requests PROVE RequestOf(objects', s, requests'[s])
    <2>1. CASE s = r
      BY <1>1, <2>1
    <2>2. CASE s # r
      <3>1. requests'[s] = requests[s] /\ RequestOf(objects, s, requests[s])
        BY <1>1, <2>2 DEF FluxInv
      <3>2. RequestOf(objects', s, requests[s])
        BY <2>2, <3>1, RequestStays
      <3> QED
        BY <3>1, <3>2
    <2> QED
      BY <2>1, <2>2
  <1> QED
    BY <1>2, <1>3 DEF FluxInv

\* A new request: nothing is annotated on behalf of it.
LEMMA PickInv ==
  ASSUME FluxInv, NEW id, NEW action, Pick(id, action)
  PROVE  FluxInv'
  <1> DEFINE n == Len(requests)
             q == Request(id, action)
  <1>1. PICK S : requests \in Seq(S)
    BY DEF FluxInv
  <1>2. requests' = Append(requests, q) /\ objects' = objects
    BY DEF Pick
  <1>3. /\ requests' \in Seq(S \cup {q}) /\ Len(requests') = n + 1 /\ n \in Nat
        /\ requests'[n + 1] = q /\ \A s \in 1..n : requests'[s] = requests[s]
        /\ DOMAIN requests = 1..n /\ DOMAIN requests' = 1..(n + 1)
    <2>1. requests \in Seq(S \cup {q}) /\ n \in Nat /\ DOMAIN requests = 1..n
      BY <1>1
    <2> HIDE DEF q, n
    <2> QED
      BY <1>2, <2>1, AppendProperties DEF n
  <1>4. \A o \in DOMAIN objects : objects[o].requested \in 0..n
    BY DEF FluxInv, ObjectOf
  <1>5. \A o \in DOMAIN objects : ObjectOf(o, objects[o], n) /\ ObjectOf(o, objects[o], n + 1)
    BY <1>3, <1>4 DEF FluxInv, ObjectOf
  <1>6. RequestOf(objects', n + 1, q)
    <2>1. \A o \in DOMAIN objects : objects[o].requested # n + 1
      BY <1>3, <1>4
    <2> HIDE DEF n
    <2> QED
      BY <1>2, <2>1 DEF RequestOf, Request
  <1> HIDE DEF q
  <1>7. ASSUME NEW s \in 1..(n + 1) PROVE RequestOf(objects', s, requests'[s])
    <2>1. CASE s = n + 1
      BY <1>3, <1>6, <2>1
    <2>2. CASE s # n + 1
      <3>1. s \in 1..n
        BY <1>3, <2>2
      <3>2. RequestOf(objects, s, requests[s]) /\ requests'[s] = requests[s]
        BY <1>3, <3>1 DEF FluxInv
      <3> QED
        BY <1>2, <3>2, RequestStays
    <2> QED
      BY <2>1, <2>2
  <1> QED
    BY <1>2, <1>3, <1>5, <1>7 DEF FluxInv

\* A request ends with an error at any time.
LEMMA ErrorIs ==
  ASSUME NEW objs, NEW r, NEW p, RequestOf(objs, r, p), p.at # "done"
  PROVE  RequestOf(objs, r, [p EXCEPT !.at = "done", !.answer = "error"])
  <1> DEFINE q == [p EXCEPT !.at = "done", !.answer = "error"]
  <1>1. /\ q.id = p.id /\ q.action = p.action /\ q.at = "done" /\ q.source = p.source
        /\ q.answer = "error" /\ q.noted = p.noted
        /\ q \in [id : {q.id}, action : {q.action}, at : {"resolve", "source", "patch", "done"},
                  source : {q.source}, answer : {q.answer}, noted : BOOLEAN]
    BY DEF RequestOf
  <1> HIDE DEF q
  <1>2. RequestOf(objs, r, q)
    BY <1>1 DEF RequestOf
  <1> QED
    BY <1>2 DEF q

\* What the invariant says of one request, and of the objects beside it.
LEMMA OneRequest ==
  ASSUME FluxInv, NEW r \in DOMAIN requests
  PROVE  /\ RequestOf(objects, r, requests[r]) /\ Len(requests) \in Nat /\ r \in 1..Len(requests)
         /\ \A id \in DOMAIN objects :
              /\ ObjectOf(id, objects[id], Len(requests))
              /\ objects[id].requested \in {objects[id].requested, r}
         /\ objects = [id \in DOMAIN objects |-> objects[id]]
  BY DEF FluxInv

\* The source is looked up, and none is annotated yet.
LEMMA ResolveInv ==
  ASSUME FluxInv, NEW r \in DOMAIN requests, Resolve(r)
  PROVE  FluxInv'
  <1> DEFINE id == requests[r].id
             source == IF id \in DOMAIN objects THEN resolveSource(id) ELSE None
             q == IF id \notin DOMAIN objects \/ (source # None /\ source[1] \notin Reconcilable)
                    THEN [requests[r] EXCEPT !.at = "done", !.answer = "error"]
                    ELSE [requests[r] EXCEPT !.source = source, !.at = IF source = None THEN "patch" ELSE "source"]
  <1>1. requests' = [requests EXCEPT ![r] = q]
    BY DEF Resolve, Answered
  <1>2. objects' = objects /\ requests[r].at = "resolve"
    BY DEF Resolve
  <1>3. RequestOf(objects, r, requests[r])
    BY OneRequest
  <1> HIDE DEF source
  <1>4. RequestOf(objects, r, q)
    <2> DEFINE w == [requests[r] EXCEPT !.source = source, !.at = IF source = None THEN "patch" ELSE "source"]
    <2>1. RequestOf(objects, r, w)
      <3> DEFINE p == requests[r]
      <3>1. /\ w.id = p.id /\ w.action = p.action /\ w.source = source
            /\ w.at = IF source = None THEN "patch" ELSE "source"
            /\ w.answer = p.answer /\ w.noted = p.noted
            /\ w \in [id : {w.id}, action : {w.action}, at : {"resolve", "source", "patch", "done"},
                      source : {w.source}, answer : {w.answer}, noted : BOOLEAN]
        BY <1>3 DEF RequestOf
      <3>2. /\ p.at = "resolve" /\ p.action = "reconcile-with-source" /\ p.answer = None
            /\ \A o \in DOMAIN objects : objects[o].requested # r
        BY <1>2, <1>3 DEF RequestOf
      <3>3. w.answer # "ok" /\ w.at # "done" /\ w.at # "resolve" /\ (w.at = "patch" => w.source = None)
        BY <3>1, <3>2, FluxAssumption
      <3> HIDE DEF w, p
      <3> QED
        BY <3>1, <3>2, <3>3 DEF RequestOf
    <2>2. RequestOf(objects, r, [requests[r] EXCEPT !.at = "done", !.answer = "error"])
      BY <1>2, <1>3, ErrorIs
    <2> HIDE DEF w
    <2> QED
      BY <2>1, <2>2 DEF w
  <1> HIDE DEF q
  <1>5. RequestOf(objects', r, q)
    BY <1>2, <1>4, RequestStays
  <1> QED
    BY <1>1, <1>2, <1>5, OneRequest, RequestMoves

\* A request that fails has annotated what it had before.
LEMMA FailInv ==
  ASSUME FluxInv, NEW r \in DOMAIN requests, Fail(r)
  PROVE  FluxInv'
  <1> DEFINE q == [requests[r] EXCEPT !.at = "done", !.answer = "error"]
  <1>1. requests' = [requests EXCEPT ![r] = q]
    BY DEF Fail, Answered
  <1>2. objects' = objects /\ requests[r].at # "done"
    BY DEF Fail
  <1>3. RequestOf(objects, r, requests[r])
    BY OneRequest
  <1>4. RequestOf(objects, r, q)
    BY <1>2, <1>3, ErrorIs
  <1> HIDE DEF q
  <1>5. RequestOf(objects', r, q)
    BY <1>2, <1>4, RequestStays
  <1> QED
    BY <1>1, <1>2, <1>5, OneRequest, RequestMoves

\* The source is annotated on behalf of the request, which says so.
LEMMA PatchSourceInv ==
  ASSUME FluxInv, NEW r \in DOMAIN requests, PatchSource(r)
  PROVE  FluxInv'
  <1> DEFINE p == requests[r]
             source == p.source
             q == [p EXCEPT !.at = "patch", !.noted = TRUE]
  <1>1. RequestOf(objects, r, p) /\ p.at = "source"
    BY OneRequest DEF PatchSource
  <1>2. CASE source \in DOMAIN objects
    <2>1. /\ objects' = [objects EXCEPT ![source].requested = r]
          /\ requests' = [requests EXCEPT ![r] = q]
      BY <1>2 DEF PatchSource
    <2>2. ASSUME NEW id \in DOMAIN objects
          PROVE  /\ ObjectOf(id, objects'[id], Len(requests))
                 /\ objects'[id].requested \in {objects[id].requested, r}
      <3>1. ObjectOf(id, objects[id], Len(requests)) /\ r \in 0..Len(requests)
        BY OneRequest
      <3>2. objects'[id] = IF id = source THEN [objects[id] EXCEPT !.requested = r] ELSE objects[id]
        BY <2>1, <2>2
      <3> HIDE DEF source
      <3>3. CASE id = source
        <4>1. objects'[id] = [objects[id] EXCEPT !.requested = r]
          BY <3>2, <3>3
        <4> QED
          BY <3>1, <4>1 DEF ObjectOf
      <3>4. CASE id # source
        BY <3>1, <3>2, <3>4
      <3> QED
        BY <3>3, <3>4
    <2>3. objects' = [id \in DOMAIN objects' |-> objects'[id]] /\ DOMAIN objects' = DOMAIN objects
      BY <2>1, OneRequest
    <2>4. RequestOf(objects', r, q)
      <3>1. /\ q.id = p.id /\ q.action = p.action /\ q.at = "patch" /\ q.source = p.source
            /\ q.answer = p.answer /\ q.noted = TRUE
            /\ q \in [id : {q.id}, action : {q.action}, at : {"resolve", "source", "patch", "done"},
                      source : {q.source}, answer : {q.answer}, noted : BOOLEAN]
        BY <1>1 DEF RequestOf
      <3> HIDE DEF q, p
      <3> QED
        BY <1>1, <3>1 DEF RequestOf
    <2> HIDE DEF q, source, p
    <2> QED
      BY <2>1, <2>2, <2>3, <2>4, RequestMoves
  <1>3. CASE source \notin DOMAIN objects
    <2> DEFINE w == [p EXCEPT !.at = "done", !.answer = "error"]
    <2>1. objects' = objects /\ requests' = [requests EXCEPT ![r] = w]
      BY <1>3 DEF PatchSource, Answered
    <2>2. RequestOf(objects, r, w)
      BY <1>1, ErrorIs
    <2> HIDE DEF w, p, source
    <2>3. RequestOf(objects', r, w)
      BY <2>1, <2>2
    <2> QED
      BY <2>1, <2>3, OneRequest, RequestMoves
  <1> QED
    BY <1>2, <1>3

\* The object itself comes last.
LEMMA PatchObjectInv ==
  ASSUME FluxInv, NEW r \in DOMAIN requests, NEW lost \in BOOLEAN, PatchObject(r, lost)
  PROVE  FluxInv'
  <1> DEFINE p == requests[r]
             id == p.id
             answer == IF id \in DOMAIN objects /\ ~lost THEN "ok" ELSE "error"
             q == [p EXCEPT !.at = "done", !.answer = answer]
  <1>1. RequestOf(objects, r, p) /\ p.at = "patch"
    BY OneRequest DEF PatchObject
  <1>2. requests' = [requests EXCEPT ![r] = q]
    BY DEF PatchObject, Answered
  <1>3. ASSUME NEW objs
        PROVE  RequestOf(objs, r, q)
    <2>1. /\ q.id = p.id /\ q.action = p.action /\ q.at = "done" /\ q.source = p.source
          /\ q.answer = answer /\ q.noted = p.noted
          /\ q \in [id : {q.id}, action : {q.action}, at : {"resolve", "source", "patch", "done"},
                    source : {q.source}, answer : {q.answer}, noted : BOOLEAN]
      BY <1>1 DEF RequestOf
    <2> HIDE DEF q, p
    <2> QED
      BY <1>1, <2>1 DEF RequestOf
  <1> HIDE DEF q
  <1>4. CASE id \notin DOMAIN objects
    <2>1. objects' = objects
      BY <1>4 DEF PatchObject
    <2> QED
      BY <1>2, <1>3, <2>1, OneRequest, RequestMoves
  <1>5. CASE id \in DOMAIN objects /\ p.action \in {"suspend", "resume"}
    <2>1. objects' = [objects EXCEPT ![id].suspend = (p.action = "suspend")]
      BY <1>5 DEF PatchObject
    <2>2. ASSUME NEW o \in DOMAIN objects
          PROVE  /\ ObjectOf(o, objects'[o], Len(requests))
                 /\ objects'[o].requested = objects[o].requested
      <3> DEFINE suspend == (p.action = "suspend")
      <3>1. ObjectOf(o, objects[o], Len(requests)) /\ suspend \in BOOLEAN
        BY OneRequest
      <3>2. objects'[o] = IF o = id THEN [objects[o] EXCEPT !.suspend = suspend] ELSE objects[o]
        BY <2>1, <2>2
      <3> HIDE DEF id, suspend
      <3>3. CASE o = id
        <4>1. objects'[o] = [objects[o] EXCEPT !.suspend = suspend]
          BY <3>2, <3>3
        <4> QED
          BY <3>1, <4>1 DEF ObjectOf
      <3>4. CASE o # id
        BY <3>1, <3>2, <3>4
      <3> QED
        BY <3>3, <3>4
    <2>3. objects' = [o \in DOMAIN objects' |-> objects'[o]] /\ DOMAIN objects' = DOMAIN objects
      BY <2>1, OneRequest
    <2> QED
      BY <1>2, <1>3, <2>2, <2>3, RequestMoves
  <1>6. CASE id \in DOMAIN objects /\ p.action \notin {"suspend", "resume"}
    <2>1. objects' = Annotated(id, r)
      BY <1>6 DEF PatchObject
    <2> DEFINE forced(o) == IF p.action = "reconcile-force" THEN r ELSE objects[o].forced
               reset(o) == IF p.action = "reconcile-reset" THEN r ELSE objects[o].reset
    <2>2. ASSUME NEW o \in DOMAIN objects
          PROVE  /\ ObjectOf(o, objects'[o], Len(requests))
                 /\ objects'[o].requested \in {objects[o].requested, r}
      <3>1. ObjectOf(o, objects[o], Len(requests)) /\ r \in 0..Len(requests)
        BY OneRequest
      <3>2. CASE o = id
        <4>1. objects'[o] = [objects[o] EXCEPT !.requested = r, !.forced = forced(o), !.reset = reset(o)]
          BY <2>1, <2>2, <3>2 DEF Annotated
        <4> HIDE DEF forced, reset
        <4> QED
          BY <3>1, <4>1 DEF ObjectOf
      <3>3. CASE o # id
        <4>1. objects'[o] = objects[o]
          BY <2>1, <2>2, <3>3 DEF Annotated
        <4> QED
          BY <3>1, <4>1
      <3> QED
        BY <3>2, <3>3
    <2>3. objects' = [o \in DOMAIN objects' |-> objects'[o]] /\ DOMAIN objects' = DOMAIN objects
      BY <2>1, OneRequest DEF Annotated
    <2> QED
      BY <1>2, <1>3, <2>2, <2>3, RequestMoves
  <1> QED
    BY <1>4, <1>5, <1>6

\* Others leave what was annotated, if not the object.
LEMMA OthersInv ==
  ASSUME FluxInv, requests' = requests, objects' = [id \in DOMAIN objects' |-> objects'[id]],
         \A id \in DOMAIN objects' :
           /\ id \in DOMAIN objects /\ ObjectOf(id, objects'[id], Len(requests))
           /\ objects'[id].requested = objects[id].requested
  PROVE  FluxInv'
  BY RequestStays DEF FluxInv

\* An edit keeps what was annotated.
LEMMA EditInv ==
  ASSUME FluxInv, NEW id \in DOMAIN objects, NEW spec, SpecOf(id, spec), Edit(id, spec)
  PROVE  FluxInv'
  <1>1. objects' = [objects EXCEPT ![id].spec = spec] /\ requests' = requests
    BY DEF Edit
  <1>2. ASSUME NEW o \in DOMAIN objects
        PROVE  /\ ObjectOf(o, objects'[o], Len(requests))
               /\ objects'[o].requested = objects[o].requested
    <2>1. ObjectOf(o, objects[o], Len(requests))
      BY DEF FluxInv
    <2>2. CASE o = id
      <3>1. objects'[o] = [objects[o] EXCEPT !.spec = spec]
        BY <1>1, <1>2, <2>2
      <3> QED
        BY <2>1, <2>2, <3>1 DEF ObjectOf
    <2>3. CASE o # id
      <3>1. objects'[o] = objects[o]
        BY <1>1, <1>2, <2>3
      <3> QED
        BY <2>1, <3>1
    <2> QED
      BY <2>2, <2>3
  <1>3. objects' = [o \in DOMAIN objects' |-> objects'[o]] /\ DOMAIN objects' = DOMAIN objects
    BY <1>1 DEF FluxInv
  <1> QED
    BY <1>1, <1>2, <1>3, OthersInv

\* Every step of a reader, the API and others keeps the order.
LEMMA FluxInvStep == FluxInv /\ [FluxNext]_fluxVars => FluxInv'
  <1> SUFFICES ASSUME FluxInv, [FluxNext]_fluxVars PROVE FluxInv'
    OBVIOUS
  <1>1. ASSUME NEW id, NEW action, Pick(id, action) PROVE FluxInv'
    BY <1>1, PickInv
  <1>2. ASSUME NEW r \in DOMAIN requests, Resolve(r) \/ PatchSource(r) \/ Fail(r) PROVE FluxInv'
    BY <1>2, ResolveInv, PatchSourceInv, FailInv
  <1>3. ASSUME NEW r \in DOMAIN requests, NEW lost \in BOOLEAN, PatchObject(r, lost) PROVE FluxInv'
    BY <1>3, PatchObjectInv
  <1>4. ASSUME NEW specs \in Specs, NEW id \in DOMAIN specs \cap DOMAIN objects, Edit(id, specs[id])
        PROVE  FluxInv'
    <2>1. SpecOf(id, specs[id])
      BY DEF SpecOf
    <2> QED
      BY <1>4, <2>1, EditInv
  <1>5. ASSUME NEW id \in DOMAIN objects, DeleteObject(id) PROVE FluxInv'
    BY <1>5, OthersInv DEF DeleteObject, FluxInv
  <1>6. CASE Watched \/ UNCHANGED fluxVars
    BY <1>6 DEF Watched, fluxVars, FluxInv
  <1> QED
    BY <1>1, <1>2, <1>3, <1>4, <1>5, <1>6 DEF FluxNext

\* What the tabs list is what a reconcile would annotate.
LEMMA ReferencesAgree == FluxInv => ConsumersAgree
  <1> SUFFICES ASSUME FluxInv, rows = objects
               PROVE  /\ \A chart \in Shown("HelmChart") :
                           helmChartConsumers(chart) = {id \in Shown("HelmRelease") : resolveSource(id) = chart}
                      /\ \A git \in Shown("GitRepository") :
                           {id \in Shown("Kustomization") : resolveSource(id) = git}
                             = gitRepositoryConsumers(git) \cap Shown("Kustomization")
                      /\ \A x, y \in Shown("HelmRelease") : y \in dependencies(x) <=> x \in dependents(y)
    BY DEF ConsumersAgree
  <1>1. ASSUME NEW id \in DOMAIN objects
        PROVE  /\ id # None /\ id[3] # ""
               /\ id[1] = "HelmRelease" => objects[id].spec.chartRef # None \/ objects[id].spec.sourceRef # None
    <2>1. PICK specs \in Specs : id \in DOMAIN specs /\ objects[id].spec = specs[id]
      BY DEF FluxInv, ObjectOf, SpecOf
    <2> QED
      BY <2>1, FluxAssumption
  <1>2. ASSUME NEW chart \in Shown("HelmChart"), NEW id \in Shown("HelmRelease")
        PROVE  helmReleaseReferencesHelmChart(id, rows[id].spec, chart) <=> resolveSource(id) = chart
    <2> DEFINE spec == objects[id].spec
    <2>1. id \in DOMAIN objects /\ id[1] = "HelmRelease" /\ chart # None
          /\ (spec.chartRef # None \/ spec.sourceRef # None)
      BY <1>1 DEF Shown
    <2>2. CASE spec.chartRef # None
      <3>1. helmReleaseReferencesHelmChart(id, spec, chart) <=> matchesReference(spec.chartRef, id[2], chart)
        BY <2>2 DEF helmReleaseReferencesHelmChart, impliedHelmChartRef
      <3> QED
        BY <2>1, <2>2, <3>1 DEF matchesReference, resolveSource
    <2>3. CASE spec.chartRef = None
      BY <2>1, <2>3 DEF helmReleaseReferencesHelmChart, impliedHelmChartRef, matchesReference, resolveSource
    <2> QED
      BY <2>2, <2>3
  <1>3. ASSUME NEW git \in Shown("GitRepository"), NEW id \in Shown("Kustomization")
        PROVE  matchesReference(rows[id].spec.sourceRef, id[2], git) <=> resolveSource(id) = git
    <2>1. id \in DOMAIN objects /\ id[1] # "HelmRelease" /\ git # None
      BY <1>1 DEF Shown
    <2> QED
      BY <2>1 DEF matchesReference, resolveSource
  <1>4. ASSUME NEW x \in Shown("HelmRelease"), NEW y \in Shown("HelmRelease")
        PROVE  y \in dependencies(x) <=> x \in dependents(y)
    <2>1. y[3] # ""
      BY <1>1 DEF Shown
    <2>2. x \in dependents(y) <=>
            \E ref \in rows[x].spec.dependsOn : <<"HelmRelease", In(ref, x[2]), ref.name>> = y
      BY DEF dependents
    <2>3. ASSUME y \in dependencies(x) PROVE x \in dependents(y)
      BY <2>2, <2>3 DEF dependencies
    <2>4. ASSUME x \in dependents(y) PROVE y \in dependencies(x)
      <3>1. PICK ref \in rows[x].spec.dependsOn : <<"HelmRelease", In(ref, x[2]), ref.name>> = y
        BY <2>2, <2>4
      <3>2. ref.name # ""
        BY <2>1, <3>1
      <3> QED
        BY <3>1, <3>2 DEF dependencies
    <2> QED
      BY <2>3, <2>4
  <1>5. ASSUME NEW chart \in Shown("HelmChart")
        PROVE  helmChartConsumers(chart) = {id \in Shown("HelmRelease") : resolveSource(id) = chart}
    BY <1>2, <1>5 DEF helmChartConsumers
  <1>6. ASSUME NEW git \in Shown("GitRepository")
        PROVE  {id \in Shown("Kustomization") : resolveSource(id) = git}
                 = gitRepositoryConsumers(git) \cap Shown("Kustomization")
    <2>1. \A id \in Shown("Kustomization") : id \notin Shown("HelmRelease")
      BY DEF Shown
    <2> QED
      BY <1>3, <1>6, <2>1 DEF gitRepositoryConsumers
  <1> QED
    BY <1>4, <1>5, <1>6

\* However requests, edits and deletions interleave, nothing is annotated for a
\* reconcile with source before its source was, and what a tab lists is what a
\* reconcile would annotate.
THEOREM SourcesFirst == FluxSpec => [](ConsumersAgree /\ SourceFirst)
  <1>1. FluxInv => SourceFirst
    BY DEF FluxInv, RequestOf, SourceFirst
  <1>2. FluxInv => ConsumersAgree /\ SourceFirst
    BY <1>1, ReferencesAgree
  <1> QED
    BY <1>2, FluxInvInit, FluxInvStep, PTL DEF FluxSpec

-----------------------------------------------------------------------------
(* The file browser: what its parts are.                                    *)

\* A directory the tab asks the agent about.
CallOK(l) ==
  /\ l = [target |-> l.target, path |-> l.path, answer |-> l.answer]
  /\ l.target \in Range(Containers) /\ IsPath(l.path)

\* What is known of a directory.
DirOK(d) == d = [entries |-> d.entries, loading |-> d.loading, of |-> d.of]

\* The directories an operation has read again when it succeeds.
Rereads(r) ==
  CASE r.op.kind = "upload" -> {r.path}
    [] r.op.kind = "move" -> {parentPath(r.path), parentPath(r.op.destination)}
    [] r.op.kind = "mkdir" -> {parentPath(r.op.destination)}
    [] r.op.kind = "delete" -> {parentPath(r.path)}
    [] r.op.kind = "extract" -> {parentPath(ExtractsTo(r)), parentPath(r.path)}
    [] OTHER -> {}

\* The operations there are.
RunKinds == {"upload", "move", "mkdir", "delete", "extract", "archive", "info", "view", "download"}

\* An operation under way: whatever it is, it will have read again, when it
\* succeeds, the directories it adds an entry to or takes one from.
RunOK(r) ==
  /\ r = [op |-> r.op, path |-> r.path, refresh |-> r.refresh, target |-> r.target,
          answer |-> r.answer, alone |-> r.alone]
  /\ r.op.kind \in RunKinds /\ IsPath(r.path) /\ r.target \in Range(Containers)
  /\ r.alone \in BOOLEAN /\ r.answer \in {None, "ok", "failed"}
  /\ r.op.kind \in {"move", "mkdir"} => IsPath(r.op.destination)
  /\ r.op.kind = "extract" => IsPath(ExtractsTo(r))
  /\ Rereads(r) \subseteq r.refresh

\* A call under way, or kept at most once, is the only one for its path.
Single(p) == \A l \in CallsFor(p, listings) : listings[l] = 1 /\ CallsFor(p, listings) = {l}

\* A run that is to read the directory again has not ended.
Awaited(p) == \E i \in DOMAIN runs : runs[i].target = container /\ p \in runs[i].refresh

\* A listing is up to date, or will be replaced.
Honest(p, e) == e = List(fs[container], p) \/ Awaited(p)

\* What the tree holds for a directory, or the answer about to reach it, is
\* such a listing, and no second answer for it is on its way.
DirHonest(p) ==
  /\ Single(p)
  /\ CallsFor(p, listings) = {} /\ dirs[p].of = container => Honest(p, dirs[p].entries)
  /\ \A l \in CallsFor(p, listings) :
       l.target = container /\ l.answer # None /\ l.answer.ok => Honest(p, l.answer.entries)

\* What the variables hold: file systems, calls, the tree, the page, runs.
TreesOK == DOMAIN fs = Range(Containers) /\ \A c \in DOMAIN fs : IsTree(fs[c])
CallsOK == \A l \in DOMAIN listings : CallOK(l) /\ listings[l] \in Nat \ {0}
DirsOK == \A p \in DOMAIN dirs : IsPath(p) /\ DirOK(dirs[p])
PageOK == (menu # None => IsPath(menu.path)) /\ (dialog # None => IsPath(dialog.path))
RunsOK == steps \in Nat /\ DOMAIN runs \subseteq 1..steps /\ \A i \in DOMAIN runs : RunOK(runs[i])

\* A call is for a directory of the tree, or for one known to be out of date.
CallsKnown == \A l \in DOMAIN listings : l.path \in DOMAIN dirs \cup late

\* What keeps the tree up to date, outside the known gaps.
AllHonest == \A p \in DOMAIN dirs \ late : DirHonest(p)

\* TreeHonest says nothing of a directory while an operation runs or a call
\* is under way: this does, so that the end of either makes it true.
BrowserInv ==
  TreesOK /\ CallsOK /\ DirsOK /\ PageOK /\ RunsOK /\ CallsKnown /\ MarkersBacked /\ AllHonest

\* The k-th file of an upload: its path, its data, what a file holds, and how
\* far the chunk under way reaches.
NameAt(r, k) == joinPath(r.path, r.op.files[k])
Data(r, k) == Local[r.op.files[k]]
Holds(f, p, data) == p \in DOMAIN f /\ f[p] = File(data)
EndOf(r) ==
  LET end == r.op.offset + r.op.chunk  size == Len(Data(r, r.op.next))
  IN  IF end < size THEN end ELSE size

\* An upload alone in its container has written the files before the one in
\* turn, unless that one has the same name and is written over, and of this
\* one as much as was acknowledged.
UploadOK(r, f) ==
  LET op == r.op
  IN  /\ op = [kind |-> "upload", files |-> op.files, next |-> op.next, offset |-> op.offset, chunk |-> op.chunk]
      /\ op.files \in Seq(DOMAIN Local) /\ op.next \in 1..Len(op.files)
      /\ op.offset \in Nat /\ op.chunk \in Nat \ {0}
      /\ op.offset = 0 \/ op.offset < Len(Data(r, op.next))
      /\ r.alone =>
           /\ \A k \in 1..(op.next - 1) :
                op.files[k] # op.files[op.next] => Holds(f, NameAt(r, k), Data(r, k))
           /\ r.answer = None /\ op.offset > 0
                => Holds(f, NameAt(r, op.next), SubSeq(Data(r, op.next), 1, op.offset))
           /\ r.answer = "ok"
                => Holds(f, NameAt(r, op.next), SubSeq(Data(r, op.next), 1, EndOf(r)))

\* No other operation runs in the container of one that is alone.
UploadInv ==
  /\ \A i, j \in DOMAIN runs : i # j /\ runs[i].alone => runs[j].target # runs[i].target
  /\ \A i \in DOMAIN runs : runs[i].op.kind = "upload" => UploadOK(runs[i], fs[runs[i].target])

-----------------------------------------------------------------------------
(* Paths.                                                                   *)

\* Two paths are made of some names.
LEMMA PathsTogether ==
  ASSUME NEW p, NEW q, IsPath(p), IsPath(q)
  PROVE  \E S : p \in Seq(S) /\ q \in Seq(S)
  <1> DEFINE S == Range(p) \cup Range(q)
  <1>1. p \in Seq(S) /\ q \in Seq(S)
    BY SeqMonotonic DEF IsPath, Range
  <1> QED
    BY <1>1

\* Whatever is a sequence of something is a path.
LEMMA SeqIsPath ==
  ASSUME NEW S, NEW p \in Seq(S)
  PROVE  IsPath(p)
  BY SeqOfRange DEF IsPath

\* The root is a path.
LEMMA EmptyPath == IsPath(<<>>)
  BY SeqIsPath, EmptySeq

\* An entry of a directory: its parent, its name.
LEMMA AppendPath ==
  ASSUME NEW p, IsPath(p), NEW n
  PROVE  /\ IsPath(Append(p, n)) /\ Append(p, n) # <<>>
         /\ Front(Append(p, n)) = p /\ Last(Append(p, n)) = n
         /\ Len(Append(p, n)) = Len(p) + 1
  <1> DEFINE S == Range(p) \cup {n}
             q == Append(p, n)
  <1>1. p \in Seq(S) /\ n \in S
    BY SeqMonotonic DEF IsPath, Range
  <1> HIDE DEF S
  <1>2. /\ q \in Seq(S) /\ q # <<>> /\ Len(q) = Len(p) + 1 /\ Len(p) \in Nat
        /\ \A i \in 1..Len(p) : q[i] = p[i]
        /\ q[Len(p) + 1] = n
    BY <1>1, AppendProperties, LenProperties
  <1>3. IsPath(q)
    BY <1>2, SeqIsPath
  <1> HIDE DEF q
  <1>4. /\ Front(q) \in Seq(S) /\ Len(Front(q)) = Len(p)
        /\ \A i \in 1..Len(p) : Front(q)[i] = q[i]
    <2>1. \A i \in 1..Len(p) : q[i] \in S
      BY <1>2, ElementOfSeq
    <2>2. Front(q) = SubSeq(q, 1, Len(p))
      BY <1>2 DEF Front
    <2> QED
      BY <1>2, <2>1, <2>2, SubSeqProperties
  <1>5. Front(q) = p
    BY <1>1, <1>2, <1>4, SeqEqual
  <1> QED
    BY <1>2, <1>3, <1>5 DEF Last, q

\* Every path but the root is an entry of another.
LEMMA FrontPath ==
  ASSUME NEW q, IsPath(q), q # <<>>
  PROVE  /\ IsPath(Front(q)) /\ q = Append(Front(q), Last(q))
         /\ Len(Front(q)) = Len(q) - 1 /\ Len(q) \in Nat \ {0}
         /\ \A i \in 1..(Len(q) - 1) : Front(q)[i] = q[i]
  <1> DEFINE S == Range(q)
  <1>1. q \in Seq(S)
    BY DEF IsPath, Range
  <1> HIDE DEF S
  <1>2. Len(q) \in Nat \ {0}
    BY <1>1, EmptySeq
  <1>3. /\ Front(q) \in Seq(S) /\ Len(Front(q)) = Len(q) - 1
        /\ \A i \in 1..(Len(q) - 1) : Front(q)[i] = q[i]
    <2> DEFINE n == Len(q) - 1
    <2>1. n \in Nat /\ \A i \in 1..n : q[i] \in S
      BY <1>1, <1>2, ElementOfSeq
    <2>2. Front(q) = SubSeq(q, 1, n)
      BY DEF Front
    <2> HIDE DEF n
    <2>3. SubSeq(q, 1, n) \in Seq(S) /\ Len(SubSeq(q, 1, n)) = n /\ \A i \in 1..n : SubSeq(q, 1, n)[i] = q[i]
      BY <2>1, SubSeqProperties
    <2> QED
      BY <2>2, <2>3 DEF n
  <1>4. Last(q) \in S
    BY <1>1, <1>2, ElementOfSeq DEF Last
  <1>5. q = Append(Front(q), Last(q))
    <2> DEFINE r == Append(Front(q), Last(q))
    <2>1. /\ r \in Seq(S) /\ Len(r) = Len(q)
          /\ \A i \in 1..(Len(q) - 1) : r[i] = Front(q)[i]
          /\ r[Len(q)] = Last(q)
      BY <1>2, <1>3, <1>4, AppendProperties
    <2> HIDE DEF r
    <2>2. \A i \in 1..Len(q) : r[i] = q[i]
      BY <1>2, <1>3, <2>1 DEF Last
    <2>3. r = q
      BY <1>1, <2>1, <2>2, SeqEqual
    <2> QED
      BY <2>3 DEF r
  <1> QED
    BY <1>2, <1>3, <1>5, SeqIsPath

\* The parent the tab computes is the directory the helper looks in.
LEMMA ParentIsFront ==
  ASSUME NEW p, IsPath(p)
  PROVE  parentPath(p) = Front(p) /\ IsPath(Front(p))
  <1>1. CASE p = <<>>
    <2>1. Len(<<>>) = 0
      BY EmptySeq
    <2>2. Front(<<>>) = <<>>
      BY <2>1, SubSeqEmpty DEF Front
    <2> QED
      BY <1>1, <2>2, EmptyPath DEF parentPath
  <1>2. CASE p # <<>>
    BY <1>2, FrontPath DEF parentPath
  <1> QED
    BY <1>1, <1>2

\* A path begins with another one when it is at least as long and has its names.
LEMMA PrefixIs ==
  ASSUME NEW p, NEW q, IsPath(p), IsPath(q)
  PROVE  /\ Len(p) \in Nat /\ Len(q) \in Nat
         /\ IsPrefix(p, q) <=> Len(p) <= Len(q) /\ \A i \in 1..Len(p) : q[i] = p[i]
  <1>1. PICK S : p \in Seq(S) /\ q \in Seq(S)
    BY PathsTogether
  <1>2. Len(p) \in Nat /\ Len(q) \in Nat
    BY <1>1, LenProperties
  <1>3. SubSeq(p, 1, Len(p)) = p
    BY <1>1, SubSeqFull
  <1>4. ASSUME Len(p) <= Len(q)
        PROVE  SubSeq(q, 1, Len(p)) = p <=> \A i \in 1..Len(p) : q[i] = p[i]
    <2> DEFINE s == SubSeq(q, 1, Len(p))
    <2>1. \A i \in 1..Len(p) : q[i] \in S
      BY <1>1, <1>2, <1>4, ElementOfSeq
    <2>2. s \in Seq(S) /\ Len(s) = Len(p) /\ \A i \in 1..Len(p) : s[i] = q[i]
      BY <1>2, <2>1, SubSeqProperties
    <2> HIDE DEF s
    <2>3. (\A i \in 1..Len(p) : q[i] = p[i]) => s = p
      BY <1>1, <2>2, SeqEqual
    <2>4. s = p => \A i \in 1..Len(p) : q[i] = p[i]
      BY <2>2
    <2> QED
      BY <2>3, <2>4 DEF s
  <1> QED
    BY <1>2, <1>3, <1>4 DEF IsPrefix

\* Paths begin with themselves,
LEMMA PrefixItself ==
  ASSUME NEW p, IsPath(p)
  PROVE  IsPrefix(p, p)
  BY PrefixIs

\* What begins with a path is the path, or lies in a directory that begins with it.
LEMMA PrefixFront ==
  ASSUME NEW p, NEW q, IsPath(p), IsPath(q)
  PROVE  IsPrefix(p, q) <=> p = q \/ (q # <<>> /\ IsPrefix(p, Front(q)))
  <1>1. PICK S : p \in Seq(S) /\ q \in Seq(S)
    BY PathsTogether
  <1>2. CASE q = <<>>
    <2>1. Len(q) = 0
      BY <1>2, EmptySeq
    <2>2. IsPrefix(p, q) => p = q
      <3>1. IsPrefix(p, q) => Len(p) = 0
        BY <2>1, PrefixIs
      <3> QED
        BY <1>1, <1>2, <3>1, EmptySeq
    <2> QED
      BY <1>2, <2>2, PrefixItself
  <1>3. CASE q # <<>>
    <2>1. /\ IsPath(Front(q)) /\ Len(Front(q)) = Len(q) - 1 /\ Len(q) \in Nat \ {0}
          /\ \A i \in 1..(Len(q) - 1) : Front(q)[i] = q[i]
      BY <1>3, FrontPath
    <2>2. IsPrefix(p, Front(q)) <=> Len(p) <= Len(q) - 1 /\ \A i \in 1..Len(p) : q[i] = p[i]
      BY <2>1, PrefixIs
    <2>3. IsPrefix(p, q) <=> Len(p) <= Len(q) /\ \A i \in 1..Len(p) : q[i] = p[i]
      BY PrefixIs
    <2>4. Len(p) = Len(q) /\ (\A i \in 1..Len(p) : q[i] = p[i]) => p = q
      BY <1>1, SeqEqual
    <2>5. Len(p) \in Nat
      BY PrefixIs
    <2>6. p = q => IsPrefix(p, q)
      BY PrefixItself
    <2> QED
      BY <1>3, <2>1, <2>2, <2>3, <2>4, <2>5, <2>6
  <1> QED
    BY <1>2, <1>3

\* and with what their beginnings begin with.
LEMMA PrefixTrans ==
  ASSUME NEW p, NEW q, NEW r, IsPath(p), IsPath(q), IsPath(r), IsPrefix(p, q), IsPrefix(q, r)
  PROVE  IsPrefix(p, r)
  BY PrefixIs

\* The beginnings of a path are the paths it begins with.
LEMMA BeginningsArePrefixes ==
  ASSUME NEW q, IsPath(q), NEW p
  PROVE  (\E i \in 0..Len(q) : p = SubSeq(q, 1, i)) <=> IsPath(p) /\ IsPrefix(p, q)
  <1> DEFINE S == Range(q)
  <1>1. q \in Seq(S) /\ Len(q) \in Nat
    BY LenProperties DEF IsPath, Range
  <1> HIDE DEF S
  <1>2. ASSUME NEW i \in 0..Len(q), p = SubSeq(q, 1, i)
        PROVE  IsPath(p) /\ IsPrefix(p, q)
    <2>1. \A j \in 1..i : q[j] \in S
      BY <1>1, ElementOfSeq
    <2>2. p \in Seq(S) /\ Len(p) = i /\ \A j \in 1..i : p[j] = q[j]
      BY <1>1, <1>2, <2>1, SubSeqProperties
    <2> QED
      BY <2>2, SeqIsPath, PrefixIs
  <1>3. ASSUME IsPath(p), IsPrefix(p, q)
        PROVE  \E i \in 0..Len(q) : p = SubSeq(q, 1, i)
    <2>1. Len(p) \in 0..Len(q)
      BY <1>1, <1>3, PrefixIs
    <2>2. p \in Seq(Range(p))
      BY <1>3 DEF IsPath, Range
    <2>3. SubSeq(p, 1, Len(p)) = p
      BY <2>2, SubSeqFull
    <2>4. p = SubSeq(q, 1, Len(p))
      BY <1>3, <2>3 DEF IsPrefix
    <2> QED
      BY <2>1, <2>4
  <1> QED
    BY <1>2, <1>3

-----------------------------------------------------------------------------
(* What operations do to a file system.                                     *)

\* In a file system what a path begins with is a directory.
LEMMA TreeIs ==
  ASSUME NEW f
  PROVE  IsTree(f) <=>
           \A p \in DOMAIN f :
             /\ IsPath(p) /\ f[p].type \in {"directory", "file"}
             /\ \A q : IsPath(q) /\ IsPrefix(q, p) /\ q # p => IsDir(f, q)
  <1>1. ASSUME NEW p \in DOMAIN f, IsPath(p)
        PROVE  (\A i \in 0..(Len(p) - 1) : IsDir(f, SubSeq(p, 1, i)))
                 <=> \A q : IsPath(q) /\ IsPrefix(q, p) /\ q # p => IsDir(f, q)
    <2> DEFINE S == Range(p)
    <2>1. p \in Seq(S) /\ Len(p) \in Nat
      BY <1>1, LenProperties DEF IsPath, Range
    <2> HIDE DEF S
    <2>2. SubSeq(p, 1, Len(p)) = p
      BY <2>1, SubSeqFull
    <2>3. ASSUME NEW i \in 0..(Len(p) - 1)
          PROVE  /\ IsPath(SubSeq(p, 1, i)) /\ IsPrefix(SubSeq(p, 1, i), p)
                 /\ SubSeq(p, 1, i) # p
      <3>1. i \in 0..Len(p) /\ i # Len(p)
        BY <2>1
      <3>2. \A j \in 1..i : p[j] \in S
        BY <2>1, <3>1, ElementOfSeq
      <3>3. Len(SubSeq(p, 1, i)) = i
        BY <3>1, <3>2, SubSeqProperties
      <3> QED
        BY <1>1, <3>1, <3>3, BeginningsArePrefixes
    <2>4. ASSUME NEW q, IsPath(q), IsPrefix(q, p), q # p
          PROVE  \E i \in 0..(Len(p) - 1) : q = SubSeq(p, 1, i)
      <3>1. PICK i \in 0..Len(p) : q = SubSeq(p, 1, i)
        BY <1>1, <2>4, BeginningsArePrefixes
      <3>2. i # Len(p)
        BY <2>2, <2>4, <3>1
      <3>3. i \in 0..(Len(p) - 1)
        BY <2>1, <3>1, <3>2
      <3> QED
        BY <3>1, <3>3
    <2> QED
      BY <2>3, <2>4
  <1>2. IsTree(f) <=> \A p \in DOMAIN f : /\ IsPath(p) /\ f[p].type \in {"directory", "file"}
                                         /\ \A i \in 0..(Len(p) - 1) : IsDir(f, SubSeq(p, 1, i))
    BY DEF IsTree
  <1> QED
    BY <1>1, <1>2

\* What a directory lists.
LEMMA ListIs ==
  ASSUME NEW f, IsTree(f), NEW p, IsPath(p)
  PROVE  /\ DOMAIN List(f, p) = {Last(q) : q \in Children(f, p)}
         /\ \A n : n \in DOMAIN List(f, p) <=> Append(p, n) \in DOMAIN f
         /\ \A n \in DOMAIN List(f, p) : List(f, p)[n] = f[Append(p, n)].type
  <1>1. ASSUME NEW n, Append(p, n) \in DOMAIN f
        PROVE  Append(p, n) \in Children(f, p) /\ Last(Append(p, n)) = n
    BY <1>1, AppendPath DEF Children
  <1>2. ASSUME NEW q \in Children(f, p)
        PROVE  Append(p, Last(q)) \in DOMAIN f
    <2>1. q \in DOMAIN f /\ q # <<>> /\ Front(q) = p /\ IsPath(q)
      BY <1>2 DEF Children, IsTree
    <2> QED
      BY <2>1, FrontPath
  <1>3. DOMAIN List(f, p) = {Last(q) : q \in Children(f, p)}
    BY DEF List
  <1>4. \A n \in DOMAIN List(f, p) : List(f, p)[n] = f[Append(p, n)].type
    BY DEF List
  <1> QED
    BY <1>1, <1>2, <1>3, <1>4

\* Two file systems list a directory alike if they have the same entries in it.
LEMMA ListSame ==
  ASSUME NEW f, NEW g, IsTree(f), IsTree(g), NEW p, IsPath(p),
         \A n : Append(p, n) \in DOMAIN f <=> Append(p, n) \in DOMAIN g,
         \A n : Append(p, n) \in DOMAIN f => f[Append(p, n)].type = g[Append(p, n)].type
  PROVE  List(f, p) = List(g, p)
  <1>0. \A n : n \in DOMAIN List(f, p) <=> Append(p, n) \in DOMAIN f
    BY ListIs
  <1>4. \A n : n \in DOMAIN List(g, p) <=> Append(p, n) \in DOMAIN g
    BY ListIs
  <1>5. \A n \in DOMAIN List(f, p) : List(f, p)[n] = f[Append(p, n)].type
    BY DEF List
  <1>6. \A n \in DOMAIN List(g, p) : List(g, p)[n] = g[Append(p, n)].type
    BY DEF List
  <1>1. DOMAIN List(f, p) = DOMAIN List(g, p)
    BY <1>0, <1>4
  <1>2. ASSUME NEW n \in DOMAIN List(f, p) PROVE List(f, p)[n] = List(g, p)[n]
    <2>1. Append(p, n) \in DOMAIN f /\ n \in DOMAIN List(g, p)
      BY <1>0, <1>1, <1>2
    <2>2. List(f, p)[n] = f[Append(p, n)].type /\ List(g, p)[n] = g[Append(p, n)].type
      BY <1>5, <1>6, <1>2, <2>1
    <2> QED
      BY <2>1, <2>2
  <1>3. /\ List(f, p) = [n \in DOMAIN List(f, p) |-> List(f, p)[n]]
        /\ List(g, p) = [n \in DOMAIN List(g, p) |-> List(g, p)[n]]
    BY DEF List
  <1> QED
    BY <1>1, <1>2, <1>3

\* A node is put where there was no directory.
LEMMA PutTree ==
  ASSUME NEW f, IsTree(f), NEW d, IsPath(d), IsDir(f, d), NEW n, ~IsDir(f, Append(d, n)),
         NEW node, node.type \in {"directory", "file"}
  PROVE  /\ IsTree(Put(f, Append(d, n), node))
         /\ \A p : IsPath(p) /\ p # d => List(Put(f, Append(d, n), node), p) = List(f, p)
  <1> DEFINE e == Append(d, n)
             g == Put(f, e, node)
  <1>1. /\ IsPath(e) /\ e # <<>> /\ Front(e) = d /\ Len(e) = Len(d) + 1
    BY AppendPath
  <1>2. DOMAIN g = DOMAIN f \cup {e} /\ g[e] = node /\ \A q \in DOMAIN f \ {e} : g[q] = f[q]
    BY DEF Put
  <1> HIDE DEF e, g
  <1>3. \A q : IsDir(f, q) => q # e /\ IsDir(g, q)
    BY <1>2 DEF IsDir, e
  <1>4. ASSUME NEW p \in DOMAIN g
        PROVE  /\ IsPath(p) /\ g[p].type \in {"directory", "file"}
               /\ \A q : IsPath(q) /\ IsPrefix(q, p) /\ q # p => IsDir(g, q)
    <2>1. CASE p = e
      <3>1. ASSUME NEW q, IsPath(q), IsPrefix(q, e), q # e PROVE IsDir(g, q)
        <4>1. IsPrefix(q, d)
          BY <1>1, <3>1, PrefixFront
        <4>2. q = d \/ IsDir(f, q)
          BY <4>1, <3>1, TreeIs DEF IsDir
        <4> QED
          BY <1>3, <4>2
      <3> QED
        BY <1>1, <1>2, <2>1, <3>1
    <2>2. CASE p # e
      BY <1>2, <1>3, <2>2, TreeIs
    <2> QED
      BY <2>1, <2>2
  <1>5. IsTree(g)
    BY <1>4, TreeIs
  <1>6. ASSUME NEW p, IsPath(p), p # d PROVE List(g, p) = List(f, p)
    <2>1. \A m : Append(p, m) # e
      BY <1>1, <1>6, AppendPath
    <2>2. /\ \A m : Append(p, m) \in DOMAIN f <=> Append(p, m) \in DOMAIN g
          /\ \A m : Append(p, m) \in DOMAIN f => f[Append(p, m)].type = g[Append(p, m)].type
      BY <1>2, <2>1
    <2> QED
      BY <1>5, <1>6, <2>2, ListSame
  <1> QED
    BY <1>5, <1>6 DEF e, g

\* What is removed is a part of the tree.
LEMMA PrunedTree ==
  ASSUME NEW f, IsTree(f), NEW q, IsPath(q)
  PROVE  /\ IsTree(Pruned(f, q))
         /\ \A p : IsPath(p) /\ p # Front(q) /\ ~IsPrefix(q, p) => List(Pruned(f, q), p) = List(f, p)
  <1> DEFINE g == Pruned(f, q)
  <1>1. DOMAIN g = {p \in DOMAIN f : ~IsPrefix(q, p)} /\ \A p \in DOMAIN g : g[p] = f[p]
    BY DEF Pruned
  <1> HIDE DEF g
  <1>2. ASSUME NEW p \in DOMAIN g
        PROVE  /\ IsPath(p) /\ g[p].type \in {"directory", "file"}
               /\ \A x : IsPath(x) /\ IsPrefix(x, p) /\ x # p => IsDir(g, x)
    <2>1. IsPath(p) /\ g[p].type \in {"directory", "file"}
      BY <1>1, TreeIs
    <2>2. ASSUME NEW x, IsPath(x), IsPrefix(x, p), x # p PROVE IsDir(g, x)
      <3>1. IsDir(f, x)
        BY <1>1, <2>2, TreeIs
      <3>2. ~IsPrefix(q, x)
        BY <1>1, <2>1, <2>2, PrefixTrans
      <3> QED
        BY <1>1, <3>1, <3>2 DEF IsDir
    <2> QED
      BY <2>1, <2>2
  <1>3. IsTree(g)
    BY <1>2, TreeIs
  <1>4. ASSUME NEW p, IsPath(p), p # Front(q), ~IsPrefix(q, p) PROVE List(g, p) = List(f, p)
    <2>1. ASSUME NEW n PROVE ~IsPrefix(q, Append(p, n))
      <3>1. /\ IsPath(Append(p, n)) /\ Front(Append(p, n)) = p
        BY <1>4, AppendPath
      <3> QED
        BY <1>4, <3>1, PrefixFront
    <2> QED
      BY <1>1, <1>3, <1>4, <2>1, ListSame
  <1> QED
    BY <1>3, <1>4 DEF g

\* Directories are made on the way to one that is missing, if nothing is in the way.
LEMMA MkdirTree ==
  ASSUME NEW f, IsTree(f), NEW q, IsPath(q)
  PROVE  LET o == MkdirAll(f, q)
         IN  /\ IsTree(o.fs) /\ (o.ok => IsDir(o.fs, q))
             /\ \A p : IsPath(p) /\ ~(IsPrefix(p, q) /\ ~IsDir(f, Front(q))) /\ p # Front(q)
                         => List(o.fs, p) = List(f, p)
  <1> DEFINE o == MkdirAll(f, q)
             missing == {SubSeq(q, 1, i) : i \in 0..Len(q)} \ DOMAIN f
             blocked == \E i \in 0..Len(q) : IsFile(f, SubSeq(q, 1, i))
             g == [x \in DOMAIN f \cup missing |-> IF x \in missing THEN Dir ELSE f[x]]
  <1>1. o.fs = (IF blocked THEN f ELSE g) /\ (o.ok => ~blocked)
    BY DEF MkdirAll, Done, Refused
  <1>2. \A x : x \in missing <=> IsPath(x) /\ IsPrefix(x, q) /\ x \notin DOMAIN f
    BY BeginningsArePrefixes
  <1>3. ~blocked => \A x : IsPath(x) /\ IsPrefix(x, q) => ~IsFile(f, x)
    BY BeginningsArePrefixes
  <1>4. /\ DOMAIN g = DOMAIN f \cup missing /\ \A x \in missing : g[x].type = "directory"
        /\ \A x \in DOMAIN f : g[x] = f[x]
    BY DEF Dir
  <1> HIDE DEF o, missing, blocked, g
  <1>5. ASSUME ~blocked
        PROVE  /\ IsTree(g) /\ IsDir(g, q)
               /\ \A p : IsPath(p) /\ ~(IsPrefix(p, q) /\ ~IsDir(f, Front(q))) /\ p # Front(q)
                           => List(g, p) = List(f, p)
    <2>1. ASSUME NEW x, IsPath(x), IsPrefix(x, q) PROVE IsDir(g, x)
      <3>1. CASE x \in missing
        BY <1>4, <3>1 DEF IsDir
      <3>2. CASE x \in DOMAIN f
        <4>1. f[x].type = "directory"
          BY <1>3, <1>5, <2>1, <3>2 DEF IsTree, IsFile
        <4> QED
          BY <1>4, <3>2, <4>1 DEF IsDir
      <3> QED
        BY <1>2, <2>1, <3>1, <3>2
    <2>2. ASSUME NEW p \in DOMAIN g
          PROVE  /\ IsPath(p) /\ g[p].type \in {"directory", "file"}
                 /\ \A x : IsPath(x) /\ IsPrefix(x, p) /\ x # p => IsDir(g, x)
      <3>1. CASE p \in missing
        <4>1. IsPath(p) /\ IsPrefix(p, q)
          BY <1>2, <3>1
        <4> QED
          BY <1>4, <2>1, <3>1, <4>1, PrefixTrans
      <3>2. CASE p \in DOMAIN f
        <4>1. IsPath(p) /\ f[p].type \in {"directory", "file"}
              /\ \A x : IsPath(x) /\ IsPrefix(x, p) /\ x # p => IsDir(f, x)
          BY <3>2, TreeIs
        <4> QED
          BY <1>4, <3>2, <4>1 DEF IsDir
      <3> QED
        BY <1>4, <2>2, <3>1, <3>2
    <2>3. IsTree(g)
      BY <2>2, TreeIs
    <2>4. ASSUME NEW p, IsPath(p), ~(IsPrefix(p, q) /\ ~IsDir(f, Front(q))), p # Front(q)
          PROVE  List(g, p) = List(f, p)
      <3>1. ASSUME NEW n PROVE Append(p, n) \notin missing
        <4> DEFINE e == Append(p, n)
        <4>1. IsPath(e) /\ e # <<>> /\ Front(e) = p
          BY <2>4, AppendPath
        <4> HIDE DEF e
        <4>2. SUFFICES ASSUME IsPrefix(e, q), e \notin DOMAIN f PROVE FALSE
          BY <1>2 DEF e
        <4>3. e # q /\ q # <<>>
          <5>1. e # q
            BY <2>4, <4>1
          <5> QED
            BY <4>1, <4>2, <5>1, PrefixFront
        <4>4. IsPrefix(e, Front(q)) /\ IsPath(Front(q))
          BY <4>1, <4>2, <4>3, PrefixFront, FrontPath
        <4>5. IsPrefix(p, q)
          <5>1. IsPrefix(p, e)
            BY <2>4, <4>1, PrefixFront, PrefixItself
          <5> QED
            BY <2>4, <4>1, <4>2, <5>1, PrefixTrans
        <4>6. IsDir(f, Front(q))
          BY <2>4, <4>5
        <4>7. e = Front(q) \/ IsDir(f, e)
          BY <4>1, <4>4, <4>6, TreeIs DEF IsDir
        <4> QED
          BY <4>2, <4>6, <4>7 DEF IsDir
      <3> QED
        BY <1>4, <2>3, <2>4, <3>1, ListSame
    <2> QED
      BY <2>1, <2>3, <2>4, PrefixItself
  <1>6. CASE blocked
    BY <1>1, <1>6 DEF o
  <1>7. CASE ~blocked
    BY <1>1, <1>5, <1>7 DEF o
  <1> QED
    BY <1>6, <1>7

\* Where what is at x below the one path was, or will be, below the other.
Under(from, to, x) == from \o SubSeq(x, Len(to) + 1, Len(x))

\* Paths with the same names in the same order are one.
LEMMA SamePath ==
  ASSUME NEW p, NEW q, IsPath(p), IsPath(q), Len(p) = Len(q), \A i \in 1..Len(p) : p[i] = q[i]
  PROVE  p = q
  <1>1. PICK S : p \in Seq(S) /\ q \in Seq(S)
    BY PathsTogether
  <1> QED
    BY <1>1, SeqEqual

\* The beginning of the path is replaced, and the rest kept.
LEMMA UnderIs ==
  ASSUME NEW from, NEW to, NEW x, IsPath(from), IsPath(to), IsPath(x), IsPrefix(to, x)
  PROVE  LET u == Under(from, to, x)
         IN  /\ IsPath(u) /\ IsPrefix(from, u) /\ Len(u) = Len(from) + Len(x) - Len(to)
             /\ \A i \in 1..Len(u) : u[i] = IF i <= Len(from) THEN from[i] ELSE x[i - Len(from) + Len(to)]
  <1> DEFINE S == Range(from) \cup Range(x)
             t == SubSeq(x, Len(to) + 1, Len(x))
             u == Under(from, to, x)
  <1>1. from \in Seq(S) /\ x \in Seq(S)
    BY SeqMonotonic DEF IsPath, Range
  <1> HIDE DEF S
  <1>2. /\ Len(from) \in Nat /\ Len(to) \in Nat /\ Len(x) \in Nat /\ Len(to) <= Len(x)
    BY PrefixIs
  <1>3. \A i \in (Len(to) + 1)..Len(x) : x[i] \in S
    <2>1. \A i \in 1..Len(x) : x[i] \in S
      BY <1>1, ElementOfSeq
    <2> QED
      BY <1>2, <2>1
  <1>4. /\ t \in Seq(S) /\ Len(t) = Len(x) - Len(to)
        /\ \A i \in 1..Len(t) : t[i] = x[Len(to) + i]
    <2> DEFINE m == Len(to) + 1
               n == Len(x)
    <2>1. m \in Int /\ n \in Int /\ \A i \in m..n : x[i] \in S
      BY <1>2, <1>3
    <2>2. m <= n + 1 /\ m = Len(to) + 1
      BY <1>2
    <2>3. t = SubSeq(x, m, n)
      OBVIOUS
    <2>4. n - m + 1 = Len(x) - Len(to)
      BY <1>2
    <2> HIDE DEF m, n, t
    <2>5. /\ SubSeq(x, m, n) \in Seq(S) /\ Len(SubSeq(x, m, n)) = IF m <= n THEN n - m + 1 ELSE 0
          /\ \A i \in 1..(n - m + 1) : SubSeq(x, m, n)[i] = x[m + i - 1]
      BY <2>1, SubSeqProperties
    <2>6. Len(t) = n - m + 1
      BY <2>1, <2>2, <2>3, <2>5
    <2>7. ASSUME NEW i \in 1..Len(t) PROVE t[i] = x[Len(to) + i]
      <3>1. t[i] = x[m + i - 1]
        BY <2>3, <2>5, <2>6, <2>7
      <3>2. m + i - 1 = Len(to) + i
        BY <1>2, <2>2
      <3> QED
        BY <3>1, <3>2
    <2> QED
      BY <2>3, <2>4, <2>5, <2>6, <2>7
  <1>5. u = from \o t
    BY DEF Under
  <1> HIDE DEF t, u
  <1>6. /\ u \in Seq(S) /\ Len(u) = Len(from) + Len(t)
        /\ \A i \in 1..(Len(from) + Len(t)) : u[i] = IF i <= Len(from) THEN from[i] ELSE t[i - Len(from)]
    BY <1>1, <1>4, <1>5, ConcatProperties
  <1>7. IsPath(u) /\ Len(u) = Len(from) + Len(x) - Len(to)
    BY <1>2, <1>4, <1>6, SeqIsPath
  <1>8. ASSUME NEW i \in 1..Len(u)
        PROVE  u[i] = IF i <= Len(from) THEN from[i] ELSE x[i - Len(from) + Len(to)]
    <2>1. CASE i <= Len(from)
      BY <1>6, <2>1
    <2>2. CASE ~(i <= Len(from))
      <3>1. i - Len(from) \in 1..Len(t) /\ Len(to) + (i - Len(from)) = i - Len(from) + Len(to)
        BY <1>2, <1>4, <1>6, <2>2
      <3> QED
        BY <1>4, <1>6, <2>2, <3>1
    <2> QED
      BY <2>1, <2>2
  <1>9. IsPrefix(from, u)
    <2>1. Len(from) <= Len(u) /\ \A i \in 1..Len(from) : u[i] = from[i]
      BY <1>2, <1>7, <1>8
    <2> QED
      BY <1>7, <2>1, PrefixIs
  <1> QED
    BY <1>7, <1>8, <1>9 DEF u

\* There and back again.
LEMMA UnderBack ==
  ASSUME NEW from, NEW to, NEW x, IsPath(from), IsPath(to), IsPath(x), IsPrefix(to, x)
  PROVE  Under(to, from, Under(from, to, x)) = x
  <1> DEFINE u == Under(from, to, x)
             v == Under(to, from, u)
  <1>1. /\ IsPath(u) /\ IsPrefix(from, u) /\ Len(u) = Len(from) + Len(x) - Len(to)
        /\ \A i \in 1..Len(u) : u[i] = IF i <= Len(from) THEN from[i] ELSE x[i - Len(from) + Len(to)]
    BY UnderIs
  <1> HIDE DEF u
  <1>2. /\ IsPath(v) /\ Len(v) = Len(to) + Len(u) - Len(from)
        /\ \A i \in 1..Len(v) : v[i] = IF i <= Len(to) THEN to[i] ELSE u[i - Len(to) + Len(from)]
    BY <1>1, UnderIs
  <1> HIDE DEF v
  <1>3. /\ Len(from) \in Nat /\ Len(to) \in Nat /\ Len(x) \in Nat /\ Len(to) <= Len(x)
        /\ \A i \in 1..Len(to) : x[i] = to[i]
    BY PrefixIs
  <1>4. Len(v) = Len(x)
    BY <1>1, <1>2, <1>3
  <1>5. ASSUME NEW i \in 1..Len(v) PROVE v[i] = x[i]
    <2>1. CASE i <= Len(to)
      BY <1>2, <1>3, <2>1
    <2>2. CASE ~(i <= Len(to))
      <3> DEFINE j == i - Len(to) + Len(from)
      <3>1. j \in 1..Len(u) /\ ~(j <= Len(from)) /\ j - Len(from) + Len(to) = i
        BY <1>1, <1>3, <1>4, <2>2
      <3> QED
        BY <1>1, <1>2, <2>2, <3>1
    <2> QED
      BY <2>1, <2>2
  <1>6. v = x
    BY <1>2, <1>4, <1>5, SamePath
  <1> QED
    BY <1>6 DEF u, v

\* What lies above stays above.
LEMMA UnderOrder ==
  ASSUME NEW from, NEW to, NEW x, NEW y, IsPath(from), IsPath(to), IsPath(x), IsPath(y),
         IsPrefix(to, x), IsPrefix(x, y)
  PROVE  IsPrefix(Under(from, to, x), Under(from, to, y))
  <1> DEFINE u == Under(from, to, x)
             v == Under(from, to, y)
  <1>1. IsPrefix(to, y)
    BY PrefixTrans
  <1>2. /\ IsPath(u) /\ Len(u) = Len(from) + Len(x) - Len(to)
        /\ \A i \in 1..Len(u) : u[i] = IF i <= Len(from) THEN from[i] ELSE x[i - Len(from) + Len(to)]
    BY UnderIs
  <1>3. /\ IsPath(v) /\ Len(v) = Len(from) + Len(y) - Len(to)
        /\ \A i \in 1..Len(v) : v[i] = IF i <= Len(from) THEN from[i] ELSE y[i - Len(from) + Len(to)]
    BY <1>1, UnderIs
  <1> HIDE DEF u, v
  <1>4. /\ Len(from) \in Nat /\ Len(to) \in Nat /\ Len(x) \in Nat /\ Len(y) \in Nat
        /\ Len(to) <= Len(x) /\ Len(x) <= Len(y) /\ \A i \in 1..Len(x) : y[i] = x[i]
    BY PrefixIs
  <1>5. Len(u) <= Len(v)
    BY <1>2, <1>3, <1>4
  <1>6. ASSUME NEW i \in 1..Len(u) PROVE v[i] = u[i]
    <2>1. i \in 1..Len(v)
      BY <1>2, <1>3, <1>4, <1>5
    <2>2. CASE i <= Len(from)
      BY <1>2, <1>3, <2>1, <2>2
    <2>3. CASE ~(i <= Len(from))
      <3>1. i - Len(from) + Len(to) \in 1..Len(x)
        BY <1>2, <1>4, <2>3
      <3> QED
        BY <1>2, <1>3, <1>4, <2>1, <2>3, <3>1
    <2> QED
      BY <2>2, <2>3
  <1>7. IsPrefix(u, v)
    BY <1>2, <1>3, <1>5, <1>6, PrefixIs
  <1> QED
    BY <1>7 DEF u, v

\* The directories above a path are there when the directory it lies in is.
LEMMA AboveStays ==
  ASSUME NEW f, IsTree(f), NEW d, IsPath(d), IsDir(f, d), NEW q, IsPath(q), IsPrefix(q, d)
  PROVE  IsDir(f, q)
  BY TreeIs DEF IsDir

\* What a rename leaves behind is a tree, and no directory but the two parents
\* and those below the two paths lists anything else.
LEMMA RenameTree ==
  ASSUME NEW f, IsTree(f), NEW from, IsPath(from), NEW to, IsPath(to), NEW overwrite
  PROVE  LET g == Rename(f, from, to, overwrite).fs
         IN  /\ IsTree(g)
             /\ \A p : (IsPath(p) /\ p \notin {Front(from), Front(to)} /\ ~IsPrefix(from, p)
                         /\ ~IsPrefix(to, p)) => List(g, p) = List(f, p)
  <1> DEFINE moved == {q \in DOMAIN f : IsPrefix(from, q)}
             Dest(q) == to \o SubSeq(q, Len(from) + 1, Len(q))
             rest == Pruned(Pruned(f, from), to)
             refused == \/ from \notin DOMAIN f \/ ~IsDir(f, Front(to)) \/ IsPrefix(from, to)
                        \/ /\ to \in DOMAIN f
                           /\ ~overwrite \/ f[to].type # f[from].type \/ Children(f, to) # {}
             g == [q \in DOMAIN rest \cup {Dest(r) : r \in moved} |->
                     IF q \in DOMAIN rest THEN rest[q]
                     ELSE f[from \o SubSeq(q, Len(to) + 1, Len(q))]]
             o == Rename(f, from, to, overwrite).fs
             kept(h) == /\ IsTree(h)
                        /\ \A p : (IsPath(p) /\ p \notin {Front(from), Front(to)} /\ ~IsPrefix(from, p)
                                    /\ ~IsPrefix(to, p)) => List(h, p) = List(f, p)
  <1>1. o = IF refused THEN f ELSE g
    BY DEF Rename, Done, Refused
  <1> HIDE DEF o
  <1>2. CASE refused
    <2> HIDE DEF refused, g
    <2>1. o = f
      BY <1>1, <1>2
    <2>2. kept(f)
      OBVIOUS
    <2> HIDE DEF kept
    <2>3. kept(o)
      BY <2>1, <2>2
    <2> QED
      BY <2>3 DEF kept, o
  <1>3. CASE ~refused
    <2>1. /\ from \in DOMAIN f /\ IsDir(f, Front(to)) /\ ~IsPrefix(from, to)
          /\ to \in DOMAIN f => Children(f, to) = {}
      BY <1>3
    <2>2. DOMAIN rest = {q \in DOMAIN f : ~IsPrefix(from, q) /\ ~IsPrefix(to, q)}
          /\ \A q \in DOMAIN rest : rest[q] = f[q]
      BY DEF Pruned
    <2>3. {Dest(r) : r \in moved} = {Under(to, from, r) : r \in moved}
      BY DEF Under
    <2>4. ASSUME NEW q
          PROVE  q \in {Under(to, from, r) : r \in moved}
                   <=> IsPath(q) /\ IsPrefix(to, q) /\ Under(from, to, q) \in DOMAIN f
      <3>1. ASSUME NEW r \in moved, q = Under(to, from, r)
            PROVE  IsPath(q) /\ IsPrefix(to, q) /\ Under(from, to, q) \in DOMAIN f
        <4>1. r \in DOMAIN f /\ IsPrefix(from, r) /\ IsPath(r)
          BY <3>1 DEF IsTree
        <4> QED
          BY <3>1, <4>1, UnderIs, UnderBack
      <3>2. ASSUME IsPath(q), IsPrefix(to, q), Under(from, to, q) \in DOMAIN f
            PROVE  q \in {Under(to, from, r) : r \in moved}
        <4>1. Under(from, to, q) \in moved
          BY <3>2, UnderIs
        <4>2. q = Under(to, from, Under(from, to, q))
          BY <3>2, UnderBack
        <4> HIDE DEF moved
        <4> QED
          BY <4>1, <4>2
      <3> QED
        BY <3>1, <3>2
    <2>5. \A q : q \in DOMAIN g <=> \/ q \in DOMAIN rest
                                    \/ IsPath(q) /\ IsPrefix(to, q) /\ Under(from, to, q) \in DOMAIN f
      BY <2>3, <2>4
    <2>6. \A q \in DOMAIN g : g[q] = IF q \in DOMAIN rest THEN rest[q] ELSE f[Under(from, to, q)]
      BY DEF Under
    <2> HIDE DEF g, rest, moved, Dest, refused
    <2>7. to # <<>>
      <3> SUFFICES ASSUME to = <<>> PROVE FALSE
        OBVIOUS
      <3>1. from # <<>> /\ Front(<<>>) = <<>>
        BY <2>1, EmptyPath, PrefixItself, ParentIsFront DEF parentPath
      <3>2. ASSUME NEW q, IsPath(q) PROVE IsPrefix(<<>>, q)
        <4>1. Len(<<>>) = 0
          BY EmptySeq
        <4>2. Len(q) \in Nat
          BY <3>2, PrefixIs
        <4> QED
          BY <3>2, <4>1, <4>2, EmptyPath, PrefixIs
      <3> DEFINE e == SubSeq(from, 1, 1)
      <3>3. Len(from) \in Nat \ {0}
        BY <3>1, FrontPath
      <3>4. IsPath(e) /\ IsPrefix(e, from) /\ Len(e) = 1
        <4>1. 1 \in 0..Len(from)
          BY <3>3
        <4>2. IsPath(e) /\ IsPrefix(e, from)
          BY <4>1, BeginningsArePrefixes
        <4>3. from \in Seq(Range(from)) /\ \A i \in 1..1 : from[i] \in Range(from)
          BY <3>3, ElementOfSeq DEF IsPath, Range
        <4>4. Len(e) = 1
          BY <4>3, SubSeqProperties
        <4> QED
          BY <4>2, <4>4
      <3> HIDE DEF e
      <3>5. e \in DOMAIN f
        <4>1. e = from \/ IsDir(f, e)
          BY <2>1, <3>4, TreeIs
        <4> QED
          BY <2>1, <4>1 DEF IsDir
      <3>6. e # <<>> /\ Front(e) = <<>>
        <4>1. Len(<<>>) = 0
          BY EmptySeq
        <4>2. e # <<>>
          BY <3>4, <4>1
        <4>3. IsPath(Front(e)) /\ Len(Front(e)) = 0
          BY <3>4, <4>2, FrontPath
        <4>4. Front(e) = <<>>
          BY <4>1, <4>3, EmptyPath, SamePath
        <4> QED
          BY <4>2, <4>4
      <3>7. <<>> \in DOMAIN f
        BY <2>1, <3>1 DEF IsDir
      <3> QED
        BY <2>1, <3>5, <3>6, <3>7 DEF Children
    <2>8. /\ IsPath(Front(to)) /\ Len(Front(to)) = Len(to) - 1 /\ Len(to) \in Nat \ {0}
          /\ IsPrefix(Front(to), to)
      <3>1. /\ IsPath(Front(to)) /\ Len(Front(to)) = Len(to) - 1 /\ Len(to) \in Nat \ {0}
        BY <2>7, FrontPath
      <3>2. IsPrefix(Front(to), to)
        BY <2>7, <3>1, PrefixFront, PrefixItself
      <3> QED
        BY <3>1, <3>2
    <2>9. ASSUME NEW q, IsPath(q), IsPrefix(q, to), q # to PROVE IsDir(g, q)
      <3>1. IsPrefix(q, Front(to))
        BY <2>9, PrefixFront
      <3>2. IsDir(f, q)
        BY <2>1, <2>8, <2>9, <3>1, AboveStays
      <3>3. ~IsPrefix(from, q)
        BY <2>1, <2>9, PrefixTrans
      <3>4. ~IsPrefix(to, q)
        BY <2>8, <2>9, <3>1, PrefixIs
      <3>5. q \in DOMAIN rest /\ rest[q] = f[q]
        BY <2>2, <3>2, <3>3, <3>4 DEF IsDir
      <3> QED
        BY <2>5, <2>6, <3>2, <3>5 DEF IsDir
    <2>10. ASSUME NEW p \in DOMAIN g
           PROVE  /\ IsPath(p) /\ g[p].type \in {"directory", "file"}
                  /\ \A q : IsPath(q) /\ IsPrefix(q, p) /\ q # p => IsDir(g, q)
      <3>1. CASE p \in DOMAIN rest
        <4>1. /\ p \in DOMAIN f /\ ~IsPrefix(from, p) /\ ~IsPrefix(to, p) /\ g[p] = f[p]
          BY <2>2, <2>6, <3>1
        <4>2. /\ IsPath(p) /\ f[p].type \in {"directory", "file"}
              /\ \A q : IsPath(q) /\ IsPrefix(q, p) /\ q # p => IsDir(f, q)
          BY <4>1, TreeIs
        <4>3. ASSUME NEW q, IsPath(q), IsPrefix(q, p), q # p PROVE IsDir(g, q)
          <5>1. IsDir(f, q) /\ ~IsPrefix(from, q) /\ ~IsPrefix(to, q)
            BY <4>1, <4>2, <4>3, PrefixTrans
          <5>2. q \in DOMAIN rest /\ rest[q] = f[q]
            BY <2>2, <5>1 DEF IsDir
          <5> QED
            BY <2>5, <2>6, <5>1, <5>2 DEF IsDir
        <4> QED
          BY <4>1, <4>2, <4>3
      <3>2. CASE p \notin DOMAIN rest
        <4>1. IsPath(p) /\ IsPrefix(to, p) /\ Under(from, to, p) \in DOMAIN f
              /\ g[p] = f[Under(from, to, p)]
          BY <2>5, <2>6, <2>10, <3>2
        <4>2. g[p].type \in {"directory", "file"}
          BY <4>1 DEF IsTree
        <4>3. ASSUME NEW q, IsPath(q), IsPrefix(q, p), q # p PROVE IsDir(g, q)
          <5>1. CASE ~IsPrefix(to, q)
            <6>1. IsPrefix(q, to) /\ q # to
              <7>1. q # to
                BY <4>3, <5>1, PrefixItself
              <7>2. IsPrefix(q, to)
                BY <4>1, <4>3, <5>1, PrefixIs
              <7> QED
                BY <7>1, <7>2
            <6> QED
              BY <2>9, <4>3, <6>1
          <5>2. CASE IsPrefix(to, q)
            <6> DEFINE x == Under(from, to, q)
                       y == Under(from, to, p)
            <6>1. IsPrefix(x, y) /\ IsPath(x) /\ IsPath(y)
              BY <4>1, <4>3, <5>2, UnderIs, UnderOrder
            <6>2. x # y
              <7>1. Under(to, from, x) = q /\ Under(to, from, y) = p
                BY <4>1, <4>3, <5>2, UnderBack
              <7> HIDE DEF x, y
              <7> QED
                BY <4>3, <7>1
            <6>3. IsDir(f, x)
              <7> HIDE DEF x
              <7> QED
                BY <4>1, <6>1, <6>2, TreeIs
            <6>4. q \notin DOMAIN rest
              BY <2>2, <5>2
            <6>5. q \in DOMAIN g /\ g[q] = f[x]
              BY <2>5, <2>6, <4>3, <5>2, <6>3, <6>4 DEF IsDir
            <6> QED
              BY <6>3, <6>5 DEF IsDir
          <5> QED
            BY <5>1, <5>2
        <4> QED
          BY <4>1, <4>2, <4>3
      <3> QED
        BY <3>1, <3>2
    <2>11. IsTree(g)
      BY <2>10, TreeIs
    <2>12. ASSUME NEW p, IsPath(p), p # Front(from), p # Front(to), ~IsPrefix(from, p), ~IsPrefix(to, p)
           PROVE  List(g, p) = List(f, p)
      <3>1. ASSUME NEW n PROVE ~IsPrefix(from, Append(p, n)) /\ ~IsPrefix(to, Append(p, n))
        <4>1. IsPath(Append(p, n)) /\ Front(Append(p, n)) = p
          BY <2>12, AppendPath
        <4> QED
          BY <2>12, <4>1, PrefixFront
      <3>2. /\ \A n : Append(p, n) \in DOMAIN f <=> Append(p, n) \in DOMAIN g
            /\ \A n : Append(p, n) \in DOMAIN f => f[Append(p, n)].type = g[Append(p, n)].type
        BY <2>2, <2>5, <2>6, <3>1
      <3> QED
        BY <2>11, <2>12, <3>2, ListSame
    <2>13. o = g
      BY <1>1, <1>3
    <2>14. kept(g)
      BY <2>11, <2>12
    <2> HIDE DEF kept
    <2>15. kept(o)
      BY <2>13, <2>14
    <2> QED
      BY <2>15 DEF kept, o
  <1> QED
    BY <1>2, <1>3 DEF o

\* What an upload leaves behind, and the only directory that lists it.
LEMMA UploadTree ==
  ASSUME NEW f, IsTree(f), NEW d, IsPath(d), NEW n, NEW offset, NEW data
  PROVE  LET g == Upload(f, Append(d, n), offset, data).fs
         IN  IsTree(g) /\ \A p : IsPath(p) /\ p # d => List(g, p) = List(f, p)
  <1> DEFINE e == Append(d, n)
             g == Upload(f, e, offset, data).fs
  <1>1. Front(e) = d
    BY AppendPath
  <1>2. CASE ~IsDir(f, d) \/ IsDir(f, e)
    <2>1. g = f
      BY <1>1, <1>2 DEF Upload, Refused
    <2> HIDE DEF g
    <2> QED
      BY <2>1 DEF g
  <1>3. CASE IsDir(f, d) /\ ~IsDir(f, e)
    <2>1. PICK seq : g = Put(f, e, File(seq))
      BY <1>1, <1>3 DEF Upload, Done
    <2>2. File(seq).type \in {"directory", "file"}
      BY DEF File
    <2> HIDE DEF g
    <2> DEFINE node == File(seq)
    <2>3. node.type \in {"directory", "file"} /\ g = Put(f, e, node)
      BY <2>1, <2>2
    <2> HIDE DEF node
    <2>4. IsTree(Put(f, e, node)) /\ \A p : IsPath(p) /\ p # d => List(Put(f, e, node), p) = List(f, p)
      BY <1>3, <2>3, PutTree
    <2> QED
      BY <2>3, <2>4 DEF g
  <1> QED
    BY <1>2, <1>3

\* What an extraction leaves behind.
LEMMA ExtractTree ==
  ASSUME NEW f, IsTree(f), NEW q, NEW d, IsPath(d), NEW overwrite, NEW n, NEW data
  PROVE  LET g == Extract(f, q, d, overwrite, n, data).fs
         IN  /\ IsTree(g)
             /\ \A p : (IsPath(p) /\ p \notin {d, Front(d)} /\ ~(IsPrefix(p, d) /\ ~IsDir(f, Front(d))))
                         => List(g, p) = List(f, p)
  <1> DEFINE g == Extract(f, q, d, overwrite, n, data).fs
             o == MkdirAll(f, d)
             h == o.fs
             e == Append(d, n)
             other(p) == IsPath(p) /\ p \notin {d, Front(d)} /\ ~(IsPrefix(p, d) /\ ~IsDir(f, Front(d)))
  <1>1. IsTree(h) /\ (o.ok => IsDir(h, d)) /\ \A p : other(p) => List(h, p) = List(f, p)
    BY MkdirTree
  <1>2. \/ g = f \/ g = h
        \/ o.ok /\ ~IsDir(h, e) /\ g = Put(h, e, File(data))
    BY DEF Extract, Done, Refused
  <1> HIDE DEF g, h, o
  <1>3. ASSUME o.ok, ~IsDir(h, e)
        PROVE  IsTree(Put(h, e, File(data))) /\ \A p : other(p) => List(Put(h, e, File(data)), p) = List(f, p)
    <2> DEFINE node == File(data)
    <2>1. node.type \in {"directory", "file"}
      BY DEF File
    <2> HIDE DEF node
    <2>2. IsTree(Put(h, e, node)) /\ \A p : IsPath(p) /\ p # d => List(Put(h, e, node), p) = List(h, p)
      BY <1>1, <1>3, <2>1, PutTree
    <2> QED
      BY <1>1, <2>2 DEF node
  <1>4. IsTree(g) /\ \A p : other(p) => List(g, p) = List(f, p)
    BY <1>1, <1>2, <1>3
  <1> QED
    BY <1>4 DEF g

\* Is the directory p removed, replaced or made by the operation?
Removed(r, p) ==
  CASE r.op.kind = "move" -> IsPrefix(r.path, p) \/ IsPrefix(r.op.destination, p)
    [] r.op.kind = "delete" -> IsPrefix(r.path, p)
    [] r.op.kind = "extract" -> \/ IsPrefix(ExtractsTo(r), p)
                                \/ IsPrefix(p, ExtractsTo(r)) /\ ~IsDir(fs[r.target], Front(ExtractsTo(r)))
    [] r.op.kind = "mkdir" -> IsPrefix(p, r.op.destination) /\ ~IsDir(fs[r.target], Front(r.op.destination))
    [] OTHER -> FALSE

\* Those are the directories that are known to be out of date.
LEMMA DisplacedIs ==
  ASSUME NEW r, RunOK(r), NEW p \in DOMAIN dirs
  PROVE  Removed(r, p) => p \in Displaced(r)
  <1>1. CASE r.op.kind = "move"
    BY <1>1 DEF Displaced, Removed
  <1>2. CASE r.op.kind = "delete"
    BY <1>2 DEF Displaced, Removed
  <1>3. CASE r.op.kind = "extract"
    <2> DEFINE d == ExtractsTo(r)
    <2>1. IsPath(d)
      BY <1>3 DEF RunOK
    <2> HIDE DEF d
    <2>2. parentPath(d) = Front(d)
      BY <2>1, ParentIsFront
    <2> QED
      BY <1>3, <2>2 DEF Displaced, Removed, d
  <1>4. CASE r.op.kind = "mkdir"
    <2>1. parentPath(r.op.destination) = Front(r.op.destination)
      BY <1>4, ParentIsFront DEF RunOK
    <2> QED
      BY <1>4, <2>1 DEF Displaced, Removed
  <1>5. CASE r.op.kind \notin {"move", "delete", "extract", "mkdir"}
    BY <1>5 DEF Removed
  <1> QED
    BY <1>1, <1>2, <1>3, <1>4, <1>5

\* An operation leaves a tree behind, and the lists it changes are those it has
\* read again or those known to be out of date.
LEMMA OutcomeTouches ==
  ASSUME NEW r, RunOK(r), IsTree(fs[r.target])
  PROVE  /\ IsTree(Outcome(r).fs)
         /\ \A p : IsPath(p) /\ p \notin Rereads(r) /\ ~Removed(r, p)
                     => List(Outcome(r).fs, p) = List(fs[r.target], p)
  <1> DEFINE f == fs[r.target]
             g == Outcome(r).fs
             other(p) == IsPath(p) /\ p \notin Rereads(r) /\ ~Removed(r, p)
             kept(h) == IsTree(h) /\ \A p : other(p) => List(h, p) = List(f, p)
  <1>0. IsTree(f) /\ IsPath(r.path) /\ r.op.kind \in RunKinds
    BY DEF RunOK
  <1>1. CASE r.op.kind = "upload"
    <2>1. PICK n, offset, data : g = Upload(f, Append(r.path, n), offset, data).fs
      BY <1>1 DEF Outcome, joinPath
    <2> DEFINE h == Upload(f, Append(r.path, n), offset, data).fs
    <2>2. IsTree(h) /\ \A p : IsPath(p) /\ p # r.path => List(h, p) = List(f, p)
      <3> HIDE DEF f
      <3> QED
        BY <1>0, UploadTree
    <2>3. \A p : other(p) => IsPath(p) /\ p # r.path
      BY <1>1 DEF Rereads
    <2> HIDE DEF g, h, f, other
    <2>4. g = h /\ kept(h)
      BY <2>1, <2>2, <2>3 DEF h
    <2> QED
      BY <2>4 DEF g, f, other
  <1>2. CASE r.op.kind = "move"
    <2> DEFINE d == r.op.destination
               overwrite == r.op.overwrite
               h == Rename(f, r.path, d, overwrite).fs
    <2>1. g = h /\ IsPath(d)
      BY <1>2 DEF Outcome, RunOK
    <2>2. \A p : other(p) => IsPath(p) /\ p \notin {Front(r.path), Front(d)} /\ ~IsPrefix(r.path, p)
                              /\ ~IsPrefix(d, p)
      BY <1>0, <1>2, <2>1, ParentIsFront DEF Rereads, Removed
    <2> HIDE DEF f, g, d, overwrite, other
    <2>3. IsTree(h) /\ \A p : IsPath(p) /\ p \notin {Front(r.path), Front(d)} /\ ~IsPrefix(r.path, p)
                              /\ ~IsPrefix(d, p) => List(h, p) = List(f, p)
      BY <1>0, <2>1, RenameTree
    <2> HIDE DEF h
    <2>4. kept(h)
      BY <2>2, <2>3
    <2>5. kept(g)
      BY <2>1, <2>4
    <2> QED
      BY <2>5 DEF g, f, other
  <1>3. CASE r.op.kind = "mkdir"
    <2> DEFINE d == r.op.destination
               h == MkdirAll(f, d).fs
    <2>1. g = h /\ IsPath(d)
      BY <1>3 DEF Outcome, RunOK
    <2>2. \A p : other(p) => IsPath(p) /\ ~(IsPrefix(p, d) /\ ~IsDir(f, Front(d))) /\ p # Front(d)
      BY <1>0, <1>3, <2>1, ParentIsFront DEF Rereads, Removed
    <2> HIDE DEF f, g, d, other
    <2>3. IsTree(h) /\ \A p : IsPath(p) /\ ~(IsPrefix(p, d) /\ ~IsDir(f, Front(d))) /\ p # Front(d)
                                => List(h, p) = List(f, p)
      BY <1>0, <2>1, MkdirTree
    <2> HIDE DEF h
    <2>4. kept(h)
      BY <2>2, <2>3
    <2>5. kept(g)
      BY <2>1, <2>4
    <2> QED
      BY <2>5 DEF g, f, other
  <1>4. CASE r.op.kind = "delete"
    <2>1. g = f \/ g = Pruned(f, r.path)
      BY <1>4 DEF Outcome, Delete, Done, Refused
    <2>2. \A p : other(p) => IsPath(p) /\ p # Front(r.path) /\ ~IsPrefix(r.path, p)
      BY <1>0, <1>4, ParentIsFront DEF Rereads, Removed
    <2> HIDE DEF f, g, other
    <2> DEFINE h == Pruned(f, r.path)
    <2>3. IsTree(h) /\ \A p : IsPath(p) /\ p # Front(r.path) /\ ~IsPrefix(r.path, p) => List(h, p) = List(f, p)
      BY <1>0, PrunedTree
    <2> HIDE DEF h
    <2>4. kept(h) /\ kept(f)
      BY <1>0, <2>2, <2>3
    <2>5. kept(g)
      BY <2>1, <2>4 DEF h
    <2> QED
      BY <2>5 DEF g, f, other
  <1>5. CASE r.op.kind = "extract"
    <2> DEFINE d == ExtractsTo(r)
               overwrite == r.op.overwrite
               h == Extract(f, r.path, d, overwrite, "member", <<"m">>).fs
    <2>1. g = h /\ IsPath(d)
      BY <1>5 DEF Outcome, RunOK
    <2>2. \A p : other(p) => IsPath(p) /\ p \notin {d, Front(d)} /\ ~(IsPrefix(p, d) /\ ~IsDir(f, Front(d)))
      <3>1. parentPath(d) = Front(d) /\ IsPrefix(d, d)
        <4> HIDE DEF d
        <4> QED
          BY <2>1, ParentIsFront, PrefixItself
      <3> QED
        BY <1>5, <3>1 DEF Rereads, Removed
    <2> HIDE DEF f, g, d, overwrite, other
    <2>3. IsTree(h) /\ \A p : (IsPath(p) /\ p \notin {d, Front(d)} /\ ~(IsPrefix(p, d) /\ ~IsDir(f, Front(d))))
                                => List(h, p) = List(f, p)
      BY <1>0, <2>1, ExtractTree
    <2> HIDE DEF h
    <2>4. kept(h)
      BY <2>2, <2>3
    <2>5. kept(g)
      BY <2>1, <2>4
    <2> QED
      BY <2>5 DEF g, f, other
  <1>6. CASE r.op.kind \in {"archive", "info", "view", "download"}
    <2>1. g = f
      BY <1>6 DEF Outcome, Done, Refused
    <2> HIDE DEF f, g, other
    <2>2. kept(f)
      BY <1>0
    <2>3. kept(g)
      BY <2>1, <2>2
    <2> QED
      BY <2>3 DEF g, f, other
  <1> QED
    BY <1>0, <1>1, <1>2, <1>3, <1>4, <1>5, <1>6 DEF RunKinds

-----------------------------------------------------------------------------
(* Calls under way.                                                         *)

\* The calls for a path are the same ones.
CallsSame(p, calls, old) ==
  /\ CallsFor(p, calls) = CallsFor(p, old)
  /\ \A l \in CallsFor(p, old) : calls[l] = old[l]

\* There is one call for a path.
OneCall(p, calls, l) == CallsFor(p, calls) = {l} /\ calls[l] = 1

\* One call is answered or arrives: the others stay.
LEMMA CallTaken ==
  ASSUME NEW calls, NEW l \in DOMAIN calls, \A c \in DOMAIN calls : calls[c] \in Nat \ {0}
  PROVE  LET rest == calls (-) SetToBag({l})
         IN  /\ DOMAIN rest \subseteq DOMAIN calls /\ \A c \in DOMAIN rest : rest[c] \in Nat \ {0}
             /\ \A c \in DOMAIN calls \ {l} : c \in DOMAIN rest /\ rest[c] = calls[c]
             /\ l \in DOMAIN rest <=> calls[l] # 1
  <1> DEFINE rest == calls (-) SetToBag({l})
             B == [e \in DOMAIN calls |-> IF e \in {l} THEN calls[e] - 1 ELSE calls[e]]
  <1>1. rest = [e \in {d \in DOMAIN B : B[d] > 0} |-> B[e]]
    BY DEF (-), SetToBag
  <1>2. DOMAIN B = DOMAIN calls
    OBVIOUS
  <1>3. B[l] = calls[l] - 1 /\ \A c \in DOMAIN calls \ {l} : B[c] = calls[c]
    OBVIOUS
  <1> HIDE DEF B, rest
  <1>4. DOMAIN rest = {d \in DOMAIN calls : B[d] > 0} /\ \A c \in DOMAIN rest : rest[c] = B[c]
    BY <1>1, <1>2
  <1>5. \A c \in DOMAIN calls : B[c] \in Nat /\ (B[c] = 0 <=> c = l /\ calls[l] = 1)
    BY <1>3
  <1> QED
    <2>1. /\ DOMAIN rest \subseteq DOMAIN calls /\ \A c \in DOMAIN rest : rest[c] \in Nat \ {0}
          /\ \A c \in DOMAIN calls \ {l} : c \in DOMAIN rest /\ rest[c] = calls[c]
          /\ l \in DOMAIN rest <=> calls[l] # 1
      BY <1>3, <1>4, <1>5
    <2> QED
      BY <2>1 DEF rest

\* Calls under way, and others beside them.
Joined(calls, L) == calls (+) SetToBag(L)

\* Calls that are made join those under way.
LEMMA CallsMade ==
  ASSUME NEW calls, \A c \in DOMAIN calls : calls[c] \in Nat \ {0}, NEW L
  PROVE  LET more == Joined(calls, L)
         IN  /\ DOMAIN more = DOMAIN calls \cup L /\ \A c \in DOMAIN more : more[c] \in Nat \ {0}
             /\ \A c \in DOMAIN calls \ L : more[c] = calls[c]
             /\ \A c \in L \ DOMAIN calls : more[c] \in {1}
  <1> DEFINE more == Joined(calls, L)
  <1>1. more = [e \in DOMAIN calls \cup L |-> (IF e \in DOMAIN calls THEN calls[e] ELSE 0)
                                                + (IF e \in L THEN 1 ELSE 0)]
    BY DEF Joined, (+), SetToBag
  <1> HIDE DEF more
  <1>2. /\ DOMAIN more = DOMAIN calls \cup L /\ \A c \in DOMAIN more : more[c] \in Nat \ {0}
        /\ \A c \in DOMAIN calls \ L : more[c] = calls[c]
        /\ \A c \in L \ DOMAIN calls : more[c] \in {1}
    BY <1>1
  <1> QED
    BY <1>2 DEF more

\* A call is answered: another one takes its place.
LEMMA CallAnswered ==
  ASSUME NEW l \in DOMAIN listings, \A c \in DOMAIN listings : listings[c] \in Nat \ {0},
         NEW m, m.path = l.path,
         NEW more, more = (listings (-) SetToBag({l})) (+) SetToBag({m})
  PROVE  /\ DOMAIN more \subseteq DOMAIN listings \cup {m} /\ m \in DOMAIN more
         /\ \A c \in DOMAIN more : more[c] \in Nat \ {0}
         /\ \A p : p # l.path => CallsSame(p, more, listings)
         /\ Single(l.path) => OneCall(l.path, more, m)
  <1> DEFINE rest == listings (-) SetToBag({l})
  <1>1. /\ DOMAIN rest \subseteq DOMAIN listings /\ \A c \in DOMAIN rest : rest[c] \in Nat \ {0}
        /\ \A c \in DOMAIN listings \ {l} : c \in DOMAIN rest /\ rest[c] = listings[c]
        /\ l \in DOMAIN rest <=> listings[l] # 1
    BY CallTaken
  <1> HIDE DEF rest
  <1>2. more = rest (+) SetToBag({m})
    BY DEF rest
  <1>3. /\ DOMAIN more = DOMAIN rest \cup {m} /\ \A c \in DOMAIN more : more[c] \in Nat \ {0}
        /\ \A c \in DOMAIN rest \ {m} : more[c] = rest[c]
        /\ \A c \in {m} \ DOMAIN rest : more[c] = 1
    <2> DEFINE M == {m}
               sum == Joined(rest, M)
    <2>1. more = sum
      BY <1>2 DEF Joined
    <2> HIDE DEF M
    <2>2. ASSUME NEW c \in M \ DOMAIN rest PROVE sum[c] \in {1}
      BY <1>1, CallsMade
    <2>3. /\ DOMAIN sum = DOMAIN rest \cup M /\ \A c \in DOMAIN sum : sum[c] \in Nat \ {0}
          /\ \A c \in DOMAIN rest \ M : sum[c] = rest[c]
      BY <1>1, CallsMade
    <2> HIDE DEF sum
    <2> QED
      BY <2>1, <2>2, <2>3 DEF M
  <1>4. ASSUME NEW p, p # l.path PROVE CallsSame(p, more, listings)
    <2>1. \A c : c.path = p => c # l /\ c # m
      BY <1>4
    <2> QED
      BY <1>1, <1>3, <2>1 DEF CallsSame, CallsFor, BagToSet
  <1>5. ASSUME Single(l.path) PROVE OneCall(l.path, more, m)
    <2>1. /\ listings[l] = 1 /\ \A c \in DOMAIN listings : c.path = l.path => c = l
      <3>1. l \in CallsFor(l.path, listings)
        BY DEF CallsFor, BagToSet
      <3>2. listings[l] = 1 /\ CallsFor(l.path, listings) = {l}
        BY <1>5, <3>1 DEF Single
      <3> QED
        BY <3>2 DEF CallsFor, BagToSet
    <2>2. \A c \in DOMAIN rest : c.path # l.path
      BY <1>1, <2>1
    <2> QED
      BY <1>3, <2>2 DEF OneCall, CallsFor, BagToSet
  <1> QED
    BY <1>1, <1>3, <1>4, <1>5

\* An answer arrives: its call is gone.
LEMMA CallArrives ==
  ASSUME NEW l \in DOMAIN listings, \A c \in DOMAIN listings : listings[c] \in Nat \ {0},
         NEW rest, rest = listings (-) SetToBag({l})
  PROVE  /\ DOMAIN rest \subseteq DOMAIN listings
         /\ \A c \in DOMAIN rest : rest[c] \in Nat \ {0}
         /\ \A p : p # l.path => CallsSame(p, rest, listings)
         /\ Single(l.path) => CallsFor(l.path, rest) = {}
  <1>1. /\ DOMAIN rest \subseteq DOMAIN listings /\ \A c \in DOMAIN rest : rest[c] \in Nat \ {0}
        /\ \A c \in DOMAIN listings \ {l} : c \in DOMAIN rest /\ rest[c] = listings[c]
        /\ l \in DOMAIN rest <=> listings[l] # 1
    <2> DEFINE left == listings (-) SetToBag({l})
    <2>1. /\ DOMAIN left \subseteq DOMAIN listings /\ \A c \in DOMAIN left : left[c] \in Nat \ {0}
          /\ \A c \in DOMAIN listings \ {l} : c \in DOMAIN left /\ left[c] = listings[c]
          /\ l \in DOMAIN left <=> listings[l] # 1
      BY CallTaken
    <2> HIDE DEF left
    <2>2. rest = left
      BY DEF left
    <2> QED
      BY <2>1, <2>2
  <1>2. ASSUME NEW p, p # l.path PROVE CallsSame(p, rest, listings)
    BY <1>1, <1>2 DEF CallsSame, CallsFor, BagToSet
  <1>3. ASSUME Single(l.path) PROVE CallsFor(l.path, rest) = {}
    <2>1. l \in CallsFor(l.path, listings)
      BY DEF CallsFor, BagToSet
    <2>2. listings[l] = 1 /\ CallsFor(l.path, listings) = {l}
      BY <1>3, <2>1 DEF Single
    <2> QED
      BY <1>1, <2>2 DEF CallsFor, BagToSet
  <1> QED
    BY <1>1, <1>2, <1>3

\* Directories are asked for: each one that is not known to be out of date has
\* one call under way, which is not answered yet, and the others are as before.
LEMMA Loaded ==
  ASSUME NEW c, NEW ps, NEW old, NEW oldLate, loadDirectory(c, ps, old, oldLate),
         \A l \in DOMAIN listings : CallOK(l) /\ listings[l] \in Nat \ {0},
         \A p \in ps : IsPath(p), c \in Range(Containers),
         \A p \in DOMAIN old : IsPath(p) /\ DirOK(old[p]),
         \A l \in DOMAIN listings : l.path \in DOMAIN old \cup oldLate
  PROVE  /\ \A l \in DOMAIN listings' : CallOK(l) /\ listings'[l] \in Nat \ {0}
         /\ \A p \in DOMAIN dirs' : IsPath(p) /\ DirOK(dirs'[p])
         /\ \A l \in DOMAIN listings' : l.path \in DOMAIN dirs' \cup late'
         /\ DOMAIN dirs' = DOMAIN old \cup ps
         /\ \A p \in ps : CallsFor(p, listings') # {}
         /\ \A p \in ps \ late' : OneCall(p, listings', [target |-> c, path |-> p, answer |-> None])
         /\ \A p \in DOMAIN dirs' \ ps : dirs'[p] = old[p] /\ CallsSame(p, listings', listings)
                                         /\ (p \notin late' => p \notin oldLate)
  <1> DEFINE L == {[target |-> c, path |-> p, answer |-> None] : p \in ps}
             call(p) == [target |-> c, path |-> p, answer |-> None]
  <1>1. listings' = listings (+) SetToBag(L)
    BY DEF loadDirectory
  <1>2. \A l : l \in L => l.path \in ps /\ l = call(l.path) /\ CallOK(l)
    BY DEF CallOK
  <1>3. \A p \in ps : call(p) \in L /\ call(p).path = p
    OBVIOUS
  <1> HIDE DEF L, call
  <1>4. /\ DOMAIN listings' = DOMAIN listings \cup L /\ \A l \in DOMAIN listings' : listings'[l] \in Nat \ {0}
        /\ \A l \in DOMAIN listings \ L : listings'[l] = listings[l]
        /\ \A l \in L \ DOMAIN listings : listings'[l] = 1
    <2> DEFINE more == Joined(listings, L)
    <2>1. ASSUME NEW l \in L \ DOMAIN listings PROVE more[l] \in {1}
      BY CallsMade
    <2>3. /\ DOMAIN more = DOMAIN listings \cup L /\ \A l \in DOMAIN more : more[l] \in Nat \ {0}
          /\ \A l \in DOMAIN listings \ L : more[l] = listings[l]
      BY CallsMade
    <2> HIDE DEF more
    <2>2. listings' = more
      BY <1>1 DEF more, Joined
    <2> QED
      BY <2>1, <2>2, <2>3
  <1>5. late' = (oldLate \ ps) \cup {p \in ps : CallsFor(p, listings) # {}}
    BY DEF loadDirectory
  <1>6. dirs' = [p \in DOMAIN old \cup ps |->
                CASE p \in ps \cap DOMAIN old -> [old[p] EXCEPT !.loading = TRUE]
                  [] p \in ps \ DOMAIN old -> [entries |-> NoEntries, loading |-> TRUE, of |-> None]
                  [] OTHER -> old[p]]
    BY DEF loadDirectory
  <1>7. DOMAIN dirs' = DOMAIN old \cup ps /\ \A p \in DOMAIN dirs' \ ps : dirs'[p] = old[p]
    BY <1>6
  <1>8. ASSUME NEW p \in DOMAIN dirs' PROVE IsPath(p) /\ DirOK(dirs'[p])
    <2>1. CASE p \in ps \cap DOMAIN old
      BY <1>6, <2>1 DEF DirOK
    <2>2. CASE p \in ps \ DOMAIN old
      BY <1>6, <2>2 DEF DirOK
    <2>3. CASE p \notin ps
      BY <1>7, <2>3
    <2> QED
      BY <1>7, <2>1, <2>2, <2>3
  <1>9. ASSUME NEW p \in ps PROVE call(p) \in CallsFor(p, listings')
    BY <1>3, <1>4 DEF CallsFor, BagToSet
  <1>10. ASSUME NEW p \in ps, p \notin late' PROVE OneCall(p, listings', call(p))
    <2>1. CallsFor(p, listings) = {}
      BY <1>5, <1>10
    <2>2. \A l \in DOMAIN listings : l.path # p
      BY <2>1 DEF CallsFor, BagToSet
    <2>3. CallsFor(p, listings') = {call(p)}
      BY <1>2, <1>3, <1>4, <2>2 DEF CallsFor, BagToSet
    <2>4. listings'[call(p)] = 1
      BY <1>3, <1>4, <2>2
    <2> QED
      BY <2>3, <2>4 DEF OneCall
  <1>11. ASSUME NEW p, p \notin ps PROVE CallsSame(p, listings', listings)
    BY <1>2, <1>4, <1>11 DEF CallsSame, CallsFor, BagToSet
  <1>12. ASSUME NEW l \in DOMAIN listings' PROVE l.path \in DOMAIN dirs' \cup late'
    BY <1>2, <1>4, <1>5, <1>7
  <1> QED
    BY <1>2, <1>4, <1>5, <1>7, <1>8, <1>9, <1>10, <1>11, <1>12 DEF call

-----------------------------------------------------------------------------
(* Steps of the tab.                                                        *)

\* The tab browses one of the pod's containers.
LEMMA ContainerIs == container \in Range(Containers)
  <1>1. Containers \in Seq(Range(Containers)) /\ Containers # <<>>
    BY BrowserAssumption
  <1>2. ToSet(Containers) = Range(Containers)
    BY DEF ToSet, Range
  <1>3. 1 \in DOMAIN Containers
    <2> DEFINE S == Range(Containers)
    <2>1. Containers \in Seq(S)
      BY <1>1
    <2> HIDE DEF S
    <2> QED
      BY <1>1, <2>1
  <1>4. Containers[1] \in Range(Containers)
    BY <1>3 DEF Range
  <1> QED
    BY <1>2, <1>4 DEF container

\* What is honest of a directory stays so while nothing of it changes.
LEMMA DirStays ==
  ASSUME NEW p, DirHonest(p), container' = container, CallsSame(p, listings', listings),
         dirs'[p] = dirs[p], \A e : Honest(p, e) => Honest(p, e)'
  PROVE  DirHonest(p)'
  BY DEF DirHonest, Single, CallsSame

\* A listing stays up to date, or awaits the end of a run, as long as neither
\* the directory nor the runs that are to read it change.
LEMMA HonestStays ==
  ASSUME NEW p, NEW e, Honest(p, e), container' = container,
         List(fs'[container], p) = List(fs[container], p) \/ Awaited(p)',
         Awaited(p) => Awaited(p)'
  PROVE  Honest(p, e)'
  BY DEF Honest

\* A run is still awaited if it has not ended.
LEMMA AwaitedStays ==
  ASSUME NEW p, container' = container,
         \A i \in DOMAIN runs :
           runs[i].target = container /\ p \in runs[i].refresh
             => i \in DOMAIN runs' /\ runs'[i].target = runs[i].target /\ runs'[i].refresh = runs[i].refresh
  PROVE  Awaited(p) => Awaited(p)'
  BY DEF Awaited

\* What only the page shows is no part of the rest.
LEMMA PageOnly ==
  ASSUME BrowserInv, UNCHANGED <<fs, chosen, dirs, busy, listings, runs, late, steps>>,
         transfer' = None \/ DOMAIN runs # {}, PageOK'
  PROVE  BrowserInv'
  <1>1. container' = container
    BY DEF container
  <1>2. TreesOK' /\ CallsOK' /\ DirsOK' /\ CallsKnown'
    BY DEF BrowserInv, TreesOK, CallsOK, DirsOK, CallsKnown
  <1>3. RunsOK'
    BY DEF BrowserInv, RunsOK
  <1>4. MarkersBacked'
    BY DEF BrowserInv, MarkersBacked
  <1>5. AllHonest'
    <2>1. ASSUME NEW p \in DOMAIN dirs \ late PROVE DirHonest(p)'
      <3>1. DirHonest(p)
        BY DEF BrowserInv, AllHonest
      <3>2. \A e : Honest(p, e) => Honest(p, e)'
        BY <1>1 DEF Honest, Awaited
      <3> QED
        BY <1>1, <3>1, <3>2, DirStays DEF CallsSame
    <2> QED
      BY <2>1 DEF AllHonest
  <1> QED
    BY <1>2, <1>3, <1>4, <1>5 DEF BrowserInv

\* What is being read says nothing yet.
LEMMA FreshCall ==
  ASSUME NEW p, NEW c, OneCall(p, listings', [target |-> c, path |-> p, answer |-> None])
  PROVE  DirHonest(p)'
  <1> DEFINE m == [target |-> c, path |-> p, answer |-> None]
  <1>1. m.answer = None
    OBVIOUS
  <1> HIDE DEF m
  <1>2. CallsFor(p, listings') = {m} /\ listings'[m] = 1
    BY DEF OneCall, m
  <1> QED
    BY <1>1, <1>2 DEF DirHonest, Single

\* Directories are asked for again, or one more.
LEMMA LoadKeeps ==
  ASSUME BrowserInv, NEW c \in Range(Containers), NEW ps, \A p \in ps : IsPath(p),
         loadDirectory(c, ps, dirs, late), fs' = fs, chosen' = chosen,
         \A p \in DOMAIN dirs \ ps : Awaited(p) => Awaited(p)'
  PROVE  /\ CallsOK' /\ DirsOK' /\ CallsKnown' /\ AllHonest'
         /\ \A p \in DOMAIN dirs' : dirs'[p].loading => CallsFor(p, listings') # {}
  <1>1. /\ \A l \in DOMAIN listings : CallOK(l) /\ listings[l] \in Nat \ {0}
        /\ \A p \in DOMAIN dirs : IsPath(p) /\ DirOK(dirs[p])
        /\ \A l \in DOMAIN listings : l.path \in DOMAIN dirs \cup late
    BY DEF BrowserInv, CallsOK, DirsOK, CallsKnown
  <1>2. /\ \A l \in DOMAIN listings' : CallOK(l) /\ listings'[l] \in Nat \ {0}
        /\ \A p \in DOMAIN dirs' : IsPath(p) /\ DirOK(dirs'[p])
        /\ \A l \in DOMAIN listings' : l.path \in DOMAIN dirs' \cup late'
        /\ DOMAIN dirs' = DOMAIN dirs \cup ps
        /\ \A p \in ps : CallsFor(p, listings') # {}
        /\ \A p \in ps \ late' : OneCall(p, listings', [target |-> c, path |-> p, answer |-> None])
        /\ \A p \in DOMAIN dirs' \ ps : dirs'[p] = dirs[p] /\ CallsSame(p, listings', listings)
                                        /\ (p \notin late' => p \notin late)
    BY <1>1, Loaded
  <1>3. container' = container
    BY DEF container
  <1>4. ASSUME NEW p \in DOMAIN dirs' \ late' PROVE DirHonest(p)'
    <2>1. CASE p \in ps
      BY <1>2, <2>1, FreshCall
    <2>2. CASE p \notin ps
      <3>1. DirHonest(p) /\ p \in DOMAIN dirs
        BY <1>2, <2>2 DEF BrowserInv, AllHonest
      <3>2. \A e : Honest(p, e) => Honest(p, e)'
        BY <1>3, <2>2, <3>1, HonestStays
      <3> QED
        BY <1>2, <1>3, <2>2, <3>1, <3>2, DirStays
    <2> QED
      BY <2>1, <2>2
  <1>5. ASSUME NEW p \in DOMAIN dirs', dirs'[p].loading PROVE CallsFor(p, listings') # {}
    <2>1. CASE p \in ps
      BY <1>2, <2>1
    <2>2. CASE p \notin ps
      BY <1>2, <1>5, <2>2 DEF BrowserInv, MarkersBacked, CallsSame
    <2> QED
      BY <2>1, <2>2
  <1> QED
    BY <1>2, <1>4, <1>5 DEF CallsOK, DirsOK, CallsKnown, AllHonest

\* Another container is browsed: its home is read, and nothing else is shown.
LEMMA HomeKeeps ==
  ASSUME BrowserInv, NEW c \in Range(Containers), openHome(c)
  PROVE  /\ CallsOK' /\ DirsOK' /\ CallsKnown' /\ AllHonest'
         /\ \A p \in DOMAIN dirs' : dirs'[p].loading => CallsFor(p, listings') # {}
  <1> DEFINE ps == ancestorPaths(Home[c])
             old == [p \in {} |-> 0]
             oldLate == {l.path : l \in BagToSet(listings)}
  <1>1. loadDirectory(c, ps, old, oldLate)
    BY DEF openHome
  <1>2. \A p \in ps : IsPath(p)
    <2>1. IsPath(Home[c])
      BY BrowserAssumption
    <2> QED
      BY <2>1, BeginningsArePrefixes DEF ancestorPaths
  <1>3. DOMAIN old = {}
    OBVIOUS
  <1>4. /\ \A l \in DOMAIN listings : CallOK(l) /\ listings[l] \in Nat \ {0}
        /\ \A p \in DOMAIN old : IsPath(p) /\ DirOK(old[p])
        /\ \A l \in DOMAIN listings : l.path \in DOMAIN old \cup oldLate
    BY DEF BrowserInv, CallsOK, BagToSet
  <1> HIDE DEF ps, old, oldLate
  <1>5. /\ \A l \in DOMAIN listings' : CallOK(l) /\ listings'[l] \in Nat \ {0}
        /\ \A p \in DOMAIN dirs' : IsPath(p) /\ DirOK(dirs'[p])
        /\ \A l \in DOMAIN listings' : l.path \in DOMAIN dirs' \cup late'
        /\ DOMAIN dirs' = DOMAIN old \cup ps
        /\ \A p \in ps : CallsFor(p, listings') # {}
        /\ \A p \in ps \ late' : OneCall(p, listings', [target |-> c, path |-> p, answer |-> None])
    BY <1>1, <1>2, <1>4, Loaded
  <1>6. \A p \in DOMAIN dirs' \ late' : DirHonest(p)'
    BY <1>3, <1>5, FreshCall
  <1> QED
    BY <1>3, <1>5, <1>6 DEF CallsOK, DirsOK, CallsKnown, AllHonest

\* What a step does to other runs: nothing but that they are not alone any more.
RunAsBefore(r, q) ==
  r.op = q.op /\ r.path = q.path /\ r.refresh = q.refresh /\ r.target = q.target
    /\ r.answer = q.answer /\ (r.alone => q.alone)

\* The runs beside a new one.
LEMMA RunIs ==
  ASSUME RunsOK, NEW op, NEW path, NEW refreshed, run(op, path, refreshed), RunOK(NewRun(op, path, refreshed))
  PROVE  /\ RunsOK' /\ DOMAIN runs' = DOMAIN runs \cup {steps'} /\ steps' \notin DOMAIN runs
         /\ runs'[steps'] = NewRun(op, path, refreshed)
         /\ \A i \in DOMAIN runs : RunAsBefore(runs'[i], runs[i])
         /\ \A i \in DOMAIN runs : runs'[i].alone => runs[i].target # container
  <1>1. /\ steps \in Nat /\ steps' = steps + 1 /\ DOMAIN runs \subseteq 1..steps
    BY DEF RunsOK, run
  <1>2. steps' \notin DOMAIN runs /\ DOMAIN runs' = DOMAIN runs \cup {steps'} /\ steps' \in Nat
    BY <1>1 DEF run
  <1>3. runs'[steps'] = NewRun(op, path, refreshed)
    BY DEF run
  <1>4. ASSUME NEW i \in DOMAIN runs
        PROVE  /\ RunAsBefore(runs'[i], runs[i]) /\ RunOK(runs'[i])
               /\ runs'[i].alone => runs[i].target # container
    <2> DEFINE r == runs[i]
               q == [op |-> r.op, path |-> r.path, refresh |-> r.refresh, target |-> r.target,
                     answer |-> r.answer, alone |-> r.alone /\ r.target # container]
    <2>1. RunOK(r) /\ runs'[i] = [r EXCEPT !.alone = @ /\ r.target # container]
      BY <1>2 DEF RunsOK, run
    <2>2. r = [op |-> r.op, path |-> r.path, refresh |-> r.refresh, target |-> r.target,
               answer |-> r.answer, alone |-> r.alone]
      BY <2>1 DEF RunOK
    <2> HIDE DEF r
    <2>3. runs'[i] = q
      BY <2>1, <2>2
    <2>4. q.alone \in BOOLEAN /\ (q.alone => r.alone) /\ (q.alone => r.target # container)
      OBVIOUS
    <2>5. RunAsBefore(q, r)
      BY <2>4 DEF RunAsBefore
    <2>6. RunOK(q)
      <3>1. Rereads(q) = Rereads(r) /\ ExtractsTo(q) = ExtractsTo(r)
        BY DEF Rereads, ExtractsTo
      <3> QED
        BY <2>1, <2>4, <3>1 DEF RunOK
    <2> HIDE DEF q
    <2> QED
      BY <2>3, <2>4, <2>5, <2>6 DEF r
  <1>5. RunsOK'
    <2>1. \A i \in DOMAIN runs' : RunOK(runs'[i])
      BY <1>2, <1>3, <1>4
    <2>2. DOMAIN runs' \subseteq 1..steps'
      BY <1>1, <1>2
    <2> QED
      BY <1>2, <2>1, <2>2 DEF RunsOK
  <1> QED
    BY <1>2, <1>3, <1>4, <1>5

\* An operation is started: nothing of the tree changes yet.
LEMMA RunStarts ==
  ASSUME BrowserInv, NEW op, NEW path, NEW refreshed, run(op, path, refreshed),
         RunOK(NewRun(op, path, refreshed)),
         UNCHANGED <<fs, chosen, dirs, transfer, listings, late>>, PageOK'
  PROVE  BrowserInv'
  <1>1. /\ RunsOK' /\ DOMAIN runs' = DOMAIN runs \cup {steps'} /\ steps' \notin DOMAIN runs
        /\ runs'[steps'] = NewRun(op, path, refreshed)
        /\ \A i \in DOMAIN runs : RunAsBefore(runs'[i], runs[i])
    BY RunIs DEF BrowserInv
  <1>2. container' = container
    BY DEF container
  <1>3. TreesOK' /\ CallsOK' /\ DirsOK' /\ CallsKnown'
    BY DEF BrowserInv, TreesOK, CallsOK, DirsOK, CallsKnown
  <1>4. MarkersBacked'
    <2>1. busy' = busy \cup {path}
      BY DEF run
    <2>2. \A i \in DOMAIN runs : runs'[i].path = runs[i].path
      BY <1>1 DEF RunAsBefore
    <2>3. runs'[steps'].path = path
      BY <1>1 DEF NewRun
    <2>4. busy \subseteq {runs[i].path : i \in DOMAIN runs}
      BY DEF BrowserInv, MarkersBacked
    <2>5. busy' \subseteq {runs'[i].path : i \in DOMAIN runs'}
      BY <1>1, <2>1, <2>2, <2>3, <2>4
    <2> QED
      BY <1>1, <2>5 DEF BrowserInv, MarkersBacked
  <1>5. ASSUME NEW p \in DOMAIN dirs \ late PROVE DirHonest(p)'
    <2>1. DirHonest(p)
      BY DEF BrowserInv, AllHonest
    <2>2. Awaited(p) => Awaited(p)'
      BY <1>1, <1>2, AwaitedStays DEF RunAsBefore
    <2>3. \A e : Honest(p, e) => Honest(p, e)'
      BY <1>2, <2>2, HonestStays
    <2> QED
      BY <1>2, <2>1, <2>3, DirStays DEF CallsSame
  <1> QED
    BY <1>1, <1>3, <1>4, <1>5 DEF BrowserInv, AllHonest

\* The agent lists a directory.
LEMMA AgentListsKeeps ==
  ASSUME BrowserInv, NEW l \in DOMAIN listings, AgentLists(l)
  PROVE  BrowserInv'
  <1>1. PICK a \in {[ok |-> FALSE, entries |-> NoEntries]} \cup
                   (IF IsDir(fs[l.target], l.path)
                      THEN {[ok |-> TRUE, entries |-> List(fs[l.target], l.path)]} ELSE {}) :
               listings' = (listings (-) SetToBag({l})) (+) SetToBag({[l EXCEPT !.answer = a]})
    BY DEF AgentLists
  <1> DEFINE m == [l EXCEPT !.answer = a]
  <1>2. a.ok => a.entries = List(fs[l.target], l.path)
    BY <1>1
  <1>3. /\ m = [target |-> m.target, path |-> m.path, answer |-> m.answer]
        /\ m.target = l.target /\ m.path = l.path /\ m.answer = a
    BY DEF BrowserInv, CallsOK, CallOK
  <1> HIDE DEF m
  <1>4. /\ DOMAIN listings' \subseteq DOMAIN listings \cup {m} /\ m \in DOMAIN listings'
        /\ \A c \in DOMAIN listings' : listings'[c] \in Nat \ {0}
        /\ \A p : p # l.path => CallsSame(p, listings', listings)
        /\ Single(l.path) => OneCall(l.path, listings', m)
    <2>0. m.path = l.path
      BY <1>3
    <2>1. \A c \in DOMAIN listings : listings[c] \in Nat \ {0}
      BY DEF BrowserInv, CallsOK
    <2>2. listings' = (listings (-) SetToBag({l})) (+) SetToBag({m})
      BY <1>1 DEF m
    <2> DEFINE more == listings'
    <2>3. more = (listings (-) SetToBag({l})) (+) SetToBag({m})
      BY <2>2
    <2> HIDE DEF more
    <2>4. DOMAIN more \subseteq DOMAIN listings \cup {m}
      BY <2>0, <2>1, <2>3, CallAnswered
    <2>7. m \in DOMAIN more
      BY <2>0, <2>1, <2>3, CallAnswered
    <2>8. \A c \in DOMAIN more : more[c] \in Nat \ {0}
      BY <2>0, <2>1, <2>3, CallAnswered
    <2>5. \A p : p # l.path => CallsSame(p, more, listings)
      BY <2>0, <2>1, <2>3, CallAnswered
    <2>6. Single(l.path) => OneCall(l.path, more, m)
      BY <2>0, <2>1, <2>3, CallAnswered
    <2> QED
      BY <2>4, <2>5, <2>6, <2>7, <2>8 DEF more
  <1>5. UNCHANGED <<fs, chosen, dirs, expanded, menu, dialog, busy, transfer, runs, late, steps>>
    BY DEF AgentLists, pane, flags
  <1>6. container' = container
    BY <1>5 DEF container
  <1>7. CallsOK' /\ CallsKnown'
    <2>1. CallOK(m) /\ m.path \in DOMAIN dirs \cup late
      BY <1>3 DEF BrowserInv, CallsOK, CallOK, CallsKnown
    <2> QED
      BY <1>4, <1>5, <2>1 DEF BrowserInv, CallsOK, CallsKnown
  <1>8. TreesOK' /\ DirsOK' /\ PageOK' /\ RunsOK'
    BY <1>5 DEF BrowserInv, TreesOK, DirsOK, PageOK, RunsOK
  <1>9. MarkersBacked'
    <2>1. ASSUME NEW p, CallsFor(p, listings) # {} PROVE CallsFor(p, listings') # {}
      <3>1. CASE p = l.path
        BY <1>3, <1>4, <3>1 DEF CallsFor, BagToSet
      <3>2. CASE p # l.path
        BY <1>4, <2>1, <3>2 DEF CallsSame
      <3> QED
        BY <3>1, <3>2
    <2> QED
      BY <1>5, <2>1 DEF BrowserInv, MarkersBacked
  <1>10. ASSUME NEW p \in DOMAIN dirs \ late PROVE DirHonest(p)'
    <2>1. DirHonest(p) /\ Awaited(p) = Awaited(p)'
      BY <1>5, <1>6 DEF BrowserInv, AllHonest, Awaited
    <2>2. \A e : Honest(p, e) => Honest(p, e)'
      BY <1>5, <1>6, <2>1 DEF Honest
    <2>3. CASE p # l.path
      BY <1>4, <1>5, <1>6, <2>1, <2>2, <2>3, DirStays
    <2>4. CASE p = l.path
      <3>1. CallsFor(p, listings') = {m} /\ listings'[m] = 1
        BY <1>4, <2>1, <2>4 DEF DirHonest, OneCall
      <3>2. m.target = container' /\ m.answer # None /\ m.answer.ok => Honest(p, m.answer.entries)'
        BY <1>2, <1>3, <1>5, <1>6, <2>4 DEF Honest
      <3> QED
        BY <3>1, <3>2 DEF DirHonest, Single
    <2> QED
      BY <2>3, <2>4
  <1> QED
    BY <1>5, <1>7, <1>8, <1>9, <1>10 DEF BrowserInv, AllHonest

\* An answer is stored.
LEMMA ListingArrivesKeeps ==
  ASSUME BrowserInv, NEW l \in DOMAIN listings, ListingArrives(l)
  PROVE  BrowserInv'
  <1>1. /\ DOMAIN listings' \subseteq DOMAIN listings
        /\ \A c \in DOMAIN listings' : listings'[c] \in Nat \ {0}
        /\ \A p : p # l.path => CallsSame(p, listings', listings)
        /\ Single(l.path) => CallsFor(l.path, listings') = {}
    <2>1. \A c \in DOMAIN listings : listings[c] \in Nat \ {0}
      BY DEF BrowserInv, CallsOK
    <2>2. listings' = listings (-) SetToBag({l})
      BY DEF ListingArrives
    <2> QED
      BY <2>1, <2>2, CallArrives
  <1>2. UNCHANGED <<fs, chosen, expanded, menu, dialog, busy, transfer, runs, late, steps>>
    BY DEF ListingArrives, pane, flags
  <1>3. container' = container /\ container \in Range(Containers)
    BY <1>2, ContainerIs DEF container
  <1>4. CallOK(l) /\ l.path \in DOMAIN dirs \cup late
    BY DEF BrowserInv, CallsOK, CallsKnown
  <1> DEFINE d == [entries |-> l.answer.entries, loading |-> FALSE, of |-> IF l.answer.ok THEN l.target ELSE None]
  <1>5. /\ DOMAIN dirs' = DOMAIN dirs \cup {l.path} /\ dirs'[l.path] = d
        /\ \A p \in DOMAIN dirs \ {l.path} : dirs'[p] = dirs[p]
    BY DEF ListingArrives, Put
  <1>6. DirOK(d) /\ ~d.loading /\ d.entries = l.answer.entries /\ (d.of = container => l.answer.ok /\ l.target = container)
    <2>1. None # container
      BY <1>3, BrowserAssumption
    <2> QED
      BY <2>1 DEF DirOK
  <1> HIDE DEF d
  <1>7. CallsOK' /\ CallsKnown'
    BY <1>1, <1>2, <1>5 DEF BrowserInv, CallsOK, CallsKnown
  <1>8. TreesOK' /\ PageOK' /\ RunsOK'
    BY <1>2 DEF BrowserInv, TreesOK, PageOK, RunsOK
  <1>9. DirsOK'
    BY <1>4, <1>5, <1>6 DEF BrowserInv, DirsOK, CallOK
  <1>10. MarkersBacked'
    <2>1. ASSUME NEW p \in DOMAIN dirs', dirs'[p].loading PROVE CallsFor(p, listings') # {}
      <3>1. p # l.path /\ p \in DOMAIN dirs /\ dirs[p].loading
        BY <1>5, <1>6, <2>1
      <3> QED
        BY <1>1, <3>1 DEF BrowserInv, MarkersBacked, CallsSame
    <2> QED
      BY <1>2, <2>1 DEF BrowserInv, MarkersBacked
  <1>11. ASSUME NEW p \in DOMAIN dirs' \ late PROVE DirHonest(p)'
    <2>1. p \in DOMAIN dirs
      BY <1>4, <1>5
    <2>2. DirHonest(p) /\ Awaited(p) = Awaited(p)'
      BY <1>2, <1>3, <2>1 DEF BrowserInv, AllHonest, Awaited
    <2>3. \A e : Honest(p, e) => Honest(p, e)'
      BY <1>2, <1>3, <2>2 DEF Honest
    <2>4. CASE p # l.path
      BY <1>1, <1>3, <1>5, <2>1, <2>2, <2>3, <2>4, DirStays
    <2>5. CASE p = l.path
      <3>1. CallsFor(p, listings') = {}
        BY <1>1, <2>2, <2>5 DEF DirHonest
      <3>2. dirs'[p].of = container' => Honest(p, dirs[p].entries)'
        <4>1. SUFFICES ASSUME d.of = container PROVE Honest(p, d.entries)'
          BY <1>3, <1>5, <2>5
        <4>2. l \in CallsFor(p, listings) /\ l.target = container /\ l.answer # None /\ l.answer.ok
          BY <1>6, <2>5, <4>1 DEF CallsFor, BagToSet, ListingArrives
        <4>3. Honest(p, l.answer.entries)
          BY <2>2, <4>2 DEF DirHonest
        <4> QED
          BY <1>6, <2>3, <4>3
      <3> QED
        BY <3>1, <3>2 DEF DirHonest, Single
    <2> QED
      BY <2>4, <2>5
  <1> QED
    BY <1>2, <1>7, <1>8, <1>9, <1>10, <1>11 DEF BrowserInv, AllHonest

-----------------------------------------------------------------------------
(* Operations under way.                                                    *)

\* A run with another answer is the same operation.
LEMMA AnswerIs ==
  ASSUME NEW r, RunOK(r), NEW a \in {None, "ok", "failed"}
  PROVE  LET q == [r EXCEPT !.answer = a]
         IN  /\ RunOK(q) /\ q.op = r.op /\ q.path = r.path /\ q.refresh = r.refresh
             /\ q.target = r.target /\ q.answer = a /\ q.alone = r.alone
  <1> DEFINE q == [op |-> r.op, path |-> r.path, refresh |-> r.refresh, target |-> r.target,
                   answer |-> a, alone |-> r.alone]
  <1>1. [r EXCEPT !.answer = a] = q
    BY DEF RunOK
  <1>2. Rereads(q) = Rereads(r) /\ ExtractsTo(q) = ExtractsTo(r)
    BY DEF Rereads, ExtractsTo
  <1>3. RunOK(q)
    BY <1>2 DEF RunOK
  <1> QED
    BY <1>1, <1>3

\* One run goes on as the same operation, and the others stay.
LEMMA RunGoesOn ==
  ASSUME RunsOK, NEW i \in DOMAIN runs, NEW q, RunOK(q), runs' = [runs EXCEPT ![i] = q],
         q.path = runs[i].path, q.refresh = runs[i].refresh, q.target = runs[i].target, steps' = steps
  PROVE  /\ RunsOK' /\ DOMAIN runs' = DOMAIN runs
         /\ \A j \in DOMAIN runs : /\ runs'[j].path = runs[j].path /\ runs'[j].refresh = runs[j].refresh
                                   /\ runs'[j].target = runs[j].target
  <1>1. DOMAIN runs' = DOMAIN runs /\ \A j \in DOMAIN runs : runs'[j] = IF j = i THEN q ELSE runs[j]
    OBVIOUS
  <1> QED
    BY <1>1 DEF RunsOK

\* While no run ends, nothing of the tree changes but what lists change on the
\* agent's side: those of directories to be read again, or out of date.
LEMMA WhileRunning ==
  ASSUME BrowserInv, RunsOK', DOMAIN runs' = DOMAIN runs,
         \A j \in DOMAIN runs : /\ runs'[j].path = runs[j].path /\ runs'[j].refresh = runs[j].refresh
                                /\ runs'[j].target = runs[j].target,
         UNCHANGED <<chosen, dirs, expanded, menu, dialog, busy, listings, steps>>,
         transfer' = transfer \/ DOMAIN runs # {}, TreesOK',
         late \subseteq late',
         \A p \in DOMAIN dirs \ late' :
           List(fs'[container], p) = List(fs[container], p) \/ Awaited(p)
  PROVE  BrowserInv'
  <1>1. container' = container
    BY DEF container
  <1>2. CallsOK' /\ DirsOK' /\ PageOK' /\ CallsKnown'
    BY DEF BrowserInv, CallsOK, DirsOK, PageOK, CallsKnown
  <1>3. MarkersBacked'
    <2>1. {runs'[j].path : j \in DOMAIN runs'} = {runs[j].path : j \in DOMAIN runs}
      OBVIOUS
    <2> QED
      BY <2>1 DEF BrowserInv, MarkersBacked
  <1>4. ASSUME NEW p \in DOMAIN dirs \ late' PROVE DirHonest(p)'
    <2>1. DirHonest(p)
      BY DEF BrowserInv, AllHonest
    <2>2. Awaited(p) => Awaited(p)'
      BY <1>1, AwaitedStays
    <2>3. \A e : Honest(p, e) => Honest(p, e)'
      BY <1>1, <2>2, HonestStays
    <2> QED
      BY <1>1, <2>1, <2>3, DirStays DEF CallsSame
  <1> QED
    BY <1>2, <1>3, <1>4 DEF BrowserInv, AllHonest

\* The helper acts, or fails.
LEMMA AgentActsKeeps ==
  ASSUME BrowserInv, NEW i \in DOMAIN runs, AgentActs(i)
  PROVE  BrowserInv'
  <1> DEFINE r == runs[i]
             g == Outcome(r).fs
             f == fs[r.target]
  <1>0. RunOK(r) /\ r.target \in DOMAIN fs /\ IsTree(f)
    BY DEF BrowserInv, RunsOK, RunOK, TreesOK
  <1>1. UNCHANGED <<chosen, dirs, expanded, menu, dialog, busy, transfer, listings, steps>>
    BY DEF AgentActs, pane, flags
  <1>2. PICK a \in {"ok", "failed"} : runs' = [runs EXCEPT ![i].answer = a]
    BY DEF AgentActs
  <1>3. /\ RunsOK' /\ DOMAIN runs' = DOMAIN runs
        /\ \A j \in DOMAIN runs : /\ runs'[j].path = runs[j].path /\ runs'[j].refresh = runs[j].refresh
                                  /\ runs'[j].target = runs[j].target
    <2> DEFINE q == [r EXCEPT !.answer = a]
    <2>1. RunOK(q) /\ q.path = r.path /\ q.refresh = r.refresh /\ q.target = r.target
      <3> HIDE DEF r
      <3> QED
        BY <1>0, AnswerIs
    <2>2. runs' = [runs EXCEPT ![i] = q]
      BY <1>2
    <2> HIDE DEF q
    <2> QED
      BY <1>1, <2>1, <2>2, RunGoesOn DEF BrowserInv
  <1>4. CASE UNCHANGED <<fs, late>>
    <2>1. TreesOK'
      BY <1>4 DEF BrowserInv, TreesOK
    <2> QED
      BY <1>1, <1>3, <1>4, <2>1, WhileRunning
  <1>5. CASE /\ fs' = [fs EXCEPT ![r.target] = g]
             /\ late' = IF r.target = container /\ g # f THEN late \cup Displaced(r) ELSE late
    <2>1. /\ IsTree(g)
          /\ \A p : IsPath(p) /\ p \notin Rereads(r) /\ ~Removed(r, p) => List(g, p) = List(f, p)
      <3> HIDE DEF r
      <3> QED
        BY <1>0, OutcomeTouches
    <2> HIDE DEF g
    <2>2. TreesOK'
      BY <1>0, <1>5, <2>1 DEF BrowserInv, TreesOK
    <2>3. ASSUME NEW p \in DOMAIN dirs \ late'
          PROVE  List(fs'[container], p) = List(fs[container], p) \/ Awaited(p)
      <3>1. CASE r.target # container \/ g = f
        <4>1. fs'[container] = fs[container]
          BY <1>0, <1>5, <3>1, ContainerIs DEF BrowserInv, TreesOK
        <4> QED
          BY <4>1
      <3>2. CASE r.target = container /\ g # f /\ p \in Rereads(r)
        BY <1>0, <3>2 DEF Awaited, RunOK
      <3>3. CASE r.target = container /\ g # f /\ p \notin Rereads(r)
        <4>1. p \notin Displaced(r)
          BY <1>5, <2>3, <3>3
        <4>2. ~Removed(r, p)
          <5> HIDE DEF r
          <5> QED
            BY <1>0, <4>1, DisplacedIs
        <4>3. fs'[container] = g /\ fs[container] = f
          BY <1>0, <1>5, <3>3
        <4> QED
          BY <2>1, <3>3, <4>2, <4>3 DEF BrowserInv, DirsOK
      <3> QED
        BY <3>1, <3>2, <3>3
    <2>4. late \subseteq late'
      BY <1>5
    <2> QED
      BY <1>1, <1>3, <2>2, <2>3, <2>4, WhileRunning
  <1> QED
    BY <1>4, <1>5 DEF AgentActs

\* A run that has ended is not awaited, and has taken its markers down.
LEMMA SettleIs ==
  ASSUME BrowserInv, NEW i \in DOMAIN runs, settle(i), steps' = steps
  PROVE  /\ RunsOK' /\ transfer' = None
         /\ busy' \subseteq {runs'[j].path : j \in DOMAIN runs'}
         /\ DOMAIN runs' = DOMAIN runs \ {i} /\ \A j \in DOMAIN runs' : runs'[j] = runs[j]
  <1>1. DOMAIN runs' = DOMAIN runs \ {i} /\ \A j \in DOMAIN runs' : runs'[j] = runs[j]
    BY DEF settle
  <1>2. RunsOK'
    BY <1>1 DEF BrowserInv, RunsOK
  <1>3. busy' = busy \ {runs[i].path} /\ transfer' = None
    BY DEF settle
  <1>4. ASSUME NEW b \in busy' PROVE b \in {runs'[j].path : j \in DOMAIN runs'}
    <2>1. PICK j \in DOMAIN runs : b = runs[j].path
      BY <1>3 DEF BrowserInv, MarkersBacked
    <2>2. j # i
      BY <1>3, <2>1
    <2> QED
      BY <1>1, <2>1, <2>2
  <1> QED
    BY <1>1, <1>2, <1>3, <1>4

\* A run that succeeded has what it changed read again.
LEMMA RunEndsKeeps ==
  ASSUME BrowserInv, NEW i \in DOMAIN runs, RunEnds(i)
  PROVE  BrowserInv'
  <1> DEFINE r == runs[i]
             ps == r.refresh \cap DOMAIN dirs
  <1>1. UNCHANGED <<fs, chosen, expanded, menu, steps>>
    BY DEF RunEnds
  <1>2. container' = container
    BY <1>1 DEF container
  <1>3. /\ RunsOK' /\ transfer' = None
        /\ busy' \subseteq {runs'[j].path : j \in DOMAIN runs'}
        /\ DOMAIN runs' = DOMAIN runs \ {i} /\ \A j \in DOMAIN runs' : runs'[j] = runs[j]
    BY <1>1, SettleIs DEF RunEnds
  <1>4. RunOK(r)
    BY DEF BrowserInv, RunsOK
  <1>5. loadDirectory(r.target, ps, dirs, late) /\ r.target \in Range(Containers)
    BY <1>4 DEF RunEnds, refresh, RunOK
  <1>6. \A p \in ps : IsPath(p)
    BY DEF BrowserInv, DirsOK
  <1>7. ASSUME NEW p \in DOMAIN dirs \ ps PROVE Awaited(p) => Awaited(p)'
    <2>1. p \notin r.refresh
      BY <1>7
    <2> QED
      BY <1>2, <1>3, <2>1, AwaitedStays
  <1> HIDE DEF ps, r
  <1>8. /\ CallsOK' /\ DirsOK' /\ CallsKnown' /\ AllHonest'
        /\ \A p \in DOMAIN dirs' : dirs'[p].loading => CallsFor(p, listings') # {}
    BY <1>1, <1>5, <1>6, <1>7, LoadKeeps
  <1>9. TreesOK' /\ MarkersBacked'
    BY <1>1, <1>3, <1>8 DEF BrowserInv, TreesOK, MarkersBacked
  <1>10. PageOK'
    <2>1. dialog' = dialog \/ (dialog'.path = r.path /\ IsPath(r.path))
      BY <1>4 DEF RunEnds, RunOK, r
    <2> QED
      BY <1>1, <2>1 DEF BrowserInv, PageOK
  <1> QED
    BY <1>3, <1>8, <1>9, <1>10 DEF BrowserInv

\* After a run that failed, what it may have changed is known to be out of date.
LEMMA RunFailsKeeps ==
  ASSUME BrowserInv, NEW i \in DOMAIN runs, RunFails(i)
  PROVE  BrowserInv'
  <1>1. UNCHANGED <<fs, chosen, dirs, expanded, menu, dialog, listings, steps>>
    BY DEF RunFails, pane
  <1>2. container' = container
    BY <1>1 DEF container
  <1>3. /\ RunsOK' /\ transfer' = None
        /\ busy' \subseteq {runs'[j].path : j \in DOMAIN runs'}
        /\ DOMAIN runs' = DOMAIN runs \ {i} /\ \A j \in DOMAIN runs' : runs'[j] = runs[j]
    BY <1>1, SettleIs DEF RunFails
  <1>4. late' = IF runs[i].target = container
                  THEN late \cup {p \in DOMAIN dirs : \/ CallsFor(p, listings) # {}
                                                    \/ dirs[p].entries # List(fs[container], p)}
                  ELSE late
    BY DEF RunFails
  <1>5. TreesOK' /\ CallsOK' /\ DirsOK' /\ PageOK' /\ CallsKnown' /\ MarkersBacked'
    BY <1>1, <1>3, <1>4 DEF BrowserInv, TreesOK, CallsOK, DirsOK, PageOK, CallsKnown, MarkersBacked
  <1>6. ASSUME NEW p \in DOMAIN dirs \ late' PROVE DirHonest(p)'
    <2>1. p \notin late /\ DirHonest(p)
      BY <1>4, <1>6 DEF BrowserInv, AllHonest
    <2>2. CASE runs[i].target = container
      <3>1. CallsFor(p, listings) = {} /\ dirs[p].entries = List(fs[container], p)
        BY <1>4, <1>6, <2>2
      <3> QED
        BY <1>1, <1>2, <3>1 DEF DirHonest, Single, Honest
    <2>3. CASE runs[i].target # container
      <3>1. Awaited(p) => Awaited(p)'
        BY <1>2, <1>3, <2>3, AwaitedStays
      <3>2. \A e : Honest(p, e) => Honest(p, e)'
        BY <1>1, <1>2, <3>1, HonestStays
      <3> QED
        BY <1>1, <1>2, <2>1, <3>2, DirStays DEF CallsSame
    <2> QED
      BY <2>2, <2>3
  <1> QED
    BY <1>1, <1>3, <1>5, <1>6 DEF BrowserInv, AllHonest

-----------------------------------------------------------------------------
(* Uploads.                                                                 *)

\* The file at p holds the first e blocks of data.
HasUpTo(f, p, data, e) == Holds(f, p, SubSeq(data, 1, e))

\* What a chunk leaves in the file it is written to, and in others.
LEMMA UploadPuts ==
  ASSUME NEW f, NEW p, NEW S, NEW data \in Seq(S), NEW offset \in Nat, NEW e \in Nat,
         offset <= e, e <= Len(data), offset = 0 \/ HasUpTo(f, p, data, offset)
  PROVE  LET o == Upload(f, p, offset, SubSeq(data, offset + 1, e))
         IN  /\ o.ok => HasUpTo(o.fs, p, data, e)
             /\ \A q, x : q # p /\ Holds(f, q, x) => Holds(o.fs, q, x)
  <1> DEFINE chunk == SubSeq(data, offset + 1, e)
             old == IF offset = 0 \/ p \notin DOMAIN f THEN <<>> ELSE f[p].data
             end == offset + Len(chunk)
             At(i) == CASE i \in offset + 1 .. end -> chunk[i - offset]
                        [] i \notin offset + 1 .. end /\ i <= Len(old) -> old[i]
                        [] OTHER -> "zero"
             written == [i \in 1 .. (IF end > Len(old) THEN end ELSE Len(old)) |-> At(i)]
             o == Upload(f, p, offset, chunk)
  <1>1. \/ o = Refused(f)
        \/ o = Done(Put(f, p, File(written)))
    BY DEF Upload
  <1>2. Len(data) \in Nat /\ \A i \in 1..Len(data) : data[i] \in S
    BY LenProperties, ElementOfSeq
  <1>3. /\ Len(chunk) = e - offset
        /\ \A i \in 1..(e - offset) : chunk[i] = data[offset + i]
    <2> DEFINE m == offset + 1
    <2>1. m \in Int /\ e \in Int /\ \A i \in m..e : data[i] \in S
      BY <1>2
    <2>2. chunk = SubSeq(data, m, e) /\ e - m + 1 = e - offset /\ (m <= e <=> offset # e)
      OBVIOUS
    <2> HIDE DEF m, chunk
    <2>3. /\ Len(SubSeq(data, m, e)) = IF m <= e THEN e - m + 1 ELSE 0
          /\ \A i \in 1..(e - m + 1) : SubSeq(data, m, e)[i] = data[m + i - 1]
      BY <2>1, SubSeqProperties
    <2>4. ASSUME NEW i \in 1..(e - offset) PROVE chunk[i] = data[offset + i]
      <3>1. m + i - 1 = offset + i
        BY DEF m
      <3>2. SubSeq(data, m, e)[i] = data[m + i - 1]
        BY <2>2, <2>3
      <3> QED
        BY <2>2, <3>1, <3>2
    <2>5. Len(chunk) = IF m <= e THEN e - offset ELSE 0
      BY <2>2, <2>3
    <2>6. Len(chunk) = e - offset
      BY <2>2, <2>5
    <2> QED
      BY <2>4, <2>6
  <1>4. ASSUME NEW n \in Nat, n <= Len(data)
        PROVE  /\ SubSeq(data, 1, n) \in Seq(S) /\ Len(SubSeq(data, 1, n)) = n
               /\ \A i \in 1..n : SubSeq(data, 1, n)[i] = data[i]
    <2>1. \A i \in 1..n : data[i] \in S
      BY <1>2, <1>4
    <2> QED
      BY <1>4, <2>1, SubSeqProperties
  <1>5. Len(old) = offset /\ \A i \in 1..offset : old[i] = data[i]
    <2>1. CASE offset = 0
      <3>1. old = <<>>
        BY <2>1
      <3> HIDE DEF old
      <3> QED
        BY <2>1, <3>1
    <2>2. CASE offset # 0
      <3>1. p \in DOMAIN f /\ f[p] = File(SubSeq(data, 1, offset))
        BY <2>2 DEF HasUpTo, Holds
      <3>2. old = SubSeq(data, 1, offset)
        BY <2>2, <3>1 DEF File
      <3> HIDE DEF old
      <3> QED
        BY <1>4, <3>2
    <2> QED
      BY <2>1, <2>2
  <1> HIDE DEF chunk, old
  <1>6. end = e
    BY <1>3
  <1>7. \A i \in 1..e : At(i) = data[i]
    <2> SUFFICES ASSUME NEW i \in 1..e PROVE At(i) = data[i]
      OBVIOUS
    <2>1. CASE i \in offset + 1 .. e
      <3>1. i - offset \in 1..(e - offset) /\ offset + (i - offset) = i
        BY <2>1
      <3> QED
        BY <1>3, <1>6, <2>1, <3>1
    <2>2. CASE i \notin offset + 1 .. e
      <3>1. i \in 1..offset
        BY <2>2
      <3> QED
        BY <1>5, <1>6, <2>2, <3>1
    <2> QED
      BY <2>1, <2>2
  <1>8. written = [i \in 1..e |-> data[i]]
    <2>1. (IF end > Len(old) THEN end ELSE Len(old)) = e
      BY <1>5, <1>6
    <2> HIDE DEF end, At
    <2> QED
      BY <1>7, <2>1
  <1>9. SubSeq(data, 1, e) = [i \in 1..e |-> data[i]]
    <2> DEFINE s == SubSeq(data, 1, e)
    <2>1. s \in Seq(S) /\ Len(s) = e /\ \A i \in 1..e : s[i] = data[i]
      BY <1>4
    <2> HIDE DEF s
    <2>2. s \in [1..e -> S]
      BY <2>1, LenProperties
    <2>3. s = [i \in 1..e |-> s[i]]
      BY <2>2
    <2> QED
      BY <2>1, <2>3 DEF s
  <1> HIDE DEF written, o
  <1>10. o.ok => HasUpTo(o.fs, p, data, e)
    <2>1. SUFFICES ASSUME o.ok PROVE HasUpTo(o.fs, p, data, e)
      OBVIOUS
    <2>2. o.fs = Put(f, p, File(written))
      BY <1>1, <2>1 DEF Refused, Done
    <2>3. written = SubSeq(data, 1, e)
      BY <1>8, <1>9
    <2>4. p \in DOMAIN Put(f, p, File(written)) /\ Put(f, p, File(written))[p] = File(written)
      BY DEF Put
    <2> QED
      BY <2>2, <2>3, <2>4 DEF HasUpTo, Holds
  <1>11. ASSUME NEW q, NEW x, q # p, Holds(f, q, x) PROVE Holds(o.fs, q, x)
    BY <1>1, <1>11 DEF Holds, Refused, Done, Put
  <1> QED
    BY <1>10, <1>11 DEF o, chunk

\* What is known of the files of an upload and of its data.
LEMMA UploadIs ==
  ASSUME NEW r, NEW f, UploadOK(r, f), RunOK(r)
  PROVE  /\ r.op.kind = "upload" /\ IsPath(r.path)
         /\ r.op.next \in 1..Len(r.op.files) /\ Len(r.op.files) \in Nat
         /\ r.op.offset \in Nat /\ r.op.chunk \in Nat \ {0}
         /\ \A k \in 1..Len(r.op.files) : r.op.files[k] \in DOMAIN Local
         /\ \A k \in 1..Len(r.op.files) : /\ Data(r, k) \in Seq(Range(Data(r, k))) /\ Len(Data(r, k)) \in Nat
                                          /\ SubSeq(Data(r, k), 1, Len(Data(r, k))) = Data(r, k)
         /\ EndOf(r) \in Nat /\ r.op.offset <= EndOf(r) /\ EndOf(r) <= Len(Data(r, r.op.next))
         /\ \A j, k : r.op.files[j] # r.op.files[k] => NameAt(r, j) # NameAt(r, k)
  <1> DEFINE op == r.op
  <1>1. /\ op.kind = "upload" /\ op.files \in Seq(DOMAIN Local) /\ op.next \in 1..Len(op.files)
        /\ op.offset \in Nat /\ op.chunk \in Nat \ {0}
        /\ IsPath(r.path) /\ (op.offset = 0 \/ op.offset < Len(Data(r, op.next)))
    BY DEF UploadOK, RunOK
  <1>2. Len(op.files) \in Nat /\ \A k \in 1..Len(op.files) : op.files[k] \in DOMAIN Local
    <2> DEFINE files == op.files
    <2>1. files \in Seq(DOMAIN Local)
      BY <1>1
    <2> HIDE DEF files
    <2>2. Len(files) \in Nat /\ \A k \in 1..Len(files) : files[k] \in DOMAIN Local
      BY <2>1, LenProperties, ElementOfSeq
    <2> QED
      BY <2>2 DEF files
  <1>3. ASSUME NEW k \in 1..Len(op.files)
        PROVE  /\ Data(r, k) \in Seq(Range(Data(r, k))) /\ Len(Data(r, k)) \in Nat
               /\ SubSeq(Data(r, k), 1, Len(Data(r, k))) = Data(r, k)
    <2> DEFINE d == Data(r, k)
               S == Range(d)
    <2>1. d \in Seq(S)
      BY <1>2, BrowserAssumption DEF Data
    <2> HIDE DEF d, S
    <2>2. Len(d) \in Nat /\ SubSeq(d, 1, Len(d)) = d
      BY <2>1, LenProperties, SubSeqFull
    <2> QED
      BY <2>1, <2>2 DEF d, S
  <1>4. EndOf(r) \in Nat /\ op.offset <= EndOf(r) /\ EndOf(r) <= Len(Data(r, op.next))
    <2> DEFINE n == Len(Data(r, op.next))
               offset == op.offset
               chunk == op.chunk
    <2>1. n \in Nat /\ offset \in Nat /\ chunk \in Nat \ {0} /\ (offset = 0 \/ offset < n)
      BY <1>1, <1>2, <1>3 DEF UploadOK
    <2>2. EndOf(r) = IF offset + chunk < n THEN offset + chunk ELSE n
      BY DEF EndOf
    <2> HIDE DEF n, offset, chunk
    <2>3. EndOf(r) \in Nat /\ offset <= EndOf(r) /\ EndOf(r) <= n
      BY <2>1, <2>2
    <2> QED
      BY <2>3 DEF n, offset
  <1>5. ASSUME NEW j, NEW k, op.files[j] # op.files[k] PROVE NameAt(r, j) # NameAt(r, k)
    <2>1. IsPath(r.path)
      BY DEF RunOK
    <2>2. Last(NameAt(r, j)) = op.files[j] /\ Last(NameAt(r, k)) = op.files[k]
      BY <2>1, AppendPath DEF NameAt, joinPath
    <2> QED
      BY <1>5, <2>2
  <1> QED
    BY <1>1, <1>2, <1>3, <1>4, <1>5 DEF RunOK

\* An upload is the same whoever joins it, and with another answer.
LEMMA UploadCarries ==
  ASSUME NEW r, NEW q, NEW f, NEW g, UploadOK(r, f), q.op = r.op, q.path = r.path,
         q.alone => r.alone /\ g = f, q.answer \in {r.answer, "failed"}
  PROVE  UploadOK(q, g)
  <1>1. \A k : NameAt(q, k) = NameAt(r, k) /\ Data(q, k) = Data(r, k)
    BY DEF NameAt, Data
  <1>2. EndOf(q) = EndOf(r)
    BY <1>1 DEF EndOf
  <1>3. None # "failed"
    BY BrowserAssumption
  <1> QED
    BY <1>1, <1>2, <1>3 DEF UploadOK

\* A run beside the others changes nothing about them but that they are not alone.
LEMMA UploadStarts ==
  ASSUME RunsOK, UploadInv, NEW op, NEW path, NEW refreshed, run(op, path, refreshed),
         RunOK(NewRun(op, path, refreshed)), fs' = fs,
         op.kind = "upload" =>
           \E files \in Picks, chunk \in {ChunkDefault, ChunkServed} :
             op = [kind |-> "upload", files |-> files, next |-> 1, offset |-> 0, chunk |-> chunk]
  PROVE  UploadInv'
  <1> DEFINE new == NewRun(op, path, refreshed)
  <1>1. /\ DOMAIN runs' = DOMAIN runs \cup {steps'} /\ steps' \notin DOMAIN runs
        /\ runs'[steps'] = new
        /\ \A i \in DOMAIN runs : RunAsBefore(runs'[i], runs[i])
        /\ \A i \in DOMAIN runs : runs'[i].alone => runs[i].target # container
    BY RunIs
  <1>2. new.target = container /\ (new.alone => \A i \in DOMAIN runs : runs[i].target # container)
        /\ new.op = op /\ new.answer = None
    BY DEF NewRun
  <1>3. ASSUME NEW f, op.kind = "upload" PROVE UploadOK(new, f)
    <2>1. PICK files \in Picks, chunk \in {ChunkDefault, ChunkServed} :
            op = [kind |-> "upload", files |-> files, next |-> 1, offset |-> 0, chunk |-> chunk]
      BY <1>3
    <2>2. files \in Seq(DOMAIN Local) /\ files # <<>> /\ chunk \in Nat \ {0} /\ None # "ok"
      BY BrowserAssumption
    <2>3. 1 \in 1..Len(files)
      BY <2>2, EmptySeq, LenProperties
    <2> HIDE DEF new
    <2> QED
      BY <1>2, <2>1, <2>2, <2>3 DEF UploadOK
  <1> HIDE DEF new
  <1>4. ASSUME NEW i \in DOMAIN runs', NEW j \in DOMAIN runs', i # j, runs'[i].alone
        PROVE  runs'[j].target # runs'[i].target
    <2>1. CASE i = steps'
      BY <1>1, <1>2, <1>4, <2>1 DEF RunAsBefore
    <2>2. CASE j = steps'
      BY <1>1, <1>2, <1>4, <2>2 DEF RunAsBefore
    <2>3. CASE i # steps' /\ j # steps'
      BY <1>1, <1>4, <2>3 DEF RunAsBefore, UploadInv
    <2> QED
      BY <2>1, <2>2, <2>3
  <1>5. ASSUME NEW i \in DOMAIN runs', runs'[i].op.kind = "upload"
        PROVE  UploadOK(runs'[i], fs'[runs'[i].target])
    <2>1. CASE i = steps'
      BY <1>1, <1>2, <1>3, <1>5, <2>1
    <2>2. CASE i # steps'
      <3>1. RunAsBefore(runs'[i], runs[i]) /\ UploadOK(runs[i], fs[runs[i].target])
        BY <1>1, <1>5, <2>2 DEF UploadInv, RunAsBefore
      <3> QED
        BY <3>1, UploadCarries DEF RunAsBefore
    <2> QED
      BY <2>1, <2>2
  <1> QED
    BY <1>4, <1>5 DEF UploadInv

\* The helper writes a chunk of a run that is alone in its container.
LEMMA ChunkWritten ==
  ASSUME NEW r, RunOK(r), NEW f, f = fs[r.target], UploadOK(r, f), r.alone, r.answer = None,
         NEW o, o = Outcome(r), NEW a \in {"failed", "ok"}, a = "ok" => o.ok,
         NEW q, q.op = r.op, q.path = r.path, q.answer = a
  PROVE  UploadOK(q, o.fs)
  <1> DEFINE op == r.op
             p == NameAt(r, op.next)
             data == Data(r, op.next)
             S == Range(data)
             offset == op.offset
             e == EndOf(r)
  <1>0. /\ op.kind = "upload" /\ op.next \in 1..Len(op.files) /\ Len(op.files) \in Nat
        /\ offset \in Nat /\ data \in Seq(S) /\ e \in Nat /\ offset <= e /\ e <= Len(data)
        /\ \A j, k : op.files[j] # op.files[k] => NameAt(r, j) # NameAt(r, k)
    BY UploadIs
  <1>1. o = Upload(f, p, offset, SubSeq(data, offset + 1, e))
    <2> DEFINE local == Local[op.files[op.next]]
               to == IF op.offset + op.chunk < Len(local) THEN op.offset + op.chunk ELSE Len(local)
    <2>3. r.op.kind = "upload"
      BY <1>0
    <2>4. Outcome(r) = Upload(fs[r.target], joinPath(r.path, r.op.files[r.op.next]), r.op.offset,
                              SubSeq(local, r.op.offset + 1, to))
      BY <2>3, Zenon DEF Outcome
    <2>2. local = data /\ to = e /\ p = joinPath(r.path, op.files[op.next])
      BY DEF NameAt, Data, EndOf
    <2> HIDE DEF local, to, data, e, p
    <2> QED
      BY <2>2, <2>4
  <1>2. offset = 0 \/ HasUpTo(f, p, data, offset)
    BY <1>0 DEF UploadOK, HasUpTo
  <1>3. /\ o.ok => HasUpTo(o.fs, p, data, e)
        /\ \A x, y : x # p /\ Holds(f, x, y) => Holds(o.fs, x, y)
    <2> HIDE DEF p, data, S, offset, e
    <2> DEFINE u == Upload(f, p, offset, SubSeq(data, offset + 1, e))
    <2>1. /\ u.ok => HasUpTo(u.fs, p, data, e)
          /\ \A x, y : x # p /\ Holds(f, x, y) => Holds(u.fs, x, y)
      BY <1>0, <1>2, UploadPuts
    <2>2. o = u
      BY <1>1
    <2> HIDE DEF u
    <2> QED
      BY <2>1, <2>2
  <1>4. ASSUME NEW k \in 1..(op.next - 1), op.files[k] # op.files[op.next]
        PROVE  Holds(o.fs, NameAt(r, k), Data(r, k))
    <2>1. Holds(f, NameAt(r, k), Data(r, k)) /\ NameAt(r, k) # p
      BY <1>0, <1>4 DEF UploadOK
    <2> QED
      BY <1>3, <2>1
  <1>5. a = "ok" => Holds(o.fs, p, SubSeq(data, 1, e))
    BY <1>3 DEF HasUpTo
  <1>6. \A k : NameAt(q, k) = NameAt(r, k) /\ Data(q, k) = Data(r, k)
    BY DEF NameAt, Data
  <1>7. EndOf(q) = EndOf(r)
    BY <1>6 DEF EndOf
  <1>8. None # a
    BY BrowserAssumption
  <1> QED
    BY <1>4, <1>5, <1>6, <1>7, <1>8 DEF UploadOK

\* Uploads while the helper acts.
LEMMA AgentActsUploads ==
  ASSUME BrowserInv, UploadInv, NEW i \in DOMAIN runs, AgentActs(i)
  PROVE  UploadInv'
  <1> DEFINE r == runs[i]
             o == Outcome(r)
  <1>0. RunOK(r) /\ r.target \in DOMAIN fs /\ r.answer = None
    BY DEF BrowserInv, RunsOK, RunOK, TreesOK, AgentActs
  <1>1. PICK a \in {"failed", "ok"} :
          /\ runs' = [runs EXCEPT ![i].answer = a]
          /\ \/ fs' = fs /\ a = "failed"
             \/ fs' = [fs EXCEPT ![r.target] = o.fs] /\ (a = "ok" => o.ok)
    <2>1. CASE runs' = [runs EXCEPT ![i].answer = "failed"] /\ fs' = fs
      BY <2>1
    <2>2. CASE /\ fs' = [fs EXCEPT ![r.target] = o.fs]
               /\ \E a \in {"failed"} \cup (IF o.ok THEN {"ok"} ELSE {}) :
                     runs' = [runs EXCEPT ![i].answer = a]
      BY <2>2
    <2> QED
      BY <2>1, <2>2 DEF AgentActs
  <1> DEFINE q == [r EXCEPT !.answer = a]
  <1>2. /\ q.op = r.op /\ q.path = r.path /\ q.target = r.target
        /\ q.answer = a /\ q.alone = r.alone
    <2> HIDE DEF r
    <2> QED
      BY <1>0, AnswerIs
  <1>3. DOMAIN runs' = DOMAIN runs /\ runs'[i] = q /\ \A j \in DOMAIN runs \ {i} : runs'[j] = runs[j]
    BY <1>1
  <1> HIDE DEF q
  <1>4. ASSUME NEW j \in DOMAIN runs, NEW k \in DOMAIN runs, j # k, runs'[j].alone
        PROVE  runs'[k].target # runs'[j].target
    BY <1>2, <1>3, <1>4 DEF UploadInv
  <1>5. ASSUME NEW j \in DOMAIN runs, runs'[j].op.kind = "upload"
        PROVE  UploadOK(runs'[j], fs'[runs'[j].target])
    <2>1. CASE j = i
      <3>1. UploadOK(r, fs[r.target]) /\ runs'[j] = q
        BY <1>2, <1>3, <1>5, <2>1 DEF UploadInv
      <3>2. CASE fs' = fs /\ a = "failed"
        BY <1>2, <3>1, <3>2, UploadCarries
      <3>3. CASE fs' = [fs EXCEPT ![r.target] = o.fs] /\ (a = "ok" => o.ok)
        <4>1. fs'[r.target] = o.fs
          BY <1>0, <3>3
        <4>2. CASE r.alone
          <5>1. UploadOK(q, o.fs)
            <6> HIDE DEF r
            <6> QED
              BY <1>0, <1>2, <3>1, <3>3, <4>2, ChunkWritten
          <5> QED
            BY <1>2, <3>1, <4>1, <5>1
        <4>3. CASE ~r.alone
          <5>1. UploadOK(q, o.fs)
            <6>1. /\ r.op = [kind |-> "upload", files |-> r.op.files, next |-> r.op.next,
                             offset |-> r.op.offset, chunk |-> r.op.chunk]
                  /\ r.op.files \in Seq(DOMAIN Local) /\ r.op.next \in 1..Len(r.op.files)
                  /\ r.op.offset \in Nat /\ r.op.chunk \in Nat \ {0}
                  /\ r.op.offset = 0 \/ r.op.offset < Len(Data(r, r.op.next))
              BY <3>1 DEF UploadOK
            <6>2. Data(q, r.op.next) = Data(r, r.op.next) /\ ~q.alone
              BY <1>2, <4>3 DEF Data
            <6> QED
              BY <1>2, <6>1, <6>2 DEF UploadOK
          <5> QED
            BY <1>2, <3>1, <4>1, <5>1
        <4> QED
          BY <4>2, <4>3
      <3> QED
        BY <1>1, <3>2, <3>3
    <2>2. CASE j # i
      <3>1. runs'[j] = runs[j] /\ UploadOK(runs[j], fs[runs[j].target])
        BY <1>3, <1>5, <2>2 DEF UploadInv
      <3>2. runs[j].alone => fs'[runs[j].target] = fs[runs[j].target]
        BY <1>0, <1>1, <2>2 DEF UploadInv, BrowserInv, RunsOK, RunOK, TreesOK
      <3> QED
        BY <3>1, <3>2, UploadCarries
    <2> QED
      BY <2>1, <2>2
  <1> QED
    BY <1>3, <1>4, <1>5 DEF UploadInv

\* What holds of the tree, the operations and the uploads.
FilesInv == BrowserInv /\ UploadInv

\* Nothing happens to an upload.
LEMMA UploadsStay ==
  ASSUME UploadInv, fs' = fs, DOMAIN runs' \subseteq DOMAIN runs,
         \A i \in DOMAIN runs' : runs'[i] = runs[i]
  PROVE  UploadInv'
  BY DEF UploadInv

\* The next chunk, or the next file.
LEMMA UploadContinuesKeeps ==
  ASSUME FilesInv, NEW i \in DOMAIN runs, UploadContinues(i)
  PROVE  FilesInv'
  <1> DEFINE r == runs[i]
             op == r.op
             f == fs[r.target]
             step == UploadStep(op)
             q == [r EXCEPT !.op = step, !.answer = None]
             n == Len(Data(r, op.next))
             last == op.offset + op.chunk >= n
  <1>0. /\ RunOK(r) /\ UploadOK(r, f) /\ r.answer = "ok" /\ op.kind = "upload"
        /\ step.next <= Len(op.files)
    BY DEF FilesInv, BrowserInv, RunsOK, UploadInv, UploadContinues, MoreToUpload
  <1>1. /\ op.next \in 1..Len(op.files) /\ Len(op.files) \in Nat
        /\ op.offset \in Nat /\ op.chunk \in Nat \ {0} /\ n \in Nat
        /\ SubSeq(Data(r, op.next), 1, n) = Data(r, op.next)
        /\ op.files \in Seq(DOMAIN Local)
        /\ op = [kind |-> "upload", files |-> op.files, next |-> op.next, offset |-> op.offset, chunk |-> op.chunk]
    <2> HIDE DEF r
    <2>1. UploadOK(r, f) /\ RunOK(r)
      BY <1>0
    <2> HIDE DEF f
    <2>2. /\ op.next \in 1..Len(op.files) /\ Len(op.files) \in Nat
          /\ op.offset \in Nat /\ op.chunk \in Nat \ {0}
          /\ \A k \in 1..Len(op.files) : /\ Len(Data(r, k)) \in Nat
                                         /\ SubSeq(Data(r, k), 1, Len(Data(r, k))) = Data(r, k)
      BY <2>1, UploadIs
    <2> QED
      BY <2>1, <2>2 DEF UploadOK
  <1>2. step = [kind |-> "upload", files |-> op.files,
                next |-> IF last THEN op.next + 1 ELSE op.next,
                offset |-> IF last THEN 0 ELSE op.offset + op.chunk, chunk |-> op.chunk]
    <2>1. n = Len(Local[op.files[op.next]])
      BY DEF Data
    <2> HIDE DEF n, op
    <2>2. CASE last
      <3> DEFINE t == [kind |-> "upload", files |-> op.files, next |-> op.next + 1, offset |-> op.offset, chunk |-> op.chunk]
      <3>1. step = [[op EXCEPT !.next = op.next + 1] EXCEPT !.offset = 0]
        BY <2>1, <2>2 DEF UploadStep
      <3>2. [op EXCEPT !.next = op.next + 1] = t
        <4> DEFINE u == [kind |-> "upload", files |-> op.files, next |-> op.next, offset |-> op.offset, chunk |-> op.chunk]
        <4>1. op = u
          BY <1>1
        <4>2. [u EXCEPT !.next = op.next + 1] = t
          OBVIOUS
        <4> HIDE DEF u, t
        <4> QED
          BY <4>1, <4>2
      <3>3. [t EXCEPT !.offset = 0]
              = [kind |-> "upload", files |-> op.files, next |-> op.next + 1, offset |-> 0, chunk |-> op.chunk]
        OBVIOUS
      <3> HIDE DEF t, step
      <3> QED
        BY <2>2, <3>1, <3>2, <3>3
    <2>3. CASE ~last
      BY <1>1, <2>1, <2>3 DEF UploadStep
    <2> QED
      BY <2>2, <2>3
  <1>3. runs' = [runs EXCEPT ![i] = q]
    BY DEF UploadContinues
  <1>4. q = [op |-> step, path |-> r.path, refresh |-> r.refresh, target |-> r.target,
             answer |-> None, alone |-> r.alone]
    <2>1. r = [op |-> r.op, path |-> r.path, refresh |-> r.refresh, target |-> r.target,
               answer |-> r.answer, alone |-> r.alone]
      BY <1>0 DEF RunOK
    <2> HIDE DEF r, step
    <2> DEFINE s == [op |-> step, path |-> r.path, refresh |-> r.refresh, target |-> r.target,
                     answer |-> r.answer, alone |-> r.alone]
    <2>2. [r EXCEPT !.op = step] = s
      BY <2>1
    <2>3. [s EXCEPT !.answer = None] = [op |-> step, path |-> r.path, refresh |-> r.refresh, target |-> r.target,
                                        answer |-> None, alone |-> r.alone]
      OBVIOUS
    <2>4. q = [[r EXCEPT !.op = step] EXCEPT !.answer = None]
      OBVIOUS
    <2> HIDE DEF q, s
    <2> QED
      BY <2>2, <2>3, <2>4
  <1> HIDE DEF q, step, n, f, op, r
  <1>5. RunOK(q)
    BY <1>0, <1>2, <1>4 DEF RunOK, Rereads, op
  <1>6. step.next \in 1..Len(op.files) /\ step.offset \in Nat
        /\ (step.offset = 0 \/ step.offset < Len(Data(q, step.next)))
    <2>1. CASE last
      <3>1. op.next + 1 <= Len(op.files)
        BY <1>0, <1>2, <2>1
      <3> QED
        BY <1>1, <1>2, <2>1, <3>1
    <2>2. CASE ~last
      <3>1. Data(q, step.next) = Data(r, op.next)
        BY <1>2, <1>4, <2>2 DEF Data, op
      <3>2. op.offset + op.chunk < n
        BY <1>1, <2>2
      <3> QED
        BY <1>1, <1>2, <2>2, <3>1, <3>2 DEF n
    <2> QED
      BY <2>1, <2>2
  <1>7. \A k : NameAt(q, k) = NameAt(r, k) /\ Data(q, k) = Data(r, k)
    BY <1>2, <1>4 DEF NameAt, Data, op
  <1>8. ASSUME r.alone, NEW k \in 1..(step.next - 1), op.files[k] # op.files[step.next]
        PROVE  Holds(f, NameAt(r, k), Data(r, k))
    <2>1. /\ \A j \in 1..(op.next - 1) : op.files[j] # op.files[op.next] => Holds(f, NameAt(r, j), Data(r, j))
          /\ Holds(f, NameAt(r, op.next), SubSeq(Data(r, op.next), 1, EndOf(r)))
      BY <1>0, <1>8 DEF UploadOK, op
    <2>2. CASE ~last
      BY <1>1, <1>2, <1>8, <2>1, <2>2
    <2>3. CASE last
      <3>1. EndOf(r) = n
        BY <1>1, <2>3 DEF EndOf, n, op
      <3>2. k \in 1..op.next
        BY <1>1, <1>2, <1>8, <2>3
      <3>3. CASE op.files[k] = op.files[op.next]
        <4>1. NameAt(r, k) = NameAt(r, op.next) /\ Data(r, k) = Data(r, op.next)
          BY <3>3 DEF NameAt, Data, op
        <4> QED
          BY <1>1, <2>1, <3>1, <4>1
      <3>4. CASE op.files[k] # op.files[op.next]
        <4>1. k # op.next
          BY <3>4
        <4>2. k \in 1..(op.next - 1)
          BY <1>1, <3>2, <4>1
        <4> QED
          BY <2>1, <3>4, <4>2
      <3> QED
        BY <3>3, <3>4
    <2> QED
      BY <2>2, <2>3
  <1>9. ASSUME r.alone, step.offset > 0
        PROVE  Holds(f, NameAt(q, step.next), SubSeq(Data(q, step.next), 1, step.offset))
    <2>1. ~last /\ step.next = op.next /\ step.offset = op.offset + op.chunk
      BY <1>2, <1>9
    <2>2. op.offset + op.chunk < n
      BY <1>1, <2>1
    <2>3. EndOf(r) = op.offset + op.chunk
      BY <2>2 DEF EndOf, n, op
    <2>4. Holds(f, NameAt(r, op.next), SubSeq(Data(r, op.next), 1, EndOf(r)))
      BY <1>0, <1>9 DEF UploadOK, op
    <2> QED
      BY <1>7, <2>1, <2>3, <2>4
  <1>10. UploadOK(q, f)
    <2>1. q.op = step /\ step.files = op.files /\ step.chunk = op.chunk /\ q.answer = None /\ q.alone = r.alone
          /\ step = [kind |-> "upload", files |-> step.files, next |-> step.next, offset |-> step.offset, chunk |-> step.chunk]
      BY <1>2, <1>4
    <2>2. None # "ok"
      BY BrowserAssumption
    <2> QED
      BY <1>1, <1>6, <1>7, <1>8, <1>9, <2>1, <2>2 DEF UploadOK
  <1>11. UNCHANGED <<fs, chosen, dirs, expanded, menu, dialog, busy, listings, late, steps>>
    BY DEF UploadContinues, pane
  <1>12. BrowserInv'
    <2>1. /\ q.path = runs[i].path /\ q.refresh = runs[i].refresh /\ q.target = runs[i].target
      BY <1>4 DEF r
    <2>2. /\ RunsOK' /\ DOMAIN runs' = DOMAIN runs
          /\ \A j \in DOMAIN runs : /\ runs'[j].path = runs[j].path /\ runs'[j].refresh = runs[j].refresh
                                    /\ runs'[j].target = runs[j].target
      BY <1>3, <1>5, <1>11, <2>1, RunGoesOn DEF FilesInv, BrowserInv
    <2>3. TreesOK'
      BY <1>11 DEF FilesInv, BrowserInv, TreesOK
    <2> QED
      BY <1>11, <2>2, <2>3, WhileRunning DEF FilesInv
  <1>13. UploadInv'
    <2>1. DOMAIN runs' = DOMAIN runs /\ runs'[i] = q /\ \A j \in DOMAIN runs \ {i} : runs'[j] = runs[j]
      BY <1>3
    <2>2. q.target = runs[i].target /\ q.alone = runs[i].alone
      BY <1>4 DEF r
    <2>3. UploadOK(q, fs'[q.target])
      BY <1>10, <1>11, <2>2 DEF f, r
    <2>4. ASSUME NEW j \in DOMAIN runs, NEW k \in DOMAIN runs, j # k, runs'[j].alone
          PROVE  runs'[k].target # runs'[j].target
      BY <2>1, <2>2, <2>4 DEF FilesInv, UploadInv
    <2>5. ASSUME NEW j \in DOMAIN runs, runs'[j].op.kind = "upload"
          PROVE  UploadOK(runs'[j], fs'[runs'[j].target])
      BY <1>11, <2>1, <2>3, <2>5 DEF FilesInv, UploadInv
    <2> QED
      BY <2>1, <2>4, <2>5 DEF UploadInv
  <1> QED
    BY <1>12, <1>13 DEF FilesInv

\* What happens without the user.
LEMMA BackgroundKeeps == FilesInv /\ Background => FilesInv'
  <1> SUFFICES ASSUME FilesInv, Background PROVE FilesInv'
    OBVIOUS
  <1>1. ASSUME NEW l \in DOMAIN listings, AgentLists(l) \/ ListingArrives(l) PROVE FilesInv'
    <2>1. fs' = fs /\ runs' = runs
      BY <1>1 DEF AgentLists, ListingArrives
    <2>2. UploadInv'
      BY <2>1, UploadsStay DEF FilesInv
    <2> QED
      BY <1>1, <2>2, AgentListsKeeps, ListingArrivesKeeps DEF FilesInv
  <1>2. ASSUME NEW i \in DOMAIN runs, AgentActs(i) PROVE FilesInv'
    BY <1>2, AgentActsKeeps, AgentActsUploads DEF FilesInv
  <1>3. ASSUME NEW i \in DOMAIN runs, RunEnds(i) \/ RunFails(i) PROVE FilesInv'
    <2>1. fs' = fs /\ runs' = [j \in DOMAIN runs \ {i} |-> runs[j]]
      BY <1>3 DEF RunEnds, RunFails, settle
    <2>2. DOMAIN runs' \subseteq DOMAIN runs /\ \A j \in DOMAIN runs' : runs'[j] = runs[j]
      BY <2>1
    <2>3. UploadInv'
      BY <2>1, <2>2, UploadsStay DEF FilesInv
    <2> QED
      BY <1>3, <2>3, RunEndsKeeps, RunFailsKeeps DEF FilesInv
  <1> QED
    BY <1>1, <1>2, <1>3, UploadContinuesKeeps DEF Background, BagToSet

\* The rows of the tree are paths.
LEMMA RowsArePaths ==
  ASSUME BrowserInv, NEW p \in Rows
  PROVE  IsPath(p) /\ IsPath(parentPath(p))
  <1>1. p \in {<<>>} \cup UNION {{Append(q, n) : n \in DOMAIN dirs[q].entries} : q \in DOMAIN dirs}
    BY DEF Rows
  <1>2. CASE p = <<>>
    BY <1>2, EmptyPath, ParentIsFront
  <1>3. CASE p # <<>>
    <2>1. PICK q \in DOMAIN dirs : \E n \in DOMAIN dirs[q].entries : p = Append(q, n)
      BY <1>1, <1>3
    <2>2. IsPath(q)
      BY DEF BrowserInv, DirsOK
    <2> QED
      BY <2>1, <2>2, AppendPath, ParentIsFront
  <1> QED
    BY <1>2, <1>3

\* The page changes, and nothing else.
LEMMA PageKeeps ==
  ASSUME FilesInv, UNCHANGED <<fs, chosen, dirs, busy, listings, runs, late, steps>>,
         transfer' = transfer \/ DOMAIN runs # {}, PageOK'
  PROVE  FilesInv'
  <1>1. transfer' = None \/ DOMAIN runs # {}
    BY DEF FilesInv, BrowserInv, MarkersBacked
  <1>2. UploadInv'
    BY UploadsStay DEF FilesInv
  <1> QED
    BY <1>1, <1>2, PageOnly DEF FilesInv

\* An operation is started on a path.
LEMMA Started ==
  ASSUME FilesInv, NEW op, NEW path, NEW refreshed, run(op, path, refreshed),
         UNCHANGED <<fs, chosen, dirs, transfer, listings, late>>, PageOK',
         op.kind \in RunKinds, IsPath(path),
         op.kind \in {"move", "mkdir"} => IsPath(op.destination),
         op.kind = "extract" => IsPath(ExtractsTo([op |-> op, path |-> path])),
         Rereads([op |-> op, path |-> path]) \subseteq refreshed,
         op.kind = "upload" =>
           \E files \in Picks, chunk \in {ChunkDefault, ChunkServed} :
             op = [kind |-> "upload", files |-> files, next |-> 1, offset |-> 0, chunk |-> chunk]
  PROVE  FilesInv'
  <1> DEFINE new == NewRun(op, path, refreshed)
             short == [op |-> op, path |-> path]
  <1>1. /\ new.op = op /\ new.path = path /\ new.refresh = refreshed /\ new.target = container
        /\ new.answer = None /\ new.alone \in BOOLEAN
        /\ new = [op |-> new.op, path |-> new.path, refresh |-> new.refresh, target |-> new.target,
                  answer |-> new.answer, alone |-> new.alone]
    BY DEF NewRun
  <1>2. short.op = op /\ short.path = path
    OBVIOUS
  <1> HIDE DEF new, short
  <1>3. ExtractsTo(new) = ExtractsTo(short)
    BY <1>1, <1>2 DEF ExtractsTo
  <1>4. Rereads(new) = Rereads(short)
    BY <1>1, <1>2, <1>3 DEF Rereads
  <1>5. RunOK(new)
    BY <1>1, <1>3, <1>4, ContainerIs DEF RunOK, short
  <1>6. BrowserInv'
    BY <1>5, RunStarts DEF FilesInv, new
  <1>7. UploadInv'
    BY <1>5, UploadStarts DEF FilesInv, BrowserInv, new
  <1> QED
    BY <1>6, <1>7 DEF FilesInv

-----------------------------------------------------------------------------
(* What the user starts.                                                    *)

\* Files of one kind of operation each.
LEMMA MoveStarts ==
  ASSUME FilesInv, NEW source, NEW dest, NEW overwrite, doMove(source, dest, overwrite),
         UNCHANGED <<fs, chosen, dirs, transfer, listings, late>>, PageOK', IsPath(source), IsPath(dest)
  PROVE  FilesInv'
  <1> DEFINE op == [kind |-> "move", destination |-> dest, overwrite |-> overwrite]
             ps == {parentPath(source), parentPath(dest)}
  <1>1. op.kind = "move" /\ op.destination = dest
    OBVIOUS
  <1>2. run(op, source, ps)
    BY DEF doMove
  <1> HIDE DEF op
  <1>3. Rereads([op |-> op, path |-> source]) \subseteq ps
    BY <1>1 DEF Rereads
  <1> HIDE DEF ps
  <1> QED
    BY <1>1, <1>2, <1>3, Started DEF RunKinds

\* An upload of picked files.
LEMMA UploadBegins ==
  ASSUME FilesInv, NEW directory, NEW files \in Picks, doUpload(directory, files),
         UNCHANGED <<fs, chosen, dirs, transfer, listings, late>>, PageOK', IsPath(directory)
  PROVE  FilesInv'
  <1>1. PICK chunk \in {ChunkDefault, ChunkServed} :
          run([kind |-> "upload", files |-> files, next |-> 1, offset |-> 0, chunk |-> chunk],
              directory, {directory})
    BY DEF doUpload
  <1> DEFINE op == [kind |-> "upload", files |-> files, next |-> 1, offset |-> 0, chunk |-> chunk]
             ps == {directory}
  <1>2. op.kind = "upload" /\ run(op, directory, ps)
    BY <1>1
  <1>3. \E other \in Picks, size \in {ChunkDefault, ChunkServed} :
          op = [kind |-> "upload", files |-> other, next |-> 1, offset |-> 0, chunk |-> size]
    OBVIOUS
  <1> HIDE DEF op
  <1>4. Rereads([op |-> op, path |-> directory]) \subseteq ps
    BY <1>2 DEF Rereads
  <1> HIDE DEF ps
  <1> QED
    BY <1>2, <1>3, <1>4, Started DEF RunKinds

\* Operations that change nothing on the agent's side.
LEMMA ReadingStarts ==
  ASSUME FilesInv, NEW kind \in {"archive", "info", "view", "download"}, NEW path, run([kind |-> kind], path, {}),
         UNCHANGED <<fs, chosen, dirs, transfer, listings, late>>, PageOK', IsPath(path)
  PROVE  FilesInv'
  <1> DEFINE op == [kind |-> kind]
             ps == {}
  <1>1. op.kind = kind /\ run(op, path, ps)
    OBVIOUS
  <1> HIDE DEF op
  <1>2. Rereads([op |-> op, path |-> path]) \subseteq ps
    BY <1>1 DEF Rereads
  <1> HIDE DEF ps
  <1> QED
    BY <1>1, <1>2, Started DEF RunKinds

\* A deletion.
LEMMA DeleteStarts ==
  ASSUME FilesInv, NEW path, NEW rec, run([kind |-> "delete", recursive |-> rec], path, {parentPath(path)}),
         UNCHANGED <<fs, chosen, dirs, transfer, listings, late>>, PageOK', IsPath(path)
  PROVE  FilesInv'
  <1> DEFINE op == [kind |-> "delete", recursive |-> rec]
             ps == {parentPath(path)}
  <1>1. op.kind = "delete" /\ run(op, path, ps)
    OBVIOUS
  <1> HIDE DEF op
  <1>2. Rereads([op |-> op, path |-> path]) \subseteq ps
    BY <1>1 DEF Rereads
  <1> HIDE DEF ps
  <1> QED
    BY <1>1, <1>2, Started DEF RunKinds

\* A new folder.
LEMMA FolderStarts ==
  ASSUME FilesInv, NEW path, NEW n, run([kind |-> "mkdir", destination |-> joinPath(path, n)], path, {path}),
         UNCHANGED <<fs, chosen, dirs, transfer, listings, late>>, PageOK', IsPath(path)
  PROVE  FilesInv'
  <1> DEFINE op == [kind |-> "mkdir", destination |-> joinPath(path, n)]
             ps == {path}
  <1>1. op.kind = "mkdir" /\ op.destination = Append(path, n) /\ run(op, path, ps)
    BY DEF joinPath
  <1> HIDE DEF op
  <1>2. IsPath(Append(path, n)) /\ parentPath(Append(path, n)) = path
    BY AppendPath, ParentIsFront
  <1>3. Rereads([op |-> op, path |-> path]) \subseteq ps
    BY <1>1, <1>2 DEF Rereads
  <1> HIDE DEF ps
  <1> QED
    BY <1>1, <1>2, <1>3, Started DEF RunKinds

\* An extraction, next to the archive or where it is told to.
LEMMA ExtractStarts ==
  ASSUME FilesInv, NEW path, NEW d, NEW overwrite,
         run([kind |-> "extract", destination |-> d, overwrite |-> overwrite], path,
             {IF d = Blank THEN <<>> ELSE parentPath(d), parentPath(path)}),
         UNCHANGED <<fs, chosen, dirs, transfer, listings, late>>, PageOK', IsPath(path), d = Blank \/ IsPath(d)
  PROVE  FilesInv'
  <1> DEFINE op == [kind |-> "extract", destination |-> d, overwrite |-> overwrite]
             ps == {IF d = Blank THEN <<>> ELSE parentPath(d), parentPath(path)}
             short == [op |-> op, path |-> path]
             next == Append(Front(path), Stem[Last(path)])
  <1>1. op.kind = "extract" /\ op.destination = d /\ run(op, path, ps)
    OBVIOUS
  <1> HIDE DEF op
  <1>2. ExtractsTo(short) = IF d = Blank THEN next ELSE d
    BY <1>1 DEF ExtractsTo, defaultExtractDestination
  <1>3. IsPath(next) /\ parentPath(next) = parentPath(path)
    <2>1. IsPath(Front(path)) /\ parentPath(path) = Front(path)
      BY ParentIsFront
    <2> DEFINE n == Stem[Last(path)]
    <2> HIDE DEF n
    <2>2. IsPath(Append(Front(path), n)) /\ Front(Append(Front(path), n)) = Front(path)
      BY <2>1, AppendPath
    <2> QED
      BY <2>1, <2>2, ParentIsFront DEF n
  <1> HIDE DEF next
  <1>4. IsPath(ExtractsTo(short))
    BY <1>2, <1>3
  <1>5. Rereads(short) \subseteq ps
    <2>1. Rereads(short) = {parentPath(ExtractsTo(short)), parentPath(path)}
      BY <1>1 DEF Rereads
    <2> QED
      BY <1>2, <1>3, <2>1
  <1> HIDE DEF ps
  <1> QED
    BY <1>1, <1>4, <1>5, Started DEF RunKinds

\* Another container is browsed.
LEMMA SelectKeeps ==
  ASSUME FilesInv, NEW c \in ToSet(Containers), SelectContainer(c)
  PROVE  FilesInv'
  <1>1. openHome(c) /\ steps' = steps + 1 /\ UNCHANGED <<fs, menu, dialog, busy, transfer, runs>>
    BY DEF SelectContainer
  <1>2. c \in Range(Containers)
    BY DEF ToSet, Range
  <1>3. /\ CallsOK' /\ DirsOK' /\ CallsKnown' /\ AllHonest'
        /\ \A p \in DOMAIN dirs' : dirs'[p].loading => CallsFor(p, listings') # {}
    BY <1>1, <1>2, HomeKeeps DEF FilesInv
  <1>4. RunsOK'
    <2>1. steps \in Nat /\ DOMAIN runs \subseteq 1..steps /\ \A i \in DOMAIN runs : RunOK(runs[i])
      BY DEF FilesInv, BrowserInv, RunsOK
    <2>2. 1..steps \subseteq 1..steps'
      BY <1>1, <2>1
    <2> QED
      BY <1>1, <2>1, <2>2 DEF RunsOK
  <1>5. MarkersBacked'
    BY <1>1, <1>3 DEF FilesInv, BrowserInv, MarkersBacked
  <1>6. TreesOK' /\ PageOK'
    BY <1>1 DEF FilesInv, BrowserInv, TreesOK, PageOK
  <1>7. UploadInv'
    BY <1>1, UploadsStay DEF FilesInv
  <1> QED
    BY <1>3, <1>4, <1>5, <1>6, <1>7 DEF FilesInv, BrowserInv

\* Directories are listed once more, by hand or for the first time.
LEMMA ListingKeeps ==
  ASSUME FilesInv, NEW ps, \A p \in ps : IsPath(p), loadDirectory(container, ps, dirs, late),
         UNCHANGED <<fs, chosen, dialog, busy, transfer, runs>>, PageOK', steps' \in {steps, steps + 1}
  PROVE  FilesInv'
  <1>1. \A p : Awaited(p) => Awaited(p)'
    BY DEF Awaited, container
  <1>2. /\ CallsOK' /\ DirsOK' /\ CallsKnown' /\ AllHonest'
        /\ \A p \in DOMAIN dirs' : dirs'[p].loading => CallsFor(p, listings') # {}
    <2> DEFINE c == container
    <2>1. c \in Range(Containers) /\ loadDirectory(c, ps, dirs, late)
      BY ContainerIs
    <2> HIDE DEF c
    <2> QED
      BY <1>1, <2>1, LoadKeeps DEF FilesInv
  <1>3. RunsOK'
    <2>1. steps \in Nat /\ DOMAIN runs \subseteq 1..steps /\ \A i \in DOMAIN runs : RunOK(runs[i])
      BY DEF FilesInv, BrowserInv, RunsOK
    <2>2. 1..steps \subseteq 1..steps' /\ steps' \in Nat
      BY <2>1
    <2> QED
      BY <2>1, <2>2 DEF RunsOK
  <1>4. MarkersBacked'
    BY <1>2 DEF FilesInv, BrowserInv, MarkersBacked
  <1>5. TreesOK'
    BY DEF FilesInv, BrowserInv, TreesOK
  <1>6. UploadInv'
    BY UploadsStay DEF FilesInv
  <1> QED
    BY <1>2, <1>3, <1>4, <1>5, <1>6 DEF FilesInv, BrowserInv

\* Opening and closing directories.
LEMMA RowKeeps ==
  ASSUME FilesInv, NEW p \in Rows, RowClicked(p) \/ openContextMenu(p)
  PROVE  FilesInv'
  <1>1. IsPath(p)
    BY RowsArePaths DEF FilesInv
  <1>2. CASE openContextMenu(p)
    <2>1. PageOK'
      BY <1>1, <1>2 DEF openContextMenu, FilesInv, BrowserInv, PageOK
    <2>2. UNCHANGED <<fs, chosen, dirs, busy, transfer, listings, runs, late, steps>>
      BY <1>2 DEF openContextMenu, flags
    <2> QED
      BY <2>1, <2>2, PageKeeps
  <1>3. CASE RowClicked(p)
    <2>1. onToggle(p) /\ UNCHANGED <<fs, chosen, menu, dialog, busy, transfer, runs, steps>>
      BY <1>3 DEF RowClicked, flags
    <2>2. PageOK'
      BY <2>1 DEF FilesInv, BrowserInv, PageOK
    <2>3. CASE p \notin expanded /\ p \notin DOMAIN dirs
      <3> DEFINE ps == {p}
      <3>1. loadDirectory(container, ps, dirs, late) /\ \A q \in ps : IsPath(q)
        BY <1>1, <2>1, <2>3 DEF onToggle
      <3>2. steps' \in {steps, steps + 1}
        BY <2>1
      <3> HIDE DEF ps
      <3> QED
        BY <2>1, <2>2, <3>1, <3>2, ListingKeeps
    <2>4. CASE ~(p \notin expanded /\ p \notin DOMAIN dirs)
      BY <2>1, <2>2, <2>4, PageKeeps DEF onToggle
    <2> QED
      BY <2>3, <2>4
  <1> QED
    BY <1>2, <1>3

\* Reading directories again.
LEMMA RefreshKeeps ==
  ASSUME FilesInv, MenuRefresh \/ RefreshAll
  PROVE  FilesInv'
  <1>1. \A p \in DOMAIN dirs : IsPath(p)
    BY DEF FilesInv, BrowserInv, DirsOK
  <1>2. PICK ps : /\ loadDirectory(container, ps \cap DOMAIN dirs, dirs, late)
                  /\ UNCHANGED <<fs, chosen, dialog, busy, transfer, runs>>
                  /\ steps' = steps + 1 /\ menu' \in {menu, None}
    BY DEF MenuRefresh, RefreshAll, refresh, pane, flags
  <1>3. PageOK'
    BY <1>2 DEF FilesInv, BrowserInv, PageOK
  <1> DEFINE qs == ps \cap DOMAIN dirs
  <1>4. loadDirectory(container, qs, dirs, late) /\ \A q \in qs : IsPath(q)
    BY <1>1, <1>2
  <1>5. steps' \in {steps, steps + 1}
    BY <1>2
  <1> HIDE DEF qs
  <1> QED
    BY <1>2, <1>3, <1>4, <1>5, ListingKeeps

\* What only opens or closes the menu or a dialog.
LEMMA DialogKeeps ==
  ASSUME FilesInv,
         \/ closeContextMenu \/ ChooseUpload \/ CloseDialog
         \/ \E k \in {"archiveAs", "newFolder", "extract", "move", "delete"} : MenuAsks(k)
         \/ \E i \in DOMAIN runs : StreamProgress(i)
  PROVE  FilesInv'
  <1>1. /\ UNCHANGED <<fs, chosen, dirs, busy, listings, runs, late, steps>>
        /\ transfer' = transfer \/ DOMAIN runs # {}
    BY DEF closeContextMenu, ChooseUpload, CloseDialog, MenuAsks, StreamProgress, flags, pane
  <1>2. PageOK'
    <2>1. PageOK /\ \A p \in DOMAIN dirs : IsPath(p)
      BY DEF FilesInv, BrowserInv, DirsOK
    <2>2. CASE closeContextMenu \/ CloseDialog \/ \E i \in DOMAIN runs : StreamProgress(i)
      BY <2>1, <2>2 DEF closeContextMenu, CloseDialog, StreamProgress, pane, PageOK
    <2>3. CASE ChooseUpload
      <3>1. PICK p \in (IF menu = None THEN DOMAIN dirs \cup {<<>>}
                        ELSE IF "upload" \in Offered(menu) THEN {menu.path} ELSE {}) :
              dialog' = [kind |-> "chooser", path |-> p]
        BY <2>3 DEF ChooseUpload
      <3>2. IsPath(p)
        BY <2>1, <3>1, EmptyPath DEF PageOK
      <3> QED
        BY <2>3, <3>1, <3>2 DEF ChooseUpload, PageOK
    <2>4. ASSUME NEW k, MenuAsks(k) PROVE PageOK'
      BY <2>1, <2>4 DEF MenuAsks, PageOK
    <2> QED
      BY <2>2, <2>3, <2>4
  <1> QED
    BY <1>1, <1>2, PageKeeps

\* Operations started from the menu.
LEMMA MenuKeeps ==
  ASSUME FilesInv, NEW kind \in {"view", "download", "archive", "info"}, MenuRuns(kind)
  PROVE  FilesInv'
  <1>1. /\ IsPath(menu.path) /\ PageOK'
        /\ UNCHANGED <<fs, chosen, dirs, transfer, listings, late>>
    BY DEF MenuRuns, FilesInv, BrowserInv, PageOK
  <1>2. run([kind |-> kind], menu.path, {})
    BY DEF MenuRuns, startArchive
  <1> QED
    BY <1>1, <1>2, ReadingStarts

\* Where what is dropped on a row goes.
LEMMA DropTargetIsPath ==
  ASSUME FilesInv, NEW p \in Rows
  PROVE  IsPath(DropTarget(p))
  BY RowsArePaths DEF FilesInv, DropTarget

\* Files and entries dropped on a row, files picked.
LEMMA DropKeeps ==
  ASSUME FilesInv,
         \/ \E p \in Rows : \/ \E s \in Rows : onDropMove(s, p)
                            \/ \E files \in Picks : DropFiles(p, files)
         \/ \E files \in Picks : FilesChosen(files)
  PROVE  FilesInv'
  <1>1. ASSUME NEW p \in Rows, NEW s \in Rows, onDropMove(s, p) PROVE FilesInv'
    <2> DEFINE dest == joinPath(DropTarget(p), Last(s))
    <2>1. IsPath(s) /\ IsPath(DropTarget(p))
      BY RowsArePaths, DropTargetIsPath DEF FilesInv
    <2>2. IsPath(dest)
      BY <2>1, AppendPath DEF joinPath
    <2>3. doMove(s, dest, FALSE) /\ UNCHANGED <<fs, chosen, dirs, menu, dialog, transfer, listings, late>>
      BY <1>1 DEF onDropMove, pane
    <2>4. PageOK'
      BY <2>3 DEF FilesInv, BrowserInv, PageOK
    <2> HIDE DEF dest
    <2> QED
      BY <2>1, <2>2, <2>3, <2>4, MoveStarts
  <1>2. ASSUME NEW p \in Rows, NEW files \in Picks, DropFiles(p, files) PROVE FilesInv'
    <2>1. IsPath(DropTarget(p))
      BY DropTargetIsPath
    <2>2. doUpload(DropTarget(p), files) /\ UNCHANGED <<fs, chosen, dirs, menu, dialog, transfer, listings, late>>
      BY <1>2 DEF DropFiles, pane
    <2>3. PageOK'
      BY <2>2 DEF FilesInv, BrowserInv, PageOK
    <2> QED
      BY <2>1, <2>2, <2>3, UploadBegins
  <1>3. ASSUME NEW files \in Picks, FilesChosen(files) PROVE FilesInv'
    <2>1. IsPath(dialog.path) /\ PageOK'
      BY <1>3 DEF FilesChosen, FilesInv, BrowserInv, PageOK
    <2>2. doUpload(dialog.path, files) /\ UNCHANGED <<fs, chosen, dirs, transfer, listings, late>>
      BY <1>3 DEF FilesChosen
    <2> QED
      BY <2>1, <2>2, UploadBegins
  <1> QED
    BY <1>1, <1>2, <1>3

\* Dialogs confirmed.
LEMMA ConfirmKeeps ==
  ASSUME FilesInv, ConfirmMove \/ ConfirmArchive \/ ConfirmExtract \/ ConfirmNewFolder \/ ConfirmDelete
  PROVE  FilesInv'
  <1>1. PICK kind : Confirmed(kind)
    BY DEF ConfirmMove, ConfirmArchive, ConfirmExtract, ConfirmNewFolder, ConfirmDelete
  <1> DEFINE q == dialog.path
  <1>2. /\ IsPath(q) /\ PageOK' /\ UNCHANGED <<fs, chosen, dirs, transfer, listings, late>>
    BY <1>1 DEF Confirmed, FilesInv, BrowserInv, PageOK
  <1>3. \A d \in Destinations : IsPath(d)
    BY BrowserAssumption
  <1>4. CASE ConfirmMove
    <2>1. PICK d \in Destinations, o \in Overwrites : doMove(q, d, o)
      BY <1>4 DEF ConfirmMove
    <2> HIDE DEF q
    <2> QED
      BY <1>2, <1>3, <2>1, MoveStarts
  <1>5. CASE ConfirmArchive
    <2> DEFINE kind2 == "archive"
    <2>1. run([kind |-> kind2], q, {}) /\ kind2 \in {"archive", "info", "view", "download"}
      BY <1>5 DEF ConfirmArchive, startArchive
    <2> HIDE DEF q, kind2
    <2> QED
      BY <1>2, <2>1, ReadingStarts
  <1>6. CASE ConfirmExtract
    <2>1. PICK d \in Destinations \cup {Blank, defaultExtractDestination(q)}, o \in Overwrites :
            run([kind |-> "extract", destination |-> d, overwrite |-> o], q,
                {IF d = Blank THEN <<>> ELSE parentPath(d), parentPath(q)})
      BY <1>6 DEF ConfirmExtract
    <2>2. IsPath(defaultExtractDestination(q))
      <3> DEFINE n == Stem[Last(q)]
      <3> HIDE DEF q, n
      <3>1. IsPath(Append(Front(q), n))
        BY <1>2, ParentIsFront, AppendPath
      <3> QED
        BY <3>1 DEF defaultExtractDestination, n
    <2> HIDE DEF q
    <2>3. d = Blank \/ IsPath(d)
      BY <1>3, <2>1, <2>2
    <2> QED
      BY <1>2, <2>1, <2>3, ExtractStarts
  <1>7. CASE ConfirmNewFolder
    <2>1. PICK n \in Names : run([kind |-> "mkdir", destination |-> joinPath(q, n)], q, {q})
      BY <1>7 DEF ConfirmNewFolder
    <2> HIDE DEF q
    <2> QED
      BY <1>2, <2>1, FolderStarts
  <1>8. CASE ConfirmDelete
    <2>1. PICK rec \in (IF dialog.type = "directory" THEN BOOLEAN ELSE {FALSE}) :
            run([kind |-> "delete", recursive |-> rec], q, {parentPath(q)})
      BY <1>8 DEF ConfirmDelete
    <2> HIDE DEF q
    <2> QED
      BY <1>2, <2>1, DeleteStarts
  <1> QED
    BY <1>4, <1>5, <1>6, <1>7, <1>8

\* What the user does.
LEMMA UserKeeps == FilesInv /\ User => FilesInv'
  <1> SUFFICES ASSUME FilesInv, User PROVE FilesInv'
    OBVIOUS
  <1>1. CASE \E c \in ToSet(Containers) : SelectContainer(c)
    BY <1>1, SelectKeeps
  <1>2. CASE \E p \in Rows : RowClicked(p) \/ openContextMenu(p)
    BY <1>2, RowKeeps
  <1>3. CASE \/ \E p \in Rows : \/ \E s \in Rows : onDropMove(s, p)
                                \/ \E files \in Picks : DropFiles(p, files)
             \/ \E files \in Picks : FilesChosen(files)
    BY <1>3, DropKeeps
  <1>4. CASE \E k \in {"view", "download", "archive", "info"} : MenuRuns(k)
    BY <1>4, MenuKeeps
  <1>5. CASE \/ closeContextMenu \/ ChooseUpload \/ CloseDialog
             \/ \E k \in {"archiveAs", "newFolder", "extract", "move", "delete"} : MenuAsks(k)
    BY <1>5, DialogKeeps
  <1>6. CASE MenuRefresh \/ RefreshAll
    BY <1>6, RefreshKeeps
  <1>7. CASE ConfirmMove \/ ConfirmArchive \/ ConfirmExtract \/ ConfirmNewFolder \/ ConfirmDelete
    BY <1>7, ConfirmKeeps
  <1> QED
    BY <1>1, <1>2, <1>3, <1>4, <1>5, <1>6, <1>7 DEF User

-----------------------------------------------------------------------------
(* The file browser is right.                                               *)

\* The tab opens on the container's home directory, nothing of which is known.
LEMMA InitKeeps == BrowserInit => FilesInv
  <1> SUFFICES ASSUME BrowserInit PROVE FilesInv
    OBVIOUS
  <1> DEFINE c == IF Preferred \in ToSet(Containers) THEN Preferred ELSE Containers[1]
             ps == ancestorPaths(Home[c])
             Asked(p) == [target |-> c, path |-> p, answer |-> None]
  <1>1. c \in Range(Containers)
    <2>1. /\ Containers \in Seq(Range(Containers)) /\ Containers # <<>>
          /\ ToSet(Containers) = Range(Containers)
      BY BrowserAssumption DEF ToSet, Range
    <2>2. 1 \in DOMAIN Containers
      <3> DEFINE S == Range(Containers)
      <3>1. Containers \in Seq(S)
        BY <2>1
      <3> HIDE DEF S
      <3> QED
        BY <2>1, <3>1
    <2>3. Containers[1] \in Range(Containers)
      BY <2>2 DEF Range
    <2> QED
      BY <2>1, <2>3
  <1>2. /\ fs = InitFs /\ menu = None /\ dialog = None /\ busy = {} /\ transfer = None
        /\ DOMAIN runs = {} /\ late = {} /\ steps = 0
        /\ dirs = [p \in ps |-> [entries |-> NoEntries, loading |-> TRUE, of |-> None]]
        /\ listings = SetToBag({Asked(p) : p \in ps})
    BY DEF BrowserInit
  <1> HIDE DEF c
  <1>3. \A p \in ps : IsPath(p)
    <2>1. IsPath(Home[c])
      BY <1>1, BrowserAssumption
    <2> QED
      BY <2>1, BeginningsArePrefixes DEF ancestorPaths
  <1> HIDE DEF ps
  <1>4. /\ DOMAIN listings = {Asked(p) : p \in ps} /\ DOMAIN dirs = ps
        /\ \A l \in DOMAIN listings : listings[l] \in {1}
        /\ \A p \in ps : dirs[p] = [entries |-> NoEntries, loading |-> TRUE, of |-> None]
    BY <1>2 DEF SetToBag
  <1>5. \A p \in ps : CallsFor(p, listings) = {Asked(p)}
    <2>1. \A p : Asked(p).path = p
      OBVIOUS
    <2> HIDE DEF Asked
    <2> QED
      BY <1>4, <2>1 DEF CallsFor, BagToSet
  <1>6. TreesOK
    BY <1>2, BrowserAssumption DEF TreesOK
  <1>7. CallsOK /\ CallsKnown
    <2>1. ASSUME NEW l \in DOMAIN listings PROVE CallOK(l) /\ listings[l] \in Nat \ {0} /\ l.path \in DOMAIN dirs
      <3>1. PICK p \in ps : l = Asked(p)
        BY <1>4
      <3>2. l.target = c /\ l.path = p /\ l = [target |-> l.target, path |-> l.path, answer |-> l.answer]
        BY <3>1
      <3>3. listings[l] \in Nat \ {0} /\ p \in DOMAIN dirs
        BY <1>4
      <3> QED
        BY <1>1, <1>3, <3>2, <3>3 DEF CallOK
    <2> QED
      BY <2>1 DEF CallsOK, CallsKnown
  <1>8. DirsOK /\ PageOK
    BY <1>2, <1>3, <1>4 DEF DirsOK, DirOK, PageOK
  <1>9. RunsOK /\ UploadInv
    BY <1>2 DEF RunsOK, UploadInv
  <1>10. MarkersBacked
    BY <1>2, <1>4, <1>5 DEF MarkersBacked
  <1>11. AllHonest
    <2>1. ASSUME NEW p \in ps PROVE DirHonest(p)
      <3>1. Asked(p).answer = None /\ Asked(p) \in DOMAIN listings
        BY <1>4
      <3>2. CallsFor(p, listings) = {Asked(p)} /\ listings[Asked(p)] = 1
        BY <1>4, <1>5, <3>1
      <3> HIDE DEF Asked
      <3> QED
        BY <3>1, <3>2 DEF DirHonest, Single
    <2> QED
      BY <1>4, <2>1 DEF AllHonest
  <1> QED
    BY <1>6, <1>7, <1>8, <1>9, <1>10, <1>11 DEF FilesInv, BrowserInv

\* Every step of the tab and of the helper keeps the invariant.
LEMMA FilesInvKept == FilesInv /\ [BrowserNext]_browserVars => FilesInv'
  <1> SUFFICES ASSUME FilesInv, [BrowserNext]_browserVars PROVE FilesInv'
    OBVIOUS
  <1>1. CASE Background
    BY <1>1, BackgroundKeeps
  <1>2. CASE User
    BY <1>2, UserKeeps
  <1>3. CASE \E i \in DOMAIN runs : StreamProgress(i)
    BY <1>3, DialogKeeps
  <1>4. CASE UNCHANGED browserVars
    <2>1. UNCHANGED <<fs, chosen, dirs, menu, dialog, busy, transfer, listings, runs, late, steps>>
      BY <1>4 DEF browserVars, pane, flags
    <2>2. PageOK'
      BY <2>1 DEF FilesInv, BrowserInv, PageOK
    <2> QED
      BY <2>1, <2>2, PageKeeps
  <1> QED
    BY <1>1, <1>2, <1>3, <1>4 DEF BrowserNext

\* So it holds always.
LEMMA FilesInvAlways == BrowserSpec => []FilesInv
  BY InitKeeps, FilesInvKept, PTL DEF BrowserSpec

\* Whatever the order in which operations and listings end, no spinner, busy
\* row or progress bar is left behind, and once nothing is under way for it an
\* open directory shows what the container holds, outside the known gaps.
THEOREM TreeHonestAlways == BrowserSpec => []TreeHonest
  <1>1. FilesInv => TreeHonest
    <2> SUFFICES ASSUME FilesInv PROVE TreeHonest
      OBVIOUS
    <2>1. ASSUME NEW p \in DOMAIN dirs, dirs[p].of = container, p \notin late,
                 CallsFor(p, listings) = {}, \A i \in DOMAIN runs : runs[i].target # container
          PROVE  dirs[p].entries = List(fs[container], p)
      <3>1. DirHonest(p)
        BY <2>1 DEF FilesInv, BrowserInv, AllHonest
      <3>2. ~Awaited(p)
        BY <2>1 DEF Awaited
      <3> QED
        BY <2>1, <3>1, <3>2 DEF DirHonest, Honest
    <2>2. ListingsHonest
      BY <2>1 DEF ListingsHonest
    <2> QED
      BY <2>2 DEF FilesInv, BrowserInv, TreeHonest
  <1> QED
    BY <1>1, FilesInvAlways, PTL

\* Only its end takes a run away.
LEMMA RunsGo ==
  ASSUME FilesInv, [BrowserNext]_browserVars, NEW i \in DOMAIN runs, i \notin DOMAIN runs'
  PROVE  RunEnds(i) \/ RunFails(i)
  <1>1. CASE Background
    <2>1. ASSUME NEW l, AgentLists(l) \/ ListingArrives(l) PROVE FALSE
      BY <2>1 DEF AgentLists, ListingArrives
    <2>2. ASSUME NEW j \in DOMAIN runs, AgentActs(j) \/ UploadContinues(j) PROVE FALSE
      BY <2>2 DEF AgentActs, UploadContinues
    <2>3. ASSUME NEW j \in DOMAIN runs, RunEnds(j) \/ RunFails(j) PROVE i = j
      BY <2>3 DEF RunEnds, RunFails, settle
    <2> QED
      BY <1>1, <2>1, <2>2, <2>3 DEF Background
  <1>2. CASE User
    <2>1. ASSUME NEW op, NEW path, NEW ps, run(op, path, ps) PROVE FALSE
      BY <2>1 DEF run
    <2>2. ASSUME runs' = runs PROVE FALSE
      BY <2>2
    <2>3. ASSUME NEW c, SelectContainer(c) PROVE FALSE
      BY <2>2, <2>3 DEF SelectContainer
    <2>4. ASSUME NEW p, RowClicked(p) \/ openContextMenu(p) PROVE FALSE
      BY <2>2, <2>4 DEF RowClicked, openContextMenu
    <2>5. ASSUME NEW p, NEW q, onDropMove(p, q) PROVE FALSE
      BY <2>1, <2>5 DEF onDropMove, doMove
    <2>6. ASSUME NEW p, NEW files, DropFiles(p, files) \/ FilesChosen(files) PROVE FALSE
      BY <2>1, <2>6 DEF DropFiles, FilesChosen, doUpload
    <2>7. ASSUME NEW k, MenuRuns(k) PROVE FALSE
      BY <2>1, <2>7 DEF MenuRuns, startArchive
    <2>8. ASSUME NEW k, MenuAsks(k) PROVE FALSE
      BY <2>2, <2>8 DEF MenuAsks
    <2>9. ~closeContextMenu /\ ~MenuRefresh /\ ~RefreshAll /\ ~ChooseUpload /\ ~CloseDialog
      BY <2>2 DEF closeContextMenu, MenuRefresh, RefreshAll, ChooseUpload, CloseDialog
    <2>10. ~ConfirmMove
      BY <2>1 DEF ConfirmMove, doMove
    <2>11. ~ConfirmArchive
      BY <2>1 DEF ConfirmArchive, startArchive
    <2>12. ~ConfirmExtract
      BY <2>1 DEF ConfirmExtract
    <2>13. ~ConfirmNewFolder
      BY <2>1 DEF ConfirmNewFolder
    <2>14. ~ConfirmDelete
      BY <2>1 DEF ConfirmDelete
    <2>15. \A c \in ToSet(Containers) : ~SelectContainer(c)
      BY <2>3
    <2>16. \A p \in Rows : /\ ~RowClicked(p) /\ ~openContextMenu(p)
                           /\ \A s \in Rows : ~onDropMove(s, p)
                           /\ \A files \in Picks : ~DropFiles(p, files)
      BY <2>4, <2>5, <2>6
    <2>17. \A files \in Picks : ~FilesChosen(files)
      BY <2>6
    <2> QED
      BY <1>2, <2>7, <2>8, <2>9, <2>10, <2>11, <2>12, <2>13, <2>14, <2>15, <2>16, <2>17 DEF User
  <1>3. CASE (\E j \in DOMAIN runs : StreamProgress(j)) \/ UNCHANGED browserVars
    <2>1. runs' = runs
      BY <1>3 DEF StreamProgress, browserVars
    <2> QED
      BY <2>1
  <1> QED
    BY <1>1, <1>2, <1>3 DEF BrowserNext

\* The last chunk of the last file has been written.
LEMMA UploadComplete ==
  ASSUME NEW r, NEW f, RunOK(r), UploadOK(r, f), r.answer = "ok", r.alone, ~MoreToUpload(r),
         NEW k \in DOMAIN r.op.files
  PROVE  Holds(f, NameAt(r, k), Data(r, k))
  <1> DEFINE op == r.op
             n == Len(Data(r, op.next))
             last == op.offset + op.chunk >= n
  <1>1. /\ op.kind = "upload" /\ op.next \in 1..Len(op.files) /\ Len(op.files) \in Nat
        /\ op.offset \in Nat /\ op.chunk \in Nat \ {0} /\ n \in Nat
        /\ SubSeq(Data(r, op.next), 1, n) = Data(r, op.next)
    BY UploadIs
  <1>2. op.files \in Seq(DOMAIN Local) /\ k \in 1..Len(op.files)
    BY DEF UploadOK
  <1>3. op = [kind |-> "upload", files |-> op.files, next |-> op.next, offset |-> op.offset, chunk |-> op.chunk]
    BY DEF UploadOK
  <1>4. ~(UploadStep(op).next <= Len(op.files))
    BY <1>1 DEF MoreToUpload
  <1>5. last /\ op.next = Len(op.files)
    <2>1. n = Len(Local[op.files[op.next]])
      BY DEF Data
    <2> HIDE DEF n, op
    <2>2. CASE ~last
      <3>1. UploadStep(op).next = op.next
        BY <1>3, <2>1, <2>2 DEF UploadStep
      <3> QED
        BY <1>1, <1>4, <3>1
    <2>3. CASE last
      <3> DEFINE t == [op EXCEPT !.next = @ + 1]
      <3>1. UploadStep(op) = [t EXCEPT !.offset = 0]
        BY <2>1, <2>3 DEF UploadStep
      <3>2. t = [kind |-> "upload", files |-> op.files, next |-> op.next + 1, offset |-> op.offset, chunk |-> op.chunk]
        BY <1>3
      <3> HIDE DEF t
      <3>3. UploadStep(op).next = op.next + 1
        BY <3>1, <3>2
      <3> QED
        BY <1>1, <1>4, <2>3, <3>3
    <2> QED
      BY <2>2, <2>3
  <1>6. EndOf(r) = n
    BY <1>1, <1>5 DEF EndOf
  <1>7. Holds(f, NameAt(r, op.next), Data(r, op.next))
    BY <1>1, <1>6 DEF UploadOK
  <1>8. CASE op.files[k] = op.files[op.next]
    <2>1. NameAt(r, k) = NameAt(r, op.next) /\ Data(r, k) = Data(r, op.next)
      BY <1>8 DEF NameAt, Data
    <2> QED
      BY <1>7, <2>1
  <1>9. CASE op.files[k] # op.files[op.next]
    <2>1. k # op.next
      BY <1>9
    <2>2. k \in 1..(op.next - 1)
      BY <1>1, <1>2, <1>5, <2>1
    <2> QED
      BY <1>9, <2>2 DEF UploadOK
  <1> QED
    BY <1>8, <1>9

\* An upload that run() reports as successful has left every file whole, unless
\* another operation ran in the same container meanwhile.
THEOREM UploadsAlwaysWhole == BrowserSpec => UploadsWhole
  <1> DEFINE Whole ==
        \A i \in DOMAIN runs \ DOMAIN runs' :
          LET r == runs[i] IN
          (r.op.kind = "upload" /\ r.answer = "ok" /\ r.alone)
            => \A k \in DOMAIN r.op.files :
                 LET p == joinPath(r.path, r.op.files[k]) IN
                   /\ p \in DOMAIN fs[r.target]
                   /\ fs[r.target][p] = File(Local[r.op.files[k]])
  <1>1. FilesInv /\ [BrowserNext]_browserVars => [Whole]_browserVars
    <2> SUFFICES ASSUME FilesInv, [BrowserNext]_browserVars PROVE Whole
      OBVIOUS
    <2> SUFFICES ASSUME NEW i \in DOMAIN runs \ DOMAIN runs', NEW r, r = runs[i],
                        r.op.kind = "upload", r.answer = "ok", r.alone, NEW k \in DOMAIN r.op.files
                 PROVE  Holds(fs[r.target], NameAt(r, k), Data(r, k))
      BY DEF Holds, NameAt, Data
    <2>1. RunEnds(i) \/ RunFails(i)
      BY RunsGo
    <2>2. ~MoreToUpload(r)
      BY <2>1 DEF RunEnds, RunFails
    <2>3. RunOK(r) /\ UploadOK(r, fs[r.target])
      BY DEF FilesInv, BrowserInv, RunsOK, UploadInv
    <2> QED
      BY <2>2, <2>3, UploadComplete
  <1> QED
    BY <1>1, FilesInvAlways, PTL DEF BrowserSpec, UploadsWhole
=============================================================================
