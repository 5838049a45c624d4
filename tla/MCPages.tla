------------------------------ MODULE MCPages -------------------------------
(* How a log's lines are read and in which format, the calls of console core   *)
(* that the logging plugin answers, the dates every tab shows and the clocks   *)
(* of terminals, names that are looked up one by one, shown decoded and looked *)
(* up behind the pages, and Flux objects that refer to one another, in lists.  *)
(* They do not interact: each behaviour is about one of them.                  *)
EXTENDS LogParse, LogFormat, FetchPatch, DateTime, TimeZone, Lookups, Idn, DnsCache, FluxReconcile, ResourceList

VARIABLE about   \* what the behaviour is about

Init ==
  /\ about \in {"ansi", "parse", "cache", "format", "patch", "date", "tz",
                "lookup", "idn", "dns", "flux", "list"}
  /\ AnsiInit /\ ParseInit /\ CacheInit /\ FormatInit /\ PatchInit /\ DateInit /\ TzInit
  /\ LookupInit /\ IdnInit /\ DnsInit /\ FluxInit /\ ListInit
  /\ about # "flux" => <<"Kustomization", "n", "k">> \in DOMAIN objects
  /\ about # "list" => inAll

\* Each of them keeps its state while a behaviour is about another.
Next ==
  \/ about = "ansi" /\ AnsiNext
     /\ UNCHANGED <<about, reading, cacheVars, formatVars, patchVars, dateVars, tzVars, lookupVars, idnVars, dnsVars, fluxVars, listVars>>
  \/ about = "parse" /\ ParseNext
     /\ UNCHANGED <<about, ansiVars, cacheVars, formatVars, patchVars, dateVars, tzVars, lookupVars, idnVars, dnsVars, fluxVars, listVars>>
  \/ about = "cache" /\ CacheNext
     /\ UNCHANGED <<about, ansiVars, reading, formatVars, patchVars, dateVars, tzVars, lookupVars, idnVars, dnsVars, fluxVars, listVars>>
  \/ about = "format" /\ FormatNext
     /\ UNCHANGED <<about, ansiVars, reading, cacheVars, patchVars, dateVars, tzVars, lookupVars, idnVars, dnsVars, fluxVars, listVars>>
  \/ about = "patch" /\ PatchNext
     /\ UNCHANGED <<about, ansiVars, reading, cacheVars, formatVars, dateVars, tzVars, lookupVars, idnVars, dnsVars, fluxVars, listVars>>
  \/ about = "date" /\ DateNext
     /\ UNCHANGED <<about, ansiVars, reading, cacheVars, formatVars, patchVars, tzVars, lookupVars, idnVars, dnsVars, fluxVars, listVars>>
  \/ about = "tz" /\ TzNext
     /\ UNCHANGED <<about, ansiVars, reading, cacheVars, formatVars, patchVars, dateVars, lookupVars, idnVars, dnsVars, fluxVars, listVars>>
  \/ about = "lookup" /\ LookupNext
     /\ UNCHANGED <<about, ansiVars, reading, cacheVars, formatVars, patchVars, dateVars, tzVars, idnVars, dnsVars, fluxVars, listVars>>
  \/ about = "idn" /\ IdnNext
     /\ UNCHANGED <<about, ansiVars, reading, cacheVars, formatVars, patchVars, dateVars, tzVars, lookupVars, dnsVars, fluxVars, listVars>>
  \/ about = "dns" /\ DnsNext
     /\ UNCHANGED <<about, ansiVars, reading, cacheVars, formatVars, patchVars, dateVars, tzVars, lookupVars, idnVars, fluxVars, listVars>>
  \/ about = "flux" /\ FluxNext
     /\ UNCHANGED <<about, ansiVars, reading, cacheVars, formatVars, patchVars, dateVars, tzVars, lookupVars, idnVars, dnsVars, listVars>>
  \/ about = "list" /\ ListNext
     /\ UNCHANGED <<about, ansiVars, reading, cacheVars, formatVars, patchVars, dateVars, tzVars, lookupVars, idnVars, dnsVars, fluxVars>>

Spec == Init /\ [][Next]_<<about, ansiVars, reading, cacheVars, formatVars, patchVars, dateVars, tzVars, lookupVars, idnVars, dnsVars, fluxVars, listVars>>

MCChunks ==
  {<<"ESC">>, <<"CSI">>, <<"ESC", "[">>, <<"]">>, <<"BEL">>, <<"\\">>, <<"(">>, <<"é">>, <<"?">>,
   <<"m", "a">>, <<"a">>, <<"31">>, <<";", "1">>, <<"38", ";", "5">>, <<";", "196">>,
   <<"7", ";", "9", ";", "4">>, <<"38", ":", "2", ":", "1">>,
   <<";", "2", ";", "300", ";", "0", ";", "5">>}

Lit(text) == <<"CSI", "93", "m">> \o text \o <<"CSI", "m">>
Name == <<"c", "o", ".", "e", ".", "F">>
Raw(text) == [text |-> text, record |-> None]
Json(record) == [text |-> <<"json">>, record |-> record]

MCLines ==
  {Raw(<<>>), Raw(<<"a", "NL", "b">>), Raw(Lit(<<"a">>) \o <<"NL", "b">>),
   Json(<<"@timestamp">> :> Str(<<"2026-02-01T10:00:00Z">>) @@ <<"log", "level">> :> Str(Lit(<<"INFO">>))
          @@ <<"log", "logger">> :> Str(Lit(Name)) @@ <<"message">> :> Str(Lit(<<"a", "NL", "b">>))
          @@ <<"error", "stack_trace">> :> Arr(<<Str(<<"x">>), Str(<<"y">>)>>)),
   Json(<<"log">> :> Obj(<<"level">> :> Str(<<"WARN">>) @@ <<"logger">> :> Str(Name))
          @@ <<"ts">> :> Num(100) @@ <<"msg">> :> Str(<<>>) @@ <<"user">> :> Str(Lit(<<"u">>))),
   Json(<<"level">> :> Num(31) @@ <<"time">> :> Str(<<"2026-13-01T10:00:00Z">>) @@ <<"ts">> :> Num(300)
          @@ <<"stack">> :> Str(<<"x", "NL", "y">>) @@ <<"user">> :> Null @@ <<"name">> :> Str(Name)),
   Json(<<"level">> :> Str(<<" ">>) @@ <<"lvl">> :> Str(Lit(<<"ERR">>)) @@ <<"text">> :> Str(<<"a">>)
          @@ <<"ts">> :> Str(<<"4">>) @@ <<"user">> :> Arr(<<>>)),
   Json(<<"PRIORITY">> :> Str(<<"4">>) @@ <<"MESSAGE">> :> Str(Lit(<<"a">>)) @@ <<"lvl">> :> Str(Lit(<<"ERR">>))
          @@ <<"__REALTIME_TIMESTAMP">> :> Str(<<"300">>) @@ <<"_COMM">> :> Str(Lit(<<"u">>))),
   Json(<<"PRIORITY">> :> Str(<<"9">>) @@ <<"MESSAGE">> :> Arr(<<Num(100), Num(31)>>)
          @@ <<"_SYSTEMD_UNIT">> :> Str(<<"u">>)),
   Json(<<"MESSAGE">> :> Arr(<<Num(300)>>) @@ <<"exception">> :> Null),
   Json(<<"MESSAGE">> :> Str(<<>>))}

Column(key, type) == [key |-> key, type |-> type]

MCColumnLists ==
  {<<>>,
   <<Column(<<"ts">>, "epoch"), Column(<<"ts">>, "date/epoch-ms"), Column(<<"user">>, "string")>>,
   <<Column(<<"@timestamp">>, "date/rfc3339"), Column(<<"time">>, "date/rfc3339nano"),
     Column(<<"level">>, "log-level"), Column(<<"lvl">>, "log-level")>>,
   <<Column(<<"name">>, "abbreviate"), Column(<<"log", "logger">>, "abbreviate"),
     Column(<<"level">>, "number"), Column(<<"user">>, "string")>>,
   <<Column(<<"user">>, "log-level"), Column(<<"lvl">>, "log-level"), Column(<<"ts">>, "number")>>}

\* Annotations of containers i, a and b: entries, columns, and what is neither.
MCTokens ==
  {Token(None, "", None), Token(None, "a", None), Token("a", "JSON", None), Token("a", "xml", None),
   Token("a", "json", Column("ts", "epoch")), Token("b", "ecs", Column("ts", "Epoch")), Token("", "ecs", None),
   Token("lvl", "log-level", None), Token("", "epoch", None)}
MCAnnotations ==
  {<<>>, <<Token("a", "json", Column("ts", "epoch")), Token("lvl", "log-level", None)>>,
   <<Token("b", "plain", None), Token("a", "xml", None)>>}
MCContainers == <<<<"i">>, <<"a", "b">>, <<>>>>
MCPicks == {"json", "plain"}

\* Zones that move their clocks forward and back, near and far from UTC.
Shift(a, b, at) == [before |-> a, after |-> b, at |-> at]
MCZones == "E" :> Shift(1, 2, 18) @@ "W" :> Shift(-2, -1, 18) @@ "A" :> Shift(2, 1, 18) @@ "D" :> Shift(-3, 3, 19)

\* Zones of the north and the south, with half hours, with changes on the first
\* and the last days of months and of the year, and with more or other changes
\* than two rules can say.
At(day, minute) == day * DAY + minute
Twice(base, to, first, second) == [base |-> base, changes |-> <<[at |-> first, to |-> to], [at |-> second, to |-> base]>>]
MCTzZones ==
  "UTC" :> [base |-> 0, changes |-> <<>>] @@ "Kolkata" :> [base |-> 330, changes |-> <<>>]
  @@ "Berlin" :> Twice(60, 120, At(87, 60), At(297, 60)) @@ "New_York" :> Twice(-300, -240, At(66, 420), At(304, 360))
  @@ "Sydney" :> Twice(660, 600, At(93, 960), At(276, 960)) @@ "Lord_Howe" :> Twice(660, 630, At(93, 900), At(276, 930))
  @@ "Chatham" :> Twice(825, 765, At(93, 885), At(268, 885)) @@ "Azores" :> Twice(-60, 0, At(58, 60), At(59, 60))
  @@ "Havana" :> Twice(-300, -240, At(0, 300), At(364, 240)) @@ "Cairo" :> Twice(120, 180, At(113, 1320), At(303, 1260))
  @@ "Weeks" :> Twice(-210, -150, At(23, 0), At(24, 1439)) @@ "Turn" :> Twice(-300, -240, At(0, 60), At(90, 0))
  @@ "Moved" :> [base |-> 60, changes |-> <<[at |-> At(50, 0), to |-> 180], [at |-> At(80, 0), to |-> 240]>>]
  @@ "Casablanca" :> [base |-> 60, changes |-> <<[at |-> At(3, 120), to |-> 0], [at |-> At(38, 120), to |-> 60],
                                                 [at |-> At(358, 120), to |-> 0]>>]
  @@ "../odd" :> [base |-> 60, changes |-> <<>>]
MCTzSafe == DOMAIN MCTzZones \ {"../odd"}
MCTzYears == {[first |-> 4, leap |-> FALSE], [first |-> 6, leap |-> TRUE]}

\* Resources that name their hosts in several places, twice, not at all, or that
\* are excluded; and a list of two.
Resource(kind) ==
  [kind |-> kind, exclude |-> None, hostname |-> None, internalHostname |-> None, rules |-> None, tls |-> None,
   ingress |-> None, hostnames |-> None, endpoints |-> None]
Part(text) == [text |-> text, padded |-> text # "a"]
MCSubjects ==
  {<<[Resource("Ingress") EXCEPT !.rules = <<"b", None, "c">>, !.tls = <<None, <<"c", "a">>>>]>>,
   <<[Resource("Ingress") EXCEPT !.rules = <<"a">>, !.exclude = "true", !.hostname = <<Part("b")>>]>>,
   <<[Resource("Service") EXCEPT !.ingress = <<[hostname |-> None, ip |-> "a"], [hostname |-> "", ip |-> None]>>]>>,
   <<[Resource("HTTPRoute") EXCEPT !.exclude = "false", !.hostnames = <<"a">>, !.hostname = <<Part("b"), Part(""), Part("a")>>]>>,
   <<[Resource("TCPRoute") EXCEPT !.hostnames = <<"c">>, !.internalHostname = <<Part("a")>>]>>,
   <<Resource("Node")>>,
   <<[Resource("DNSEndpoint") EXCEPT !.exclude = "true", !.endpoints = <<"b", "b">>, !.hostname = <<Part("c")>>]>>,
   <<[Resource("DNSEndpoint") EXCEPT !.endpoints = <<"b", "c">>], [Resource("DNSEndpoint") EXCEPT !.endpoints = <<"c", "a">>]>>}
MCTargets == {<<>>, <<"a">>}

\* Objects of equal and of missing values; conditions of each kind.
Object(name, namespace, created, chart) == [name |-> name, namespace |-> namespace, created |-> created, chart |-> chart]
MCTables ==
  {<<>>, <<Object(2, 1, 5, None), Object(1, 1, 5, 3), Object(3, 2, 4, 3)>>,
   <<Object(3, 2, 4, 1), Object(2, 1, None, None), Object(1, 1, 6, None)>>}
MCExtras == <<"chart">>
Condition(status, reason, dated) == [status |-> status, reason |-> reason, dated |-> dated]
MCConditions ==
  {[ready |-> r, stalled |-> s, interval |-> i] :
     r \in {None} \cup {Condition(status, reason, dated) :
             status \in {"True", "False", "Unknown"}, dated \in BOOLEAN,
             reason \in {"RollbackSucceeded", "ArtifactFailed", "DependencyNotReady", "other"}},
     s \in BOOLEAN, i \in {None, <<<<1, "h">>, <<30, "m">>>>, <<<<45, "s">>>>, <<<<500, "ms">>>>}}

\* A name claimed under a prefix beside a stranger's record, then an alias that
\* nobody claims.
Claim(marker, owner) == [marker |-> marker, owner |-> owner]
RR(type, ttl) == [type |-> type, ttl |-> ttl]
MCZone ==
  <<[txt |-> "" :> <<Claim(FALSE, "x")>> @@ "a-" :> <<>> @@ "cname-" :> <<Claim(TRUE, "o")>>,
     A |-> {RR("A", 9)}, AAAA |-> {}],
    [txt |-> "" :> <<>> @@ "a-" :> <<>> @@ "cname-" :> <<>>, A |-> {RR("CNAME", 1)}, AAAA |-> {RR("CNAME", 1)}]>>
MCQuestions == {<<"lookup", "u", {"h", "k"}>>, <<"settings", "u", {"h"}>>, <<"lookup", "i", {"h"}>>}

\* A release of a repository in another namespace and the chart made for it;
\* two releases that depend on each other, one by a chart it names itself; a
\* kustomization and a release of something that is not there.
Git == Ref("GitRepository", "", "g")
MCSpecs ==
  {(<<"GitRepository", "n", "g">> :> Spec0) @@ (<<"HelmRelease", "m", "h">> :> [Spec0 EXCEPT !.sourceRef = [Git EXCEPT !.namespace = "n"]])
     @@ (<<"HelmChart", "n", "m-h">> :> [Spec0 EXCEPT !.sourceRef = Git]),
   (<<"HelmChart", "n", "m-h">> :> [Spec0 EXCEPT !.sourceRef = Git])
     @@ (<<"HelmRelease", "m", "h">> :> [Spec0 EXCEPT !.chartRef = Ref("HelmChart", "n", "m-h"), !.dependsOn = {Ref("HelmRelease", "n", "h")}])
     @@ (<<"HelmRelease", "n", "h">> :> [Spec0 EXCEPT !.sourceRef = Git, !.dependsOn = {Ref("HelmRelease", "m", "h")}]),
   (<<"GitRepository", "n", "g">> :> Spec0) @@ (<<"Kustomization", "n", "k">> :> [Spec0 EXCEPT !.sourceRef = Git])
     @@ (<<"HelmRelease", "m", "h">> :> [Spec0 EXCEPT !.chartRef = Ref("OCIRepository", "", "o")])}
=============================================================================
