----------------------------- MODULE Hostnames ------------------------------
(***************************************************************************)
(* plugins/external-dns/src/utils/hostnames.ts: the hostnames a resource   *)
(* is meant to be reachable on, from its spec or status and from           *)
(* annotations.  A field that is missing is None.                          *)
(***************************************************************************)
EXTENDS Integers, Sequences, SequencesExt, Absent

OrNone(list) == IF list = None THEN <<>> ELSE list

uniq(hosts) ==
  FoldLeft(LAMBDA out, h : IF h \in {None, ""} \/ h \in Range(out) THEN out ELSE Append(out, h), <<>>, hosts)

\* An annotation is the sequence of its parts between commas; a part is its
\* text and whether there are spaces around it.
splitAnnotationHostnames(parts) ==
  SelectSeq([k \in DOMAIN parts |-> parts[k].text], LAMBDA h : h # "")

\* Mutant of annotationHostnames: an object that is excluded keeps its own hostnames.
annotationHostnamesOnly(obj) ==
  [hosts |-> IF obj.exclude = "true" THEN <<>>
             ELSE splitAnnotationHostnames(OrNone(obj.hostname))
                    \o splitAnnotationHostnames(OrNone(obj.internalHostname)),
   excluded |-> FALSE]

annotationHostnames(obj) ==
  IF obj.exclude = "true" THEN [hosts |-> <<>>, excluded |-> TRUE]
  ELSE [hosts |-> splitAnnotationHostnames(OrNone(obj.hostname))
                    \o splitAnnotationHostnames(OrNone(obj.internalHostname)),
        excluded |-> FALSE]

withAnnotations(structural, obj) ==
  LET a == annotationHostnames(obj) IN IF a.excluded THEN <<>> ELSE uniq(structural \o a.hosts)

hostnamesForIngress(obj) ==
  withAnnotations(OrNone(obj.rules) \o FlattenSeq([k \in DOMAIN OrNone(obj.tls) |-> OrNone(obj.tls[k])]), obj)

\* A load balancer gives a hostname or an address.
hostnamesForService(obj) ==
  withAnnotations([k \in DOMAIN OrNone(obj.ingress) |->
                     IF obj.ingress[k].hostname \in {None, ""} THEN obj.ingress[k].ip ELSE obj.ingress[k].hostname], obj)

hostnamesForRoute(obj) == withAnnotations(OrNone(obj.hostnames), obj)

hostnamesForTCPOrUDPRoute(obj) == withAnnotations(<<>>, obj)

hostnamesForNode(obj) == withAnnotations(<<>>, obj)

\* Annotations of a DNSEndpoint say nothing.
hostnamesForDNSEndpoint(obj) == uniq(OrNone(obj.endpoints))

\* The tab of each kind
hostnamesFor(obj) ==
  CASE obj.kind = "Ingress" -> hostnamesForIngress(obj)
    [] obj.kind = "Service" -> hostnamesForService(obj)
    [] obj.kind \in {"HTTPRoute", "TLSRoute", "GRPCRoute"} -> hostnamesForRoute(obj)
    [] obj.kind \in {"TCPRoute", "UDPRoute"} -> hostnamesForTCPOrUDPRoute(obj)
    [] obj.kind = "Node" -> hostnamesForNode(obj)
    [] obj.kind = "DNSEndpoint" -> hostnamesForDNSEndpoint(obj)

\* useDNSEndpointColumns: the hostnames of all rows of the list
hostnamesOfRows(objs) == uniq(FlattenSeq([k \in DOMAIN objs |-> hostnamesForDNSEndpoint(objs[k])]))

-----------------------------------------------------------------------------
\* All the places in which a resource may name a host.
Declared(obj) ==
  LET annotated == {p.text : p \in Range(OrNone(obj.hostname)) \cup Range(OrNone(obj.internalHostname))}
      own == CASE obj.kind = "Ingress" -> Range(OrNone(obj.rules)) \cup UNION {Range(OrNone(l)) : l \in Range(OrNone(obj.tls))}
               [] obj.kind = "Service" -> UNION {{i.hostname} \cup (IF i.hostname \in {None, ""} THEN {i.ip} ELSE {}) : i \in Range(OrNone(obj.ingress))}
               [] obj.kind \in {"HTTPRoute", "TLSRoute", "GRPCRoute"} -> Range(OrNone(obj.hostnames))
               [] obj.kind = "DNSEndpoint" -> Range(OrNone(obj.endpoints))
               [] OTHER -> {}
  IN  (CASE obj.kind = "DNSEndpoint" -> own
         [] obj.kind # "DNSEndpoint" /\ obj.exclude = "true" -> {}
         [] OTHER -> own \cup annotated) \ {None, ""}
=============================================================================
