------------------------------ MODULE Lookups -------------------------------
(***************************************************************************)
(* Live checks behind a page: plugins/external-dns/src/hooks ask the       *)
(* backend about every hostname of a resource, a few at a time             *)
(* (mapWithConcurrency), and plugins/cert-manager/src/hooks/useCertInfo.ts *)
(* about one resource.  What is shown changes while answers are on their   *)
(* way; an effect that is cleaned up ignores its answers but does not stop *)
(* its requests.                                                           *)
(***************************************************************************)
EXTENDS Integers, Sequences, SequencesExt, FiniteSets, Absent, Hostnames, Idn

CONSTANTS Subjects,     \* the resources a page may show, one in a tab or several in a list
          Targets,      \* what the Certificate tab may ask about: nothing yet, or one resource
          Limit,        \* MAX_CONCURRENT_REQUESTS
          MaxBatches    \* bound: times the list changes

ASSUME LookupAssumption == {Limit, MaxBatches} \subseteq Nat \ {0}

VARIABLES
  page,     \* which hook the page uses: "hosts", "target", or "none" before it is shown
  subject,  \* the resources shown
  names,    \* the hostnames shown; for a target, none or one
  batches,  \* one record per run of the effect
  results,  \* what was found out, by hostname: the batch the answer is from
  loading

lookupVars == <<page, subject, names, batches, results, loading>>

Nothing == [h \in {} |-> 0]

\* mapWithConcurrency: which items have been handed to workers, which answers
\* have come back, and whether all workers have ended.
Batch(hosts, limit) ==
  [hosts |-> hosts, next |-> 1 + (IF limit < Len(hosts) THEN limit ELSE Len(hosts)),
   asking |-> 1..(IF limit < Len(hosts) THEN limit ELSE Len(hosts)),
   found |-> {}, settled |-> FALSE, cancelled |-> FALSE]

\* Mutant of worker: an item that fails ends its worker.
workerGivesUp(b, i, ok) ==
  [b EXCEPT !.asking = (@ \ {i}) \cup (IF ok /\ b.next <= Len(b.hosts) THEN {b.next} ELSE {}),
            !.next = IF ok THEN @ + 1 ELSE @,
            !.found = IF ok THEN @ \cup {i} ELSE @]

\* The answer for item i comes back, and its worker takes the next item.
worker(b, i, ok) ==
  [b EXCEPT !.asking = (@ \ {i}) \cup (IF b.next <= Len(b.hosts) THEN {b.next} ELSE {}),
            !.next = @ + 1,
            !.found = IF ok THEN @ \cup {i} ELSE @]

LookupInit ==
  /\ page = "none" /\ subject = <<>> /\ names = <<>> /\ batches = <<>>
  /\ results = Nothing /\ loading = FALSE

\* Mutant of Cleanup: the answers of the list shown before still count.
CleanupNot(bs) == bs

\* The effect's cleanup
Cleanup(bs) ==
  [k \in DOMAIN bs |-> IF k = Len(bs) THEN [bs[k] EXCEPT !.cancelled = TRUE] ELSE bs[k]]

Ask(limit, list) ==
  /\ names' = list
  /\ IF list = <<>>
       THEN /\ batches' = Cleanup(batches) /\ results' = Nothing
            /\ UNCHANGED loading
       ELSE /\ Len(batches) < MaxBatches
            /\ batches' = Append(Cleanup(batches), Batch(list, limit))
            /\ loading' = TRUE
            /\ UNCHANGED results

\* The effects of useDNSSettings and useHostnameStatuses run when the list
\* changes.
ShowHosts(objs) ==
  LET list == IF Len(objs) = 1 THEN hostnamesFor(objs[1]) ELSE hostnamesOfRows(objs)
  IN  /\ page \in {"none", "hosts"} /\ objs # subject
      /\ page' = "hosts" /\ subject' = objs
      /\ IF list = names THEN UNCHANGED <<names, batches, results, loading>> ELSE Ask(Limit, list)

\* The effect of useCertInfo, which asks about one resource, if any
ShowTarget(list) ==
  /\ page \in {"none", "target"} /\ list # names /\ Len(list) <= 1
  /\ page' = "target"
  /\ Ask(1, list)
  /\ UNCHANGED subject

Answer(k, i, ok) ==
  /\ i \in batches[k].asking
  /\ batches' = [batches EXCEPT ![k] = worker(@, i, ok)]
  /\ UNCHANGED <<page, subject, names, results, loading>>

\* All workers have ended: byHostname replaces what was known.
SettleBatch(k) ==
  LET b == batches[k]
  IN  /\ b.asking = {} /\ ~b.settled
      /\ batches' = [batches EXCEPT ![k].settled = TRUE]
      /\ IF b.cancelled THEN UNCHANGED <<results, loading>>
         ELSE /\ results' = [h \in {b.hosts[i] : i \in b.found} |-> k]
              /\ loading' = FALSE
      /\ UNCHANGED <<page, subject, names>>

LookupNext ==
  \/ \E objs \in Subjects : ShowHosts(objs)
  \/ \E list \in Targets : ShowTarget(list)
  \/ \E k \in DOMAIN batches : \E i \in batches[k].asking, ok \in BOOLEAN : Answer(k, i, ok)
  \/ \E k \in DOMAIN batches : SettleBatch(k)

-----------------------------------------------------------------------------
(* What a row shows: DNSSettingsTabBody, the live column of DNSEndpointList *)
(* and CertificateSummary.                                                  *)

row(host) ==
  CASE host \in DOMAIN results -> "answer"
    [] host \notin DOMAIN results /\ loading -> "spinner"
    [] OTHER -> "nothing"

Current == batches[Len(batches)]

\* Every row is honest: a spinner means that this host's answer is still to
\* come, nothing means that it was asked for and failed, and an answer is the
\* host's own and, once loading has ended, one given for the list shown
\* (useDNSSettings.ts:28-45, useCertInfo.ts:25-43).  A page that shows no host
\* any more may keep its loading flag, but has no row to show it in.
RowsHonest ==
  names # <<>> =>
    /\ Current.hosts = names /\ ~Current.cancelled
    /\ loading <=> ~Current.settled
    /\ \A i \in DOMAIN names :
         CASE row(names[i]) = "spinner" -> ~Current.settled
           [] row(names[i]) = "nothing" -> Current.settled /\ i \notin Current.found
           [] OTHER -> /\ names[i] \in Range(batches[results[names[i]]].hosts)
                       /\ loading \/ results[names[i]] = Len(batches)

\* Every host of a batch is asked about exactly once and a failing one stops
\* none of the others, with at most the limit under way (dnsLookup.ts:60-64).
EachAsked ==
  \A k \in DOMAIN batches :
    LET b == batches[k]
    IN  /\ Cardinality(b.asking) <= Limit
        /\ b.asking \cap b.found = {}
        /\ b.asking = {} => b.next > Len(b.hosts)

\* "never more than this many dns-settings requests are in flight at once"
\* (useDNSSettings.ts:6-8), over all runs of the effect.
NeverMore == FoldLeft(LAMBDA n, b : n + Cardinality(b.asking), 0, batches) <= Limit

\* The hostnames looked up are those the resources shown declare, in whatever
\* places, each once; a resource that external-dns is told to leave alone has
\* none (hostnames.ts:35-40, 56-58).
HostsDeclared ==
  page = "hosts" => /\ Range(names) = UNION {Declared(obj) : obj \in Range(subject)}
                    /\ IsInjective(names)

\* The right names are looked up and shown, a row shows its own answer, and in
\* the end each has been asked for.
LookupsHonest == RowsHonest /\ EachAsked /\ HostsDeclared /\ NamesShown
=============================================================================
