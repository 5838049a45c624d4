----------------------------- MODULE NodeLabels -----------------------------
(***************************************************************************)
(* The node label backfill of plugins/openshift-synchronizer/labels.go:    *)
(* syncNode copies a Node's OpenShift labels onto the labels the console   *)
(* reads, falling back to a Prometheus query for the instance type, and    *)
(* leaves a label alone that another field manager owns.  One Node: the    *)
(* queue hands a name to one worker at a time, and nodes share nothing.    *)
(* The worker reads a lister that lags behind, waits for Prometheus and    *)
(* patches without a resourceVersion.                                      *)
(***************************************************************************)
EXTENDS Integers, Sequences, FiniteSets

CONSTANTS Values,       \* label values
          None,         \* an absent label, Go's ""
          Absent,       \* the Node does not exist
          Registered,   \* target labels a kubelet may register its Node with
          Prometheus,   \* whether --prometheus-url is set
          MaxChanges,   \* bound: changes to the Node or to the series
          MaxFailures   \* bound: failing API and Prometheus calls

ASSUME LabelsAssumption ==
  /\ None \notin Values /\ Prometheus \in BOOLEAN
  /\ Registered \subseteq [{"instance", "zone"} -> Values \cup {None}]
  /\ {MaxChanges, MaxFailures} \subseteq Nat

VARIABLES
  node,      \* the API server's Node
  series,    \* DMI values Prometheus has for the Node
  stream,    \* Node events the informer has not processed yet
  cache,     \* what nodeLister returns
  queued,    \* the name is in nodeWorkqueue
  delayed,   \* the name waits out its back-off
  pc,        \* what the worker does next
  copy,      \* the Node the worker read
  apply,     \* toApply
  changes, failures  \* what the bounds still allow

queueVars  == <<queued, delayed>>
workerVars == <<pc, copy, apply>>
vars == <<node, series, stream, cache, queueVars, workerVars, changes, failures>>

\* instanceTypeTargetLabel and zoneTargetLabel, each with its source label.
Targets == {"instance", "zone"}
Labels == [Targets -> Values \cup {None}]
Nodes == {n \in [src : Labels, val : Labels, owners : [Targets -> SUBSET {"self", "other"}]] :
            \A t \in Targets : n.val[t] = None <=> n.owners[t] = {}}

\* Label patches: values for some of the labels.
Patches == UNION {[S -> Values] : S \in SUBSET Targets}

Nothing == [t \in {} |-> None]

TypeOK ==
  /\ node \in Nodes \cup {Absent} /\ cache \in Nodes \cup {Absent}
  /\ copy \in Nodes \cup {Absent}
  /\ series \subseteq Values
  /\ \A i \in DOMAIN stream : stream[i] \in Nodes \cup {Absent}
  /\ queued \in BOOLEAN /\ delayed \in BOOLEAN
  /\ pc \in {"idle", "list", "query", "patch"}
  /\ pc \in {"query", "patch"} <=> copy # Absent
  /\ apply \in Patches
  /\ changes \in Nat /\ failures \in Nat

Init ==
  /\ node = Absent /\ cache = Absent /\ stream = <<>>
  /\ series = {}
  /\ queued = FALSE /\ delayed = FALSE
  /\ pc = "idle" /\ copy = Absent /\ apply = Nothing
  /\ changes = MaxChanges /\ failures = MaxFailures

-----------------------------------------------------------------------------
(* The API server and the other field managers.                             *)

\* The API server stores n and the watch carries it, if anything changed.
Store(n) ==
  /\ node' = n
  /\ stream' = IF n = node THEN stream ELSE Append(stream, n)

Change == changes > 0 /\ changes' = changes - 1

\* A Node registers with labels of its own, which its kubelet then owns.
NodeAppears ==
  /\ node = Absent /\ Change
  /\ \E s \in Labels, v \in Registered :
       Store([src |-> s, val |-> v,
              owners |-> [t \in Targets |-> IF v[t] = None THEN {} ELSE {"other"}]])
  /\ UNCHANGED <<series, cache, queueVars, workerVars, failures>>

NodeDeleted ==
  /\ node # Absent /\ Change /\ Store(Absent)
  /\ UNCHANGED <<series, cache, queueVars, workerVars, failures>>

SourceChanges(t, v) ==
  /\ node # Absent /\ node.src[t] # v
  /\ Change /\ Store([node EXCEPT !.src[t] = v])
  /\ UNCHANGED <<series, cache, queueVars, workerVars, failures>>

\* Another manager sets the label, or removes it: a writer that changes the
\* value takes the field over, one that applies the same value shares it.
OtherSets(t, v) ==
  /\ node # Absent /\ Change
  /\ Store([node EXCEPT !.val[t] = v,
                        !.owners[t] = IF v = None THEN {}
                                      ELSE IF v = node.val[t] THEN @ \cup {"other"}
                                      ELSE {"other"}])
  /\ UNCHANGED <<series, cache, queueVars, workerVars, failures>>

\* No event tells of a change in Prometheus.
SeriesChange ==
  /\ Prometheus /\ Change
  /\ \E s \in SUBSET Values : s # series /\ series' = s
  /\ UNCHANGED <<node, stream, cache, queueVars, workerVars, failures>>

-----------------------------------------------------------------------------
(* The informer and nodeWorkqueue (client-go).                              *)

InformerDelivers ==
  /\ stream # <<>>
  /\ cache' = Head(stream) /\ stream' = Tail(stream)
  /\ queued' = TRUE
  /\ UNCHANGED <<node, series, delayed, workerVars, changes, failures>>

Resync ==
  /\ cache # Absent /\ queued' = TRUE
  /\ UNCHANGED <<node, series, stream, cache, delayed, workerVars, changes, failures>>

BackoffEnds ==
  /\ delayed /\ delayed' = FALSE /\ queued' = TRUE
  /\ UNCHANGED <<node, series, stream, cache, workerVars, changes, failures>>

Get ==
  /\ pc = "idle" /\ queued
  /\ queued' = FALSE /\ pc' = "list"
  /\ UNCHANGED <<node, series, stream, cache, delayed, copy, apply, changes, failures>>

\* The item is done with; the worker's locals are gone.
Done == pc' = "idle" /\ copy' = Absent /\ apply' = Nothing

Succeeds == Done /\ UNCHANGED queueVars

\* An error: AddRateLimited, then Done.
Fails == Done /\ delayed' = TRUE /\ UNCHANGED queued

-----------------------------------------------------------------------------
(* syncNode.                                                                *)

\* isLabelManagedByOthers
ManagedByOthers(n, t) == "other" \in n.owners[t]

\* What a label should be, given the desired instance type.
Wanted(n, t, type) == IF t = "zone" THEN n.src["zone"] ELSE type

\* The labels to patch.
ToApply(n, type) ==
  [t \in {u \in Targets : /\ ~ManagedByOthers(n, u)
                          /\ Wanted(n, u, type) \notin {None, n.val[u]}} |-> Wanted(n, t, type)]

\* What follows once the desired instance type of the copy n is known.
Decide(n, type) ==
  /\ IF ToApply(n, type) = Nothing
       THEN Succeeds
       ELSE /\ pc' = "patch" /\ copy' = n /\ apply' = ToApply(n, type)
            /\ UNCHANGED queueVars

\* desiredInstanceType has to ask Prometheus.
Asks(n) ==
  ~ManagedByOthers(n, "instance") /\ n.src["instance"] = None /\ Prometheus

\* nodeLister.Get and what needs no answer from outside.
ReadLister ==
  /\ pc = "list"
  /\ \/ cache = Absent /\ Succeeds
     \/ /\ cache # Absent /\ Asks(cache)
        /\ pc' = "query" /\ copy' = cache /\ UNCHANGED <<apply, queueVars>>
     \/ /\ cache # Absent /\ ~Asks(cache)
        /\ Decide(cache, cache.src["instance"])
  /\ UNCHANGED <<node, series, stream, cache, changes, failures>>

\* Mutant of FromPrometheus: the first of several series is taken.
FromPrometheusFirst(s) == IF s = {} THEN {None} ELSE s

\* instanceTypeFromPrometheus: no value unless exactly one series matches.
FromPrometheus(s) == IF Cardinality(s) = 1 THEN s ELSE {None}

\* The query answers with what Prometheus has now.
QueryAnswers ==
  /\ pc = "query"
  /\ \E v \in FromPrometheus(series) : Decide(copy, v)
  /\ UNCHANGED <<node, series, stream, cache, changes, failures>>

\* A failing or late query is logged and counts as no value.
QueryFails ==
  /\ pc = "query" /\ failures > 0 /\ failures' = failures - 1
  /\ Decide(copy, None)
  /\ UNCHANGED <<node, series, stream, cache, changes>>

\* Mutant of Patched: a server-side apply, which also drops what this manager
\* alone owns and does not name.
PatchedBySSA(n, a) ==
  LET dropped == {t \in Targets : t \notin DOMAIN a /\ n.owners[t] = {"self"}}
      value(t) == IF t \in dropped THEN None ELSE IF t \in DOMAIN a THEN a[t] ELSE n.val[t]
  IN  [n EXCEPT !.val = [t \in Targets |-> value(t)],
                !.owners = [t \in Targets |->
                              IF t \in dropped THEN {}
                              ELSE IF value(t) = n.val[t] THEN n.owners[t] ELSE {"self"}]]

\* The JSON merge patch: exactly the named labels change, and this manager
\* takes over those whose value changes.
Patched(n, a) ==
  LET value(t) == IF t \in DOMAIN a THEN a[t] ELSE n.val[t]
  IN  [n EXCEPT !.val = [t \in Targets |-> value(t)],
                !.owners = [t \in Targets |->
                              IF value(t) = n.val[t] THEN n.owners[t] ELSE {"self"}]]

\* applyNodeLabels, on whatever Node has the name now.
Patch ==
  /\ pc = "patch" /\ node # Absent
  /\ Store(Patched(node, apply))
  /\ Succeeds
  /\ UNCHANGED <<series, cache, changes, failures>>

\* The Node is gone.
PatchNotFound ==
  /\ pc = "patch" /\ node = Absent /\ Fails
  /\ UNCHANGED <<node, series, stream, cache, changes, failures>>

\* The call fails, or takes effect and its answer is lost.
PatchFails ==
  /\ pc = "patch" /\ failures > 0 /\ failures' = failures - 1
  /\ Fails
  /\ \/ UNCHANGED <<node, stream>>
     \/ node # Absent /\ Store(Patched(node, apply))
  /\ UNCHANGED <<series, cache, changes>>

-----------------------------------------------------------------------------
Syncs == ReadLister \/ QueryAnswers \/ Patch \/ PatchNotFound

Next ==
  \/ NodeAppears \/ NodeDeleted \/ SeriesChange
  \/ \E t \in Targets, v \in Values \cup {None} : SourceChanges(t, v) \/ OtherSets(t, v)
  \/ InformerDelivers \/ Resync \/ BackoffEnds \/ Get
  \/ Syncs \/ QueryFails \/ PatchFails

Spec == Init /\ [][Next]_vars

\* The watch delivers, the timers fire, the queue and the worker go on.
Fairness ==
  /\ WF_vars(InformerDelivers) /\ WF_vars(Resync) /\ WF_vars(BackoffEnds)
  /\ WF_vars(Get) /\ WF_vars(Syncs)

FairSpec == Spec /\ Fairness

-----------------------------------------------------------------------------
(* Properties.                                                              *)

\* The value syncNode works towards, None when it has no opinion.
Desired(n, t) ==
  IF t = "zone" \/ n.src["instance"] # None \/ ~Prometheus THEN n.src[t]
  ELSE IF Cardinality(series) = 1 THEN CHOOSE v \in series : TRUE ELSE None

\* "copies the OpenShift-native label's value onto its counterpart, whenever
\* the value differs" (README): when the cluster stops changing, every label
\* no other manager owns carries the desired value for good, whatever lister
\* lag, failing calls, deleted Nodes and silent Prometheus changes came first
\* (labels.go:46-74).
EventuallyBackfilled ==
  \A t \in Targets :
    <>[](node # Absent =>
           \/ ManagedByOthers(node, t) \/ Desired(node, t) = None
           \/ node.val[t] = Desired(node, t))

\* The controller comes to rest although the resync never stops: the two
\* labels do not "overwrite each other" (labels.go:144) and an ambiguous
\* answer does not "flap the computed value between reconciles"
\* (labels.go:228-232).
Settles == <>[][UNCHANGED node]_node

\* The controller gets the labels right and then leaves the Node alone.
ComesToRest == EventuallyBackfilled /\ Settles
=============================================================================
