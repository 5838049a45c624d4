--------------------------- MODULE FluxReconcile ----------------------------
(***************************************************************************)
(* plugins/flux: what refers to what among Flux objects, as the Consumers  *)
(* and Dependencies tabs show it (utils/consumers.ts, components/tabs),    *)
(* and the actions on an object (useResourceActions.ts), which patch it or *)
(* have the backend (api/reconcile.go) annotate it and its source.  The    *)
(* rows are a watch that may lag; requests run side by side, time out and  *)
(* fail half way.                                                          *)
(***************************************************************************)
EXTENDS Integers, Sequences, FiniteSets, TLC, Absent, ResourceList

CONSTANTS Specs,        \* the specs each object may have, by id <<kind, namespace, name>>
          MaxRequests,  \* bound: requests
          MaxEdits      \* bound: edits of objects by others

\* Objects have a name, and a release a chart or a reference to one.
ASSUME FluxAssumption ==
  /\ {MaxRequests, MaxEdits} \subseteq Nat /\ None # "ok"
  /\ \A specs \in Specs : \A id \in DOMAIN specs :
       /\ id # None /\ id[3] # ""
       /\ id[1] = "HelmRelease" => specs[id].chartRef # None \/ specs[id].sourceRef # None

VARIABLES
  objects,   \* what exists: spec, suspend, and the annotations requested, forced and reset
  rows,      \* what the page's watch has seen of them
  requests,  \* the reconcile requests and suspend patches so far
  edits      \* number of edits so far

fluxVars == <<objects, rows, requests, edits>>

Ref(kind, namespace, name) == [kind |-> kind, namespace |-> namespace, name |-> name]
Id(ref) == <<ref.kind, ref.namespace, ref.name>>

\* A spec: sourceRef (of a Kustomization, a HelmChart, or a release's chart
\* template), chartRef and dependsOn.  An empty namespace is the object's own.
Spec0 == [sourceRef |-> None, chartRef |-> None, dependsOn |-> {}]
In(ref, namespace) == IF ref.namespace = "" THEN namespace ELSE ref.namespace

\* "<release-namespace>-<release-name>"
ChartName(id) == id[2] \o "-" \o id[3]

-----------------------------------------------------------------------------
(* The tabs.                                                                *)

matchesReference(ref, namespace, target) ==
  /\ ref # None /\ ref.kind # "" /\ ref.name # ""
  /\ <<ref.kind, In(ref, namespace), ref.name>> = target

\* Mutant of impliedHelmChartRef: the chart is looked for next to the release.
impliedHelmChartRefHere(id, spec) ==
  IF spec.chartRef # None \/ spec.sourceRef = None THEN None
  ELSE <<"HelmChart", id[2], ChartName(id)>>

impliedHelmChartRef(id, spec) ==
  IF spec.chartRef # None \/ spec.sourceRef = None THEN None
  ELSE <<"HelmChart", In(spec.sourceRef, id[2]), ChartName(id)>>

helmReleaseReferencesSource(id, spec, target) ==
  \/ matchesReference(spec.sourceRef, id[2], target)
  \/ matchesReference(spec.chartRef, id[2], target)

helmReleaseReferencesHelmChart(id, spec, target) ==
  LET implied == impliedHelmChartRef(id, spec)
  IN  IF implied # None THEN implied = target
      ELSE matchesReference(spec.chartRef, id[2], target)

Shown(kind) == {id \in DOMAIN rows : id[1] = kind}

\* GitRepositoryConsumersTab
gitRepositoryConsumers(target) ==
  {id \in Shown("Kustomization") : matchesReference(rows[id].spec.sourceRef, id[2], target)}
    \cup {id \in Shown("HelmRelease") : helmReleaseReferencesSource(id, rows[id].spec, target)}

\* HelmChartConsumersTab
helmChartConsumers(target) ==
  {id \in Shown("HelmRelease") : helmReleaseReferencesHelmChart(id, rows[id].spec, target)}

\* HelmReleaseDependenciesTab: both directions of dependsOn.  An entry that
\* names no object seen is shown all the same.
dependencies(id) ==
  {<<"HelmRelease", In(ref, id[2]), ref.name>> : ref \in {r \in rows[id].spec.dependsOn : r.name # ""}}
dependents(target) ==
  {id \in Shown("HelmRelease") :
     \E ref \in rows[id].spec.dependsOn : <<"HelmRelease", In(ref, id[2]), ref.name>> = target}

-----------------------------------------------------------------------------
(* The actions of a row.                                                    *)

Reconcilable == {"Kustomization", "HelmRelease", "HelmChart", "GitRepository", "OCIRepository"}
WithSource == {"Kustomization", "HelmRelease", "HelmChart"}

useResourceActions(id) ==
  (IF id[1] \in Reconcilable THEN {"reconcile", IF rows[id].suspend THEN "resume" ELSE "suspend"} ELSE {})
    \cup (IF id[1] \in WithSource THEN {"reconcile-with-source"} ELSE {})
    \cup (IF id[1] = "HelmRelease" THEN {"reconcile-force", "reconcile-reset"} ELSE {})

Request(id, action) ==
  [id |-> id, action |-> action, at |-> IF action = "reconcile-with-source" THEN "resolve" ELSE "patch",
   source |-> None, answer |-> None, noted |-> FALSE]

\* resolveSource, from the object as it is now
resolveSource(id) ==
  LET spec == objects[id].spec
      given(ref) == IF ref = None \/ ref.kind = "" \/ ref.name = "" THEN None
                    ELSE <<ref.kind, In(ref, id[2]), ref.name>>
  IN  IF id[1] # "HelmRelease" THEN given(spec.sourceRef)
      ELSE IF spec.chartRef # None THEN given(spec.chartRef)
      ELSE <<"HelmChart", IF spec.sourceRef = None THEN id[2] ELSE In(spec.sourceRef, id[2]), ChartName(id)>>

\* Object id with the annotations of request r.
Annotated(id, r) ==
  [objects EXCEPT ![id].requested = r,
                  ![id].forced = IF requests[r].action = "reconcile-force" THEN r ELSE @,
                  ![id].reset = IF requests[r].action = "reconcile-reset" THEN r ELSE @]

NewObject(spec) == [spec |-> spec, suspend |-> FALSE, requested |-> 0, forced |-> 0, reset |-> 0]

FluxInit ==
  /\ \E specs \in Specs : objects = [id \in DOMAIN specs |-> NewObject(specs[id])]
  /\ rows = objects /\ requests = <<>> /\ edits = 0

\* The reader picks an action of a row.
Pick(id, action) ==
  /\ id \in DOMAIN rows /\ Len(requests) < MaxRequests
  /\ action \in useResourceActions(id)
  /\ requests' = Append(requests, Request(id, action))
  /\ UNCHANGED <<objects, rows, edits>>

Answered(r, answer) == [requests EXCEPT ![r].at = "done", ![r].answer = answer]

\* The backend fetches the object to find its source; there may be no object,
\* no source, or one of a kind that cannot be reconciled.
Resolve(r) ==
  LET id == requests[r].id
      source == IF id \in DOMAIN objects THEN resolveSource(id) ELSE None
  IN  /\ requests[r].at = "resolve"
      /\ requests' = IF id \notin DOMAIN objects \/ (source # None /\ source[1] \notin Reconcilable)
                       THEN Answered(r, "error")
                       ELSE [requests EXCEPT ![r].source = source,
                                             ![r].at = IF source = None THEN "patch" ELSE "source"]
      /\ UNCHANGED <<objects, rows, edits>>

\* Mutant of PatchSource: an error is not the end.
PatchSourceGoesOn(r) ==
  /\ requests[r].at = "source"
  /\ objects' = IF requests[r].source \in DOMAIN objects
                  THEN [objects EXCEPT ![requests[r].source].requested = r] ELSE objects
  /\ requests' = [requests EXCEPT ![r].at = "patch", ![r].noted = requests[r].source \in DOMAIN objects]
  /\ UNCHANGED <<rows, edits>>

\* The source is annotated; if it is not there, that is the answer.
PatchSource(r) ==
  LET source == requests[r].source
      found == source \in DOMAIN objects
  IN  /\ requests[r].at = "source"
      /\ objects' = IF found THEN [objects EXCEPT ![source].requested = r] ELSE objects
      /\ requests' = IF found THEN [requests EXCEPT ![r].at = "patch", ![r].noted = TRUE]
                     ELSE Answered(r, "error")
      /\ UNCHANGED <<rows, edits>>

\* The object is annotated, or its suspend field is set by the console itself;
\* the answer may be lost.
PatchObject(r, lost) ==
  LET q == requests[r]
  IN  /\ q.at = "patch"
      /\ objects' = CASE q.id \notin DOMAIN objects -> objects
                      [] q.id \in DOMAIN objects /\ q.action \in {"suspend", "resume"} ->
                           [objects EXCEPT ![q.id].suspend = (q.action = "suspend")]
                      [] OTHER -> Annotated(q.id, r)
      /\ requests' = Answered(r, IF q.id \in DOMAIN objects /\ ~lost THEN "ok" ELSE "error")
      /\ UNCHANGED <<rows, edits>>

\* The request times out or is refused; what it did already stays.
Fail(r) ==
  /\ requests[r].at # "done"
  /\ requests' = Answered(r, "error")
  /\ UNCHANGED <<objects, rows, edits>>

\* Others change or delete an object, and the watch catches up.
Edit(id, spec) ==
  /\ edits < MaxEdits /\ edits' = edits + 1
  /\ objects' = [objects EXCEPT ![id].spec = spec]
  /\ UNCHANGED <<rows, requests>>

DeleteObject(id) ==
  /\ edits < MaxEdits /\ edits' = edits + 1
  /\ objects' = [o \in DOMAIN objects \ {id} |-> objects[o]]
  /\ UNCHANGED <<rows, requests>>

Watched ==
  /\ rows # objects /\ rows' = objects
  /\ UNCHANGED <<objects, requests, edits>>

FluxNext ==
  \/ \E id \in DOMAIN rows : \E action \in useResourceActions(id) : Pick(id, action)
  \/ \E r \in DOMAIN requests : Resolve(r) \/ PatchSource(r) \/ Fail(r)
  \/ \E r \in DOMAIN requests, lost \in BOOLEAN : PatchObject(r, lost)
  \/ \E specs \in Specs : \E id \in DOMAIN specs \cap DOMAIN objects : Edit(id, specs[id])
  \/ \E id \in DOMAIN objects : DeleteObject(id)
  \/ Watched

FluxSpec == FluxInit /\ [][FluxNext]_fluxVars

-----------------------------------------------------------------------------
(* Properties.                                                              *)

\* What the Consumers tab of a chart or a repository lists is what a reconcile
\* with source would annotate: the two resolve references alike
\* (consumers.ts:19-25).  And dependencies and dependents are two views of one
\* relation.
ConsumersAgree ==
  rows = objects =>
    /\ \A chart \in Shown("HelmChart") :
         helmChartConsumers(chart) = {id \in Shown("HelmRelease") : resolveSource(id) = chart}
    /\ \A git \in Shown("GitRepository") :
         {id \in Shown("Kustomization") : resolveSource(id) = git}
           = gitRepositoryConsumers(git) \cap Shown("Kustomization")
    /\ \A x, y \in Shown("HelmRelease") : y \in dependencies(x) <=> x \in dependents(y)

\* However requests, edits and deletions interleave, an object is never
\* annotated on behalf of a reconcile with source whose source was not
\* annotated before it, and success is never answered for one
\* (reconcile.go:143-183).
SourceFirst ==
  \A r \in DOMAIN requests :
    LET q == requests[r]
        done == q.answer = "ok" \/ (q.id \in DOMAIN objects /\ objects[q.id].requested = r)
    IN  done /\ q.action = "reconcile-with-source" /\ q.source \notin {None, q.id} => q.noted

\* References mean the same everywhere, what they lead to comes first, and lists
\* show what they say.
FluxAgrees == ConsumersAgree /\ SourceFirst /\ RowsSorted /\ ReadyMeant
=============================================================================
