---------------------------- MODULE ResourceList ----------------------------
(***************************************************************************)
(* The lists of plugins/flux (components/list/GenericResourceList.tsx,     *)
(* utils/readyStatus.ts): watched objects, filtered, sorted by a column    *)
(* the reader picks, and an icon that says how an object is doing, which   *)
(* changes with time alone.  Objects, filter, namespace and sorting change *)
(* in any order.                                                           *)
(***************************************************************************)
EXTENDS Integers, Sequences, SequencesExt, FiniteSets, FiniteSetsExt, Absent

CONSTANTS Tables,     \* what the watch may bring: sequences of rows
          Extras,     \* the columns of the kind shown
          Conditions, \* the conditions and intervals an object may have
          MaxClicked  \* bound: clicks of the reader

ASSUME ListAssumption == MaxClicked \in Nat

VARIABLES
  table,    \* what the watch has brought, or None before
  keep,     \* the names the filter lets through
  inAll,    \* the list is of all namespaces
  sortBy,   \* activeSortIndex and activeSortDirection
  picked,   \* history: the column the reader picked, None if columns have moved since
  clicked,  \* number of clicks
  ready     \* an object's conditions, and how long ago the last changed

listVars == <<table, keep, inAll, sortBy, picked, clicked, ready>>

\* A row has a name, a namespace, a creation time and a value for each column of
\* its kind. Texts and times are numbers in their order; None is undefined.
columns(all) == <<"name">> \o (IF all THEN <<"namespace">> ELSE <<>>) \o Extras \o <<"created">>

filtered(rows, names) == SelectSeq(rows, LAMBDA r : r["name"] \in names)

\* Mutant of Compare: what has no value comes first when the order is reversed.
CompareReversed(column, direction, a, b) ==
  LET factor == IF direction = "asc" THEN 1 ELSE -1
  IN  CASE a[column] = None /\ b[column] = None -> 0
        [] a[column] = None /\ b[column] # None -> factor
        [] a[column] # None /\ b[column] = None -> -factor
        [] OTHER -> (a[column] - b[column]) * factor

\* The comparison of the sort; what has no value comes last in either direction.
Compare(column, direction, a, b) ==
  CASE a[column] = None /\ b[column] = None -> 0
    [] a[column] = None /\ b[column] # None -> 1
    [] a[column] # None /\ b[column] = None -> -1
    [] OTHER -> (a[column] - b[column]) * (IF direction = "asc" THEN 1 ELSE -1)

\* Array.prototype.sort, which is stable.
Sort(rows, column, direction) ==
  FoldLeft(LAMBDA out, r :
             InsertAt(out, 1 + Cardinality({k \in DOMAIN out : Compare(column, direction, out[k], r) <= 0}), r),
           <<>>, rows)

sorted(rows, all, by) ==
  IF by.index \notin DOMAIN columns(all) THEN rows ELSE Sort(rows, columns(all)[by.index], by.direction)

-----------------------------------------------------------------------------
(* The Ready column: readyStatus.ts                                         *)

ROLLBACK_RECENT_MS == 24 * 60 * 60 * 1000
DEFAULT_INTERVAL_MS == 5 * 60 * 1000

Milliseconds(unit) == CASE unit = "h" -> 3600000 [] unit = "m" -> 60000 [] unit = "s" -> 1000 [] unit = "ms" -> 1

Total(terms) == FoldLeft(LAMBDA n, term : n + term, 0, terms)

\* A duration is a sequence of <<number, unit>>. Of the units "m" is tried
\* before "ms", whose "s" is then passed over.
parseGoDuration(duration) ==
  IF duration = None \/ duration = <<>> THEN None
  ELSE Total([k \in DOMAIN duration |->
                LET unit == duration[k][2] IN duration[k][1] * Milliseconds(IF unit = "ms" THEN "m" ELSE unit)])

\* An object has its Ready condition, if any, whether it is stalled, and an interval.
getReadyStatus(o, age) ==
  LET parsed == parseGoDuration(o.interval)
      threshold == 2 * (IF parsed = None THEN DEFAULT_INTERVAL_MS ELSE parsed)
      since(ms) == o.ready.dated /\ age < ms
  IN  CASE o.ready = None -> None
        [] o.ready # None /\ o.ready.status = "True" ->
             IF o.ready.reason = "RollbackSucceeded" /\ since(ROLLBACK_RECENT_MS) THEN "rollback-recent" ELSE "success"
        [] o.ready # None /\ o.ready.status # "True" /\ o.ready.reason = "ArtifactFailed" ->
             IF ~o.ready.dated \/ since(threshold) THEN "artifact-failed-recent" ELSE "artifact-failed-stale"
        [] o.ready # None /\ o.ready.status # "True" /\ o.ready.reason = "DependencyNotReady" -> "dependency-not-ready"
        [] OTHER -> IF o.stalled THEN "failed-nonretryable" ELSE "failed-retryable"

-----------------------------------------------------------------------------
ListInit ==
  /\ table = None /\ inAll \in BOOLEAN
  /\ keep = UNION {{r["name"] : r \in Range(rows)} : rows \in Tables}
  /\ sortBy = [index |-> 0, direction |-> "asc"]
  /\ picked = None /\ clicked = 0 /\ ready = None

Arrive(rows) ==
  /\ table # rows /\ ready = None
  /\ table' = rows
  /\ UNCHANGED <<keep, inAll, sortBy, picked, clicked, ready>>

\* onFilterChange
FilterBy(names) ==
  /\ clicked < MaxClicked /\ names # keep /\ table # None
  /\ keep' = names /\ clicked' = clicked + 1
  /\ UNCHANGED <<table, inAll, sortBy, picked, ready>>

\* onSort; the table's header decides on the direction.
SortBy(index, direction) ==
  /\ clicked < MaxClicked /\ table # None /\ index \in DOMAIN columns(inAll)
  /\ sortBy' = [index |-> index, direction |-> direction]
  /\ picked' = columns(inAll)[index] /\ clicked' = clicked + 1
  /\ UNCHANGED <<table, keep, inAll, ready>>

\* Another namespace or all of them: a column comes or goes, the index stays.
SwitchNamespace ==
  /\ clicked < MaxClicked /\ table # None
  /\ inAll' = ~inAll /\ clicked' = clicked + 1
  /\ picked' = IF sortBy.index > 1 THEN None ELSE picked
  /\ table' = None
  /\ UNCHANGED <<keep, sortBy, ready>>

\* The list is rendered some time after the condition of an object has changed.
RenderReady(o, age) ==
  /\ table = None /\ clicked = 0 /\ ready = None
  /\ ready' = [object |-> o, age |-> age]
  /\ UNCHANGED <<table, keep, inAll, sortBy, picked, clicked>>

\* What Go reads in a duration
GoDuration(duration) == Total([k \in DOMAIN duration |-> duration[k][1] * Milliseconds(duration[k][2])])

\* The moments at which something may change
Ages(o) ==
  UNION {{t - 1, t} : t \in {1, ROLLBACK_RECENT_MS, 2 * DEFAULT_INTERVAL_MS}
                              \cup (IF o.interval = None THEN {} ELSE {2 * GoDuration(o.interval)})}

ListNext ==
  \/ \E rows \in Tables : Arrive(rows)
  \/ \E r \in UNION {Range(rows) : rows \in Tables} : FilterBy(keep \ {r["name"]}) \/ FilterBy(keep \cup {r["name"]})
  \/ \E index \in DOMAIN columns(TRUE), direction \in {"asc", "desc"} : SortBy(index, direction)
  \/ SwitchNamespace
  \/ \E o \in Conditions : \E age \in Ages(o) : RenderReady(o, age)

-----------------------------------------------------------------------------
\* The rows shown are those the filter lets through, each once, in the order of
\* the column whose header is marked: up or down as marked, those without a
\* value behind all others in both, and equal ones as the watch has them. The
\* column is the one the reader picked, as long as no column before it has come
\* or gone (GenericResourceList.tsx:121-143).
RowsSorted ==
  table # None =>
    LET some == filtered(table, keep)
        shown == sorted(some, inAll, sortBy)
        column == columns(inAll)[sortBy.index]
        Before(a, b) == IF sortBy.direction = "asc" THEN a < b ELSE b < a
        Place(r) == SelectInSeq(some, LAMBDA s : s = r)
    IN  /\ Len(shown) = Len(some) /\ Range(shown) = Range(some)
        /\ sortBy.index = 0 => shown = some
        /\ picked # None => picked = column
        /\ sortBy.index \in DOMAIN columns(inAll) =>
             \A i, j \in DOMAIN shown :
               LET a == shown[i][column]
                   b == shown[j][column]
               IN  i < j => \/ a # None /\ b = None
                            \/ a # None /\ b # None /\ Before(a, b)
                            \/ a = b /\ Place(shown[i]) < Place(shown[j])

\* An artifact that fails is shown as stale from twice the object's interval on,
\* as Go reads it, and not before; and what is ready is never shown as failed,
\* nor the reverse, whatever else the object says (readyStatus.ts:56-66).
\* Intervals in milliseconds are left out: they are taken for minutes.
ReadyMeant ==
  ready # None =>
    LET o == ready.object
        kind == getReadyStatus(o, ready.age)
        exact == o.interval = None \/ \A part \in Range(o.interval) : part[2] # "ms"
        patience == IF o.interval \in {None, <<>>} THEN DEFAULT_INTERVAL_MS ELSE GoDuration(o.interval)
    IN  /\ kind = None <=> o.ready = None
        /\ kind \in {"success", "rollback-recent"} <=> o.ready # None /\ o.ready.status = "True"
        /\ kind = "artifact-failed-stale" => o.ready.reason = "ArtifactFailed" /\ (exact => ready.age >= 2 * patience)
        /\ kind = "artifact-failed-recent" => ~o.ready.dated \/ (exact => ready.age < 2 * patience)
        /\ kind = "failed-retryable" => ~o.stalled
=============================================================================
