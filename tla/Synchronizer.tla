---------------------------- MODULE Synchronizer ----------------------------
(***************************************************************************)
(* The Project mirror of plugins/openshift-synchronizer/controller.go: an  *)
(* informer feeds Namespace events into a rate-limited work queue, workers *)
(* take names off it and make the same-named Project follow the Namespace  *)
(* their lister shows them.  Every API call is a step of its own; the      *)
(* lister lags behind the API server; calls fail; other clients create and *)
(* delete Projects, which the controller does not watch; the controller    *)
(* restarts.                                                               *)
(***************************************************************************)
EXTENDS Integers, Sequences, FiniteSets

CONSTANTS Names,        \* Namespace (and Project) names
          Workers,      \* goroutines started by Run
          NoName,       \* a worker's key between two items
          MaxChanges,   \* bound: Namespace changes
          MaxEdits,     \* bound: Projects created or deleted by other clients
          MaxFailures,  \* bound: failing API calls
          MaxRestarts   \* bound: restarts of the controller

ASSUME SyncAssumption ==
  /\ NoName \notin Names
  /\ {MaxChanges, MaxEdits, MaxFailures, MaxRestarts} \subseteq Nat

VARIABLES
  ns,         \* the API server's Namespace: "absent", "Active", "Terminating"
  project,    \* the API server's Project: "absent", its phase, or "unset"
  stream,     \* Namespace events the informer has not processed yet
  cache,      \* what namespaceLister returns
  dirty,      \* workqueue: names that need processing
  processing, \* workqueue: names a worker holds
  delayed,    \* workqueue: names waiting out their back-off
  pc,         \* what each worker does next
  key,        \* the name each worker holds
  want,       \* the phase the worker read from the lister
  seen,       \* the phase in the worker's copy of the Project
  fresh,      \* workers whose copy still has the Project's resourceVersion
  blind,      \* names about which something happened that no event since tells of
  left        \* what the bounds still allow

serverVars == <<ns, project>>
queueVars  == <<dirty, processing, delayed>>
workerVars == <<pc, key, want, seen, fresh>>
vars == <<serverVars, stream, cache, queueVars, workerVars, blind, left>>

Phases == {"Active", "Terminating"}
Bounds == {"change", "edit", "failure", "restart"}

TypeOK ==
  /\ ns \in [Names -> Phases \cup {"absent"}]
  /\ project \in [Names -> Phases \cup {"absent", "unset"}]
  /\ stream \in [Names -> Seq(Phases \cup {"absent"})]
  /\ cache \in [Names -> Phases \cup {"absent"}]
  /\ dirty \subseteq Names /\ processing \subseteq Names /\ delayed \subseteq Names
  /\ pc \in [Workers -> {"idle", "list", "get", "create", "status", "delete"}]
  /\ key \in [Workers -> Names \cup {NoName}]
  /\ want \in [Workers -> Phases \cup {"absent"}]
  /\ seen \in [Workers -> Phases \cup {"absent", "unset"}]
  /\ fresh \subseteq Workers
  /\ blind \subseteq Names
  /\ left \in [Bounds -> Nat]
  /\ \A w \in Workers : pc[w] = "idle" <=> key[w] = NoName

Init ==
  /\ ns = [n \in Names |-> "absent"]
  /\ project = [n \in Names |-> "absent"]
  /\ stream = [n \in Names |-> <<>>]
  /\ cache = [n \in Names |-> "absent"]
  /\ dirty = {} /\ processing = {} /\ delayed = {}
  /\ pc = [w \in Workers |-> "idle"]
  /\ key = [w \in Workers |-> NoName]
  /\ want = [w \in Workers |-> "absent"]
  /\ seen = [w \in Workers |-> "absent"]
  /\ fresh = {}
  /\ blind = {}
  /\ left = [b \in Bounds |-> CASE b = "change"  -> MaxChanges
                                [] b = "edit"    -> MaxEdits
                                [] b = "failure" -> MaxFailures
                                [] b = "restart" -> MaxRestarts]

\* A step that a bound limits.
Spend(b) == left[b] > 0 /\ left' = [left EXCEPT ![b] = @ - 1]

-----------------------------------------------------------------------------
(* Namespaces change on the API server; the watch carries every change.     *)

NamespaceStep(n, from, to) ==
  /\ ns[n] = from /\ Spend("change")
  /\ ns' = [ns EXCEPT ![n] = to]
  /\ stream' = [stream EXCEPT ![n] = Append(@, to)]
  /\ UNCHANGED <<project, cache, queueVars, workerVars, blind>>

NamespaceChanges(n) ==
  \/ NamespaceStep(n, "absent", "Active")
  \/ NamespaceStep(n, "Active", "Terminating")
  \/ NamespaceStep(n, "Terminating", "absent")

\* Another client creates or deletes a Project.  The controller has no watch
\* on Projects, and a worker's copy loses its resourceVersion.
ProjectEdited(n) ==
  /\ Spend("edit")
  /\ \/ /\ project[n] # "absent"
        /\ project' = [project EXCEPT ![n] = "absent"]
     \/ /\ project[n] = "absent" /\ ns[n] # "absent"
        /\ project' = [project EXCEPT ![n] = "unset"]
  /\ blind' = blind \cup {n}
  /\ fresh' = {w \in fresh : key[w] # n}
  /\ UNCHANGED <<ns, stream, cache, queueVars, pc, key, want, seen>>

-----------------------------------------------------------------------------
(* The informer and the work queue (client-go).                             *)

\* workqueue.Add: a name already waiting is not added again; one that is
\* being processed becomes available when its worker is done with it.
Add(n) == dirty' = dirty \cup {n}

\* Mutant of EnqueuedOn: the handler for deletions is not registered.
EnqueuedOnUpsert(n, state) == state # "absent"

\* AddFunc, UpdateFunc and DeleteFunc all enqueue the object's name.
EnqueuedOn(n, state) == TRUE

\* The informer applies one watch event to the lister and calls the handler.
InformerDelivers(n) ==
  /\ stream[n] # <<>>
  /\ cache' = [cache EXCEPT ![n] = Head(stream[n])]
  /\ stream' = [stream EXCEPT ![n] = Tail(@)]
  /\ IF EnqueuedOn(n, Head(stream[n])) THEN Add(n) ELSE UNCHANGED dirty
  /\ blind' = blind \ {n}
  /\ UNCHANGED <<serverVars, processing, delayed, workerVars, left>>

\* The 10-minute resync calls UpdateFunc for every object in the lister.
Resync(n) ==
  /\ cache[n] # "absent" /\ Add(n)
  /\ blind' = blind \ {n}
  /\ UNCHANGED <<serverVars, stream, cache, processing, delayed, workerVars, left>>

\* The back-off of AddRateLimited is over.
BackoffEnds(n) ==
  /\ n \in delayed /\ Add(n)
  /\ delayed' = delayed \ {n}
  /\ UNCHANGED <<serverVars, stream, cache, processing, workerVars, blind, left>>

\* workqueue.Get
Get(w, n) ==
  /\ pc[w] = "idle" /\ n \in dirty \ processing
  /\ dirty' = dirty \ {n}
  /\ processing' = processing \cup {n}
  /\ pc' = [pc EXCEPT ![w] = "list"]
  /\ key' = [key EXCEPT ![w] = n]
  /\ UNCHANGED <<serverVars, stream, cache, delayed, want, seen, fresh, blind, left>>

\* Mutant of Done: the worker keeps the name it is done with.
DoneKeepsKey(w) ==
  /\ processing' = processing \ {key[w]}
  /\ pc' = [pc EXCEPT ![w] = "idle"]
  /\ want' = [want EXCEPT ![w] = "absent"]
  /\ seen' = [seen EXCEPT ![w] = "absent"]
  /\ fresh' = fresh \ {w}
  /\ UNCHANGED key

\* workqueue.Done, after Forget or AddRateLimited; the locals are gone.
Done(w) ==
  /\ processing' = processing \ {key[w]}
  /\ pc' = [pc EXCEPT ![w] = "idle"]
  /\ key' = [key EXCEPT ![w] = NoName]
  /\ want' = [want EXCEPT ![w] = "absent"]
  /\ seen' = [seen EXCEPT ![w] = "absent"]
  /\ fresh' = fresh \ {w}

Succeeds(w) == Done(w) /\ UNCHANGED <<dirty, delayed>>

\* Mutant of Fails: the error is logged and the item forgotten.
FailsForgotten(w) == Done(w) /\ UNCHANGED <<dirty, delayed>>

\* syncNamespace returned an error: AddRateLimited, then Done.
Fails(w) ==
  /\ Done(w)
  /\ delayed' = delayed \cup {key[w]}
  /\ UNCHANGED dirty

-----------------------------------------------------------------------------
(* syncNamespace and what it calls.                                         *)

\* namespaceLister.Get
ReadLister(w) ==
  /\ pc[w] = "list"
  /\ want' = [want EXCEPT ![w] = cache[key[w]]]
  /\ pc' = [pc EXCEPT ![w] = IF cache[key[w]] = "absent" THEN "delete" ELSE "get"]
  /\ UNCHANGED <<serverVars, stream, cache, queueVars, key, seen, fresh, blind, left>>

\* reconcileProject: client.Get
GetProject(w) ==
  /\ pc[w] = "get"
  /\ seen' = [seen EXCEPT ![w] = project[key[w]]]
  /\ IF project[key[w]] = "absent"
       THEN pc' = [pc EXCEPT ![w] = "create"] /\ UNCHANGED fresh
       ELSE pc' = [pc EXCEPT ![w] = "status"] /\ fresh' = fresh \cup {w}
  /\ UNCHANGED <<serverVars, stream, cache, queueVars, key, want, blind, left>>

\* client.Create: a new Project has no phase yet, syncStatus follows.
CreateProject(w) ==
  /\ pc[w] = "create" /\ project[key[w]] = "absent"
  /\ project' = [project EXCEPT ![key[w]] = "unset"]
  /\ seen' = [seen EXCEPT ![w] = "unset"]
  /\ fresh' = fresh \cup {w}
  /\ pc' = [pc EXCEPT ![w] = "status"]
  /\ UNCHANGED <<ns, stream, cache, queueVars, key, want, blind, left>>

\* IsAlreadyExists: success, without looking at the status.
CreateConflicts(w) ==
  /\ pc[w] = "create" /\ project[key[w]] # "absent"
  /\ Succeeds(w)
  /\ UNCHANGED <<serverVars, stream, cache, blind, left>>

\* syncStatus: the phases agree.
StatusAgrees(w) ==
  /\ pc[w] = "status" /\ seen[w] = want[w]
  /\ Succeeds(w)
  /\ UNCHANGED <<serverVars, stream, cache, blind, left>>

\* UpdateStatus with the resourceVersion of the worker's copy.
UpdateStatus(w) ==
  /\ pc[w] = "status" /\ seen[w] # want[w] /\ w \in fresh
  /\ project' = [project EXCEPT ![key[w]] = want[w]]
  /\ Succeeds(w)
  /\ UNCHANGED <<ns, stream, cache, blind, left>>

\* The Project was changed, recreated or deleted since: an error.
UpdateConflicts(w) ==
  /\ pc[w] = "status" /\ seen[w] # want[w] /\ w \notin fresh
  /\ Fails(w)
  /\ UNCHANGED <<serverVars, stream, cache, blind, left>>

\* deleteProject; a Project that is not there is success too.
DeleteProject(w) ==
  /\ pc[w] = "delete"
  /\ project' = [project EXCEPT ![key[w]] = "absent"]
  /\ Succeeds(w)
  /\ UNCHANGED <<ns, stream, cache, blind, left>>

\* The worker is about to write: Create, UpdateStatus or Delete.
Writes(w) == \/ pc[w] \in {"create", "delete"}
             \/ pc[w] = "status" /\ seen[w] # want[w]

\* The API call the worker is about to make fails.
CallFails(w) ==
  /\ pc[w] = "get" \/ Writes(w)
  /\ Spend("failure") /\ Fails(w)
  /\ UNCHANGED <<serverVars, stream, cache, blind>>

\* The call took effect and its answer was lost: an error all the same.
AnswerLost(w) ==
  /\ Spend("failure") /\ Fails(w)
  /\ \/ /\ pc[w] = "create" /\ project[key[w]] = "absent"
        /\ project' = [project EXCEPT ![key[w]] = "unset"]
     \/ /\ pc[w] = "status" /\ seen[w] # want[w] /\ w \in fresh
        /\ project' = [project EXCEPT ![key[w]] = want[w]]
     \/ /\ pc[w] = "delete"
        /\ project' = [project EXCEPT ![key[w]] = "absent"]
  /\ UNCHANGED <<ns, stream, cache, blind>>

-----------------------------------------------------------------------------
\* The controller restarts: queue, workers and lister start from nothing and
\* the informer lists the Namespaces that exist now.  A Namespace that is gone
\* by then produces no event.
Restart ==
  /\ Spend("restart")
  /\ cache' = [n \in Names |-> "absent"]
  /\ stream' = [n \in Names |-> IF ns[n] = "absent" THEN <<>> ELSE <<ns[n]>>]
  /\ dirty' = {} /\ processing' = {} /\ delayed' = {}
  /\ pc' = [w \in Workers |-> "idle"]
  /\ key' = [w \in Workers |-> NoName]
  /\ want' = [w \in Workers |-> "absent"]
  /\ seen' = [w \in Workers |-> "absent"]
  /\ fresh' = {}
  /\ blind' = blind \cup {n \in Names : ns[n] = "absent" /\ project[n] # "absent"}
  /\ UNCHANGED serverVars

Syncs(w) ==
  \/ ReadLister(w) \/ GetProject(w) \/ CreateProject(w) \/ CreateConflicts(w)
  \/ StatusAgrees(w) \/ UpdateStatus(w) \/ UpdateConflicts(w) \/ DeleteProject(w)

Next ==
  \/ \E n \in Names : \/ NamespaceChanges(n) \/ ProjectEdited(n)
                      \/ InformerDelivers(n) \/ Resync(n) \/ BackoffEnds(n)
  \/ \E w \in Workers : Syncs(w) \/ CallFails(w) \/ AnswerLost(w) \/ \E n \in Names : Get(w, n)
  \/ Restart

Spec == Init /\ [][Next]_vars

\* The watch delivers, the resync and back-off timers fire, the queue hands
\* every waiting name to a worker, a started sync goes on.
Fairness ==
  /\ \A n \in Names : /\ WF_vars(InformerDelivers(n)) /\ WF_vars(Resync(n))
                      /\ WF_vars(BackoffEnds(n))
                      /\ WF_vars(\E w \in Workers : Get(w, n))
  /\ \A w \in Workers : WF_vars(Syncs(w))

FairSpec == Spec /\ Fairness

-----------------------------------------------------------------------------
(* Properties.                                                              *)

\* The name is on its way through the informer, the queue or a worker.
Pending(n) == stream[n] # <<>> \/ n \in dirty \cup processing \cup delayed

\* Whatever interleaving of events, workers, failures and restarts: a Project
\* that differs from its Namespace is still on somebody's list, unless
\* something happened that no event tells of.  No event may be swallowed
\* between the lister, the queue's de-duplication and the retry
\* (controller.go:115-153, 180-252).
NothingForgotten ==
  \A n \in Names : n \notin blind => Pending(n) \/ project[n] = ns[n]

\* "keeps a Project mirrored 1:1 with every Namespace" (controller.go:27):
\* when the Namespaces stop changing, every Project ends up as its Namespace,
\* with retries, conflicting writers, restarts and the resync at work; only a
\* Project that no event and no resync can name, its Namespace gone, may stay.
EventuallyMirrored ==
  \A n \in Names : <>[](\/ project[n] = ns[n]
                        \/ ns[n] = "absent" /\ n \in blind)

\* README "Namespace deleted -> the mirrored Project is deleted": every Project
\* of a deleted Namespace goes, unless the Namespace comes back.
DeletedWithNamespace ==
  \A n \in Names : (ns[n] = "absent") ~> (project[n] = "absent" \/ ns[n] # "absent")
=============================================================================
