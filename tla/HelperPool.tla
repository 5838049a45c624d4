----------------------------- MODULE HelperPool -----------------------------
(***************************************************************************)
(* The node agent's pool of file-browser helpers                           *)
(* (plugins/filesystem/internal/agent/pool.go).  A helper is a process     *)
(* inside a container's mount namespace; while it runs, that namespace and *)
(* every mount in it stay alive.  Five kinds of goroutines meet on the     *)
(* pool: the requests (Acquire ... Release), one watcher and one cmd.Wait  *)
(* per helper, the reaper, and Close.  Every critical section of Pool.mu   *)
(* is one action; what the code does outside the lock is a step of its     *)
(* own, so that everything that may interleave there does.                 *)
(***************************************************************************)
EXTENDS Naturals, FiniteSets

CONSTANTS Containers,  \* container IDs (each names one container instance)
          Requests,    \* concurrent RPCs the agent is serving
          Helpers,     \* identities of all helper processes ever spawned
          MaxHelpers,  \* Config.MaxHelpers; 0 means no cap
          Faults,      \* what the environment may do: a subset of
                       \* {"containerExit", "pollError", "helperCrash", "sigterm"}
          None         \* the nil *Helper / absent map entry

ASSUME PoolAssumption ==
  /\ MaxHelpers \in Nat
  /\ IsFiniteSet(Requests) /\ IsFiniteSet(Containers)
  /\ None \notin Helpers /\ None \notin Containers
  /\ Requests \cap Helpers = {}
  /\ {"reaper", "closer"} \cap (Requests \cup Helpers) = {}

VARIABLES
  helpers,    \* Pool.helpers: container -> registered helper or None
  stopped,    \* Pool.stopped (Pool.stop is closed in the same section)
  dead,       \* the helpers whose dead flag is set
  inflight,   \* Helper.inflight
  idle,       \* the helpers with now - lastUsed > HelperGrace
  stopWatch,  \* the helpers whose stopWatch channel has been closed
  containerID,\* Helper.containerID
  pinned,     \* the helpers whose watcher's pidfd is their own container's
  watching,   \* the helpers whose watcher goroutine still waits on gone
  proc,       \* a helper's process: "none", "running", "exited", "waited"
  doomed,     \* the helpers whose socket was closed and that got SIGKILL
  pc,         \* where each request is; its locals are reset when they die
  target,     \* the container a request asks for
  pin,        \* the spawning requests whose pidfd is their container's
  handle,     \* the helper a request spawned or holds
  rival,      \* the helper that won the race against a request's own
  toKill,     \* helpers each goroutine still has to kill
  closing,    \* helper whose stopWatch a goroutine found open, not yet closed
  reaping,    \* the reaper goroutine is in its loop
  alive,      \* the containers whose init is running
  agent       \* the agent process: "up", "exited", "panicked"

reqVars    == <<pc, target, pin, handle, rival>>
helperVars == <<dead, inflight, idle, stopWatch, containerID, pinned, watching,
                proc, doomed>>
killVars   == <<toKill, closing>>
vars == <<helpers, stopped, helperVars, reqVars, killVars, reaping, alive, agent>>

\* The goroutines that call kill: a request discarding its own helper, the
\* watcher of a helper (named by the helper), the reaper, and Close.
Killers == Requests \cup Helpers \cup {"reaper", "closer"}

TypeOK ==
  /\ helpers \in [Containers -> Helpers \cup {None}]
  /\ stopped \in BOOLEAN
  /\ dead \subseteq Helpers
  /\ inflight \in [Helpers -> Nat]
  /\ idle \subseteq Helpers
  /\ stopWatch \subseteq Helpers
  /\ containerID \in [Helpers -> Containers \cup {None}]
  /\ pinned \subseteq Helpers
  /\ watching \subseteq Helpers
  /\ proc \in [Helpers -> {"none", "running", "exited", "waited"}]
  /\ doomed \subseteq Helpers
  /\ pc \in [Requests -> {"idle", "resolve", "verify", "start", "insert",
                          "discard", "use"}]
  /\ target \in [Requests -> Containers \cup {None}]
  /\ pin \subseteq Requests
  /\ handle \in [Requests -> Helpers \cup {None}]
  /\ rival \in [Requests -> Helpers \cup {None}]
  /\ \A r \in Requests :
       /\ pc[r] # "idle" => target[r] \in Containers
       /\ pc[r] \in {"insert", "discard", "use"} <=> handle[r] # None
       /\ pc[r] = "discard" <=> rival[r] # None
  /\ toKill \in [Killers -> SUBSET Helpers]
  /\ closing \in [Killers -> Helpers \cup {None}]
  /\ reaping \in BOOLEAN
  /\ alive \subseteq Containers
  /\ agent \in {"up", "exited", "panicked"}

\* NewPool: an empty map, the reaper started.
Init ==
  /\ helpers = [c \in Containers |-> None]
  /\ stopped = FALSE
  /\ dead = {}
  /\ inflight = [h \in Helpers |-> 0]
  /\ idle = {}
  /\ stopWatch = {}
  /\ containerID = [h \in Helpers |-> None]
  /\ pinned = {}
  /\ watching = {}
  /\ proc = [h \in Helpers |-> "none"]
  /\ doomed = {}
  /\ pc = [r \in Requests |-> "idle"]
  /\ target = [r \in Requests |-> None]
  /\ pin = {}
  /\ handle = [r \in Requests |-> None]
  /\ rival = [r \in Requests |-> None]
  /\ toKill = [k \in Killers |-> {}]
  /\ closing = [k \in Killers |-> None]
  /\ reaping = TRUE
  /\ alive = Containers
  /\ agent = "up"

-----------------------------------------------------------------------------
(* Acquire, first critical section.  A refusal (stopped, or the cap) leaves *)
(* the pool unchanged and is a stuttering step.                             *)

Registered == {c \in Containers : helpers[c] # None}

\* ok && !existing.dead
HasLive(c) == helpers[c] # None /\ helpers[c] \notin dead

\* Requests between the cap check and the insertion of what they spawned.
Spawners == {r \in Requests : pc[r] \in {"resolve", "verify", "start", "insert"}}

\* Mutants of AddCall: the count is assigned, or goes the wrong way.
AddCallAssigned(h) == [inflight EXCEPT ![h] = 1]
AddCallBackwards(h) == [inflight EXCEPT ![h] = @ - 1]

\* existing.inflight++
AddCall(h) == [inflight EXCEPT ![h] = @ + 1]

\* A live helper is registered: count the call on it and return it.
AcquireReuse(r, c) ==
  /\ agent = "up" /\ pc[r] = "idle" /\ ~stopped /\ HasLive(c)
  /\ inflight' = AddCall(helpers[c])
  /\ idle' = idle \ {helpers[c]}
  /\ pc' = [pc EXCEPT ![r] = "use"]
  /\ target' = [target EXCEPT ![r] = c]
  /\ handle' = [handle EXCEPT ![r] = helpers[c]]
  /\ UNCHANGED <<helpers, stopped, dead, stopWatch, containerID, pinned, watching,
                 proc, doomed, pin, rival, killVars, reaping, alive, agent>>

\* Mutant of UnderCap: off by one.
UnderCapOrAtCap == MaxHelpers > 0 => Cardinality(Registered) <= MaxHelpers

\* The cap, compared with the number of entries read under the lock but
\* checked after it was released.
UnderCap == MaxHelpers > 0 => Cardinality(Registered) < MaxHelpers

\* No live helper and the cap not reached: go on to spawn, without the lock.
AcquireSpawn(r, c) ==
  /\ agent = "up" /\ pc[r] = "idle" /\ ~stopped /\ ~HasLive(c) /\ UnderCap
  /\ pc' = [pc EXCEPT ![r] = "resolve"]
  /\ target' = [target EXCEPT ![r] = c]
  /\ UNCHANGED <<helpers, stopped, helperVars, pin, handle, rival, killVars,
                 reaping, alive, agent>>

-----------------------------------------------------------------------------
(* spawn, which runs without the lock.                                      *)

\* resolvePID, then watchProcess pins whatever task has that number now: if
\* the container's init exited in between, a stranger that reused the number.
SpawnWatch(r) ==
  /\ agent = "up" /\ pc[r] = "resolve"
  /\ pin' = IF target[r] \in alive THEN pin \cup {r} ELSE pin
  /\ pc' = [pc EXCEPT ![r] = "verify"]
  /\ UNCHANGED <<helpers, stopped, helperVars, target, handle, rival, killVars,
                 reaping, alive, agent>>

\* Mutant of Verified: the window of PID reuse is left open.
VerifiedBlindly(r) == TRUE

\* resolver.Verify reads the cgroup of the pid again.
Verified(r) == target[r] \in alive

\* The pid still has the container's cgroup.
SpawnVerify(r) ==
  /\ agent = "up" /\ pc[r] = "verify" /\ Verified(r)
  /\ pc' = [pc EXCEPT ![r] = "start"]
  /\ UNCHANGED <<helpers, stopped, helperVars, target, pin, handle, rival, killVars,
                 reaping, alive, agent>>

\* cmd.Start succeeded and the Helper value and its two goroutines exist.
SpawnStart(r, h) ==
  /\ agent = "up" /\ pc[r] = "start" /\ proc[h] = "none"
  /\ proc' = [proc EXCEPT ![h] = "running"]
  /\ containerID' = [containerID EXCEPT ![h] = target[r]]
  /\ pinned' = IF r \in pin THEN pinned \cup {h} ELSE pinned
  /\ pin' = pin \ {r}
  /\ watching' = watching \cup {h}
  /\ handle' = [handle EXCEPT ![r] = h]
  /\ pc' = [pc EXCEPT ![r] = "insert"]
  /\ UNCHANGED <<helpers, stopped, dead, inflight, idle, stopWatch, doomed, target,
                 rival, killVars, reaping, alive, agent>>

\* Any error return of spawn: no pid, not verified, no socketpair, no
\* process, no client.  A process already started is killed on the way out
\* and never becomes a Helper.
SpawnFails(r) ==
  /\ agent = "up" /\ pc[r] \in {"resolve", "verify", "start"}
  /\ pc' = [pc EXCEPT ![r] = "idle"]
  /\ target' = [target EXCEPT ![r] = None]
  /\ pin' = pin \ {r}
  /\ UNCHANGED <<helpers, stopped, helperVars, handle, rival, killVars, reaping,
                 alive, agent>>

-----------------------------------------------------------------------------
(* Acquire, second critical section: neither stopped nor the cap is looked  *)
(* at again.                                                                *)

\* Mutant of LostRace: the map is not looked at again.
LostRaceUnseen(r) == FALSE

\* Another request's helper landed first and is alive.
LostRace(r) == HasLive(target[r])

AcquireInsert(r) ==
  /\ agent = "up" /\ pc[r] = "insert" /\ ~LostRace(r)
  /\ inflight' = [inflight EXCEPT ![handle[r]] = 1]
  /\ idle' = idle \ {handle[r]}
  /\ helpers' = [helpers EXCEPT ![target[r]] = handle[r]]
  /\ pc' = [pc EXCEPT ![r] = "use"]
  /\ UNCHANGED <<stopped, dead, stopWatch, containerID, pinned, watching, proc,
                 doomed, target, pin, handle, rival, killVars, reaping, alive, agent>>

\* Another request got there first: unlock and kill our own helper.
AcquireLostRace(r) ==
  /\ agent = "up" /\ pc[r] = "insert" /\ LostRace(r)
  /\ rival' = [rival EXCEPT ![r] = helpers[target[r]]]
  /\ toKill' = [toKill EXCEPT ![r] = {handle[r]}]
  /\ pc' = [pc EXCEPT ![r] = "discard"]
  /\ UNCHANGED <<helpers, stopped, helperVars, target, pin, handle, closing,
                 reaping, alive, agent>>

\* Lock again and count the call on the winner, whatever became of it.
AcquireAdopt(r) ==
  /\ agent = "up" /\ pc[r] = "discard" /\ toKill[r] = {}
  /\ inflight' = AddCall(rival[r])
  /\ idle' = idle \ {rival[r]}
  /\ handle' = [handle EXCEPT ![r] = rival[r]]
  /\ rival' = [rival EXCEPT ![r] = None]
  /\ pc' = [pc EXCEPT ![r] = "use"]
  /\ UNCHANGED <<helpers, stopped, dead, stopWatch, containerID, pinned, watching,
                 proc, doomed, target, pin, killVars, reaping, alive, agent>>

Release(r) ==
  /\ agent = "up" /\ pc[r] = "use"
  /\ inflight' = [inflight EXCEPT ![handle[r]] = IF @ > 0 THEN @ - 1 ELSE @]
  /\ idle' = idle \ {handle[r]}
  /\ pc' = [pc EXCEPT ![r] = "idle"]
  /\ target' = [target EXCEPT ![r] = None]
  /\ handle' = [handle EXCEPT ![r] = None]
  /\ UNCHANGED <<helpers, stopped, dead, stopWatch, containerID, pinned, watching,
                 proc, doomed, pin, rival, killVars, reaping, alive, agent>>

-----------------------------------------------------------------------------
(* kill, run by every killer outside the lock.  The test of stopWatch and   *)
(* its close are two steps.                                                 *)

\* case <-h.stopWatch: already closed, so only the socket and the signal.
KillClosed(k, h) ==
  /\ agent = "up" /\ h \in toKill[k] /\ closing[k] = None /\ h \in stopWatch
  /\ doomed' = doomed \cup {h}
  /\ toKill' = [toKill EXCEPT ![k] = @ \ {h}]
  /\ UNCHANGED <<helpers, stopped, dead, inflight, idle, stopWatch, containerID,
                 pinned, watching, proc, reqVars, closing, reaping, alive, agent>>

\* default: the channel is open, about to be closed.
KillOpen(k, h) ==
  /\ agent = "up" /\ h \in toKill[k] /\ closing[k] = None /\ h \notin stopWatch
  /\ closing' = [closing EXCEPT ![k] = h]
  /\ UNCHANGED <<helpers, stopped, helperVars, reqVars, toKill, reaping, alive, agent>>

\* close(h.stopWatch), then the socket and the signal.
KillClose(k) ==
  /\ agent = "up" /\ closing[k] # None /\ closing[k] \notin stopWatch
  /\ stopWatch' = stopWatch \cup {closing[k]}
  /\ doomed' = doomed \cup {closing[k]}
  /\ toKill' = [toKill EXCEPT ![k] = @ \ {closing[k]}]
  /\ closing' = [closing EXCEPT ![k] = None]
  /\ UNCHANGED <<helpers, stopped, dead, inflight, idle, containerID, pinned,
                 watching, proc, reqVars, reaping, alive, agent>>

\* Closing a closed channel panics, and a panic ends the whole agent.
KillPanics(k) ==
  /\ agent = "up" /\ closing[k] # None /\ closing[k] \in stopWatch
  /\ agent' = "panicked"
  /\ UNCHANGED <<helpers, stopped, helperVars, reqVars, killVars, reaping, alive>>

-----------------------------------------------------------------------------
(* The goroutines of a helper.                                              *)

\* drop: out of the map if it is still the one registered, dead, then killed.
Drop(h) ==
  /\ helpers' = [c \in Containers |-> IF c = containerID[h] /\ helpers[c] = h
                                      THEN None ELSE helpers[c]]
  /\ dead' = dead \cup {h}
  /\ toKill' = [toKill EXCEPT ![h] = {h}]
  /\ watching' = watching \ {h}
  /\ UNCHANGED <<stopped, inflight, idle, stopWatch, containerID, pinned, proc, doomed,
                 reqVars, closing, reaping, alive, agent>>

\* Mutant of Gone: only the pool's own stop is noticed.
GoneWhenStopped(h) == h \in stopWatch

\* watchProcess closes gone when the pinned task exits or stopWatch closes.
Gone(h) == h \in stopWatch \/ (h \in pinned /\ containerID[h] \notin alive)

WatcherFires(h) ==
  /\ agent = "up" /\ h \in watching /\ Gone(h)
  /\ Drop(h)

\* poll itself fails (not EINTR): gone is closed as well.
WatcherPollFails(h) ==
  /\ agent = "up" /\ h \in watching /\ h \notin stopWatch /\ "pollError" \in Faults
  /\ Drop(h)

\* cmd.Wait returned.
WaitReturns(h) ==
  /\ agent = "up" /\ proc[h] = "exited"
  /\ proc' = [proc EXCEPT ![h] = "waited"]
  /\ dead' = dead \cup {h}
  /\ helpers' = [c \in Containers |-> IF c = containerID[h] /\ helpers[c] = h
                                      THEN None ELSE helpers[c]]
  /\ UNCHANGED <<stopped, inflight, idle, stopWatch, containerID, pinned, watching,
                 doomed, reqVars, killVars, reaping, alive, agent>>

-----------------------------------------------------------------------------
(* The reaper.  One pass under the lock collects every expired helper; they *)
(* are killed after it, before the next pass.                               *)

\* Mutants of Expired: calls in flight are forgotten; only helpers already
\* marked dead are collected.
ExpiredInFlight == {h \in Helpers : (\E c \in Containers : helpers[c] = h) /\ h \in idle}
ExpiredDead == {h \in Helpers : /\ \E c \in Containers : helpers[c] = h
                                /\ inflight[h] = 0 /\ h \in idle /\ h \in dead}

Expired == {h \in Helpers : /\ \E c \in Containers : helpers[c] = h
                            /\ inflight[h] = 0 /\ h \in idle}

ReapPass ==
  /\ agent = "up" /\ reaping /\ toKill["reaper"] = {} /\ Expired # {}
  /\ helpers' = [c \in Containers |-> IF helpers[c] \in Expired THEN None
                                      ELSE helpers[c]]
  /\ dead' = dead \cup Expired
  /\ toKill' = [toKill EXCEPT !["reaper"] = Expired]
  /\ UNCHANGED <<stopped, inflight, idle, stopWatch, containerID, pinned, watching,
                 proc, doomed, reqVars, closing, reaping, alive, agent>>

\* case <-p.stop
ReapStops ==
  /\ agent = "up" /\ reaping /\ toKill["reaper"] = {} /\ stopped
  /\ reaping' = FALSE
  /\ UNCHANGED <<helpers, stopped, helperVars, reqVars, killVars, alive, agent>>

\* The grace period since lastUsed has passed.
GraceElapses(h) ==
  /\ agent = "up" /\ h \notin idle
  /\ \E c \in Containers : helpers[c] = h
  /\ idle' = idle \cup {h}
  /\ UNCHANGED <<helpers, stopped, dead, inflight, stopWatch, containerID, pinned,
                 watching, proc, doomed, reqVars, killVars, reaping, alive, agent>>

-----------------------------------------------------------------------------
(* Close and the end of the agent process.                                  *)

\* Stop, take every registered helper out of the map, to kill them unlocked.
Close ==
  /\ agent = "up" /\ ~stopped
  /\ stopped' = TRUE
  /\ toKill' = [toKill EXCEPT !["closer"] = {helpers[c] : c \in Registered}]
  /\ helpers' = [c \in Containers |-> None]
  /\ UNCHANGED <<helperVars, reqVars, closing, reaping, alive, agent>>

\* Close has killed its helpers and Serve's deferred call is over.
CloseReturned == stopped /\ toKill["closer"] = {}

\* Serve returns to main, which exits.
AgentReturns ==
  /\ agent = "up" /\ CloseReturned
  /\ agent' = "exited"
  /\ UNCHANGED <<helpers, stopped, helperVars, reqVars, killVars, reaping, alive>>

\* The agent has no signal handler: SIGTERM ends it wherever it is.
AgentKilled ==
  /\ agent = "up" /\ "sigterm" \in Faults
  /\ agent' = "exited"
  /\ UNCHANGED <<helpers, stopped, helperVars, reqVars, killVars, reaping, alive>>

-----------------------------------------------------------------------------
(* The processes outside the agent.                                         *)

\* Mutant of Disconnected: the helper does not notice the agent's death.
DisconnectedByKill(h) == h \in doomed

\* The agent's end of the socketpair is closed, by kill or by its death.
Disconnected(h) == h \in doomed \/ agent # "up"

\* A helper was killed, or ServeConn returned because its socket is closed.
HelperEnds(h) ==
  /\ proc[h] = "running" /\ Disconnected(h)
  /\ proc' = [proc EXCEPT ![h] = "exited"]
  /\ UNCHANGED <<helpers, stopped, dead, inflight, idle, stopWatch, containerID,
                 pinned, watching, doomed, reqVars, killVars, reaping, alive, agent>>

\* A helper ends by itself (it could not enter the namespace, ran out of
\* memory).
HelperCrashes(h) ==
  /\ proc[h] = "running" /\ h \notin doomed /\ agent = "up" /\ "helperCrash" \in Faults
  /\ proc' = [proc EXCEPT ![h] = "exited"]
  /\ UNCHANGED <<helpers, stopped, dead, inflight, idle, stopWatch, containerID,
                 pinned, watching, doomed, reqVars, killVars, reaping, alive, agent>>

\* The container's init exits; its ID never comes back.
ContainerExits(c) ==
  /\ c \in alive /\ agent = "up" /\ "containerExit" \in Faults
  /\ alive' = alive \ {c}
  /\ UNCHANGED <<helpers, stopped, helperVars, reqVars, killVars, reaping, agent>>

-----------------------------------------------------------------------------
RequestStep(r) ==
  \/ \E c \in Containers : AcquireReuse(r, c) \/ AcquireSpawn(r, c)
  \/ SpawnWatch(r) \/ SpawnVerify(r) \/ SpawnFails(r)
  \/ \E h \in Helpers : SpawnStart(r, h)
  \/ AcquireInsert(r) \/ AcquireLostRace(r) \/ AcquireAdopt(r) \/ Release(r)

KillStep(k) ==
  \/ \E h \in Helpers : KillClosed(k, h) \/ KillOpen(k, h)
  \/ KillClose(k) \/ KillPanics(k)

HelperStep(h) ==
  \/ WatcherFires(h) \/ WatcherPollFails(h) \/ WaitReturns(h) \/ GraceElapses(h)
  \/ HelperEnds(h) \/ HelperCrashes(h)

Next ==
  \/ \E r \in Requests : RequestStep(r)
  \/ \E k \in Killers : KillStep(k)
  \/ \E h \in Helpers : HelperStep(h)
  \/ \E c \in Containers : ContainerExits(c)
  \/ ReapPass \/ ReapStops \/ Close \/ AgentReturns \/ AgentKilled

Spec == Init /\ [][Next]_vars

\* The steps that wind a helper down.  A helper takes finitely many of them.
WindDown ==
  \/ \E k \in Killers : KillStep(k)
  \/ \E h \in Helpers : WatcherFires(h) \/ WaitReturns(h) \/ HelperEnds(h)
  \/ ReapStops

\* Goroutines that can run do run; a killed or disconnected helper ends; time
\* passes; a spawn that started returns.  One condition for all winding-down
\* steps is weaker than one per goroutine and suffices, as they are finitely
\* many.  Nothing makes a client end its call, a container exit, or the agent
\* close.
Fairness ==
  /\ \A r \in Requests :
       WF_vars(\/ SpawnWatch(r) \/ SpawnVerify(r) \/ SpawnFails(r)
               \/ \E h \in Helpers : SpawnStart(r, h)
               \/ AcquireInsert(r) \/ AcquireLostRace(r) \/ AcquireAdopt(r))
  /\ WF_vars(WindDown)
  /\ \A h \in Helpers : WF_vars(GraceElapses(h))
  /\ WF_vars(ReapPass) /\ WF_vars(AgentReturns)

FairSpec == Spec /\ Fairness

-----------------------------------------------------------------------------
(* Properties.                                                              *)

\* A helper's inflight count is exactly the number of requests that hold it,
\* through every reuse, lost race, drop and Release (pool.go:115,139,144,160):
\* the reaper's only protection of a running call is this count.
InflightCountsCalls ==
  \A h \in Helpers :
    inflight[h] = Cardinality({r \in Requests : pc[r] = "use" /\ handle[r] = h})

\* "a download that takes a minute must not have its helper reaped underneath
\* it" (pool_test.go:154): a reaper pass never takes a helper that a request
\* holds at that moment.
ReaperSparesCalls ==
  [][\A h \in toKill'["reaper"] \ toKill["reaper"] :
       ~ \E r \in Requests : pc[r] = "use" /\ handle[r] = h]_vars

\* While the agent is up, every running helper that has not been told to stop
\* is registered in the pool, still in the hands of the request that spawned
\* it, or on the list of a goroutine that will kill it.  A helper outside all
\* three would hold its container's mount namespace with nobody left to end
\* it (pool.go:55-60).
NoOrphanHelper ==
  \A h \in Helpers :
    (agent = "up" /\ proc[h] = "running" /\ h \notin doomed) =>
      \/ helpers[containerID[h]] = h
      \/ \E r \in Requests : pc[r] = "insert" /\ handle[r] = h
      \/ \E k \in Killers : h \in toKill[k]

\* A helper's watcher always holds the task of the helper's own container:
\* Verify after the watch was armed closes the window in which the number
\* could have been reused (pool.go:177-184).
WatcherPinsItsContainer ==
  \A h \in Helpers : proc[h] # "none" => h \in pinned

\* How far the unlocked cap check can be overshot: entries and spawns under
\* way together never exceed the cap by as many as there are other requests.
CapOvershootBounded ==
  MaxHelpers > 0 =>
    Cardinality(Registered) + Cardinality(Spawners)
      <= (MaxHelpers - 1) + Cardinality(Requests)

\* kill's select exists so that stopWatch is closed once, whoever kills first
\* (pool.go:309-313): the agent never dies of a second close.
NeverClosedTwice == agent # "panicked"

\* "when the container's init exits, the helper is killed at once, grace
\* period or not" (pool.go:58-60): no helper runs on in the namespace of a
\* container that has exited, whatever spawn, race or Close was under way.
NoHelperOutlivesContainer ==
  \A h \in Helpers : \A c \in Containers :
    (proc[h] = "running" /\ containerID[h] = c /\ c \notin alive) ~> (proc[h] # "running")

\* A helper with no call in flight is stopped in the end, or used again: the
\* grace period "bounds" what navigating away leaves behind (pool.go:45-60).
IdleHelperStops ==
  \A h \in Helpers :
    (proc[h] = "running" /\ inflight[h] = 0)
      ~> (proc[h] # "running" \/ inflight[h] > 0)

\* "Nothing may hold a mount namespace past the agent's own life"
\* (pool.go:351): however the agent ends, every helper ends after it.
NoHelperOutlivesAgent ==
  (agent # "up") ~> (\A h \in Helpers : proc[h] # "running")

\* Nothing of the agent runs on in a pod: no helper outlives its container, and
\* none outlives the agent (pool.go:58-60, 279-316).
HelpersEnd == NoHelperOutlivesContainer /\ NoHelperOutlivesAgent
=============================================================================
