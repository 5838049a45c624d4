-------------------------- MODULE HelperPoolProofs --------------------------
(***************************************************************************)
(* Proofs about HelperPool, for any number of containers, requests and     *)
(* helpers and any cap.                                                    *)
(***************************************************************************)
EXTENDS HelperPool, FiniteSetTheorems, TLAPS

-----------------------------------------------------------------------------
(* The inductive invariant.                                                 *)

\* The map files every helper under its own container.
MapOK ==
  /\ \A c \in Containers : helpers[c] # None =>
       containerID[helpers[c]] = c /\ proc[helpers[c]] # "none"
  /\ \A h \in Helpers : proc[h] # "none" => containerID[h] \in Containers

\* Nothing refers to a helper that was not spawned yet.
UnbornOK ==
  \A h \in Helpers : proc[h] = "none" =>
    /\ h \notin dead /\ h \notin watching
    /\ \A r \in Requests : handle[r] # h /\ rival[r] # h

\* A helper that was spawned and not yet registered belongs to one request.
SpawnedOK ==
  \A r \in Requests : pc[r] = "insert" =>
    /\ containerID[handle[r]] = target[r]
    /\ \A c \in Containers : helpers[c] # handle[r]
    /\ \A q \in Requests : rival[q] # handle[r] /\ (q # r => handle[q] # handle[r])

\* A kill list is empty when its goroutine sets it.
KillListsOK ==
  /\ ~stopped => toKill["closer"] = {}
  /\ \A r \in Requests : pc[r] # "discard" => toKill[r] = {}
  /\ \A h \in Helpers : toKill[h] \subseteq {h}

\* A helper marked dead has ended, was told to, or is on a kill list.
DeadOK ==
  \A h \in dead :
    (agent = "up" /\ proc[h] = "running" /\ h \notin doomed) =>
      \E k \in Killers : h \in toKill[k]

\* A request past Verify pinned its container's own task.
PinOK ==
  \A r \in Requests :
    /\ (pc[r] = "verify" /\ target[r] \in alive) => r \in pin
    /\ pc[r] = "start" => r \in pin

PoolInv ==
  /\ TypeOK /\ MapOK /\ UnbornOK /\ SpawnedOK /\ KillListsOK /\ DeadOK
  /\ NoOrphanHelper /\ PinOK /\ WatcherPinsItsContainer

-----------------------------------------------------------------------------
LEMMA PoolInvInit == Init => PoolInv
<1> SUFFICES ASSUME Init PROVE PoolInv
  OBVIOUS
<1> USE PoolAssumption DEF Init
<1>1. TypeOK
  BY DEF TypeOK, Killers
<1>2. MapOK /\ UnbornOK /\ SpawnedOK /\ KillListsOK
  BY DEF MapOK, UnbornOK, SpawnedOK, KillListsOK, Killers
<1>3. DeadOK /\ NoOrphanHelper /\ PinOK /\ WatcherPinsItsContainer
  BY DEF DeadOK, NoOrphanHelper, PinOK, WatcherPinsItsContainer
<1>4. QED
  BY <1>1, <1>2, <1>3 DEF PoolInv

LEMMA PoolInvStep == PoolInv /\ [Next]_vars => PoolInv'
<1> SUFFICES ASSUME PoolInv, [Next]_vars PROVE PoolInv'
  OBVIOUS
<1> USE PoolAssumption DEF PoolInv
<1>1. ASSUME NEW r \in Requests, NEW c \in Containers, AcquireReuse(r, c)
       PROVE  PoolInv'
  <2> USE <1>1 DEF AcquireReuse, HasLive, AddCall, helperVars, reqVars, killVars
  <2>1. TypeOK'
    BY DEF TypeOK, Killers
  <2>2. MapOK' /\ UnbornOK' /\ SpawnedOK'
    BY DEF TypeOK, MapOK, UnbornOK, SpawnedOK
  <2>3. KillListsOK'
    BY DEF TypeOK, Killers, KillListsOK
  <2>4. DeadOK'
    BY DEF TypeOK, Killers, UnbornOK, KillListsOK, DeadOK
  <2>5. NoOrphanHelper'
    BY DEF TypeOK, Killers, MapOK, UnbornOK, SpawnedOK, KillListsOK, NoOrphanHelper
  <2>6. PinOK' /\ WatcherPinsItsContainer'
    BY DEF TypeOK, PinOK, WatcherPinsItsContainer
  <2>7. QED
    BY <2>1, <2>2, <2>3, <2>4, <2>5, <2>6 DEF PoolInv
<1>2. ASSUME NEW r \in Requests, NEW c \in Containers, AcquireSpawn(r, c)
       PROVE  PoolInv'
  <2> USE <1>2 DEF AcquireSpawn, HasLive, helperVars, reqVars, killVars
  <2>1. TypeOK'
    BY DEF TypeOK, Killers
  <2>2. MapOK' /\ UnbornOK' /\ SpawnedOK'
    BY DEF TypeOK, MapOK, UnbornOK, SpawnedOK
  <2>3. KillListsOK'
    BY DEF TypeOK, Killers, KillListsOK
  <2>4. DeadOK'
    BY DEF TypeOK, Killers, UnbornOK, KillListsOK, DeadOK
  <2>5. NoOrphanHelper'
    BY DEF TypeOK, Killers, MapOK, UnbornOK, SpawnedOK, KillListsOK, NoOrphanHelper
  <2>6. PinOK' /\ WatcherPinsItsContainer'
    BY DEF TypeOK, PinOK, WatcherPinsItsContainer
  <2>7. QED
    BY <2>1, <2>2, <2>3, <2>4, <2>5, <2>6 DEF PoolInv
<1>3. ASSUME NEW r \in Requests, SpawnWatch(r)
       PROVE  PoolInv'
  <2> USE <1>3 DEF SpawnWatch, helperVars, reqVars, killVars
  <2>1. TypeOK'
    BY DEF TypeOK, Killers
  <2>2. MapOK' /\ UnbornOK' /\ SpawnedOK'
    BY DEF TypeOK, MapOK, UnbornOK, SpawnedOK
  <2>3. KillListsOK'
    BY DEF TypeOK, Killers, KillListsOK
  <2>4. DeadOK'
    BY DEF TypeOK, Killers, UnbornOK, KillListsOK, DeadOK
  <2>5. NoOrphanHelper'
    BY DEF TypeOK, Killers, MapOK, UnbornOK, SpawnedOK, KillListsOK, NoOrphanHelper
  <2>6. PinOK' /\ WatcherPinsItsContainer'
    BY DEF TypeOK, PinOK, WatcherPinsItsContainer
  <2>7. QED
    BY <2>1, <2>2, <2>3, <2>4, <2>5, <2>6 DEF PoolInv
<1>4. ASSUME NEW r \in Requests, SpawnVerify(r)
       PROVE  PoolInv'
  <2> USE <1>4 DEF SpawnVerify, Verified, helperVars, reqVars, killVars
  <2>1. TypeOK'
    BY DEF TypeOK, Killers
  <2>2. MapOK' /\ UnbornOK' /\ SpawnedOK'
    BY DEF TypeOK, MapOK, UnbornOK, SpawnedOK
  <2>3. KillListsOK'
    BY DEF TypeOK, Killers, KillListsOK
  <2>4. DeadOK'
    BY DEF TypeOK, Killers, UnbornOK, KillListsOK, DeadOK
  <2>5. NoOrphanHelper'
    BY DEF TypeOK, Killers, MapOK, UnbornOK, SpawnedOK, KillListsOK, NoOrphanHelper
  <2>6. PinOK' /\ WatcherPinsItsContainer'
    BY DEF TypeOK, PinOK, WatcherPinsItsContainer
  <2>7. QED
    BY <2>1, <2>2, <2>3, <2>4, <2>5, <2>6 DEF PoolInv
<1>5. ASSUME NEW r \in Requests, NEW h \in Helpers, SpawnStart(r, h)
       PROVE  PoolInv'
  <2> USE <1>5 DEF SpawnStart, helperVars, reqVars, killVars
  <2>1. TypeOK'
    BY DEF TypeOK, Killers
  <2>2. MapOK' /\ UnbornOK' /\ SpawnedOK'
    BY DEF TypeOK, MapOK, UnbornOK, SpawnedOK
  <2>3. KillListsOK'
    BY DEF TypeOK, Killers, KillListsOK
  <2>4. DeadOK'
    BY DEF TypeOK, Killers, UnbornOK, KillListsOK, DeadOK
  <2>5. NoOrphanHelper'
    BY DEF TypeOK, Killers, MapOK, UnbornOK, SpawnedOK, KillListsOK, NoOrphanHelper
  <2>6. PinOK' /\ WatcherPinsItsContainer'
    BY DEF TypeOK, PinOK, WatcherPinsItsContainer
  <2>7. QED
    BY <2>1, <2>2, <2>3, <2>4, <2>5, <2>6 DEF PoolInv
<1>6. ASSUME NEW r \in Requests, SpawnFails(r)
       PROVE  PoolInv'
  <2> USE <1>6 DEF SpawnFails, helperVars, reqVars, killVars
  <2>1. TypeOK'
    BY DEF TypeOK, Killers
  <2>2. MapOK' /\ UnbornOK' /\ SpawnedOK'
    BY DEF TypeOK, MapOK, UnbornOK, SpawnedOK
  <2>3. KillListsOK'
    BY DEF TypeOK, Killers, KillListsOK
  <2>4. DeadOK'
    BY DEF TypeOK, Killers, UnbornOK, KillListsOK, DeadOK
  <2>5. NoOrphanHelper'
    BY DEF TypeOK, Killers, MapOK, UnbornOK, SpawnedOK, KillListsOK, NoOrphanHelper
  <2>6. PinOK' /\ WatcherPinsItsContainer'
    BY DEF TypeOK, PinOK, WatcherPinsItsContainer
  <2>7. QED
    BY <2>1, <2>2, <2>3, <2>4, <2>5, <2>6 DEF PoolInv
<1>7. ASSUME NEW r \in Requests, AcquireInsert(r)
       PROVE  PoolInv'
  <2> USE <1>7 DEF AcquireInsert, LostRace, HasLive, helperVars, reqVars, killVars
  <2>1. TypeOK'
    BY DEF TypeOK, Killers
  <2>2. MapOK' /\ UnbornOK' /\ SpawnedOK'
    BY DEF TypeOK, MapOK, UnbornOK, SpawnedOK
  <2>3. KillListsOK'
    BY DEF TypeOK, Killers, KillListsOK
  <2>4. DeadOK'
    BY DEF TypeOK, Killers, UnbornOK, KillListsOK, DeadOK
  <2>5. NoOrphanHelper'
    BY DEF TypeOK, Killers, MapOK, UnbornOK, SpawnedOK, KillListsOK, DeadOK,
           NoOrphanHelper
  <2>6. PinOK' /\ WatcherPinsItsContainer'
    BY DEF TypeOK, PinOK, WatcherPinsItsContainer
  <2>7. QED
    BY <2>1, <2>2, <2>3, <2>4, <2>5, <2>6 DEF PoolInv
<1>8. ASSUME NEW r \in Requests, AcquireLostRace(r)
       PROVE  PoolInv'
  <2> USE <1>8 DEF AcquireLostRace, LostRace, HasLive, helperVars, reqVars, killVars
  <2>1. TypeOK'
    BY DEF TypeOK, Killers
  <2>2. MapOK' /\ UnbornOK' /\ SpawnedOK'
    BY DEF TypeOK, MapOK, UnbornOK, SpawnedOK
  <2>3. KillListsOK'
    BY DEF TypeOK, Killers, KillListsOK
  <2>4. DeadOK'
    BY DEF TypeOK, Killers, UnbornOK, KillListsOK, DeadOK
  <2>5. NoOrphanHelper'
    BY DEF TypeOK, Killers, MapOK, UnbornOK, SpawnedOK, KillListsOK, NoOrphanHelper
  <2>6. PinOK' /\ WatcherPinsItsContainer'
    BY DEF TypeOK, PinOK, WatcherPinsItsContainer
  <2>7. QED
    BY <2>1, <2>2, <2>3, <2>4, <2>5, <2>6 DEF PoolInv
<1>9. ASSUME NEW r \in Requests, AcquireAdopt(r)
       PROVE  PoolInv'
  <2> USE <1>9 DEF AcquireAdopt, AddCall, helperVars, reqVars, killVars
  <2>1. TypeOK'
    BY DEF TypeOK, Killers
  <2>2. MapOK' /\ UnbornOK' /\ SpawnedOK'
    BY DEF TypeOK, MapOK, UnbornOK, SpawnedOK
  <2>3. KillListsOK'
    BY DEF TypeOK, Killers, KillListsOK
  <2>4. DeadOK'
    BY DEF TypeOK, Killers, UnbornOK, KillListsOK, DeadOK
  <2>5. NoOrphanHelper'
    BY DEF TypeOK, Killers, MapOK, UnbornOK, SpawnedOK, KillListsOK, NoOrphanHelper
  <2>6. PinOK' /\ WatcherPinsItsContainer'
    BY DEF TypeOK, PinOK, WatcherPinsItsContainer
  <2>7. QED
    BY <2>1, <2>2, <2>3, <2>4, <2>5, <2>6 DEF PoolInv
<1>10. ASSUME NEW r \in Requests, Release(r)
       PROVE  PoolInv'
  <2> USE <1>10 DEF Release, helperVars, reqVars, killVars
  <2>1. TypeOK'
    BY DEF TypeOK, Killers
  <2>2. MapOK' /\ UnbornOK' /\ SpawnedOK'
    BY DEF TypeOK, MapOK, UnbornOK, SpawnedOK
  <2>3. KillListsOK'
    BY DEF TypeOK, Killers, KillListsOK
  <2>4. DeadOK'
    BY DEF TypeOK, Killers, UnbornOK, KillListsOK, DeadOK
  <2>5. NoOrphanHelper'
    BY DEF TypeOK, Killers, MapOK, UnbornOK, SpawnedOK, KillListsOK, NoOrphanHelper
  <2>6. PinOK' /\ WatcherPinsItsContainer'
    BY DEF TypeOK, PinOK, WatcherPinsItsContainer
  <2>7. QED
    BY <2>1, <2>2, <2>3, <2>4, <2>5, <2>6 DEF PoolInv
<1>11. ASSUME NEW k \in Killers, NEW h \in Helpers, KillClosed(k, h)
       PROVE  PoolInv'
  <2> USE <1>11 DEF KillClosed, helperVars, reqVars, killVars
  <2>1. TypeOK'
    BY DEF TypeOK, Killers
  <2>2. MapOK' /\ UnbornOK' /\ SpawnedOK'
    BY DEF TypeOK, MapOK, UnbornOK, SpawnedOK
  <2>3. KillListsOK'
    BY DEF TypeOK, Killers, KillListsOK
  <2>4. DeadOK'
    BY DEF TypeOK, Killers, UnbornOK, KillListsOK, DeadOK
  <2>5. NoOrphanHelper'
    BY DEF TypeOK, Killers, MapOK, UnbornOK, SpawnedOK, KillListsOK, NoOrphanHelper
  <2>6. PinOK' /\ WatcherPinsItsContainer'
    BY DEF TypeOK, PinOK, WatcherPinsItsContainer
  <2>7. QED
    BY <2>1, <2>2, <2>3, <2>4, <2>5, <2>6 DEF PoolInv
<1>12. ASSUME NEW k \in Killers, NEW h \in Helpers, KillOpen(k, h)
       PROVE  PoolInv'
  <2> USE <1>12 DEF KillOpen, helperVars, reqVars, killVars
  <2>1. TypeOK'
    BY DEF TypeOK, Killers
  <2>2. MapOK' /\ UnbornOK' /\ SpawnedOK'
    BY DEF TypeOK, MapOK, UnbornOK, SpawnedOK
  <2>3. KillListsOK'
    BY DEF TypeOK, Killers, KillListsOK
  <2>4. DeadOK'
    BY DEF TypeOK, Killers, UnbornOK, KillListsOK, DeadOK
  <2>5. NoOrphanHelper'
    BY DEF TypeOK, Killers, MapOK, UnbornOK, SpawnedOK, KillListsOK, NoOrphanHelper
  <2>6. PinOK' /\ WatcherPinsItsContainer'
    BY DEF TypeOK, PinOK, WatcherPinsItsContainer
  <2>7. QED
    BY <2>1, <2>2, <2>3, <2>4, <2>5, <2>6 DEF PoolInv
<1>13. ASSUME NEW k \in Killers, KillClose(k)
       PROVE  PoolInv'
  <2> USE <1>13 DEF KillClose, helperVars, reqVars, killVars
  <2>1. TypeOK'
    BY DEF TypeOK, Killers
  <2>2. MapOK' /\ UnbornOK' /\ SpawnedOK'
    BY DEF TypeOK, MapOK, UnbornOK, SpawnedOK
  <2>3. KillListsOK'
    BY DEF TypeOK, Killers, KillListsOK
  <2>4. DeadOK'
    BY DEF TypeOK, Killers, UnbornOK, KillListsOK, DeadOK
  <2>5. NoOrphanHelper'
    BY DEF TypeOK, Killers, MapOK, UnbornOK, SpawnedOK, KillListsOK, NoOrphanHelper
  <2>6. PinOK' /\ WatcherPinsItsContainer'
    BY DEF TypeOK, PinOK, WatcherPinsItsContainer
  <2>7. QED
    BY <2>1, <2>2, <2>3, <2>4, <2>5, <2>6 DEF PoolInv
<1>14. ASSUME NEW k \in Killers, KillPanics(k)
       PROVE  PoolInv'
  <2> USE <1>14 DEF KillPanics, helperVars, reqVars, killVars
  <2>1. TypeOK'
    BY DEF TypeOK, Killers
  <2>2. MapOK' /\ UnbornOK' /\ SpawnedOK'
    BY DEF TypeOK, MapOK, UnbornOK, SpawnedOK
  <2>3. KillListsOK'
    BY DEF TypeOK, Killers, KillListsOK
  <2>4. DeadOK'
    BY DEF TypeOK, Killers, UnbornOK, KillListsOK, DeadOK
  <2>5. NoOrphanHelper'
    BY DEF TypeOK, Killers, MapOK, UnbornOK, SpawnedOK, KillListsOK, NoOrphanHelper
  <2>6. PinOK' /\ WatcherPinsItsContainer'
    BY DEF TypeOK, PinOK, WatcherPinsItsContainer
  <2>7. QED
    BY <2>1, <2>2, <2>3, <2>4, <2>5, <2>6 DEF PoolInv
<1>15. ASSUME NEW h \in Helpers, WatcherFires(h)
       PROVE  PoolInv'
  <2> USE <1>15 DEF WatcherFires, Drop, helperVars, reqVars, killVars
  <2>1. TypeOK'
    BY DEF TypeOK, Killers
  <2>2. MapOK' /\ UnbornOK' /\ SpawnedOK'
    BY DEF TypeOK, MapOK, UnbornOK, SpawnedOK
  <2>3. KillListsOK'
    BY DEF TypeOK, Killers, KillListsOK
  <2>4. DeadOK'
    BY DEF TypeOK, Killers, UnbornOK, KillListsOK, DeadOK
  <2>5. NoOrphanHelper'
    BY DEF TypeOK, Killers, MapOK, UnbornOK, SpawnedOK, KillListsOK, NoOrphanHelper
  <2>6. PinOK' /\ WatcherPinsItsContainer'
    BY DEF TypeOK, PinOK, WatcherPinsItsContainer
  <2>7. QED
    BY <2>1, <2>2, <2>3, <2>4, <2>5, <2>6 DEF PoolInv
<1>16. ASSUME NEW h \in Helpers, WatcherPollFails(h)
       PROVE  PoolInv'
  <2> USE <1>16 DEF WatcherPollFails, Drop, helperVars, reqVars, killVars
  <2>1. TypeOK'
    BY DEF TypeOK, Killers
  <2>2. MapOK' /\ UnbornOK' /\ SpawnedOK'
    BY DEF TypeOK, MapOK, UnbornOK, SpawnedOK
  <2>3. KillListsOK'
    BY DEF TypeOK, Killers, KillListsOK
  <2>4. DeadOK'
    BY DEF TypeOK, Killers, UnbornOK, KillListsOK, DeadOK
  <2>5. NoOrphanHelper'
    BY DEF TypeOK, Killers, MapOK, UnbornOK, SpawnedOK, KillListsOK, NoOrphanHelper
  <2>6. PinOK' /\ WatcherPinsItsContainer'
    BY DEF TypeOK, PinOK, WatcherPinsItsContainer
  <2>7. QED
    BY <2>1, <2>2, <2>3, <2>4, <2>5, <2>6 DEF PoolInv
<1>17. ASSUME NEW h \in Helpers, WaitReturns(h)
       PROVE  PoolInv'
  <2> USE <1>17 DEF WaitReturns, helperVars, reqVars, killVars
  <2>1. TypeOK'
    BY DEF TypeOK, Killers
  <2>2. MapOK' /\ UnbornOK' /\ SpawnedOK'
    BY DEF TypeOK, MapOK, UnbornOK, SpawnedOK
  <2>3. KillListsOK'
    BY DEF TypeOK, Killers, KillListsOK
  <2>4. DeadOK'
    BY DEF TypeOK, Killers, UnbornOK, KillListsOK, DeadOK
  <2>5. NoOrphanHelper'
    BY DEF TypeOK, Killers, MapOK, UnbornOK, SpawnedOK, KillListsOK, NoOrphanHelper
  <2>6. PinOK' /\ WatcherPinsItsContainer'
    BY DEF TypeOK, PinOK, WatcherPinsItsContainer
  <2>7. QED
    BY <2>1, <2>2, <2>3, <2>4, <2>5, <2>6 DEF PoolInv
<1>18. ASSUME NEW h \in Helpers, GraceElapses(h)
       PROVE  PoolInv'
  <2> USE <1>18 DEF GraceElapses, helperVars, reqVars, killVars
  <2>1. TypeOK'
    BY DEF TypeOK, Killers
  <2>2. MapOK' /\ UnbornOK' /\ SpawnedOK'
    BY DEF TypeOK, MapOK, UnbornOK, SpawnedOK
  <2>3. KillListsOK'
    BY DEF TypeOK, Killers, KillListsOK
  <2>4. DeadOK'
    BY DEF TypeOK, Killers, UnbornOK, KillListsOK, DeadOK
  <2>5. NoOrphanHelper'
    BY DEF TypeOK, Killers, MapOK, UnbornOK, SpawnedOK, KillListsOK, NoOrphanHelper
  <2>6. PinOK' /\ WatcherPinsItsContainer'
    BY DEF TypeOK, PinOK, WatcherPinsItsContainer
  <2>7. QED
    BY <2>1, <2>2, <2>3, <2>4, <2>5, <2>6 DEF PoolInv
<1>19. ASSUME NEW h \in Helpers, HelperEnds(h)
       PROVE  PoolInv'
  <2> USE <1>19 DEF HelperEnds, helperVars, reqVars, killVars
  <2>1. TypeOK'
    BY DEF TypeOK, Killers
  <2>2. MapOK' /\ UnbornOK' /\ SpawnedOK'
    BY DEF TypeOK, MapOK, UnbornOK, SpawnedOK
  <2>3. KillListsOK'
    BY DEF TypeOK, Killers, KillListsOK
  <2>4. DeadOK'
    BY DEF TypeOK, Killers, UnbornOK, KillListsOK, DeadOK
  <2>5. NoOrphanHelper'
    BY DEF TypeOK, Killers, MapOK, UnbornOK, SpawnedOK, KillListsOK, NoOrphanHelper
  <2>6. PinOK' /\ WatcherPinsItsContainer'
    BY DEF TypeOK, PinOK, WatcherPinsItsContainer
  <2>7. QED
    BY <2>1, <2>2, <2>3, <2>4, <2>5, <2>6 DEF PoolInv
<1>20. ASSUME NEW h \in Helpers, HelperCrashes(h)
       PROVE  PoolInv'
  <2> USE <1>20 DEF HelperCrashes, helperVars, reqVars, killVars
  <2>1. TypeOK'
    BY DEF TypeOK, Killers
  <2>2. MapOK' /\ UnbornOK' /\ SpawnedOK'
    BY DEF TypeOK, MapOK, UnbornOK, SpawnedOK
  <2>3. KillListsOK'
    BY DEF TypeOK, Killers, KillListsOK
  <2>4. DeadOK'
    BY DEF TypeOK, Killers, UnbornOK, KillListsOK, DeadOK
  <2>5. NoOrphanHelper'
    BY DEF TypeOK, Killers, MapOK, UnbornOK, SpawnedOK, KillListsOK, NoOrphanHelper
  <2>6. PinOK' /\ WatcherPinsItsContainer'
    BY DEF TypeOK, PinOK, WatcherPinsItsContainer
  <2>7. QED
    BY <2>1, <2>2, <2>3, <2>4, <2>5, <2>6 DEF PoolInv
<1>21. ASSUME NEW c \in Containers, ContainerExits(c)
       PROVE  PoolInv'
  <2> USE <1>21 DEF ContainerExits, helperVars, reqVars, killVars
  <2>1. TypeOK'
    BY DEF TypeOK, Killers
  <2>2. MapOK' /\ UnbornOK' /\ SpawnedOK'
    BY DEF TypeOK, MapOK, UnbornOK, SpawnedOK
  <2>3. KillListsOK'
    BY DEF TypeOK, Killers, KillListsOK
  <2>4. DeadOK'
    BY DEF TypeOK, Killers, UnbornOK, KillListsOK, DeadOK
  <2>5. NoOrphanHelper'
    BY DEF TypeOK, Killers, MapOK, UnbornOK, SpawnedOK, KillListsOK, NoOrphanHelper
  <2>6. PinOK' /\ WatcherPinsItsContainer'
    BY DEF TypeOK, PinOK, WatcherPinsItsContainer
  <2>7. QED
    BY <2>1, <2>2, <2>3, <2>4, <2>5, <2>6 DEF PoolInv
<1>22. ASSUME ReapPass
       PROVE  PoolInv'
  <2> USE <1>22 DEF ReapPass, Expired, helperVars, reqVars, killVars
  <2>1. TypeOK'
    BY DEF TypeOK, Killers
  <2>2. MapOK' /\ UnbornOK' /\ SpawnedOK'
    BY DEF TypeOK, MapOK, UnbornOK, SpawnedOK
  <2>3. KillListsOK'
    BY DEF TypeOK, Killers, KillListsOK
  <2>4. DeadOK'
    BY DEF TypeOK, Killers, UnbornOK, KillListsOK, DeadOK
  <2>5. NoOrphanHelper'
    BY DEF TypeOK, Killers, MapOK, UnbornOK, SpawnedOK, KillListsOK, NoOrphanHelper
  <2>6. PinOK' /\ WatcherPinsItsContainer'
    BY DEF TypeOK, PinOK, WatcherPinsItsContainer
  <2>7. QED
    BY <2>1, <2>2, <2>3, <2>4, <2>5, <2>6 DEF PoolInv
<1>23. ASSUME ReapStops
       PROVE  PoolInv'
  <2> USE <1>23 DEF ReapStops, helperVars, reqVars, killVars
  <2>1. TypeOK'
    BY DEF TypeOK, Killers
  <2>2. MapOK' /\ UnbornOK' /\ SpawnedOK'
    BY DEF TypeOK, MapOK, UnbornOK, SpawnedOK
  <2>3. KillListsOK'
    BY DEF TypeOK, Killers, KillListsOK
  <2>4. DeadOK'
    BY DEF TypeOK, Killers, UnbornOK, KillListsOK, DeadOK
  <2>5. NoOrphanHelper'
    BY DEF TypeOK, Killers, MapOK, UnbornOK, SpawnedOK, KillListsOK, NoOrphanHelper
  <2>6. PinOK' /\ WatcherPinsItsContainer'
    BY DEF TypeOK, PinOK, WatcherPinsItsContainer
  <2>7. QED
    BY <2>1, <2>2, <2>3, <2>4, <2>5, <2>6 DEF PoolInv
<1>24. ASSUME Close
       PROVE  PoolInv'
  <2> USE <1>24 DEF Close, Registered, helperVars, reqVars, killVars
  <2>1. TypeOK'
    BY DEF TypeOK, Killers
  <2>2. MapOK' /\ UnbornOK' /\ SpawnedOK'
    BY DEF TypeOK, MapOK, UnbornOK, SpawnedOK
  <2>3. KillListsOK'
    BY DEF TypeOK, Killers, KillListsOK
  <2>4. DeadOK'
    BY DEF TypeOK, Killers, UnbornOK, KillListsOK, DeadOK
  <2>5. NoOrphanHelper'
    <3> SUFFICES ASSUME NEW h \in Helpers, proc[h] = "running", h \notin doomed
                 PROVE  \/ \E r \in Requests : pc[r] = "insert" /\ handle[r] = h
                        \/ \E k \in Killers : h \in toKill'[k]
      BY DEF NoOrphanHelper
    <3>1. CASE helpers[containerID[h]] = h
      <4>1. containerID[h] \in Registered
        BY <3>1 DEF TypeOK, MapOK
      <4>2. h \in {helpers[c] : c \in Registered}
        BY <3>1, <4>1
      <4>3. toKill'["closer"] = {helpers[c] : c \in Registered}
        BY DEF TypeOK, Killers
      <4>4. QED
        BY <4>2, <4>3 DEF Killers
    <3>2. CASE \E r \in Requests : pc[r] = "insert" /\ handle[r] = h
      BY <3>2
    <3>3. CASE \E k \in Killers : h \in toKill[k]
      BY <3>3 DEF TypeOK, Killers, KillListsOK
    <3>4. QED
      BY <3>1, <3>2, <3>3 DEF NoOrphanHelper
  <2>6. PinOK' /\ WatcherPinsItsContainer'
    BY DEF TypeOK, PinOK, WatcherPinsItsContainer
  <2>7. QED
    BY <2>1, <2>2, <2>3, <2>4, <2>5, <2>6 DEF PoolInv
<1>25. ASSUME AgentReturns
       PROVE  PoolInv'
  <2> USE <1>25 DEF AgentReturns, helperVars, reqVars, killVars
  <2>1. TypeOK'
    BY DEF TypeOK, Killers
  <2>2. MapOK' /\ UnbornOK' /\ SpawnedOK'
    BY DEF TypeOK, MapOK, UnbornOK, SpawnedOK
  <2>3. KillListsOK'
    BY DEF TypeOK, Killers, KillListsOK
  <2>4. DeadOK'
    BY DEF TypeOK, Killers, UnbornOK, KillListsOK, DeadOK
  <2>5. NoOrphanHelper'
    BY DEF TypeOK, Killers, MapOK, UnbornOK, SpawnedOK, KillListsOK, NoOrphanHelper
  <2>6. PinOK' /\ WatcherPinsItsContainer'
    BY DEF TypeOK, PinOK, WatcherPinsItsContainer
  <2>7. QED
    BY <2>1, <2>2, <2>3, <2>4, <2>5, <2>6 DEF PoolInv
<1>26. ASSUME AgentKilled
       PROVE  PoolInv'
  <2> USE <1>26 DEF AgentKilled, helperVars, reqVars, killVars
  <2>1. TypeOK'
    BY DEF TypeOK, Killers
  <2>2. MapOK' /\ UnbornOK' /\ SpawnedOK'
    BY DEF TypeOK, MapOK, UnbornOK, SpawnedOK
  <2>3. KillListsOK'
    BY DEF TypeOK, Killers, KillListsOK
  <2>4. DeadOK'
    BY DEF TypeOK, Killers, UnbornOK, KillListsOK, DeadOK
  <2>5. NoOrphanHelper'
    BY DEF TypeOK, Killers, MapOK, UnbornOK, SpawnedOK, KillListsOK, NoOrphanHelper
  <2>6. PinOK' /\ WatcherPinsItsContainer'
    BY DEF TypeOK, PinOK, WatcherPinsItsContainer
  <2>7. QED
    BY <2>1, <2>2, <2>3, <2>4, <2>5, <2>6 DEF PoolInv
<1>27. CASE UNCHANGED vars
  BY <1>27 DEF PoolInv, TypeOK, MapOK, UnbornOK, SpawnedOK, KillListsOK, DeadOK,
     NoOrphanHelper, PinOK, WatcherPinsItsContainer, vars, helperVars, reqVars, killVars
<1>28. QED
  BY <1>1, <1>2, <1>3, <1>4, <1>5, <1>6, <1>7, <1>8, <1>9, <1>10, <1>11, <1>12,
     <1>13, <1>14, <1>15, <1>16, <1>17, <1>18, <1>19, <1>20, <1>21, <1>22, <1>23,
     <1>24, <1>25, <1>26, <1>27
     DEF Next, RequestStep, KillStep, HelperStep

\* The pool never loses a helper (pool.go:55-60), its watchers hold the right
\* tasks (pool.go:177-184), and every state has the right shape.
THEOREM PoolInvariant == Spec => []PoolInv
<1>1. QED
  BY PoolInvInit, PoolInvStep, PTL DEF Spec

\* Type correctness of the pool and its requests (pool.go:20-76).
THEOREM TypeCorrect == Spec => []TypeOK
<1>1. PoolInv => TypeOK
  BY DEF PoolInv
<1>2. QED
  BY <1>1, PoolInvariant, PTL

\* No helper is ever left without someone to end it (pool.go:55-60).
THEOREM NoOrphan == Spec => []NoOrphanHelper
<1>1. PoolInv => NoOrphanHelper
  BY DEF PoolInv
<1>2. QED
  BY <1>1, PoolInvariant, PTL

\* Every helper's watcher waits on its own container (pool.go:177-184).
THEOREM WatcherCorrect == Spec => []WatcherPinsItsContainer
<1>1. PoolInv => WatcherPinsItsContainer
  BY DEF PoolInv
<1>2. QED
  BY <1>1, PoolInvariant, PTL

-----------------------------------------------------------------------------
(* Calls in flight.                                                         *)

Calls(h) == {r \in Requests : pc[r] = "use" /\ handle[r] = h}

\* The calls on a helper are finitely many.
LEMMA CallsFinite == ASSUME NEW h PROVE IsFiniteSet(Calls(h))
BY PoolAssumption, FS_Subset DEF Calls

\* A step that moves no request into or out of "use" and leaves the counts
\* alone keeps them right.
LEMMA CallsUnchanged ==
  ASSUME InflightCountsCalls, inflight' = inflight,
         \A r \in Requests : /\ pc[r] = "use" <=> pc'[r] = "use"
                             /\ pc[r] = "use" => handle'[r] = handle[r]
  PROVE  InflightCountsCalls'
<1>1. \A h \in Helpers : Calls(h)' = Calls(h)
  BY DEF Calls
<1>2. QED
  BY <1>1 DEF InflightCountsCalls, Calls

\* A request that starts to use helper g, while g's count goes up by one.
LEMMA CallsAdded ==
  ASSUME TypeOK, InflightCountsCalls, NEW r \in Requests, NEW g \in Helpers,
         pc[r] # "use", pc' = [pc EXCEPT ![r] = "use"],
         handle' = [handle EXCEPT ![r] = g],
         inflight' = [inflight EXCEPT ![g] = inflight[g] + 1]
  PROVE  InflightCountsCalls'
<1>1. Calls(g)' = Calls(g) \cup {r} /\ r \notin Calls(g)
  BY DEF Calls, TypeOK
<1>2. Cardinality(Calls(g)') = Cardinality(Calls(g)) + 1
  BY <1>1, CallsFinite, FS_AddElement
<1>3. \A h \in Helpers \ {g} : Calls(h)' = Calls(h)
  BY DEF Calls, TypeOK
<1>4. \A h \in Helpers : inflight[h] = Cardinality(Calls(h))
  BY DEF InflightCountsCalls, Calls
<1>5. \A h \in Helpers : inflight'[h] = Cardinality(Calls(h)')
  <2>1. inflight'[g] = Cardinality(Calls(g)')
    BY <1>2, <1>4 DEF TypeOK
  <2>2. \A h \in Helpers \ {g} : inflight'[h] = Cardinality(Calls(h)')
    BY <1>3, <1>4 DEF TypeOK
  <2>3. QED
    BY <2>1, <2>2
<1>6. QED
  BY <1>5 DEF InflightCountsCalls, Calls

\* A request that stops using its helper, while the count goes down by one.
LEMMA CallsRemoved ==
  ASSUME TypeOK, InflightCountsCalls, NEW r \in Requests, NEW g \in Helpers,
         pc[r] = "use", handle[r] = g, pc' = [pc EXCEPT ![r] = "idle"],
         handle' = [handle EXCEPT ![r] = None],
         inflight' = [inflight EXCEPT ![g] = IF @ > 0 THEN @ - 1 ELSE @]
  PROVE  InflightCountsCalls'
<1>1. Calls(g)' = Calls(g) \ {r} /\ r \in Calls(g)
  BY DEF Calls, TypeOK
<1>2. /\ Cardinality(Calls(g)') = Cardinality(Calls(g)) - 1
      /\ Cardinality(Calls(g)) \in Nat /\ Cardinality(Calls(g)) # 0
  BY <1>1, CallsFinite, FS_RemoveElement, FS_CardinalityType, FS_EmptySet
<1>3. \A h \in Helpers \ {g} : Calls(h)' = Calls(h)
  BY DEF Calls, TypeOK
<1>4. \A h \in Helpers : inflight[h] = Cardinality(Calls(h))
  BY DEF InflightCountsCalls, Calls
<1>5. \A h \in Helpers : inflight'[h] = Cardinality(Calls(h)')
  <2>1. inflight'[g] = Cardinality(Calls(g)')
    BY <1>2, <1>4 DEF TypeOK
  <2>2. \A h \in Helpers \ {g} : inflight'[h] = Cardinality(Calls(h)')
    BY <1>3, <1>4 DEF TypeOK
  <2>3. QED
    BY <2>1, <2>2
<1>6. QED
  BY <1>5 DEF InflightCountsCalls, Calls

CountInv == PoolInv /\ InflightCountsCalls

LEMMA CountInvInit == Init => CountInv
<1> SUFFICES ASSUME Init PROVE InflightCountsCalls
  BY PoolInvInit DEF CountInv
<1>1. \A h \in Helpers : Calls(h) = {}
  BY DEF Init, Calls
<1>2. QED
  BY <1>1, FS_EmptySet DEF InflightCountsCalls, Calls, Init

LEMMA CountInvStep == CountInv /\ [Next]_vars => CountInv'
<1> SUFFICES ASSUME PoolInv, InflightCountsCalls, [Next]_vars
             PROVE  InflightCountsCalls'
  BY PoolInvStep DEF CountInv
<1> USE PoolAssumption DEF PoolInv
<1>1. ASSUME NEW r \in Requests, NEW c \in Containers, AcquireReuse(r, c)
      PROVE  InflightCountsCalls'
  BY <1>1, CallsAdded DEF AcquireReuse, HasLive, AddCall, TypeOK
<1>2. ASSUME NEW r \in Requests, AcquireAdopt(r)
      PROVE  InflightCountsCalls'
  BY <1>2, CallsAdded DEF AcquireAdopt, AddCall, TypeOK
<1>3. ASSUME NEW r \in Requests, AcquireInsert(r)
      PROVE  InflightCountsCalls'
  <2>1. Calls(handle[r]) = {}
    BY <1>3 DEF AcquireInsert, Calls, SpawnedOK, TypeOK
  <2>2. inflight[handle[r]] = 0
    BY <1>3, <2>1, FS_EmptySet DEF AcquireInsert, InflightCountsCalls, Calls, TypeOK
  <2>3. inflight' = [inflight EXCEPT ![handle[r]] = inflight[handle[r]] + 1]
    BY <1>3, <2>2 DEF AcquireInsert
  <2>4. handle' = [handle EXCEPT ![r] = handle[r]]
    BY <1>3 DEF AcquireInsert, TypeOK
  <2>5. QED
    BY <1>3, <2>3, <2>4, CallsAdded DEF AcquireInsert, TypeOK
<1>4. ASSUME NEW r \in Requests, Release(r)
      PROVE  InflightCountsCalls'
  BY <1>4, CallsRemoved DEF Release, TypeOK
<1>5. ASSUME NEW r \in Requests, NEW c \in Containers, AcquireSpawn(r, c)
      PROVE  InflightCountsCalls'
  BY <1>5, CallsUnchanged DEF AcquireSpawn, TypeOK, helperVars
<1>6. ASSUME NEW r \in Requests, SpawnWatch(r) \/ SpawnVerify(r) \/ SpawnFails(r)
      PROVE  InflightCountsCalls'
  BY <1>6, CallsUnchanged DEF SpawnWatch, SpawnVerify, SpawnFails, TypeOK, helperVars
<1>7. ASSUME NEW r \in Requests, NEW h \in Helpers, SpawnStart(r, h)
      PROVE  InflightCountsCalls'
  BY <1>7, CallsUnchanged DEF SpawnStart, TypeOK
<1>8. ASSUME NEW r \in Requests, AcquireLostRace(r)
      PROVE  InflightCountsCalls'
  BY <1>8, CallsUnchanged DEF AcquireLostRace, TypeOK, helperVars
<1>9. ASSUME NEW k \in Killers, KillStep(k)
      PROVE  InflightCountsCalls'
  BY <1>9, CallsUnchanged
     DEF KillStep, KillClosed, KillOpen, KillClose, KillPanics, reqVars, helperVars
<1>10. ASSUME NEW h \in Helpers, HelperStep(h)
       PROVE  InflightCountsCalls'
  BY <1>10, CallsUnchanged
     DEF HelperStep, WatcherFires, WatcherPollFails, Drop, WaitReturns, GraceElapses,
         HelperEnds, HelperCrashes, reqVars
<1>11. ASSUME \/ \E c \in Containers : ContainerExits(c)
              \/ ReapPass \/ ReapStops \/ Close \/ AgentReturns \/ AgentKilled
       PROVE  InflightCountsCalls'
  BY <1>11, CallsUnchanged
     DEF ContainerExits, ReapPass, ReapStops, Close, AgentReturns, AgentKilled, reqVars,
         helperVars
<1>12. CASE UNCHANGED vars
  BY <1>12, CallsUnchanged DEF vars, reqVars, helperVars
<1>13. QED
  BY <1>1, <1>2, <1>3, <1>4, <1>5, <1>6, <1>7, <1>8, <1>9, <1>10, <1>11, <1>12
     DEF Next, RequestStep

LEMMA CountInvariant == Spec => []CountInv
BY CountInvInit, CountInvStep, PTL DEF Spec

\* A helper's inflight field is the number of requests that hold it
\* (pool.go:115, 139, 144, 160), for any number of racing requests.
THEOREM CallsCounted == Spec => []InflightCountsCalls
<1>1. CountInv => InflightCountsCalls
  BY DEF CountInv
<1>2. QED
  BY <1>1, CountInvariant, PTL

\* A reaper pass never takes a helper a request holds (pool.go:334-340).
THEOREM ReaperSafe == Spec => ReaperSparesCalls
<1>1. ASSUME CountInv, [Next]_vars, NEW h \in toKill'["reaper"] \ toKill["reaper"],
             NEW r \in Requests, pc[r] = "use", handle[r] = h
      PROVE  FALSE
  <2> USE <1>1, PoolAssumption DEF CountInv, PoolInv
  <2>1. h \in Expired
    <3>1. CASE ReapPass
      BY <3>1 DEF ReapPass, TypeOK, Killers
    <3>2. ASSUME NEW q \in Requests, RequestStep(q) PROVE FALSE
      BY <3>2 DEF RequestStep, AcquireReuse, AcquireSpawn, SpawnWatch, SpawnVerify,
         SpawnFails, SpawnStart, AcquireInsert, AcquireLostRace, AcquireAdopt, Release,
         killVars, TypeOK, Killers
    <3>3. ASSUME NEW k \in Killers, KillStep(k) PROVE FALSE
      BY <3>3 DEF KillStep, KillClosed, KillOpen, KillClose, KillPanics, killVars, TypeOK,
         Killers
    <3>4. ASSUME NEW g \in Helpers, HelperStep(g) PROVE FALSE
      BY <3>4 DEF HelperStep, WatcherFires, WatcherPollFails, Drop, WaitReturns,
         GraceElapses, HelperEnds, HelperCrashes, killVars, TypeOK, Killers
    <3>5. ASSUME \/ \E c \in Containers : ContainerExits(c)
                 \/ ReapStops \/ Close \/ AgentReturns \/ AgentKilled
                 \/ UNCHANGED vars
          PROVE  FALSE
      BY <3>5 DEF ContainerExits, ReapStops, Close, AgentReturns, AgentKilled, vars,
         killVars, TypeOK, Killers
    <3>6. QED
      BY <3>1, <3>2, <3>3, <3>4, <3>5 DEF Next
  <2>2. h \in Helpers /\ inflight[h] = 0
    BY <2>1 DEF Expired
  <2>3. Cardinality(Calls(h)) = 0
    BY <2>2 DEF InflightCountsCalls, Calls
  <2>4. Calls(h) = {}
    BY <2>3, CallsFinite, FS_EmptySet
  <2>5. QED
    BY <2>4 DEF Calls
<1>2. CountInv /\ [Next]_vars =>
        [\A h \in toKill'["reaper"] \ toKill["reaper"] :
           ~ \E r \in Requests : pc[r] = "use" /\ handle[r] = h]_vars
  BY <1>1
<1>3. QED
  BY <1>2, CountInvariant, PTL DEF Spec, ReaperSparesCalls

-----------------------------------------------------------------------------
(* The cap.                                                                 *)

\* A step that registers no container and starts no spawn keeps the bound.
LEMMA CapKept ==
  ASSUME CapOvershootBounded, Registered' \subseteq Registered,
         Spawners' \subseteq Spawners
  PROVE  CapOvershootBounded'
<1>1. IsFiniteSet(Registered) /\ IsFiniteSet(Spawners)
  BY PoolAssumption, FS_Subset DEF Registered, Spawners
<1>2. /\ Cardinality(Registered') <= Cardinality(Registered)
      /\ Cardinality(Spawners') <= Cardinality(Spawners)
      /\ IsFiniteSet(Registered') /\ IsFiniteSet(Spawners')
  BY <1>1, FS_Subset
<1>3. /\ Cardinality(Registered) \in Nat /\ Cardinality(Spawners) \in Nat
      /\ Cardinality(Registered') \in Nat /\ Cardinality(Spawners') \in Nat
      /\ Cardinality(Requests) \in Nat
  BY <1>1, <1>2, PoolAssumption, FS_CardinalityType
<1>4. QED
  BY <1>2, <1>3, PoolAssumption DEF CapOvershootBounded

\* The cap is overshot by fewer helpers than there are requests, whatever the
\* interleaving of the unlocked check with other spawns (pool.go:120-146).
THEOREM CapOvershoot == Spec => []CapOvershootBounded
<1> DEFINE CapInv == PoolInv /\ CapOvershootBounded
<1> USE PoolAssumption
<1>1. Init => CapInv
  <2> SUFFICES ASSUME Init, MaxHelpers > 0
               PROVE  Cardinality(Registered) + Cardinality(Spawners)
                        <= (MaxHelpers - 1) + Cardinality(Requests)
    BY PoolInvInit DEF CapOvershootBounded
  <2>1. Registered = {} /\ Spawners = {}
    BY DEF Init, Registered, Spawners
  <2>2. QED
    BY <2>1, FS_EmptySet, FS_CardinalityType
<1>2. ASSUME PoolInv, CapOvershootBounded, [Next]_vars
      PROVE  CapOvershootBounded'
  <2> USE <1>2 DEF PoolInv
  <2>1. ASSUME NEW r \in Requests, NEW c \in Containers, AcquireSpawn(r, c)
        PROVE  CapOvershootBounded'
    <3> SUFFICES ASSUME MaxHelpers > 0
                 PROVE  Cardinality(Registered') + Cardinality(Spawners')
                          <= (MaxHelpers - 1) + Cardinality(Requests)
      BY DEF CapOvershootBounded
    <3>1. Registered' = Registered
      BY <2>1 DEF AcquireSpawn, Registered
    <3>2. Cardinality(Registered) <= MaxHelpers - 1 /\ Cardinality(Registered) \in Nat
      <4>1. IsFiniteSet(Registered)
        BY FS_Subset DEF Registered
      <4>2. QED
        BY <2>1, <4>1, FS_CardinalityType DEF AcquireSpawn, UnderCap
    <3>3. /\ Cardinality(Spawners') <= Cardinality(Requests)
          /\ Cardinality(Spawners') \in Nat /\ Cardinality(Requests) \in Nat
      <4>1. Spawners' \subseteq Requests
        BY DEF Spawners
      <4>2. QED
        BY <4>1, FS_Subset, FS_CardinalityType
    <3>4. QED
      BY <3>1, <3>2, <3>3
  <2>2. ASSUME NEW r \in Requests, AcquireInsert(r)
        PROVE  CapOvershootBounded'
    <3>1. Registered' = Registered \cup {target[r]}
      BY <2>2 DEF AcquireInsert, Registered, TypeOK
    <3>2. Spawners' = Spawners \ {r} /\ r \in Spawners
      BY <2>2 DEF AcquireInsert, Spawners, TypeOK
    <3>3. IsFiniteSet(Registered) /\ IsFiniteSet(Spawners)
      BY FS_Subset DEF Registered, Spawners
    <3>4. /\ Cardinality(Registered') <= Cardinality(Registered) + 1
          /\ Cardinality(Registered') \in Nat /\ Cardinality(Registered) \in Nat
      <4>1. /\ IsFiniteSet(Registered')
            /\ Cardinality(Registered') = IF target[r] \in Registered
                 THEN Cardinality(Registered) ELSE Cardinality(Registered) + 1
        BY <3>1, <3>3, FS_AddElement
      <4>2. Cardinality(Registered') \in Nat /\ Cardinality(Registered) \in Nat
        BY <4>1, <3>3, FS_CardinalityType
      <4>3. QED
        BY <4>1, <4>2
    <3>5. /\ Cardinality(Spawners') = Cardinality(Spawners) - 1
          /\ Cardinality(Spawners) \in Nat /\ Cardinality(Requests) \in Nat
      BY <3>2, <3>3, FS_RemoveElement, FS_CardinalityType
    <3>6. QED
      BY <3>4, <3>5 DEF CapOvershootBounded
  <2>3. ASSUME NEW r \in Requests,
               \/ \E c \in Containers : AcquireReuse(r, c)
               \/ SpawnWatch(r) \/ SpawnVerify(r) \/ SpawnFails(r)
               \/ \E h \in Helpers : SpawnStart(r, h)
               \/ AcquireLostRace(r) \/ AcquireAdopt(r) \/ Release(r)
        PROVE  CapOvershootBounded'
    <3>1. Registered' \subseteq Registered /\ Spawners' \subseteq Spawners
      BY <2>3 DEF AcquireReuse, SpawnWatch, SpawnVerify, SpawnFails, SpawnStart,
         AcquireLostRace, AcquireAdopt, Release, Registered, Spawners, TypeOK
    <3>2. QED
      BY <3>1, CapKept
  <2>4. ASSUME NEW k \in Killers, KillStep(k)
        PROVE  CapOvershootBounded'
    <3>1. Registered' \subseteq Registered /\ Spawners' \subseteq Spawners
      BY <2>4 DEF KillStep, KillClosed, KillOpen, KillClose, KillPanics, Registered,
         Spawners, reqVars
    <3>2. QED
      BY <3>1, CapKept
  <2>5. ASSUME NEW h \in Helpers, HelperStep(h)
        PROVE  CapOvershootBounded'
    <3>1. Registered' \subseteq Registered /\ Spawners' \subseteq Spawners
      BY <2>5 DEF HelperStep, WatcherFires, WatcherPollFails, Drop, WaitReturns,
         GraceElapses, HelperEnds, HelperCrashes, Registered, Spawners, reqVars
    <3>2. QED
      BY <3>1, CapKept
  <2>6. ASSUME \/ \E c \in Containers : ContainerExits(c)
               \/ ReapPass \/ ReapStops \/ Close \/ AgentReturns \/ AgentKilled
               \/ UNCHANGED vars
        PROVE  CapOvershootBounded'
    <3>1. Registered' \subseteq Registered /\ Spawners' \subseteq Spawners
      BY <2>6 DEF ContainerExits, ReapPass, ReapStops, Close, AgentReturns, AgentKilled,
         Registered, Spawners, reqVars, vars
    <3>2. QED
      BY <3>1, CapKept
  <2>7. QED
    BY <2>1, <2>2, <2>3, <2>4, <2>5, <2>6 DEF Next, RequestStep
<1>3. CapInv /\ [Next]_vars => CapInv'
  BY <1>2, PoolInvStep
<1>4. QED
  BY <1>1, <1>3, PTL DEF Spec
=============================================================================
