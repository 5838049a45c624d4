------------------------- MODULE SynchronizerProofs -------------------------
(***************************************************************************)
(* Proofs about Synchronizer, for any set of names, any number of workers  *)
(* and any number of changes, edits, failures and restarts.                *)
(***************************************************************************)
EXTENDS Synchronizer, SequenceTheorems, TLAPS

-----------------------------------------------------------------------------
(* The inductive invariant.                                                 *)

Busy == {w \in Workers : pc[w] # "idle"}

\* The lister, once it has caught up, shows the Namespaces as they are.
ListerFollows ==
  \A n \in Names : IF stream[n] = <<>> THEN cache[n] = ns[n]
                                       ELSE stream[n][Len(stream[n])] = ns[n]

\* The queue never hands one name to two workers.
OneWorkerPerName ==
  /\ \A w \in Busy : key[w] \in processing
  /\ \A v, w \in Busy : key[v] = key[w] => v = w

\* What a worker has read is still true unless its name is queued again.
ReadsAreCurrent ==
  \A w \in Busy : key[w] \notin dirty \cup blind =>
    /\ pc[w] \in {"get", "create", "status", "delete"} => want[w] = cache[key[w]]
    /\ pc[w] = "delete" => want[w] = "absent"
    /\ pc[w] = "create" => project[key[w]] = "absent"
    /\ pc[w] = "status" => w \in fresh /\ seen[w] = project[key[w]]

SyncInv == TypeOK /\ ListerFollows /\ OneWorkerPerName /\ ReadsAreCurrent /\ NothingForgotten

-----------------------------------------------------------------------------
LEMMA SyncInvInit == Init => SyncInv
<1> SUFFICES ASSUME Init PROVE SyncInv
  OBVIOUS
<1> USE SyncAssumption DEF Init
<1>1. TypeOK
  BY DEF TypeOK, Phases, Bounds
<1>2. ListerFollows /\ OneWorkerPerName /\ ReadsAreCurrent /\ NothingForgotten
  BY DEF ListerFollows, OneWorkerPerName, ReadsAreCurrent, NothingForgotten, Pending, Busy
<1>3. QED
  BY <1>1, <1>2 DEF SyncInv

\* Taking the head off a sequence leaves its last element, if any is left.
LEMMA LastOfTail ==
  ASSUME NEW S, NEW s \in Seq(S), s # <<>>
  PROVE  /\ Tail(s) = <<>> => Head(s) = s[Len(s)]
         /\ Tail(s) # <<>> => Tail(s)[Len(Tail(s))] = s[Len(s)]
<1>1. Len(s) \in Nat /\ Len(s) # 0 /\ Head(s) = s[1] /\ Tail(s) \in Seq(S)
  BY EmptySeq
<1>2. Len(Tail(s)) = Len(s) - 1 /\ \A i \in 1..Len(Tail(s)) : Tail(s)[i] = s[i + 1]
  BY <1>1
<1>3. Tail(s) = <<>> <=> Len(Tail(s)) = 0
  BY <1>1, EmptySeq
<1>4. ASSUME Len(Tail(s)) # 0 PROVE Len(Tail(s)) \in 1..Len(Tail(s))
  BY <1>1, <1>2, <1>4
<1>5. QED
  BY <1>1, <1>2, <1>3, <1>4

LEMMA SyncInvStep == SyncInv /\ [Next]_vars => SyncInv'
<1> SUFFICES ASSUME SyncInv, [Next]_vars PROVE SyncInv'
  OBVIOUS
<1> USE SyncAssumption DEF SyncInv
<1>1. ASSUME NEW n \in Names, NamespaceChanges(n)
       PROVE  SyncInv'
  <2>0. PICK from, to \in Phases \cup {"absent"} : NamespaceStep(n, from, to)
    BY <1>1 DEF NamespaceChanges, Phases
  <2> USE <2>0 DEF NamespaceStep, Spend, serverVars, queueVars, workerVars
  <2>1. TypeOK'
    <3>1. Append(stream[n], to) \in Seq(Phases \cup {"absent"})
      BY DEF TypeOK
    <3>2. ns' \in [Names -> Phases \cup {"absent"}] /\ left' \in [Bounds -> Nat]
      BY DEF TypeOK, Bounds
    <3>3. QED
      BY <3>1, <3>2 DEF TypeOK
  <2>2. ListerFollows'
    <3>1. stream[n] \in Seq(Phases \cup {"absent"})
      BY DEF TypeOK
    <3>2. Append(stream[n], to) # <<>> /\ Append(stream[n], to)[Len(Append(stream[n], to))] = to
      BY <3>1
    <3>3. QED
      BY <3>2 DEF TypeOK, ListerFollows
  <2>3. OneWorkerPerName'
    BY DEF TypeOK, OneWorkerPerName, Busy
  <2>4. ReadsAreCurrent'
    BY DEF TypeOK, OneWorkerPerName, ReadsAreCurrent, Busy
  <2>5. NothingForgotten'
    <3>1. stream'[n] # <<>>
      BY DEF TypeOK
    <3>2. QED
      BY <3>1 DEF TypeOK, NothingForgotten, Pending
  <2>6. QED
    BY <2>1, <2>2, <2>3, <2>4, <2>5
<1>2. ASSUME NEW n \in Names, ProjectEdited(n)
       PROVE  SyncInv'
  <2> USE <1>2 DEF ProjectEdited, Spend, serverVars, queueVars, workerVars
  <2>1. TypeOK'
    <3>1. project' \in [Names -> Phases \cup {"absent", "unset"}]
      BY DEF TypeOK
    <3>2. left' \in [Bounds -> Nat] /\ fresh' \subseteq Workers /\ blind' \subseteq Names
      BY DEF TypeOK, Bounds
    <3>3. QED
      BY <3>1, <3>2 DEF TypeOK
  <2>2. ListerFollows'
    BY DEF TypeOK, ListerFollows
  <2>3. OneWorkerPerName'
    BY DEF TypeOK, OneWorkerPerName, Busy
  <2>4. ReadsAreCurrent'
    BY DEF TypeOK, OneWorkerPerName, ReadsAreCurrent, Busy
  <2>5. NothingForgotten'
    BY DEF TypeOK, ListerFollows, OneWorkerPerName, ReadsAreCurrent, NothingForgotten, Pending, Busy
  <2>6. QED
    BY <2>1, <2>2, <2>3, <2>4, <2>5
<1>3. ASSUME NEW n \in Names, InformerDelivers(n)
       PROVE  SyncInv'
  <2> USE <1>3 DEF InformerDelivers, EnqueuedOn, Add, serverVars, queueVars, workerVars
  <2>1. TypeOK'
    BY DEF TypeOK, Phases, Bounds
  <2>2. ListerFollows'
    <3>1. stream[n] \in Seq(Phases \cup {"absent"}) /\ stream[n] # <<>>
      BY DEF TypeOK
    <3>2. /\ Tail(stream[n]) = <<>> => Head(stream[n]) = stream[n][Len(stream[n])]
          /\ Tail(stream[n]) # <<>> =>
               Tail(stream[n])[Len(Tail(stream[n]))] = stream[n][Len(stream[n])]
      BY <3>1, LastOfTail
    <3>3. QED
      BY <3>2 DEF TypeOK, ListerFollows
  <2>3. OneWorkerPerName'
    BY DEF TypeOK, OneWorkerPerName, Busy
  <2>4. ReadsAreCurrent'
    BY DEF TypeOK, OneWorkerPerName, ReadsAreCurrent, Busy
  <2>5. NothingForgotten'
    BY DEF TypeOK, ListerFollows, OneWorkerPerName, ReadsAreCurrent, NothingForgotten, Pending, Busy
  <2>6. QED
    BY <2>1, <2>2, <2>3, <2>4, <2>5
<1>4. ASSUME NEW n \in Names, Resync(n)
       PROVE  SyncInv'
  <2> USE <1>4 DEF Resync, Add, serverVars, queueVars, workerVars
  <2>1. TypeOK'
    BY DEF TypeOK, Phases, Bounds
  <2>2. ListerFollows'
    BY DEF TypeOK, ListerFollows
  <2>3. OneWorkerPerName'
    BY DEF TypeOK, OneWorkerPerName, Busy
  <2>4. ReadsAreCurrent'
    BY DEF TypeOK, OneWorkerPerName, ReadsAreCurrent, Busy
  <2>5. NothingForgotten'
    BY DEF TypeOK, ListerFollows, OneWorkerPerName, ReadsAreCurrent, NothingForgotten, Pending, Busy
  <2>6. QED
    BY <2>1, <2>2, <2>3, <2>4, <2>5
<1>5. ASSUME NEW n \in Names, BackoffEnds(n)
       PROVE  SyncInv'
  <2> USE <1>5 DEF BackoffEnds, Add, serverVars, queueVars, workerVars
  <2>1. TypeOK'
    BY DEF TypeOK, Phases, Bounds
  <2>2. ListerFollows'
    BY DEF TypeOK, ListerFollows
  <2>3. OneWorkerPerName'
    BY DEF TypeOK, OneWorkerPerName, Busy
  <2>4. ReadsAreCurrent'
    BY DEF TypeOK, OneWorkerPerName, ReadsAreCurrent, Busy
  <2>5. NothingForgotten'
    BY DEF TypeOK, ListerFollows, OneWorkerPerName, ReadsAreCurrent, NothingForgotten, Pending, Busy
  <2>6. QED
    BY <2>1, <2>2, <2>3, <2>4, <2>5
<1>6. ASSUME NEW w \in Workers, NEW n \in Names, Get(w, n)
       PROVE  SyncInv'
  <2> USE <1>6 DEF Get, serverVars, queueVars, workerVars
  <2>1. TypeOK'
    BY DEF TypeOK, Phases, Bounds
  <2>2. ListerFollows'
    BY DEF TypeOK, ListerFollows
  <2>3. OneWorkerPerName'
    BY DEF TypeOK, OneWorkerPerName, Busy
  <2>4. ReadsAreCurrent'
    BY DEF TypeOK, OneWorkerPerName, ReadsAreCurrent, Busy
  <2>5. NothingForgotten'
    BY DEF TypeOK, ListerFollows, OneWorkerPerName, ReadsAreCurrent, NothingForgotten, Pending, Busy
  <2>6. QED
    BY <2>1, <2>2, <2>3, <2>4, <2>5
<1>7. ASSUME NEW w \in Workers, ReadLister(w)
       PROVE  SyncInv'
  <2> USE <1>7 DEF ReadLister, serverVars, queueVars, workerVars
  <2>1. TypeOK'
    BY DEF TypeOK, Phases, Bounds
  <2>2. ListerFollows'
    BY DEF TypeOK, ListerFollows
  <2>3. OneWorkerPerName'
    BY DEF TypeOK, OneWorkerPerName, Busy
  <2>4. ReadsAreCurrent'
    BY DEF TypeOK, OneWorkerPerName, ReadsAreCurrent, Busy
  <2>5. NothingForgotten'
    BY DEF TypeOK, ListerFollows, OneWorkerPerName, ReadsAreCurrent, NothingForgotten, Pending, Busy
  <2>6. QED
    BY <2>1, <2>2, <2>3, <2>4, <2>5
<1>8. ASSUME NEW w \in Workers, GetProject(w)
       PROVE  SyncInv'
  <2> USE <1>8 DEF GetProject, serverVars, queueVars, workerVars
  <2>1. TypeOK'
    <3>1. key[w] \in Names /\ project[key[w]] \in Phases \cup {"absent", "unset"}
      BY DEF TypeOK
    <3>2. seen' \in [Workers -> Phases \cup {"absent", "unset"}]
      BY <3>1 DEF TypeOK
    <3>3. /\ pc' \in [Workers -> {"idle", "list", "get", "create", "status", "delete"}]
          /\ \A v \in Workers : pc'[v] = "idle" <=> key'[v] = NoName
      <4>1. PICK s \in {"create", "status"} : pc' = [pc EXCEPT ![w] = s]
        OBVIOUS
      <4>2. QED
        BY <3>1, <4>1 DEF TypeOK
    <3>4. fresh' \subseteq Workers
      BY DEF TypeOK
    <3>5. QED
      BY <3>2, <3>3, <3>4 DEF TypeOK
  <2>2. ListerFollows'
    BY DEF TypeOK, ListerFollows
  <2>3. OneWorkerPerName'
    BY DEF TypeOK, OneWorkerPerName, Busy
  <2>4. ReadsAreCurrent'
    BY DEF TypeOK, OneWorkerPerName, ReadsAreCurrent, Busy
  <2>5. NothingForgotten'
    BY DEF TypeOK, ListerFollows, OneWorkerPerName, ReadsAreCurrent, NothingForgotten, Pending, Busy
  <2>6. QED
    BY <2>1, <2>2, <2>3, <2>4, <2>5
<1>9. ASSUME NEW w \in Workers, CreateProject(w)
       PROVE  SyncInv'
  <2> USE <1>9 DEF CreateProject, serverVars, queueVars, workerVars
  <2>1. TypeOK'
    BY DEF TypeOK, Phases, Bounds
  <2>2. ListerFollows'
    BY DEF TypeOK, ListerFollows
  <2>3. OneWorkerPerName'
    BY DEF TypeOK, OneWorkerPerName, Busy
  <2>4. ReadsAreCurrent'
    BY DEF TypeOK, OneWorkerPerName, ReadsAreCurrent, Busy
  <2>5. NothingForgotten'
    BY DEF TypeOK, ListerFollows, OneWorkerPerName, ReadsAreCurrent, NothingForgotten, Pending, Busy
  <2>6. QED
    BY <2>1, <2>2, <2>3, <2>4, <2>5
<1>10. ASSUME NEW w \in Workers, CreateConflicts(w)
       PROVE  SyncInv'
  <2> USE <1>10 DEF CreateConflicts, Succeeds, Done, serverVars, queueVars, workerVars
  <2>1. TypeOK'
    BY DEF TypeOK, Phases, Bounds
  <2>2. ListerFollows'
    BY DEF TypeOK, ListerFollows
  <2>3. OneWorkerPerName'
    BY DEF TypeOK, OneWorkerPerName, Busy
  <2>4. ReadsAreCurrent'
    BY DEF TypeOK, OneWorkerPerName, ReadsAreCurrent, Busy
  <2>5. NothingForgotten'
    BY DEF TypeOK, ListerFollows, OneWorkerPerName, ReadsAreCurrent, NothingForgotten, Pending, Busy
  <2>6. QED
    BY <2>1, <2>2, <2>3, <2>4, <2>5
<1>11. ASSUME NEW w \in Workers, StatusAgrees(w)
       PROVE  SyncInv'
  <2> USE <1>11 DEF StatusAgrees, Succeeds, Done, serverVars, queueVars, workerVars
  <2>1. TypeOK'
    BY DEF TypeOK, Phases, Bounds
  <2>2. ListerFollows'
    BY DEF TypeOK, ListerFollows
  <2>3. OneWorkerPerName'
    BY DEF TypeOK, OneWorkerPerName, Busy
  <2>4. ReadsAreCurrent'
    BY DEF TypeOK, OneWorkerPerName, ReadsAreCurrent, Busy
  <2>5. NothingForgotten'
    <3>1. ASSUME NEW n \in Names, n \notin blind', n # key[w]
           PROVE  (Pending(n) \/ project[n] = ns[n])'
      BY <3>1 DEF TypeOK, NothingForgotten, Pending
    <3>2. ASSUME NEW n \in Names, n \notin blind', n = key[w]
           PROVE  (Pending(n) \/ project[n] = ns[n])'
      BY <3>2 DEF TypeOK, ListerFollows, ReadsAreCurrent, Pending, Busy
    <3>3. QED
      BY <3>1, <3>2 DEF NothingForgotten
  <2>6. QED
    BY <2>1, <2>2, <2>3, <2>4, <2>5
<1>12. ASSUME NEW w \in Workers, UpdateStatus(w)
       PROVE  SyncInv'
  <2> USE <1>12 DEF UpdateStatus, Succeeds, Done, serverVars, queueVars, workerVars
  <2>1. TypeOK'
    BY DEF TypeOK, Phases, Bounds
  <2>2. ListerFollows'
    BY DEF TypeOK, ListerFollows
  <2>3. OneWorkerPerName'
    BY DEF TypeOK, OneWorkerPerName, Busy
  <2>4. ReadsAreCurrent'
    BY DEF TypeOK, OneWorkerPerName, ReadsAreCurrent, Busy
  <2>5. NothingForgotten'
    BY DEF TypeOK, ListerFollows, OneWorkerPerName, ReadsAreCurrent, NothingForgotten, Pending, Busy
  <2>6. QED
    BY <2>1, <2>2, <2>3, <2>4, <2>5
<1>13. ASSUME NEW w \in Workers, UpdateConflicts(w)
       PROVE  SyncInv'
  <2> USE <1>13 DEF UpdateConflicts, Fails, Done, serverVars, queueVars, workerVars
  <2>1. TypeOK'
    BY DEF TypeOK, Phases, Bounds
  <2>2. ListerFollows'
    BY DEF TypeOK, ListerFollows
  <2>3. OneWorkerPerName'
    BY DEF TypeOK, OneWorkerPerName, Busy
  <2>4. ReadsAreCurrent'
    BY DEF TypeOK, OneWorkerPerName, ReadsAreCurrent, Busy
  <2>5. NothingForgotten'
    BY DEF TypeOK, ListerFollows, OneWorkerPerName, ReadsAreCurrent, NothingForgotten, Pending, Busy
  <2>6. QED
    BY <2>1, <2>2, <2>3, <2>4, <2>5
<1>14. ASSUME NEW w \in Workers, DeleteProject(w)
       PROVE  SyncInv'
  <2> USE <1>14 DEF DeleteProject, Succeeds, Done, serverVars, queueVars, workerVars
  <2>1. TypeOK'
    BY DEF TypeOK, Phases, Bounds
  <2>2. ListerFollows'
    BY DEF TypeOK, ListerFollows
  <2>3. OneWorkerPerName'
    BY DEF TypeOK, OneWorkerPerName, Busy
  <2>4. ReadsAreCurrent'
    BY DEF TypeOK, OneWorkerPerName, ReadsAreCurrent, Busy
  <2>5. NothingForgotten'
    BY DEF TypeOK, ListerFollows, OneWorkerPerName, ReadsAreCurrent, NothingForgotten, Pending, Busy
  <2>6. QED
    BY <2>1, <2>2, <2>3, <2>4, <2>5
<1>15. ASSUME NEW w \in Workers, CallFails(w)
       PROVE  SyncInv'
  <2> USE <1>15 DEF CallFails, Writes, Fails, Done, Spend, serverVars, queueVars, workerVars
  <2>1. TypeOK'
    BY DEF TypeOK, Phases, Bounds
  <2>2. ListerFollows'
    BY DEF TypeOK, ListerFollows
  <2>3. OneWorkerPerName'
    BY DEF TypeOK, OneWorkerPerName, Busy
  <2>4. ReadsAreCurrent'
    BY DEF TypeOK, OneWorkerPerName, ReadsAreCurrent, Busy
  <2>5. NothingForgotten'
    BY DEF TypeOK, ListerFollows, OneWorkerPerName, ReadsAreCurrent, NothingForgotten, Pending, Busy
  <2>6. QED
    BY <2>1, <2>2, <2>3, <2>4, <2>5
<1>16. ASSUME NEW w \in Workers, AnswerLost(w)
       PROVE  SyncInv'
  <2> USE <1>16 DEF AnswerLost, Fails, Done, Spend, serverVars, queueVars, workerVars
  <2>1. TypeOK'
    <3>1. key[w] \in Names
      BY DEF TypeOK
    <3>2. project' \in [Names -> Phases \cup {"absent", "unset"}]
      <4>1. CASE project' = [project EXCEPT ![key[w]] = want[w]]
        BY <3>1, <4>1 DEF TypeOK
      <4>2. CASE \E x \in {"absent", "unset"} : project' = [project EXCEPT ![key[w]] = x]
        BY <3>1, <4>2 DEF TypeOK
      <4>3. QED
        BY <4>1, <4>2
    <3>3. left' \in [Bounds -> Nat]
      BY DEF TypeOK, Bounds
    <3>4. QED
      BY <3>1, <3>2, <3>3 DEF TypeOK
  <2>2. ListerFollows'
    BY DEF TypeOK, ListerFollows
  <2>3. OneWorkerPerName'
    BY DEF TypeOK, OneWorkerPerName, Busy
  <2>4. ReadsAreCurrent'
    BY DEF TypeOK, OneWorkerPerName, ReadsAreCurrent, Busy
  <2>5. NothingForgotten'
    BY DEF TypeOK, ListerFollows, OneWorkerPerName, ReadsAreCurrent, NothingForgotten, Pending, Busy
  <2>6. QED
    BY <2>1, <2>2, <2>3, <2>4, <2>5
<1>17. ASSUME Restart
       PROVE  SyncInv'
  <2> USE <1>17 DEF Restart, Spend, serverVars, queueVars, workerVars
  <2>1. TypeOK'
    <3>1. stream' \in [Names -> Seq(Phases \cup {"absent"})]
      <4>1. ASSUME NEW n \in Names, ns[n] # "absent"
             PROVE  <<ns[n]>> \in Seq(Phases \cup {"absent"})
        BY <4>1 DEF TypeOK
      <4>2. <<>> \in Seq(Phases \cup {"absent"})
        OBVIOUS
      <4>3. QED
        BY <4>1, <4>2
    <3>2. left' \in [Bounds -> Nat]
      BY DEF TypeOK, Bounds
    <3>3. QED
      BY <3>1, <3>2 DEF TypeOK
  <2>2. ListerFollows'
    BY DEF TypeOK, ListerFollows
  <2>3. OneWorkerPerName'
    BY DEF TypeOK, OneWorkerPerName, Busy
  <2>4. ReadsAreCurrent'
    BY DEF TypeOK, OneWorkerPerName, ReadsAreCurrent, Busy
  <2>5. NothingForgotten'
    BY DEF TypeOK, ListerFollows, OneWorkerPerName, ReadsAreCurrent, NothingForgotten, Pending, Busy
  <2>6. QED
    BY <2>1, <2>2, <2>3, <2>4, <2>5
<1>18. ASSUME UNCHANGED vars
       PROVE  SyncInv'
  <2> USE <1>18 DEF vars, serverVars, queueVars, workerVars
  <2>1. TypeOK'
    BY DEF TypeOK, Phases, Bounds
  <2>2. ListerFollows'
    BY DEF TypeOK, ListerFollows
  <2>3. OneWorkerPerName'
    BY DEF TypeOK, OneWorkerPerName, Busy
  <2>4. ReadsAreCurrent'
    BY DEF TypeOK, OneWorkerPerName, ReadsAreCurrent, Busy
  <2>5. NothingForgotten'
    BY DEF TypeOK, ListerFollows, OneWorkerPerName, ReadsAreCurrent, NothingForgotten, Pending, Busy
  <2>6. QED
    BY <2>1, <2>2, <2>3, <2>4, <2>5
<1>19. QED
  BY <1>1, <1>2, <1>3, <1>4, <1>5, <1>6, <1>7, <1>8, <1>9, <1>10, <1>11, <1>12, <1>13, <1>14, <1>15, <1>16, <1>17, <1>18 DEF Next, Syncs

\* The conjunction that the properties follow from holds in every state.
THEOREM SyncInvariant == Spec => []SyncInv
<1>1. QED
  BY SyncInvInit, SyncInvStep, PTL DEF Spec

\* Every variable keeps its type, and a worker has a name exactly while it
\* processes one (processNextWorkItem, controller.go:138-153).
THEOREM TypeCorrect == Spec => []TypeOK
<1>1. SyncInv => TypeOK
  BY DEF SyncInv
<1>2. QED
  BY SyncInvariant, <1>1, PTL

\* No Namespace change is lost between the informer, the de-duplicating queue,
\* the workers and the retries, with any number of workers, conflicting
\* writers, failing calls and restarts (controller.go:115-153, 180-252).
THEOREM NothingIsForgotten == Spec => []NothingForgotten
<1>1. SyncInv => NothingForgotten
  BY DEF SyncInv
<1>2. QED
  BY SyncInvariant, <1>1, PTL
=============================================================================
