--------------------------- MODULE NodeShellProofs --------------------------
(***************************************************************************)
(* Proofs about NodeShell, for any sessions, names, uids and bounds.       *)
(* BasicInv holds always, AccountInv as long as no two sessions use one    *)
(* name, TidyInv if no two sessions have users of one name.                *)
(***************************************************************************)
EXTENDS NodeShell, SequenceTheorems, TLAPS

-----------------------------------------------------------------------------
(* How far setup is. A session at one of these points has done the step     *)
(* the set is named for.                                                    *)

Early    == {"start", "publish", "tty", "user"}
Ran      == {"run", "forked", "wait", "poll"}
HasHome  == Ran \cup {"mount"}
InGroups == HasHome \cup {"unlock", "home"}
InShadow == InGroups \cup {"groups"}
InGroup  == InShadow \cup {"shadow"}
InPasswd == InGroup \cup {"group"}
Named    == InPasswd \cup {"lock", "scan", "passwd"}
Locking  == {"scan", "passwd", "group", "shadow", "groups", "unlock"}

\* The steps that leave something under the session's name
NameSteps == {"passwd", "group", "shadow", "groups", "home", "mount"}

-----------------------------------------------------------------------------
(* What holds whatever names the sessions have.                             *)

\* Rollback's flags say how far setup was.
Progress ==
  \A s \in Sessions :
    /\ pc[s] \in Early \cup Named =>
         /\ s \notin spoilt
         /\ "passwd" \in did[s] <=> pc[s] \in InPasswd
         /\ "group" \in did[s] <=> pc[s] \in InGroup
         /\ "shadow" \in did[s] <=> pc[s] \in InShadow
         /\ "groups" \in did[s] <=> pc[s] \in InGroups
         /\ "home" \in did[s] <=> pc[s] \in HasHome
         /\ "mount" \in did[s] <=> pc[s] \in Ran
    /\ pc[s] \in {"start", "done"} => did[s] = {}

LockHeld ==
  \A s \in Sessions : /\ pc[s] \in Locking => lock = s
                      /\ lock = s => pc[s] \in Locking \cup {"rollback"}

UidKnown ==
  \A s \in Sessions :
    pc[s] \in InPasswd \cup {"passwd"} \/ did[s] \cap {"passwd", "group"} # {} => uid[s] \in Uids

SafeNames ==
  \A s \in Sessions :
    /\ name[s] \in {First[s], Generated[s]}
    /\ pc[s] \in Named \/ did[s] \cap NameSteps # {} => name[s] \notin HostNames

BasicInv == TypeOK /\ Progress /\ LockHeld /\ UidKnown /\ SafeNames /\ HostKept

-----------------------------------------------------------------------------
(* What holds while no two sessions use one name.                           *)

\* The session writes under its name, or has left something there.
Claims(s) == pc[s] \in Named \/ did[s] \cap NameSteps # {} \/ s \in spoilt

\* No two sessions use one name. identity_resolve_username sees to that, except
\* for two sessions that look for the same name at the same time, and for what a
\* session that was killed has left elsewhere than in passwd.
NamesApart ==
  \A s, t \in Sessions : s # t /\ Claims(s) /\ Claims(t) => name[s] # name[t]

\* What the step did may still be there.
Left(s, step) == step \in did[s] \/ s \in spoilt

\* Of each file and place: an entry is the node's own or that of a session that
\* will remove it, or has failed to; and what a session has still to remove is
\* there.
PasswdInv ==
  /\ \A line \in passwd : \/ line[1] \in HostNames \/ line \in Leftovers
                          \/ \E t \in Sessions : line = Own(t) /\ Left(t, "passwd")
  /\ \A s \in Sessions : "passwd" \in did[s] => Own(s) \in passwd

GroupInv ==
  /\ \A line \in group : \E t \in Sessions : line = Own(t) /\ Left(t, "group")
  /\ \A s \in Sessions : "group" \in did[s] => Own(s) \in group

ShadowInv ==
  /\ \A n \in shadow \ HostNames : \E t \in Sessions : n = name[t] /\ Left(t, "shadow")
  /\ \A s \in Sessions : "shadow" \in did[s] => name[s] \in shadow

MembersInv ==
  /\ \A m \in members :
       \E t \in Sessions : m \in joined[t] \X {name[t]} /\ Left(t, "groups")
  /\ \A s \in Sessions : "groups" \in did[s] => joined[s] \X {name[s]} \subseteq members

HomeInv ==
  /\ \A n \in home \ HostNames : \E t \in Sessions : n = name[t] /\ Left(t, "home")
  /\ \A s \in Sessions : "home" \in did[s] => name[s] \in home

MountsInv ==
  /\ \A n \in Names : \A k \in DOMAIN mounts[n] :
       n = name[mounts[n][k]] /\ Left(mounts[n][k], "mount")
  /\ \A s \in Sessions : "mount" \in did[s] => mounts[name[s]] = <<s>>

\* The only passwd line of the session's name is its own.
Alone ==
  \A s \in Sessions : pc[s] \in Named \/ "passwd" \in did[s] =>
    \A line \in passwd : line[1] = name[s] => line = Own(s) /\ "passwd" \in did[s]

HasUid(s) == pc[s] = "passwd" \/ "passwd" \in did[s]

UidsApart == \A s, t \in Sessions : HasUid(s) /\ HasUid(t) /\ uid[s] = uid[t] => s = t

AccountInv == PasswdInv /\ GroupInv /\ ShadowInv /\ MembersInv /\ HomeInv /\ MountsInv
                /\ Alone /\ UidsApart

-----------------------------------------------------------------------------
(* The order of rollback.                                                   *)

\* The steps of rollback by name
LEMMA UndoSteps ==
  Range(UndoOrder) = {"killPgid", "killUid", "killPath", "mount", "home", "groups",
                      "passwd", "shadow", "group", "lock", "tty", "publish"}
BY DEF Range, UndoOrder

\* What comes earlier in the order has been undone.
LEMMA UndoneBefore ==
  ASSUME NEW s \in Sessions, NEW step, Passed(s, step)
  PROVE  /\ step = "killUid" => "killPgid" \notin did[s]
         /\ step = "home" => "mount" \notin did[s]
         /\ step = "passwd" => "killPgid" \notin did[s]
BY DEF Passed, UndoOrder

\* What umount2 leaves of a stack of mounts
LEMMA FrontOfMounts ==
  ASSUME NEW S, NEW q \in Seq(S), q # <<>>
  PROVE  Front(q) \in Seq(S)
<1>1. Len(q) \in Nat /\ Len(q) # 0
  BY EmptySeq
<1>2. QED
  BY <1>1, SubSeqProperties DEF Front

\* What the small helpers of the actions do to the types of what they change
LEMMA HelperTypes ==
  ASSUME TypeOK, NEW s \in Sessions
  PROVE  /\ \A l \in PCs : Goto(s, l) => pc' \in [Sessions -> PCs]
         /\ \A steps \in SUBSET Range(UndoOrder) :
              Mark(s, steps) => did' \in [Sessions -> SUBSET Range(UndoOrder)]
         /\ Fault => faults' \in 0..MaxFaults
<1>1. \A l \in PCs : Goto(s, l) => pc' \in [Sessions -> PCs]
  BY DEF TypeOK, Goto
<1>2. \A steps \in SUBSET Range(UndoOrder) :
        Mark(s, steps) => did' \in [Sessions -> SUBSET Range(UndoOrder)]
  BY DEF TypeOK, Mark
<1>3. Fault => faults' \in 0..MaxFaults
  BY ShellAssumption DEF TypeOK, Fault
<1>4. QED
  BY <1>1, <1>2, <1>3

\* Every step of the shim, its exec process and the login keeps the types; a
\* session that writes lines knows its uid.
LEMMA TypeStep == TypeOK /\ UidKnown /\ [Next]_vars => TypeOK'
<1> SUFFICES ASSUME TypeOK, UidKnown, [Next]_vars PROVE TypeOK'
  OBVIOUS
<1> USE ShellAssumption, UndoSteps, HelperTypes DEF setup, accounts, places, markers, execVars,
     At, PCs, Over
<1>1. ASSUME NEW s \in Sessions, Begin(s) PROVE TypeOK'
  BY <1>1 DEF TypeOK, Begin
<1>2. ASSUME NEW s \in Sessions, Publish(s) PROVE TypeOK'
  BY <1>2 DEF TypeOK, Publish
<1>3. ASSUME NEW s \in Sessions, BindTty(s) PROVE TypeOK'
  <2>1. tty' \subseteq Sessions \X {"pod", "exec"}
    BY <1>3, SMTT(30) DEF TypeOK, BindTty
  <2>2. QED
    BY <1>3, <2>1 DEF TypeOK, BindTty
<1>4. ASSUME NEW s \in Sessions, ResolveUser(s) PROVE TypeOK'
  BY <1>4 DEF TypeOK, ResolveUser
<1>5. ASSUME NEW s \in Sessions, TakeLock(s) PROVE TypeOK'
  BY <1>5 DEF TypeOK, TakeLock
<1>6. ASSUME NEW s \in Sessions, AllocUid(s) PROVE TypeOK'
  <2>1. uid' \in [Sessions -> Uids \cup {None}]
    <3>1. (\E u \in Uids : uid' = [uid EXCEPT ![s] = u]) \/ uid' = uid
      BY <1>6 DEF AllocUid, FreeUids
    <3>2. uid \in [Sessions -> Uids \cup {None}]
      BY DEF TypeOK
    <3>3. QED
      BY <3>1, <3>2
  <2>2. /\ pc' \in [Sessions -> PCs] /\ did' \in [Sessions -> SUBSET Range(UndoOrder)]
        /\ lock' \in Sessions \cup {None}
    BY <1>6 DEF TypeOK, AllocUid
  <2>3. QED
    BY <1>6, <2>1, <2>2 DEF TypeOK, AllocUid
<1>7. ASSUME NEW s \in Sessions, WritePasswd(s) PROVE TypeOK'
  <2>1. uid[s] \in Uids /\ name[s] \in Names
    BY <1>7 DEF TypeOK, WritePasswd, UidKnown
  <2>2. passwd' \subseteq Names \X (Uids \cup {0})
    BY <1>7, <2>1 DEF TypeOK, WritePasswd
  <2>3. QED
    BY <1>7, <2>2 DEF TypeOK, WritePasswd
<1>8. ASSUME NEW s \in Sessions, WriteGroup(s) PROVE TypeOK'
  <2>1. uid[s] \in Uids /\ name[s] \in Names
    BY <1>8 DEF TypeOK, WriteGroup, UidKnown, InPasswd
  <2>2. group' \subseteq Names \X Uids
    BY <1>8, <2>1, SMTT(30) DEF TypeOK, WriteGroup
  <2>3. QED
    BY <1>8, <2>2 DEF TypeOK, WriteGroup
<1>9. ASSUME NEW s \in Sessions, WriteShadow(s) PROVE TypeOK'
  BY <1>9 DEF TypeOK, WriteShadow
<1>10. ASSUME NEW s \in Sessions, InheritGroups(s) PROVE TypeOK'
  <2>1. PICK g \in SUBSET Groups : /\ members' = members \cup (g \X {name[s]})
                                    /\ joined' = [joined EXCEPT ![s] = g]
                                    /\ IF g = Groups THEN UNCHANGED faults ELSE Fault
    BY <1>10 DEF InheritGroups
  <2>2. members' \subseteq Groups \X Names /\ joined' \in [Sessions -> SUBSET Groups]
    BY <2>1 DEF TypeOK
  <2>3. faults' \in 0..MaxFaults
    BY <2>1 DEF TypeOK
  <2>4. QED
    BY <1>10, <2>2, <2>3 DEF TypeOK, InheritGroups
<1>11. ASSUME NEW s \in Sessions, Unlock(s) PROVE TypeOK'
  BY <1>11 DEF TypeOK, Unlock
<1>12. ASSUME NEW s \in Sessions, MkdirHome(s) PROVE TypeOK'
  BY <1>12 DEF TypeOK, MkdirHome
<1>13. ASSUME NEW s \in Sessions, BindMount(s) PROVE TypeOK'
  <2>1. mounts' \in [Names -> Seq(Sessions)]
    BY <1>13 DEF TypeOK, BindMount
  <2>2. QED
    BY <1>13, <2>1 DEF TypeOK, BindMount
<1>14. ASSUME NEW s \in Sessions, Fork(s) PROVE TypeOK'
  <2>1. procs' \subseteq [of : Sessions, by : {"pod", "exec"}, stage : Stages,
                          uid : Uids \cup {0}, at : Names]
    BY <1>14 DEF TypeOK, Fork, Login, Stages
  <2>2. QED
    BY <1>14, <2>1 DEF TypeOK, Fork
<1>15. ASSUME NEW s \in Sessions, Wait(s) PROVE TypeOK'
  BY <1>15 DEF TypeOK, Wait
<1>16. ASSUME NEW s \in Sessions, Announce(s) PROVE TypeOK'
  BY <1>16 DEF TypeOK, Announce
<1>17. ASSUME NEW s \in Sessions, KillPgid(s) PROVE TypeOK'
  BY <1>17 DEF TypeOK, KillPgid, Undoing, Passed, Kill
<1>18. ASSUME NEW s \in Sessions, KillByUid(s) PROVE TypeOK'
  BY <1>18 DEF TypeOK, KillByUid, Undoing, Passed, Kill
<1>19. ASSUME NEW s \in Sessions, KillByPath(s) PROVE TypeOK'
  BY <1>19 DEF TypeOK, KillByPath, Undoing, Passed, Kill
<1>20. ASSUME NEW s \in Sessions, Unmount(s) PROVE TypeOK'
  <2>1. mounts' \in [Names -> Seq(Sessions)]
    <3>1. mounts[name[s]] \in Seq(Sessions) /\ name[s] \in Names
      BY DEF TypeOK
    <3>2. mounts[name[s]] # <<>> => Front(mounts[name[s]]) \in Seq(Sessions)
      BY <3>1, FrontOfMounts
    <3>3. QED
      BY <1>20, <3>1, <3>2 DEF TypeOK, Unmount
  <2>2. QED
    BY <1>20, <2>1 DEF TypeOK, Unmount, Undoing, Passed
<1>21. ASSUME NEW s \in Sessions, RmdirHome(s) PROVE TypeOK'
  BY <1>21 DEF TypeOK, RmdirHome, Undoing, Passed
<1>22. ASSUME NEW s \in Sessions, LeaveGroups(s) PROVE TypeOK'
  BY <1>22 DEF TypeOK, LeaveGroups, Undoing, Passed
<1>23. ASSUME NEW s \in Sessions, RemovePasswd(s) PROVE TypeOK'
  BY <1>23 DEF TypeOK, RemovePasswd, Undoing, Passed
<1>24. ASSUME NEW s \in Sessions, RemoveShadow(s) PROVE TypeOK'
  BY <1>24 DEF TypeOK, RemoveShadow, Undoing, Passed
<1>25. ASSUME NEW s \in Sessions, RemoveGroup(s) PROVE TypeOK'
  BY <1>25 DEF TypeOK, RemoveGroup, Undoing, Passed
<1>26. ASSUME NEW s \in Sessions, ReleaseLock(s) PROVE TypeOK'
  BY <1>26 DEF TypeOK, ReleaseLock, Undoing, Passed
<1>27. ASSUME NEW s \in Sessions, UnmountTty(s) PROVE TypeOK'
  BY <1>27 DEF TypeOK, UnmountTty, Undoing, Passed
<1>28. ASSUME NEW s \in Sessions, RemoveBinary(s) PROVE TypeOK'
  BY <1>28 DEF TypeOK, RemoveBinary, Undoing, Passed
<1>29. ASSUME NEW s \in Sessions, RolledBack(s) PROVE TypeOK'
  BY <1>29 DEF TypeOK, RolledBack
<1>30. ASSUME NEW s \in Sessions, WaitReturns(s) PROVE TypeOK'
  BY <1>30 DEF TypeOK, WaitReturns
<1>31. ASSUME NEW s \in Sessions, PollReturns(s) PROVE TypeOK'
  BY <1>31 DEF TypeOK, PollReturns
<1>32. ASSUME NEW s \in Sessions, ExecFinds(s) PROVE TypeOK'
  BY <1>32 DEF TypeOK, ExecFinds
<1>33. ASSUME NEW s \in Sessions, ExecForks(s) PROVE TypeOK'
  <2>1. procs' \subseteq [of : Sessions, by : {"pod", "exec"}, stage : Stages,
                          uid : Uids \cup {0}, at : Names]
    BY <1>33 DEF TypeOK, ExecForks, Login, Stages
  <2>2. QED
    BY <1>33, <2>1 DEF TypeOK, ExecForks
<1>34. ASSUME NEW s \in Sessions, ExecReturns(s) PROVE TypeOK'
  BY <1>34 DEF TypeOK, ExecReturns
<1>35. ASSUME NEW s \in Sessions, ExecSignals(s) PROVE TypeOK'
  BY <1>35 DEF TypeOK, ExecSignals
<1>36. ASSUME NEW s \in Sessions, ExecStart(s) PROVE TypeOK'
  <2>1. execs' \in [Sessions -> 0..MaxExecs]
    BY <1>36 DEF TypeOK, ExecStart
  <2>2. tty' \subseteq Sessions \X {"pod", "exec"}
    BY <1>36 DEF TypeOK, ExecStart
  <2>3. QED
    BY <1>36, <2>1, <2>2 DEF TypeOK, ExecStart
<1>37. ASSUME NEW s \in Sessions, ExecGivesUp(s) PROVE TypeOK'
  BY <1>37 DEF TypeOK, ExecGivesUp
<1>38. ASSUME NEW s \in Sessions, ContainerEnds(s) PROVE TypeOK'
  BY <1>38 DEF TypeOK, ContainerEnds
<1>39. ASSUME NEW s \in Sessions, BeginFails(s) PROVE TypeOK'
  BY <1>39 DEF TypeOK, BeginFails
<1>40. ASSUME NEW s \in Sessions, StepFails(s) PROVE TypeOK'
  BY <1>40 DEF TypeOK, StepFails
<1>41. ASSUME NEW s \in Sessions, UndoFails(s) PROVE TypeOK'
  <2>1. PICK step \in did[s] : Passed(s, step)
    BY <1>41 DEF UndoFails
  <2>2. did' \in [Sessions -> SUBSET Range(UndoOrder)]
    BY <2>1 DEF TypeOK, Passed
  <2>3. QED
    BY <1>41, <2>1, <2>2 DEF TypeOK, UndoFails, Passed
<1>42. ASSUME NEW s \in Sessions, Terminate(s) PROVE TypeOK'
  BY <1>42 DEF TypeOK, Terminate
<1>43. ASSUME NEW s \in Sessions, Killed(s) PROVE TypeOK'
  BY <1>43 DEF TypeOK, Killed
<1>44. ASSUME NEW s \in Sessions, ExecTerminated(s) PROVE TypeOK'
  BY <1>44 DEF TypeOK, ExecTerminated
<1>45. ASSUME NEW s \in Sessions, ExecKilled(s) PROVE TypeOK'
  BY <1>45 DEF TypeOK, ExecKilled
<1>46. ASSUME NEW p \in procs, LoginFinds(p) PROVE TypeOK'
  <2>1. PICK line \in passwd : Becomes(p, {[p EXCEPT !.stage = "found", !.uid = line[2]]})
    BY <1>46 DEF LoginFinds
  <2>2. procs' \subseteq [of : Sessions, by : {"pod", "exec"}, stage : Stages,
                          uid : Uids \cup {0}, at : Names]
    BY <2>1 DEF TypeOK, Becomes, Stages
  <2>3. QED
    BY <2>1, <2>2 DEF TypeOK, Becomes
<1>47. ASSUME NEW p \in procs, LoginDrops(p) PROVE TypeOK'
  BY <1>47 DEF TypeOK, LoginDrops, Becomes, Stages
<1>48. ASSUME NEW p \in procs, Detaches(p) PROVE TypeOK'
  <2>1. [p EXCEPT !.stage = "detached"]
          \in [of : Sessions, by : {"pod", "exec"}, stage : Stages, uid : Uids \cup {0}, at : Names]
    <3>1. p \in [of : Sessions, by : {"pod", "exec"}, stage : Stages, uid : Uids \cup {0}, at : Names]
      BY DEF TypeOK
    <3>2. QED
      BY <3>1 DEF Stages
  <2>2. procs' \subseteq procs \cup {[p EXCEPT !.stage = "detached"]}
    BY <1>48 DEF Detaches, Becomes
  <2>3. QED
    BY <1>48, <2>1, <2>2 DEF TypeOK, Detaches, Becomes
<1>49. ASSUME NEW p \in procs, Exits(p) PROVE TypeOK'
  BY <1>49 DEF TypeOK, Exits, Becomes, Stages
<1>50. CASE UNCHANGED vars
  BY <1>50 DEF vars, TypeOK
<1> QED
  BY <1>1, <1>2, <1>3, <1>4, <1>5, <1>6, <1>7, <1>8, <1>9, <1>10, <1>11, <1>12, <1>13, <1>14,
     <1>15, <1>16, <1>17, <1>18, <1>19, <1>20, <1>21, <1>22, <1>23, <1>24, <1>25, <1>26, <1>27,
     <1>28, <1>29, <1>30, <1>31, <1>32, <1>33, <1>34, <1>35, <1>36, <1>37, <1>38, <1>39, <1>40,
     <1>41, <1>42, <1>43, <1>44, <1>45, <1>46, <1>47, <1>48, <1>49, <1>50 DEF Next, Shim,
     SetsUp, RollsBack, Exec

-----------------------------------------------------------------------------
(* How setup and rollback proceed.                                          *)

\* What concerns the steps of one session and the lock
Control == Progress /\ LockHeld /\ UidKnown /\ SafeNames

\* Nothing of the control of the sessions changes.
LEMMA ControlFrame ==
  ASSUME Control, UNCHANGED <<pc, did, name, uid, spoilt, lock>>
  PROVE  Control'
BY DEF Control, Progress, LockHeld, UidKnown, SafeNames

\* The flags of rollback, the lock, the uid and the name of a session follow
\* the steps of pipeline_run.
LEMMA ControlStep == BasicInv /\ [Next]_vars => Control'
<1> SUFFICES ASSUME BasicInv, [Next]_vars PROVE Control'
  OBVIOUS
<1> DEFINE Types == /\ pc \in [Sessions -> PCs] /\ did \in [Sessions -> SUBSET Range(UndoOrder)]
                    /\ name \in [Sessions -> Names] /\ uid \in [Sessions -> Uids \cup {None}]
                    /\ lock \in Sessions \cup {None} /\ None \notin Sessions
<1>0. Types
  BY ShellAssumption DEF BasicInv, TypeOK
<1> USE <1>0 DEF setup, execVars, At, Goto, Mark, Control, Progress, LockHeld, UidKnown,
     SafeNames, Early, Ran, HasHome, InGroups, InShadow, InGroup, InPasswd, Named, Locking,
     NameSteps
<1> USE DEF BasicInv
<1>1. ASSUME NEW s \in Sessions, Begin(s) PROVE Control'
  BY <1>1 DEF Begin
<1>2. ASSUME NEW s \in Sessions, Publish(s) PROVE Control'
  BY <1>2 DEF Publish
<1>3. ASSUME NEW s \in Sessions, BindTty(s) PROVE Control'
  BY <1>3 DEF BindTty
<1>4. ASSUME NEW s \in Sessions, ResolveUser(s) PROVE Control'
  <2>1. name[s] \notin Taken => name[s] \notin HostNames
    <3>1. ASSUME name[s] \in HostNames PROVE <<name[s], 0>> \in passwd
      BY <3>1 DEF HostKept
    <3>2. QED
      BY <3>1 DEF Taken
  <2>2. Generated[s] \notin HostNames /\ Generated[s] \in Names
    BY ShellAssumption
  <2>3. QED
    BY <1>4, <2>1, <2>2 DEF ResolveUser
<1>5. ASSUME NEW s \in Sessions, TakeLock(s) PROVE Control'
  BY <1>5 DEF TakeLock
<1>6. ASSUME NEW s \in Sessions, AllocUid(s) PROVE Control'
  <2>1. Progress' /\ LockHeld' /\ SafeNames'
    BY <1>6 DEF AllocUid
  <2>2. UidKnown'
    <3>1. \/ uid' = uid /\ did' = did /\ pc' = [pc EXCEPT ![s] = "rollback"]
          \/ \E u \in Uids : uid' = [uid EXCEPT ![s] = u]
      BY <1>6 DEF AllocUid, FreeUids
    <3>2. did' = did \/ did' = [did EXCEPT ![s] = @ \cup {"lock"}]
      BY <1>6 DEF AllocUid
    <3>3. \A t \in Sessions : t # s => pc'[t] = pc[t] /\ did'[t] = did[t]
      BY <1>6 DEF AllocUid
    <3>4. QED
      BY <3>1, <3>2, <3>3
  <2>3. QED
    BY <2>1, <2>2
<1>7. ASSUME NEW s \in Sessions, WritePasswd(s) PROVE Control'
  BY <1>7 DEF WritePasswd
<1>8. ASSUME NEW s \in Sessions, WriteGroup(s) PROVE Control'
  BY <1>8 DEF WriteGroup
<1>9. ASSUME NEW s \in Sessions, WriteShadow(s) PROVE Control'
  BY <1>9 DEF WriteShadow
<1>10. ASSUME NEW s \in Sessions, InheritGroups(s) PROVE Control'
  BY <1>10 DEF InheritGroups
<1>11. ASSUME NEW s \in Sessions, Unlock(s) PROVE Control'
  BY <1>11 DEF Unlock
<1>12. ASSUME NEW s \in Sessions, MkdirHome(s) PROVE Control'
  BY <1>12 DEF MkdirHome
<1>13. ASSUME NEW s \in Sessions, BindMount(s) PROVE Control'
  BY <1>13 DEF BindMount
<1>14. ASSUME NEW s \in Sessions, Fork(s) PROVE Control'
  BY <1>14 DEF Fork
<1>15. ASSUME NEW s \in Sessions, Wait(s) PROVE Control'
  BY <1>15 DEF Wait
<1>16. ASSUME NEW s \in Sessions, Announce(s) PROVE Control'
  BY <1>16 DEF Announce
<1>17. ASSUME NEW s \in Sessions, KillPgid(s) PROVE Control'
  BY <1>17 DEF KillPgid, Undoing, Passed, Kill
<1>18. ASSUME NEW s \in Sessions, KillByUid(s) PROVE Control'
  BY <1>18 DEF KillByUid, Undoing, Passed, Kill
<1>19. ASSUME NEW s \in Sessions, KillByPath(s) PROVE Control'
  BY <1>19 DEF KillByPath, Undoing, Passed, Kill
<1>20. ASSUME NEW s \in Sessions, Unmount(s) PROVE Control'
  BY <1>20 DEF Unmount, Undoing, Passed
<1>21. ASSUME NEW s \in Sessions, RmdirHome(s) PROVE Control'
  BY <1>21 DEF RmdirHome, Undoing, Passed
<1>22. ASSUME NEW s \in Sessions, LeaveGroups(s) PROVE Control'
  BY <1>22 DEF LeaveGroups, Undoing, Passed
<1>23. ASSUME NEW s \in Sessions, RemovePasswd(s) PROVE Control'
  BY <1>23 DEF RemovePasswd, Undoing, Passed
<1>24. ASSUME NEW s \in Sessions, RemoveShadow(s) PROVE Control'
  BY <1>24 DEF RemoveShadow, Undoing, Passed
<1>25. ASSUME NEW s \in Sessions, RemoveGroup(s) PROVE Control'
  BY <1>25 DEF RemoveGroup, Undoing, Passed
<1>26. ASSUME NEW s \in Sessions, ReleaseLock(s) PROVE Control'
  BY <1>26 DEF ReleaseLock, Undoing, Passed
<1>27. ASSUME NEW s \in Sessions, UnmountTty(s) PROVE Control'
  BY <1>27 DEF UnmountTty, Undoing, Passed
<1>28. ASSUME NEW s \in Sessions, RemoveBinary(s) PROVE Control'
  BY <1>28 DEF RemoveBinary, Undoing, Passed
<1>29. ASSUME NEW s \in Sessions, RolledBack(s) PROVE Control'
  BY <1>29 DEF RolledBack
<1>30. ASSUME NEW s \in Sessions, WaitReturns(s) PROVE Control'
  BY <1>30 DEF WaitReturns
<1>31. ASSUME NEW s \in Sessions, PollReturns(s) PROVE Control'
  BY <1>31 DEF PollReturns
<1>32. ASSUME NEW s \in Sessions, ContainerEnds(s) PROVE Control'
  BY <1>32 DEF ContainerEnds
<1>33. ASSUME NEW s \in Sessions, BeginFails(s) PROVE Control'
  BY <1>33 DEF BeginFails
<1>34. ASSUME NEW s \in Sessions, StepFails(s) PROVE Control'
  BY <1>34 DEF StepFails
<1>35. ASSUME NEW s \in Sessions, UndoFails(s) PROVE Control'
  BY <1>35 DEF UndoFails, Passed
<1>36. ASSUME NEW s \in Sessions, Terminate(s) PROVE Control'
  BY <1>36 DEF Terminate, Over
<1>37. ASSUME NEW s \in Sessions, Killed(s) PROVE Control'
  BY <1>37 DEF Killed, Over
<1>38. ASSUME NEW s \in Sessions,
             Exec(s) \/ ExecStart(s) \/ ExecGivesUp(s) \/ ExecTerminated(s) \/ ExecKilled(s)
      PROVE  Control'
  BY <1>38, ControlFrame DEF Exec, ExecFinds, ExecForks, ExecReturns, ExecSignals, ExecStart,
     ExecGivesUp, ExecTerminated, ExecKilled
<1>39. ASSUME NEW p \in procs, LoginFinds(p) \/ LoginDrops(p) \/ Detaches(p) \/ Exits(p)
      PROVE  Control'
  BY <1>39, ControlFrame DEF LoginFinds, LoginDrops, Detaches, Exits, Becomes
<1>40. CASE UNCHANGED vars
  BY <1>40, ControlFrame DEF vars
<1> QED
  BY <1>1, <1>2, <1>3, <1>4, <1>5, <1>6, <1>7, <1>8, <1>9, <1>10, <1>11, <1>12, <1>13, <1>14,
     <1>15, <1>16, <1>17, <1>18, <1>19, <1>20, <1>21, <1>22, <1>23, <1>24, <1>25, <1>26, <1>27,
     <1>28, <1>29, <1>30, <1>31, <1>32, <1>33, <1>34, <1>35, <1>36, <1>37, <1>38, <1>39, <1>40
     DEF Next, Shim, SetsUp, RollsBack

\* Only these actions touch the files and homes that the node's accounts are in.
LEMMA HostStep == BasicInv /\ [Next]_vars => HostKept'
<1> SUFFICES ASSUME BasicInv, [Next]_vars PROVE HostKept'
  OBVIOUS
<1> USE DEF setup, accounts, places, At, Goto, HostKept
<1>0. /\ HostKept /\ passwd \subseteq Names \X (Uids \cup {0})
      /\ \A s \in Sessions : pc[s] \in Named \/ did[s] \cap NameSteps # {} => name[s] \notin HostNames
  BY DEF BasicInv, TypeOK, SafeNames
<1> USE <1>0
<1>1. ASSUME NEW s \in Sessions, WritePasswd(s) \/ WriteShadow(s) \/ MkdirHome(s) PROVE HostKept'
  <2>1. name[s] \notin HostNames
    BY <1>1 DEF WritePasswd, WriteShadow, MkdirHome, Named, InPasswd, InGroup, InShadow, InGroups
  <2>2. {line \in passwd' : line[1] \in HostNames} = {line \in passwd : line[1] \in HostNames}
    BY <1>1, <2>1 DEF WritePasswd, WriteShadow, MkdirHome
  <2>3. QED
    BY <1>1, <2>2 DEF WritePasswd, WriteShadow, MkdirHome
<1>2. ASSUME NEW s \in Sessions, RemovePasswd(s) \/ RemoveShadow(s) \/ RmdirHome(s) PROVE HostKept'
  <2>1. name[s] \notin HostNames
    BY <1>2 DEF RemovePasswd, RemoveShadow, RmdirHome, Undoing, Passed, NameSteps
  <2>2. {line \in passwd' : line[1] \in HostNames} = {line \in passwd : line[1] \in HostNames}
    BY <1>2, <2>1 DEF RemovePasswd, RemoveShadow, RmdirHome
  <2>3. QED
    BY <1>2, <2>1, <2>2 DEF RemovePasswd, RemoveShadow, RmdirHome
<1>3. ASSUME NEW s \in Sessions, StepFails(s) PROVE HostKept'
  <2>1. pc[s] = "home" => name[s] \notin HostNames
    BY DEF Named, InPasswd, InGroup, InShadow, InGroups
  <2>2. QED
    BY <1>3, <2>1 DEF StepFails
<1>4. ASSUME NEW s \in Sessions,
             \/ Begin(s) \/ Publish(s) \/ BindTty(s) \/ ResolveUser(s) \/ TakeLock(s) \/ AllocUid(s)
             \/ WriteGroup(s) \/ InheritGroups(s) \/ Unlock(s) \/ BindMount(s) \/ Fork(s) \/ Wait(s)
             \/ Announce(s) \/ WaitReturns(s) \/ PollReturns(s) \/ ContainerEnds(s)
             \/ BeginFails(s) \/ Terminate(s) \/ Killed(s) \/ RolledBack(s)
      PROVE  HostKept'
  BY <1>4 DEF Begin, Publish, BindTty, ResolveUser, TakeLock, AllocUid, WriteGroup,
     InheritGroups, Unlock, BindMount, Fork, Wait, Announce, WaitReturns, PollReturns,
     ContainerEnds, BeginFails, Terminate, Killed, RolledBack
<1>5. ASSUME NEW s \in Sessions,
             \/ KillPgid(s) \/ KillByUid(s) \/ KillByPath(s) \/ Unmount(s) \/ LeaveGroups(s)
             \/ RemoveGroup(s) \/ ReleaseLock(s) \/ UnmountTty(s) \/ RemoveBinary(s) \/ UndoFails(s)
      PROVE  HostKept'
  BY <1>5 DEF KillPgid, KillByUid, KillByPath, Kill, Unmount, LeaveGroups, RemoveGroup,
     ReleaseLock, UnmountTty, RemoveBinary, UndoFails
<1>6. ASSUME NEW s \in Sessions,
             Exec(s) \/ ExecStart(s) \/ ExecGivesUp(s) \/ ExecTerminated(s) \/ ExecKilled(s)
      PROVE  HostKept'
  BY <1>6 DEF Exec, ExecFinds, ExecForks, ExecReturns, ExecSignals, ExecStart, ExecGivesUp,
     ExecTerminated, ExecKilled
<1>7. ASSUME NEW p \in procs, LoginFinds(p) \/ LoginDrops(p) \/ Detaches(p) \/ Exits(p)
      PROVE  HostKept'
  BY <1>7 DEF LoginFinds, LoginDrops, Detaches, Exits, Becomes
<1>8. CASE UNCHANGED vars
  BY <1>8 DEF vars
<1> QED
  BY <1>1, <1>2, <1>3, <1>4, <1>5, <1>6, <1>7, <1>8 DEF Next, Shim, SetsUp, RollsBack

LEMMA BasicInit == Init => BasicInv
<1> SUFFICES ASSUME Init PROVE BasicInv
  OBVIOUS
<1> USE ShellAssumption DEF Init
<1>1. TypeOK
  BY DEF TypeOK, PCs, Over
<1>2. Progress /\ LockHeld /\ UidKnown /\ SafeNames
  BY DEF Progress, LockHeld, UidKnown, SafeNames, Early, Ran, HasHome, InGroups, InShadow,
     InGroup, InPasswd, Named, Locking
<1>3. HostKept
  BY DEF HostKept
<1>4. QED
  BY <1>1, <1>2, <1>3 DEF BasicInv

LEMMA BasicStep == BasicInv /\ [Next]_vars => BasicInv'
<1>1. BasicInv /\ [Next]_vars => TypeOK' /\ Control' /\ HostKept'
  BY TypeStep, ControlStep, HostStep DEF BasicInv
<1>2. TypeOK' /\ Control' /\ HostKept' => BasicInv'
  BY DEF BasicInv, Control
<1>3. QED
  BY <1>1, <1>2

LEMMA BasicAlways == Spec => []BasicInv
BY BasicInit, BasicStep, PTL DEF Spec

\* The state of the shim's sessions and of the node always has its type.
THEOREM TypesHold == Spec => []TypeOK
<1>1. BasicInv => TypeOK
  BY DEF BasicInv
<1>2. QED
  BY <1>1, BasicAlways, PTL

\* No session, whatever its user is called, ever adds to, changes or removes the
\* passwd and shadow lines or the homes of the node's own accounts: neither
\* identity_write_entries nor identity_remove_entries and the rmdir of rollback
\* get to see such a name.
THEOREM HostAccountsKept == Spec => []HostKept
<1>1. BasicInv => HostKept
  BY DEF BasicInv
<1>2. QED
  BY <1>1, BasicAlways, PTL

-----------------------------------------------------------------------------
(* The files and places of sessions whose names are apart.                  *)

\* What of the step of each session is left to undo stays as it is.
Same(step) == \A t \in Sessions : step \in did'[t] <=> step \in did[t]

\* No session comes to use its name, or to the point where its uid is chosen.
NoneAdvances ==
  \A t \in Sessions : /\ pc'[t] \in Named => pc[t] \in Named
                      /\ pc'[t] = "passwd" => pc[t] = "passwd"

\* Each part of the invariant depends on one file or place.
LEMMA AccountFrame ==
  ASSUME UNCHANGED <<name, uid>>, spoilt \subseteq spoilt'
  PROVE  /\ PasswdInv /\ passwd' = passwd /\ Same("passwd") => PasswdInv'
         /\ GroupInv /\ group' = group /\ Same("group") => GroupInv'
         /\ ShadowInv /\ shadow' = shadow /\ Same("shadow") => ShadowInv'
         /\ MembersInv /\ UNCHANGED <<members, joined>> /\ Same("groups") => MembersInv'
         /\ HomeInv /\ home' = home /\ Same("home") => HomeInv'
         /\ TypeOK /\ MountsInv /\ mounts' = mounts /\ Same("mount") => MountsInv'
         /\ Alone /\ passwd' = passwd /\ Same("passwd") /\ NoneAdvances => Alone'
         /\ UidsApart /\ Same("passwd") /\ NoneAdvances => UidsApart'
<1> USE DEF Same, Left, Own
<1>1. PasswdInv /\ passwd' = passwd /\ Same("passwd") => PasswdInv'
  BY DEF PasswdInv
<1>2. GroupInv /\ group' = group /\ Same("group") => GroupInv'
  BY DEF GroupInv
<1>3. ShadowInv /\ shadow' = shadow /\ Same("shadow") => ShadowInv'
  BY DEF ShadowInv
<1>4. MembersInv /\ UNCHANGED <<members, joined>> /\ Same("groups") => MembersInv'
  BY DEF MembersInv
<1>5. HomeInv /\ home' = home /\ Same("home") => HomeInv'
  BY DEF HomeInv
<1>6. TypeOK /\ MountsInv /\ mounts' = mounts /\ Same("mount") => MountsInv'
  <2>1. TypeOK => \A n \in Names : \A k \in DOMAIN mounts[n] : mounts[n][k] \in Sessions
    BY DEF TypeOK
  <2>2. QED
    BY <2>1 DEF MountsInv
<1>7. Alone /\ passwd' = passwd /\ Same("passwd") /\ NoneAdvances => Alone'
  BY DEF Alone, NoneAdvances
<1>8. UidsApart /\ Same("passwd") /\ NoneAdvances => UidsApart'
  BY DEF UidsApart, HasUid, NoneAdvances
<1>9. QED
  BY <1>1, <1>2, <1>3, <1>4, <1>5, <1>6, <1>7, <1>8

\* Actions that touch neither the files nor the homes
QuietSetup(s) ==
  \/ Begin(s) \/ Publish(s) \/ BindTty(s) \/ TakeLock(s) \/ Unlock(s) \/ Fork(s) \/ Wait(s)
  \/ Announce(s) \/ WaitReturns(s) \/ PollReturns(s) \/ BeginFails(s) \/ ContainerEnds(s)
  \/ RolledBack(s) \/ Terminate(s) \/ Killed(s)

QuietUndo(s) ==
  \/ KillPgid(s) \/ KillByUid(s) \/ KillByPath(s) \/ ReleaseLock(s) \/ UnmountTty(s)
  \/ RemoveBinary(s)

QuietExec(s) ==
  Exec(s) \/ ExecStart(s) \/ ExecGivesUp(s) \/ ExecTerminated(s) \/ ExecKilled(s)

QuietLogin(p) == LoginFinds(p) \/ LoginDrops(p) \/ Detaches(p) \/ Exits(p)

Quiet ==
  /\ UNCHANGED <<name, uid, joined, spoilt, passwd, shadow, group, members, home, mounts>>
  /\ NoneAdvances /\ \A step \in NameSteps : Same(step)

\* They really touch none of them.
LEMMA QuietSteps ==
  ASSUME TypeOK,
         \/ \E s \in Sessions : QuietSetup(s) \/ QuietUndo(s) \/ QuietExec(s)
         \/ \E p \in procs : QuietLogin(p)
         \/ UNCHANGED vars
  PROVE  Quiet
<1> USE DEF Quiet, Same, NoneAdvances, setup, accounts, places, markers, execVars, At, Goto,
     Mark, Over, NameSteps, Named, InPasswd, InGroup, InShadow, InGroups, HasHome, Ran
<1>0. pc \in [Sessions -> PCs] /\ did \in [Sessions -> SUBSET Range(UndoOrder)]
  BY DEF TypeOK
<1> USE <1>0
<1>1. ASSUME NEW s \in Sessions, QuietSetup(s) PROVE Quiet
  <2>1. CASE Begin(s)
    BY <2>1 DEF Begin
  <2>2. CASE Publish(s)
    BY <2>2 DEF Publish
  <2>3. CASE BindTty(s)
    BY <2>3 DEF BindTty
  <2>4. CASE TakeLock(s)
    BY <2>4 DEF TakeLock
  <2>5. CASE Unlock(s)
    BY <2>5 DEF Unlock
  <2>6. CASE Fork(s)
    BY <2>6 DEF Fork
  <2>7. CASE Wait(s)
    BY <2>7 DEF Wait
  <2>8. CASE Announce(s)
    BY <2>8 DEF Announce
  <2>9. CASE WaitReturns(s)
    BY <2>9 DEF WaitReturns
  <2>10. CASE PollReturns(s)
    BY <2>10 DEF PollReturns
  <2>11. CASE BeginFails(s)
    BY <2>11 DEF BeginFails
  <2>12. CASE ContainerEnds(s)
    BY <2>12 DEF ContainerEnds
  <2>13. CASE RolledBack(s)
    BY <2>13 DEF RolledBack
  <2>14. CASE Terminate(s)
    BY <2>14 DEF Terminate
  <2>15. CASE Killed(s)
    BY <2>15 DEF Killed
  <2>16. QED
    BY <1>1, <2>1, <2>2, <2>3, <2>4, <2>5, <2>6, <2>7, <2>8, <2>9, <2>10, <2>11, <2>12, <2>13,
       <2>14, <2>15 DEF QuietSetup
<1>2. ASSUME NEW s \in Sessions, QuietUndo(s) PROVE Quiet
  BY <1>2 DEF QuietUndo, KillPgid, KillByUid, KillByPath, Kill, ReleaseLock, UnmountTty,
     RemoveBinary, Undoing, Passed
<1>3. ASSUME NEW s \in Sessions, QuietExec(s) PROVE Quiet
  BY <1>3 DEF QuietExec, Exec, ExecFinds, ExecForks, ExecReturns, ExecSignals, ExecStart,
     ExecGivesUp, ExecTerminated, ExecKilled
<1>4. ASSUME NEW p \in procs, QuietLogin(p) PROVE Quiet
  BY <1>4 DEF QuietLogin, LoginFinds, LoginDrops, Detaches, Exits, Becomes
<1>5. CASE UNCHANGED vars
  BY <1>5 DEF vars
<1>6. QED
  BY <1>1, <1>2, <1>3, <1>4, <1>5

\* Of what rollback will undo under a session's name, only this step changes.
Only(step) ==
  /\ UNCHANGED <<name, uid, spoilt>> /\ NoneAdvances
  /\ \A other \in NameSteps \ {step} : Same(other)

\* Two sessions that claim one name are one.
LEMMA OneClaims ==
  ASSUME NamesApart, NEW s \in Sessions, NEW t \in Sessions, name[s] = name[t],
         pc[s] \in Named \/ \E step \in NameSteps : Left(s, step),
         pc[t] \in Named \/ \E step \in NameSteps : Left(t, step)
  PROVE  s = t
BY DEF NamesApart, Claims, Left

\* One step per action that touches a file or a home; the rest is quiet.
LEMMA AccountStep ==
  BasicInv /\ NamesApart /\ AccountInv /\ [Next]_vars => AccountInv'
<1> SUFFICES ASSUME BasicInv, NamesApart, AccountInv, [Next]_vars PROVE AccountInv'
  OBVIOUS
<1>0. /\ TypeOK
      /\ pc \in [Sessions -> PCs] /\ did \in [Sessions -> SUBSET Range(UndoOrder)]
      /\ name \in [Sessions -> Names] /\ uid \in [Sessions -> Uids \cup {None}]
      /\ mounts \in [Names -> Seq(Sessions)]
  BY DEF BasicInv, TypeOK
<1> USE <1>0 DEF setup, accounts, places, At, Goto, Mark
<1>1. ASSUME NEW s \in Sessions, ResolveUser(s) PROVE AccountInv'
  <2>1. /\ \A t \in Sessions : t # s => pc'[t] = pc[t] /\ name'[t] = name[t]
        /\ name'[s] \in {name[s], Generated[s]}
        /\ name[s] \in Taken => name'[s] = Generated[s]
        /\ pc[s] = "user" /\ pc'[s] = "lock" /\ name' \in [Sessions -> Names]
        /\ UNCHANGED <<did, uid, joined, spoilt, passwd, shadow, group, members, home, mounts>>
    BY <1>1, ShellAssumption DEF ResolveUser
  <2>2. \A step \in NameSteps : ~Left(s, step)
    BY <2>1 DEF BasicInv, Progress, Left, NameSteps, Early, Named, InPasswd, InGroup, InShadow,
       InGroups, HasHome, Ran
  <2>3. PasswdInv' /\ GroupInv' /\ ShadowInv' /\ MembersInv' /\ HomeInv'
    <3> USE <2>1, <2>2 DEF AccountInv, Left, NameSteps
    <3>1. PasswdInv'
      BY DEF PasswdInv, Own
    <3>2. GroupInv'
      BY DEF GroupInv, Own
    <3>3. ShadowInv'
      BY DEF ShadowInv
    <3>4. MembersInv'
      BY DEF MembersInv
    <3>5. HomeInv'
      BY DEF HomeInv
    <3>6. QED
      BY <3>1, <3>2, <3>3, <3>4, <3>5
  <2>4. MountsInv'
    <3>1. \A n \in Names : \A k \in DOMAIN mounts[n] : mounts[n][k] \in Sessions \ {s}
      BY <2>2 DEF AccountInv, MountsInv, NameSteps
    <3>2. QED
      BY <2>1, <2>2, <3>1 DEF AccountInv, MountsInv, Left, NameSteps
  <2>5. Generated[s] \notin Taken
    <3>1. ASSUME NEW line \in passwd PROVE line[1] # Generated[s]
      <4>1. CASE line[1] \in HostNames \/ line \in Leftovers
        BY <4>1, ShellAssumption DEF Range
      <4>2. ASSUME NEW t \in Sessions, line = Own(t), Left(t, "passwd") PROVE line[1] # Generated[s]
        <5>1. t # s /\ line[1] = name[t] /\ name[t] \in {First[t], Generated[t]}
          BY <4>2, <2>2 DEF Own, BasicInv, SafeNames, NameSteps
        <5>2. QED
          BY <5>1, ShellAssumption
      <4>3. QED
        BY <4>1, <4>2 DEF AccountInv, PasswdInv
    <3>2. QED
      BY <3>1 DEF Taken
  <2>6. \A line \in passwd : line[1] # name'[s]
    BY <2>1, <2>5 DEF Taken
  <2>7. Alone' /\ UidsApart'
    BY <2>1, <2>2, <2>6 DEF AccountInv, Alone, UidsApart, HasUid, Own, NameSteps, Named,
       InPasswd, InGroup, InShadow, InGroups, HasHome, Ran
  <2>8. QED
    BY <2>3, <2>4, <2>7 DEF AccountInv
<1>2. ASSUME NEW s \in Sessions, AllocUid(s) PROVE AccountInv'
  <2>1. /\ \A t \in Sessions : t # s => pc'[t] = pc[t] /\ uid'[t] = uid[t]
        /\ \A step \in NameSteps : Same(step)
        /\ pc[s] = "scan" /\ pc'[s] \in {"passwd", "rollback"}
        /\ UNCHANGED <<name, joined, spoilt, passwd, shadow, group, members, home, mounts>>
    <3>1. uid' = uid \/ \E u \in FreeUids : uid' = [uid EXCEPT ![s] = u]
      BY <1>2 DEF AllocUid
    <3>2. did' = did \/ did' = [did EXCEPT ![s] = @ \cup {"lock"}]
      BY <1>2 DEF AllocUid
    <3>3. \A step \in NameSteps : Same(step)
      BY <3>2 DEF Same, NameSteps
    <3>4. QED
      BY <1>2, <3>1, <3>3 DEF AllocUid
  <2>2. \A step \in NameSteps : ~Left(s, step)
    BY <2>1 DEF BasicInv, Progress, Left, NameSteps, Early, Named, InPasswd, InGroup, InShadow,
       InGroups, HasHome, Ran
  <2>3. pc'[s] = "passwd" => uid'[s] \in FreeUids
    BY <1>2 DEF AllocUid
  <2>4. \A t \in Sessions : Left(t, "passwd") \/ Left(t, "group") => uid'[t] = uid[t]
    BY <2>1, <2>2 DEF NameSteps
  <2>5. PasswdInv' /\ GroupInv'
    <3> USE <2>1, <2>4 DEF AccountInv, Left, Own, Same, NameSteps
    <3>1. PasswdInv'
      BY DEF PasswdInv
    <3>2. GroupInv'
      BY DEF GroupInv
    <3>3. QED
      BY <3>1, <3>2
  <2>6. ShadowInv' /\ MembersInv' /\ HomeInv'
    BY <2>1 DEF AccountInv, ShadowInv, MembersInv, HomeInv, Left, Same, NameSteps
  <2>7. MountsInv'
    BY <2>1 DEF AccountInv, MountsInv, Left, Same, NameSteps
  <2>8. Alone'
    BY <2>1, <2>2, <2>4 DEF AccountInv, Alone, Left, Own, Same, NameSteps, Named, InPasswd,
       InGroup, InShadow, InGroups, HasHome, Ran
  <2>9. UidsApart'
    <3>1. ASSUME NEW t \in Sessions, t # s, HasUid(t), pc'[s] = "passwd" PROVE uid[t] # uid'[s]
      <4>1. pc[t] # "passwd"
        BY <3>1, <2>1 DEF BasicInv, LockHeld, Locking
      <4>2. Own(t) \in passwd
        BY <3>1, <4>1 DEF HasUid, AccountInv, PasswdInv
      <4>3. QED
        BY <2>3, <3>1, <4>2 DEF FreeUids, Own
    <3>2. \A t \in Sessions : HasUid(t)' => (t = s /\ pc'[s] = "passwd") \/ (t # s /\ HasUid(t))
      BY <2>1, <2>2 DEF HasUid, Left, Same, NameSteps
    <3>3. QED
      BY <2>1, <3>1, <3>2 DEF AccountInv, UidsApart
  <2>10. QED
    BY <2>5, <2>6, <2>7, <2>8, <2>9 DEF AccountInv
<1>3. ASSUME NEW s \in Sessions, WritePasswd(s) PROVE AccountInv'
  <2>1. /\ Only("passwd") /\ UNCHANGED <<joined, shadow, group, members, home, mounts>>
        /\ pc[s] = "passwd" /\ passwd' = passwd \cup {Own(s)}
        /\ \A t \in Sessions : "passwd" \in did'[t] <=> "passwd" \in did[t] \/ t = s
    BY <1>3 DEF WritePasswd, Only, Same, NoneAdvances, Own, NameSteps, Named, InPasswd, InGroup,
       InShadow, InGroups, HasHome, Ran
  <2>2. PasswdInv'
    BY <2>1 DEF Only, AccountInv, PasswdInv, Own, Left
  <2>3. Alone'
    <3>1. ASSUME NEW t \in Sessions, pc[t] \in Named \/ "passwd" \in did[t], name[t] = name[s]
          PROVE  t = s
      BY <2>1, <3>1, OneClaims DEF Left, NameSteps, Named
    <3>2. ASSUME NEW t \in Sessions, pc'[t] \in Named \/ "passwd" \in did'[t],
                 NEW line \in passwd', line[1] = name[t]
          PROVE  line = Own(t) /\ "passwd" \in did'[t]
      <4>1. pc[t] \in Named \/ "passwd" \in did[t]
        BY <2>1, <3>2 DEF Only, NoneAdvances, Named
      <4>2. CASE line \in passwd
        BY <2>1, <3>2, <4>1, <4>2 DEF AccountInv, Alone
      <4>3. CASE line = Own(s)
        BY <2>1, <3>1, <3>2, <4>1, <4>3 DEF Own
      <4>4. QED
        BY <2>1, <4>2, <4>3
    <3>3. QED
      BY <2>1, <3>2 DEF Only, Alone, Own
  <2>4. UidsApart'
    BY <2>1 DEF Only, NoneAdvances, AccountInv, UidsApart, HasUid
  <2>5. QED
    BY <2>1, <2>2, <2>3, <2>4, AccountFrame DEF Only, AccountInv, NameSteps
<1>4. ASSUME NEW s \in Sessions, WriteGroup(s) PROVE AccountInv'
  <2>1. /\ Only("group") /\ UNCHANGED <<joined, passwd, shadow, members, home, mounts>>
        /\ group' = group \cup {Own(s)}
        /\ \A t \in Sessions : "group" \in did'[t] <=> "group" \in did[t] \/ t = s
    BY <1>4 DEF WriteGroup, Only, Same, NoneAdvances, Own, NameSteps, Named, InPasswd, InGroup,
       InShadow, InGroups, HasHome, Ran
  <2>2. GroupInv'
    BY <2>1 DEF Only, AccountInv, GroupInv, Own, Left
  <2>3. QED
    BY <2>1, <2>2, AccountFrame DEF Only, AccountInv, NameSteps
<1>5. ASSUME NEW s \in Sessions, WriteShadow(s) PROVE AccountInv'
  <2>1. /\ Only("shadow") /\ UNCHANGED <<joined, passwd, group, members, home, mounts>>
        /\ shadow' = shadow \cup {name[s]}
        /\ \A t \in Sessions : "shadow" \in did'[t] <=> "shadow" \in did[t] \/ t = s
    BY <1>5 DEF WriteShadow, Only, Same, NoneAdvances, Own, NameSteps, Named, InPasswd, InGroup,
       InShadow, InGroups, HasHome, Ran
  <2>2. ShadowInv'
    BY <2>1 DEF Only, AccountInv, ShadowInv, Own, Left
  <2>3. QED
    BY <2>1, <2>2, AccountFrame DEF Only, AccountInv, NameSteps
<1>6. ASSUME NEW s \in Sessions, MkdirHome(s) PROVE AccountInv'
  <2>1. /\ Only("home") /\ UNCHANGED <<joined, passwd, shadow, group, members, mounts>>
        /\ home' = home \cup {name[s]}
        /\ \A t \in Sessions : "home" \in did'[t] <=> "home" \in did[t] \/ t = s
    BY <1>6 DEF MkdirHome, Only, Same, NoneAdvances, Own, NameSteps, Named, InPasswd, InGroup,
       InShadow, InGroups, HasHome, Ran
  <2>2. HomeInv'
    BY <2>1 DEF Only, AccountInv, HomeInv, Own, Left
  <2>3. QED
    BY <2>1, <2>2, AccountFrame DEF Only, AccountInv, NameSteps
<1>7. ASSUME NEW s \in Sessions, InheritGroups(s) PROVE AccountInv'
  <2>1. /\ Only("groups") /\ UNCHANGED <<passwd, shadow, group, home, mounts>>
        /\ members' = members \cup (joined'[s] \X {name[s]})
        /\ \A t \in Sessions : t # s => joined'[t] = joined[t]
        /\ \A t \in Sessions : "groups" \in did'[t] <=> "groups" \in did[t] \/ t = s
    BY <1>7 DEF InheritGroups, TypeOK, Only, Same, NoneAdvances, NameSteps, Named, InPasswd,
       InGroup, InShadow, InGroups, HasHome, Ran
  <2>2. ~Left(s, "groups")
    BY <1>7 DEF InheritGroups, BasicInv, Progress, Left, Early, Named, InPasswd, InGroup,
       InShadow, InGroups, HasHome, Ran
  <2>3. ASSUME NEW m \in members'
        PROVE  \E t \in Sessions : m \in joined'[t] \X {name'[t]} /\ Left(t, "groups")'
    <3>1. name' = name /\ spoilt' = spoilt
      BY <2>1 DEF Only
    <3>2. CASE m \in members
      <4>1. PICK t \in Sessions : m \in joined[t] \X {name[t]} /\ Left(t, "groups")
        BY <3>2 DEF AccountInv, MembersInv
      <4>2. t # s
        BY <2>2, <4>1
      <4> QED
        BY <2>1, <3>1, <4>1, <4>2 DEF Left
    <3>3. CASE m \in joined'[s] \X {name[s]}
      BY <2>1, <3>1, <3>3 DEF Left
    <3> QED
      BY <2>1, <3>2, <3>3
  <2>4. ASSUME NEW t \in Sessions, "groups" \in did'[t]
        PROVE  joined'[t] \X {name'[t]} \subseteq members'
    <3>1. name'[t] = name[t]
      BY <2>1 DEF Only
    <3>2. CASE t = s
      BY <2>1, <3>1, <3>2
    <3>3. CASE t # s
      BY <2>1, <2>4, <3>1, <3>3 DEF AccountInv, MembersInv
    <3> QED
      BY <3>2, <3>3
  <2>5. MembersInv'
    BY <2>3, <2>4 DEF MembersInv
  <2>6. QED
    BY <2>1, <2>5, AccountFrame DEF Only, AccountInv, NameSteps
<1>8. ASSUME NEW s \in Sessions, BindMount(s) PROVE AccountInv'
  <2>1. /\ Only("mount") /\ UNCHANGED <<joined, passwd, shadow, group, members, home>>
        /\ mounts' = [mounts EXCEPT ![name[s]] = Append(@, s)] /\ pc[s] = "mount"
        /\ \A t \in Sessions : "mount" \in did'[t] <=> "mount" \in did[t] \/ t = s
    BY <1>8 DEF BindMount, Only, Same, NoneAdvances, NameSteps, Named, InPasswd, InGroup,
       InShadow, InGroups, HasHome, Ran
  <2>2. ~Left(s, "mount")
    BY <2>1 DEF BasicInv, Progress, Left, Early, Named, InPasswd, InGroup, InShadow, InGroups,
       HasHome, Ran
  <2>3. mounts[name[s]] = <<>>
    <3>1. ASSUME NEW k \in DOMAIN mounts[name[s]] PROVE FALSE
      <4>1. /\ mounts[name[s]][k] \in Sessions /\ name[mounts[name[s]][k]] = name[s]
            /\ Left(mounts[name[s]][k], "mount")
        BY DEF AccountInv, MountsInv
      <4>2. mounts[name[s]][k] = s
        BY <2>1, <4>1, OneClaims DEF NameSteps, Named, InPasswd, InGroup, InShadow, InGroups,
           HasHome
      <4>3. QED
        BY <2>2, <4>1, <4>2
    <3>2. Len(mounts[name[s]]) \in Nat /\ DOMAIN mounts[name[s]] = 1..Len(mounts[name[s]])
      BY LenProperties
    <3>3. Len(mounts[name[s]]) # 0 => 1 \in DOMAIN mounts[name[s]]
      BY <3>2
    <3>4. QED
      BY <3>1, <3>3, EmptySeq
  <2>4. mounts'[name[s]] = <<s>> /\ \A n \in Names \ {name[s]} : mounts'[n] = mounts[n]
    BY <2>1, <2>3
  <2>5. MountsInv'
    <3>1. ASSUME NEW n \in Names, NEW k \in DOMAIN mounts'[n]
          PROVE  n = name'[mounts'[n][k]] /\ Left(mounts[n][k], "mount")'
      <4>1. CASE n = name[s]
        <5>1. k = 1 /\ mounts'[n][k] = s
          BY <2>4, <3>1, <4>1
        <5>2. QED
          BY <2>1, <4>1, <5>1 DEF Only, Left
      <4>2. CASE n # name[s]
        BY <2>1, <2>4, <4>2 DEF Only, Left, AccountInv, MountsInv
      <4>3. QED
        BY <4>1, <4>2
    <3>2. ASSUME NEW t \in Sessions, "mount" \in did'[t] PROVE mounts'[name'[t]] = <<t>>
      <4>1. name[t] = name[s] => t = s
        BY <2>1, <3>2, OneClaims DEF Left, NameSteps, Named, InPasswd, InGroup, InShadow,
           InGroups, HasHome
      <4>2. QED
        BY <2>1, <2>4, <3>2, <4>1 DEF Only, AccountInv, MountsInv
    <3>3. QED
      BY <3>1, <3>2 DEF MountsInv
  <2>6. QED
    BY <2>1, <2>5, AccountFrame DEF Only, AccountInv, NameSteps
<1>9. ASSUME NEW s \in Sessions, StepFails(s) PROVE AccountInv'
  <2>1. /\ Only("home") /\ Same("home") /\ UNCHANGED <<joined, passwd, shadow, group, members, mounts>>
        /\ home' = home \/ (pc[s] = "home" /\ home' = home \ {name[s]})
    BY <1>9 DEF StepFails, Only, Same, NoneAdvances, NameSteps, Named, InPasswd, InGroup,
       InShadow, InGroups, HasHome, Ran
  <2>2. ASSUME NEW t \in Sessions, "home" \in did[t], pc[s] = "home" PROVE name[t] # name[s]
    <3>1. "home" \notin did[s]
      BY <2>2 DEF BasicInv, Progress, Early, Named, InPasswd, InGroup, InShadow, InGroups,
         HasHome, Ran
    <3>2. QED
      BY <2>2, <3>1, OneClaims DEF Left, NameSteps, Named, InPasswd, InGroup, InShadow, InGroups
  <2>3. HomeInv'
    BY <2>1, <2>2 DEF Only, Same, AccountInv, HomeInv, Left
  <2>4. QED
    BY <2>1, <2>3, AccountFrame DEF Only, AccountInv, NameSteps
<1>10. ASSUME NEW s \in Sessions, Unmount(s) PROVE AccountInv'
  <2>1. /\ Only("mount") /\ UNCHANGED <<joined, passwd, shadow, group, members, home>>
        /\ "mount" \in did[s]
        /\ mounts' = IF mounts[name[s]] = <<>> THEN mounts
                                               ELSE [mounts EXCEPT ![name[s]] = Front(@)]
        /\ \A t \in Sessions : "mount" \in did'[t] <=> "mount" \in did[t] /\ t # s
    BY <1>10 DEF Unmount, Undoing, Passed, Only, Same, NoneAdvances, NameSteps
  <2>2. mounts[name[s]] = <<s>> /\ Front(<<s>>) = <<>>
    BY <2>1, SubSeqEmpty DEF AccountInv, MountsInv, Front
  <2>3. mounts'[name[s]] = <<>> /\ \A n \in Names \ {name[s]} : mounts'[n] = mounts[n]
    BY <2>1, <2>2
  <2>4. MountsInv'
    <3>1. ASSUME NEW n \in Names, NEW k \in DOMAIN mounts'[n]
          PROVE  n = name'[mounts'[n][k]] /\ Left(mounts[n][k], "mount")'
      <4>1. n # name[s]
        BY <2>3, <3>1
      <4>2. mounts'[n][k] \in Sessions /\ mounts'[n][k] # s
        BY <2>3, <3>1, <4>1 DEF AccountInv, MountsInv
      <4>3. QED
        BY <2>1, <2>3, <4>1, <4>2 DEF Only, Left, AccountInv, MountsInv
    <3>2. ASSUME NEW t \in Sessions, "mount" \in did'[t] PROVE mounts'[name'[t]] = <<t>>
      <4>1. name[t] # name[s]
        BY <2>1, <3>2, OneClaims DEF Left, NameSteps
      <4>2. QED
        BY <2>1, <2>3, <3>2, <4>1 DEF Only, AccountInv, MountsInv
    <3>3. QED
      BY <3>1, <3>2 DEF MountsInv
  <2>5. QED
    BY <2>1, <2>4, AccountFrame DEF Only, AccountInv, NameSteps
<1>11. ASSUME NEW s \in Sessions, RmdirHome(s) PROVE AccountInv'
  <2>1. /\ Only("home") /\ UNCHANGED <<joined, passwd, shadow, group, members, mounts>>
        /\ "home" \in did[s] /\ "mount" \notin did[s]
        /\ home' = IF mounts[name[s]] = <<>> THEN home \ {name[s]} ELSE home
        /\ \A t \in Sessions : "home" \in did'[t] <=> "home" \in did[t] /\ t # s
    BY <1>11, UndoneBefore DEF RmdirHome, Undoing, Passed, Only, Same, NoneAdvances, NameSteps
  <2>2. mounts[name[s]] # <<>> => s \in spoilt
    <3>1. ASSUME mounts[name[s]] # <<>> PROVE 1 \in DOMAIN mounts[name[s]]
      BY <3>1, EmptySeq, LenProperties
    <3>2. ASSUME NEW k \in DOMAIN mounts[name[s]] PROVE s \in spoilt
      <4>1. /\ mounts[name[s]][k] \in Sessions /\ name[mounts[name[s]][k]] = name[s]
            /\ Left(mounts[name[s]][k], "mount")
        BY DEF AccountInv, MountsInv
      <4>2. mounts[name[s]][k] = s
        BY <2>1, <4>1, OneClaims DEF NameSteps, Left
      <4>3. QED
        BY <2>1, <4>1, <4>2 DEF Left
    <3>3. QED
      BY <3>1, <3>2
  <2>3. ASSUME NEW t \in Sessions, t # s, "home" \in did[t] PROVE name[t] # name[s]
    BY <2>1, <2>3, OneClaims DEF Left, NameSteps
  <2>4. HomeInv'
    BY <2>1, <2>2, <2>3 DEF Only, AccountInv, HomeInv, Left
  <2>5. QED
    BY <2>1, <2>4, AccountFrame DEF Only, AccountInv, NameSteps
<1>12. ASSUME NEW s \in Sessions, LeaveGroups(s) PROVE AccountInv'
  <2>1. /\ Only("groups") /\ UNCHANGED <<joined, passwd, shadow, group, home, mounts>>
        /\ "groups" \in did[s] /\ members' = members \ (joined[s] \X {name[s]})
        /\ \A t \in Sessions : "groups" \in did'[t] <=> "groups" \in did[t] /\ t # s
    BY <1>12 DEF LeaveGroups, Undoing, Passed, Only, Same, NoneAdvances, NameSteps
  <2>2. ASSUME NEW t \in Sessions, t # s, "groups" \in did[t] PROVE name[t] # name[s]
    BY <2>1, <2>2, OneClaims DEF Left, NameSteps
  <2>3. MembersInv'
    BY <2>1, <2>2 DEF Only, AccountInv, MembersInv, Left
  <2>4. QED
    BY <2>1, <2>3, AccountFrame DEF Only, AccountInv, NameSteps
<1>13. ASSUME NEW s \in Sessions, RemovePasswd(s) PROVE AccountInv'
  <2>1. /\ Only("passwd") /\ UNCHANGED <<joined, shadow, group, members, home, mounts>>
        /\ "passwd" \in did[s] /\ passwd' = {line \in passwd : line[1] # name[s]}
        /\ \A t \in Sessions : "passwd" \in did'[t] <=> "passwd" \in did[t] /\ t # s
        /\ pc'[s] = "rollback"
    BY <1>13 DEF RemovePasswd, Undoing, Passed, Only, Same, NoneAdvances, NameSteps
  <2>2. ASSUME NEW t \in Sessions, t # s, "passwd" \in did[t] PROVE name[t] # name[s]
    BY <2>1, <2>2, OneClaims DEF Left, NameSteps
  <2>3. PasswdInv'
    BY <2>1, <2>2 DEF Only, AccountInv, PasswdInv, Left, Own
  <2>4. Alone' /\ UidsApart'
    BY <2>1 DEF Only, NoneAdvances, AccountInv, Alone, UidsApart, HasUid, Own
  <2>5. QED
    BY <2>1, <2>3, <2>4, AccountFrame DEF Only, AccountInv, NameSteps
<1>14. ASSUME NEW s \in Sessions, RemoveShadow(s) PROVE AccountInv'
  <2>1. /\ Only("shadow") /\ UNCHANGED <<joined, passwd, group, members, home, mounts>>
        /\ "shadow" \in did[s] /\ shadow' = shadow \ {name[s]}
        /\ \A t \in Sessions : "shadow" \in did'[t] <=> "shadow" \in did[t] /\ t # s
    BY <1>14 DEF RemoveShadow, Undoing, Passed, Only, Same, NoneAdvances, NameSteps
  <2>2. ASSUME NEW t \in Sessions, t # s, "shadow" \in did[t] PROVE name[t] # name[s]
    BY <2>1, <2>2, OneClaims DEF Left, NameSteps
  <2>3. ShadowInv'
    BY <2>1, <2>2 DEF Only, AccountInv, ShadowInv, Own, Left
  <2>4. QED
    BY <2>1, <2>3, AccountFrame DEF Only, AccountInv, NameSteps
<1>15. ASSUME NEW s \in Sessions, RemoveGroup(s) PROVE AccountInv'
  <2>1. /\ Only("group") /\ UNCHANGED <<joined, passwd, shadow, members, home, mounts>>
        /\ "group" \in did[s] /\ group' = {line \in group : line[1] # name[s]}
        /\ \A t \in Sessions : "group" \in did'[t] <=> "group" \in did[t] /\ t # s
    BY <1>15 DEF RemoveGroup, Undoing, Passed, Only, Same, NoneAdvances, NameSteps
  <2>2. ASSUME NEW t \in Sessions, t # s, "group" \in did[t] PROVE name[t] # name[s]
    BY <2>1, <2>2, OneClaims DEF Left, NameSteps
  <2>3. GroupInv'
    BY <2>1, <2>2 DEF Only, AccountInv, GroupInv, Own, Left
  <2>4. QED
    BY <2>1, <2>3, AccountFrame DEF Only, AccountInv, NameSteps
<1>16. ASSUME NEW s \in Sessions, UndoFails(s) PROVE AccountInv'
  <2>1. PICK step \in did[s] : Passed(s, step)
    BY <1>16 DEF UndoFails
  <2>2. /\ UNCHANGED <<name, uid, joined, passwd, shadow, group, members, home, mounts>>
        /\ NoneAdvances /\ spoilt' = spoilt \cup {s} /\ pc[s] = "rollback" /\ pc' = pc
        /\ \A t \in Sessions : t # s => did'[t] = did[t]
        /\ did'[s] \subseteq did[s]
    BY <1>16, <2>1 DEF UndoFails, Passed, NoneAdvances
  <2>3. \A t \in Sessions, st \in NameSteps :
          (Left(t, st) => Left(t, st)') /\ (st \in did'[t] => st \in did[t])
    BY <2>2 DEF Left
  <2>4. PasswdInv' /\ GroupInv' /\ ShadowInv' /\ MembersInv' /\ HomeInv'
    BY <2>2, <2>3 DEF AccountInv, PasswdInv, GroupInv, ShadowInv, MembersInv, HomeInv, Own,
       NameSteps
  <2>5. MountsInv'
    BY <2>2, <2>3 DEF AccountInv, MountsInv, NameSteps
  <2>6. Alone'
    BY <2>2 DEF AccountInv, Alone, Own, Named, InPasswd, InGroup, InShadow, InGroups, HasHome, Ran
  <2>7. UidsApart'
    BY <2>2 DEF AccountInv, UidsApart, HasUid
  <2>8. QED
    BY <2>4, <2>5, <2>6, <2>7 DEF AccountInv
<1>17. ASSUME NEW s \in Sessions, QuietSetup(s) \/ QuietUndo(s) \/ QuietExec(s) PROVE AccountInv'
  BY <1>17, QuietSteps, AccountFrame DEF Quiet, AccountInv, NameSteps
<1>18. ASSUME NEW p \in procs, QuietLogin(p) PROVE AccountInv'
  BY <1>18, QuietSteps, AccountFrame DEF Quiet, AccountInv, NameSteps
<1>19. CASE UNCHANGED vars
  BY <1>19, QuietSteps, AccountFrame DEF Quiet, AccountInv, NameSteps
<1>20. ASSUME NEW s \in Sessions, SetsUp(s) PROVE AccountInv'
  BY <1>20, <1>1, <1>2, <1>3, <1>4, <1>5, <1>6, <1>7, <1>8, <1>17 DEF SetsUp, QuietSetup
<1>21. ASSUME NEW s \in Sessions, RollsBack(s) PROVE AccountInv'
  BY <1>21, <1>10, <1>11, <1>12, <1>13, <1>14, <1>15, <1>17 DEF RollsBack, QuietSetup, QuietUndo
<1>22. QED
  BY <1>9, <1>16, <1>17, <1>18, <1>19, <1>20, <1>21 DEF Next, Shim, QuietSetup, QuietExec,
     QuietLogin

LEMMA AccountInit == Init => AccountInv
<1> SUFFICES ASSUME Init PROVE AccountInv
  OBVIOUS
<1> USE DEF Init
<1>1. PasswdInv /\ GroupInv /\ ShadowInv /\ MembersInv /\ HomeInv
  BY DEF PasswdInv, GroupInv, ShadowInv, MembersInv, HomeInv
<1>2. MountsInv
  BY DEF MountsInv
<1>3. Alone /\ UidsApart
  BY DEF Alone, UidsApart, HasUid, Named, InPasswd, InGroup, InShadow, InGroups, HasHome, Ran
<1>4. QED
  BY <1>1, <1>2, <1>3 DEF AccountInv

LEMMA AccountAlways == Spec /\ []NamesApart => []AccountInv
BY AccountInit, AccountStep, BasicAlways, PTL DEF Spec

\* What the invariants say of a session that runs
LEMMA IntactFromInv == BasicInv /\ NamesApart /\ AccountInv => SessionIntact
<1> SUFFICES ASSUME BasicInv, NamesApart, AccountInv, NEW s \in Sessions, Running(s)
             PROVE  /\ {line \in passwd : line[1] = name[s]} = {Own(s)}
                    /\ {line \in group : line[1] = name[s]} = {Own(s)}
                    /\ name[s] \in shadow \cap home /\ joined[s] \X {name[s]} \subseteq members
                    /\ mounts[name[s]] # <<>> /\ Last(mounts[name[s]]) = s
  BY DEF SessionIntact
<1>1. NameSteps \subseteq did[s] /\ pc[s] \in Named
  BY DEF Running, BasicInv, Progress, NameSteps, Early, Named, InPasswd, InGroup, InShadow,
     InGroups, HasHome, Ran
<1>2. {line \in passwd : line[1] = name[s]} = {Own(s)}
  BY <1>1 DEF AccountInv, PasswdInv, Alone, Own, NameSteps
<1>3. {line \in group : line[1] = name[s]} = {Own(s)}
  <2>1. ASSUME NEW line \in group, line[1] = name[s] PROVE line = Own(s)
    <3>1. PICK t \in Sessions : line = Own(t) /\ Left(t, "group")
      BY DEF AccountInv, GroupInv
    <3>2. t = s
      BY <1>1, <2>1, <3>1, OneClaims DEF Own, NameSteps
    <3>3. QED
      BY <3>1, <3>2
  <2>2. Own(s) \in group
    BY <1>1 DEF AccountInv, GroupInv, NameSteps
  <2>3. QED
    BY <2>1, <2>2 DEF Own
<1>4. name[s] \in shadow \cap home /\ joined[s] \X {name[s]} \subseteq members
  BY <1>1 DEF AccountInv, ShadowInv, HomeInv, MembersInv, NameSteps
<1>5. mounts[name[s]] = <<s>>
  BY <1>1 DEF AccountInv, MountsInv, NameSteps
<1>6. QED
  BY <1>2, <1>3, <1>4, <1>5 DEF Last

\* As long as no two sessions use one name, the scan for a free uid and the
\* write of the passwd line, two steps under identity_alloc_uid's lock, never
\* give two sessions one uid, whatever is killed or fails in between.
THEOREM UidsNeverShared == Spec /\ []NamesApart => []UidExclusive
<1>1. BasicInv /\ AccountInv => UidExclusive
  BY DEF BasicInv, AccountInv, UidsApart, HasUid, UidExclusive
<1>2. QED
  BY <1>1, BasicAlways, AccountAlways, PTL

\* As long as no two sessions use one name, a session that runs has all that
\* pipeline_run set up for it, whatever rollbacks of other sessions remove by
\* name from the shared files and from /home.
THEOREM SessionsStayIntact == Spec /\ []NamesApart => []SessionIntact
BY IntactFromInv, BasicAlways, AccountAlways, PTL

-----------------------------------------------------------------------------
(* What a session leaves behind, when no two users have one name.           *)

\* The users of no two sessions have one name.
DistinctNames == \A s, t \in Sessions : s # t => First[s] # First[t]

\* Then no two sessions ever have one name: a name made up for a session is
\* no other's.
LEMMA NamesDiffer ==
  ASSUME DistinctNames, SafeNames, NEW s \in Sessions, NEW t \in Sessions, s # t
  PROVE  name[s] # name[t]
BY ShellAssumption DEF DistinctNames, SafeNames

LEMMA DistinctApart == DistinctNames /\ BasicInv => NamesApart
BY NamesDiffer DEF BasicInv, NamesApart

\* A session without a passwd line to remove has none under its name.
Cleared ==
  \A s \in Sessions :
    /\ pc[s] \in Early \cup {"lock", "scan"} => uid[s] = None
    /\ uid[s] # None /\ ~Left(s, "passwd") => \A line \in passwd : line[1] # name[s]

\* Terminals, binaries and markers are those of sessions that will remove them.
PlacesInv ==
  \A s \in Sessions :
    /\ <<s, "pod">> \in tty => Left(s, "tty")
    /\ s \in binary => Left(s, "publish")
    /\ s \in active => pc[s] \in {"poll", "killed", "gone"}

\* What PID 1 ran is killed before its account goes.
KillOrder ==
  \A s \in Sessions : /\ pc[s] \in Ran => {"killPgid", "killUid"} \subseteq did[s]
                      /\ "killPgid" \in did[s] => Left(s, "passwd")

\* Nobody execs into a pod that published no binary.
NoExec ==
  \A s \in Sessions \ ExecMode :
    /\ pc[s] \notin {"publish", "poll"} /\ "publish" \notin did[s]
    /\ s \notin binary /\ epc[s] = "idle"

Late == {"forked", "wait", "rollback"} \cup Over

\* Of a session that PID 1 ran, a process is there only as long as the sweep
\* that would end it is still to come; it runs under the session's account.
ProcsInv ==
  \A s \in Sessions \ ExecMode : \A p \in procs : p.of = s =>
    /\ p.by = "pod" /\ p.at = name[s] /\ pc[s] \in Late
    /\ Left(s, "killUid")
    /\ ~Dropped(p) => Left(s, "killPgid")
    /\ p.stage # "login" => p.uid = uid[s] \/ s \in spoilt

Orderly == PlacesInv /\ KillOrder /\ NoExec
TidyInv == Cleared /\ Orderly /\ ProcsInv

\* Each place is marked for rollback in the step that fills it.
LEMMA OrderlyStep == BasicInv /\ Orderly /\ [Next]_vars => Orderly'
<1> SUFFICES ASSUME BasicInv, Orderly, [Next]_vars PROVE Orderly'
  OBVIOUS
<1>0. /\ pc \in [Sessions -> PCs] /\ did \in [Sessions -> SUBSET Range(UndoOrder)]
      /\ epc \in [Sessions -> {"idle", "poll", "fork", "wait", "signal"}]
      /\ \A s \in Sessions : pc[s] = "mount" => "passwd" \in did[s]
  BY DEF BasicInv, TypeOK, Progress, Named, InPasswd, InGroup, InShadow, InGroups, HasHome, Ran
<1> USE <1>0 DEF setup, accounts, places, markers, execVars, At, Goto, Mark, Over, Orderly,
     PlacesInv, KillOrder, NoExec, Left, Ran
<1>1. ASSUME NEW s \in Sessions, Begin(s) PROVE Orderly'
  BY <1>1 DEF Begin
<1>2. ASSUME NEW s \in Sessions, Publish(s) PROVE Orderly'
  BY <1>2 DEF Publish
<1>3. ASSUME NEW s \in Sessions, BindTty(s) PROVE Orderly'
  BY <1>3 DEF BindTty
<1>4. ASSUME NEW s \in Sessions, ResolveUser(s) PROVE Orderly'
  BY <1>4 DEF ResolveUser
<1>5. ASSUME NEW s \in Sessions, TakeLock(s) PROVE Orderly'
  BY <1>5 DEF TakeLock
<1>6. ASSUME NEW s \in Sessions, AllocUid(s) PROVE Orderly'
  BY <1>6 DEF AllocUid
<1>7. ASSUME NEW s \in Sessions, WritePasswd(s) PROVE Orderly'
  BY <1>7 DEF WritePasswd
<1>8. ASSUME NEW s \in Sessions, WriteGroup(s) PROVE Orderly'
  BY <1>8 DEF WriteGroup
<1>9. ASSUME NEW s \in Sessions, WriteShadow(s) PROVE Orderly'
  BY <1>9 DEF WriteShadow
<1>10. ASSUME NEW s \in Sessions, InheritGroups(s) PROVE Orderly'
  BY <1>10 DEF InheritGroups
<1>11. ASSUME NEW s \in Sessions, Unlock(s) PROVE Orderly'
  BY <1>11 DEF Unlock
<1>12. ASSUME NEW s \in Sessions, MkdirHome(s) PROVE Orderly'
  BY <1>12 DEF MkdirHome
<1>13. ASSUME NEW s \in Sessions, BindMount(s) PROVE Orderly'
  BY <1>13 DEF BindMount
<1>14. ASSUME NEW s \in Sessions, Fork(s) PROVE Orderly'
  BY <1>14 DEF Fork
<1>15. ASSUME NEW s \in Sessions, Wait(s) PROVE Orderly'
  BY <1>15 DEF Wait
<1>16. ASSUME NEW s \in Sessions, Announce(s) PROVE Orderly'
  BY <1>16 DEF Announce
<1>17. ASSUME NEW s \in Sessions, KillPgid(s) PROVE Orderly'
  BY <1>17 DEF KillPgid, Undoing, Passed, Kill
<1>18. ASSUME NEW s \in Sessions, KillByUid(s) PROVE Orderly'
  BY <1>18 DEF KillByUid, Undoing, Passed, Kill
<1>19. ASSUME NEW s \in Sessions, KillByPath(s) PROVE Orderly'
  BY <1>19 DEF KillByPath, Undoing, Passed, Kill
<1>20. ASSUME NEW s \in Sessions, Unmount(s) PROVE Orderly'
  BY <1>20 DEF Unmount, Undoing, Passed
<1>21. ASSUME NEW s \in Sessions, RmdirHome(s) PROVE Orderly'
  BY <1>21 DEF RmdirHome, Undoing, Passed
<1>22. ASSUME NEW s \in Sessions, LeaveGroups(s) PROVE Orderly'
  BY <1>22 DEF LeaveGroups, Undoing, Passed
<1>23. ASSUME NEW s \in Sessions, RemovePasswd(s) PROVE Orderly'
  BY <1>23, UndoneBefore DEF RemovePasswd, Undoing, Passed
<1>24. ASSUME NEW s \in Sessions, RemoveShadow(s) PROVE Orderly'
  BY <1>24 DEF RemoveShadow, Undoing, Passed
<1>25. ASSUME NEW s \in Sessions, RemoveGroup(s) PROVE Orderly'
  BY <1>25 DEF RemoveGroup, Undoing, Passed
<1>26. ASSUME NEW s \in Sessions, ReleaseLock(s) PROVE Orderly'
  BY <1>26 DEF ReleaseLock, Undoing, Passed
<1>27. ASSUME NEW s \in Sessions, UnmountTty(s) PROVE Orderly'
  BY <1>27 DEF UnmountTty, Undoing, Passed
<1>28. ASSUME NEW s \in Sessions, RemoveBinary(s) PROVE Orderly'
  BY <1>28 DEF RemoveBinary, Undoing, Passed
<1>29. ASSUME NEW s \in Sessions, RolledBack(s) PROVE Orderly'
  BY <1>29 DEF RolledBack
<1>30. ASSUME NEW s \in Sessions, WaitReturns(s) PROVE Orderly'
  BY <1>30 DEF WaitReturns
<1>31. ASSUME NEW s \in Sessions, PollReturns(s) PROVE Orderly'
  BY <1>31 DEF PollReturns
<1>32. ASSUME NEW s \in Sessions, ContainerEnds(s) PROVE Orderly'
  BY <1>32 DEF ContainerEnds
<1>33. ASSUME NEW s \in Sessions, BeginFails(s) PROVE Orderly'
  BY <1>33 DEF BeginFails
<1>34. ASSUME NEW s \in Sessions, StepFails(s) PROVE Orderly'
  BY <1>34 DEF StepFails
<1>35. ASSUME NEW s \in Sessions, Terminate(s) PROVE Orderly'
  BY <1>35 DEF Terminate
<1>36. ASSUME NEW s \in Sessions, Killed(s) PROVE Orderly'
  BY <1>36 DEF Killed
<1>37. ASSUME NEW s \in Sessions, UndoFails(s) PROVE Orderly'
  BY <1>37 DEF UndoFails, Passed
<1>38. ASSUME NEW s \in Sessions, ExecFinds(s) PROVE Orderly'
  BY <1>38 DEF ExecFinds
<1>39. ASSUME NEW s \in Sessions, ExecForks(s) PROVE Orderly'
  BY <1>39 DEF ExecForks
<1>40. ASSUME NEW s \in Sessions, ExecReturns(s) PROVE Orderly'
  BY <1>40 DEF ExecReturns
<1>41. ASSUME NEW s \in Sessions, ExecSignals(s) PROVE Orderly'
  BY <1>41 DEF ExecSignals
<1>42. ASSUME NEW s \in Sessions, ExecStart(s) PROVE Orderly'
  BY <1>42 DEF ExecStart
<1>43. ASSUME NEW s \in Sessions, ExecGivesUp(s) PROVE Orderly'
  BY <1>43 DEF ExecGivesUp
<1>44. ASSUME NEW s \in Sessions, ExecTerminated(s) PROVE Orderly'
  BY <1>44 DEF ExecTerminated
<1>45. ASSUME NEW s \in Sessions, ExecKilled(s) PROVE Orderly'
  BY <1>45 DEF ExecKilled
<1>46. ASSUME NEW p \in procs, QuietLogin(p) PROVE Orderly'
  BY <1>46 DEF QuietLogin, LoginFinds, LoginDrops, Detaches, Exits, Becomes
<1>47. CASE UNCHANGED vars
  BY <1>47 DEF vars
<1>48. QED
  BY <1>1, <1>2, <1>3, <1>4, <1>5, <1>6, <1>7, <1>8, <1>9, <1>10, <1>11, <1>12, <1>13, <1>14,
     <1>15, <1>16, <1>17, <1>18, <1>19, <1>20, <1>21, <1>22, <1>23, <1>24, <1>25, <1>26, <1>27,
     <1>28, <1>29, <1>30, <1>31, <1>32, <1>33, <1>34, <1>35, <1>36, <1>37, <1>38, <1>39, <1>40,
     <1>41, <1>42, <1>43, <1>44, <1>45, <1>46, <1>47 DEF Next, Shim, SetsUp, RollsBack, Exec,
     QuietLogin

\* Lines of a name come and go with the one session that has it.
LEMMA ClearedStep ==
  DistinctNames /\ BasicInv /\ AccountInv /\ Cleared /\ [Next]_vars => Cleared'
<1> SUFFICES ASSUME DistinctNames, BasicInv, AccountInv, Cleared, [Next]_vars PROVE Cleared'
  OBVIOUS
<1>0. /\ pc \in [Sessions -> PCs] /\ did \in [Sessions -> SUBSET Range(UndoOrder)]
      /\ name \in [Sessions -> Names] /\ uid \in [Sessions -> Uids \cup {None}] /\ TypeOK
      /\ \A s, t \in Sessions : s # t => name[s] # name[t]
  BY NamesDiffer DEF BasicInv, TypeOK
<1> USE <1>0 DEF setup, accounts, places, At, Goto, Mark, Cleared, Left, Early
<1>1. ASSUME NEW s \in Sessions, ResolveUser(s) PROVE Cleared'
  BY <1>1 DEF ResolveUser
<1>2. ASSUME NEW s \in Sessions, AllocUid(s) PROVE Cleared'
  <2>1. \/ uid' = uid /\ did' = did /\ pc' = [pc EXCEPT ![s] = "rollback"]
        \/ did' = [did EXCEPT ![s] = @ \cup {"lock"}] /\ pc' = [pc EXCEPT ![s] = "passwd"]
    BY <1>2 DEF AllocUid
  <2>2. \A t \in Sessions : t # s => uid'[t] = uid[t]
    BY <1>2 DEF AllocUid
  <2>3. UNCHANGED <<name, passwd, spoilt>> /\ pc[s] = "scan"
    BY <1>2 DEF AllocUid
  <2>4. "passwd" \notin did[s] /\ \A line \in passwd : line[1] # name[s]
    BY <2>3 DEF BasicInv, Progress, AccountInv, Alone, Named, InPasswd, InGroup, InShadow,
       InGroups, HasHome, Ran
  <2>5. QED
    BY <2>1, <2>2, <2>3, <2>4
<1>3. ASSUME NEW s \in Sessions, WritePasswd(s) PROVE Cleared'
  BY <1>3 DEF WritePasswd
<1>4. ASSUME NEW s \in Sessions, RemovePasswd(s) PROVE Cleared'
  BY <1>4 DEF RemovePasswd, Undoing, Passed
<1>5. ASSUME NEW s \in Sessions,
             \/ WriteGroup(s) \/ WriteShadow(s) \/ InheritGroups(s) \/ MkdirHome(s) \/ BindMount(s)
             \/ StepFails(s)
      PROVE  Cleared'
  BY <1>5 DEF WriteGroup, WriteShadow, InheritGroups, MkdirHome, BindMount, StepFails
<1>6. ASSUME NEW s \in Sessions,
             \/ Unmount(s) \/ RmdirHome(s) \/ LeaveGroups(s) \/ RemoveShadow(s) \/ RemoveGroup(s)
             \/ UndoFails(s)
      PROVE  Cleared'
  BY <1>6 DEF Unmount, RmdirHome, LeaveGroups, RemoveShadow, RemoveGroup, UndoFails, Undoing, Passed
<1>7. ASSUME NEW s \in Sessions, QuietSetup(s) \/ QuietUndo(s) \/ QuietExec(s) PROVE Cleared'
  <2>1. Quiet
    BY <1>7, QuietSteps
  <2>2. \A t \in Sessions : pc'[t] \in Early \cup {"lock", "scan"} => pc[t] \in Early \cup {"lock", "scan"}
    <3>1. CASE QuietSetup(s)
      BY <3>1 DEF QuietSetup, Begin, Publish, BindTty, TakeLock, Unlock, Fork, Wait, Announce,
         WaitReturns, PollReturns, BeginFails, ContainerEnds, RolledBack, Terminate, Killed,
         Over
    <3>2. CASE QuietUndo(s)
      BY <3>2 DEF QuietUndo, KillPgid, KillByUid, KillByPath, ReleaseLock, UnmountTty,
         RemoveBinary, Undoing, Passed
    <3>3. CASE QuietExec(s)
      BY <3>3 DEF QuietExec, Exec, ExecFinds, ExecForks, ExecReturns, ExecSignals, ExecStart,
         ExecGivesUp, ExecTerminated, ExecKilled
    <3>4. QED
      BY <1>7, <3>1, <3>2, <3>3
  <2>3. QED
    BY <2>1, <2>2 DEF Quiet, Same, NameSteps
<1>8. ASSUME NEW p \in procs, QuietLogin(p) PROVE Cleared'
  BY <1>8 DEF QuietLogin, LoginFinds, LoginDrops, Detaches, Exits, Becomes
<1>9. CASE UNCHANGED vars
  BY <1>9 DEF vars
<1>10. ASSUME NEW s \in Sessions, SetsUp(s) PROVE Cleared'
  BY <1>10, <1>1, <1>2, <1>3, <1>5, <1>7 DEF SetsUp, QuietSetup
<1>11. ASSUME NEW s \in Sessions, RollsBack(s) PROVE Cleared'
  BY <1>11, <1>4, <1>6, <1>7 DEF RollsBack, QuietSetup, QuietUndo
<1>12. QED
  BY <1>5, <1>6, <1>7, <1>8, <1>9, <1>10, <1>11 DEF Next, Shim, QuietSetup, QuietExec, QuietLogin

\* A step that starts no process and changes no account of PID 1's sessions
LEMMA ProcsFrame ==
  ASSUME ProcsInv, procs' \subseteq procs, spoilt \subseteq spoilt',
         \A s \in Sessions \ ExecMode :
           /\ pc[s] \in Late => /\ pc'[s] \in Late /\ name'[s] = name[s] /\ uid'[s] = uid[s]
           /\ \A step \in {"killUid", "killPgid"} : Left(s, step) => Left(s, step)'
  PROVE  ProcsInv'
BY DEF ProcsInv

\* Only PID 1's fork starts a process of its session, and the sweeps end what is
\* left in their order.
LEMMA ProcsStep ==
  BasicInv /\ AccountInv /\ Orderly /\ ProcsInv /\ [Next]_vars => ProcsInv'
<1> SUFFICES ASSUME BasicInv, AccountInv, Orderly, ProcsInv, [Next]_vars PROVE ProcsInv'
  OBVIOUS
<1>0. /\ pc \in [Sessions -> PCs] /\ did \in [Sessions -> SUBSET Range(UndoOrder)]
      /\ name \in [Sessions -> Names] /\ uid \in [Sessions -> Uids \cup {None}]
      /\ procs \subseteq [of : Sessions, by : {"pod", "exec"}, stage : Stages,
                          uid : Uids \cup {0}, at : Names]
  BY DEF BasicInv, TypeOK
<1> USE <1>0 DEF setup, accounts, places, markers, execVars, At, Goto, Mark, Late, Over, Left
<1>1. ASSUME NEW s \in Sessions, Begin(s) PROVE ProcsInv'
  BY <1>1, ProcsFrame DEF Begin
<1>2. ASSUME NEW s \in Sessions, Publish(s) PROVE ProcsInv'
  BY <1>2, ProcsFrame DEF Publish
<1>3. ASSUME NEW s \in Sessions, BindTty(s) PROVE ProcsInv'
  BY <1>3, ProcsFrame DEF BindTty
<1>4. ASSUME NEW s \in Sessions, ResolveUser(s) PROVE ProcsInv'
  BY <1>4, ProcsFrame DEF ResolveUser
<1>5. ASSUME NEW s \in Sessions, TakeLock(s) PROVE ProcsInv'
  BY <1>5, ProcsFrame DEF TakeLock
<1>6. ASSUME NEW s \in Sessions, AllocUid(s) PROVE ProcsInv'
  BY <1>6, ProcsFrame DEF AllocUid
<1>7. ASSUME NEW s \in Sessions, WritePasswd(s) PROVE ProcsInv'
  BY <1>7, ProcsFrame DEF WritePasswd
<1>8. ASSUME NEW s \in Sessions, WriteGroup(s) PROVE ProcsInv'
  BY <1>8, ProcsFrame DEF WriteGroup
<1>9. ASSUME NEW s \in Sessions, WriteShadow(s) PROVE ProcsInv'
  BY <1>9, ProcsFrame DEF WriteShadow
<1>10. ASSUME NEW s \in Sessions, InheritGroups(s) PROVE ProcsInv'
  BY <1>10, ProcsFrame DEF InheritGroups
<1>11. ASSUME NEW s \in Sessions, Unlock(s) PROVE ProcsInv'
  BY <1>11, ProcsFrame DEF Unlock
<1>12. ASSUME NEW s \in Sessions, MkdirHome(s) PROVE ProcsInv'
  BY <1>12, ProcsFrame DEF MkdirHome
<1>13. ASSUME NEW s \in Sessions, BindMount(s) PROVE ProcsInv'
  BY <1>13, ProcsFrame DEF BindMount
<1>14. ASSUME NEW s \in Sessions, Wait(s) PROVE ProcsInv'
  BY <1>14, ProcsFrame DEF Wait
<1>15. ASSUME NEW s \in Sessions, Announce(s) PROVE ProcsInv'
  BY <1>15, ProcsFrame DEF Announce
<1>16. ASSUME NEW s \in Sessions, WaitReturns(s) PROVE ProcsInv'
  BY <1>16, ProcsFrame DEF WaitReturns
<1>17. ASSUME NEW s \in Sessions, PollReturns(s) PROVE ProcsInv'
  BY <1>17, ProcsFrame DEF PollReturns
<1>18. ASSUME NEW s \in Sessions, BeginFails(s) PROVE ProcsInv'
  BY <1>18, ProcsFrame DEF BeginFails
<1>19. ASSUME NEW s \in Sessions, StepFails(s) PROVE ProcsInv'
  BY <1>19, ProcsFrame DEF StepFails
<1>20. ASSUME NEW s \in Sessions, Terminate(s) PROVE ProcsInv'
  BY <1>20, ProcsFrame DEF Terminate
<1>21. ASSUME NEW s \in Sessions, Killed(s) PROVE ProcsInv'
  BY <1>21, ProcsFrame DEF Killed
<1>22. ASSUME NEW s \in Sessions, RolledBack(s) PROVE ProcsInv'
  BY <1>22, ProcsFrame DEF RolledBack
<1>23. ASSUME NEW s \in Sessions, KillByPath(s) PROVE ProcsInv'
  BY <1>23, ProcsFrame DEF KillByPath, Undoing, Passed, Kill
<1>24. ASSUME NEW s \in Sessions, Unmount(s) PROVE ProcsInv'
  BY <1>24, ProcsFrame DEF Unmount, Undoing, Passed
<1>25. ASSUME NEW s \in Sessions, RmdirHome(s) PROVE ProcsInv'
  BY <1>25, ProcsFrame DEF RmdirHome, Undoing, Passed
<1>26. ASSUME NEW s \in Sessions, LeaveGroups(s) PROVE ProcsInv'
  BY <1>26, ProcsFrame DEF LeaveGroups, Undoing, Passed
<1>27. ASSUME NEW s \in Sessions, RemovePasswd(s) PROVE ProcsInv'
  BY <1>27, ProcsFrame DEF RemovePasswd, Undoing, Passed
<1>28. ASSUME NEW s \in Sessions, RemoveShadow(s) PROVE ProcsInv'
  BY <1>28, ProcsFrame DEF RemoveShadow, Undoing, Passed
<1>29. ASSUME NEW s \in Sessions, RemoveGroup(s) PROVE ProcsInv'
  BY <1>29, ProcsFrame DEF RemoveGroup, Undoing, Passed
<1>30. ASSUME NEW s \in Sessions, ReleaseLock(s) PROVE ProcsInv'
  BY <1>30, ProcsFrame DEF ReleaseLock, Undoing, Passed
<1>31. ASSUME NEW s \in Sessions, UnmountTty(s) PROVE ProcsInv'
  BY <1>31, ProcsFrame DEF UnmountTty, Undoing, Passed
<1>32. ASSUME NEW s \in Sessions, RemoveBinary(s) PROVE ProcsInv'
  BY <1>32, ProcsFrame DEF RemoveBinary, Undoing, Passed
<1>33. ASSUME NEW s \in Sessions, UndoFails(s) PROVE ProcsInv'
  <2>1. PICK step \in did[s] : Passed(s, step)
    BY <1>33 DEF UndoFails
  <2>2. QED
    BY <1>33, <2>1, ProcsFrame DEF UndoFails, Passed
<1>34. ASSUME NEW s \in Sessions, Fork(s) PROVE ProcsInv'
  <2>1. /\ procs' = procs \cup {Login(s, "pod")} /\ UNCHANGED <<did, name, uid, spoilt>>
        /\ pc[s] = "run" /\ pc' = [pc EXCEPT ![s] = "forked"]
    BY <1>34 DEF Fork
  <2>2. {"killPgid", "killUid"} \subseteq did[s]
    BY <2>1 DEF Orderly, KillOrder, Ran
  <2>3. QED
    BY <2>1, <2>2 DEF ProcsInv, Login, Dropped
<1>35. ASSUME NEW s \in Sessions, KillPgid(s) PROVE ProcsInv'
  <2>1. /\ procs' = procs \ {p \in Chain(s, "pod") : ~Dropped(p)}
        /\ UNCHANGED <<pc, name, uid, spoilt>> /\ did' = [did EXCEPT ![s] = @ \ {"killPgid"}]
    BY <1>35 DEF KillPgid, Kill, Undoing, Passed
  <2>2. QED
    BY <2>1 DEF ProcsInv, Chain, Dropped
<1>36. ASSUME NEW s \in Sessions, KillByUid(s) PROVE ProcsInv'
  <2>1. /\ procs' = procs \ {p \in procs : Dropped(p) /\ p.uid = uid[s]} /\ "killPgid" \notin did[s]
        /\ UNCHANGED <<pc, name, uid, spoilt>> /\ did' = [did EXCEPT ![s] = @ \ {"killUid"}]
    BY <1>36, UndoneBefore DEF KillByUid, Kill, Undoing, Passed
  <2>2. QED
    BY <2>1 DEF ProcsInv, Dropped
<1>37. ASSUME NEW s \in Sessions, ContainerEnds(s) PROVE ProcsInv'
  BY <1>37, ProcsFrame DEF ContainerEnds
<1>38. ASSUME NEW s \in Sessions, ExecForks(s) PROVE ProcsInv'
  <2>1. s \in ExecMode
    BY <1>38 DEF ExecForks, Orderly, NoExec
  <2>2. procs' = procs \cup {Login(s, "exec")} /\ UNCHANGED <<pc, did, name, uid, spoilt>>
    BY <1>38 DEF ExecForks
  <2>3. QED
    BY <2>1, <2>2 DEF ProcsInv, Login
<1>39. ASSUME NEW s \in Sessions,
             \/ ExecFinds(s) \/ ExecReturns(s) \/ ExecSignals(s) \/ ExecStart(s)
             \/ ExecGivesUp(s) \/ ExecTerminated(s) \/ ExecKilled(s)
      PROVE  ProcsInv'
  BY <1>39, ProcsFrame DEF ExecFinds, ExecReturns, ExecSignals, ExecStart, ExecGivesUp,
     ExecTerminated, ExecKilled
<1>40. ASSUME NEW p \in procs, LoginFinds(p) PROVE ProcsInv'
  <2>1. PICK line \in passwd :
          line[1] = p.at /\ Becomes(p, {[p EXCEPT !.stage = "found", !.uid = line[2]]})
    BY <1>40 DEF LoginFinds
  <2> DEFINE q == [p EXCEPT !.stage = "found", !.uid = line[2]]
  <2>2. /\ q.of = p.of /\ q.by = p.by /\ q.at = p.at /\ q.uid = line[2] /\ q.stage = "found"
        /\ p.stage = "login"
    BY <1>40 DEF LoginFinds
  <2>3. procs' = (procs \ {p}) \cup {q} /\ UNCHANGED <<pc, did, name, uid, spoilt>>
    BY <2>1 DEF Becomes
  <2>4. ASSUME NEW s \in Sessions \ ExecMode, p.of = s, s \notin spoilt PROVE line[2] = uid[s]
    <3>1. "killPgid" \in did[s] /\ p.at = name[s]
      BY <2>2, <2>4 DEF ProcsInv, Dropped
    <3>2. "passwd" \in did[s]
      BY <2>4, <3>1 DEF Orderly, KillOrder
    <3>3. line = Own(s)
      BY <2>1, <3>1, <3>2 DEF AccountInv, Alone
    <3>4. QED
      BY <3>3 DEF Own
  <2> HIDE DEF q
  <2>5. QED
    BY <2>2, <2>3, <2>4 DEF ProcsInv, Dropped
<1>41. ASSUME NEW p \in procs, LoginDrops(p) PROVE ProcsInv'
  <2> DEFINE q == [p EXCEPT !.stage = "shell"]
  <2>1. /\ q.of = p.of /\ q.by = p.by /\ q.at = p.at /\ q.uid = p.uid /\ q.stage = "shell"
        /\ p.stage = "found"
    BY <1>41 DEF LoginDrops
  <2>2. procs' = (procs \ {p}) \cup {q} /\ UNCHANGED <<pc, did, name, uid, spoilt>>
    BY <1>41 DEF LoginDrops, Becomes
  <2> HIDE DEF q
  <2>3. QED
    BY <2>1, <2>2 DEF ProcsInv, Dropped
<1>42. ASSUME NEW p \in procs, Detaches(p) PROVE ProcsInv'
  <2> DEFINE q == [p EXCEPT !.stage = "detached"]
  <2>1. /\ q.of = p.of /\ q.by = p.by /\ q.at = p.at /\ q.uid = p.uid /\ q.stage = "detached"
        /\ p.stage = "shell"
    BY <1>42 DEF Detaches
  <2>2. procs' = procs \cup {q} /\ UNCHANGED <<pc, did, name, uid, spoilt>>
    BY <1>42 DEF Detaches, Becomes
  <2> HIDE DEF q
  <2>3. QED
    BY <2>1, <2>2 DEF ProcsInv, Dropped
<1>43. ASSUME NEW p \in procs, Exits(p) PROVE ProcsInv'
  BY <1>43, ProcsFrame DEF Exits, Becomes
<1>44. CASE UNCHANGED vars
  BY <1>44, ProcsFrame DEF vars
<1>45. QED
  BY <1>1, <1>2, <1>3, <1>4, <1>5, <1>6, <1>7, <1>8, <1>9, <1>10, <1>11, <1>12, <1>13, <1>14,
     <1>15, <1>16, <1>17, <1>18, <1>19, <1>20, <1>21, <1>22, <1>23, <1>24, <1>25, <1>26, <1>27,
     <1>28, <1>29, <1>30, <1>31, <1>32, <1>33, <1>34, <1>35, <1>36, <1>37, <1>38, <1>39, <1>40,
     <1>41, <1>42, <1>43, <1>44 DEF Next, Shim, SetsUp, RollsBack, Exec

LEMMA TidyInit == Init => TidyInv
<1> SUFFICES ASSUME Init PROVE TidyInv
  OBVIOUS
<1> USE DEF Init
<1>1. Cleared /\ ProcsInv
  BY DEF Cleared, ProcsInv
<1>2. Orderly
  BY DEF Orderly, PlacesInv, KillOrder, NoExec, Ran
<1>3. QED
  BY <1>1, <1>2 DEF TidyInv

LEMMA TidyAlways ==
  ASSUME DistinctNames
  PROVE  Spec => [](BasicInv /\ AccountInv /\ TidyInv)
<1>1. BasicInv => NamesApart
  BY DistinctApart
<1>2. BasicInv /\ AccountInv /\ TidyInv /\ [Next]_vars => TidyInv'
  BY ClearedStep, OrderlyStep, ProcsStep DEF TidyInv
<1>3. QED
  BY <1>1, <1>2, BasicAlways, AccountAlways, TidyInit, PTL DEF Spec

\* What the invariants say of a session whose rollback is over
LEMMA CleanFromInv ==
  DistinctNames /\ BasicInv /\ AccountInv /\ TidyInv => CleanedUp
<1> SUFFICES ASSUME DistinctNames, BasicInv, AccountInv, TidyInv PROVE CleanedUp
  OBVIOUS
<1>1. ASSUME NEW s \in Sessions, pc[s] = "done", s \notin spoilt
      PROVE  /\ Own(s) \notin passwd \cup group /\ name[s] \notin (shadow \cup home) \ HostNames
             /\ Groups \X {name[s]} \cap members = {} /\ s \notin Range(mounts[name[s]])
             /\ <<s, "pod">> \notin tty /\ s \notin binary \cup active /\ lock # s
  <2>1. did[s] = {} /\ \A step : ~Left(s, step)
    BY <1>1 DEF BasicInv, Progress, Left
  <2>2. \A t \in Sessions : name[t] = name[s] => t = s
    BY NamesDiffer DEF BasicInv
  <2>3. Own(s) \notin passwd
    <3>1. CASE uid[s] = None
      BY <3>1, ShellAssumption DEF Own, BasicInv, TypeOK
    <3>2. CASE uid[s] # None
      BY <2>1, <3>2 DEF TidyInv, Cleared, Own
    <3>3. QED
      BY <3>1, <3>2
  <2>4. Own(s) \notin group
    BY <2>1, <2>2 DEF AccountInv, GroupInv, Own
  <2>5. name[s] \notin (shadow \cup home) \ HostNames
    BY <2>1, <2>2 DEF AccountInv, ShadowInv, HomeInv
  <2>6. Groups \X {name[s]} \cap members = {}
    BY <2>1, <2>2 DEF AccountInv, MembersInv
  <2>7. s \notin Range(mounts[name[s]])
    <3>1. name[s] \in Names
      BY DEF BasicInv, TypeOK
    <3>2. QED
      BY <2>1, <3>1 DEF AccountInv, MountsInv, Range
  <2>8. <<s, "pod">> \notin tty /\ s \notin binary \cup active
    BY <1>1, <2>1 DEF TidyInv, Orderly, PlacesInv
  <2>9. lock # s
    BY <1>1 DEF BasicInv, LockHeld, Locking
  <2>10. QED
    BY <2>3, <2>4, <2>5, <2>6, <2>7, <2>8, <2>9
<1>2. ASSUME NEW s \in Sessions \ ExecMode, pc[s] = "done", s \notin spoilt, NEW p \in procs
      PROVE  p.of # s
  <2>1. ~Left(s, "killUid")
    BY <1>2 DEF BasicInv, Progress, Left
  <2>2. QED
    BY <2>1 DEF TidyInv, ProcsInv
<1>3. QED
  BY <1>1, <1>2 DEF CleanedUp, LeavesNothing, NoStragglers

\* Of users with different names, a rollback in which nothing failed leaves no
\* line, group membership, home, mount, terminal, binary, marker or lock of its
\* session, and no process that its PID 1 ran, wherever setup had stopped; it
\* needs the order of rollback, which sweeps by group, then by uid, and only
\* then removes the account.
THEOREM NothingLeftBehind ==
  ASSUME DistinctNames
  PROVE  Spec => []CleanedUp
<1>1. BasicInv /\ AccountInv /\ TidyInv => CleanedUp
  BY CleanFromInv
<1>2. QED
  BY <1>1, TidyAlways, PTL

\* For users with different names, the two properties of shared accounts need
\* no assumption on how the sessions interleave.
THEOREM DistinctUsersIntact ==
  ASSUME DistinctNames
  PROVE  Spec => [](UidExclusive /\ SessionIntact)
<1>1. BasicInv => NamesApart
  BY DistinctApart
<1>2. QED
  BY <1>1, BasicAlways, UidsNeverShared, SessionsStayIntact, PTL
=============================================================================
