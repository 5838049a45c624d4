------------------------------ MODULE NodeShell -----------------------------
(***************************************************************************)
(* The node-terminal shim (plugins/terminal/node-terminal): PID 1 of each  *)
(* debug pod sets up an account, a home and a terminal on the node, step   *)
(* by step, runs a login in them and undoes in reverse what it did.  In    *)
(* exec mode the login is run by a second process, which finds the pod and *)
(* tells it of its end through marker files.  Sessions share the node's    *)
(* passwd, shadow and group files, /home and the UID lock.                 *)
(***************************************************************************)
EXTENDS Integers, Sequences, SequencesExt, FiniteSets

CONSTANTS Sessions,   \* the debug pods of one node
          ExecMode,   \* those with NODE_TERMINAL_EXEC_MODE
          Names,      \* account names
          HostNames,  \* names of real accounts of the node
          First,      \* the name a session starts with, of its user or generated
          Generated,  \* its generated name
          Beyond,     \* names that continue a name, as strings
          Uids,       \* the reserved range
          Groups,     \* supplementary groups of the reference user
          MaxExecs,   \* bound: exec calls per pod
          Leftovers,  \* passwd lines that killed sessions may have left
          MaxFaults,  \* bound: failures and signals
          None

ASSUME ShellAssumption ==
  /\ ExecMode \subseteq Sessions /\ HostNames \subseteq Names
  /\ {First, Generated} \subseteq [Sessions -> Names]
  /\ \A s \in Sessions : Generated[s] \notin HostNames
  /\ \A s, t \in Sessions : s # t => Generated[s] \notin {Generated[t], First[t]}
  /\ Beyond \in [Names -> SUBSET Names]
  /\ None \notin Sessions /\ None \notin Uids /\ None # 0
  /\ Uids \subseteq Nat \ {0} /\ MaxExecs \in Nat /\ MaxFaults \in Nat
  /\ Leftovers \subseteq Names \X Uids
  /\ \A line \in Leftovers : line[1] \notin HostNames \cup Range(Generated)

VARIABLES
  pc,       \* where pipeline_run of each session is
  did,      \* what rollback has to undo, its done_* flags
  name, uid, joined,          \* the account of each session
  term,     \* sessions that were sent SIGTERM
  spoilt,   \* sessions whose rollback failed to undo something
  passwd, shadow, group,      \* lines: <<name, uid>>, name, <<name, gid>>
  members,  \* <<group, name>>
  lock,     \* holder of the UID lock
  home,     \* names that have a directory under /home
  mounts,   \* for each name, the sessions mounted there, the last on top
  tty,      \* terminal aliases: <<session, "pod" or "exec">>
  binary, active, ended,      \* per pod: the published shim and the two markers
  procs,    \* processes: [of, by, stage, uid, at]
  faults,   \* failures and signals so far
  epc, execs                  \* where the exec process of each pod is; calls made

setup    == <<did, name, uid, joined>>
accounts == <<passwd, shadow, group, members>>
places   == <<home, mounts, tty, binary>>
markers  == <<active, ended>>
execVars == <<epc, execs>>
vars == <<pc, setup, term, spoilt, accounts, lock, places, markers, procs, execVars, faults>>

Stages == {"login", "found", "shell", "detached"}
Over == {"done", "killed", "gone"}

\* What rollback does, in its order.
UndoOrder == <<"killPgid", "killUid", "killPath", "mount", "home", "groups",
               "passwd", "shadow", "group", "lock", "tty", "publish">>

PCs == {"start", "publish", "tty", "user", "lock", "scan", "passwd", "group", "shadow",
        "groups", "unlock", "home", "mount", "run", "forked", "wait", "poll", "rollback"}
         \cup Over

TypeOK ==
  /\ pc \in [Sessions -> PCs] /\ did \in [Sessions -> SUBSET Range(UndoOrder)]
  /\ name \in [Sessions -> Names] /\ uid \in [Sessions -> Uids \cup {None}]
  /\ joined \in [Sessions -> SUBSET Groups]
  /\ term \subseteq Sessions /\ spoilt \subseteq Sessions /\ binary \subseteq Sessions
  /\ active \subseteq Sessions /\ ended \subseteq Sessions
  /\ passwd \subseteq Names \X (Uids \cup {0}) /\ shadow \subseteq Names
  /\ group \subseteq Names \X Uids /\ members \subseteq Groups \X Names
  /\ lock \in Sessions \cup {None}
  /\ home \subseteq Names /\ mounts \in [Names -> Seq(Sessions)]
  /\ tty \subseteq Sessions \X {"pod", "exec"}
  /\ procs \subseteq [of : Sessions, by : {"pod", "exec"}, stage : Stages,
                      uid : Uids \cup {0}, at : Names]
  /\ epc \in [Sessions -> {"idle", "poll", "fork", "wait", "signal"}]
  /\ execs \in [Sessions -> 0..MaxExecs] /\ faults \in 0..MaxFaults

Init ==
  /\ pc = [s \in Sessions |-> "start"] /\ did = [s \in Sessions |-> {}]
  /\ name = First /\ uid = [s \in Sessions |-> None] /\ joined = [s \in Sessions |-> {}]
  /\ term = {} /\ spoilt = {}
  /\ \E left \in SUBSET Leftovers : passwd = (HostNames \X {0}) \cup left
  /\ shadow = HostNames /\ group = {} /\ members = {}
  /\ lock = None
  /\ home = HostNames /\ mounts = [n \in Names |-> <<>>] /\ tty = {} /\ binary = {}
  /\ active = {} /\ ended = {} /\ procs = {}
  /\ epc = [s \in Sessions |-> "idle"] /\ execs = [s \in Sessions |-> 0]
  /\ faults = 0

-----------------------------------------------------------------------------
(* Setup, one action per step of pipeline_run.                              *)

Goto(s, l) == pc' = [pc EXCEPT ![s] = l]
At(s, l, next) == pc[s] = l /\ Goto(s, next)
Mark(s, steps) == did' = [did EXCEPT ![s] = @ \cup steps]
Fault == faults < MaxFaults /\ faults' = faults + 1

Taken == {line[1] : line \in passwd}

\* capture_target, capture_ctty and nsenter_host change nothing on the node.
Begin(s) ==
  /\ At(s, "start", IF s \in ExecMode THEN "publish" ELSE "tty")
  /\ UNCHANGED <<setup, term, spoilt, accounts, lock, places, markers, procs, execVars,
                 faults>>

BeginFails(s) ==
  /\ Fault /\ At(s, "start", "done")
  /\ UNCHANGED <<setup, term, spoilt, accounts, lock, places, markers, procs, execVars>>

Publish(s) ==
  /\ At(s, "publish", "tty")
  /\ binary' = binary \cup {s} /\ Mark(s, {"publish"})
  /\ UNCHANGED <<name, uid, joined, term, spoilt, accounts, lock, home, mounts, tty, markers,
                 procs, execVars, faults>>

\* resolve_source and bind_ctty
BindTty(s) ==
  /\ At(s, "tty", "user")
  /\ tty' = tty \cup {<<s, "pod">>} /\ Mark(s, {"tty"})
  /\ UNCHANGED <<name, uid, joined, term, spoilt, accounts, lock, home, mounts, binary,
                 markers,
                 procs, execVars, faults>>

\* Mutant of ResolveUser: the wish is granted.
ResolveUserKeeps(s) ==
  /\ At(s, "user", "lock")
  /\ UNCHANGED <<setup, term, spoilt, accounts, lock, places, markers, procs, execVars,
                 faults>>

\* identity_resolve_username, which holds no lock
ResolveUser(s) ==
  /\ At(s, "user", "lock")
  /\ name' = IF name[s] \in Taken THEN [name EXCEPT ![s] = Generated[s]] ELSE name
  /\ UNCHANGED <<did, uid, joined, term, spoilt, accounts, lock, places, markers, procs,
                 execVars, faults>>

\* Mutant of TakeLock: a shared lock.
TakeLockShared(s) ==
  /\ At(s, "lock", "scan") /\ lock' = s
  /\ UNCHANGED <<setup, term, spoilt, accounts, places, markers, procs, execVars, faults>>

TakeLock(s) ==
  /\ At(s, "lock", "scan") /\ lock = None /\ lock' = s
  /\ UNCHANGED <<setup, term, spoilt, accounts, places, markers, procs, execVars, faults>>

\* Mutant of FreeUids: the range is searched one too far.
FreeUidsPastEnd ==
  (Uids \cup {1 + CHOOSE u \in Uids : \A v \in Uids : v <= u}) \ {line[2] : line \in passwd}

\* identity_find_free_uid
FreeUids == Uids \ {line[2] : line \in passwd}

\* identity_alloc_uid with the lock: the lowest free number, or none is left.
AllocUid(s) ==
  /\ pc[s] = "scan"
  /\ \/ /\ \E u \in FreeUids : /\ \A v \in FreeUids : u <= v
                               /\ uid' = [uid EXCEPT ![s] = u]
        /\ Mark(s, {"lock"}) /\ Goto(s, "passwd") /\ UNCHANGED lock
     \/ /\ FreeUids = {} /\ lock' = None /\ Goto(s, "rollback") /\ UNCHANGED <<uid, did>>
  /\ UNCHANGED <<name, joined, term, spoilt, accounts, places, markers, procs, execVars,
                 faults>>

WritePasswd(s) ==
  /\ At(s, "passwd", "group")
  /\ passwd' = passwd \cup {<<name[s], uid[s]>>} /\ Mark(s, {"passwd"})
  /\ UNCHANGED <<name, uid, joined, term, spoilt, shadow, group, members, lock, places,
                 markers,
                 procs, execVars, faults>>

\* Mutant of WriteGroup: the line is not remembered.
WriteGroupForgets(s) ==
  /\ At(s, "group", "shadow")
  /\ group' = group \cup {<<name[s], uid[s]>>}
  /\ UNCHANGED <<setup, term, spoilt, passwd, shadow, members, lock, places, markers, procs,
                 execVars, faults>>

WriteGroup(s) ==
  /\ At(s, "group", "shadow")
  /\ group' = group \cup {<<name[s], uid[s]>>} /\ Mark(s, {"group"})
  /\ UNCHANGED <<name, uid, joined, term, spoilt, passwd, shadow, members, lock, places,
                 markers,
                 procs, execVars, faults>>

WriteShadow(s) ==
  /\ At(s, "shadow", "groups")
  /\ shadow' = shadow \cup {name[s]} /\ Mark(s, {"shadow"})
  /\ UNCHANGED <<name, uid, joined, term, spoilt, passwd, group, members, lock, places,
                 markers,
                 procs, execVars, faults>>

\* identity_inherit_groups, line by line; a line that cannot be written is
\* left out.
InheritGroups(s) ==
  /\ At(s, "groups", "unlock")
  /\ \E g \in SUBSET Groups :
       /\ members' = members \cup (g \X {name[s]})
       /\ joined' = [joined EXCEPT ![s] = g]
       /\ IF g = Groups THEN UNCHANGED faults ELSE Fault
  /\ Mark(s, {"groups"})
  /\ UNCHANGED <<name, uid, term, spoilt, passwd, shadow, group, lock, places, markers, procs,
                 execVars>>

\* Mutant of Unlock: the lock is kept for the session.
UnlockNever(s) ==
  /\ At(s, "unlock", "home")
  /\ UNCHANGED <<setup, term, spoilt, accounts, lock, places, markers, procs, execVars,
                 faults>>

Unlock(s) ==
  /\ At(s, "unlock", "home") /\ lock' = None
  /\ UNCHANGED <<setup, term, spoilt, accounts, places, markers, procs, execVars, faults>>

\* mkdir accepts a directory that exists.
MkdirHome(s) ==
  /\ At(s, "home", "mount")
  /\ home' = home \cup {name[s]} /\ Mark(s, {"home"})
  /\ UNCHANGED <<name, uid, joined, term, spoilt, accounts, lock, mounts, tty, binary, markers,
                 procs, execVars, faults>>

\* A mount also makes rollback sweep for processes.
BindMount(s) ==
  /\ At(s, "mount", "run")
  /\ mounts' = [mounts EXCEPT ![name[s]] = Append(@, s)]
  /\ Mark(s, {"killPgid", "killUid", "killPath", "mount"})
  /\ UNCHANGED <<name, uid, joined, term, spoilt, accounts, lock, home, tty, binary, markers,
                 procs, execVars, faults>>

\* Any step may fail; what it wrote before that it undoes itself or leaves to
\* rollback, in the same order.  A mkdir whose chown fails is taken back.
StepFails(s) ==
  /\ Fault
  /\ pc[s] \in {"publish", "tty", "lock", "scan", "passwd", "group", "shadow", "home", "mount",
              "run"}
  /\ Goto(s, "rollback")
  /\ home' = IF pc[s] = "home" /\ mounts[name[s]] = <<>> THEN home \ {name[s]} ELSE home
  /\ lock' = IF pc[s] = "scan" THEN None ELSE lock
  /\ UNCHANGED <<setup, term, spoilt, accounts, mounts, tty, binary, markers, procs, execVars>>

-----------------------------------------------------------------------------
(* The session: run by PID 1, or announced to the exec process.             *)

Login(s, who) == [of |-> s, by |-> who, stage |-> "login", uid |-> 0, at |-> name[s]]
Chain(s, who) == {p \in procs : p.of = s /\ p.by = who /\ p.stage # "detached"}

Fork(s) ==
  /\ s \notin ExecMode /\ At(s, "run", "forked")
  /\ procs' = procs \cup {Login(s, "pod")}
  /\ UNCHANGED <<setup, term, spoilt, accounts, lock, places, markers, execVars, faults>>

\* waitpid blocks; a signal that came before goes unnoticed.
Wait(s) ==
  /\ At(s, "forked", "wait")
  /\ UNCHANGED <<setup, term, spoilt, accounts, lock, places, markers, procs, execVars,
                 faults>>

WaitReturns(s) ==
  /\ At(s, "wait", "rollback") /\ Chain(s, "pod") = {}
  /\ UNCHANGED <<setup, term, spoilt, accounts, lock, places, markers, procs, execVars,
                 faults>>

Announce(s) ==
  /\ s \in ExecMode /\ At(s, "run", "poll")
  /\ active' = active \cup {s} /\ ended' = ended \ {s}
  /\ UNCHANGED <<setup, term, spoilt, accounts, lock, places, procs, execVars, faults>>

\* Mutant of PollEnds: the marker of the end is looked for, the signal not.
PollEndsByMarker(s) == s \in ended

PollEnds(s) == s \in ended \cup term

PollReturns(s) ==
  /\ At(s, "poll", "rollback") /\ PollEnds(s)
  /\ active' = active \ {s} /\ ended' = ended \ {s}
  /\ UNCHANGED <<setup, term, spoilt, accounts, lock, places, procs, execVars, faults>>

\* SIGTERM, once: EINTR for a call that blocks, a flag nobody looks at for the
\* rest of setup.
Terminate(s) ==
  /\ Fault /\ s \notin term /\ pc[s] \notin Over
  /\ term' = term \cup {s}
  /\ \/ (pc[s] = "wait" \/ (pc[s] = "lock" /\ lock # None)) /\ Goto(s, "rollback")
     \/ pc[s] # "wait" /\ UNCHANGED pc
  /\ UNCHANGED <<setup, spoilt, accounts, lock, places, markers, procs, execVars>>

\* SIGKILL: the kernel drops the lock, nobody undoes the rest.
Killed(s) ==
  /\ Fault /\ pc[s] \notin Over
  /\ Goto(s, "killed") /\ lock' = IF lock = s THEN None ELSE lock
  /\ UNCHANGED <<setup, term, spoilt, accounts, places, markers, procs, execVars>>

\* The runtime ends what is left in the container's cgroup.
ContainerEnds(s) ==
  /\ pc[s] \in {"done", "killed"} /\ Goto(s, "gone")
  /\ procs' = {p \in procs : p.of # s} /\ epc' = [epc EXCEPT ![s] = "idle"]
  /\ UNCHANGED <<setup, term, spoilt, accounts, lock, places, markers, execs, faults>>

-----------------------------------------------------------------------------
(* pipeline_run_exec_session.                                               *)

\* kubectl exec needs the published binary; the process gets its own terminal.
ExecStart(s) ==
  /\ epc[s] = "idle" /\ s \in binary /\ execs[s] < MaxExecs /\ pc[s] \notin Over
  /\ epc' = [epc EXCEPT ![s] = "poll"] /\ execs' = [execs EXCEPT ![s] = @ + 1]
  /\ tty' = tty \cup {<<s, "exec">>}
  /\ UNCHANGED <<pc, setup, term, spoilt, accounts, lock, home, mounts, binary, markers,
                 procs, faults>>

ExecFinds(s) ==
  /\ epc[s] = "poll" /\ s \in active /\ epc' = [epc EXCEPT ![s] = "fork"]
  /\ UNCHANGED <<pc, setup, term, spoilt, accounts, lock, places, markers, procs, execs,
                 faults>>

\* No marker within ten seconds.
ExecGivesUp(s) ==
  /\ epc[s] = "poll" /\ s \notin active
  /\ epc' = [epc EXCEPT ![s] = "idle"] /\ tty' = tty \ {<<s, "exec">>}
  /\ UNCHANGED <<pc, setup, term, spoilt, accounts, lock, home, mounts, binary, markers,
                 procs, execs, faults>>

ExecForks(s) ==
  /\ epc[s] = "fork" /\ epc' = [epc EXCEPT ![s] = "wait"]
  /\ procs' = procs \cup {Login(s, "exec")}
  /\ UNCHANGED <<pc, setup, term, spoilt, accounts, lock, places, markers, execs, faults>>

ExecReturns(s) ==
  /\ epc[s] = "wait" /\ Chain(s, "exec") = {}
  /\ epc' = [epc EXCEPT ![s] = "signal"] /\ tty' = tty \ {<<s, "exec">>}
  /\ UNCHANGED <<pc, setup, term, spoilt, accounts, lock, home, mounts, binary, markers,
                 procs, execs, faults>>

\* SIGTERM makes its waitpid return while the login goes on.
ExecTerminated(s) ==
  /\ Fault /\ epc[s] = "wait"
  /\ epc' = [epc EXCEPT ![s] = "signal"] /\ tty' = tty \ {<<s, "exec">>}
  /\ UNCHANGED <<pc, setup, term, spoilt, accounts, lock, home, mounts, binary, markers,
                 procs, execs>>

\* Killed: its terminal stays and the end is never announced.
ExecKilled(s) ==
  /\ Fault /\ epc[s] # "idle" /\ epc' = [epc EXCEPT ![s] = "idle"]
  /\ UNCHANGED <<pc, setup, term, spoilt, accounts, lock, places, markers, procs, execs>>

\* write_session_ended_marker
ExecSignals(s) ==
  /\ epc[s] = "signal" /\ epc' = [epc EXCEPT ![s] = "idle"]
  /\ ended' = ended \cup {s}
  /\ UNCHANGED <<pc, setup, term, spoilt, accounts, lock, places, active, procs, execs,
                 faults>>

-----------------------------------------------------------------------------
(* login -f and what it starts.                                             *)

Becomes(p, q) ==
  /\ procs' = (procs \ {p}) \cup q
  /\ UNCHANGED <<pc, setup, term, spoilt, accounts, lock, places, markers, execVars, faults>>

\* login, as root, looks its user up; later it starts a shell as that user.
LoginFinds(p) ==
  /\ p.stage = "login"
  /\ \E line \in passwd :
       line[1] = p.at /\ Becomes(p, {[p EXCEPT !.stage = "found", !.uid = line[2]]})

LoginDrops(p) == p.stage = "found" /\ Becomes(p, {[p EXCEPT !.stage = "shell"]})

Dropped(p) == p.stage \in {"shell", "detached"}

\* nohup and setsid: a process outside the group, with no file of the home open
Detaches(p) ==
  /\ p.stage = "shell" /\ Becomes(p, {p, [p EXCEPT !.stage = "detached"]})

\* A login that finds nobody fails; anything may end.
Exits(p) == Becomes(p, {})

-----------------------------------------------------------------------------
(* rollback.                                                                *)

\* step is the next thing of session s to undo.
Passed(s, step) ==
  /\ pc[s] = "rollback" /\ step \in did[s]
  /\ \E k \in DOMAIN UndoOrder :
       UndoOrder[k] = step /\ \A j \in 1..(k - 1) : UndoOrder[j] \notin did[s]
  /\ did' = [did EXCEPT ![s] = @ \ {step}]
  /\ UNCHANGED <<pc, name, uid, joined, term, markers, execVars>>

Undoing(s, step) == Passed(s, step) /\ UNCHANGED faults

Kill(doomed) == procs' = procs \ doomed /\ UNCHANGED <<spoilt, accounts, lock, places>>

\* PID 1's own login is in the group: not its shell, nor the login of an exec.
KillPgid(s) ==
  Undoing(s, "killPgid") /\ Kill({p \in Chain(s, "pod") : ~Dropped(p)})

\* Mutant of KillByUid: only the session's own processes, by their terminal.
KillByUidOnTty(s) ==
  Undoing(s, "killUid") /\ Kill({p \in procs : p.stage = "shell" /\ p.uid = uid[s]})

\* One pass over /proc, by the real uid.
KillByUid(s) ==
  Undoing(s, "killUid") /\ Kill({p \in procs : Dropped(p) /\ p.uid = uid[s]})

\* strncmp: also the homes whose names continue this one.
KillByPath(s) ==
  Undoing(s, "killPath") /\
  Kill({p \in procs : p.stage = "shell" /\ p.at \in {name[s]} \cup Beyond[name[s]]})

\* umount2 takes what is on top.
Unmount(s) ==
  /\ Undoing(s, "mount")
  /\ mounts' = IF mounts[name[s]] = <<>> THEN mounts ELSE [mounts EXCEPT ![name[s]] = Front(@)]
  /\ UNCHANGED <<spoilt, accounts, lock, home, tty, binary, procs>>

\* rmdir fails on a mount point.
RmdirHome(s) ==
  /\ Undoing(s, "home")
  /\ home' = IF mounts[name[s]] = <<>> THEN home \ {name[s]} ELSE home
  /\ UNCHANGED <<spoilt, accounts, lock, mounts, tty, binary, procs>>

LeaveGroups(s) ==
  /\ Undoing(s, "groups") /\ members' = members \ (joined[s] \X {name[s]})
  /\ UNCHANGED <<spoilt, passwd, shadow, group, lock, places, procs>>

\* Mutant of RemovePasswd: the prefix without its colon.
RemovePasswdByPrefix(s) ==
  /\ Undoing(s, "passwd")
  /\ passwd' = {line \in passwd : line[1] \notin {name[s]} \cup Beyond[name[s]]}
  /\ UNCHANGED <<spoilt, shadow, group, members, lock, places, procs>>

\* identity_remove_entries: every line that starts with the name and a colon.
RemovePasswd(s) ==
  /\ Undoing(s, "passwd") /\ passwd' = {line \in passwd : line[1] # name[s]}
  /\ UNCHANGED <<spoilt, shadow, group, members, lock, places, procs>>

RemoveShadow(s) ==
  /\ Undoing(s, "shadow") /\ shadow' = shadow \ {name[s]}
  /\ UNCHANGED <<spoilt, passwd, group, members, lock, places, procs>>

RemoveGroup(s) ==
  /\ Undoing(s, "group") /\ group' = {line \in group : line[1] # name[s]}
  /\ UNCHANGED <<spoilt, passwd, shadow, members, lock, places, procs>>

\* Nothing if the lock was released already.
ReleaseLock(s) ==
  /\ Undoing(s, "lock") /\ lock' = IF lock = s THEN None ELSE lock
  /\ UNCHANGED <<spoilt, accounts, places, procs>>

UnmountTty(s) ==
  /\ Undoing(s, "tty") /\ tty' = tty \ {<<s, "pod">>}
  /\ UNCHANGED <<spoilt, accounts, lock, home, mounts, binary, procs>>

RemoveBinary(s) ==
  /\ Undoing(s, "publish") /\ binary' = binary \ {s}
  /\ UNCHANGED <<spoilt, accounts, lock, home, mounts, tty, procs>>

\* A failure is logged and rollback goes on; only a lock is always released.
UndoFails(s) ==
  /\ Fault
  /\ \E step \in did[s] \ {"lock"} : Passed(s, step)
  /\ spoilt' = spoilt \cup {s}
  /\ UNCHANGED <<accounts, lock, places, procs>>

\* The kernel drops a lock when its process ends.
RolledBack(s) ==
  /\ At(s, "rollback", "done") /\ did[s] = {} /\ lock' = IF lock = s THEN None ELSE lock
  /\ UNCHANGED <<setup, term, spoilt, accounts, places, markers, procs, execVars, faults>>

-----------------------------------------------------------------------------
SetsUp(s) ==
  \/ Begin(s) \/ Publish(s) \/ BindTty(s) \/ ResolveUser(s) \/ TakeLock(s) \/ AllocUid(s)
  \/ WritePasswd(s) \/ WriteGroup(s) \/ WriteShadow(s) \/ InheritGroups(s) \/ Unlock(s)
  \/ MkdirHome(s) \/ BindMount(s) \/ Fork(s) \/ Wait(s) \/ Announce(s)

RollsBack(s) ==
  \/ KillPgid(s) \/ KillByUid(s) \/ KillByPath(s) \/ Unmount(s) \/ RmdirHome(s)
  \/ LeaveGroups(s) \/ RemovePasswd(s) \/ RemoveShadow(s) \/ RemoveGroup(s) \/ ReleaseLock(s)
  \/ UnmountTty(s) \/ RemoveBinary(s) \/ RolledBack(s)

Shim(s) == SetsUp(s) \/ WaitReturns(s) \/ PollReturns(s) \/ RollsBack(s)
Exec(s) == ExecFinds(s) \/ ExecForks(s) \/ ExecReturns(s) \/ ExecSignals(s)

Next ==
  \/ \E s \in Sessions :
       \/ Shim(s) \/ Exec(s) \/ ExecStart(s) \/ ExecGivesUp(s) \/ ContainerEnds(s)
       \/ BeginFails(s) \/ StepFails(s) \/ UndoFails(s) \/ Terminate(s) \/ Killed(s)
       \/ ExecTerminated(s) \/ ExecKilled(s)
  \/ \E p \in procs : LoginFinds(p) \/ LoginDrops(p) \/ Detaches(p) \/ Exits(p)

Spec == Init /\ [][Next]_vars

\* The processes of the shim are scheduled; no user has to leave, no signal has
\* to come.
FairSpec == Spec /\ \A s \in Sessions : WF_vars(Shim(s)) /\ WF_vars(Exec(s))

-----------------------------------------------------------------------------
Own(s) == <<name[s], uid[s]>>
Running(s) == pc[s] \in {"run", "forked", "wait", "poll"}

\* Two sessions never have the same uid while both have their passwd line or
\* are about to write it, though the file is scanned and written in separate
\* steps (identity_alloc_uid, identity_write_entries).
UidExclusive ==
  TypeOK /\ \A s, t \in {r \in Sessions : pc[r] = "passwd" \/ ("passwd" \in did[r] /\ pc[r] \notin Over)} :
    uid[s] = uid[t] => s = t

\* A session that runs has what setup made for it, whatever the setups and
\* rollbacks of others did meanwhile: one passwd line for its name, shadow and
\* group lines, the groups it joined, its home, its own volume on top of it.
SessionIntact ==
  \A s \in Sessions : Running(s) =>
    /\ {line \in passwd : line[1] = name[s]} = {Own(s)}
    /\ {line \in group : line[1] = name[s]} = {Own(s)}
    /\ name[s] \in shadow \cap home /\ joined[s] \X {name[s]} \subseteq members
    /\ mounts[name[s]] # <<>> /\ Last(mounts[name[s]]) = s

\* Accounts and homes of the node outlive every session, also of a user who has
\* the name of one of them.
HostKept == /\ {line \in passwd : line[1] \in HostNames} = HostNames \X {0}
            /\ HostNames \subseteq shadow \cap home

\* A rollback that met no error leaves nothing of its session on the node,
\* wherever setup stopped.
LeavesNothing ==
  \A s \in Sessions : pc[s] = "done" /\ s \notin spoilt =>
    /\ Own(s) \notin passwd \cup group /\ name[s] \notin (shadow \cup home) \ HostNames
    /\ Groups \X {name[s]} \cap members = {} /\ s \notin Range(mounts[name[s]])
    /\ <<s, "pod">> \notin tty /\ s \notin binary \cup active /\ lock # s

\* Such a rollback of a session that PID 1 ran leaves no process, not even one
\* that left its group and its home.
NoStragglers ==
  \A s \in Sessions \ ExecMode : pc[s] = "done" /\ s \notin spoilt =>
    \A p \in procs : p.of # s

\* No session waits for another: each is ready for its user or over in the end,
\* although sessions queue for the uid lock and a user may stay forever.
SetupEnds == \A s \in Sessions : <>(pc[s] \in {"wait", "poll"} \cup Over)

\* A session in exec mode that was signalled, at any time, or whose end was
\* announced is rolled back, and so is one whose login ended under PID 1.
SessionEnds ==
  \A s \in Sessions :
    (\/ s \in ExecMode /\ s \in term \cup ended
     \/ pc[s] = "wait" /\ Chain(s, "pod") = {}) ~> pc[s] \in Over

\* What a session brought to the node, accounts and processes, goes with it.
CleanedUp == LeavesNothing /\ NoStragglers

\* Neither the setup nor the session of a debug pod hangs.
AllEnds == SetupEnds /\ SessionEnds
=============================================================================
