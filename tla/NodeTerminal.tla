---------------------------- MODULE NodeTerminal ----------------------------
(* The node's Terminal tab: an effect per node that creates a namespace and a  *)
(* debug pod in it and deletes the namespace when the tab goes, a watch of the *)
(* pod, and an exec session once the pod runs. The effect keeps running after  *)
(* its cleanup: nothing in createDebugPod looks whether the tab is still       *)
(* there. The cluster is external: it answers late, refuses, and deletes a     *)
(* namespace some time after it was asked to.                                  *)
EXTENDS ExecTerminal, Sequences

CONSTANTS Nodes,
          Usernames,    \* what the user review may answer; None when it fails
          Zone,         \* the session's time zone, None when it cannot be expressed
          Columns,      \* sizes of the window
          MaxRuns,      \* bound on the nodes one tab shows
          PodFor(_, _, _)   \* the pod's spec for a node, user and zone, see DebugPod

\* The window has some size before anything is opened.
ASSUME NodeAssumption ==
  /\ None \notin Nodes /\ None \notin Columns /\ 1 \in Columns
  /\ None \notin Nat /\ MaxRuns \in Nat
  /\ None \notin [opened : BOOLEAN, size : Columns \cup {XtermSize}, stdin : BOOLEAN]

VARIABLES node,         \* the node, or None while the tab is closed
          runs,         \* createDebugPod calls: [node, step]
          spaces,       \* their namespaces: "none" "live" "deleting" "gone"
          pods,         \* their pods: None or [spec, phase]
          deletes,      \* namespaces with a delete request on its way
          shown,        \* the run whose pod the tab watches (podName, podNamespace)
          watch,        \* what the watch of it last said, None before
          failed,       \* errorMessage is set
          shell, screen,        \* the exec channel and the terminal
          output, hint, hintTimer,
          loaded, columns,      \* fonts and window
          excused       \* history: see below

clusterVars == <<spaces, pods, deletes>>
shellVars == <<shell, screen, output, hint, hintTimer>>
nodeVars == <<node, runs, clusterVars, shown, watch, failed, shellVars, loaded, columns, excused>>

Ids == 1..MaxRuns
Current == Len(runs)

\* The run knows its namespace's name from the moment the create answers.
Named(id) == runs[id].step \notin {"namespace", "refused"}

\* excused.left: runs whose tab went before their namespace was known, so that
\* the cleanup had nothing to delete; excused.kept: namespaces whose delete
\* request failed, which is logged and not repeated; excused.overtaken: a run
\* the tab had given up for another node went on to set its pod or its error, or
\* its pod, which the tab goes on watching, moved.
NoExcuse == [left |-> {}, kept |-> {}, overtaken |-> FALSE]

------------------------------------------------------------------------------
(* The effects of a render *)

\* The session for pod id in phase w: Terminal is a child, so it is mounted, and
\* reports its size, before the exec effect creates the channel.
NoSession ==
  /\ shell' = None
  /\ screen' = None
  /\ output' = FALSE
  /\ hint' = hint
  /\ hintTimer' = FALSE

Session(id, w) ==
  IF w = "Running"
    THEN /\ screen' = IF failed' THEN None ELSE NewTerminal(IF loaded THEN "ready" ELSE "pending", columns)
         /\ LET ch == NewChannel(screen')
            IN  shell' = [id |-> id, sock |-> ch.sock, size |-> ch.size, pty |-> ch.pty]
         /\ output' = FALSE
         /\ hint' = FALSE
         /\ hintTimer' = FALSE
    ELSE NoSession

StartRun(n) ==
  /\ Current < MaxRuns
  /\ runs' = Append(runs, [node |-> n, step |-> "namespace"])

\* Mutant of CleanUp: the exec channel is left open.
CleanUpNoDestroy ==
  /\ deletes' = deletes \cup (IF Named(Current) THEN {Current} ELSE {})
  /\ excused' = [excused EXCEPT !.left = IF runs[Current].step = "namespace" THEN @ \cup {Current} ELSE @]
  /\ UNCHANGED shell

\* The effect's cleanup: the channel is destroyed, the namespace deleted if its
\* name is known.
CleanUp ==
  /\ deletes' = deletes \cup (IF Named(Current) THEN {Current} ELSE {})
  /\ excused' = [excused EXCEPT !.left = IF runs[Current].step = "namespace" THEN @ \cup {Current} ELSE @]
  /\ shell' = destroy(shell)

------------------------------------------------------------------------------
(* The tab *)

OpenNode(n) ==
  /\ node = None
  /\ runs = <<>>
  /\ node' = n
  /\ StartRun(n)
  /\ UNCHANGED <<clusterVars, shown, watch, failed, shellVars, loaded, columns, excused>>

\* The page changes to another node and the tab stays mounted: what it shows
\* stays until the new run sets its own pod.
SwitchNode(n) ==
  /\ node # None
  /\ n # node
  /\ node' = n
  /\ StartRun(n)
  /\ CleanUp
  /\ UNCHANGED <<spaces, pods, shown, watch, failed, screen, output, hint, hintTimer, loaded, columns>>

\* The tab is gone and the run of its effect goes on.
LeaveNode ==
  /\ node # None
  /\ node' = None
  /\ deletes' = deletes \cup (IF Named(Current) THEN {Current} ELSE {})
  /\ excused' = [excused EXCEPT !.left = IF runs[Current].step = "namespace" THEN @ \cup {Current} ELSE @]
  /\ shown' = None
  /\ watch' = None
  /\ failed' = FALSE
  /\ NoSession
  /\ UNCHANGED <<runs, spaces, pods, loaded, columns>>

\* The browser asks before the page goes, and the namespace is deleted with the
\* question, also when the user then stays. A page that goes takes its runs along.
closeTab(stays) ==
  /\ node # None
  /\ deletes' = deletes \cup (IF Named(Current) THEN {Current} ELSE {})
  /\ IF stays
       THEN /\ Named(Current)
            /\ Current \notin deletes
            /\ spaces[Current] = "live"
            /\ UNCHANGED <<node, runs, shown, watch, failed, shellVars, excused>>
       ELSE /\ node' = None
            /\ excused' = [excused EXCEPT !.left = @ \cup
                             {i \in DOMAIN runs : runs[i].step = "namespace"}]
            /\ runs' = [i \in DOMAIN runs |->
                          [runs[i] EXCEPT !.step = IF @ = "namespace" THEN "unheard" ELSE "dead"]]
            /\ shown' = None
            /\ watch' = None
            /\ failed' = FALSE
            /\ NoSession
  /\ UNCHANGED <<spaces, pods, loaded, columns>>

------------------------------------------------------------------------------
(* createDebugPod *)

At(id, step) == id \in DOMAIN runs /\ runs[id].step = step
Step(id, step) == runs' = [runs EXCEPT ![id].step = step]
Overtakes(id) ==
  excused' = [excused EXCEPT !.overtaken = @ \/ (node # None /\ id # Current)]

\* The namespace is created; the answer to a page that has gone is never heard.
NamespaceCreated(id) ==
  /\ At(id, "namespace") \/ At(id, "unheard")
  /\ spaces' = [spaces EXCEPT ![id] = "live"]
  /\ Step(id, IF runs[id].step = "unheard" THEN "dead" ELSE "pod")
  /\ UNCHANGED <<node, pods, deletes, shown, watch, failed, shellVars, loaded, columns, excused>>

\* Mutant of Catch: the namespace of a pod that could not be created is kept.
CatchKeeps(id, step) ==
  /\ Step(id, step)
  /\ failed' = (failed \/ node # None)
  /\ Overtakes(id)
  /\ screen' = IF node # None THEN None ELSE screen
  /\ UNCHANGED <<node, clusterVars, shown, watch, shell, output, hint, hintTimer, loaded, columns>>

\* The catch block: the error is shown, and the namespace deleted if there is one.
Catch(id, step) ==
  /\ Step(id, step)
  /\ failed' = (failed \/ node # None)
  /\ Overtakes(id)
  /\ deletes' = IF step = "refused" THEN deletes ELSE deletes \cup {id}
  /\ screen' = IF node # None THEN None ELSE screen
  /\ UNCHANGED <<node, spaces, pods, shown, watch, shell, output, hint, hintTimer, loaded, columns>>

NamespaceRefused(id) ==
  /\ At(id, "namespace")
  /\ Catch(id, "refused")

\* The user's name, which may not be known, the pod's spec, a second for the
\* namespace to be ready, and the pod is created while its namespace lives; the
\* tab is told to watch it. None of the awaits in between has an effect of its own.
PodCreated(id, user) ==
  /\ At(id, "pod")
  /\ spaces[id] = "live"
  /\ Step(id, "done")
  /\ pods' = [pods EXCEPT ![id] = [spec |-> PodFor(runs[id].node, user, Zone), phase |-> "Pending"]]
  /\ Overtakes(id)
  /\ IF node = None
       THEN UNCHANGED <<shown, watch, shellVars>>
       ELSE /\ shown' = id
            /\ watch' = None
            /\ NoSession
  /\ UNCHANGED <<node, spaces, deletes, failed, loaded, columns>>

PodRefused(id) ==
  /\ At(id, "pod")
  /\ Catch(id, "failed")

------------------------------------------------------------------------------
(* The cluster *)

DeleteAnswered(id, ok) ==
  /\ id \in deletes
  /\ deletes' = deletes \ {id}
  /\ spaces' = IF ok /\ spaces[id] = "live" THEN [spaces EXCEPT ![id] = "deleting"] ELSE spaces
  /\ excused' = [excused EXCEPT !.kept = IF ok THEN @ ELSE @ \cup {id}]
  /\ UNCHANGED <<node, runs, pods, shown, watch, failed, shellVars, loaded, columns>>

NamespaceGone(id) ==
  /\ spaces[id] = "deleting"
  /\ spaces' = [spaces EXCEPT ![id] = "gone"]
  /\ pods' = [pods EXCEPT ![id] = IF @ = None THEN None ELSE [@ EXCEPT !.phase = "gone"]]
  /\ UNCHANGED <<node, runs, deletes, shown, watch, failed, shellVars, loaded, columns, excused>>

\* Only the pod the tab watches: nothing sees the others move.
PodMoves(id, phase) ==
  /\ shown = id
  /\ pods[id] # None
  /\ <<pods[id].phase, phase>> \in {<<"Pending", "Running">>, <<"Pending", "Failed">>, <<"Running", "Failed">>}
  /\ pods' = [pods EXCEPT ![id].phase = phase]
  /\ UNCHANGED <<node, runs, spaces, deletes, shown, watch, failed, shellVars, loaded, columns, excused>>

\* The watch reports the pod: a session starts with Running and ends with
\* anything else.
WatchReports ==
  /\ shown # None
  /\ watch # pods[shown].phase
  /\ watch' = pods[shown].phase
  /\ UNCHANGED <<node, runs, clusterVars, shown, failed, loaded, columns>>
  /\ Overtakes(shown)
  /\ Session(shown, watch')

------------------------------------------------------------------------------
(* The session *)

Up(states) == shell # None /\ shell.sock \in states

ShellOpens ==
  /\ Up({"connecting"})
  /\ shell' = onopen(shell)
  /\ hintTimer' = TRUE
  /\ UNCHANGED <<node, runs, clusterVars, shown, watch, failed, screen, output, hint, loaded, columns, excused>>

ShellData ==
  /\ Up({"open"})
  /\ ~output
  /\ output' = TRUE
  /\ hintTimer' = FALSE
  /\ hint' = FALSE
  /\ UNCHANGED <<node, runs, clusterVars, shown, watch, failed, shell, screen, loaded, columns, excused>>

\* The error channel, or the socket closing: the terminal says so and takes no
\* more input. A clean close is ignored.
ShellEnds(clean, closes) ==
  /\ Up({"open"})
  /\ shell' = IF closes THEN destroy(shell) ELSE shell
  /\ clean => closes
  /\ screen' = IF clean THEN screen ELSE onConnectionClosed(screen)
  /\ UNCHANGED <<node, runs, clusterVars, shown, watch, failed, output, hint, hintTimer, loaded, columns, excused>>

HintTimer ==
  /\ hintTimer
  /\ hintTimer' = FALSE
  /\ hint' = TRUE
  /\ UNCHANGED <<node, runs, clusterVars, shown, watch, failed, shell, screen, output, loaded, columns, excused>>

NodeFonts(ready) ==
  /\ node # None
  /\ ~loaded
  /\ loaded' = ready
  /\ IF screen # None /\ ~screen.opened
       THEN /\ screen' = Opened(screen, columns)
            /\ shell' = Reported(shell, columns)
       ELSE /\ ready
            /\ UNCHANGED <<screen, shell>>
  /\ UNCHANGED <<node, runs, clusterVars, shown, watch, failed, output, hint, hintTimer, columns, excused>>

NodeResize(w) ==
  /\ screen # None
  /\ w # columns
  /\ columns' = w
  /\ IF screen.opened
       THEN /\ screen' = Opened(screen, w)
            /\ shell' = Reported(shell, w)
       ELSE UNCHANGED <<screen, shell>>
  /\ UNCHANGED <<node, runs, clusterVars, shown, watch, failed, output, hint, hintTimer, loaded, excused>>

------------------------------------------------------------------------------
NodeInit ==
  /\ node = None
  /\ runs = <<>>
  /\ spaces = [id \in Ids |-> "none"]
  /\ pods = [id \in Ids |-> None]
  /\ deletes = {}
  /\ shown = None
  /\ watch = None
  /\ failed = FALSE
  /\ shell = None
  /\ screen = None
  /\ output = FALSE
  /\ hint = FALSE
  /\ hintTimer = FALSE
  /\ loaded = FALSE
  /\ columns = 1
  /\ excused = NoExcuse

NodeNext ==
  \/ \E n \in Nodes : OpenNode(n) \/ SwitchNode(n)
  \/ LeaveNode
  \/ \E stays \in BOOLEAN : closeTab(stays)
  \/ \E id \in DOMAIN runs :
       \/ NamespaceCreated(id)
       \/ NamespaceRefused(id)
       \/ \E user \in Usernames : PodCreated(id, user)
       \/ PodRefused(id)
       \/ \E ok \in BOOLEAN : DeleteAnswered(id, ok)
       \/ NamespaceGone(id)
       \/ \E phase \in {"Running", "Failed"} : PodMoves(id, phase)
  \/ WatchReports
  \/ ShellOpens
  \/ ShellData
  \/ \E clean \in BOOLEAN, closes \in BOOLEAN : ShellEnds(clean, closes)
  \/ HintTimer
  \/ \E ready \in BOOLEAN : NodeFonts(ready)
  \/ \E w \in Columns : NodeResize(w)

NodeSpec == NodeInit /\ [][NodeNext]_nodeVars

------------------------------------------------------------------------------
(* Properties *)

\* A debug namespace is privileged and must not outlive its tab: one that exists
\* belongs to a run the tab is still waiting for or showing, or a request to
\* delete it is on its way. Outside it are only the runs whose tab went before
\* their namespace was known, and requests that failed.
DebugSpaceOwned ==
  \A id \in Ids :
    spaces[id] = "live" =>
      \/ node # None /\ id = Current /\ runs[id].step # "failed"
      \/ id \in deletes
      \/ id \in excused.left \cup excused.kept

\* A live session runs on the node the page is about, in the pod the tab shows:
\* a change of node ends the session there was, and only a run or a pod of the
\* node before that moves on afterwards can start another one there. Its pty has the size of the
\* terminal; and the hint that there was no output is up only while there was none.
NodeShellRight ==
  /\ Up({"connecting", "open"}) =>
       /\ shell.id = shown
       /\ excused.overtaken \/ runs[shell.id].node = node
  /\ Sized(shell, screen)
  /\ (hint /\ shell # None) => ~output

\* The shell shown runs in the debug pod of the page's node, and the pod's
\* namespace goes with the tab.
DebugSession == DebugSpaceOwned /\ NodeShellRight
=============================================================================
