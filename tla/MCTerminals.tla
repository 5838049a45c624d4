----------------------------- MODULE MCTerminals -----------------------------
(* The pod's and the node's terminal tab and a port-forward channel. They do   *)
(* not interact: each behaviour opens one of them.                             *)
EXTENDS PodTerminal, NodeTerminal, DebugPod, PortForward

VARIABLE about   \* what the behaviour is about

\* No size of the window is different from another, so it starts with this one.
Init ==
  /\ about \in {"pod", "node", "forward"}
  /\ PodInit /\ NodeInit /\ ForwardInit /\ win = 1

Next ==
  \/ about = "pod" /\ PodNext /\ UNCHANGED <<about, nodeVars, forwardVars>>
  \/ about = "node" /\ NodeNext /\ UNCHANGED <<about, podVars, forwardVars>>
  \/ about = "forward" /\ ForwardNext /\ UNCHANGED <<about, podVars, nodeVars>>

Spec == Init /\ [][Next]_<<about, podVars, nodeVars, forwardVars>>

Port(kind, n) == [kind |-> kind, n |-> n]
Announce(c, port, auth, priority) ==
  [container |-> c, port |-> port, auth |-> auth, priority |-> priority]

\* A pod with two endpoints in two containers, one behind a secret, and entries
\* that are to be dropped; one with the label alone; one with a broken annotation.
MCPods ==
  {[containers |-> <<"a", "b">>, vnc |-> TRUE, form |-> "array", preferred |-> "b",
    endpoints |-> <<Announce("a", Port("absent", 0), "secret", None),
                    Announce("b", Port("digits", 3), None, 1),
                    Announce("b", Port("number", 2), None, 0),
                    Announce("x", Port("number", 1), None, 0),
                    Announce("a", Port("number", 9), None, 2),
                    Announce("a", Port("other", 1), None, None)>>],
   [containers |-> <<"a">>, vnc |-> TRUE, form |-> "absent", preferred |-> None, endpoints |-> <<>>],
   [containers |-> <<"a">>, vnc |-> TRUE, form |-> "malformed", preferred |-> "x", endpoints |-> <<>>],
   [containers |-> <<"a">>, vnc |-> FALSE, form |-> "absent", preferred |-> None, endpoints |-> <<>>]}
MCText == <<[char |-> "x", shift |-> FALSE], [char |-> "Y", shift |-> TRUE]>>

Container(name, env) == [name |-> name, env |-> env]
MCConfigMaps ==
  ("default" :> Map([containers |-> List(<<Container("shim", <<Var("NODE_TERMINAL_TZ_POSIX", "UTC0")>>)>>),
                     securityContext |-> Map([runAsUser |-> Leaf("0"), level |-> Leaf("s0")]),
                     nodeName |-> Leaf("other")])) @@
  ("own" :> Map([containers |-> List(<<Container("mine", <<Var("NODE_TERMINAL_EXEC_MODE", "false")>>),
                                       Container("side", <<>>)>>),
                 securityContext |-> Map([level |-> Leaf("s1"), runAsUser |-> Null])]))
MCNodes == {[name |-> "n1", reference |-> "own", windows |-> FALSE],
            [name |-> "n2", reference |-> None, windows |-> TRUE]}

MCData == <<"lo", "hi", "d1", "d2", "d3", "d4">>
MCError == <<"lo", "hi", "e1", "e2">>

------------------------------------------------------------------------------
\* A debug pod is the one the ConfigMaps of its node describe (debugPod.ts,
\* getDebugPod).
PodAsConfigured ==
  \A id \in Ids : pods[id] # None => Configured(runs[id].node, pods[id].spec)
=============================================================================
