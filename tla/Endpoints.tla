------------------------------ MODULE Endpoints ------------------------------
(* The VNC endpoints a pod announces in its annotation and the entries of the *)
(* "Connecting to" dropdown built from them. Every value the annotation's     *)
(* JSON can hold is reduced to what the parser tells apart:                   *)
(*   port     [kind |-> "absent" | "number" | "digits" | "other", n]          *)
(*   auth     None or the source of the password                              *)
(*   priority None or a number                                                *)
(* and the annotation as a whole is absent, malformed or an array.            *)
EXTENDS Absent, Integers, Sequences, FiniteSets, Functions

CONSTANT MaxPort

DefaultVncPort == 2

parsePort(raw) ==
  CASE raw.kind = "absent" -> DefaultVncPort
    [] raw.kind = "other"  -> None
    [] OTHER -> IF raw.n \in 1..MaxPort THEN raw.n ELSE None

ContainerNames(p) == Range(p.containers)

\* Mutant of AddConnection: a port may be claimed twice.
AddConnectionTwice(p, connections, e) ==
  LET port == parsePort(e.port)
  IN IF e.container \notin ContainerNames(p) \/ port = None
       THEN connections
       ELSE Append(connections,
              [container |-> e.container, port |-> port, auth |-> e.auth, priority |-> e.priority])

\* One entry of the annotation: dropped unless it names a container of the pod
\* and a valid port that no earlier entry has claimed.
AddConnection(p, connections, e) ==
  LET port == parsePort(e.port)
      claimed == {c.port : c \in Range(connections)}
  IN IF e.container \notin ContainerNames(p) \/ port = None \/ port \in claimed
       THEN connections
       ELSE Append(connections,
              [container |-> e.container, port |-> port, auth |-> e.auth, priority |-> e.priority])

\* What the entries of an annotation, taken in order, have announced after each.
Announced(p) ==
  LET announced[i \in 0..Len(p.endpoints)] ==
        IF i = 0 THEN <<>> ELSE AddConnection(p, announced[i - 1], p.endpoints[i])
  IN  announced

vncConnections(p) ==
  CASE ~p.vnc \/ p.form = "malformed" -> <<>>
    [] p.vnc /\ p.form = "absent" ->
         <<[container |-> p.containers[1], port |-> DefaultVncPort, auth |-> None, priority |-> None]>>
    [] OTHER -> Announced(p)[Len(p.endpoints)]

\* Connection i sorts before connection j: ascending by priority, those without
\* one last, ties in annotation order.
Before(connections, i, j) ==
  LET a == connections[i].priority
      b == connections[j].priority
  IN \/ a = b /\ i < j
     \/ a # b /\ a # None /\ (b = None \/ a < b)

\* Each at the place that as many as sort before it leave to it.
sortByPriority(connections) ==
  LET all == DOMAIN connections
      Rank(i) == Cardinality({j \in all : Before(connections, j, i)})
  IN [k \in all |-> connections[CHOOSE i \in all : Rank(i) = k - 1]]

\* VNC entries first, then a shell per container. The value is what the
\* dropdown selects by: the port of a VNC entry, the name of a container.
allEntries(p, connections) ==
  LET sorted == sortByPriority(connections)
  IN [i \in DOMAIN sorted |->
        [value |-> <<"vnc", sorted[i].port>>, container |-> sorted[i].container]]
     \o
     [i \in DOMAIN p.containers |->
        [value |-> <<"terminal", p.containers[i]>>, container |-> p.containers[i]]]

isVncEntry(e) == e.value[1] = "vnc"

\* Where the first one that passes is, 0 without one (Array.find).
Find(s, Test(_)) ==
  LET hits == {i \in DOMAIN s : Test(s[i])}
  IN  IF hits = {} THEN 0 ELSE CHOOSE i \in hits : \A j \in hits : i <= j

\* The user's choice while it exists, else an entry of the pod's default
\* container, else the first. None is no entry's value.
activeEntry(p, entries, selected) ==
  LET chosen  == Find(entries, LAMBDA e : e.value = selected)
      default == Find(entries, LAMBDA e : e.container = p.preferred)
  IN entries[IF chosen # 0 THEN chosen
             ELSE IF p.preferred # None /\ default # 0 THEN default ELSE 1]

\* The endpoint VncPodConsole picks from its container's list by the entry's id,
\* else the first of that list.
endpoint(connections, e) ==
  LET hit == Find(connections, LAMBDA c : c.container = e.container /\ c.port = e.value[2])
      own == Find(connections, LAMBDA c : c.container = e.container)
  IN connections[IF hit # 0 THEN hit ELSE own]
=============================================================================
