------------------------------ MODULE DebugPod ------------------------------
(* The debug pod a node terminal creates: a pod spec from the default          *)
(* ConfigMap, with the one the node's annotation names merged over it, or a    *)
(* built-in template. A spec is a tree: maps of fields, lists, and leaves.     *)
EXTENDS Absent, Naturals, Sequences, FiniteSets, SequencesExt, TLC

CONSTANTS ConfigMaps,     \* name -> a spec, or None: absent, unreadable or no YAML
          DefaultName     \* of the ConfigMap every node uses

Leaf(v) == [kind |-> "leaf", v |-> v]
List(s) == [kind |-> "list", items |-> s]
Map(f) == [kind |-> "map", kids |-> f]
Null == [kind |-> "null"]

\* Mutant of deepMergePodSpec: the fields of the source replace the target's whole.
deepMergeShallow(target, source) ==
  IF source.kind # "map" \/ target.kind # "map" THEN source ELSE Map(source.kids @@ target.kids)

\* A null in the source keeps the target; lists and leaves of the source replace it.
RECURSIVE deepMergePodSpec(_, _)
deepMergePodSpec(target, source) ==
  CASE source.kind = "null" -> target
    [] source.kind # "null" /\ (source.kind # "map" \/ target.kind # "map") -> source
    [] OTHER ->
         Map([k \in DOMAIN target.kids \cup DOMAIN source.kids |->
                CASE k \notin DOMAIN source.kids -> target.kids[k]
                  [] k \notin DOMAIN target.kids -> source.kids[k]
                  [] OTHER -> deepMergePodSpec(target.kids[k], source.kids[k])])

OnNode(spec, node) == Map(("nodeName" :> Leaf(node)) @@ spec.kids)

\* A ConfigMap that cannot be read, or holds no spec, is as good as none.
getOverridePodSpecFromConfigMap(name, node) ==
  IF ConfigMaps[name] = None THEN None ELSE OnNode(ConfigMaps[name], node)

\* An environment variable is only added where the spec has none of its name.
PushEnv(env, name, vars) ==
  IF \E e \in Range(env) : e.name = name THEN env ELSE env \o vars

Var(name, value) == [name |-> name, value |-> value]

SessionEnv(env, user, zone) ==
  LET sixel == PushEnv(env, "HAVE_SIXEL_SUPPORT", <<Var("HAVE_SIXEL_SUPPORT", "true")>>)
      named == IF user = None THEN sixel
               ELSE PushEnv(sixel, "NODE_TERMINAL_REQUESTED_USER",
                            <<Var("NODE_TERMINAL_REQUESTED_USER", user)>>)
      timed == IF zone = None THEN named
               ELSE PushEnv(named, "NODE_TERMINAL_TZ",
                            <<Var("NODE_TERMINAL_TZ", zone), Var("NODE_TERMINAL_TZ_POSIX", zone)>>)
      mode  == PushEnv(timed, "NODE_TERMINAL_EXEC_MODE", <<Var("NODE_TERMINAL_EXEC_MODE", "true")>>)
  IN PushEnv(mode, "NODE_TERMINAL_POD_UID", <<Var("NODE_TERMINAL_POD_UID", "metadata.uid")>>)

Containers(spec) ==
  IF "containers" \in DOMAIN spec.kids /\ spec.kids["containers"].kind = "list"
    THEN spec.kids["containers"].items ELSE <<>>

\* The first container's session variables; the others are left alone.
WithSession(spec, user, zone) ==
  LET cs == Containers(spec)
  IN IF cs = <<>> THEN spec
     ELSE Map([spec.kids EXCEPT !["containers"] =
                 List([cs EXCEPT ![1] = [@ EXCEPT !.env = SessionEnv(@, user, zone)]])])

\* The spec for a node without any ConfigMap.
Template(node) ==
  Map([nodeName |-> Leaf(node.name),
       containers |-> List(<<[name |-> "container-00",
                              env |-> <<Var("TMOUT", "900"), Var("HOST", "/host")>>]>>),
       hostPID |-> Leaf(~node.windows),
       hostIPC |-> Leaf(~node.windows)])

getDebugPod(node, user, zone) ==
  LET default == getOverridePodSpecFromConfigMap(DefaultName, node.name)
      own == IF node.reference = None THEN None
             ELSE getOverridePodSpecFromConfigMap(node.reference, node.name)
      override == CASE own = None -> default
                    [] own # None /\ default = None -> OnNode(deepMergePodSpec(Map(<<>>), own), node.name)
                    [] OTHER -> OnNode(deepMergePodSpec(default, own), node.name)
  IN IF override = None THEN Template(node) ELSE WithSession(override, user, zone)

------------------------------------------------------------------------------
(* What a spec says, leaf by leaf: the reference the merge is checked against. *)

\* The set of <<path, value>> of a tree's leaves and lists.
RECURSIVE Says(_, _)
Says(path, tree) ==
  CASE tree.kind = "null" -> {}
    [] tree.kind = "leaf" -> {<<path, tree.v>>}
    [] tree.kind = "list" -> {<<path, tree.items>>}
    [] OTHER -> UNION {Says(Append(path, k), tree.kids[k]) : k \in DOMAIN tree.kids}

\* Two paths of which one begins with the other speak of the same field.
SameField(p, q) == IsPrefix(p, q) \/ IsPrefix(q, p)

\* What the default says where the node's own spec is silent, and what the own
\* spec says.
Merged(default, own) ==
  LET ours == Says(<<>>, own)
  IN ours \cup {s \in Says(<<>>, default) : \A o \in ours : ~SameField(s[1], o[1])}

\* A spec is bound to its node and says what the two ConfigMaps say, the node's
\* own over the default, down to the single field; the variables its first
\* container already had keep their place and their values, and the variable
\* that keeps the session out of the container's log is there exactly once.
Configured(n, spec) ==
  LET own == IF n.reference = None THEN None ELSE ConfigMaps[n.reference]
      default == ConfigMaps[DefaultName]
      said == CASE default = None /\ own = None -> Says(<<>>, Template(n))
                [] default = None /\ own # None -> Says(<<>>, own)
                [] default # None /\ own = None -> Says(<<>>, default)
                [] OTHER -> Merged(default, own)
      Path(p) == {s \in said : s[1] = p}
      Mode(c) == {i \in DOMAIN c.env : c.env[i].name = "NODE_TERMINAL_EXEC_MODE"}
  IN /\ spec.kids["nodeName"] = Leaf(n.name)
     /\ {s \in Says(<<>>, spec) : s[1] \notin {<<"nodeName">>, <<"containers">>}}
          = {s \in said : s[1] \notin {<<"nodeName">>, <<"containers">>}}
     /\ \A s \in Path(<<"containers">>) :
          /\ Len(Containers(spec)) = Len(s[2])
          /\ \A i \in DOMAIN s[2] : IsPrefix(s[2][i].env, Containers(spec)[i].env)
          /\ (default # None \/ own # None) => Cardinality(Mode(Containers(spec)[1])) = 1
=============================================================================
