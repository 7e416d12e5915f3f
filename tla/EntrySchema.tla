---------------------------- MODULE EntrySchema ----------------------------
(***************************************************************************)
(* Entry schemas: the graph that the server builds for an entry            *)
(* (plugin/entrySchema.go) and the stree that a client makes of it         *)
(* (api/types/entrySchema.go).                                             *)
(*                                                                         *)
(* A graph is a sequence of pairs of a type ID and the schema of the type, *)
(* in the order of insertion (a linkedhashmap); a type ID is <<name of the *)
(* plugin, raw type ID>>.  An entry has an origin, which says where its    *)
(* schema comes from:                                                      *)
(*   [kind |-> "core", plugin, class, classes]: the types of a core plugin,*)
(*       whose ChildSchemas are the classes[c].children;                   *)
(*   [kind |-> "external", root, graph]: what the schema method returned,  *)
(*       <<"none">> if the plugin has none, <<"error">> if it failed;      *)
(*   [kind |-> "registry", roots]: the origins of the plugin roots.        *)
(***************************************************************************)
EXTENDS Naturals, Sequences, SequencesExt, FiniteSetsExt

TypesIn(graph) == {graph[i][1] : i \in DOMAIN graph}

\* linkedhashmap.Put: a key that is there keeps its place.
Put(graph, typeID, schema) ==
    IF typeID \in TypesIn(graph)
    THEN [i \in DOMAIN graph |-> IF graph[i][1] = typeID THEN <<typeID, schema>> ELSE graph[i]]
    ELSE Append(graph, <<typeID, schema>>)

GetSchema(graph, typeID) == graph[CHOOSE i \in DOMAIN graph : graph[i][1] = typeID][2]

\* TypeID of an entry of a plugin; the registry belongs to none.
TypeID(plugin, raw) == <<plugin, raw>>
RegistryType == TypeID("", "registry")

EmptyStruct == <<"object", <<>>, TRUE, {}>>
Stub == [label |-> "", actions |-> {}, children |-> <<>>, partial |-> <<>>, full |-> <<>>]

\* schemaOf: the JSON schema of a struct; the types in wrapped have schemas of their own.
RECURSIVE SchemaOf(_, _)
SchemaOf(obj, wrapped) ==
    CASE obj = <<>> -> <<>>
      [] obj[1] = "object" ->
            <<"object", [k \in DOMAIN obj[2] |-> SchemaOf(obj[2][k], wrapped)], obj[3], obj[4]>>
      [] obj[1] = "array" -> <<"array", SchemaOf(obj[2], wrapped), obj[3]>>
      [] obj[1] = "type" -> IF obj[2] \in DOMAIN wrapped THEN wrapped[obj[2]] ELSE EmptyStruct
      [] OTHER -> obj

\* passAlongWrappedTypes: those of the child if it has any, else those of its parent
WrappedTypes(class, parents) == IF class.wraps = <<>> THEN parents ELSE class.wraps

\* NewEntrySchema with the metadata schemas filled in
Filled(class, wrapped, children) ==
    [label |-> class.label, actions |-> class.actions, children |-> children,
     partial |-> SchemaOf(class.partial, wrapped), full |-> SchemaOf(class.full, wrapped)]

RECURSIVE Fill(_, _, _, _)

\* Mutant of Fill: a type already seen is filled again but not listed as a child.
FillForgetsChild(graph, origin, c, wrapped) ==
    LET class == origin.classes[c]
        seen == Put(graph, TypeID(origin.plugin, c), Stub)
        children == SelectSeq(class.children, LAMBDA d : TypeID(origin.plugin, d) \notin TypesIn(graph))
        filled == FoldLeft(LAMBDA g, d :
                              IF TypeID(origin.plugin, d) \in TypesIn(g) THEN g
                              ELSE Fill(g, origin, d, WrappedTypes(origin.classes[d], wrapped)),
                           seen, children)
    IN  Put(filled, TypeID(origin.plugin, c),
            Filled(class, wrapped, [i \in DOMAIN children |-> TypeID(origin.plugin, children[i])]))

\* fill: the types reachable from class c, each filled once, c itself in front of them
Fill(graph, origin, c, wrapped) ==
    LET class == origin.classes[c]
        typeID == TypeID(origin.plugin, c)
        Wrapped(d) == WrappedTypes(origin.classes[d], wrapped)
        children == [i \in DOMAIN class.children |-> TypeID(origin.plugin, class.children[i])]
        filled == FoldLeft(LAMBDA g, d :
                              IF TypeID(origin.plugin, d) \in TypesIn(g) THEN g
                              ELSE Fill(g, origin, d, Wrapped(d)),
                           Put(graph, typeID, Stub), class.children)
    IN  IF "list" \notin class.actions THEN Put(graph, typeID, Filled(class, wrapped, <<>>))
        ELSE Put(filled, typeID, Filled(class, wrapped, children))

\* The schema the registry gives the root of a plugin without one
RootStub(root) == [Stub EXCEPT !.label = root, !.actions = {"list"}, !.partial = EmptyStruct]

\* The graph of a core entry or of one of an external plugin
PluginGraph(origin) ==
    IF origin.kind = "core"
    THEN Fill(<<>>, origin, origin.class, WrappedTypes(origin.classes[origin.class], <<>>))
    ELSE origin.graph

\* The part of the registry's graph that one root contributes, its own type first
RootGraph(origin) ==
    IF origin.kind = "external" /\ origin.graph = <<"none">>
    THEN <<<<TypeID(origin.root, "unknown"), RootStub(origin.root)>>>>
    ELSE PluginGraph(origin)

\* The registry: the graphs of the roots one after the other, its own type in front
RegistryGraph(origin) ==
    LET graphs == [i \in DOMAIN origin.roots |-> RootGraph(origin.roots[i])]
        registry == [Stub EXCEPT !.label = "mountpoint", !.actions = {"list"},
                                 !.children = [i \in DOMAIN graphs |-> graphs[i][1][1]]]
        merged == FoldLeft(LAMBDA g, node : Put(g, node[1], node[2]),
                           <<<<RegistryType, Stub>>>>, FlattenSeq(graphs))
    IN  Put(merged, RegistryType, registry)

\* Whether some schema method that is called for an entry fails
SchemaFails(origin) ==
    IF origin.kind = "registry"
    THEN \E i \in DOMAIN origin.roots :
            origin.roots[i].kind = "external" /\ origin.roots[i].graph = <<"error">>
    ELSE origin.kind = "external" /\ origin.graph = <<"error">>

HasSchema(origin) == ~(origin.kind = "external" /\ origin.graph = <<"none">>)

\* SchemaGraph
SchemaGraph(origin) ==
    IF origin.kind = "registry" THEN RegistryGraph(origin) ELSE PluginGraph(origin)

(***************************************************************************)
(* The stree: a node is the sequence of types that leads to it from the    *)
(* root.  Here a graph is a function from types to schemas.                *)
(***************************************************************************)
ByType(graph) == [t \in TypesIn(graph) |-> GetSchema(graph, t)]

\* The node of a child's type: fillStree returns an ancestor of that type if there is one.
ChildNode(node, type) ==
    IF type \in Range(node)
    THEN SubSeq(node, 1, CHOOSE i \in DOMAIN node : node[i] = type)
    ELSE Append(node, type)

StreeChildren(graph, node) ==
    LET children == graph[Last(node)].children
    IN  [i \in DOMAIN children |-> ChildNode(node, children[i])]

\* The labels on the way to a node
StreeLabels(graph, node) == [i \in DOMAIN node |-> graph[node[i]].label]

RECURSIVE ReachIn(_, _, _)
ReachIn(graph, frontier, seen) ==
    IF frontier \subseteq seen THEN seen
    ELSE ReachIn(graph, UNION {Range(StreeChildren(graph, n)) : n \in frontier \ seen},
                 seen \union frontier)

StreeNodes(graph, node) == ReachIn(graph, {node}, {})
=============================================================================
