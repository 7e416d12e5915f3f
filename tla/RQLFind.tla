------------------------------ MODULE RQLFind ------------------------------
(***************************************************************************)
(* The find endpoint (api/find.go) with the walker and the pruning of      *)
(* entry schemas it rests on (api/rql/walker.go, prune.go, entry.go,       *)
(* api/types/entrySchema.go).                                              *)
(*                                                                         *)
(* A request searches one of Trees: entries below a start entry, and the   *)
(* graph of entry schemas of the start entry, if its plugin has one.  The  *)
(* recursion of walk is a stack of entries still to be walked.             *)
(*                                                                         *)
(* The stree of a graph has a node for every path of types from the root   *)
(* without repetition; a type that would repeat leads back to the ancestor.*)
(* Paths of labels are sequences here and strings in queries (Join).       *)
(***************************************************************************)
EXTENDS RQL

CONSTANTS
    Trees,      \* what a request may search
    RawQueries, \* bodies of requests; <<"empty">> is a request without one
    Options,    \* records of mindepth, maxdepth and fullmeta
    Rank,       \* the order of cnames
    CanFail     \* whether calls of the plugin may fail

VARIABLES
    tree, raw, opts,    \* the request
    pc,                 \* how far the request is, or how it ended
    query,              \* the unmarshalled query
    stree,              \* the pruned stree of the start entry
    todo,               \* the entries to walk, the next one first
    entries,            \* the entries found
    listed              \* the entries whose children were listed

vars == <<tree, raw, opts, pc, query, stree, todo, entries, listed>>
request == <<tree, raw, opts>>

Ends == {"rejected", "failed", "panicked", "done"}

Join(segments) ==
    FoldLeft(LAMBDA path, segment : IF path = "" THEN segment ELSE path \o "/" \o segment,
             "", segments)

(***************************************************************************)
(* The stree: a node is the sequence of types that leads to it.            *)
(***************************************************************************)
Graph == tree.graph
Schema(node) == Graph[Last(node)]

\* The node of a child's type: fillStree returns an ancestor of that type if there is one.
ChildNode(node, type) ==
    IF type \in Range(node)
    THEN SubSeq(node, 1, CHOOSE i \in DOMAIN node : node[i] = type)
    ELSE Append(node, type)

Children(node) ==
    [i \in DOMAIN Schema(node).children |-> ChildNode(node, Schema(node).children[i])]

Root == <<tree.type>>

\* The path fillStree gives a node, with the label of the root in front
StreePath(node) == [i \in DOMAIN node |-> Graph[node[i]].label]

RECURSIVE Reach(_, _)
Reach(frontier, seen) ==
    IF frontier \subseteq seen THEN seen
    ELSE Reach(UNION {Range(Children(n)) : n \in frontier \ seen}, seen \union frontier)

Descendants(node) == Reach({node}, {})

(***************************************************************************)
(* evaluateNodesToKeep.  st holds its maps: visited and result by path,    *)
(* path and metadata by node (SetPath, SetMetadataSchema), and whether the *)
(* query panicked.  Nodes of one path share what is kept by path.          *)
(***************************************************************************)
\* The path without the label of the root, which is what the kind primary compares
KindPath(path) == IF path # <<>> /\ Head(path) = Graph[Head(Root)].label
                  THEN Tail(path) ELSE path

MetadataSchema(node) ==
    IF opts.fullmeta /\ Schema(node).full # <<>> THEN Schema(node).full ELSE Schema(node).partial

\* The schema as the query sees it
SchemaRecord(node, path, metadata) ==
    [actions |-> Schema(node).actions, path |-> Join(path), metadata |-> metadata]

RECURSIVE ApplyPredicate(_, _)
ApplyPredicate(st, node) ==
    IF st.path[node] \in st.visited \/ st.panicked THEN st
    ELSE LET path == KindPath(st.path[node])
             metadata == MetadataSchema(node)
             p == Eval("schema", query, SchemaRecord(node, path, metadata))
             absent == p = "false" /\ Children(node) # <<>>
             applied == [visited |-> st.visited \union {path},
                         path |-> [st.path EXCEPT ![node] = path],
                         metadata |-> [st.metadata EXCEPT ![node] = metadata],
                         result |-> IF absent THEN st.result
                                    ELSE (path :> (p = "true")) @@ st.result,
                         panicked |-> p = "panic"]
         IN  FoldLeft(ApplyPredicate, applied, Children(node))

RECURSIVE UpdateResult(_, _)
UpdateResult(st, node) ==
    IF st.path[node] \in st.visited THEN st
    ELSE FoldLeft(LAMBDA s, child :
                     LET t == UpdateResult(s, child)
                     IN  IF t.path[child] \in DOMAIN t.result /\ t.result[t.path[child]]
                         THEN [t EXCEPT !.result = (t.path[node] :> TRUE) @@ @]
                         ELSE t,
                  [st EXCEPT !.visited = @ \union {st.path[node]}], Children(node))

\* The loop ends with the iteration that adds no node to result.
RECURSIVE Iterate(_)
Iterate(st) ==
    LET next == UpdateResult([st EXCEPT !.visited = {}], Root)
    IN  IF Cardinality(DOMAIN next.result) <= Cardinality(DOMAIN st.result) THEN next
        ELSE Iterate(next)

\* The nodes of the stree as they were unmarshalled
Unevaluated ==
    [visited |-> {}, result |-> <<>>, panicked |-> FALSE,
     path |-> [n \in Descendants(Root) |-> StreePath(n)],
     metadata |-> [n \in Descendants(Root) |-> Schema(n).full]]

\* Mutant of EvaluateNodesToKeep: one iteration is taken to be enough.
IterateOnce ==
    LET applied == ApplyPredicate(Unevaluated, Root)
    IN  IF applied.panicked THEN applied ELSE UpdateResult([applied EXCEPT !.visited = {}], Root)

EvaluateNodesToKeep ==
    LET applied == ApplyPredicate(Unevaluated, Root)
    IN  IF applied.panicked THEN applied ELSE Iterate(applied)

Kept(st, node) == st.path[node] \in DOMAIN st.result /\ st.result[st.path[node]]

\* pruneHelper, with st as left by EvaluateNodesToKeep and the children of the nodes
RECURSIVE PruneHelper(_, _)
PruneHelper(st, node) ==
    IF st.path[node] \in st.visited THEN st
    ELSE LET kept == SelectSeq(st.children[node], LAMBDA child : Kept(st, child))
         IN  FoldLeft(PruneHelper, [st EXCEPT !.visited = @ \union {st.path[node]},
                                              !.children[node] = kept], kept)

NoStree == [known |-> FALSE]

\* prune: there is no stree when not even the root is kept.
Prune(evaluated) ==
    IF ~Kept(evaluated, Root) THEN NoStree
    ELSE LET st == [visited |-> {}, path |-> evaluated.path, result |-> evaluated.result,
                    children |-> [n \in Descendants(Root) |-> Children(n)]]
             pruned == PruneHelper(st, Root)
         IN  [known |-> TRUE, path |-> pruned.path, children |-> pruned.children,
              metadata |-> evaluated.metadata]

(***************************************************************************)
(* The walk.  An item of todo is an entry with its depth, its path, the    *)
(* node of its schema (<<>> if unknown) and the step it is at.             *)
(***************************************************************************)
Entry(item) == tree.entries[item.entry]

Item(entry, node, depth, path) ==
    [entry |-> entry, node |-> node, depth |-> depth, path |-> path, step |-> "visit"]

\* The entry as the query sees it
EntryRecord(item) ==
    LET e == Entry(item)
    IN  [name |-> e.name, cname |-> e.cname, path |-> Join(item.path), actions |-> e.actions,
         atime |-> e.atime, crtime |-> e.crtime, ctime |-> e.ctime, mtime |-> e.mtime,
         size |-> e.size, schemaKnown |-> item.node # <<>>,
         metadata |-> IF opts.fullmeta THEN e.full ELSE e.partial]

\* The children of an entry in the order of their cnames
ChildEntries(entry) ==
    SetToSortSeq({c \in DOMAIN tree.entries : tree.entries[c].parent = entry},
                 LAMBDA c, d : Rank[tree.entries[c].cname] < Rank[tree.entries[d].cname])

\* GetChild: the pruned child of that type, if it is left
ChildSchemas(node, type) ==
    IF node = <<>> THEN {<<>>}
    ELSE {n \in Range(stree.children[node]) : Last(n) = type}

WalkedChildren(item) ==
    LET children == SelectSeq(ChildEntries(item.entry), LAMBDA c :
                        ChildSchemas(item.node, tree.entries[c].type) # {})
    IN  [i \in DOMAIN children |->
            Item(children[i],
                 CHOOSE n \in ChildSchemas(item.node, tree.entries[children[i]].type) : TRUE,
                 item.depth + 1, Append(item.path, tree.entries[children[i]].cname))]

Init ==
    /\ tree \in Trees
    /\ raw \in RawQueries
    /\ opts \in Options
    /\ pc = "decode"
    /\ query = <<>>
    /\ stree = NoStree
    /\ todo = <<>>
    /\ entries = <<>>
    /\ listed = {}

\* findHandler up to the call of rql.Find; a request without a body asks for everything.
Decode ==
    /\ pc = "decode"
    /\ LET r == UnmarshalQuery(IF raw = <<"empty">> THEN <<"bool", TRUE>> ELSE raw)
       IN  IF "list" \in tree.entries[tree.start].actions /\ IsOk(r)
           THEN pc' = "schema" /\ query' = r[2]
           ELSE pc' = "rejected" /\ query' = query
    /\ UNCHANGED <<request, stree, todo, entries, listed>>

\* Walk, up to the call of walk: plugin.Schema, prune
FetchSchema ==
    /\ pc = "schema"
    /\ IF ~tree.hasSchema THEN pc' = "walk" /\ stree' = NoStree
       ELSE LET evaluated == EvaluateNodesToKeep
            IN  IF evaluated.panicked THEN pc' = "panicked" /\ stree' = NoStree
                ELSE pc' = "walk" /\ stree' = Prune(evaluated)
    /\ todo' = <<Item(tree.start, IF stree'.known THEN Root ELSE <<>>, 0, <<>>)>>
    /\ UNCHANGED <<request, query, entries, listed>>

\* w.q.EvalEntrySchema(e.Schema)
SchemaIncludes(node) ==
    Eval("schema", query, SchemaRecord(node, stree.path[node], stree.metadata[node]))

\* Mutant of Included: the schema decides alone.
SchemaDecides(item) ==
    IF item.depth < opts.mindepth THEN "false"
    ELSE IF item.node = <<>> THEN Eval("entry", query, EntryRecord(item))
    ELSE SchemaIncludes(item.node)

\* visit: the schema predicate first, if the schema is known
Included(item) ==
    IF item.depth < opts.mindepth THEN "false"
    ELSE AndThen(IF item.node = <<>> THEN "true" ELSE SchemaIncludes(item.node),
                 Eval("entry", query, EntryRecord(item)))

\* The first part of walk: every entry but the start entry is visited.
Visit ==
    /\ pc = "walk"
    /\ todo # <<>>
    /\ Head(todo).step = "visit"
    /\ LET item == Head(todo)
           included == IF item.depth = 0 THEN "false" ELSE Included(item)
       IN  IF included = "panic" THEN pc' = "panicked" /\ UNCHANGED <<todo, entries>>
           ELSE /\ entries' = IF included = "true" THEN Append(entries, item.entry) ELSE entries
                /\ todo' = [todo EXCEPT ![1].step = "list"]
                /\ pc' = pc
    /\ UNCHANGED <<request, query, stree, listed>>

\* Whether walk lists the children of an entry
Descends(item) == item.depth + 1 <= opts.maxdepth /\ "list" \in Entry(item).actions

\* The second part of walk: the children take the entry's place.
List ==
    /\ pc = "walk"
    /\ todo # <<>>
    /\ Head(todo).step = "list"
    /\ todo' = (IF Descends(Head(todo)) THEN WalkedChildren(Head(todo)) ELSE <<>>) \o Tail(todo)
    /\ listed' = IF Descends(Head(todo)) THEN listed \union {Head(todo).entry} ELSE listed
    /\ UNCHANGED <<request, pc, query, stree, entries>>

\* Whether the next step of the request calls the plugin
CallsPlugin ==
    \/ pc = "schema" /\ tree.hasSchema
    \/ /\ pc = "walk"
       /\ todo # <<>>
       /\ LET item == Head(todo)
          IN  IF item.step = "list" THEN Descends(item)
              ELSE /\ opts.fullmeta
                   /\ item.depth > 0
                   /\ item.depth >= opts.mindepth
                   /\ item.node # <<>> => SchemaIncludes(item.node) = "true"

\* plugin.Schema, plugin.Metadata or plugin.List returns an error, and so does the
\* request, whatever was found before.
PluginFails ==
    /\ CanFail
    /\ CallsPlugin
    /\ pc' = "failed"
    /\ UNCHANGED <<request, query, stree, todo, entries, listed>>

Finish ==
    /\ pc = "walk"
    /\ todo = <<>>
    /\ pc' = "done"
    /\ UNCHANGED <<request, query, stree, todo, entries, listed>>

Ended == pc \in Ends /\ UNCHANGED vars

Next == Decode \/ FetchSchema \/ Visit \/ List \/ PluginFails \/ Finish \/ Ended

Spec == Init /\ [][Next]_vars

TypeOK ==
    /\ pc \in {"decode", "schema", "walk"} \union Ends
    /\ \A i \in DOMAIN todo :
          /\ todo[i].entry \in DOMAIN tree.entries
          /\ todo[i].depth = Len(todo[i].path)
          /\ todo[i].depth <= opts.maxdepth \/ todo[i].depth = 0
          /\ todo[i].step \in {"visit", "list"}
          /\ todo[i].node # <<>> => stree.known /\ todo[i].node \in DOMAIN stree.children
    /\ Range(entries) \subseteq DOMAIN tree.entries
    /\ listed \subseteq DOMAIN tree.entries

(***************************************************************************)
(* The language as docs/_docs/rql.md describes it.                         *)
(***************************************************************************)
\* What a predicate says of a value, of an entry or of one of their parts.
RECURSIVE Says(_, _, _)
Says(kind, p, x) ==
    CASE p[1] = "AND" -> Says(kind, p[2], x) /\ Says(kind, p[3], x)
      [] p[1] = "OR" -> Says(kind, p[2], x) \/ Says(kind, p[3], x)
      [] p[1] = "NOT" -> ~Says(kind, p[2], x)
      [] kind = "actions" -> p[2] \in x
      [] kind = "string" /\ p[1] = "glob" -> x \in Globs[p[2]]
      [] kind = "string" /\ p[1] = "regex" -> x \in Regexes[p[2]]
      [] kind = "string" /\ p[1] = "equal" -> x = p[2]
      [] kind \in {"number", "time"} -> Compare(p[1], x, p[2])
      [] p[1] = "boolean" /\ kind = "entry" -> p[2]
      [] p[1] = "boolean" /\ kind = "value" -> x = <<"bool", p[2]>>
      [] p[1] = "null" -> x = <<"null">>
      [] p[1] = "number" -> x[1] = "num" /\ Says("number", p[2], x[2])
      [] p[1] = "string" -> x[1] = "str" /\ Says("string", p[2], x[2])
      [] p[1] = "time" -> \E t \in ToTime(x) : Says("time", p[2], t)
      [] p[1] = "objectSize" -> x[1] = "obj" /\ Says("number", p[2], Cardinality(DOMAIN x[2]))
      [] p[1] = "arraySize" -> x[1] = "arr" /\ Says("number", p[2], Len(x[2]))
      [] p[1] = "object" ->
            /\ x[1] = "obj"
            /\ \E k \in DOMAIN x[2] : Upper[k] = Upper[p[2]] /\ Says("value", p[3], x[2][k])
      [] p[1] = "array" ->
            /\ x[1] = "arr"
            /\ \/ p[2][1] = "some" /\ \E i \in DOMAIN x[2] : Says("value", p[3], x[2][i])
               \/ p[2][1] = "all" /\ \A i \in DOMAIN x[2] : Says("value", p[3], x[2][i])
               \/ /\ p[2][1] = "index"
                  /\ p[2][2] + 1 \in DOMAIN x[2]
                  /\ Says("value", p[3], x[2][p[2][2] + 1])
      [] p[1] = "action" -> Says("actions", p[2], x.actions)
      [] p[1] \in {"name", "cname", "path"} -> Says("string", p[2], x[p[1]])
      [] p[1] = "kind" -> tree.hasSchema /\ Says("string", p[2], x.kind)
      [] p[1] = "size" -> Says("number", p[2], x.size)
      [] p[1] = "meta" -> Says("value", p[2], x.metadata)
      [] OTHER -> Says("time", p[2], x[p[1]])

\* The entries below an entry that should be found, in the order of the walk; kind is the
\* node of the entry in the whole stree.
RECURSIVE Expected(_, _)
Expected(item, kind) ==
    LET described == EntryRecord(item) @@
                     [kind |-> IF tree.hasSchema THEN Join(Tail(StreePath(kind))) ELSE ""]
        children == ChildEntries(item.entry)
    IN  (IF item.depth > 0 /\ item.depth \in opts.mindepth..opts.maxdepth
            /\ Says("entry", query, described)
         THEN <<item.entry>> ELSE <<>>)
        \o FlattenSeq([i \in DOMAIN children |->
               LET c == tree.entries[children[i]]
               IN  Expected(Item(children[i], <<>>, item.depth + 1, Append(item.path, c.cname)),
                            IF tree.hasSchema THEN ChildNode(kind, c.type) ELSE <<>>)])

\* A request that succeeds returns exactly the entries below the start entry that satisfy the
\* query, between the two depths and in the order of a walk by cname: skipping entries whose
\* schema cannot satisfy it, and everything below a pruned schema, loses none
\* (docs/_docs/rql.md, walk and visit).
FindExact ==
    pc = "done" => entries = Expected(Item(tree.start, <<>>, 0, <<>>), Root)

\* The nodes whose schema satisfies the query
Satisfying == {n \in Descendants(Root) :
                  Eval("schema", query, SchemaRecord(n, Tail(StreePath(n)), MetadataSchema(n)))
                      = "true"}

\* prune leaves of the stree exactly the nodes from which a satisfying one can be reached,
\* also through cycles and by several paths (evaluateNodesToKeep).
PruneExact ==
    pc \in {"walk", "done"} /\ tree.hasSchema =>
        LET useful == {n \in Descendants(Root) : Descendants(n) \cap Satisfying # {}}
        IN  /\ stree.known <=> Root \in useful
            /\ stree.known => \A n \in useful :
                   Range(stree.children[n]) = Range(Children(n)) \cap useful

\* The node of an entry in the whole stree
RECURSIVE NodeOf(_)
NodeOf(entry) ==
    IF entry = tree.start THEN Root
    ELSE ChildNode(NodeOf(tree.entries[entry].parent), tree.entries[entry].type)

\* The walk lists no entry below the start entry unless its schema, or that of a
\* descendant, satisfies the query ("only recurse into entries that are execable or have an
\* execable descendant", docs/_docs/rql.md).
ListsOnlyUseful ==
    tree.hasSchema => \A e \in listed \ {tree.start} :
                         Descendants(NodeOf(e)) \cap Satisfying # {}

\* No query that is accepted makes the request panic ("We should never hit this code path",
\* tm.EvalTime).
NoPanic == pc # "panicked"

(***************************************************************************)
(* Two grammars.  "documented" is that of docs/_docs/rql.md:55-133 to the  *)
(* letter.  "implemented" departs from it in two places and no other:      *)
(*   - the action "signal", which plugin.Actions() has and rql.md:93-99    *)
(*     does not list;                                                      *)
(*   - a key is written ["key", s], as object.go:53-55 demands and the     *)
(*     document's own example has it (rql.md:158), and never as the        *)
(*     ["key", ["=", s]] of its grammar (rql.md:112).                      *)
(* What rql.md leaves open (Number, TimeValue, <glob>, <regex>) is what    *)
(* the code can convert.                                                   *)
(***************************************************************************)
DocumentedActions == {"list", "read", "write", "stream", "exec", "delete"}

Form(j, names, n) == j[1] = "arr" /\ Len(j[2]) = n /\ \E x \in names : j[2][1] = Str(x)

IsNumber(j) == ToNumber(j) # {}
IsNatural(j) == \E n \in ToNumber(j) : n >= 0

KeySelector(grammar, j) ==
    /\ Form(j, {"key"}, 2)
    /\ CASE grammar = "implemented" -> j[2][2][1] = "str"
         [] grammar = "documented" -> Form(j[2][2], {"="}, 2) /\ j[2][2][2][2][1] = "str"

RECURSIVE Sentence(_, _, _, _)

SizeSentence(grammar, j) ==
    Form(j, {"size"}, 2) /\ Sentence(grammar, "UnsignedNumericPredicate", TRUE, j[2][2])

Sentence(grammar, ptype, negatable, j) ==
    \/ /\ Form(j, {"AND", "OR"}, 3)
       /\ Sentence(grammar, ptype, negatable, j[2][2])
       /\ Sentence(grammar, ptype, negatable, j[2][3])
    \/ negatable /\ Form(j, {"NOT"}, 2) /\ Sentence(grammar, ptype, TRUE, j[2][2])
    \/ /\ ptype = "ActionPredicate"
       /\ \E a \in Actions : j = Str(a) /\ (a \in DocumentedActions \/ grammar = "implemented")
    \/ ptype = "NumericPredicate" /\ Form(j, ComparisonOps, 2) /\ IsNumber(j[2][2])
    \/ ptype = "UnsignedNumericPredicate" /\ Form(j, ComparisonOps, 2) /\ IsNatural(j[2][2])
    \/ ptype = "TimePredicate" /\ Form(j, ComparisonOps, 2) /\ ToTime(j[2][2]) # {}
    \/ /\ ptype = "StringPredicate"
       /\ \/ Form(j, {"glob"}, 2) /\ j[2][2] \in {Str(g) : g \in DOMAIN Globs}
          \/ Form(j, {"regex"}, 2) /\ j[2][2] \in {Str(r) : r \in DOMAIN Regexes}
          \/ Form(j, {"="}, 2) /\ j[2][2][1] = "str"
    \/ ptype \in {"Primary", "ValuePredicate"} /\ j[1] = "bool"
    \/ /\ ptype = "Primary"
       /\ \/ SizeSentence(grammar, j)
          \/ \E name \in DOMAIN PrimaryType :
                Form(j, {name}, 2) /\ Sentence(grammar, PrimaryType[name], name # "meta", j[2][2])
    \/ /\ ptype \in {"ObjectPredicate", "ValuePredicate"}
       /\ Form(j, {"object"}, 2)
       /\ \/ SizeSentence(grammar, j[2][2])
          \/ /\ j[2][2][1] = "arr"
             /\ Len(j[2][2][2]) = 2
             /\ KeySelector(grammar, j[2][2][2][1])
             /\ Sentence(grammar, "ValuePredicate", TRUE, j[2][2][2][2])
    \/ /\ ptype = "ValuePredicate"
       /\ \/ j[1] = "null"
          \/ Form(j, {"number"}, 2) /\ Sentence(grammar, "NumericPredicate", TRUE, j[2][2])
          \/ Form(j, {"time"}, 2) /\ Sentence(grammar, "TimePredicate", TRUE, j[2][2])
          \/ Form(j, {"string"}, 2) /\ Sentence(grammar, "StringPredicate", TRUE, j[2][2])
          \/ /\ Form(j, {"array"}, 2)
             /\ \/ SizeSentence(grammar, j[2][2])
                \/ /\ j[2][2][1] = "arr"
                   /\ Len(j[2][2][2]) = 2
                   /\ \/ j[2][2][2][1] \in {Str("some"), Str("all")}
                      \/ j[2][2][2][1][1] = "num" /\ j[2][2][2][1][2] >= 0
                   /\ Sentence(grammar, "ValuePredicate", TRUE, j[2][2][2][2])

Accepts(grammar) ==
    pc # "decode" /\ raw # <<"empty">> /\ "list" \in tree.entries[tree.start].actions =>
        (pc = "rejected" <=> ~Sentence(grammar, "Primary", FALSE, raw))

\* A request is rejected exactly when its query is not a sentence of the implemented grammar,
\* which is the documented one but for "signal" and the form of keys: ordered choice with
\* errors that stop it neither loses a sentence nor accepts another (NonterminalNode.Unmarshal,
\* and MatchErrorf against Errorf in every Unmarshal).
AcceptsGrammar == Accepts("implemented")

\* A request is rejected exactly when its query is not a sentence of the grammar of
\* docs/_docs/rql.md. The code accepts ["action", "signal"] and rejects the documented form of
\* a key (object.go:53-55), so this fails.
AcceptsDocumented == Accepts("documented")

\* A query survives being marshalled and unmarshalled, though numbers and times are written
\* in another form than they were read (Marshal and Unmarshal of every node).
RoundTrip ==
    query # <<>> => UnmarshalQuery(Marshal("Primary", query)) = Ok(query)
=============================================================================
