----------------------------- MODULE WashFind ------------------------------
(***************************************************************************)
(* The command `wash find` (cmd/internal/find): its arguments, the pruning *)
(* of the schemas it fetches, and its walk over the entries below one or   *)
(* more paths, against a server that may fail any call.                    *)
(*                                                                         *)
(* A command line is a record of the tokens of its paths, flags and        *)
(* expression; opts is what the flags mean, <<>> if they are not valid.    *)
(* The recursion of walk is a stack of entries still to be walked.         *)
(***************************************************************************)
EXTENDS FindReference, EntrySchema

CONSTANTS
    Cases,      \* pairs of what the server holds and a command line
    Now,        \* the time at which find starts
    CanFail     \* whether calls of the server may fail

VARIABLES
    tree, cmd,  \* the server's entries and the command line
    pc,         \* how far the command is, or how it ended
    parsed,     \* paths still to walk, options and predicate
    stree,      \* the pruned stree of the path that is walked
    todo,       \* the entries to walk, the next one first
    printed,    \* the paths printed
    exit,       \* the exit code
    failed      \* the calls that failed, as pairs of the call and the path

vars == <<tree, cmd, pc, parsed, stree, todo, printed, exit, failed>>
input == <<tree, cmd>>

(***************************************************************************)
(* The command line                                                        *)
(***************************************************************************)
DefaultMaxdepth == 2147483647   \* 1<<31 - 1
DefaultOptions == [depth |-> FALSE, mindepth |-> 0, maxdepth |-> DefaultMaxdepth,
                   daystart |-> FALSE, fullmeta |-> FALSE]

StartsWithDash(token) == token[1] = "-" \/ (token[1] = "num" /\ token[2] = "-")

\* parsePaths: how many arguments belong to the paths, empty ones included
PathCount(args) ==
    LET i == SelectInSeq(args, LAMBDA t : StartsWithDash(t) \/ IsPartOfExpression(t))
    IN  IF i = 0 THEN Len(args) ELSE i - 1

ParsePaths(args) ==
    LET paths == SelectSeq(SubSeq(args, 1, PathCount(args)), LAMBDA t : t # <<"", "">>)
    IN  IF paths = <<>> THEN <<<<"", ".">>>> ELSE paths

\* strconv on the value of an integer flag: a sign is allowed only where it is one of int.
FlagValue(flag, token) ==
    IF token[1] # "num" \/ token[3][1] # "int" \/ (flag = "mindepth" /\ token[2] # "") THEN {}
    ELSE {IF token[2] = "-" THEN -token[3][2] ELSE token[3][2]}

FlagResult(opts, rest, err) == [opts |-> opts, rest |-> rest, err |-> err]

\* flag.FlagSet.Parse: it stops at the first argument that is not a flag.
RECURSIVE ParseFlags(_, _)
ParseFlags(opts, args) ==
    IF args = <<>> \/ ~StartsWithDash(Head(args)) THEN FlagResult(opts, args, "none")
    ELSE LET flag == Head(args)[2]
             rest == Tail(args)
         IN  CASE flag \in {"depth", "daystart", "fullmeta"} ->
                    ParseFlags([opts EXCEPT ![flag] = TRUE], rest)
               [] flag \in {"mindepth", "maxdepth"} ->
                    IF rest = <<>> \/ FlagValue(flag, Head(rest)) = {}
                    THEN FlagResult(opts, rest, "syntax")
                    ELSE LET n == CHOOSE n \in FlagValue(flag, Head(rest)) : TRUE
                         IN  ParseFlags([opts EXCEPT ![flag] = n], Tail(rest))
               [] flag \in {"h", "help"} -> FlagResult(opts, rest, "help")
               [] OTHER -> FlagResult(opts, rest, "syntax")

\* parseOptions: flags are looked for up to the first part of an expression.
ParseOptions(args) ==
    LET i == SelectInSeq(args, IsPartOfExpression)
        r == ParseFlags(DefaultOptions, IF i = 0 THEN args ELSE SubSeq(args, 1, i - 1))
    IN  IF r.err # "none" THEN r
        ELSE FlagResult([r.opts EXCEPT !.maxdepth = IF @ < 0 THEN DefaultMaxdepth ELSE @],
                        IF i = 0 THEN r.rest ELSE SubSeq(args, i, Len(args)), "none")

\* The exit code of printHelp, on the arguments after the flag
HelpExit(rest) ==
    IF \/ rest = <<>>
       \/ StartsWithDash(Head(rest))
       \/ \E w \in {"", "syntax"} \union Primaries : Head(rest) = <<"", w>>
    THEN 0 ELSE 1

\* Parse
ParseArgs(args) ==
    LET r == ParseOptions(SubSeq(args, PathCount(args) + 1, Len(args)))
        e == IF r.err # "none" THEN Err(r.err) ELSE ParseFind(r.rest)
    IN  [paths |-> ParsePaths(args), opts |-> r.opts, p |-> e.p, rest |-> r.rest, err |-> e.err]

Args(command) == command.paths \o command.flags \o command.expr

\* params.ReferenceTime
ReferenceTime == IF parsed.opts.daystart THEN Now - (Now % Day) ELSE Now

RECURSIVE HasMeta(_)
HasMeta(p) ==
    CASE p[1] \in {"and", "or"} -> HasMeta(p[2]) \/ HasMeta(p[3])
      [] p[1] = "not" -> HasMeta(p[2])
      [] OTHER -> p[1] = "meta"

(***************************************************************************)
(* Prune.  A node of the stree is the sequence of types that leads to it;  *)
(* keep holds evaluateNodesToKeep's maps: visited and result by path, and  *)
(* the metadata schemas set, by node.                                      *)
(***************************************************************************)
Graph(start) == ByType(SchemaGraph(start.origin))
Root(start) == <<SchemaGraph(start.origin)[1][1]>>

\* What the predicate sees of a node
SchemaRecord(graph, node, metadata) ==
    [labels |-> StreeLabels(graph, node), actions |-> graph[Last(node)].actions,
     metadata |-> metadata]

MetadataSchema(schema) ==
    IF parsed.opts.fullmeta /\ schema.full # <<>> THEN schema.full ELSE schema.partial

RECURSIVE ApplyPredicate(_, _, _)
ApplyPredicate(graph, keep, node) ==
    LET path == StreeLabels(graph, node)
        metadata == MetadataSchema(graph[Last(node)])
        holds == SchemaHolds(SchemaP(parsed.p), SchemaRecord(graph, node, metadata))
        children == StreeChildren(graph, node)
    IN  IF path \in keep.visited THEN keep
        ELSE FoldLeft(LAMBDA k, child : ApplyPredicate(graph, k, child),
                      [visited |-> keep.visited \union {path},
                       metadata |-> (node :> metadata) @@ keep.metadata,
                       result |-> IF ~holds /\ children # <<>> THEN keep.result
                                  ELSE (path :> holds) @@ keep.result],
                      children)

Kept(graph, keep, node) ==
    LET path == StreeLabels(graph, node) IN path \in DOMAIN keep.result /\ keep.result[path]

RECURSIVE UpdateResult(_, _, _)
UpdateResult(graph, keep, node) ==
    LET path == StreeLabels(graph, node)
    IN  IF path \in keep.visited THEN keep
        ELSE FoldLeft(LAMBDA k, child :
                         LET updated == UpdateResult(graph, k, child)
                         IN  IF Kept(graph, updated, child)
                             THEN [updated EXCEPT !.result = (path :> TRUE) @@ @] ELSE updated,
                      [keep EXCEPT !.visited = @ \union {path}], StreeChildren(graph, node))

\* Mutant of UpdateUntilStable: one iteration is taken to be enough.
UpdateOnce(graph, keep, root) == UpdateResult(graph, [keep EXCEPT !.visited = {}], root)

RECURSIVE UpdateUntilStable(_, _, _)
UpdateUntilStable(graph, keep, root) ==
    LET next == UpdateResult(graph, [keep EXCEPT !.visited = {}], root)
    IN  IF DOMAIN next.result = DOMAIN keep.result THEN next
        ELSE UpdateUntilStable(graph, next, root)

EvaluateNodesToKeep(graph, root) ==
    LET nothing == [visited |-> {}, result |-> <<>>, metadata |-> <<>>]
    IN  UpdateUntilStable(graph, ApplyPredicate(graph, nothing, root), root)

NoStree == [known |-> FALSE]
Pruned == [known |-> TRUE, root |-> <<>>]

\* The function prune inside Prune; st is the paths visited and the children of the nodes.
RECURSIVE PruneChildren(_, _, _, _)
PruneChildren(graph, keep, st, node) ==
    LET path == StreeLabels(graph, node)
        kept == SelectSeq(StreeChildren(graph, node), LAMBDA child : Kept(graph, keep, child))
    IN  IF path \in st.visited THEN st
        ELSE FoldLeft(LAMBDA s, child : PruneChildren(graph, keep, s, child),
                      [visited |-> st.visited \union {path},
                       children |-> [st.children EXCEPT ![node] = kept]], kept)

Prune(graph, root) ==
    LET keep == EvaluateNodesToKeep(graph, root)
        nodes == StreeNodes(graph, root)
        whole == [visited |-> {}, children |-> [n \in nodes |-> StreeChildren(graph, n)]]
    IN  IF ~Kept(graph, keep, root) THEN Pruned
        ELSE [known |-> TRUE, root |-> root, graph |-> graph,
              metadata |-> keep.metadata @@ [n \in nodes |-> graph[Last(n)].full],
              children |-> PruneChildren(graph, keep, whole, root).children]

(***************************************************************************)
(* The walk                                                                *)
(***************************************************************************)
Init ==
    /\ \E c \in Cases : tree = c[1] /\ cmd = c[2]
    /\ pc = "start"
    /\ parsed = <<>>
    /\ stree = NoStree
    /\ todo = <<>>
    /\ printed = <<>>
    /\ exit = 0
    /\ failed = {}

\* Main up to the walk
Main ==
    /\ pc = "start"
    /\ LET r == ParseArgs(Args(cmd))
       IN  /\ pc' = CASE r.err = "help" -> "help"
                      [] r.err = "panic" -> "panicked"
                      [] r.err # "none" -> "rejected"
                      [] OTHER -> "next"
           /\ exit' = CASE r.err = "help" -> HelpExit(r.rest)
                        [] r.err = "none" -> 0
                        [] OTHER -> 1
           /\ parsed' = r
    /\ UNCHANGED <<input, stree, todo, printed, failed>>

\* An entry to walk: known and node are SchemaKnown and Schema, nil being <<>>.
Item(entry, depth, path, known, node) ==
    [entry |-> entry, depth |-> depth, path |-> path, known |-> known, node |-> node,
     step |-> IF parsed.opts.depth THEN "list" ELSE "visit"]

NextPath == Head(parsed.paths)
LeavePath == parsed' = [parsed EXCEPT !.paths = Tail(@)]

\* Walk: info, schema, Prune
Walk ==
    /\ pc = "next"
    /\ parsed.paths # <<>>
    /\ NextPath \in DOMAIN tree.starts
    /\ LET start == tree.starts[NextPath]
       IN  /\ ~SchemaFails(start.origin)
           /\ stree' = IF HasSchema(start.origin) THEN Prune(Graph(start), Root(start)) ELSE NoStree
           /\ todo' = IF ~stree'.known /\ SchemaRequired(parsed.p) THEN <<>>
                      ELSE <<Item(start.entry, 0, NextPath[2], stree'.known,
                                  IF stree'.known THEN stree'.root ELSE <<>>)>>
    /\ pc' = "walk"
    /\ UNCHANGED <<input, parsed, printed, exit, failed>>

\* Walk returns false when the entry is not there, or info or schema fails.
WalkFails ==
    /\ pc = "next"
    /\ parsed.paths # <<>>
    /\ ~CanFail /\ NextPath \in DOMAIN tree.starts => SchemaFails(tree.starts[NextPath].origin)
    /\ LeavePath
    /\ exit' = 1
    /\ failed' = failed \union {<<"walk", NextPath[2]>>}
    /\ UNCHANGED <<input, pc, stree, todo, printed>>

Item1 == Head(todo)
Entry == tree.entries[Item1.entry]

\* The entry after it was visited: its children are next, unless they came before it.
AfterVisit == IF parsed.opts.depth THEN Tail(todo) ELSE [todo EXCEPT ![1].step = "list"]

\* Whether visit gets past the depth and the schema
Considered ==
    /\ Item1.depth >= parsed.opts.mindepth
    /\ Item1.known => /\ Item1.node # <<>>
                      /\ SchemaHolds(SchemaP(parsed.p),
                                     SchemaRecord(stree.graph, Item1.node, stree.metadata[Item1.node]))

FetchesMetadata ==
    /\ HasMeta(parsed.p)
    /\ parsed.opts.fullmeta
    /\ Item1.known => stree.metadata[Item1.node] # <<>>

\* The entry as the predicate sees it
EntryRecord ==
    [cname |-> Entry.cname, path |-> Item1.path, attributes |-> Entry.attributes,
     actions |-> Entry.actions, hasSchema |-> Item1.node # <<>>,
     metadata |-> IF FetchesMetadata THEN Entry.full ELSE Entry.partial]

Included == Considered /\ EntryHolds(parsed.p, EntryRecord, ReferenceTime)

Visit ==
    /\ pc = "walk"
    /\ todo # <<>>
    /\ Item1.step = "visit"
    /\ printed' = IF Included THEN Append(printed, Item1.path) ELSE printed
    /\ todo' = AfterVisit
    /\ UNCHANGED <<input, pc, parsed, stree, exit, failed>>

\* conn.Metadata fails; the walk goes on.
VisitFails ==
    /\ CanFail
    /\ pc = "walk"
    /\ todo # <<>>
    /\ Item1.step = "visit"
    /\ Considered
    /\ FetchesMetadata
    /\ exit' = 1
    /\ failed' = failed \union {<<"metadata", Item1.path>>}
    /\ todo' = AfterVisit
    /\ UNCHANGED <<input, pc, parsed, stree, printed>>

Descends == Item1.depth + 1 <= parsed.opts.maxdepth /\ "list" \in Entry.actions

\* The end of the traversal by the schema
NoChildrenLeft == Item1.known /\ (Item1.node = <<>> \/ stree.children[Item1.node] = <<>>)

\* list: the children in the order of the response
ListedChildren == SetToSortSeq({c \in DOMAIN tree.entries : tree.entries[c].parent = Item1.entry},
                               LAMBDA c, d : tree.entries[c].rank < tree.entries[d].rank)

\* GetChild: nil if the type was pruned
ChildSchema(type) ==
    LET nodes == {n \in Range(stree.children[Item1.node]) : Last(n) = type}
    IN  IF Item1.known /\ nodes # {} THEN CHOOSE n \in nodes : TRUE ELSE <<>>

ChildItems ==
    [i \in DOMAIN ListedChildren |->
        LET child == tree.entries[ListedChildren[i]]
        IN  Item(ListedChildren[i], Item1.depth + 1, Item1.path \o "/" \o child.cname, Item1.known,
                 IF Item1.known THEN ChildSchema(child.type) ELSE <<>>)]

\* The entry after its children were listed
AfterList == IF parsed.opts.depth THEN <<[Item1 EXCEPT !.step = "visit"]>> ELSE <<>>

List ==
    /\ pc = "walk"
    /\ todo # <<>>
    /\ Item1.step = "list"
    /\ todo' = (CASE ~Descends -> AfterList
                  [] NoChildrenLeft -> <<>>
                  [] OTHER -> ChildItems \o AfterList) \o Tail(todo)
    /\ UNCHANGED <<input, pc, parsed, stree, printed, exit, failed>>

\* conn.List fails; the walk goes on.
ListFails ==
    /\ CanFail
    /\ pc = "walk"
    /\ todo # <<>>
    /\ Item1.step = "list"
    /\ Descends
    /\ ~NoChildrenLeft
    /\ exit' = 1
    /\ failed' = failed \union {<<"list", Item1.path>>}
    /\ todo' = AfterList \o Tail(todo)
    /\ UNCHANGED <<input, pc, parsed, stree, printed>>

Walked ==
    /\ pc = "walk"
    /\ todo = <<>>
    /\ pc' = "next"
    /\ stree' = NoStree
    /\ LeavePath
    /\ UNCHANGED <<input, todo, printed, exit, failed>>

Return ==
    /\ pc = "next"
    /\ parsed.paths = <<>>
    /\ pc' = "done"
    /\ UNCHANGED <<input, parsed, stree, todo, printed, exit, failed>>

Ended == pc \in {"help", "rejected", "panicked", "done"} /\ UNCHANGED vars

Next == Main \/ Walk \/ WalkFails \/ Visit \/ VisitFails \/ List \/ ListFails \/ Walked
        \/ Return \/ Ended

Spec == Init /\ [][Next]_vars

(***************************************************************************)
(* Properties.  What is expected is said of the command line, the entries  *)
(* and the failures alone, never of what was parsed or pruned.             *)
(***************************************************************************)
Reading ==
    IF cmd.expr = <<>> THEN <<"leaf", Anything>> ELSE CHOOSE a \in Readings(cmd.expr) : TRUE

IntendedPaths ==
    LET paths == SelectSeq(cmd.paths, LAMBDA t : t # <<"", "">>)
    IN  IF paths = <<>> THEN <<<<"", ".">>>> ELSE paths

\* The entry at a path; node is its place in the stree that is not pruned.
Described(entry, path, start, node) ==
    LET e == tree.entries[entry]
        known == HasSchema(start.origin)
    IN  [cname |-> e.cname, path |-> path, attributes |-> e.attributes, actions |-> e.actions,
         metadata |-> IF cmd.opts.fullmeta THEN e.full ELSE e.partial,
         kind |-> IF known THEN Tail(StreeLabels(Graph(start), node)) ELSE <<>>]

ChildrenOf(entry) ==
    SetToSortSeq({c \in DOMAIN tree.entries : tree.entries[c].parent = entry},
                 LAMBDA c, d : tree.entries[c].rank < tree.entries[d].rank)

RECURSIVE ExpectedBelow(_, _, _, _, _, _)
ExpectedBelow(reading, entry, depth, path, start, node) ==
    LET ref == IF cmd.opts.daystart THEN Now - (Now % Day) ELSE Now
        kids == ChildrenOf(entry)
        here == IF /\ depth >= cmd.opts.mindepth
                   /\ <<"metadata", path>> \notin failed
                   /\ Says(reading, Described(entry, path, start, node), ref, FALSE)
                THEN <<path>> ELSE <<>>
        below == IF /\ depth < cmd.opts.maxdepth
                    /\ "list" \in tree.entries[entry].actions
                    /\ <<"list", path>> \notin failed
                 THEN FlattenSeq([i \in DOMAIN kids |->
                        LET child == tree.entries[kids[i]]
                        IN  ExpectedBelow(reading, kids[i], depth + 1, path \o "/" \o child.cname,
                                          start, ChildNode(node, child.type))])
                 ELSE <<>>
    IN  IF cmd.opts.depth THEN below \o here ELSE here \o below

\* What find should have printed when it is done
Expected ==
    FlattenSeq([i \in DOMAIN IntendedPaths |->
        LET path == IntendedPaths[i]
            start == tree.starts[path]
        IN  IF <<"walk", path[2]>> \in failed THEN <<>>
            ELSE ExpectedBelow(Reading, start.entry, 0, path[2], start,
                               IF HasSchema(start.origin) THEN Root(start) ELSE <<>>)])

\* The variables range over what the command and the server hold.
TypeOK ==
    /\ <<tree, cmd>> \in Cases
    /\ pc \in {"start", "next", "walk", "help", "rejected", "panicked", "done"}
    /\ stree.known \in BOOLEAN
    /\ \A i \in DOMAIN todo : /\ todo[i].entry \in DOMAIN tree.entries
                              /\ todo[i].step \in {"visit", "list"}
                              /\ todo[i].node # <<>> => todo[i].node \in DOMAIN stree.children
    /\ exit \in {0, 1}
    /\ failed \subseteq ({"walk", "list", "metadata"} \X STRING)

\* A command line is accepted exactly if its flags are valid and its expression has a
\* derivation (parse.go, parser/expression); a parenthesis that follows a metadata expression
\* belongs to it (parser.go:182).
AcceptsGrammar ==
    /\ pc = "rejected" => \/ cmd.opts = <<>>
                          \/ cmd.expr # <<>> /\ Readings(cmd.expr) = {}
                          \/ Commits(cmd.expr)
    /\ pc \in {"next", "walk", "done"} =>
            cmd.opts # <<>> /\ (cmd.expr # <<>> => Readings(cmd.expr) # {})

\* find does not panic (parse.go, primary/meta).
NoPanic == pc # "panicked"

\* find prints exactly the entries that satisfy the expression within the depths, parents
\* before or after their children as asked, leaving out only what calls that failed hide, and
\* its exit code says whether one did (walker.go, main.go); skipping by schema loses nothing.
FindExact ==
    pc = "done" => printed = Expected /\ exit = (IF failed = {} THEN 0 ELSE 1)

\* The pruned stree keeps exactly the nodes that satisfy the predicate's schema predicate or
\* lead to one that does (types/entrySchema.go), although types may lead back to each other.
PruneExact ==
    pc = "walk" /\ stree.known =>
        LET start == tree.starts[NextPath]
            graph == Graph(start)
            Hopeful(node) ==
                \E n \in StreeNodes(graph, node) :
                    SchemaHolds(SchemaP(parsed.p),
                                SchemaRecord(graph, n, MetadataSchema(graph[Last(n)])))
            nodes == {n \in StreeNodes(graph, Root(start)) : \A i \in DOMAIN n : Hopeful(SubSeq(n, 1, i))}
        IN  IF Hopeful(Root(start))
            THEN /\ stree.root = Root(start)
                 /\ \A n \in nodes : stree.children[n] = SelectSeq(StreeChildren(graph, n), Hopeful)
            ELSE stree.root = <<>>

\* The types that c leads to
RECURSIVE ClassesFrom(_, _, _)
ClassesFrom(classes, frontier, seen) ==
    IF frontier \subseteq seen THEN seen
    ELSE ClassesFrom(classes,
                     UNION {IF "list" \in classes[c].actions THEN Range(classes[c].children) ELSE {} :
                               c \in frontier},
                     seen \union frontier)

\* The schema graph of a core entry has the entry's type first, and is the graph of the types
\* that ChildSchemas leads to, each with all of its children, although types may lead back to
\* each other (entrySchema.go:266); the registry's has all that the graphs of the roots have.
GraphExact ==
    \A path \in DOMAIN tree.starts :
        LET origin == tree.starts[path].origin
            Exact(graph, o) ==
                LET reached == ClassesFrom(o.classes, {o.class}, {})
                IN  /\ \A c \in reached :
                          /\ TypeID(o.plugin, c) \in TypesIn(graph)
                          /\ GetSchema(graph, TypeID(o.plugin, c)).children =
                                IF "list" \notin o.classes[c].actions THEN <<>>
                                ELSE [i \in DOMAIN o.classes[c].children |->
                                        TypeID(o.plugin, o.classes[c].children[i])]
                    /\ {t \in TypesIn(graph) : t[1] = o.plugin} = {TypeID(o.plugin, c) : c \in reached}
        IN  CASE origin.kind = "core" ->
                    /\ SchemaGraph(origin)[1][1] = TypeID(origin.plugin, origin.class)
                    /\ Exact(SchemaGraph(origin), origin)
              [] origin.kind = "registry" /\ ~SchemaFails(origin) ->
                    LET graph == SchemaGraph(origin)
                    IN  /\ graph[1][1] = RegistryType
                        /\ Len(graph[1][2].children) = Len(origin.roots)
                        /\ \A i \in DOMAIN origin.roots :
                              LET root == origin.roots[i]
                              IN  IF root.kind = "core"
                                  THEN Exact(graph, root) /\ graph[1][2].children[i] = TypeID(root.plugin, root.class)
                                  ELSE graph[1][2].children[i] \in TypesIn(graph)
              [] OTHER -> TRUE
=============================================================================
