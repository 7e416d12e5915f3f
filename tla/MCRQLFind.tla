----------------------------- MODULE MCRQLFind -----------------------------
(* Trees and queries for RQLFind. *)
EXTENDS RQLFind

MCActions == {"list", "read", "write", "stream", "exec", "delete", "signal"}
MCUpper == [foo |-> "FOO", Foo |-> "FOO", tags |-> "TAGS"] @@ ("" :> "")
MCNumbers == -1..2
MCTimes == [day1 |-> 1, day2 |-> 2]
MCGlobs == ("*" :> {"a", "b", "c", "day1", "dir", "file"})
           @@ ("*file" :> {"file", "dir/file", "dir/sub/file"})
MCRegexes == ("^d" :> {"dir", "dir/file", "dir/sub", "dir/sub/file", "day1", "day2"})
MCRank == [a |-> 1, b |-> 2, c |-> 3, d |-> 4]

Num(n) == <<"num", n>>
Bool(b) == <<"bool", b>>
Null == <<"null">>

(* Metadata and its schemas *)
Count(n) == <<"obj", [foo |-> Num(n)]>>
WithTags == <<"obj", [foo |-> Num(1), tags |-> Arr(<<Str("day1"), Str("b")>>)]>>
NoTags == <<"obj", [foo |-> Num(2), tags |-> Arr(<<>>)]>>
Nested == <<"obj", [Foo |-> Arr(<<Count(2)>>)]>>

Primitives(t) == <<"primitive", t>>
CountSchema == <<"object", [foo |-> Primitives("num")], TRUE, {"foo"}>>
TagsSchema == <<"object", [foo |-> Primitives("num"), tags |-> <<"array", Primitives("str"), 0>>],
                TRUE, {"foo"}>>
NestedSchema == <<"object", [Foo |-> <<"array", CountSchema, 1>>], TRUE, {"Foo"}>>

AnEntry(parent, cname, type, actions, partial, full) ==
    [parent |-> parent, cname |-> cname, name |-> cname, type |-> type, actions |-> actions,
     partial |-> partial, full |-> full, size |-> IF type = "file" THEN 1 ELSE 0,
     atime |-> 0, crtime |-> 1, ctime |-> 2, mtime |-> IF type = "file" THEN 2 ELSE 1]

AType(label, children, actions, partial, full) ==
    [label |-> label, children |-> children, actions |-> actions,
     partial |-> partial, full |-> full]

(* Directories and files; the types dir and sub lead to each other. *)
FsEntries ==
    [start |-> AnEntry("", "d", "vol", {"list"}, Count(1), Count(1)),
     d1 |-> AnEntry("start", "b", "dir", {"list", "delete"}, Count(1), NoTags),
     d2 |-> AnEntry("d1", "a", "sub", {"list"}, Count(1), Nested),
     d3 |-> AnEntry("d2", "c", "dir", {"list", "delete"}, Count(2), WithTags),
     f1 |-> AnEntry("d1", "c", "file", {"read", "exec"}, WithTags, WithTags),
     f2 |-> AnEntry("start", "a", "file", {"read", "exec"}, Null, NoTags),
     f3 |-> AnEntry("d3", "a", "file", {"read", "exec"}, Count(1), WithTags)]

FsGraph ==
    [vol |-> AType("vol", <<"dir", "file">>, {"list"}, CountSchema, <<>>),
     dir |-> AType("dir", <<"sub", "file">>, {"list", "delete"}, CountSchema, TagsSchema),
     sub |-> AType("sub", <<"dir">>, {"list"}, CountSchema, NestedSchema),
     file |-> AType("file", <<>>, {"read", "exec"}, <<>>, TagsSchema)]

FsTree == [start |-> "start", type |-> "vol", hasSchema |-> TRUE, graph |-> FsGraph,
           entries |-> FsEntries]

(* An external plugin without schemas, a file as the start entry *)
ExternalTree == [FsTree EXCEPT !.hasSchema = FALSE]
FileTree == [FsTree EXCEPT !.start = "f1", !.type = "file"]

(* A type with the label of the start entry: its child bar has the path that the start entry's
   child bar has before pruning shortens it. *)
EchoTree ==
    [start |-> "start", type |-> "top", hasSchema |-> TRUE,
     graph |-> [top |-> AType("foo", <<"dir", "file">>, {"list"}, <<>>, <<>>),
                dir |-> AType("foo", <<"sub">>, {"list"}, <<>>, <<>>),
                sub |-> AType("bar", <<>>, {"read"}, <<>>, <<>>),
                file |-> AType("bar", <<>>, {"read", "exec"}, <<>>, <<>>)],
     entries |-> [start |-> AnEntry("", "d", "top", {"list"}, Null, Null),
                  f1 |-> AnEntry("start", "a", "file", {"read", "exec"}, Null, Null)]]

(* The registry with an external plugin that has no schema: a stub without children *)
RegistryTree ==
    [start |-> "start", type |-> "mountpoint", hasSchema |-> TRUE,
     graph |-> [mountpoint |-> AType("mountpoint", <<"plugin">>, {"list"}, <<>>, <<>>),
                plugin |-> AType("a", <<>>, {"list"}, <<>>, <<>>)],
     entries |-> [start |-> AnEntry("", "d", "mountpoint", {"list"}, Null, Null),
                  root |-> AnEntry("start", "a", "plugin", {"list"}, Null, Null),
                  f1 |-> AnEntry("root", "b", "file", {"read"}, Null, Null)]]

FindTrees == {FsTree, ExternalTree, FileTree}
SchemaTrees == {FsTree}
OddTrees == {EchoTree, RegistryTree}

(* Metadata conforms to the schemas of its type. *)
ASSUME \A e \in DOMAIN FsEntries :
    LET type == FsGraph[FsEntries[e].type]
    IN  /\ type.partial # <<>> => Validate(type.partial, FsEntries[e].partial)
        /\ type.full # <<>> => Validate(type.full, FsEntries[e].full)

FindOptions ==
    {[mindepth |-> 0, maxdepth |-> 9, fullmeta |-> FALSE],
     [mindepth |-> 0, maxdepth |-> 9, fullmeta |-> TRUE],
     [mindepth |-> 2, maxdepth |-> 3, fullmeta |-> TRUE],
     [mindepth |-> 0, maxdepth |-> 0, fullmeta |-> FALSE]}

(* Queries *)
Pair(name, argument) == Arr(<<Str(name), argument>>)
Not(p) == Pair("NOT", p)
Both(op, p, q) == Arr(<<Str(op), p, q>>)
Connect(ps) == {Both(op, p, q) : op \in {"AND", "OR"}, p \in ps, q \in ps}
Negatable(ps) == ps \union {Not(p) : p \in ps} \union Connect(ps)
                 \union {Not(p) : p \in Connect(ps)} \union {Not(Not(p)) : p \in ps}

NumberTests == {Pair("<", Num(2)), Pair("!=", Str("1"))}
StringTests == {Pair("glob", Str("*")), Pair("regex", Str("^d")), Pair("=", Str("b"))}
TimeTests == {Pair(">", Str("day1")), Pair("<=", Num(0))}

Key(k, p) == Pair("object", Arr(<<Arr(<<Str("key"), Str(k)>>), p>>))
Elements(selector, p) == Pair("array", Arr(<<selector, p>>))

ValueTests ==
    {Null, Bool(TRUE), Pair("number", Pair("<", Num(2))), Pair("time", Pair(">", Num(1))),
     Pair("string", Not(Pair("=", Str("b"))))}
Collections ==
    {Elements(Str("some"), Pair("time", Pair("=", Num(1)))),
     Elements(Str("all"), Pair("string", Pair("glob", Str("*")))),
     Elements(Num(0), Key("foo", Pair("number", Pair("=", Num(2))))),
     Pair("array", Pair("size", Pair(">=", Num(1)))),
     Pair("object", Pair("size", Pair("=", Num(1))))}

(* NOT over a connective whose operands differ in their schema predicates once it is pushed to them *)
Mixed == {Not(Both(op, Not(p), q)) : op \in {"AND", "OR"}, p \in Collections, q \in Collections}

MetaQueries ==
    {Pair("meta", Key(k, p)) : k \in {"foo", "tags"},
                               p \in Negatable(ValueTests \union Collections) \union Mixed}
    \union {Pair("meta", Pair("object", Pair("size", Not(Pair("=", Num(1))))))}
    \union {Pair("meta", p) : p \in Connect({Key("Foo", Pair("number", Pair("=", Num(1)))),
                                             Key("tags", Not(Null))})}

PlainQueries ==
    {Pair("name", p) : p \in Negatable(StringTests)}
    \union {Pair(attribute, p) : attribute \in {"atime", "crtime", "ctime", "mtime"},
                                 p \in Negatable(TimeTests)}
    \union {Pair("size", p) : p \in Negatable(NumberTests)}
    \union {Pair("path", Pair("=", Str("b/c"))), Pair("cname", Pair("=", Str("a"))),
            Bool(TRUE), Bool(FALSE), <<"empty">>}

SchemaQueries ==
    {Pair("kind", Pair("glob", Str("*file"))), Pair("kind", Pair("regex", Str("^d"))),
     Pair("kind", Not(Pair("=", Str("dir/sub")))), Pair("action", Str("exec")),
     Pair("action", Str("delete")), Pair("action", Both("OR", Str("exec"), Str("delete"))),
     Pair("action", Str("write"))}

(* Combinations that the entry predicates and the schema predicates decide alike *)
MixedQueries ==
    Connect(SchemaQueries)
    \union {Both("AND", p, q) : p \in SchemaQueries,
               q \in {Pair("name", Pair("=", Str("a"))),
                      Pair("meta", Key("tags", Elements(Str("some"), Pair("string", Pair("=", Str("b"))))))}}

(* A query with a part dropped, added or replaced *)
DamageHere(j) ==
    IF j[1] # "arr" \/ j[2] = <<>> THEN {<<"obj", <<>>>>}
    ELSE {Arr(Front(j[2])), Arr(Append(j[2], Null)), Arr(<<Str("x")>> \o Tail(j[2])),
          Arr(<<Num(-1)>> \o Tail(j[2])), Arr(Append(Front(j[2]), Num(-1))), Arr(<<>>)}
Damage(j) ==
    DamageHere(j) \union
    (IF j[1] # "arr" THEN {}
     ELSE {Arr([j[2] EXCEPT ![i] = d]) : i \in DOMAIN j[2], d \in UNION {DamageHere(j[2][k]) : k \in DOMAIN j[2]}})
Damaged ==
    UNION {Damage(j) : j \in SchemaQueries \union {Bool(TRUE), Pair("size", Not(Pair("<", Num(1)))),
        Both("AND", Bool(TRUE), Pair("mtime", Pair("<", Num(1)))),
        Pair("meta", Key("foo", Pair("number", Pair("<", Num(2))))),
        Pair("meta", Pair("object", Pair("size", Pair("<", Num(2)))))}}
    \union {Pair("meta", Key("foo", d)) : d \in UNION {Damage(j) : j \in ValueTests \union Collections}}
    \union {Not(Bool(TRUE)), Both("AND", Bool(TRUE), Not(Bool(TRUE))),
            Pair("meta", Not(Key("foo", Null)))}

(* Where docs/_docs/rql.md and the code disagree: the action "signal" (rql.md:93-99), and a key
   as the grammar writes it (rql.md:112) *)
DocumentedQueries ==
    {Pair("action", Str("signal")),
     Pair("meta", Pair("object", Arr(<<Pair("key", Pair("=", Str("foo"))), Null>>)))}

FindQueries ==
    MetaQueries \union PlainQueries \union SchemaQueries \union MixedQueries \union Damaged
    \union DocumentedQueries

(* Queries that the code does not evaluate as documented *)
ActionQueries == {Pair("action", p) : p \in Negatable({Str("list"), Str("delete")})}
KindQueries == {Both("OR", Pair("kind", Pair("glob", Str("*file"))), Pair("name", Pair("=", Str("b"))))}
TimeQueries == {Pair("mtime", Pair("!=", Num(1)))}
IndexQueries == {Pair("meta", Key("tags", Elements(Num(2), Null)))}
KeyQueries == {Pair("meta", Key("", Null))}
AllQueries == {Both("OR", Pair("action", Str("exec")),
                    Pair("meta", Key("tags", Elements(Str("all"), Key("foo", Null)))))}
WriteQueries == {Pair("action", Str("write"))}
OddQueries ==
    ActionQueries \union KindQueries \union TimeQueries \union IndexQueries \union KeyQueries
    \union AllQueries \union WriteQueries \union DocumentedQueries
TreeQueries == {Pair("action", Str("exec")), Bool(TRUE)}
=============================================================================
