----------------------------- MODULE MCWashFind ----------------------------
(* What servers hold and command lines for WashFind. *)
EXTENDS WashFind

MCActions == {"list", "read", "write", "stream", "exec", "delete", "signal"}
MCUpper == [foo |-> "FOO", Foo |-> "FOO", tags |-> "TAGS", on |-> "ON", when |-> "WHEN", FOO |-> "FOO",
            TAGS |-> "TAGS", ON |-> "ON", WHEN |-> "WHEN"]
MCGlobs == ("*" :> {"a", "b", "c", ".", "dir", "dir/sub", "dir/file", "file"})
           @@ ("*file" :> {"file", "dir/file", "dir/sub/file", "fs/vol/file"})
           @@ ("./*" :> {"./a", "./b", "./b/a", "./b/c", "./b/a/c", "./b/a/c/a"})
MCTimes == [yesterday |-> 86400]
MCBadGlobs == {"[a"}
MCNow == 2 * 86400 + 3600

(* Tokens *)
W(w) == <<"", w>>
D(w) == <<"-", w>>
Bang == <<"op", "!">>
Key(k) == <<"seq", <<<<"key", k>>>>>>
Keys(k, s) == <<"seq", <<<<"key", k>>, <<"elem", s>>>>>>
N(sign, n) == <<"num", sign, <<"int", n>>>>
Cmd(paths, flags, opts, expr) == [paths |-> paths, flags |-> flags, opts |-> opts, expr |-> expr]
Plain(expr) == Cmd(<<>>, <<>>, DefaultOptions, expr)
Full(expr) == Cmd(<<>>, <<D("fullmeta")>>, [DefaultOptions EXCEPT !.fullmeta = TRUE], expr)

(* Metadata and its schemas *)
Bool(b) == <<"bool", b>>
Num(n) == <<"num", n>>
Obj(f) == <<"obj", f>>
Tags(seq) == <<"arr", [i \in DOMAIN seq |-> <<"str", seq[i]>>]>>
Plain1 == Obj([foo |-> Num(1)])
Tagged == Obj([foo |-> Num(3), tags |-> Tags(<<"x", "y">>)])
NoTags == Obj([foo |-> Num(1), tags |-> Tags(<<>>)])
Nested == Obj([Foo |-> <<"arr", <<Plain1, Tagged>>>>])
Prim(t) == <<"primitive", t>>
PlainSchema == <<"object", [foo |-> Prim("num")], TRUE, {"foo"}>>
TaggedSchema == <<"object", [foo |-> Prim("num"), tags |-> <<"array", Prim("str"), 0>>], TRUE, {"foo", "tags"}>>
NestedSchema == <<"object", [Foo |-> <<"array", <<"type", "T">>, 1>>], TRUE, {"Foo"}>>

(* One entry without children, with a boolean in its metadata *)
LeafEntry ==
    [parent |-> "none", cname |-> ".", rank |-> 1, type |-> <<"p", "leaf">>, actions |-> {"read"},
     attributes |-> <<>>, partial |-> Obj([on |-> Bool(TRUE), foo |-> <<"null">>]), full |-> <<"null">>]
LeafTree ==
    [entries |-> [l |-> LeafEntry],
     starts |-> (W(".") :> [entry |-> "l", origin |-> [kind |-> "external", root |-> "p", graph |-> <<"none">>]])]

(* A core plugin: the types dir and sub lead to each other. *)
Class(label, children, actions, partial, full, wraps) ==
    [label |-> label, children |-> children, actions |-> actions, partial |-> partial, full |-> full,
     wraps |-> wraps]
Classes ==
    [vol |-> Class("vol", <<"dir", "file">>, {"list"}, PlainSchema, <<>>, [T |-> TaggedSchema]),
     dir |-> Class("dir", <<"sub", "file">>, {"list", "delete"}, PlainSchema, TaggedSchema, <<>>),
     sub |-> Class("sub", <<"dir">>, {"list"}, NestedSchema, <<>>, <<>>),
     file |-> Class("file", <<>>, {"read", "exec"}, TaggedSchema, <<>>, <<>>)]
Core(class) == [kind |-> "core", plugin |-> "fs", class |-> class, classes |-> Classes]

AnEntry(parent, cname, rank, type, partial, full) ==
    [parent |-> parent, cname |-> cname, rank |-> rank, type |-> <<"fs", type>>,
     actions |-> Classes[type].actions, partial |-> partial, full |-> full,
     attributes |-> IF type = "file" THEN [size |-> 600, mtime |-> 86400 + rank] ELSE [mtime |-> MCNow - 10]]
FsEntries ==
    [start |-> AnEntry("none", ".", 1, "vol", Plain1, Plain1),
     d1 |-> AnEntry("start", "b", 2, "dir", Plain1, Tagged),
     d2 |-> AnEntry("d1", "a", 1, "sub", Nested, Nested),
     d3 |-> AnEntry("d2", "c", 1, "dir", Plain1, NoTags),
     f1 |-> AnEntry("d1", "c", 2, "file", Tagged, Tagged),
     f2 |-> AnEntry("start", "a", 1, "file", NoTags, NoTags),
     f3 |-> AnEntry("d3", "a", 1, "file", Tagged, NoTags)]
FsTree ==
    [entries |-> FsEntries,
     starts |-> (W(".") :> [entry |-> "start", origin |-> Core("vol")])
                @@ (W("b") :> [entry |-> "d1", origin |-> Core("dir")])]

(* The same entries of an external plugin that has no schemas *)
NoSchema(root) == [kind |-> "external", root |-> root, graph |-> <<"none">>]
BareTree ==
    [entries |-> FsEntries,
     starts |-> (W(".") :> [entry |-> "start", origin |-> NoSchema("fs")])
                @@ (W("b") :> [entry |-> "d1", origin |-> NoSchema("fs")])]

(* The registry: the core plugin, an external one with a graph and one without *)
ExternalGraph ==
    <<<<<<"x", "root">>, [Stub EXCEPT !.label = "x", !.actions = {"list"}, !.children = <<<<"x", "item">>>>]>>,
      <<<<"x", "item">>, [Stub EXCEPT !.label = "item", !.actions = {"read"}, !.partial = PlainSchema]>>>>
Mounted(external) ==
    [entries |->
        [reg |-> [AnEntry("none", ".", 1, "vol", <<"null">>, <<"null">>) EXCEPT !.type = RegistryType],
         x |-> [AnEntry("reg", "x", 2, "vol", <<"null">>, <<"null">>) EXCEPT !.type = <<"x", "root">>],
         i |-> [AnEntry("x", "i", 1, "file", Plain1, Plain1) EXCEPT !.type = <<"x", "item">>, !.actions = {"read"}],
         y |-> [AnEntry("reg", "y", 3, "vol", <<"null">>, <<"null">>) EXCEPT !.type = <<"y", "unknown">>]]
        @@ [FsEntries EXCEPT !["start"].parent = "reg", !["start"].cname = "fs"],
     starts |-> (W(".") :> [entry |-> "reg",
                            origin |-> [kind |-> "registry",
                                        roots |-> <<Core("vol"), [kind |-> "external", root |-> "x", graph |-> external],
                                                    NoSchema("y")>>]])]

SeqsUpTo(S, n) == UNION {[1..k -> S] : k \in 0..n}

(* All expressions of up to four tokens, and those after a metadata key *)
ShortEntry == {Plain(e) : e \in SeqsUpTo({D("true"), D("false"), Bang, Open, Close, D("a"), D("o")}, 4)}
ShortMeta ==
    {Plain(<<D("m"), Key("on")>> \o e) : e \in SeqsUpTo({D("true"), D("null"), Bang, Open, Close, D("o"), D("name")}, 4)}
    \union {Plain(<<D("m"), Key("foo")>> \o e) :
               e \in SeqsUpTo({D("null"), Bang, Keys("on", <<"all">>), Key("on"), D("a"), D("false"), W("x")}, 3)}

(* Expressions for the trees *)
Exprs ==
    {<<>>,
     <<D("name"), W("a")>>,
     <<D("path"), W("./*"), D("action"), W("list")>>,
     <<D("kind"), W("*file")>>,
     <<Bang, D("kind"), W("dir")>>,
     <<D("action"), W("exec"), D("o"), D("name"), W("b")>>,
     <<Bang, Open, D("action"), W("exec"), D("o"), D("name"), W("b"), Close>>,
     <<D("size"), N("", 2)>>,
     <<D("mtime"), N("+", 1)>>,
     <<D("mtime"), <<"num", "-", <<"duration", <<<<1, "h">>>>>>>>>>,
     <<D("m"), Key("foo"), N("+", 2)>>,
     <<D("m"), Keys("tags", <<"some">>), W("y")>>,
     <<D("m"), Keys("tags", <<"all">>), Bang, W("x"), D("o"), D("name"), W("c")>>,
     <<D("m"), Key("tags"), D("empty"), D("o"), D("name"), W("a")>>,
     <<D("m"), Keys("FOO", <<"index", 1>>), Key("foo"), N("", 3)>>,
     <<D("m"), Key("foo"), Bang, N("", 1), D("a"), D("name"), W("c")>>}

(* Command lines that stop early or are not valid *)
Odd ==
    {Cmd(<<>>, <<D("h")>>, <<>>, <<>>),
     Cmd(<<W("b")>>, <<D("help"), W("size")>>, <<>>, <<>>),
     Cmd(<<>>, <<D("help"), W("nothing")>>, <<>>, <<>>),
     Cmd(<<>>, <<D("maxdepth")>>, <<>>, <<D("true")>>),
     Cmd(<<>>, <<D("mindepth"), N("-", 1)>>, <<>>, <<>>),
     Cmd(<<>>, <<D("unknown")>>, <<>>, <<>>),
     Cmd(<<W("nowhere"), W("b")>>, <<>>, DefaultOptions, <<D("true")>>),
     Plain(<<D("name"), W("[a")>>), Plain(<<D("action"), W("dance")>>), Plain(<<D("size"), W("x")>>),
     Plain(<<D("mtime"), <<"num", "", <<"open">>>>>>),
     Plain(<<D("m"), <<"seq", <<<<"key", "foo">>, <<"bad">>>>>>, D("null")>>)}

Depths(min, max) == [DefaultOptions EXCEPT !.mindepth = min, !.maxdepth = max]
Flagged ==
    {Cmd(<<W("b"), W("")>>, <<D("mindepth"), N("", 1), D("maxdepth"), N("", 2)>>, Depths(1, 2), <<D("name"), W("c")>>),
     Cmd(<<W("."), W("b")>>, <<D("maxdepth"), N("", 1)>>, Depths(0, 1), <<>>),
     Cmd(<<>>, <<D("maxdepth"), N("-", 1)>>, DefaultOptions, <<D("action"), W("exec")>>),
     Cmd(<<>>, <<D("depth")>>, [DefaultOptions EXCEPT !.depth = TRUE], <<D("path"), W("./*")>>),
     Cmd(<<>>, <<D("daystart")>>, [DefaultOptions EXCEPT !.daystart = TRUE], <<D("mtime"), N("", 1)>>),
     Full(<<D("m"), Keys("tags", <<"some">>), W("x")>>),
     Full(<<D("m"), Key("tags"), D("empty"), D("o"), D("name"), W("b")>>)}

MCCases ==
    ({LeafTree} \X (ShortEntry \union ShortMeta))
    \union ({FsTree, BareTree} \X ({Plain(e) : e \in Exprs} \union Flagged \union Odd))
    \union ({Mounted(ExternalGraph), Mounted(<<"error">>)} \X
            {Plain(<<D("m"), Key("foo"), N("", 1)>>), Plain(<<D("kind"), W("*file")>>), Plain(<<>>)})

(* Cases in which find does not do what is expected of it *)
Precedence4 == {<<LeafTree, Plain(<<D("true"), D("o"), D("false"), D("false"), D("false")>>)>>}
KindOr == {<<FsTree, Plain(<<D("kind"), W("*file"), D("o"), D("name"), W("b")>>)>>}
KindTwice == {<<FsTree, Plain(<<Bang, Bang, D("kind"), W("dir")>>)>>}
DepthPruned == {<<Mounted(ExternalGraph), Cmd(<<>>, <<D("depth")>>, [DefaultOptions EXCEPT !.depth = TRUE],
                                              <<D("kind"), W("x")>>)>>}
NotMeta == {<<FsTree, Plain(<<Bang, D("m"), Key("tags"), D("empty")>>)>>}
BelowBare == {<<[Mounted(ExternalGraph) EXCEPT !.entries["f2"].parent = "y"], Plain(<<D("name"), W("a")>>)>>}
EmptyToken == {<<LeafTree, Plain(<<D("m"), Key("foo"), W("")>>)>>}
LatePath == {<<FsTree, Cmd(<<>>, <<D("mindepth"), N("", 0), W("b")>>, <<>>, <<D("true")>>)>>}
OddCases ==
    KindOr \union KindTwice \union DepthPruned \union NotMeta \union BelowBare \union EmptyToken \union LatePath
=============================================================================
