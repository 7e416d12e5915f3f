--------------------------- MODULE FindPredicate ---------------------------
(***************************************************************************)
(* The predicates of `wash find` (cmd/internal/find/types and primary):    *)
(* what they say of an entry, how they are negated, and the schema         *)
(* predicates that let the walk skip entries.                              *)
(*                                                                         *)
(* A predicate is a tuple tagged with its constructor, a JSON value and a  *)
(* metadata schema are as in RQL.  Numbers are integers, times are seconds.*)
(***************************************************************************)
EXTENDS Integers, Sequences, SequencesExt, FiniteSetsExt, TLC

CONSTANTS
    Actions,    \* the names in plugin.Actions()
    Upper,      \* strings.ToUpper, on the keys in use
    Globs,      \* globs that are not literal, each with the strings it matches
    Times       \* the strings that parse as times, with the time

JSON == INSTANCE RQL WITH Regexes <- <<>>, Numbers <- {}

\* glob.Match; a token that is not a word is a pattern that matches none of the names here.
GlobMatch(g, s) ==
    g[1] = "" /\ IF g[2] \in DOMAIN Globs THEN s \in Globs[g[2]] ELSE s = g[2]

\* What numeric.ParsePredicate returns, on a number
Compare(cmp, v, n) == CASE cmp = "+" -> v > n [] cmp = "-" -> v < n [] OTHER -> v = n

Day == 86400
CeilDiv(n, d) == -((-n) \div d)

(***************************************************************************)
(* Metadata predicates: <<"and" | "or", p, q>>, <<"object", key, p>>,      *)
(* <<"array", selector, p>> and <<"leaf", kind, argument, negated, ks>>,   *)
(* ks being the key sequence of the leaf's schema predicate.               *)
(***************************************************************************)
Leaf(kind, arg) == <<"leaf", kind, arg, FALSE, <<>>>>

\* updateKS: a segment in front of every key sequence below p
RECURSIVE UpdateKS(_, _)
UpdateKS(segment, p) ==
    CASE p[1] \in {"and", "or"} -> <<p[1], UpdateKS(segment, p[2]), UpdateKS(segment, p[3])>>
      [] p[1] \in {"object", "array"} -> <<p[1], p[2], UpdateKS(segment, p[3])>>
      [] OTHER -> [p EXCEPT ![5] = <<segment>> \o @]

ObjectP(key, p) == <<"object", key, UpdateKS(<<"key", Upper[key]>>, p)>>
ArrayP(selector, p) == <<"array", selector, UpdateKS(<<"elem">>, p)>>

NegateSelector(selector) ==
    CASE selector = <<"some">> -> <<"all">>
      [] selector = <<"all">> -> <<"some">>
      [] OTHER -> selector

\* The null predicate shares its schema predicate with its negation.
NegateLeaf(p) ==
    <<"leaf", p[2], p[3], ~p[4], IF p[2] = "null" THEN p[5] ELSE <<>>>>

RECURSIVE NegateMeta(_)
NegateMeta(p) ==
    CASE p[1] = "and" -> <<"or", NegateMeta(p[2]), NegateMeta(p[3])>>
      [] p[1] = "or" -> <<"and", NegateMeta(p[2]), NegateMeta(p[3])>>
      [] p[1] = "object" -> ObjectP(p[2], NegateMeta(p[3]))
      [] p[1] = "array" -> ArrayP(NegateSelector(p[2]), NegateMeta(p[3]))
      [] OTHER -> NegateLeaf(p)

(***************************************************************************)
(* The leaves.  A value of another type, or a time on the other side of    *)
(* the reference time, satisfies neither a leaf nor its negation.          *)
(***************************************************************************)
NullP(v, negated) == (v = <<"null">>) # negated
ExistsP(v, negated) == (v # <<"null">>) # negated
BooleanP(b, v, negated) == v[1] = "bool" /\ (v[2] = b) # negated
NumericP(arg, v, negated) == v[1] = "num" /\ Compare(arg.cmp, v[2], arg.n) # negated
StringP(str, v, negated) == v[1] = "str" /\ (v[2] = str) # negated
EmptyP(v, negated) == v[1] \in {"obj", "arr"} /\ (v[2] = <<>>) # negated

\* The seconds back from the reference time, or {...} ahead of it
TimeP(arg, v, ref, negated) ==
    \E t \in JSON!ToTime(v) :
        LET diff == IF arg.future THEN t - ref ELSE ref - t
        IN  diff >= 0 /\ Compare(arg.cmp, diff, arg.n) # negated

LeafHolds(kind, arg, v, ref, negated) ==
    CASE kind = "null" -> NullP(v, negated)
      [] kind = "exists" -> ExistsP(v, negated)
      [] kind = "boolean" -> BooleanP(arg, v, negated)
      [] kind = "numeric" -> NumericP(arg, v, negated)
      [] kind = "time" -> TimeP(arg, v, ref, negated)
      [] kind = "string" -> StringP(arg, v, negated)
      [] OTHER -> EmptyP(v, negated)

MatchingKeys(object, key) == {k \in DOMAIN object : Upper[k] = Upper[key]}

RECURSIVE MetaHolds(_, _, _)

ObjectHolds(key, p, v, ref) ==
    /\ v[1] = "obj"
    /\ MatchingKeys(v[2], key) # {}
    /\ MetaHolds(p, v[2][CHOOSE k \in MatchingKeys(v[2], key) : TRUE], ref)

ArrayHolds(selector, p, v, ref) ==
    /\ v[1] = "arr"
    /\ CASE selector = <<"some">> -> \E i \in DOMAIN v[2] : MetaHolds(p, v[2][i], ref)
         [] selector = <<"all">> -> \A i \in DOMAIN v[2] : MetaHolds(p, v[2][i], ref)
         [] OTHER -> selector[2] < Len(v[2]) /\ MetaHolds(p, v[2][selector[2] + 1], ref)

MetaHolds(p, v, ref) ==
    CASE p[1] = "and" -> MetaHolds(p[2], v, ref) /\ MetaHolds(p[3], v, ref)
      [] p[1] = "or" -> MetaHolds(p[2], v, ref) \/ MetaHolds(p[3], v, ref)
      [] p[1] = "object" -> ObjectHolds(p[2], p[3], v, ref)
      [] p[1] = "array" -> ArrayHolds(p[2], p[3], v, ref)
      [] OTHER -> LeafHolds(p[2], p[3], v, ref, p[4])

(***************************************************************************)
(* Schema predicates of metadata predicates: <<"and" | "or", s, t>>,       *)
(* <<"value", ends, ks>>, true if ks may end with one of ends, and         *)
(* <<"exists", ks, negated>>.                                              *)
(***************************************************************************)
Ends == [object |-> <<"obj", <<>>>>, array |-> <<"arr", <<>>>>, primitive |-> <<"null">>]

RECURSIVE MetaSchemaP(_)
MetaSchemaP(p) ==
    CASE p[1] \in {"and", "or"} -> <<p[1], MetaSchemaP(p[2]), MetaSchemaP(p[3])>>
      [] p[1] \in {"object", "array"} -> MetaSchemaP(p[3])
      [] p[2] = "exists" -> <<"exists", p[5], p[4]>>
      [] p[2] = "empty" -> <<"value", {"object", "array"}, p[5]>>
      [] OTHER -> <<"value", {"primitive"}, p[5]>>

RECURSIVE NegateMetaSchemaP(_)
NegateMetaSchemaP(s) ==
    CASE s[1] = "and" -> <<"or", NegateMetaSchemaP(s[2]), NegateMetaSchemaP(s[3])>>
      [] s[1] = "or" -> <<"and", NegateMetaSchemaP(s[2]), NegateMetaSchemaP(s[3])>>
      [] s[1] = "exists" -> <<"exists", <<>>, ~s[3]>>
      [] OTHER -> s

RECURSIVE Munge(_, _)

\* newSchema: keys in upper case, primitive types are null, and of what is required only that
\* something is, as the least number of properties.
Munge(s, existence) ==
    CASE s[1] = "object" ->
            <<"object", [u \in {Upper[k] : k \in DOMAIN s[2]} |->
                            Munge(s[2][CHOOSE k \in DOMAIN s[2] : Upper[k] = u], existence)],
              s[3], IF existence \/ s[4] = {} THEN 0 ELSE 1>>
      [] s[1] = "array" -> <<"array", Munge(s[2], existence), IF existence THEN 0 ELSE s[3]>>
      [] OTHER -> <<"primitive", "null">>

\* gojsonschema.Validate on a munged schema
RECURSIVE Valid(_, _)
Valid(s, v) ==
    CASE s[1] = "object" ->
            /\ v[1] = "obj"
            /\ Cardinality(DOMAIN v[2]) >= s[4]
            /\ s[3] => DOMAIN v[2] \subseteq DOMAIN s[2]
            /\ \A k \in DOMAIN v[2] \cap DOMAIN s[2] : Valid(s[2][k], v[2][k])
      [] s[1] = "array" ->
            /\ v[1] = "arr"
            /\ Len(v[2]) >= s[3]
            /\ \A i \in DOMAIN v[2] : Valid(s[2], v[2][i])
      [] OTHER -> v[1] = "null"

\* ks.toJSON: the segments of ks around its end value
ToJSON(ks, end) ==
    FoldRight(LAMBDA segment, v : IF segment[1] = "key" THEN <<"obj", segment[2] :> v>>
                                  ELSE <<"arr", <<v>>>>, ks, Ends[end])

IsValidKeySequence(schema, ks, ends, existence) ==
    \E end \in ends : Valid(Munge(schema, existence), ToJSON(ks, end))

\* The schema predicate of -exists looks at where a value may be, whatever it is.
ExistsSchemaHolds(s, schema) == IsValidKeySequence(schema, s[2], DOMAIN Ends, TRUE) # s[3]

RECURSIVE MetaSchemaHolds(_, _)
MetaSchemaHolds(s, schema) ==
    CASE s[1] = "and" -> MetaSchemaHolds(s[2], schema) /\ MetaSchemaHolds(s[3], schema)
      [] s[1] = "or" -> MetaSchemaHolds(s[2], schema) \/ MetaSchemaHolds(s[3], schema)
      [] s[1] = "exists" -> ExistsSchemaHolds(s, schema)
      [] OTHER -> IsValidKeySequence(schema, s[3], s[2], FALSE)

(***************************************************************************)
(* Entry predicates.  An entry is a record of its cname, path, attributes, *)
(* actions, metadata and hasSchema (whether Schema is not nil), a schema   *)
(* one of the labels on its path, its actions and its metadata schema.     *)
(***************************************************************************)
\* The predicate of find without an expression
Anything == <<"anything">>

\* Negate; kindP does not keep whether it was negated.
RECURSIVE NegateEntry(_)
NegateEntry(p) ==
    CASE p[1] = "and" -> <<"or", NegateEntry(p[2]), NegateEntry(p[3])>>
      [] p[1] = "or" -> <<"and", NegateEntry(p[2]), NegateEntry(p[3])>>
      [] p[1] = "kind" -> <<"kind", p[2], TRUE>>
      [] OTHER -> <<"not", p>>

RECURSIVE SchemaRequired(_)
SchemaRequired(p) ==
    CASE p[1] = "and" -> SchemaRequired(p[2]) \/ SchemaRequired(p[3])
      [] p[1] = "or" -> SchemaRequired(p[2]) /\ SchemaRequired(p[3])
      [] OTHER -> p[1] = "kind"

\* <<"size", cmp, n, blocks>>, <<"time", attribute, cmp, n, days>>: integers count blocks of
\* 512 bytes and days, rounded up.
SizeHolds(p, e) ==
    /\ "size" \in DOMAIN e.attributes
    /\ Compare(p[2], IF p[4] THEN CeilDiv(e.attributes["size"], 512) ELSE e.attributes["size"],
               p[3])

TimeHolds(p, e, ref) ==
    /\ p[2] \in DOMAIN e.attributes
    /\ LET diff == ref - e.attributes[p[2]]
       IN  Compare(p[3], IF p[5] THEN CeilDiv(diff, Day) ELSE diff, p[4])

NameHolds(p, e) == GlobMatch(p[2], e.cname)
PathHolds(p, e) == GlobMatch(p[2], e.path)
ActionHolds(p, e) == p[2] \in e.actions

RECURSIVE EntryHolds(_, _, _)
EntryHolds(p, e, ref) ==
    CASE p[1] = "and" -> EntryHolds(p[2], e, ref) /\ EntryHolds(p[3], e, ref)
      [] p[1] = "or" -> EntryHolds(p[2], e, ref) \/ EntryHolds(p[3], e, ref)
      [] p[1] = "not" -> ~EntryHolds(p[2], e, ref)
      [] p[1] = "bool" -> p[2]
      [] p[1] = "name" -> NameHolds(p, e)
      [] p[1] = "path" -> PathHolds(p, e)
      [] p[1] = "action" -> ActionHolds(p, e)
      [] p[1] = "kind" -> e.hasSchema
      [] p[1] = "size" -> SizeHolds(p, e)
      [] p[1] = "time" -> TimeHolds(p, e, ref)
      [] p[1] = "meta" -> MetaHolds(p[2], e.metadata, ref)
      [] OTHER -> TRUE

(***************************************************************************)
(* Schema predicates of entry predicates: <<"and" | "or", s, t>>,          *)
(* <<"bool", b>>, <<"action", a>>, <<"kind", glob, negated>>, <<"meta", s>>*)
(* and <<"negated", s>>; <<"agnostic">> is true even when negated.         *)
(***************************************************************************)
RECURSIVE NegateSchemaP(_)
NegateSchemaP(s) ==
    CASE s[1] = "and" -> <<"or", NegateSchemaP(s[2]), NegateSchemaP(s[3])>>
      [] s[1] = "or" -> <<"and", NegateSchemaP(s[2]), NegateSchemaP(s[3])>>
      [] s[1] = "agnostic" -> s
      [] s[1] = "meta" -> <<"meta", NegateMetaSchemaP(s[2])>>
      [] OTHER -> <<"negated", s>>

RECURSIVE SchemaP(_)
SchemaP(p) ==
    CASE p[1] \in {"and", "or"} -> <<p[1], SchemaP(p[2]), SchemaP(p[3])>>
      [] p[1] = "not" -> NegateSchemaP(SchemaP(p[2]))
      [] p[1] \in {"bool", "action", "kind"} -> p
      [] p[1] = "meta" -> <<"meta", MetaSchemaP(p[2])>>
      [] OTHER -> <<"agnostic">>

\* A path of labels as the string that globs match
Join(labels) ==
    FoldLeft(LAMBDA path, label : IF path = "" THEN label ELSE path \o "/" \o label, "", labels)

\* The schema predicate of kind: false on the root of the stree, negated or not
KindHolds(s, schema) ==
    Len(schema.labels) > 1 /\ GlobMatch(s[2], Join(Tail(schema.labels))) # s[3]

\* Any metadata is possible where there is no metadata schema.
MetaPrimarySchemaHolds(s, schema) == schema.metadata # <<>> => MetaSchemaHolds(s[2], schema.metadata)

RECURSIVE SchemaHolds(_, _)
SchemaHolds(s, schema) ==
    CASE s[1] = "and" -> SchemaHolds(s[2], schema) /\ SchemaHolds(s[3], schema)
      [] s[1] = "or" -> SchemaHolds(s[2], schema) \/ SchemaHolds(s[3], schema)
      [] s[1] = "negated" -> ~SchemaHolds(s[2], schema)
      [] s[1] = "bool" -> s[2]
      [] s[1] = "action" -> s[2] \in schema.actions
      [] s[1] = "kind" -> KindHolds(s, schema)
      [] s[1] = "meta" -> MetaPrimarySchemaHolds(s, schema)
      [] OTHER -> TRUE
=============================================================================
