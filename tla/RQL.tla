-------------------------------- MODULE RQL --------------------------------
(***************************************************************************)
(* The resource query language (api/rql): how a query is unmarshalled from *)
(* JSON and marshalled back, and how it is evaluated on entries, on entry  *)
(* schemas, on metadata values and on metadata schemas.                    *)
(*                                                                         *)
(* A JSON value is a tuple tagged with its type: <<"null">>, <<"bool", b>>,*)
(* <<"num", n>>, <<"str", s>>, <<"arr", seq>>, <<"obj", function>>;        *)
(* <<"time", t>> is a Go time.Time.  A node of the syntax tree is a tuple  *)
(* tagged with its constructor.  Numbers are integers, times are seconds.  *)
(*                                                                         *)
(* Evaluation has three outcomes, because some predicates panic.           *)
(***************************************************************************)
EXTENDS Integers, Sequences, SequencesExt, FiniteSetsExt, TLC

CONSTANTS
    Actions,    \* the names in plugin.Actions()
    Upper,      \* strings.ToUpper, on the keys in use
    Globs,      \* the globs that compile, each with the strings it matches
    Regexes,    \* the same for regular expressions
    Numbers,    \* the numbers that strings in queries may spell
    Times       \* the strings that parse as times, with the time

ComparisonOps == {"<", "<=", ">", ">=", "=", "!="}

Str(s) == <<"str", s>>
Arr(s) == <<"arr", s>>

(***************************************************************************)
(* Unmarshalling.  A MatchError lets a nonterminal try its next node, any  *)
(* other error is final.                                                   *)
(***************************************************************************)
Ok(node) == <<"ok", node>>
MatchError == <<"nomatch">>
Error == <<"error">>
IsOk(r) == r[1] = "ok"
As(tag, r) == IF IsOk(r) THEN Ok(<<tag, r[2]>>) ELSE r

\* NewNonterminalNode(n, ns...) tries ns first and n last.
NonterminalNode(first, rest) ==
    LET results == Append(rest, first)
        i == SelectInSeq(results, LAMBDA r : r # MatchError)
    IN  IF i = 0 THEN MatchError ELSE results[i]

\* matcher.Array(matcher.Value(name))
Headed(j, name) == j[1] = "arr" /\ Len(j[2]) >= 1 /\ j[2][1] = Str(name)

\* The form [name, argument] shared by most nodes; result is what unmarshalling the
\* argument gives.
Tagged(j, name, result) ==
    IF ~Headed(j, name) THEN MatchError
    ELSE IF Len(j[2]) # 2 \/ ~IsOk(result) THEN Error
    ELSE result

UnmarshalAction(j) ==
    IF j[1] = "str" /\ j[2] \in Actions THEN Ok(<<"is", j[2]>>) ELSE MatchError

UnmarshalPattern(j, name, valid, tag) ==
    Tagged(j, name, IF j[2][2][1] = "str" /\ j[2][2][2] \in valid
                    THEN Ok(<<tag, j[2][2][2]>>) ELSE Error)

UnmarshalEqual(j) ==
    Tagged(j, "=", IF j[2][2][1] = "str" THEN Ok(<<"equal", j[2][2][2]>>) ELSE Error)

UnmarshalString(j) ==
    NonterminalNode(UnmarshalPattern(j, "glob", DOMAIN Globs, "glob"),
                    <<UnmarshalPattern(j, "regex", DOMAIN Regexes, "regex"),
                      UnmarshalEqual(j)>>)

\* decimal.NewFromFloat and decimal.NewFromString, as the set of results.
ToNumber(v) ==
    CASE v[1] = "num" -> {v[2]}
      [] v[1] = "str" -> {n \in Numbers : ToString(n) = v[2]}
      [] OTHER -> {}

\* munge.ToTime: seconds up to 0 are the zero time.
ToTime(v) ==
    CASE v[1] = "time" -> {v[2]}
      [] v[1] = "num" -> {IF v[2] <= 0 THEN 0 ELSE v[2]}
      [] v[1] = "str" -> {Times[s] : s \in DOMAIN Times \cap {v[2]}}
      [] OTHER -> {}

\* The form [op, operand] of numeric and time predicates.
Comparison(j, operands) ==
    IF ~(j[1] = "arr" /\ Len(j[2]) >= 1 /\ j[2][1][1] = "str"
         /\ j[2][1][2] \in ComparisonOps)
    THEN MatchError
    ELSE IF Len(j[2]) # 2 \/ operands = {} THEN Error
    ELSE Ok(<<j[2][1][2], CHOOSE n \in operands : TRUE>>)

UnmarshalNumeric(j, unsigned) ==
    Comparison(j, {n \in ToNumber(j[2][2]) : unsigned => n >= 0})

UnmarshalTime(j) == Comparison(j, ToTime(j[2][2]))

UnmarshalBoolean(j) == IF j[1] = "bool" THEN Ok(<<"boolean", j[2]>>) ELSE MatchError
UnmarshalNull(j) == IF j[1] = "null" THEN Ok(<<"null">>) ELSE MatchError

\* expression.New(ptype, negatable, ...).Unmarshal, defined below.
RECURSIVE UnmarshalExpression(_, _, _)

UnmarshalSize(j, tag) ==
    Tagged(j, "size", As(tag, UnmarshalExpression("UnsignedNumericPredicate", TRUE, j[2][2])))

\* An element predicate [selector, value predicate], given its parsed selector.
Element(j, tag, selector) ==
    IF Len(j[2]) # 2 THEN Error
    ELSE LET r == UnmarshalExpression("ValuePredicate", TRUE, j[2][2])
         IN  IF IsOk(r) THEN Ok(<<tag, selector, r[2]>>) ELSE Error

UnmarshalObjectElement(j) ==
    IF j[1] # "arr" \/ Len(j[2]) < 1 THEN MatchError
    ELSE LET selector == j[2][1]
         IN  IF ~Headed(selector, "key") THEN MatchError
             ELSE IF Len(selector[2]) # 2 \/ selector[2][2][1] # "str" THEN Error
             ELSE Element(j, "object", selector[2][2][2])

UnmarshalArrayElement(j) ==
    IF j[1] # "arr" \/ Len(j[2]) < 1 THEN MatchError
    ELSE LET selector == j[2][1]
         IN  CASE selector \in {Str("some"), Str("all")} ->
                     Element(j, "array", <<selector[2]>>)
               [] selector[1] = "num" ->
                     IF selector[2] < 0 THEN Error
                     ELSE Element(j, "array", <<"index", selector[2]>>)
               [] OTHER -> MatchError

\* collectionBase.Unmarshal: the size predicate is tried last.
UnmarshalObject(j) ==
    Tagged(j, "object", NonterminalNode(UnmarshalSize(j[2][2], "objectSize"),
                                        <<UnmarshalObjectElement(j[2][2])>>))

UnmarshalArray(j) ==
    Tagged(j, "array", NonterminalNode(UnmarshalSize(j[2][2], "arraySize"),
                                       <<UnmarshalArrayElement(j[2][2])>>))

\* numericValue, tmValue and stringValue: [type, NPE of the type's predicates]
UnmarshalPrimitive(j, tag, ptype) ==
    Tagged(j, tag, As(tag, UnmarshalExpression(ptype, TRUE, j[2][2])))

UnmarshalValue(j) ==
    NonterminalNode(UnmarshalObject(j),
        <<UnmarshalArray(j), UnmarshalNull(j), UnmarshalBoolean(j),
          UnmarshalPrimitive(j, "number", "NumericPredicate"),
          UnmarshalPrimitive(j, "time", "TimePredicate"),
          UnmarshalPrimitive(j, "string", "StringPredicate")>>)

\* The primaries [name, predicate expression], with the type of their predicates.
PrimaryType ==
    [name |-> "StringPredicate", cname |-> "StringPredicate", path |-> "StringPredicate",
     kind |-> "StringPredicate", atime |-> "TimePredicate", crtime |-> "TimePredicate",
     ctime |-> "TimePredicate", mtime |-> "TimePredicate",
     action |-> "ActionPredicate", meta |-> "ObjectPredicate"]

\* primary.base.Unmarshal; meta alone takes an expression that cannot be negated.
UnmarshalNamed(j, name) ==
    Tagged(j, name, As(name, UnmarshalExpression(PrimaryType[name], name # "meta", j[2][2])))

\* ast.Primary()
UnmarshalPrimary(j) ==
    LET named == <<"name", "cname", "path", "kind", "atime", "crtime", "ctime", "mtime">>
    IN  NonterminalNode(UnmarshalNamed(j, "action"),
            [i \in DOMAIN named |-> UnmarshalNamed(j, named[i])]
            \o <<UnmarshalSize(j, "size"), UnmarshalNamed(j, "meta"), UnmarshalBoolean(j)>>)

\* atom.Unmarshal, by the type of predicate the expression is made of
UnmarshalAtom(ptype, j) ==
    CASE ptype = "Primary" -> UnmarshalPrimary(j)
      [] ptype = "ActionPredicate" -> UnmarshalAction(j)
      [] ptype = "StringPredicate" -> UnmarshalString(j)
      [] ptype = "TimePredicate" -> UnmarshalTime(j)
      [] ptype = "NumericPredicate" -> UnmarshalNumeric(j, FALSE)
      [] ptype = "UnsignedNumericPredicate" -> UnmarshalNumeric(j, TRUE)
      [] ptype = "ObjectPredicate" -> UnmarshalObject(j)
      [] ptype = "ValuePredicate" -> UnmarshalValue(j)

\* Mutant of UnmarshalBinOp: the operands may be negated though the expression may not.
OperandsNegatable(j, op, ptype, negatable) ==
    IF ~Headed(j, op) THEN MatchError
    ELSE IF Len(j[2]) # 3 THEN Error
    ELSE LET p1 == UnmarshalExpression(ptype, TRUE, j[2][2])
             p2 == UnmarshalExpression(ptype, TRUE, j[2][3])
         IN  IF IsOk(p1) /\ IsOk(p2) THEN Ok(<<op, p1[2], p2[2]>>) ELSE Error

\* binOp.Unmarshal
UnmarshalBinOp(j, op, ptype, negatable) ==
    IF ~Headed(j, op) THEN MatchError
    ELSE IF Len(j[2]) # 3 THEN Error
    ELSE LET p1 == UnmarshalExpression(ptype, negatable, j[2][2])
             p2 == UnmarshalExpression(ptype, negatable, j[2][3])
         IN  IF IsOk(p1) /\ IsOk(p2) THEN Ok(<<op, p1[2], p2[2]>>) ELSE Error

UnmarshalNot(j, ptype) ==
    Tagged(j, "NOT", As("NOT", UnmarshalExpression(ptype, TRUE, j[2][2])))

UnmarshalExpression(ptype, negatable, j) ==
    NonterminalNode(UnmarshalBinOp(j, "AND", ptype, negatable),
        <<UnmarshalBinOp(j, "OR", ptype, negatable), UnmarshalAtom(ptype, j)>>
        \o (IF negatable THEN <<UnmarshalNot(j, ptype)>> ELSE <<>>))

\* ast.Query().Unmarshal
UnmarshalQuery(j) == UnmarshalExpression("Primary", FALSE, j)

(***************************************************************************)
(* Marshalling.                                                            *)
(***************************************************************************)
RECURSIVE Marshal(_, _)

\* Mutant of MarshalString: the tag of the node is written instead of its operator.
MarshalTag(p) == Arr(<<Str(p[1]), Str(p[2])>>)

MarshalString(p) == Arr(<<Str(IF p[1] = "equal" THEN "=" ELSE p[1]), Str(p[2])>>)

MarshalSelector(selector) ==
    IF selector[1] = "index" THEN <<"num", selector[2]>> ELSE Str(selector[1])

MarshalValue(p) ==
    CASE p[1] = "null" -> p
      [] p[1] = "boolean" -> <<"bool", p[2]>>
      [] p[1] = "number" -> Arr(<<Str("number"), Marshal("NumericPredicate", p[2])>>)
      [] p[1] = "time" -> Arr(<<Str("time"), Marshal("TimePredicate", p[2])>>)
      [] p[1] = "string" -> Arr(<<Str("string"), Marshal("StringPredicate", p[2])>>)
      [] p[1] = "objectSize" ->
            Arr(<<Str("object"), Arr(<<Str("size"), Marshal("UnsignedNumericPredicate", p[2])>>)>>)
      [] p[1] = "arraySize" ->
            Arr(<<Str("array"), Arr(<<Str("size"), Marshal("UnsignedNumericPredicate", p[2])>>)>>)
      [] p[1] = "object" ->
            Arr(<<Str("object"), Arr(<<Arr(<<Str("key"), Str(p[2])>>),
                                       Marshal("ValuePredicate", p[3])>>)>>)
      [] p[1] = "array" ->
            Arr(<<Str("array"), Arr(<<MarshalSelector(p[2]),
                                      Marshal("ValuePredicate", p[3])>>)>>)

MarshalPrimary(p) ==
    CASE p[1] = "boolean" -> <<"bool", p[2]>>
      [] p[1] = "size" -> Arr(<<Str("size"), Marshal("UnsignedNumericPredicate", p[2])>>)
      [] OTHER -> Arr(<<Str(p[1]), Marshal(PrimaryType[p[1]], p[2])>>)

Marshal(ptype, p) ==
    CASE p[1] \in {"AND", "OR"} -> Arr(<<Str(p[1]), Marshal(ptype, p[2]), Marshal(ptype, p[3])>>)
      [] p[1] = "NOT" -> Arr(<<Str("NOT"), Marshal(ptype, p[2])>>)
      [] OTHER ->
            CASE ptype = "Primary" -> MarshalPrimary(p)
              [] ptype = "ActionPredicate" -> Str(p[2])
              [] ptype = "StringPredicate" -> MarshalString(p)
              [] ptype = "TimePredicate" -> Arr(<<Str(p[1]), <<"time", p[2]>>>>)
              [] ptype \in {"NumericPredicate", "UnsignedNumericPredicate"} ->
                    Arr(<<Str(p[1]), Str(ToString(p[2]))>>)
              [] OTHER -> MarshalValue(p)

(***************************************************************************)
(* Metadata schemas: <<"object", properties, closed, required>>,           *)
(* <<"array", items, minItems>> and <<"primitive", type>>.                 *)
(***************************************************************************)
RECURSIVE Validate(_, _)

\* gojsonschema.Validate
Validate(s, v) ==
    CASE s[1] = "object" ->
            /\ v[1] = "obj"
            /\ s[4] \subseteq DOMAIN v[2]
            /\ s[3] => DOMAIN v[2] \subseteq DOMAIN s[2]
            /\ \A k \in DOMAIN v[2] \cap DOMAIN s[2] : Validate(s[2][k], v[2][k])
      [] s[1] = "array" ->
            /\ v[1] = "arr"
            /\ Len(v[2]) >= s[3]
            /\ \A i \in DOMAIN v[2] : Validate(s[2], v[2][i])
      [] OTHER -> v[1] = s[2]

RECURSIVE MungeType(_)

\* mungeType: keys in upper case, nothing required, primitive types are null.
MungeType(s) ==
    CASE s[1] = "object" ->
            LET upper == {Upper[k] : k \in DOMAIN s[2]}
                Property(u) == CHOOSE k \in DOMAIN s[2] : Upper[k] = u
            IN  <<"object", [u \in upper |-> MungeType(s[2][Property(u)])], s[3], {}>>
      [] s[1] = "array" -> <<"array", MungeType(s[2]), 0>>
      [] OTHER -> <<"primitive", "null">>

\* The representative value of a satisfying value schema: its segments around end.
RepresentativeValue(svs, end) ==
    FoldRight(LAMBDA segment, v : IF segment[1] = "key"
                                  THEN <<"obj", [k \in {segment[2]} |-> v]>>
                                  ELSE Arr(<<v>>), svs, end)

EmptyObject == <<"obj", <<>>>>
EmptyArray == Arr(<<>>)
Primitive == <<"null">>

Supports(s, svs, ends) == \E end \in ends : Validate(MungeType(s), RepresentativeValue(svs, end))

(***************************************************************************)
(* Evaluation.                                                             *)
(***************************************************************************)
Truth(b) == IF b THEN "true" ELSE "false"
AndThen(a, b) == IF a = "true" THEN b ELSE a
OrElse(a, b) == IF a = "false" THEN b ELSE a
Negate(a) == CASE a = "true" -> "false" [] a = "false" -> "true" [] OTHER -> a

\* The first result that decides a loop over results, or else what the loop ends with.
FirstOf(results, Decides(_), otherwise) ==
    LET i == SelectInSeq(results, Decides)
    IN  IF i = 0 THEN otherwise ELSE results[i]

Compare(op, x, y) ==
    CASE op = "<" -> x < y
      [] op = "<=" -> x <= y
      [] op = ">" -> x > y
      [] op = ">=" -> x >= y
      [] op = "=" -> x = y
      [] op = "!=" -> x # y

EvalNumeric(p, n) == Truth(Compare(p[1], n, p[2]))

\* tm.EvalTime has no case for the operator !=, which tm.Unmarshal accepts.
EvalTime(p, t) == IF p[1] = "!=" THEN "panic" ELSE Truth(Compare(p[1], t, p[2]))

EvalString(p, s) ==
    Truth(CASE p[1] = "glob" -> s \in Globs[p[2]]
            [] p[1] = "regex" -> s \in Regexes[p[2]]
            [] p[1] = "equal" -> s = p[2])

EvalAction(p, a) == Truth(p[2] = a)

\* An expression of predicates on values of some kind, defined below.
RECURSIVE Eval(_, _, _)

\* findMatchingKey
MatchingKeys(key, object) == {k \in DOMAIN object : Upper[k] = Upper[key]}

\* An index is not compared with the length of the array.
EvalArrayElement(selector, p, elements) ==
    LET results == [i \in DOMAIN elements |-> Eval("value", p, elements[i])]
    IN  CASE selector[1] = "index" ->
                IF selector[2] < Len(elements) THEN results[selector[2] + 1] ELSE "panic"
          [] selector[1] = "some" -> FirstOf(results, LAMBDA r : r # "false", "false")
          [] selector[1] = "all" -> FirstOf(results, LAMBDA r : r # "true", "true")

EvalValue(p, v) ==
    CASE p[1] = "object" ->
            IF v[1] = "obj" /\ MatchingKeys(p[2], v[2]) # {}
            THEN Eval("value", p[3], v[2][CHOOSE k \in MatchingKeys(p[2], v[2]) : TRUE])
            ELSE "false"
      [] p[1] = "objectSize" ->
            IF v[1] = "obj" THEN Eval("number", p[2], Cardinality(DOMAIN v[2])) ELSE "false"
      [] p[1] = "array" ->
            IF v[1] = "arr" THEN EvalArrayElement(p[2], p[3], v[2]) ELSE "false"
      [] p[1] = "arraySize" ->
            IF v[1] = "arr" THEN Eval("number", p[2], Len(v[2])) ELSE "false"
      [] p[1] = "null" -> Truth(v[1] = "null")
      [] p[1] = "boolean" -> Truth(v = <<"bool", p[2]>>)
      [] p[1] = "number" -> IF v[1] = "num" THEN Eval("number", p[2], v[2]) ELSE "false"
      [] p[1] = "time" ->
            IF ToTime(v) = {} THEN "false"
            ELSE Eval("time", p[2], CHOOSE t \in ToTime(v) : TRUE)
      [] p[1] = "string" -> IF v[1] = "str" THEN Eval("string", p[2], v[2]) ELSE "false"

RECURSIVE Reduce(_)

\* reduce: NOT is pushed to the atoms.
Reduce(p) ==
    CASE p[1] \in {"AND", "OR"} -> <<p[1], Reduce(p[2]), Reduce(p[3])>>
      [] p[1] = "NOT" /\ p[2][1] = "NOT" -> Reduce(p[2][2])
      [] p[1] = "NOT" /\ p[2][1] = "AND" ->
            Reduce(<<"OR", <<"NOT", p[2][2]>>, <<"NOT", p[2][3]>>>>)
      [] p[1] = "NOT" /\ p[2][1] = "OR" ->
            Reduce(<<"AND", <<"NOT", p[2][2]>>, <<"NOT", p[2][3]>>>>)
      [] OTHER -> p

\* Both operands of AND and OR are built before either is applied; AddObject panics
\* when it is given an empty key.
RECURSIVE SchemaPredicate(_, _, _)

SchemaPredicate(p, svs, s) ==
    CASE p[1] \in {"AND", "OR"} ->
            LET a == SchemaPredicate(p[2], svs, s)
                b == SchemaPredicate(p[3], svs, s)
            IN  IF "panic" \in {a, b} THEN "panic"
                ELSE IF p[1] = "AND" THEN AndThen(a, b) ELSE OrElse(a, b)
      [] p[1] = "NOT" -> Truth(Supports(s, svs, {EmptyObject, EmptyArray, Primitive}))
      [] p[1] = "object" ->
            IF p[2] = "" THEN "panic"
            ELSE SchemaPredicate(Reduce(p[3]), Append(svs, <<"key", Upper[p[2]]>>), s)
      [] p[1] = "array" -> SchemaPredicate(Reduce(p[3]), Append(svs, <<"element">>), s)
      [] p[1] = "objectSize" -> Truth(Supports(s, svs, {EmptyObject}))
      [] p[1] = "arraySize" -> Truth(Supports(s, svs, {EmptyArray}))
      [] OTHER -> Truth(Supports(s, svs, {Primitive}))

EvalValueSchema(p, s) == SchemaPredicate(Reduce(p), <<>>, s)

\* action.evalActions: some supported action satisfies the predicate.
EvalActions(p, actions) == Truth(\E a \in actions : Eval("action", p, a) = "true")

\* The entry predicate of a primary.  kind leaves the comparison to its schema predicate.
EvalEntry(p, e) ==
    CASE p[1] = "action" -> EvalActions(p[2], e.actions)
      [] p[1] = "boolean" -> Truth(p[2])
      [] p[1] \in {"name", "cname", "path"} -> Eval("string", p[2], e[p[1]])
      [] p[1] = "kind" -> Truth(e.schemaKnown)
      [] p[1] \in {"atime", "crtime", "ctime", "mtime"} -> Eval("time", p[2], e[p[1]])
      [] p[1] = "size" -> Eval("number", p[2], e.size)
      [] p[1] = "meta" -> Eval("value", p[2], e.metadata)

\* The entry schema predicate of a primary; an atom without one is true.
EvalEntrySchema(p, s) ==
    CASE p[1] = "action" -> EvalActions(p[2], s.actions)
      [] p[1] = "boolean" -> Truth(p[2])
      [] p[1] = "kind" -> Eval("string", p[2], s.path)
      [] p[1] = "meta" -> IF s.metadata = <<>> THEN "true" ELSE EvalValueSchema(p[2], s.metadata)
      [] OTHER -> "true"

EvalAtom(kind, p, x) ==
    CASE kind = "entry" -> EvalEntry(p, x)
      [] kind = "schema" -> EvalEntrySchema(p, x)
      [] kind = "value" -> EvalValue(p, x)
      [] kind = "string" -> EvalString(p, x)
      [] kind = "number" -> EvalNumeric(p, x)
      [] kind = "time" -> EvalTime(p, x)
      [] kind = "action" -> EvalAction(p, x)

Eval(kind, p, x) ==
    CASE p[1] = "AND" -> AndThen(Eval(kind, p[2], x), Eval(kind, p[3], x))
      [] p[1] = "OR" -> OrElse(Eval(kind, p[2], x), Eval(kind, p[3], x))
      [] p[1] = "NOT" -> Negate(Eval(kind, p[2], x))
      [] OTHER -> EvalAtom(kind, p, x)
=============================================================================
