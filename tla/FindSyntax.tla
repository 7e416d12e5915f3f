---------------------------- MODULE FindSyntax -----------------------------
(***************************************************************************)
(* How `wash find` parses its expression (cmd/internal/find/parser and     *)
(* primary).                                                               *)
(*                                                                         *)
(* A token is a word <<"", w>>, a word after a dash <<"-", w>>, an         *)
(* operator <<"op", "(" | ")" | "!">>, a key sequence <<"seq", segments>>  *)
(* or a number <<"num", sign, body>>.  A segment is <<"key", k>>,          *)
(* <<"elem", <<"some">> | <<"all">> | <<"index", n>>>> or <<"bad">>.  The  *)
(* body of a number is <<"int", n>>, <<"size", n, unit>>,                  *)
(* <<"duration", chunks>>, <<"minus", n>> (a second sign),                 *)
(* <<"braced", body>> or <<"open">>, a brace that is not closed.           *)
(*                                                                         *)
(* A parser returns the predicate, the remaining tokens and an error.  The *)
(* object of an expression parser is the parameter lang, "entry" or "meta",*)
(* with parens (insideParens) and an evaluation stack; a MatchError lets a *)
(* composite parser try its next parser.                                   *)
(***************************************************************************)
EXTENDS FindPredicate

CONSTANT BadGlobs   \* words that glob.Compile rejects

Dash(w) == <<"-", w>>
Open == <<"op", "(">>
Close == <<"op", ")">>
NotOps == {<<"op", "!">>, Dash("not")}
AndOps == {Dash("a"), Dash("and")}
BinaryOps == AndOps \union {Dash("o"), Dash("or")}
Primaries == {"name", "path", "size", "ctime", "mtime", "atime", "crtime", "action",
              "true", "false", "kind", "k", "meta", "m"}

\* Mutant of IsOp: parentheses are not taken for operators.
IsOpNoParens(token) == token \in NotOps \union BinaryOps

IsOp(token) == token \in NotOps \union BinaryOps \union {Open, Close}

IsPrimary(token) == token[1] = "-" /\ token[2] \in Primaries
IsPartOfExpression(token) == token = Dash("-") \/ IsOp(token) \/ IsPrimary(token)

NoP == <<>>
Ok(p, rest) == [p |-> p, rest |-> rest, err |-> "none"]
Err(err) == [p |-> NoP, rest |-> <<>>, err |-> err]
IsSyntaxError(err) == err \in {"syntax", "empty", "panic"}
MatchIsSyntax(r) == IF r.err = "match" THEN [r EXCEPT !.err = "syntax"] ELSE r

\* A composite parser: the next parser's result counts where this one did not match.
FirstMatch(r, next) == IF r.err = "match" THEN next ELSE r

(***************************************************************************)
(* Numbers (primary/numeric)                                               *)
(***************************************************************************)
BytesOf == [c |-> 1, k |-> 1024, M |-> 1024 * 1024]
DurationOf == [s |-> 1, m |-> 60, h |-> 3600, d |-> Day, w |-> 7 * Day]

Number(n) == [n |-> n, err |-> "none"]
NaN(err) == [n |-> 0, err |-> err]

ParsePositiveInt(body) ==
    CASE body[1] = "int" -> Number(body[2])
      [] body[1] = "minus" -> NaN("syntax")
      [] OTHER -> NaN("match")

ParseSize(body) ==
    IF body[1] = "size" THEN Number(body[2] * BytesOf[body[3]]) ELSE NaN("match")

RECURSIVE Seconds(_)
Seconds(chunks) ==
    IF chunks = <<>> THEN 0
    ELSE Head(chunks)[1] * DurationOf[Head(chunks)[2]] + Seconds(Tail(chunks))

ParseDuration(body) ==
    IF body[1] = "duration" THEN Number(Seconds(body[2])) ELSE NaN("match")

\* Bracket, given what the parser inside makes of what the braces hold
Bracket(body, inside) ==
    CASE body[1] = "braced" -> MatchIsSyntax(inside)
      [] body[1] = "open" -> NaN("syntax")
      [] OTHER -> NaN("match")

Inside(body) == IF body[1] = "braced" THEN body[2] ELSE body

ParseNumber(parser, body) ==
    CASE parser = "int" -> ParsePositiveInt(body)
      [] parser = "size" -> ParseSize(body)
      [] parser = "duration" -> ParseDuration(body)
      [] parser = "{-int}" ->
            Bracket(body, [ParsePositiveInt(Inside(body)) EXCEPT !.n = -@])
      [] OTHER -> Bracket(body, ParseDuration(Inside(body)))

\* numeric.ParsePredicate: the first parser that matches decides.
NumericResult(cmp, results, id) ==
    IF id = 0 THEN [err |-> "match"]
    ELSE [cmp |-> cmp, n |-> results[id].n, id |-> id, err |-> results[id].err]

FirstNumber(cmp, results) ==
    NumericResult(cmp, results, SelectInSeq(results, LAMBDA r : r.err # "match"))

ParseNumeric(token, parsers) ==
    IF token[1] # "num" THEN [err |-> "match"]
    ELSE FirstNumber(token[2], [i \in DOMAIN parsers |-> ParseNumber(parsers[i], token[3])])

(***************************************************************************)
(* The evaluation stack: predicates and operators <<"op", and | or>>, the  *)
(* most recent operator and its token.                                     *)
(***************************************************************************)
EmptyStack == [items |-> <<>>, op |-> "", token |-> <<>>]
Precedence == [and |-> 1, or |-> 0]
TopIsOp(st) == st.items # <<>> /\ Last(st.items)[1] = "op"

RECURSIVE Evaluate(_)
Evaluate(items) ==
    LET n == Len(items)
    IN  IF n <= 1 THEN items
        ELSE Evaluate(Append(SubSeq(items, 1, n - 3),
                             <<items[n - 1][2], items[n - 2], items[n]>>))

\* pushBinaryOp; when it evaluates, it evaluates the whole stack.
PushBinaryOp(st, op, token) ==
    LET evaluates == st.op # "" /\ Precedence[op] <= Precedence[st.op]
    IN  [items |-> Append(IF evaluates THEN Evaluate(st.items) ELSE st.items, <<"op", op>>),
         op |-> op, token |-> token]

\* pushPredicate: two predicates in a row are combined by -a.
PushPredicate(st, p) ==
    LET pushed == IF st.items = <<>> \/ TopIsOp(st) THEN st ELSE PushBinaryOp(st, "and", Dash("a"))
    IN  [pushed EXCEPT !.items = Append(@, p)]

(***************************************************************************)
(* Expressions (parser/expression)                                         *)
(***************************************************************************)
RECURSIVE ParseExpression(_, _, _), ParseAtom(_, _, _), ParseLoop(_, _, _, _)
RECURSIVE Proceed(_, _, _, _, _)
RECURSIVE ParsePredicate(_), ParseNamed(_)

Negate(lang, p) == IF lang = "entry" THEN NegateEntry(p) ELSE NegateMeta(p)

Negated(lang, r) ==
    [p |-> IF r.p = NoP THEN NoP ELSE Negate(lang, r.p), rest |-> r.rest,
     err |-> IF r.err = "match" THEN "incomplete" ELSE r.err]

ParseNot(lang, ts, parens) ==
    IF Len(ts) = 1 \/ ts[2] = Close THEN Err("syntax")
    ELSE Negated(lang, ParseAtom(lang, Tail(ts), parens))

\* Parenthesize, once the expression inside was parsed
CloseParens(r) ==
    CASE r.err \notin {"none", "empty"} -> r
      [] r.rest = <<>> \/ r.err = "empty" -> Err("syntax")
      [] Head(r.rest) # Close -> Err("syntax")
      [] OTHER -> Ok(r.p, Tail(r.rest))

\* Parenthesize
ParseParens(lang, ts) ==
    CASE ts = <<>> -> Err("match")
      [] Head(ts) = Close -> Err("syntax")
      [] Head(ts) # Open -> Err("match")
      [] OTHER -> CloseParens(ParseExpression(lang, Tail(ts), TRUE))

\* The composite parser of atoms
ParseAtom(lang, ts, parens) ==
    CASE Head(ts) \in NotOps -> ParseNot(lang, ts, parens)
      [] Head(ts) \in {Open, Close} -> ParseParens(lang, ts)
      [] OTHER -> IF lang = "meta" THEN ParsePredicate(ts)
                  ELSE IF IsPrimary(Head(ts)) THEN ParseNamed(ts) ELSE Err("match")

Stop(st, rest, err) == [st |-> st, rest |-> rest, err |-> err]

\* parser.parse: the stack it leaves, the remaining tokens and its error
ParseLoop(lang, ts, parens, st) ==
    IF ts = <<>> THEN Stop(st, ts, "none")
    ELSE IF Head(ts) = Close THEN Stop(st, ts, IF parens THEN "none" ELSE "incomplete")
    ELSE Proceed(lang, ts, parens, st, ParseAtom(lang, ts, parens))

\* An iteration of parser.parse, with what the parser of atoms returned
Proceed(lang, ts, parens, st, r) ==
    LET op == IF Head(ts) \in AndOps THEN "and" ELSE "or"
    IN  CASE IsSyntaxError(r.err) -> Stop(st, ts, r.err)
          [] r.p # NoP -> ParseLoop(lang, r.rest, parens, PushPredicate(st, r.p))
          [] r.err = "unknown" -> Stop(st, ts, "panic")
          [] r.err = "incomplete" -> Stop(st, ts, "incomplete")
          [] Head(ts) \notin BinaryOps -> Stop(st, ts, "unknown")
          [] st.items = <<>> \/ TopIsOp(st) -> Stop(st, Tail(ts), "syntax")
          [] OTHER -> ParseLoop(lang, Tail(ts), parens, PushBinaryOp(st, op, Head(ts)))

\* Mutant of PutBack: the operator before a token of an outer expression is lost.
LoseOperator(st, rest) == rest

\* An operator that has only its left side goes back in front of the remaining tokens.
PutBack(st, rest) == <<st.token>> \o rest

\* Parse, after parse: the errors unknown and incomplete leave what follows to an outer expression.
Conclude(r, parens) ==
    CASE IsSyntaxError(r.err) -> Err(r.err)
      [] r.st.items = <<>> ->
            [p |-> NoP, rest |-> r.rest, err |-> IF r.err = "none" THEN "empty" ELSE "syntax"]
      [] parens /\ r.err # "none" -> [p |-> NoP, rest |-> r.rest, err |-> "syntax"]
      [] TopIsOp(r.st) /\ r.err = "none" -> Err("syntax")
      [] TopIsOp(r.st) -> [p |-> Evaluate(Front(r.st.items))[1],
                           rest |-> PutBack(r.st, r.rest), err |-> r.err]
      [] OTHER -> [p |-> Evaluate(r.st.items)[1], rest |-> r.rest, err |-> r.err]

ParseExpression(lang, ts, parens) == Conclude(ParseLoop(lang, ts, parens, EmptyStack), parens)

(***************************************************************************)
(* Metadata predicates (primary/meta).  mode is "expr" in the key sequence *)
(* of the primary itself, after which an expression may follow, else "pred"*)
(***************************************************************************)
RECURSIVE ParseObjectP(_, _), ParseArrayP(_, _)

IsSeq(ts, kind) == ts # <<>> /\ Head(ts)[1] = "seq" /\ Head(ts)[2][1][1] = kind

\* The parser of inner expressions, which are in parentheses
ParseInnerExpression(ts) == ParseParens("meta", ts)

ParseOAPredicate(ts) == FirstMatch(ParsePredicate(ts), ParseInnerExpression(ts))

ParseOAExpression(ts) == FirstMatch(ParseObjectP(ts, "expr"), ParseArrayP(ts, "expr"))

\* What follows the first segment: the rest of the key sequence or, after it, the next token
ParseRest(ts, mode) ==
    LET segments == Tail(Head(ts)[2])
        rest == IF segments = <<>> THEN Tail(ts) ELSE <<<<"seq", segments>>>> \o Tail(ts)
    IN  MatchIsSyntax(CASE mode = "pred" -> ParseOAPredicate(rest)
                        [] segments = <<>> -> ParseExpression("meta", rest, FALSE)
                        [] OTHER -> ParseOAExpression(rest))

InObject(key, r) == IF r.p = NoP THEN r ELSE [r EXCEPT !.p = ObjectP(key, @)]
InArray(element, r) == IF r.p = NoP THEN r ELSE [r EXCEPT !.p = ArrayP(element, @)]

\* parseObjectP, parseKey
ParseObjectP(ts, mode) ==
    CASE IsSeq(ts, "bad") -> Err("syntax")
      [] ~IsSeq(ts, "key") -> Err("match")
      [] OTHER -> InObject(Head(ts)[2][1][2], ParseRest(ts, mode))

\* parseArrayP, parseArrayPredicateType, which looks at the first byte of an empty token
ParseArrayP(ts, mode) ==
    CASE ts # <<>> /\ Head(ts) = <<"", "">> -> Err("panic")
      [] ~IsSeq(ts, "elem") -> Err("match")
      [] OTHER -> InArray(Head(ts)[2][1][2], ParseRest(ts, mode))

NumberLeaf(r, rest) ==
    IF r.err # "none" THEN Err(r.err) ELSE Ok(Leaf("numeric", [cmp |-> r.cmp, n |-> r.n]), rest)
TimeLeaf(r, rest) ==
    IF r.err # "none" THEN Err(r.err)
    ELSE Ok(Leaf("time", [cmp |-> r.cmp, n |-> r.n, future |-> r.id = 2]), rest)

ParseNumericPredicate(ts) ==
    NumberLeaf(ParseNumeric(Head(ts), <<"int", "{-int}", "size">>), Tail(ts))
ParseTimePredicate(ts) ==
    TimeLeaf(ParseNumeric(Head(ts), <<"duration", "{duration}">>), Tail(ts))

\* parseStringPredicate, on a token that is not a number
ParseStringPredicate(ts) ==
    IF Head(ts)[1] = "" /\ Head(ts)[2] # "" THEN Ok(Leaf("string", Head(ts)[2]), Tail(ts))
    ELSE Err("match")

\* A syntax error of the number counts only where the token is not a time: {2h} is one of both.
FirstPrimitive(number, time, str) ==
    CASE number.err = "none" -> number
      [] time.err # "match" -> time
      [] number.err # "match" -> number
      [] OTHER -> str

ParsePrimitivePredicate(ts) ==
    CASE ts = <<>> -> Err("match")
      [] Head(ts) = Dash("null") -> Ok(Leaf("null", <<>>), Tail(ts))
      [] Head(ts) = Dash("exists") -> Ok(Leaf("exists", <<>>), Tail(ts))
      [] Head(ts) \in {Dash("true"), Dash("false")} ->
            Ok(Leaf("boolean", Head(ts) = Dash("true")), Tail(ts))
      [] OTHER -> FirstPrimitive(ParseNumericPredicate(ts), ParseTimePredicate(ts), ParseStringPredicate(ts))

ParseEmptyPredicate(ts) ==
    IF ts = <<>> \/ Head(ts) # Dash("empty") THEN Err("match")
    ELSE Ok(Leaf("empty", <<>>), Tail(ts))

ParsePredicate(ts) ==
    FirstMatch(ParseEmptyPredicate(ts),
        FirstMatch(ParseObjectP(ts, "pred"),
            FirstMatch(ParseArrayP(ts, "pred"), ParsePrimitivePredicate(ts))))

InMeta(r) == IF r.p = NoP THEN r ELSE [r EXCEPT !.p = <<"meta", @>>]

\* parseExpression and Parse of the meta primary
ParseMetaPrimary(ts) ==
    InMeta(FirstMatch(ParseEmptyPredicate(ts), MatchIsSyntax(ParseObjectP(ts, "expr"))))

(***************************************************************************)
(* Primaries                                                               *)
(***************************************************************************)
\* glob.Compile accepts the argument.
HasGlob(ts) == ts # <<>> /\ ~(Head(ts)[1] = "" /\ Head(ts)[2] \in BadGlobs)

ParseName(ts) == IF HasGlob(ts) THEN Ok(<<"name", Head(ts)>>, Tail(ts)) ELSE Err("syntax")
ParsePath(ts) == IF HasGlob(ts) THEN Ok(<<"path", Head(ts)>>, Tail(ts)) ELSE Err("syntax")
ParseKind(ts) == IF HasGlob(ts) THEN Ok(<<"kind", Head(ts), FALSE>>, Tail(ts)) ELSE Err("syntax")
ParseBoolean(name, ts) == Ok(<<"bool", name = "true">>, ts)

AttributeSize(r, rest) ==
    IF r.err # "none" THEN Err("syntax") ELSE Ok(<<"size", r.cmp, r.n, r.id = 1>>, rest)
AttributeTime(name, r, rest) ==
    IF r.err # "none" THEN Err("syntax") ELSE Ok(<<"time", name, r.cmp, r.n, r.id = 1>>, rest)

ParseSizePrimary(ts) ==
    IF ts = <<>> THEN Err("syntax")
    ELSE AttributeSize(ParseNumeric(Head(ts), <<"int", "size">>), Tail(ts))
ParseTimePrimary(ts, name) ==
    IF ts = <<>> THEN Err("syntax")
    ELSE AttributeTime(name, ParseNumeric(Head(ts), <<"int", "duration">>), Tail(ts))

ParseAction(ts) ==
    IF ts = <<>> \/ ~(Head(ts)[1] = "" /\ Head(ts)[2] \in Actions) THEN Err("syntax")
    ELSE Ok(<<"action", Head(ts)[2]>>, Tail(ts))

ParsePrimary(name, ts) ==
    CASE name = "name" -> ParseName(ts)
      [] name = "path" -> ParsePath(ts)
      [] name \in {"kind", "k"} -> ParseKind(ts)
      [] name = "size" -> ParseSizePrimary(ts)
      [] name = "action" -> ParseAction(ts)
      [] name \in {"true", "false"} -> ParseBoolean(name, ts)
      [] name \in {"meta", "m"} -> ParseMetaPrimary(ts)
      [] OTHER -> ParseTimePrimary(ts, name)

EmptyIsSyntax(r) == IF r.err = "empty" THEN Err("syntax") ELSE r

\* parser.Parse of a primary, whose name is the first token
ParseNamed(ts) == EmptyIsSyntax(ParsePrimary(Head(ts)[2], Tail(ts)))

\* parseExpression of find: the predicate, and an error if there is none
Complete(r) ==
    CASE r.err = "panic" -> r
      [] r.err # "none" -> Err("syntax")
      [] r.rest # <<>> -> Err("panic")
      [] OTHER -> r

ParseFind(ts) == IF ts = <<>> THEN Ok(Anything, <<>>) ELSE Complete(ParseExpression("entry", ts, FALSE))
=============================================================================
