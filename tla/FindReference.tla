--------------------------- MODULE FindReference ---------------------------
(***************************************************************************)
(* The expressions of `wash find` by their grammar, and what they mean, to *)
(* compare the parser, the predicates and the walk with.  Nothing here is  *)
(* translated from the implementation but the primitive predicates.        *)
(*                                                                         *)
(*   Or   ::= And | Or -o And         And ::= Atom | And [-a] Atom         *)
(*   Atom ::= ! Atom | ( Or ) | Leaf                                       *)
(*                                                                         *)
(* The leaves are the primaries or, in the language "meta" of the          *)
(* expression after -m and a key sequence, the metadata predicates.  An    *)
(* expression is a tree of <<"and" | "or", a, b>>, <<"not", a>>,           *)
(* <<"leaf", p>>, <<"meta", m>>, <<"object", k, m>>, <<"array", s, m>>.    *)
(***************************************************************************)
EXTENDS FindSyntax

OrOps == BinaryOps \ AndOps

\* The ways to cut ts in two, dropping between them one token of ops or, if bare, none
Cuts(ts, ops, bare) ==
    {<<SubSeq(ts, 1, i - 1), SubSeq(ts, i + 1, Len(ts))>> : i \in {j \in 2..Len(ts) - 1 : ts[j] \in ops}}
    \union IF bare THEN {<<SubSeq(ts, 1, i), SubSeq(ts, i + 1, Len(ts))>> : i \in 1..Len(ts) - 1} ELSE {}

RECURSIVE DeriveOr(_, _), DeriveAnd(_, _), DeriveAtom(_, _), DeriveKeys(_, _)

DeriveOr(lang, ts) ==
    DeriveAnd(lang, ts) \union
    UNION {{<<"or", a, b>> : a \in DeriveOr(lang, c[1]), b \in DeriveAnd(lang, c[2])} : c \in Cuts(ts, OrOps, FALSE)}

DeriveAnd(lang, ts) ==
    DeriveAtom(lang, ts) \union
    UNION {{<<"and", a, b>> : a \in DeriveAnd(lang, c[1]), b \in DeriveAtom(lang, c[2])} : c \in Cuts(ts, AndOps, TRUE)}

\* What the segments of a key sequence put around the trees in inner
DeriveKeys(segments, inner) ==
    CASE segments = <<>> -> inner
      [] Head(segments) = <<"bad">> -> {}
      [] OTHER -> {<<IF Head(segments)[1] = "key" THEN "object" ELSE "array", Head(segments)[2], m>> :
                      m \in DeriveKeys(Tail(segments), inner)}

\* A result of one of the parsers of a single primary, as a set of trees
Whole(r) == IF r.err = "none" /\ r.rest = <<>> THEN {<<"leaf", r.p>>} ELSE {}

\* -empty, or a key sequence that starts with a key and an expression
DeriveMeta(ts) ==
    IF ts = <<Dash("empty")>> THEN {<<"leaf", Leaf("empty", <<>>)>>}
    ELSE IF IsSeq(ts, "key") THEN DeriveKeys(Head(ts)[2], DeriveOr("meta", Tail(ts)))
    ELSE {}

DeriveLeaf(lang, ts) ==
    CASE lang = "entry" /\ Head(ts) \in {Dash("m"), Dash("meta")} ->
            {<<"meta", m>> : m \in DeriveMeta(Tail(ts))}
      [] lang = "entry" -> IF IsPrimary(Head(ts)) THEN Whole(ParsePrimary(Head(ts)[2], Tail(ts))) ELSE {}
      [] ts = <<Dash("empty")>> -> {<<"leaf", Leaf("empty", <<>>)>>}
      [] Head(ts)[1] = "seq" ->
            DeriveKeys(Head(ts)[2], IF Len(ts) > 1 /\ ts[2] \notin NotOps
                                    THEN DeriveAtom("meta", Tail(ts)) ELSE {})
      [] OTHER -> Whole(ParsePrimitivePredicate(ts))

DeriveAtom(lang, ts) ==
    CASE ts = <<>> -> {}
      [] Head(ts) \in NotOps -> {<<"not", a>> : a \in DeriveAtom(lang, Tail(ts))}
      [] Head(ts) = Open -> IF Last(ts) = Close THEN DeriveOr(lang, SubSeq(ts, 2, Len(ts) - 1)) ELSE {}
      [] OTHER -> DeriveLeaf(lang, ts)

\* How many leaves of a tree belong to metadata expressions
RECURSIVE MetaLeaves(_, _)
MetaLeaves(a, inMeta) ==
    CASE a[1] \in {"and", "or"} -> MetaLeaves(a[2], inMeta) + MetaLeaves(a[3], inMeta)
      [] a[1] = "not" -> MetaLeaves(a[2], inMeta)
      [] a[1] = "meta" -> MetaLeaves(a[2], TRUE)
      [] a[1] \in {"object", "array"} -> MetaLeaves(a[3], TRUE)
      [] OTHER -> IF inMeta THEN 1 ELSE 0

\* The trees of an expression: a metadata expression takes as much as it can.
Readings(ts) ==
    LET all == DeriveOr("entry", ts)
    IN  {a \in all : \A b \in all : MetaLeaves(b, FALSE) <= MetaLeaves(a, FALSE)}

\* A parenthesis after -m that does not hold a metadata expression
Commits(ts) ==
    \E i, j, k \in DOMAIN ts :
        /\ i < j /\ j < k
        /\ ts[i] \in {Dash("m"), Dash("meta")} /\ ts[j] = Open /\ ts[k] = Close
        /\ DeriveOr("meta", SubSeq(ts, j + 1, k - 1)) = {}

(***************************************************************************)
(* Meaning.  neg says that the tree stands below an odd number of          *)
(* negations; inside a metadata expression a negation leaves alone what    *)
(* the value has to be for the predicate to apply.                         *)
(***************************************************************************)
RECURSIVE MetaSays(_, _, _, _)
MetaSays(m, v, ref, neg) ==
    CASE m[1] = "not" -> MetaSays(m[2], v, ref, ~neg)
      [] m[1] \in {"and", "or"} ->
            IF (m[1] = "and") # neg
            THEN MetaSays(m[2], v, ref, neg) /\ MetaSays(m[3], v, ref, neg)
            ELSE MetaSays(m[2], v, ref, neg) \/ MetaSays(m[3], v, ref, neg)
      [] m[1] = "object" ->
            v[1] = "obj" /\ \E k \in DOMAIN v[2] : Upper[k] = Upper[m[2]] /\ MetaSays(m[3], v[2][k], ref, neg)
      [] m[1] = "array" ->
            /\ v[1] = "arr"
            /\ LET Holds(i) == MetaSays(m[3], v[2][i], ref, neg)
               IN  CASE m[2][1] = "index" -> m[2][2] + 1 \in DOMAIN v[2] /\ Holds(m[2][2] + 1)
                     [] (m[2][1] = "some") # neg -> \E i \in DOMAIN v[2] : Holds(i)
                     [] OTHER -> \A i \in DOMAIN v[2] : Holds(i)
      [] OTHER -> LeafHolds(m[2][2], m[2][3], v, ref, neg)

\* e.kind is the path of labels of the entry's schema below the start, <<>> if there is none.
RECURSIVE Says(_, _, _, _)
Says(a, e, ref, neg) ==
    CASE a[1] = "not" -> Says(a[2], e, ref, ~neg)
      [] a[1] \in {"and", "or"} ->
            IF (a[1] = "and") # neg THEN Says(a[2], e, ref, neg) /\ Says(a[3], e, ref, neg)
            ELSE Says(a[2], e, ref, neg) \/ Says(a[3], e, ref, neg)
      [] a[1] = "meta" -> MetaSays(a[2], e.metadata, ref, FALSE) # neg
      [] a[2][1] = "kind" -> e.kind # <<>> /\ GlobMatch(a[2][2], Join(e.kind)) # neg
      [] OTHER -> EntryHolds(a[2], e, ref) # neg
=============================================================================
