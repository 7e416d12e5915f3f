---------------------------- MODULE VolumeProofs ---------------------------
(* Theorems about Volume, for any tree, depth, clients, outputs and bounds. *)
EXTENDS Volume, FiniteSetTheorems, WellFoundedInduction, SequenceTheorems, TLAPS

-----------------------------------------------------------------------------
(* The inductive invariants *)

Paths == Seq(STRING)
AtOrBelow(q, s) == q = s \/ IsBelow(q, s)
Aligned(n) == \E k \in 0..n : n = k * MaxDepth

\* A node that was deleted through Wash, or is below one
Lost(p, dels) == \E d \in dels : AtOrBelow(p, d)

\* The dirmap shows p among the children of its parent.
Holds(dm, p) ==
    Parent(p) \in DOMAIN dm /\ dm[Parent(p)] # Nil /\ Last(p) \in DOMAIN dm[Parent(p)]

\* What a dirmap that starts at s has above s, to lead there: it is not shown to anyone.
LeadsOK(dm, s) ==
    \A q \in DOMAIN dm : ~AtOrBelow(q, s) => \A n \in DOMAIN dm[q] : dm[q][n] = "dir"

\* What a dirmap that starts at s says of the nodes that its command saw
MapOK(dm, s, nodes, dels) ==
    /\ DOMAIN dm \subseteq Paths
    /\ LeadsOK(dm, s)
    /\ \A q \in DOMAIN dm : AtOrBelow(q, s) =>
          Len(q) <= Len(s) + MaxDepth /\ (dm[q] = Nil <=> Len(q) = Len(s) + MaxDepth)
    /\ \A q \in DOMAIN dm : AtOrBelow(q, s) /\ dm[q] # Nil =>
          \A n \in DOMAIN dm[q] :
              /\ n \in STRING
              /\ Append(q, n) \in nodes
              /\ dm[q][n] = Initial[Append(q, n)]
              /\ dm[q][n] = "dir" /\ Len(q) + 1 # Len(s) + MaxDepth => Append(q, n) \in DOMAIN dm
    /\ \A p \in nodes : Len(p) <= Len(s) + MaxDepth => Lost(p, dels) \/ Holds(dm, p)

SnapOK(snap) ==
    /\ snap \in [start : Paths, nodes : SUBSET DOMAIN Initial]
    /\ Aligned(Len(snap.start))
    /\ \A p \in snap.nodes : IsBelow(p, snap.start)

\* An entry without a dirmap is a directory where a listing may start; another is within the depth
\* of its dirmap, and has its children there if it is a directory.
EntryOK(e, snaps) ==
    /\ e \in [path : Paths, kind : {"dir", "file"}, dirmap : Nat]
    /\ e.dirmap = 0 => e.kind = "dir" /\ Aligned(Len(e.path))
    /\ e.dirmap # 0 =>
          /\ e.dirmap \in 1..Len(snaps)
          /\ IsBelow(e.path, snaps[e.dirmap].start)
          /\ Len(e.path) <= Len(snaps[e.dirmap].start) + MaxDepth
          /\ e.kind = "dir" => Len(e.path) # Len(snaps[e.dirmap].start) + MaxDepth

\* A list of the children of q, made from dirmap i
ShownOK(shown, i, q, snaps, dels) ==
    /\ \A n \in DOMAIN shown :
          /\ n \in STRING
          /\ shown[n].path = Append(q, n)
          /\ Append(q, n) \in snaps[i].nodes
          /\ shown[n].dirmap \in {0, i}
          /\ EntryOK(shown[n], snaps)
    /\ \A p \in snaps[i].nodes : Parent(p) = q => Lost(p, dels) \/ Last(p) \in DOMAIN shown

ClientFields == {"pc", "entry", "shown", "of", "overlap", "result", "stream"}
StreamFields == {"output", "out", "writing", "got", "errs", "reader", "ended"}

ClientOK(cl, snaps, dels, dirmaps) ==
    /\ DOMAIN cl = ClientFields
    /\ EntryOK(cl.entry, snaps)
    /\ cl.overlap \in BOOLEAN
    /\ cl.pc = "listed" =>
          /\ cl.of \in 1..Len(snaps)
          /\ ShownOK(cl.shown, cl.of, cl.entry.path, snaps, dels)
    /\ cl.pc = "listing" =>
          /\ cl.entry.dirmap = 0
          /\ \A r \in cl.result : /\ SnapOK([start |-> cl.entry.path, nodes |-> r.nodes])
                                  /\ MapOK(r.dirmap, cl.entry.path, r.nodes, {})
    /\ cl.pc \in {"deleting", "deleted"} => cl.entry.path \in dels /\ cl.entry.path # RootPath
    /\ cl.pc = "deleted" => cl.entry.dirmap # 0 /\ ~Holds(dirmaps[cl.entry.dirmap], cl.entry.path)

\* A stream whose reader got what was received so far, but for the chunk that is being written, up
\* to the first error
Copying(st) ==
    LET n == Len(st.output) - Len(st.out)
        m == Len(st.got)
    IN  /\ DOMAIN st = StreamFields
        /\ st.output \in Seq(STRING) /\ st.out \in Seq(STRING) /\ st.got \in Seq(STRING)
        /\ st.errs \in BOOLEAN
        /\ n \in Nat
        /\ \A i \in 1..Len(st.out) : st.out[i] = st.output[n + i]
        /\ \A i \in 1..m : st.got[i] = st.output[i] /\ st.output[i] # "error"
        /\ st.writing # <<>> =>
              ~st.errs /\ n = m + 1 /\ Head(st.writing) = st.output[n] /\ st.output[n] # "error"
        /\ st.writing = <<>> /\ ~st.errs => m = n
        /\ st.errs => m < n /\ (st.reader = "open" => st.output[m + 1] = "error")

StreamOK(cl) ==
    /\ Copying(cl.stream)
    /\ cl.pc = "streaming" => cl.stream.ended = "no"
    /\ cl.pc = "streamed" =>
          /\ cl.stream.out = <<>> /\ cl.stream.writing = <<>>
          /\ cl.stream.ended = IF cl.stream.errs THEN "error" ELSE "eof"

RemoteOK(disk) ==
    /\ DOMAIN disk \subseteq DOMAIN Initial
    /\ \A p \in DOMAIN disk : /\ disk[p] = Initial[p]
                              /\ Parent(p) = RootPath \/ Parent(p) \in DOMAIN disk

CachedOK(lists, snaps, dels) ==
    \A q \in DOMAIN lists :
        /\ q \in Paths
        /\ DOMAIN lists[q] = {"of", "children"}
        /\ lists[q].of \in 1..Len(snaps)
        /\ snaps[lists[q].of].start = q
        /\ ShownOK(lists[q].children, lists[q].of, q, snaps, dels)

MapsInv ==
    /\ maps \in Seq(Range(maps)) /\ snapshot \in Seq(Range(snapshot))
    /\ Len(maps) = Len(snapshot) /\ Len(maps) <= MaxLists
    /\ \A i \in 1..Len(snapshot) : SnapOK(snapshot[i])
    /\ \A i \in 1..Len(maps) : MapOK(maps[i], snapshot[i].start, snapshot[i].nodes, deletions)

VolumeInv ==
    /\ RemoteOK(remote)
    /\ fs \in {"new", "accessible", "inaccessible"}
    /\ MapsInv
    /\ CachedOK(cached, snapshot, deletions)
    /\ DOMAIN client = Clients
    /\ \A c \in Clients : ClientOK(client[c], snapshot, deletions, maps)
    /\ fs # "accessible" => /\ maps = <<>> /\ snapshot = <<>>
                            /\ DOMAIN cached = {} /\ gone = {}
                            /\ \A c \in Clients : client[c] = Idle

StreamInv == \A c \in Clients : StreamOK(client[c])

\* Dirmap i does not show p.
Free(snaps, dirmaps, i, p) == IsBelow(p, snaps[i].start) => ~Holds(dirmaps[i], p)

\* The cached list of where dirmap i starts is the one that was made from it.
Current(snaps, lists, i) == snaps[i].start \in DOMAIN lists => lists[snaps[i].start].of = i

CachedGone(lists, snaps, dirmaps, missing) ==
    \A q \in DOMAIN lists : \A p \in missing :
        /\ q = Parent(p) => Last(p) \notin DOMAIN lists[q].children
        /\ Free(snaps, dirmaps, lists[q].of, p)

\* What a client may still show is without what is missing; and what it holds was not replaced by
\* another listing, unless that is recorded as an overlap.
ClientGone(cl, snaps, dirmaps, lists, missing) ==
    /\ cl.entry.dirmap # 0 => \A p \in missing : Free(snaps, dirmaps, cl.entry.dirmap, p)
    /\ cl.pc = "listed" => \A p \in missing : Free(snaps, dirmaps, cl.of, p)
    /\ cl.pc = "listing" => \A r \in cl.result : \A p \in missing : p \notin r.nodes
    /\ ~cl.overlap => /\ cl.entry.dirmap # 0 => Current(snaps, lists, cl.entry.dirmap)
                      /\ cl.pc = "listed" => Current(snaps, lists, cl.of)

GoneInv ==
    /\ gone \subseteq Paths \ {RootPath}
    /\ gone \cap DOMAIN remote = {}
    /\ CachedGone(cached, snapshot, maps, gone)
    /\ \A c \in Clients : ClientGone(client[c], snapshot, maps, cached, gone)

-----------------------------------------------------------------------------
(* Paths *)

LEMMA ParentFacts ==
  ASSUME NEW p \in Paths, p # RootPath
  PROVE  /\ Parent(p) \in Paths
         /\ Len(Parent(p)) = Len(p) - 1
         /\ Len(p) \in Nat \ {0}
         /\ \A i \in 1..Len(p) - 1 : Parent(p)[i] = p[i]
         /\ Last(p) \in STRING
         /\ Last(p) = p[Len(p)]
<1>0. p \in Seq(STRING) /\ p # <<>> BY DEF Paths, RootPath
<1>1. Len(p) \in Nat \ {0} BY <1>0
<1>2. Last(p) = p[Len(p)] /\ Last(p) \in STRING BY <1>0, <1>1 DEF Last
<1>3. /\ SubSeq(p, 1, Len(p) - 1) \in Seq(STRING)
      /\ Len(SubSeq(p, 1, Len(p) - 1)) = Len(p) - 1
      /\ \A i \in 1..Len(p) - 1 : SubSeq(p, 1, Len(p) - 1)[i] = p[i]
  <2>1. 1 \in Int /\ Len(p) - 1 \in Int /\ \A i \in 1..Len(p) - 1 : p[i] \in STRING BY <1>0, <1>1
  <2>2. /\ SubSeq(p, 1, Len(p) - 1) \in Seq(STRING)
        /\ Len(SubSeq(p, 1, Len(p) - 1)) = IF 1 <= Len(p) - 1 THEN (Len(p) - 1) - 1 + 1 ELSE 0
        /\ \A i \in 1..(Len(p) - 1) - 1 + 1 : SubSeq(p, 1, Len(p) - 1)[i] = p[1 + i - 1]
    BY <2>1, SubSeqProperties
  <2>3. Len(SubSeq(p, 1, Len(p) - 1)) = Len(p) - 1
    <3> DEFINE l == Len(SubSeq(p, 1, Len(p) - 1))
               n == Len(p)
    <3>1. n \in Nat \ {0} /\ l = IF 1 <= n - 1 THEN (n - 1) - 1 + 1 ELSE 0 BY <1>1, <2>2
    <3> HIDE DEF l, n
    <3>2. l = n - 1 BY <3>1
    <3> QED BY <3>2 DEF l, n
  <2>4. \A i \in 1..Len(p) - 1 : 1 + i - 1 = i BY <1>1
  <2>5. 1..(Len(p) - 1) - 1 + 1 = 1..Len(p) - 1 BY <1>1
  <2> QED BY <2>2, <2>3, <2>4, <2>5
<1> QED BY <1>1, <1>2, <1>3 DEF Parent, Paths

LEMMA ParentLast ==
  ASSUME NEW p \in Paths, p # RootPath
  PROVE  p = Append(Parent(p), Last(p))
<1>1. Append(Parent(p), Last(p)) \in Paths /\ Len(Append(Parent(p), Last(p))) = Len(p)
  BY ParentFacts DEF Paths
<1>2. \A i \in 1..Len(p) : Append(Parent(p), Last(p))[i] = p[i]
  BY ParentFacts DEF Paths
<1> QED BY <1>1, <1>2, SeqEqual DEF Paths

LEMMA AppendFacts ==
  ASSUME NEW q \in Paths, NEW n \in STRING
  PROVE  /\ Append(q, n) \in Paths
         /\ Append(q, n) # RootPath
         /\ Len(Append(q, n)) = Len(q) + 1
         /\ Parent(Append(q, n)) = q
         /\ Last(Append(q, n)) = n
<1> DEFINE a == Append(q, n)
<1>0. q \in Seq(STRING) BY DEF Paths
<1>1. /\ a \in Seq(STRING) /\ Len(a) = Len(q) + 1 /\ a # <<>> /\ a[Len(q) + 1] = n
      /\ \A i \in 1..Len(q) : a[i] = q[i]
  BY <1>0
<1>2. Len(q) \in Nat BY <1>0
<1> HIDE DEF a
<1>3. a \in Paths /\ a # RootPath BY <1>1 DEF Paths, RootPath
<1>4. /\ Parent(a) \in Paths /\ Len(Parent(a)) = Len(q)
      /\ \A i \in 1..Len(q) : Parent(a)[i] = q[i] 
  BY <1>1, <1>2, <1>3, ParentFacts
<1>6. Last(a) = n BY <1>1, <1>2, <1>3, ParentFacts
<1>5. Parent(a) = q
  BY <1>0, <1>4, SeqEqual DEF Paths
<1> QED BY <1>1, <1>3, <1>5, <1>6 DEF a

\* To be below is to have the same names where both have names.
LEMMA BelowPoint ==
  ASSUME NEW p \in Paths, NEW q \in Paths
  PROVE  IsBelow(p, q) <=> Len(p) > Len(q) /\ \A i \in 1..Len(q) : p[i] = q[i]
<1>1. ASSUME Len(p) > Len(q)
      PROVE  SubSeq(p, 1, Len(q)) \in Paths /\ Len(SubSeq(p, 1, Len(q))) = Len(q)
             /\ \A i \in 1..Len(q) : SubSeq(p, 1, Len(q))[i] = p[i]
  BY <1>1 DEF Paths
<1>2. ASSUME IsBelow(p, q) PROVE Len(p) > Len(q) /\ \A i \in 1..Len(q) : p[i] = q[i]
  BY <1>1, <1>2 DEF IsBelow
<1>3. ASSUME Len(p) > Len(q), \A i \in 1..Len(q) : p[i] = q[i] PROVE IsBelow(p, q)
  <2>1. SubSeq(p, 1, Len(q)) = q
    BY <1>1, <1>3, SeqEqual DEF Paths
  <2> QED BY <1>3, <2>1 DEF IsBelow
<1> QED BY <1>2, <1>3

LEMMA BelowParent ==
  ASSUME NEW p \in Paths, NEW q \in Paths, p # RootPath
  PROVE  IsBelow(p, q) <=> AtOrBelow(Parent(p), q)
<1>1. ASSUME IsBelow(p, q) PROVE AtOrBelow(Parent(p), q)
  <2>1. CASE Len(Parent(p)) = Len(q)
    <3>1. \A i \in 1..Len(q) : Parent(p)[i] = q[i]
      BY <1>1, <2>1, BelowPoint, ParentFacts
    <3>2. Parent(p) = q
      BY <2>1, <3>1, ParentFacts, SeqEqual DEF Paths
    <3> QED BY <3>2 DEF AtOrBelow
  <2>2. CASE Len(Parent(p)) # Len(q)
    <3>0. Len(q) \in Nat BY DEF Paths
    <3>1. Len(Parent(p)) > Len(q)
      BY <1>1, <2>2, <3>0, BelowPoint, ParentFacts
    <3>2. \A i \in 1..Len(q) : Parent(p)[i] = q[i]
      BY <1>1, <3>0, <3>1, BelowPoint, ParentFacts
    <3> QED BY <3>1, <3>2, BelowPoint, ParentFacts DEF AtOrBelow
  <2> QED BY <2>1, <2>2
<1>2. ASSUME AtOrBelow(Parent(p), q) PROVE IsBelow(p, q)
  <2>0. Len(q) \in Nat BY DEF Paths
  <2>1. Len(Parent(p)) >= Len(q) /\ \A i \in 1..Len(q) : Parent(p)[i] = q[i]
    BY <1>2, <2>0, BelowPoint, ParentFacts DEF AtOrBelow
  <2>2. Len(p) > Len(q) /\ \A i \in 1..Len(q) : p[i] = q[i]
    BY <2>0, <2>1, ParentFacts
  <2> QED BY <2>2, BelowPoint
<1> QED BY <1>1, <1>2

LEMMA BelowTrans ==
  ASSUME NEW p \in Paths, NEW q \in Paths, NEW r \in Paths,
         AtOrBelow(p, q), AtOrBelow(q, r)
  PROVE  AtOrBelow(p, r) /\ (IsBelow(p, q) \/ IsBelow(q, r) => IsBelow(p, r))
<1>0. Len(p) \in Nat /\ Len(q) \in Nat /\ Len(r) \in Nat BY DEF Paths
<1>1. CASE p = q BY <1>1, <1>0, BelowPoint DEF AtOrBelow
<1>2. CASE q = r BY <1>2, <1>0, BelowPoint DEF AtOrBelow
<1>3. CASE IsBelow(p, q) /\ IsBelow(q, r)
  <2>1. Len(p) > Len(r) /\ \A i \in 1..Len(r) : p[i] = r[i]
    BY <1>0, <1>3, BelowPoint
  <2> QED BY <2>1, BelowPoint DEF AtOrBelow
<1> QED BY <1>1, <1>2, <1>3 DEF AtOrBelow

LEMMA BelowLen ==
  ASSUME NEW p \in Paths, NEW q \in Paths, AtOrBelow(p, q)
  PROVE  Len(p) \in Nat /\ Len(q) \in Nat /\ Len(p) >= Len(q) /\ (IsBelow(p, q) => Len(p) > Len(q))
BY BelowPoint DEF AtOrBelow, Paths

\* Of two paths above the same, equally long ones are equal.
LEMMA SamePrefix ==
  ASSUME NEW p \in Paths, NEW q \in Paths, NEW r \in Paths,
         IsBelow(p, q), IsBelow(p, r), Len(q) = Len(r)
  PROVE  q = r
<1>1. \A i \in 1..Len(q) : q[i] = r[i]
  BY BelowPoint
<1> QED BY <1>1, SeqEqual DEF Paths

LEMMA RootFacts ==
  /\ RootPath \in Paths
  /\ Len(RootPath) = 0
  /\ \A p \in Paths : p # RootPath => IsBelow(p, RootPath)
  /\ \A p \in Paths : AtOrBelow(p, RootPath)
  /\ \A p, q \in Paths : IsBelow(p, q) => p # RootPath
<1>1. RootPath \in Paths /\ Len(RootPath) = 0 BY DEF RootPath, Paths
<1>2. \A p \in Paths : p # RootPath => IsBelow(p, RootPath)
  BY <1>1, BelowPoint, ParentFacts
<1>3. \A p, q \in Paths : IsBelow(p, q) => p # RootPath
  BY <1>1, BelowPoint DEF Paths
<1> QED BY <1>1, <1>2, <1>3 DEF AtOrBelow

\* Two listings that start where listings may start, and that both reach a level, start at the same.
LEMMA AlignedEqual ==
  ASSUME NEW a \in Nat, NEW b \in Nat, NEW l \in Nat, Aligned(a), Aligned(b),
         a < l, l <= a + MaxDepth, b < l, l <= b + MaxDepth
  PROVE  a = b
<1>0. MaxDepth \in Nat \ {0} BY DepthAssumption
<1>1. PICK k \in Nat : a = k * MaxDepth BY DEF Aligned
<1>2. PICK j \in Nat : b = j * MaxDepth BY DEF Aligned
<1>3. ASSUME NEW x \in Nat, NEW y \in Nat, x < y PROVE x * MaxDepth + MaxDepth <= y * MaxDepth
  <2>1. PICK m \in Nat : y = x + 1 + m
    <3>1. y - x - 1 \in Nat /\ y = x + 1 + (y - x - 1) BY <1>3
    <3> QED BY <3>1
  <2>2. y * MaxDepth = x * MaxDepth + MaxDepth + m * MaxDepth BY <2>1, <1>0
  <2>3. m * MaxDepth \in Nat /\ x * MaxDepth \in Nat BY <1>0
  <2> QED BY <2>2, <2>3, <1>0
<1>4. k * MaxDepth \in Nat /\ j * MaxDepth \in Nat BY <1>0
<1>5. ~(k < j) BY <1>0, <1>1, <1>2, <1>3, <1>4
<1>6. ~(j < k) BY <1>0, <1>1, <1>2, <1>3, <1>4
<1>7. k = j BY <1>5, <1>6
<1> QED BY <1>1, <1>2, <1>7

\* A directory at maxdepth of a listing is one where a listing may start.
LEMMA AlignedNext ==
  ASSUME NEW a \in Nat, Aligned(a)
  PROVE  Aligned(a + MaxDepth)
<1>0. MaxDepth \in Nat \ {0} BY DepthAssumption
<1>1. PICK k \in 0..a : a = k * MaxDepth BY DEF Aligned
<1>2. a + MaxDepth = (k + 1) * MaxDepth /\ k + 1 \in 0..(a + MaxDepth) BY <1>0, <1>1
<1> QED BY <1>2 DEF Aligned

LEMMA AlignedZero == Aligned(0)
<1>1. 0 = 0 * MaxDepth BY DepthAssumption
<1> QED BY <1>1 DEF Aligned

\* A property of some naturals holds of a least one; this is the induction of the lemmas on Scan.
LEMMA NatMin ==
  ASSUME NEW T \in SUBSET Nat, T # {}
  PROVE  \E x \in T : \A y \in T : x <= y
<1> DEFINE F == {0 .. x : x \in T}
<1>1. F \subseteq FiniteSubsetsOf(Nat) /\ F # {}
  <2>1. \A x \in T : IsFiniteSet(0 .. x) /\ 0 .. x \subseteq Nat BY FS_Interval
  <2> QED BY <2>1 DEF FiniteSubsetsOf
<1>2. IsWellFoundedOn(StrictSubsetOrdering(Nat), FiniteSubsetsOf(Nat))
  BY FS_StrictSubsetOrderingWellFounded
<1>3. PICK s \in F : \A r \in F : ~ (<<r, s>> \in StrictSubsetOrdering(Nat))
  BY <1>1, <1>2, WFMin
<1>4. PICK x \in T : s = 0 .. x
  OBVIOUS
<1>5. ASSUME NEW y \in T PROVE x <= y
  <2>1. SUFFICES ASSUME y < x PROVE FALSE
    OBVIOUS
  <2>2. 0 .. y \in F
    OBVIOUS
  <2>3. 0 .. y \subseteq 0 .. x /\ 0 .. y # 0 .. x
    <3>1. x \in 0 .. x /\ x \notin 0 .. y BY <2>1
    <3> QED BY <2>1, <3>1
  <2>4. <<0 .. y, 0 .. x>> \in StrictSubsetOrdering(Nat)
    BY <2>3 DEF StrictSubsetOrdering
  <2> QED BY <2>2, <2>4, <1>3, <1>4
<1> QED BY <1>5

-----------------------------------------------------------------------------
(* What the parsers of stat output compute, for any lines *)

ScanStep(dm, line, maxdepth) ==
    IF NormalError("posix", line) THEN dm
    ELSE AddAttributesForPath(dm, line.path, line.kind, maxdepth)

\* f is what Scan computes for the first k lines.
IsScan(f, lines, maxdepth, k) ==
    f = [n \in 0..k |-> IF n = 0 THEN Put(Empty, RootPath, Empty)
                       ELSE ScanStep(f[n - 1], lines[n], maxdepth)]

\* Such an f exists: there is no least k without one.
LEMMA ScanExists ==
  ASSUME NEW lines, NEW maxdepth, NEW k \in Nat
  PROVE  \E f : IsScan(f, lines, maxdepth, k)
<1> DEFINE T == {m \in Nat : ~\E f : IsScan(f, lines, maxdepth, m)}
<1>1. SUFFICES ASSUME T # {} PROVE FALSE
  OBVIOUS
<1>2. PICK x \in T : \A y \in T : x <= y
  BY <1>1, NatMin
<1>3. x # 0
  <2>1. IsScan([n \in 0..0 |-> Put(Empty, RootPath, Empty)], lines, maxdepth, 0)
    BY DEF IsScan
  <2> QED BY <2>1
<1>4. x - 1 \in Nat /\ x - 1 \notin T
  BY <1>2, <1>3
<1>5. PICK g : IsScan(g, lines, maxdepth, x - 1)
  BY <1>4
<1> DEFINE h == [n \in 0..x |-> IF n = x THEN ScanStep(g[x - 1], lines[x], maxdepth) ELSE g[n]]
<1>6. ASSUME NEW n \in 0..x
      PROVE  h[n] = IF n = 0 THEN Put(Empty, RootPath, Empty) ELSE ScanStep(h[n - 1], lines[n], maxdepth)
  <2>1. CASE n = x
    BY <1>3, <1>4, <2>1
  <2>2. CASE n # x
    <3>1. n \in 0..x - 1 /\ (n # 0 => n - 1 \in 0..x - 1 /\ n - 1 # x) BY <1>4, <2>2
    <3>2. g[n] = IF n = 0 THEN Put(Empty, RootPath, Empty) ELSE ScanStep(g[n - 1], lines[n], maxdepth)
      BY <1>5, <3>1 DEF IsScan
    <3> QED BY <2>2, <3>1, <3>2
  <2> QED BY <2>1, <2>2
<1>7. IsScan(h, lines, maxdepth, x)
  <2> HIDE DEF h
  <2>1. h = [n \in 0..x |-> h[n]] BY DEF h
  <2> QED BY <1>6, <2>1 DEF IsScan
<1> QED BY <1>7

\* Scan is the last of its dirmaps.
LEMMA ScanIsLast ==
  ASSUME NEW lines, NEW maxdepth, Len(lines) \in Nat
  PROVE  \E f : IsScan(f, lines, maxdepth, Len(lines)) /\ Scan(lines, maxdepth) = f[Len(lines)]
<1>1. (CHOOSE f : IsScan(f, lines, maxdepth, Len(lines))) =
      (CHOOSE f : f = [n \in 0..Len(lines) |->
                         IF n = 0 THEN Put(Empty, RootPath, Empty)
                         ELSE IF NormalError("posix", lines[n]) THEN f[n - 1]
                         ELSE AddAttributesForPath(f[n - 1], lines[n].path, lines[n].kind, maxdepth)])
  BY DEF IsScan, ScanStep
<1> DEFINE f == CHOOSE f : IsScan(f, lines, maxdepth, Len(lines))
<1>2. IsScan(f, lines, maxdepth, Len(lines))
  BY ScanExists
<1>3. Scan(lines, maxdepth) = f[Len(lines)]
  BY <1>1 DEF Scan
<1> QED BY <1>2, <1>3

\* The directories on the way to a path
LEMMA PrefixFacts ==
  ASSUME NEW path \in Paths
  PROVE  /\ path \in Prefixes(path)
         /\ RootPath \in Prefixes(path)
         /\ \A q \in Prefixes(path) : /\ q \in Paths
                                      /\ Len(q) \in 0..Len(path)
                                      /\ \A i \in 1..Len(q) : q[i] = path[i]
<1>0. path \in Seq(STRING) /\ Len(path) \in Nat BY DEF Paths
<1>1. ASSUME NEW l \in 0..Len(path)
      PROVE  /\ SubSeq(path, 1, l) \in Seq(STRING)
             /\ Len(SubSeq(path, 1, l)) = l
             /\ \A i \in 1..l : SubSeq(path, 1, l)[i] = path[i]
  <2>1. 1 \in Int /\ l \in Int /\ \A i \in 1..l : path[i] \in STRING BY <1>0
  <2>2. /\ SubSeq(path, 1, l) \in Seq(STRING)
        /\ Len(SubSeq(path, 1, l)) = IF 1 <= l THEN l - 1 + 1 ELSE 0
        /\ \A i \in 1..l - 1 + 1 : SubSeq(path, 1, l)[i] = path[1 + i - 1]
    BY <2>1, SubSeqProperties
  <2>3. (IF 1 <= l THEN l - 1 + 1 ELSE 0) = l OBVIOUS
  <2>4. \A i \in 1..l : 1 + i - 1 = i OBVIOUS
  <2>5. 1..l - 1 + 1 = 1..l OBVIOUS
  <2> QED BY <2>2, <2>3, <2>4, <2>5
<1>2. SubSeq(path, 1, Len(path)) = path
  <2>1. Len(path) \in 0..Len(path) BY <1>0
  <2> QED BY <1>0, <1>1, <2>1, SeqEqual
<1>3. SubSeq(path, 1, 0) = RootPath
  <2>1. 0 \in 0..Len(path) BY <1>0
  <2>2. SubSeq(path, 1, 0) \in Seq(STRING) /\ Len(SubSeq(path, 1, 0)) = 0 BY <1>1, <2>1
  <2> QED BY <2>2 DEF RootPath
<1>4. path \in Prefixes(path) /\ RootPath \in Prefixes(path)
  <2>1. Len(path) \in 0..Len(path) /\ 0 \in 0..Len(path) BY <1>0
  <2>2. SubSeq(path, 1, Len(path)) \in Prefixes(path) /\ SubSeq(path, 1, 0) \in Prefixes(path)
    BY <2>1 DEF Prefixes
  <2> QED BY <1>2, <1>3, <2>2
<1>5. ASSUME NEW q \in Prefixes(path)
      PROVE  q \in Paths /\ Len(q) \in 0..Len(path) /\ \A i \in 1..Len(q) : q[i] = path[i]
  <2>1. PICK l \in 0..Len(path) : q = SubSeq(path, 1, l) BY DEF Prefixes
  <2> QED BY <1>1, <2>1 DEF Paths
<1> QED BY <1>4, <1>5

\* Making the children of a directory at or below s changes, of what is there, nothing but that
\* the directory exists.
LEMMA MakeFacts ==
  ASSUME NEW dm, RootPath \in DOMAIN dm, DOMAIN dm \subseteq Paths,
         NEW s \in Paths, NEW path \in Paths, AtOrBelow(path, s), path \in DOMAIN dm \/ path = s
  PROVE  /\ DOMAIN dm \subseteq DOMAIN MakeChildren(dm, path)
         /\ path \in DOMAIN MakeChildren(dm, path)
         /\ DOMAIN MakeChildren(dm, path) \subseteq Paths
         /\ \A q \in DOMAIN MakeChildren(dm, path) : AtOrBelow(q, s) =>
               /\ q \in DOMAIN dm \/ q = path
               /\ MakeChildren(dm, path)[q] = IF q \in DOMAIN dm THEN dm[q] ELSE Empty
<1> DEFINE missing == {q \in Prefixes(path) :
                          \A r \in Prefixes(path) : r \in DOMAIN dm => Len(r) < Len(q)}
           Children(q) == IF q \in DOMAIN dm THEN dm[q] ELSE Empty
           M == MakeChildren(dm, path)
<1>1. M = [q \in DOMAIN dm \union missing |->
              IF \E m \in missing : Parent(m) = q THEN Put(Children(q), path[Len(q) + 1], "dir")
              ELSE Children(q)]
  BY DEF MakeChildren
<1>2. DOMAIN M = DOMAIN dm \union missing
  BY <1>1
<1>3. \A m \in missing : m \in Paths /\ m # RootPath /\ Len(m) \in 0..Len(path)
  <2>1. \A m \in missing : m \in Prefixes(path) /\ Len(RootPath) < Len(m) BY PrefixFacts
  <2> HIDE DEF missing
  <2>2. ASSUME NEW m \in missing PROVE m \in Paths /\ m # RootPath /\ Len(m) \in 0..Len(path)
    BY <2>1, PrefixFacts, RootFacts
  <2> QED BY <2>2
<1>4. path \in DOMAIN dm => missing = {}
  <2>1. SUFFICES ASSUME path \in DOMAIN dm, NEW m \in missing PROVE FALSE
    OBVIOUS
  <2>2. Len(path) < Len(m) BY <2>1, PrefixFacts
  <2>3. Len(path) \in Nat /\ Len(m) \in 0..Len(path) BY <1>3 DEF Paths
  <2> QED BY <2>2, <2>3
<1>5. path \notin DOMAIN dm => path \in missing
  <2>1. SUFFICES ASSUME path \notin DOMAIN dm, NEW r \in Prefixes(path), r \in DOMAIN dm
                 PROVE  Len(r) < Len(path)
    BY PrefixFacts
  <2>2. r \in Paths /\ Len(r) \in 0..Len(path) /\ Len(path) \in Nat /\ \A i \in 1..Len(r) : r[i] = path[i]
    BY PrefixFacts DEF Paths
  <2>3. Len(r) # Len(path)
    <3>1. SUFFICES ASSUME Len(r) = Len(path) PROVE r = path
      BY <2>1
    <3> QED BY <2>2, <3>1, SeqEqual DEF Paths
  <2> QED BY <2>2, <2>3
<1>6. ASSUME NEW q \in DOMAIN M, AtOrBelow(q, s)
      PROVE  (q \in DOMAIN dm \/ q = path) /\ M[q] = Children(q)
  <2>1. CASE path \in DOMAIN dm
    BY <1>1, <1>2, <1>4, <2>1
  <2>2. CASE path \notin DOMAIN dm
    <3>1. path = s BY <2>2
    <3>2. Len(s) \in Nat BY DEF Paths
    <3>3. q \in DOMAIN dm \/ q = path
      <4>1. SUFFICES ASSUME q \in missing PROVE q = path BY <1>2
      <4>2. q \in Paths /\ Len(q) \in 0..Len(path) BY <1>3, <4>1
      <4>3. ~IsBelow(q, s) BY <3>1, <3>2, <4>2, BelowLen DEF AtOrBelow
      <4> QED BY <1>6, <3>1, <4>3 DEF AtOrBelow
    <3>4. ASSUME NEW m \in missing, Parent(m) = q PROVE FALSE
      <4>1. m \in Paths /\ m # RootPath /\ Len(m) \in 0..Len(path) BY <1>3
      <4>2. q \in Paths /\ Len(q) = Len(m) - 1 /\ Len(m) \in Nat BY <3>4, <4>1, ParentFacts
      <4>3. Len(q) >= Len(s) BY <1>6, <4>2, BelowLen
      <4> HIDE DEF missing
      <4> QED BY <3>1, <3>2, <4>1, <4>2, <4>3
    <3>5. M[q] = Children(q) BY <1>1, <1>2, <3>4
    <3> QED BY <3>3, <3>5
  <2> QED BY <2>1, <2>2
<1> HIDE DEF missing
<1> QED BY <1>2, <1>3, <1>5, <1>6

\* What the lines scanned so far, those of done, have made of the dirmap at and below s
ScanDir(dm, s, done, q) ==
    /\ q = s \/ (q \in done /\ Initial[q] = "dir")
    /\ Len(q) = Len(s) + MaxDepth => dm[q] = Nil
    /\ Len(q) # Len(s) + MaxDepth =>
          /\ \A n \in DOMAIN dm[q] : /\ n \in STRING
                                     /\ Append(q, n) \in done
                                     /\ dm[q][n] = Initial[Append(q, n)]
          /\ \A p \in done : Parent(p) = q => Last(p) \in DOMAIN dm[q]

ScanOK(dm, s, done) ==
    /\ DOMAIN dm \subseteq Paths
    /\ LeadsOK(dm, s)
    /\ RootPath \in DOMAIN dm
    /\ \A q \in DOMAIN dm : AtOrBelow(q, s) => ScanDir(dm, s, done, q)
    /\ \A p \in done : Initial[p] = "dir" => p \in DOMAIN dm
    /\ done # {} => s \in DOMAIN dm

\* What is on the volume is a tree.
LEMMA NodeFacts ==
  ASSUME NEW p \in DOMAIN Initial
  PROVE  /\ p \in Paths /\ p # RootPath
         /\ Initial[p] \in {"dir", "file"}
         /\ Parent(p) = RootPath \/ (Parent(p) \in DOMAIN Initial /\ Initial[Parent(p)] = "dir")
BY TreeAssumption DEF Paths

\* What makeChildren adds above the start leads to it, and is made of directories.
LEMMA MakeLeads ==
  ASSUME NEW dm, NEW s, NEW path, LeadsOK(dm, s)
  PROVE  LeadsOK(MakeChildren(dm, path), s)
<1> DEFINE missing == {q \in Prefixes(path) :
                          \A r \in Prefixes(path) : r \in DOMAIN dm => Len(r) < Len(q)}
           Children(q) == IF q \in DOMAIN dm THEN dm[q] ELSE Empty
           M == MakeChildren(dm, path)
<1>1. M = [q \in DOMAIN dm \union missing |->
              IF \E m \in missing : Parent(m) = q THEN Put(Children(q), path[Len(q) + 1], "dir")
              ELSE Children(q)]
  BY DEF MakeChildren
<1> HIDE DEF missing, M
<1> SUFFICES ASSUME NEW q \in DOMAIN M, ~AtOrBelow(q, s), NEW n \in DOMAIN M[q] PROVE M[q][n] = "dir"
  BY DEF LeadsOK, M
<1>2. \A x \in DOMAIN Children(q) : Children(q)[x] = "dir" BY DEF LeadsOK, Empty
<1> HIDE DEF Children
<1>3. M[q] = Put(Children(q), path[Len(q) + 1], "dir") \/ M[q] = Children(q) BY <1>1
<1> QED BY <1>2, <1>3 DEF Put

\* addAttributesForPath keeps what was scanned before, and adds its node.
LEMMA ScanStepOK ==
  ASSUME NEW dm, NEW s \in Paths, NEW done, done \subseteq DOMAIN Initial, ScanOK(dm, s, done),
         NEW p \in DOMAIN Initial, IsBelow(p, s), Len(p) <= Len(s) + MaxDepth,
         \A d \in done : ~IsBelow(d, p),
         Parent(p) = s \/ Parent(p) \in done
  PROVE  ScanOK(AddAttributesForPath(dm, p, Initial[p], MaxDepth + Len(s)), s, done \union {p})
<1> DEFINE E == IF Initial[p] # "dir" THEN dm
                ELSE Put(dm, p, IF Len(p) = MaxDepth + Len(s) THEN Nil ELSE Empty)
           pp == Parent(p)
           M == MakeChildren(E, pp)
           N == [M EXCEPT ![pp] = Put(@, Last(p), Initial[p])]
<1>0. /\ p \in Paths /\ p # RootPath /\ Len(p) \in Nat /\ Len(s) \in Nat /\ MaxDepth \in Nat \ {0}
      /\ Initial[p] \in {"dir", "file"}
  BY NodeFacts, DepthAssumption DEF Paths
<1>1. AddAttributesForPath(dm, p, Initial[p], MaxDepth + Len(s)) = N
  <2>1. ~(Len(p) > MaxDepth + Len(s)) BY <1>0
  <2> QED BY <2>1 DEF AddAttributesForPath
<1>2. pp \in Paths /\ Len(pp) = Len(p) - 1 /\ Last(p) \in STRING /\ AtOrBelow(pp, s) /\ pp # p
      /\ p = Append(pp, Last(p))
  <2>1. pp \in Paths /\ Len(pp) = Len(p) - 1 /\ Last(p) \in STRING BY <1>0, ParentFacts
  <2> QED BY <1>0, <2>1, ParentLast, BelowParent
<1>3. /\ DOMAIN dm \subseteq DOMAIN E
      /\ DOMAIN E \subseteq DOMAIN dm \union {p}
      /\ Initial[p] = "dir" => p \in DOMAIN E /\ E[p] = IF Len(p) = MaxDepth + Len(s) THEN Nil ELSE Empty
      /\ Initial[p] # "dir" => E = dm
      /\ \A q \in DOMAIN dm : q # p => E[q] = dm[q]
  BY DEF Put
<1>4. pp \in done => pp \in DOMAIN dm
  <2>1. SUFFICES ASSUME pp \in done PROVE pp \in DOMAIN dm OBVIOUS
  <2>2. pp # RootPath BY <2>1, NodeFacts
  <2>3. Initial[pp] = "dir" BY <2>2, NodeFacts
  <2> QED BY <2>1, <2>3 DEF ScanOK
<1>5. p \in DOMAIN dm => Initial[p] = "dir"
  <2>1. AtOrBelow(p, s) BY DEF AtOrBelow
  <2>2. p # s BY <1>0, BelowLen DEF AtOrBelow
  <2> QED BY <2>1, <2>2 DEF ScanOK, ScanDir
<1>6. /\ DOMAIN E \subseteq DOMAIN M /\ pp \in DOMAIN M /\ DOMAIN M \subseteq Paths
      /\ \A q \in DOMAIN M : AtOrBelow(q, s) =>
            (q \in DOMAIN E \/ q = pp) /\ M[q] = IF q \in DOMAIN E THEN E[q] ELSE Empty
  <2>1. RootPath \in DOMAIN E /\ DOMAIN E \subseteq Paths BY <1>0, <1>3 DEF ScanOK
  <2>2. pp \in DOMAIN E \/ pp = s BY <1>3, <1>4
  <2> HIDE DEF E, pp
  <2> QED BY <1>2, <2>1, <2>2, MakeFacts
<1>12. LeadsOK(M, s)
  <2>1. AtOrBelow(p, s) BY DEF AtOrBelow
  <2>2. \A q \in DOMAIN E : ~AtOrBelow(q, s) => q \in DOMAIN dm /\ E[q] = dm[q] BY <1>3, <2>1
  <2> HIDE DEF E
  <2>3. LeadsOK(E, s) BY <2>2 DEF ScanOK, LeadsOK
  <2> QED BY <2>3, MakeLeads
<1> HIDE DEF E, M, pp
<1>7. /\ DOMAIN N = DOMAIN M
      /\ N[pp] = Put(M[pp], Last(p), Initial[p])
      /\ \A q \in DOMAIN M : q # pp => N[q] = M[q]
  BY <1>6
<1> HIDE DEF N
<1>8. ASSUME NEW q \in DOMAIN N, AtOrBelow(q, s) PROVE ScanDir(N, s, done \union {p}, q)
  <2>0. q \in Paths /\ (q \in DOMAIN E \/ q = pp) /\ M[q] = IF q \in DOMAIN E THEN E[q] ELSE Empty
    BY <1>6, <1>7, <1>8
  <2>1. CASE q = pp
    <3>1. Len(q) # Len(s) + MaxDepth BY <1>0, <1>2, <2>1
    <3>2. CASE q \in DOMAIN dm
      <4>1. N[q] = Put(dm[q], Last(p), Initial[p]) BY <1>2, <1>3, <1>7, <2>0, <2>1, <3>2
      <4>2. ScanDir(dm, s, done, q) BY <1>8, <3>2 DEF ScanOK
      <4>3. \A n \in DOMAIN N[q] : n \in STRING /\ Append(q, n) \in done \union {p} /\ N[q][n] = Initial[Append(q, n)]
        <5>1. /\ DOMAIN N[q] = DOMAIN dm[q] \union {Last(p)}
              /\ N[q][Last(p)] = Initial[p]
              /\ \A n \in DOMAIN dm[q] : n # Last(p) => N[q][n] = dm[q][n]
          BY <4>1 DEF Put
        <5>2. \A n \in DOMAIN dm[q] : n \in STRING /\ Append(q, n) \in done /\ dm[q][n] = Initial[Append(q, n)]
          BY <3>1, <4>2 DEF ScanDir
        <5>3. Append(q, Last(p)) = p /\ Last(p) \in STRING BY <1>2, <2>1
        <5> QED BY <5>1, <5>2, <5>3
      <4>4. \A d \in done \union {p} : Parent(d) = q => Last(d) \in DOMAIN N[q]
        BY <3>1, <4>1, <4>2 DEF ScanDir, Put
      <4> QED BY <3>1, <4>2, <4>3, <4>4 DEF ScanDir
    <3>3. CASE q \notin DOMAIN dm
      <4>1. q = s /\ done = {} BY <1>4, <2>1, <3>3 DEF ScanOK, pp
      <4>2. q \notin DOMAIN E BY <1>2, <1>3, <2>1, <3>3
      <4>3. N[q] = Put(Empty, Last(p), Initial[p]) BY <1>7, <2>0, <2>1, <4>2
      <4>4. DOMAIN N[q] = {Last(p)} /\ N[q][Last(p)] = Initial[p] BY <4>3 DEF Put, Empty
      <4> QED BY <1>2, <2>1, <3>1, <4>1, <4>4 DEF ScanDir
    <3> QED BY <3>2, <3>3
  <2>2. CASE q = p
    <3>1. Initial[p] = "dir" BY <1>2, <1>3, <1>5, <2>0, <2>2
    <3>2. N[q] = IF Len(p) = MaxDepth + Len(s) THEN Nil ELSE Empty BY <1>2, <1>3, <1>7, <2>0, <2>2, <3>1
    <3>3. \A d \in done \union {p} : Parent(d) # q
      <4>1. SUFFICES ASSUME NEW d \in done, Parent(d) = p PROVE FALSE BY <1>2, <2>2 DEF pp
      <4>2. d \in Paths /\ d # RootPath BY NodeFacts
      <4>3. IsBelow(d, p) BY <1>0, <4>1, <4>2, BelowParent DEF AtOrBelow
      <4> QED BY <4>1, <4>3
    <3>4. DOMAIN Empty = {} BY DEF Empty
    <3>5. Len(q) = Len(s) + MaxDepth <=> Len(p) = MaxDepth + Len(s) BY <1>0, <2>2
    <3> QED BY <2>2, <3>1, <3>2, <3>3, <3>4, <3>5 DEF ScanDir
  <2>3. CASE q # pp /\ q # p
    <3>1. q \in DOMAIN dm /\ N[q] = dm[q] BY <1>3, <1>7, <2>0, <2>3
    <3>2. ScanDir(dm, s, done, q) BY <1>8, <3>1 DEF ScanOK
    <3> QED BY <2>3, <3>1, <3>2 DEF ScanDir, pp
  <2> QED BY <2>1, <2>2, <2>3
<1>9. s \in DOMAIN N
  BY <1>3, <1>4, <1>6, <1>7 DEF ScanOK, pp
<1>10. \A d \in done \union {p} : Initial[d] = "dir" => d \in DOMAIN N
  BY <1>3, <1>6, <1>7 DEF ScanOK
<1>11. DOMAIN N \subseteq Paths /\ RootPath \in DOMAIN N
  BY <1>3, <1>6, <1>7 DEF ScanOK
<1>13. LeadsOK(N, s) BY <1>2, <1>7, <1>12 DEF LeadsOK
<1> QED BY <1>1, <1>8, <1>9, <1>10, <1>11, <1>13 DEF ScanOK

\* So does every number of lines: there is no least n where ScanOK fails.
LEMMA ScanCorrect ==
  ASSUME NEW s \in Paths, NEW W, W \subseteq DOMAIN Initial,
         \A p \in W : /\ IsBelow(p, s) /\ Len(p) <= Len(s) + MaxDepth
                      /\ Parent(p) = s \/ Parent(p) \in W,
         NEW lines, Len(lines) \in Nat,
         \A i \in 1..Len(lines) : lines[i] # Normal =>
             lines[i].path \in W /\ lines[i].kind = Initial[lines[i].path],
         \A p \in W : \E i \in 1..Len(lines) : lines[i] # Normal /\ lines[i].path = p,
         \A i, j \in 1..Len(lines) :
             lines[i] # Normal /\ lines[j] # Normal /\ IsBelow(lines[j].path, lines[i].path) => i < j
  PROVE  ScanOK(Scan(lines, MaxDepth + Len(s)), s, W)
<1> DEFINE N == Len(lines)
           Done(k) == {lines[i].path : i \in {j \in 1..k : lines[j] # Normal}}
<1>1. PICK f : IsScan(f, lines, MaxDepth + Len(s), N) /\ Scan(lines, MaxDepth + Len(s)) = f[N]
  BY ScanIsLast
<1>2. f[0] = Put(Empty, RootPath, Empty)
      /\ \A n \in 1..N : f[n] = ScanStep(f[n - 1], lines[n], MaxDepth + Len(s))
  <2>1. 0 \in 0..N /\ \A n \in 1..N : n \in 0..N /\ n # 0 OBVIOUS
  <2> QED BY <1>1, <2>1 DEF IsScan
<1>3. ScanOK(f[0], s, Done(0))
  <2>1. Done(0) = {} OBVIOUS
  <2>2. DOMAIN f[0] = {RootPath} /\ f[0][RootPath] = Empty /\ DOMAIN Empty = {} BY <1>2 DEF Put, Empty
  <2>3. ASSUME AtOrBelow(RootPath, s) PROVE s = RootPath
    BY <2>3, RootFacts DEF AtOrBelow
  <2>4. Len(RootPath) # Len(RootPath) + MaxDepth BY RootFacts, DepthAssumption
  <2>5. ASSUME NEW q \in DOMAIN f[0], AtOrBelow(q, s) PROVE ScanDir(f[0], s, Done(0), q)
    <3>1. q = RootPath /\ s = RootPath BY <2>2, <2>3, <2>5
    <3> HIDE DEF Done
    <3> QED BY <2>1, <2>2, <2>4, <3>1 DEF ScanDir
  <2>6. LeadsOK(f[0], s) BY <2>2 DEF LeadsOK
  <2> HIDE DEF Done
  <2> QED BY <2>1, <2>2, <2>5, <2>6, RootFacts DEF ScanOK
<1>4. ASSUME NEW k \in 1..N, ScanOK(f[k - 1], s, Done(k - 1)) PROVE ScanOK(f[k], s, Done(k))
  <2>0. 1..k = 1..k - 1 \union {k} BY <1>4
  <2>1. CASE lines[k] = Normal
    <3>1. Done(k) = Done(k - 1) BY <2>0, <2>1
    <3>2. f[k] = f[k - 1] BY <1>2, <2>1 DEF ScanStep, NormalError
    <3> QED BY <1>4, <3>1, <3>2
  <2>2. CASE lines[k] # Normal
    <3> DEFINE p == lines[k].path
    <3>1. Done(k) = Done(k - 1) \union {p} BY <2>0, <2>2
    <3>2. f[k] = AddAttributesForPath(f[k - 1], p, Initial[p], MaxDepth + Len(s))
      BY <1>2, <2>2 DEF ScanStep, NormalError
    <3>3. Done(k - 1) \subseteq DOMAIN Initial
      BY <1>4
    <3>4. \A d \in Done(k - 1) : ~IsBelow(d, p)
      <4>1. SUFFICES ASSUME NEW i \in 1..k - 1, lines[i] # Normal, IsBelow(lines[i].path, p) PROVE FALSE
        OBVIOUS
      <4>2. i \in 1..N /\ i < k BY <1>4, <4>1
      <4>3. k < i BY <2>2, <4>1, <4>2
      <4> QED BY <4>2, <4>3
    <3>5. p \in W BY <2>2
    <3>6. p \in Paths /\ p # RootPath BY <3>5, NodeFacts
    <3>7. Parent(p) = s \/ Parent(p) \in Done(k - 1)
      <4>1. SUFFICES ASSUME Parent(p) # s PROVE Parent(p) \in Done(k - 1) OBVIOUS
      <4>2. PICK i \in 1..N : lines[i] # Normal /\ lines[i].path = Parent(p) BY <3>5, <4>1
      <4>3. IsBelow(p, Parent(p)) BY <3>6, ParentFacts, BelowParent DEF AtOrBelow
      <4>4. i < k BY <2>2, <4>2, <4>3
      <4>5. i \in 1..k - 1 BY <4>4
      <4> QED BY <4>2, <4>5
    <3> HIDE DEF Done, p
    <3> QED BY <1>4, <3>1, <3>2, <3>3, <3>4, <3>5, <3>7, ScanStepOK
  <2> QED BY <2>1, <2>2
<1>5. \A k \in 0..N : ScanOK(f[k], s, Done(k))
  <2> DEFINE T == {k \in 0..N : ~ScanOK(f[k], s, Done(k))}
  <2> HIDE DEF Done
  <2>1. SUFFICES ASSUME T # {} PROVE FALSE OBVIOUS
  <2>2. PICK x \in T : \A y \in T : x <= y
    <3>1. T \in SUBSET Nat OBVIOUS
    <3> HIDE DEF T
    <3> QED BY <2>1, <3>1, NatMin
  <2>3. x # 0 BY <1>3
  <2>4. x \in 1..N /\ x - 1 \in 0..N /\ x - 1 \notin T BY <2>2, <2>3
  <2>5. ScanOK(f[x - 1], s, Done(x - 1)) BY <2>4
  <2> QED BY <1>4, <2>4, <2>5
<1>6. Done(N) = W OBVIOUS
<1>7. N \in 0..N OBVIOUS
<1> HIDE DEF Done
<1> QED BY <1>1, <1>5, <1>6, <1>7

\* The dirmap that was scanned tells what the command saw.
LEMMA FreshMap ==
  ASSUME NEW dm, NEW s \in Paths, NEW V, V \subseteq DOMAIN Initial,
         \A p \in V : IsBelow(p, s) /\ (Parent(p) = s \/ Parent(p) \in V),
         ScanOK(dm, s, WithinDepth(V, s))
  PROVE  MapOK(dm, s, V, {})
<1> DEFINE W == WithinDepth(V, s)
<1>0. /\ Len(s) \in Nat /\ MaxDepth \in Nat \ {0}
      /\ W = {p \in V : Len(p) <= Len(s) + MaxDepth}
  BY DepthAssumption DEF Paths, WithinDepth
<1>1. DOMAIN dm \subseteq Paths /\ LeadsOK(dm, s) BY DEF ScanOK
<1>2. \A q \in DOMAIN dm : AtOrBelow(q, s) => ScanDir(dm, s, W, q) BY DEF ScanOK
<1> HIDE DEF W
<1>3. ASSUME NEW q \in DOMAIN dm, AtOrBelow(q, s)
      PROVE  /\ Len(q) <= Len(s) + MaxDepth /\ (dm[q] = Nil <=> Len(q) = Len(s) + MaxDepth)
             /\ dm[q] # Nil => \A n \in DOMAIN dm[q] :
                    /\ n \in STRING /\ Append(q, n) \in V /\ dm[q][n] = Initial[Append(q, n)]
                    /\ dm[q][n] = "dir" => Append(q, n) \in DOMAIN dm
  <2>1. ScanDir(dm, s, W, q) BY <1>2, <1>3
  <2>2. Len(q) \in Nat /\ Len(q) <= Len(s) + MaxDepth BY <1>0, <1>1, <2>1 DEF ScanDir, Paths
  <2>3. ASSUME Len(q) # Len(s) + MaxDepth, dm[q] = Nil PROVE FALSE
    <3>1. "nil" \in DOMAIN dm[q] /\ dm[q]["nil"] = "nil" BY <2>3 DEF Nil
    <3>2. Append(q, "nil") \in DOMAIN Initial /\ dm[q]["nil"] = Initial[Append(q, "nil")]
      BY <1>0, <2>1, <2>3, <3>1 DEF ScanDir
    <3> QED BY <3>1, <3>2, NodeFacts
  <2>4. dm[q] = Nil <=> Len(q) = Len(s) + MaxDepth BY <2>1, <2>3 DEF ScanDir
  <2>5. ASSUME dm[q] # Nil, NEW n \in DOMAIN dm[q]
        PROVE  /\ n \in STRING /\ Append(q, n) \in V /\ dm[q][n] = Initial[Append(q, n)]
               /\ dm[q][n] = "dir" => Append(q, n) \in DOMAIN dm
    <3>1. n \in STRING /\ Append(q, n) \in W /\ dm[q][n] = Initial[Append(q, n)]
      BY <2>1, <2>4, <2>5 DEF ScanDir
    <3>2. dm[q][n] = "dir" => Append(q, n) \in DOMAIN dm
      BY <3>1 DEF ScanOK, W
    <3> QED BY <1>0, <3>1, <3>2
  <2> QED BY <2>2, <2>4, <2>5
<1>4. ASSUME NEW p \in V, Len(p) <= Len(s) + MaxDepth PROVE Holds(dm, p)
  <2>1. p \in W BY <1>0, <1>4
  <2>2. p \in Paths /\ p # RootPath BY NodeFacts
  <2>3. Parent(p) \in Paths /\ Len(Parent(p)) = Len(p) - 1 /\ AtOrBelow(Parent(p), s) /\ Len(p) \in Nat
    BY <2>2, ParentFacts, BelowParent
  <2>4. Parent(p) \in DOMAIN dm
    <3>1. CASE Parent(p) = s BY <2>1, <3>1 DEF ScanOK, W
    <3>2. CASE Parent(p) # s
      <4>1. Parent(p) \in V BY <3>2
      <4>2. Parent(p) \in W BY <1>0, <1>4, <2>3, <4>1
      <4>3. Parent(p) # RootPath BY <4>1, NodeFacts
      <4>4. Initial[Parent(p)] = "dir" BY <4>3, NodeFacts
      <4> QED BY <4>2, <4>4 DEF ScanOK, W
    <3> QED BY <3>1, <3>2
  <2>5. Len(Parent(p)) # Len(s) + MaxDepth BY <1>0, <1>4, <2>3
  <2>6. dm[Parent(p)] # Nil BY <1>3, <2>3, <2>4, <2>5
  <2>7. Last(p) \in DOMAIN dm[Parent(p)] BY <1>2, <2>1, <2>3, <2>4, <2>5 DEF ScanDir
  <2> QED BY <2>4, <2>6, <2>7 DEF Holds
<1> QED BY <1>1, <1>3, <1>4 DEF MapOK

\* What a command sees is closed under parents, down from where it starts.
LEMMA VisibleFacts ==
  ASSUME NEW disk, RemoteOK(disk), NEW start \in Paths, NEW denied, denied \subseteq Denied
  PROVE  /\ Visible(disk, start, denied) \subseteq DOMAIN disk
         /\ \A p \in Visible(disk, start, denied) :
               IsBelow(p, start) /\ (Parent(p) = start \/ Parent(p) \in Visible(disk, start, denied))
<1> DEFINE V == Visible(disk, start, denied)
<1>1. V = {p \in DOMAIN disk : IsBelow(p, start) /\ \A d \in denied : ~IsBelow(p, d)}
  BY DEF Visible
<1>2. ASSUME NEW p \in V, Parent(p) # start PROVE Parent(p) \in V
  <2>1. p \in DOMAIN disk /\ p \in DOMAIN Initial /\ IsBelow(p, start) BY <1>1 DEF RemoteOK
  <2>2. p \in Paths /\ p # RootPath BY <2>1, NodeFacts
  <2>3. Parent(p) \in Paths BY <2>2, ParentFacts
  <2>4. IsBelow(Parent(p), start) BY <1>2, <2>1, <2>2, BelowParent DEF AtOrBelow
  <2>5. Parent(p) \in DOMAIN disk BY <2>1, <2>3, <2>4, RootFacts DEF RemoteOK
  <2>6. ASSUME NEW d \in denied, IsBelow(Parent(p), d) PROVE FALSE
    <3>1. d \in Paths BY TreeAssumption, NodeFacts
    <3>2. IsBelow(p, d) BY <2>2, <2>6, <3>1, BelowParent DEF AtOrBelow
    <3> QED BY <1>1, <3>2
  <2> QED BY <1>1, <2>4, <2>5, <2>6
<1> QED BY <1>1, <1>2

LEMMA OutcomeFacts ==
  \A o \in Outcomes : /\ o.denied \subseteq Denied
                     /\ o.out \in {<<>>, <<Normal>>, <<Other>>}
BY DEF Outcomes

\* Whatever becomes of the command, and in whichever order it writes, a listing that does not fail
\* has a dirmap that tells exactly what the command saw.
LEMMA CommandFacts ==
  ASSUME RemoteOK(remote), NEW start \in Paths, NEW command \in Commands(start)
  PROVE  /\ command.visible \subseteq DOMAIN remote
         /\ \A p \in command.visible : IsBelow(p, start)
         /\ \A dm \in VolumeList(command, start) : MapOK(dm, start, command.visible, {})
<1>1. PICK o \in Outcomes :
         \E lines \in StatLines(remote, WithinDepth(Visible(remote, start, o.denied), start)) :
             command = [stdout |-> o.out \o lines, stderr |-> o.err, broken |-> o.broken, exit |-> o.exit,
                        visible |-> Visible(remote, start, o.denied)]
  BY DEF Commands
<1> DEFINE V == Visible(remote, start, o.denied)
           W == WithinDepth(V, start)
<1>2. PICK lines \in StatLines(remote, W) :
         command.stdout = o.out \o lines /\ command.visible = V
  BY <1>1
<1>3. /\ V \subseteq DOMAIN remote
      /\ \A p \in V : IsBelow(p, start) /\ (Parent(p) = start \/ Parent(p) \in V)
  BY OutcomeFacts, VisibleFacts
<1>4. V \subseteq DOMAIN Initial /\ \A p \in V : remote[p] = Initial[p]
  BY <1>3 DEF RemoteOK
<1>5. W = {p \in V : Len(p) <= Len(start) + MaxDepth}
  BY DEF WithinDepth
<1> HIDE DEF V, W
<1>6. PICK order \in [1..Cardinality(W) -> W] :
         /\ \A p \in W : \E i \in DOMAIN order : order[i] = p
         /\ \A i, j \in DOMAIN order : IsBelow(order[j], order[i]) => i < j
         /\ lines = [i \in DOMAIN order |-> [path |-> order[i], kind |-> remote[order[i]]]]
  BY <1>2 DEF StatLines
<1>7. Cardinality(W) \in Nat
  <2>1. IsFiniteSet(W) BY <1>4, <1>5, TreeAssumption, FS_Subset
  <2> QED BY <2>1, FS_CardinalityType
<1> DEFINE n == Cardinality(W)
<1>8. /\ lines \in Seq([path : W, kind : {"dir", "file"}]) /\ Len(lines) = n
      /\ \A i \in 1..n : lines[i] = [path |-> order[i], kind |-> Initial[order[i]]]
  <2>1. \A i \in 1..n : order[i] \in W /\ remote[order[i]] = Initial[order[i]] /\ Initial[order[i]] \in {"dir", "file"}
    BY <1>4, <1>5, <1>6, NodeFacts
  <2>2. \A i \in 1..n : lines[i] = [path |-> order[i], kind |-> Initial[order[i]]]
    BY <1>6, <2>1
  <2>3. lines \in [1..n -> [path : W, kind : {"dir", "file"}]]
    BY <1>6, <2>1
  <2> HIDE DEF n
  <2>4. n \in Nat BY <1>7 DEF n
  <2>5. lines \in Seq([path : W, kind : {"dir", "file"}])
    <3> DEFINE S == [path : W, kind : {"dir", "file"}]
    <3> HIDE DEF S
    <3>1. lines \in [1..n -> S] BY <2>3 DEF S
    <3>2. lines \in Seq(S) BY <2>4, <3>1
    <3> QED BY <3>2 DEF S
  <2>6. DOMAIN lines = 1..n BY <2>3
  <2>7. Len(lines) = n BY <2>4, <2>5, <2>6, LenProperties
  <2> QED BY <2>2, <2>5, <2>7
<1>9. ASSUME NEW dm \in VolumeList(command, start) PROVE MapOK(dm, start, V, {})
  <2>1. dm = Scan(command.stdout, MaxDepth + Len(start)) /\ Other \notin Range(command.stdout)
    BY <1>9 DEF VolumeList, ParseStatPOSIX, ParseStatPowershell
  <2> DEFINE L == command.stdout
             k == Len(o.out)
  <2>2. /\ o.out \in Seq({Normal, Other}) /\ k \in 0..1
        /\ \A i \in 1..k : o.out[i] \in {Normal, Other}
    <3>1. CASE o.out = <<>> BY <3>1
    <3>2. CASE o.out = <<Normal>> BY <3>2
    <3>3. CASE o.out = <<Other>> BY <3>3
    <3> QED BY <3>1, <3>2, <3>3, OutcomeFacts
  <2>3. /\ Len(L) = k + n /\ DOMAIN L = 1..k + n
        /\ \A i \in 1..k : L[i] = o.out[i]
        /\ \A i \in k + 1..k + n : L[i] = lines[i - k]
    BY <1>2, <1>7, <1>8, <2>2
  <2> HIDE DEF L, k, n
  <2>4. k \in 0..1 /\ n \in Nat BY <1>7, <2>2 DEF n
  <2>5. \A i \in 1..k : L[i] = Normal
    <3>1. \A i \in 1..k : L[i] \in Range(L) BY <2>3, <2>4 DEF Range
    <3> QED BY <2>1, <2>2, <2>3, <3>1 DEF L
  <2>6. \A i \in k + 1..k + n : /\ i - k \in 1..n
                               /\ L[i].path = order[i - k] /\ order[i - k] \in W
                               /\ L[i].kind = Initial[order[i - k]]
                               /\ L[i] # Normal
    <3>1. ASSUME NEW i \in k + 1..k + n PROVE i - k \in 1..n BY <2>4
    <3>2. ASSUME NEW i \in k + 1..k + n
          PROVE  L[i] = [path |-> order[i - k], kind |-> Initial[order[i - k]]] /\ order[i - k] \in W
      BY <1>6, <1>8, <2>3, <3>1 DEF n
    <3>3. ASSUME NEW i \in k + 1..k + n PROVE Initial[order[i - k]] # "normal"
      BY <1>4, <1>5, <3>2, NodeFacts
    <3>4. ASSUME NEW i \in k + 1..k + n
          PROVE  L[i].path = order[i - k] /\ L[i].kind = Initial[order[i - k]] /\ L[i] # Normal
      <4>0. L[i] = [path |-> order[i - k], kind |-> Initial[order[i - k]]] BY <3>2
      <4>1. L[i].path = order[i - k] /\ L[i].kind = Initial[order[i - k]] BY <4>0
      <4>2. Normal.kind = "normal" BY DEF Normal
      <4> QED BY <3>3, <3>4, <4>1, <4>2
    <3> QED BY <3>1, <3>2, <3>4
  <2>7. \A i \in 1..Len(L) : i \in 1..k \/ i \in k + 1..k + n BY <2>3, <2>4
  <2>8. Len(L) \in Nat BY <2>3, <2>4
  <2>9. \A i \in 1..Len(L) : L[i] # Normal => L[i].path \in W /\ L[i].kind = Initial[L[i].path]
    BY <2>5, <2>6, <2>7
  <2>10. ASSUME NEW p \in W PROVE \E i \in 1..Len(L) : L[i] # Normal /\ L[i].path = p
    <3>1. PICK j \in 1..n : order[j] = p BY <1>6 DEF n
    <3>2. j + k \in k + 1..k + n /\ j + k \in 1..Len(L) /\ (j + k) - k = j BY <2>3, <2>4
    <3> QED BY <2>6, <3>1, <3>2
  <2>11. ASSUME NEW i \in 1..Len(L), NEW j \in 1..Len(L), L[i] # Normal, L[j] # Normal,
                IsBelow(L[j].path, L[i].path)
         PROVE  i < j
    <3>1. i \in k + 1..k + n /\ j \in k + 1..k + n BY <2>5, <2>7, <2>11
    <3>2. i - k < j - k BY <1>6, <2>6, <2>11, <3>1 DEF n
    <3> QED BY <2>4, <3>2
  <2>12. \A p \in W : IsBelow(p, start) /\ Len(p) <= Len(start) + MaxDepth
                     /\ (Parent(p) = start \/ Parent(p) \in W)
    <3>1. ASSUME NEW p \in W, Parent(p) # start PROVE Parent(p) \in W
      <4>1. p \in V /\ p \in Paths /\ p # RootPath BY <1>4, <1>5, NodeFacts
      <4>2. Parent(p) \in V BY <1>3, <3>1, <4>1
      <4>3. Len(Parent(p)) = Len(p) - 1 /\ Len(p) \in Nat /\ Len(start) \in Nat /\ MaxDepth \in Nat
        BY <4>1, ParentFacts, DepthAssumption DEF Paths
      <4>4. Len(p) <= Len(start) + MaxDepth BY <1>5
      <4> QED BY <1>5, <4>2, <4>3, <4>4
    <3> QED BY <1>3, <1>5, <3>1
  <2>13. ScanOK(Scan(L, MaxDepth + Len(start)), start, W)
    <3>1. W \subseteq DOMAIN Initial BY <1>4, <1>5
    <3> QED BY <2>8, <2>9, <2>10, <2>11, <2>12, <3>1, ScanCorrect
  <2>14. ScanOK(dm, start, WithinDepth(V, start)) BY <2>1, <2>13 DEF L, W
  <2> QED BY <1>3, <1>4, <2>14, FreshMap
<1> QED BY <1>2, <1>3, <1>9

-----------------------------------------------------------------------------
(* Lists, and what keeps them exact *)

\* The history only grows, and a dirmap that was made only loses nodes.
Grows(snaps, snaps2) ==
    /\ Len(snaps) \in Nat /\ Len(snaps2) \in Nat /\ Len(snaps) <= Len(snaps2)
    /\ \A i \in 1..Len(snaps) : snaps2[i] = snaps[i]

Shrinks(dirmaps, dirmaps2, n) ==
    \A i \in 1..n : \A p \in Paths \ {RootPath} : Holds(dirmaps2[i], p) => Holds(dirmaps[i], p)

LEMMA LostGrows ==
  ASSUME NEW p, NEW dels, NEW dels2, dels \subseteq dels2, Lost(p, dels)
  PROVE  Lost(p, dels2)
BY DEF Lost

LEMMA MapGrows ==
  ASSUME NEW dm, NEW s, NEW nodes, NEW dels, NEW dels2, dels \subseteq dels2, MapOK(dm, s, nodes, dels)
  PROVE  MapOK(dm, s, nodes, dels2)
<1>1. \A p : Lost(p, dels) => Lost(p, dels2) BY LostGrows
<1> QED BY <1>1 DEF MapOK

LEMMA EntryGrows ==
  ASSUME NEW e, NEW snaps, NEW snaps2, Grows(snaps, snaps2), EntryOK(e, snaps)
  PROVE  EntryOK(e, snaps2)
<1>1. e.dirmap # 0 => e.dirmap \in 1..Len(snaps) /\ e.dirmap \in 1..Len(snaps2) /\ snaps2[e.dirmap] = snaps[e.dirmap]
  BY DEF EntryOK, Grows
<1> QED BY <1>1 DEF EntryOK

LEMMA ShownGrows ==
  ASSUME NEW shown, NEW i, NEW q, NEW snaps, NEW snaps2, Grows(snaps, snaps2), i \in 1..Len(snaps),
         NEW dels, NEW dels2, dels \subseteq dels2, ShownOK(shown, i, q, snaps, dels)
  PROVE  ShownOK(shown, i, q, snaps2, dels2) /\ i \in 1..Len(snaps2)
<1>1. i \in 1..Len(snaps2) /\ snaps2[i] = snaps[i] BY DEF Grows
<1>2. \A p : Lost(p, dels) => Lost(p, dels2) BY LostGrows
<1>3. \A e : EntryOK(e, snaps) => EntryOK(e, snaps2) BY EntryGrows
<1> QED BY <1>1, <1>2, <1>3 DEF ShownOK

LEMMA ClientGrows ==
  ASSUME NEW cl, NEW snaps, NEW snaps2, Grows(snaps, snaps2), NEW dels, NEW dels2, dels \subseteq dels2,
         NEW dirmaps, NEW dirmaps2, Shrinks(dirmaps, dirmaps2, Len(snaps)),
         ClientOK(cl, snaps, dels, dirmaps)
  PROVE  ClientOK(cl, snaps2, dels2, dirmaps2)
<1>1. EntryOK(cl.entry, snaps2) BY EntryGrows DEF ClientOK
<1>2. cl.pc = "listed" => cl.of \in 1..Len(snaps2) /\ ShownOK(cl.shown, cl.of, cl.entry.path, snaps2, dels2)
  <2>1. SUFFICES ASSUME cl.pc = "listed"
                 PROVE  cl.of \in 1..Len(snaps2) /\ ShownOK(cl.shown, cl.of, cl.entry.path, snaps2, dels2)
    OBVIOUS
  <2>2. cl.of \in 1..Len(snaps) /\ ShownOK(cl.shown, cl.of, cl.entry.path, snaps, dels)
    BY <2>1 DEF ClientOK
  <2> QED BY <2>2, ShownGrows
<1>3. ASSUME cl.pc = "deleted" PROVE cl.entry.dirmap # 0 /\ ~Holds(dirmaps2[cl.entry.dirmap], cl.entry.path)
  <2>1. cl.entry.dirmap # 0 /\ ~Holds(dirmaps[cl.entry.dirmap], cl.entry.path) /\ cl.entry.path # RootPath
    BY <1>3 DEF ClientOK
  <2>2. cl.entry.dirmap \in 1..Len(snaps) /\ cl.entry.path \in Paths BY <2>1 DEF ClientOK, EntryOK
  <2> QED BY <2>1, <2>2 DEF Shrinks
<1>4. cl.pc \in {"deleting", "deleted"} => cl.entry.path \in dels2 /\ cl.entry.path # RootPath
  BY DEF ClientOK
<1> QED BY <1>1, <1>2, <1>3, <1>4 DEF ClientOK

LEMMA CachedGrows ==
  ASSUME NEW lists, NEW snaps, NEW snaps2, Grows(snaps, snaps2), NEW dels, NEW dels2, dels \subseteq dels2,
         CachedOK(lists, snaps, dels)
  PROVE  CachedOK(lists, snaps2, dels2)
<1> SUFFICES ASSUME NEW q \in DOMAIN lists
             PROVE  /\ q \in Paths /\ DOMAIN lists[q] = {"of", "children"}
                    /\ lists[q].of \in 1..Len(snaps2) /\ snaps2[lists[q].of].start = q
                    /\ ShownOK(lists[q].children, lists[q].of, q, snaps2, dels2)
  BY DEF CachedOK
<1>1. /\ q \in Paths /\ DOMAIN lists[q] = {"of", "children"}
      /\ lists[q].of \in 1..Len(snaps) /\ snaps[lists[q].of].start = q
      /\ ShownOK(lists[q].children, lists[q].of, q, snaps, dels)
  BY DEF CachedOK
<1>2. snaps2[lists[q].of] = snaps[lists[q].of] BY <1>1 DEF Grows
<1> QED BY <1>1, <1>2, ShownGrows

\* A list made from a dirmap is exact, and its entries are what they should be.
LEMMA GenerateOK ==
  ASSUME NEW dm, NEW snaps, NEW i \in 1..Len(snaps), NEW dels, SnapOK(snaps[i]),
         MapOK(dm, snaps[i].start, snaps[i].nodes, dels),
         NEW q \in Paths, AtOrBelow(q, snaps[i].start), Len(q) < Len(snaps[i].start) + MaxDepth,
         Len(snaps) \in Nat
  PROVE  ShownOK(GenerateChildren(dm, i, q), i, q, snaps, dels)
<1> DEFINE s == snaps[i].start
           V == snaps[i].nodes
           parent == IF q \in DOMAIN dm THEN dm[q] ELSE Empty
           Explored(n) == Append(q, n) \in DOMAIN dm /\ dm[Append(q, n)] # Nil
           G == GenerateChildren(dm, i, q)
<1>0. s \in Paths /\ V \subseteq DOMAIN Initial /\ Aligned(Len(s)) /\ Len(s) \in Nat /\ Len(q) \in Nat
      /\ MaxDepth \in Nat \ {0}
  BY DepthAssumption DEF SnapOK, Paths
<1>1. DOMAIN G = DOMAIN parent
      /\ \A n \in DOMAIN parent :
            G[n] = [path |-> Append(q, n), kind |-> parent[n],
                    dirmap |-> IF parent[n] = "dir" /\ ~Explored(n) THEN 0 ELSE i]
  BY DEF GenerateChildren
<1>2. q \in DOMAIN dm => dm[q] # Nil
  BY <1>0 DEF MapOK
<1>3. \A n \in DOMAIN parent :
         /\ q \in DOMAIN dm /\ n \in STRING /\ Append(q, n) \in V
         /\ parent[n] = Initial[Append(q, n)]
         /\ parent[n] = "dir" /\ Len(q) + 1 # Len(s) + MaxDepth => Append(q, n) \in DOMAIN dm
  <2>1. q \notin DOMAIN dm => DOMAIN parent = {} BY DEF Empty
  <2>2. CASE q \in DOMAIN dm BY <1>2, <2>2 DEF MapOK
  <2> QED BY <2>1, <2>2
<1> HIDE DEF parent, G
<1>4. ASSUME NEW n \in DOMAIN G
      PROVE  /\ n \in STRING /\ G[n].path = Append(q, n) /\ Append(q, n) \in V
             /\ G[n].dirmap \in {0, i} /\ EntryOK(G[n], snaps)
  <2> DEFINE sub == Append(q, n)
  <2>1. n \in DOMAIN parent /\ n \in STRING /\ sub \in V /\ parent[n] = Initial[sub] BY <1>1, <1>3
  <2>2. sub \in Paths /\ Len(sub) = Len(q) + 1 /\ Parent(sub) = q /\ sub # RootPath BY <2>1, AppendFacts
  <2>3. parent[n] \in {"dir", "file"} BY <1>0, <2>1, NodeFacts
  <2>4. IsBelow(sub, s) BY <1>0, <2>2, BelowParent
  <2>5. /\ G[n].path = sub /\ G[n].kind = parent[n]
        /\ G[n].dirmap = IF parent[n] = "dir" /\ ~Explored(n) THEN 0 ELSE i
        /\ G[n] \in [path : Paths, kind : {"dir", "file"}, dirmap : Nat]
    <3> DEFINE x == IF parent[n] = "dir" /\ ~Explored(n) THEN 0 ELSE i
    <3>1. x \in Nat OBVIOUS
    <3>2. G[n] = [path |-> sub, kind |-> parent[n], dirmap |-> x] BY <1>1, <2>1
    <3> HIDE DEF x, sub
    <3>3. G[n].path = sub /\ G[n].kind = parent[n] /\ G[n].dirmap = x BY <3>2
    <3>4. G[n] \in [path : Paths, kind : {"dir", "file"}, dirmap : Nat] BY <2>2, <2>3, <3>1, <3>2
    <3> QED BY <3>3, <3>4 DEF x
  <2>6. AtOrBelow(sub, s) BY <2>4 DEF AtOrBelow
  <2>7. ASSUME G[n].dirmap = 0 PROVE G[n].kind = "dir" /\ Aligned(Len(sub))
    <3>1. parent[n] = "dir" /\ ~Explored(n) BY <2>5, <2>7
    <3>2. Len(sub) = Len(s) + MaxDepth
      <4>1. SUFFICES ASSUME Len(sub) # Len(s) + MaxDepth PROVE FALSE OBVIOUS
      <4>2. sub \in DOMAIN dm BY <1>3, <2>1, <2>2, <3>1, <4>1
      <4>3. dm[sub] # Nil BY <2>6, <4>1, <4>2 DEF MapOK
      <4> QED BY <3>1, <4>2, <4>3
    <3> QED BY <1>0, <2>5, <3>1, <3>2, AlignedNext
  <2>8. ASSUME G[n].dirmap # 0
        PROVE  G[n].dirmap = i /\ Len(sub) <= Len(s) + MaxDepth
               /\ (G[n].kind = "dir" => Len(sub) # Len(s) + MaxDepth)
    <3>1. G[n].dirmap = i /\ (parent[n] = "dir" => Explored(n)) BY <2>5, <2>8
    <3>2. parent[n] = "dir" => Len(sub) # Len(s) + MaxDepth BY <2>6, <3>1 DEF MapOK
    <3>3. Len(sub) <= Len(s) + MaxDepth BY <1>0, <2>2
    <3> QED BY <2>5, <3>1, <3>2, <3>3
  <2> HIDE DEF sub
  <2>9. EntryOK(G[n], snaps)
    BY <2>4, <2>5, <2>7, <2>8 DEF EntryOK
  <2>10. G[n].dirmap \in {0, i} BY <2>5
  <2> QED BY <2>1, <2>5, <2>9, <2>10 DEF sub
<1>5. ASSUME NEW p \in V, Parent(p) = q, ~Lost(p, dels) PROVE Last(p) \in DOMAIN G
  <2>1. p \in Paths /\ p # RootPath BY <1>0, NodeFacts
  <2>2. Len(p) <= Len(s) + MaxDepth BY <1>0, <1>5, <2>1, ParentFacts
  <2>3. Holds(dm, p) BY <1>5, <2>2 DEF MapOK
  <2> QED BY <1>1, <1>5, <2>3 DEF Holds, parent
<1>6. \A p \in V : Parent(p) = q => Lost(p, dels) \/ Last(p) \in DOMAIN G BY <1>5
<1> QED BY <1>4, <1>6 DEF ShownOK, G

\* A dirmap without a node that was deleted
LEMMA WithoutOK ==
  ASSUME NEW dm, NEW s \in Paths, NEW V, V \subseteq DOMAIN Initial, NEW dels, MapOK(dm, s, V, dels),
         \A x \in V : IsBelow(x, s), NEW p \in Paths, p # RootPath, p \in dels
  PROVE  /\ MapOK(WithoutNode(dm, p), s, V, dels)
         /\ ~Holds(WithoutNode(dm, p), p)
         /\ \A x \in Paths \ {RootPath} : Holds(WithoutNode(dm, p), x) => Holds(dm, x)
<1> DEFINE N == WithoutNode(dm, p)
           pp == Parent(p)
<1>1. /\ DOMAIN N = DOMAIN dm \ {p}
      /\ \A q \in DOMAIN N : q # pp \/ dm[q] = Nil => N[q] = dm[q]
      /\ pp \in DOMAIN N /\ dm[pp] # Nil => /\ DOMAIN N[pp] = DOMAIN dm[pp] \ {Last(p)}
                                          /\ \A n \in DOMAIN N[pp] : N[pp][n] = dm[pp][n]
  BY DEF WithoutNode, Without
<1>2. pp \in Paths /\ Last(p) \in STRING /\ p = Append(pp, Last(p)) BY ParentFacts, ParentLast
<1>3. DOMAIN dm \subseteq Paths BY DEF MapOK
<1> HIDE DEF N, pp
<1>4. ASSUME NEW q \in DOMAIN N, AtOrBelow(q, s)
      PROVE  N[q] = Nil <=> dm[q] = Nil
  <2>1. SUFFICES ASSUME q = pp, dm[q] # Nil, N[q] = Nil PROVE FALSE BY <1>1
  <2>2. "nil" \in DOMAIN N[q] /\ N[q]["nil"] = "nil" BY <2>1 DEF Nil
  <2>3. "nil" \in DOMAIN dm[q] /\ dm[q]["nil"] = "nil" BY <1>1, <2>1, <2>2
  <2>4. Append(q, "nil") \in V /\ dm[q]["nil"] = Initial[Append(q, "nil")]
    BY <1>1, <1>4, <2>1, <2>3 DEF MapOK
  <2> QED BY <2>3, <2>4, NodeFacts
<1>5. ASSUME NEW q \in DOMAIN N, AtOrBelow(q, s)
      PROVE  Len(q) <= Len(s) + MaxDepth /\ (N[q] = Nil <=> Len(q) = Len(s) + MaxDepth)
  BY <1>1, <1>4, <1>5 DEF MapOK
<1>6. ASSUME NEW q \in DOMAIN N, AtOrBelow(q, s), N[q] # Nil, NEW n \in DOMAIN N[q]
      PROVE  /\ n \in STRING /\ Append(q, n) \in V /\ N[q][n] = Initial[Append(q, n)]
             /\ N[q][n] = "dir" /\ Len(q) + 1 # Len(s) + MaxDepth => Append(q, n) \in DOMAIN N
  <2>1. q \in DOMAIN dm /\ dm[q] # Nil BY <1>1, <1>4, <1>6
  <2>2. n \in DOMAIN dm[q] /\ N[q][n] = dm[q][n] /\ (q = pp => n # Last(p)) BY <1>1, <1>6, <2>1
  <2>3. /\ n \in STRING /\ Append(q, n) \in V /\ dm[q][n] = Initial[Append(q, n)]
        /\ dm[q][n] = "dir" /\ Len(q) + 1 # Len(s) + MaxDepth => Append(q, n) \in DOMAIN dm
    BY <1>6, <2>1, <2>2 DEF MapOK
  <2>4. Append(q, n) # p
    <3>1. q \in Paths BY <1>3, <2>1
    <3>2. Parent(Append(q, n)) = q /\ Last(Append(q, n)) = n BY <2>3, <3>1, AppendFacts
    <3> QED BY <2>2, <3>2 DEF pp
  <2> QED BY <1>1, <2>2, <2>3, <2>4
<1>7. ASSUME NEW x \in V, Len(x) <= Len(s) + MaxDepth, ~Lost(x, dels) PROVE Holds(N, x)
  <2>1. Holds(dm, x) BY <1>7 DEF MapOK
  <2>2. x \in Paths /\ x # RootPath BY NodeFacts
  <2>3. x # p /\ ~IsBelow(x, p) BY <1>7 DEF Lost, AtOrBelow
  <2>4. Parent(x) # p BY <2>2, <2>3, BelowParent DEF AtOrBelow
  <2>5. Parent(x) = pp => Last(x) # Last(p) BY <1>2, <2>2, <2>3, ParentLast
  <2>6. Parent(x) \in DOMAIN N /\ Last(x) \in DOMAIN N[Parent(x)]
    BY <1>1, <2>1, <2>4, <2>5 DEF Holds
  <2>7. AtOrBelow(Parent(x), s) BY <2>2, BelowParent
  <2>8. N[Parent(x)] # Nil BY <1>4, <2>1, <2>6, <2>7 DEF Holds
  <2> QED BY <2>6, <2>8 DEF Holds
<1>8. ASSUME NEW x \in Paths \ {RootPath}, Holds(N, x) PROVE Holds(dm, x)
  <2>1. Parent(x) \in DOMAIN dm /\ N[Parent(x)] # Nil /\ Last(x) \in DOMAIN N[Parent(x)]
    BY <1>1, <1>8 DEF Holds
  <2>2. dm[Parent(x)] # Nil /\ Last(x) \in DOMAIN dm[Parent(x)]
    BY <1>1, <1>8, <2>1 DEF Holds
  <2> QED BY <2>1, <2>2 DEF Holds
<1>9. ~Holds(N, p)
  BY <1>1 DEF Holds, pp
<1>10. LeadsOK(N, s)
  <2>1. LeadsOK(dm, s) BY DEF MapOK
  <2> SUFFICES ASSUME NEW q \in DOMAIN N, ~AtOrBelow(q, s), NEW n \in DOMAIN N[q] PROVE N[q][n] = "dir"
    BY DEF LeadsOK
  <2>2. q \in DOMAIN dm /\ n \in DOMAIN dm[q] /\ N[q][n] = dm[q][n] BY <1>1
  <2> QED BY <2>1, <2>2 DEF LeadsOK
<1>11. MapOK(N, s, V, dels)
  BY <1>1, <1>3, <1>5, <1>6, <1>7, <1>10 DEF MapOK
<1> QED BY <1>8, <1>9, <1>11 DEF N

\* The volume stays a tree when a node is removed, or made again.
LEMMA RemoveOK ==
  ASSUME NEW disk, RemoteOK(disk), NEW d \in Paths
  PROVE  RemoteOK(Without(disk, {p \in DOMAIN disk : p = d \/ IsBelow(p, d)}))
<1> DEFINE N == Without(disk, {p \in DOMAIN disk : p = d \/ IsBelow(p, d)})
<1>1. /\ DOMAIN N = {p \in DOMAIN disk : ~AtOrBelow(p, d)}
      /\ \A p \in DOMAIN N : N[p] = disk[p]
  BY DEF Without, AtOrBelow
<1> HIDE DEF N
<1>2. ASSUME NEW p \in DOMAIN N, Parent(p) # RootPath PROVE Parent(p) \in DOMAIN N
  <2>1. p \in DOMAIN disk /\ ~AtOrBelow(p, d) /\ p \in Paths /\ p # RootPath
    BY <1>1, NodeFacts DEF RemoteOK
  <2>2. ~AtOrBelow(Parent(p), d) BY <2>1, BelowParent DEF AtOrBelow
  <2> QED BY <1>1, <1>2, <2>1, <2>2 DEF RemoteOK
<1>3. RemoteOK(N) BY <1>1, <1>2 DEF RemoteOK
<1> QED BY <1>3 DEF N

LEMMA AddOK ==
  ASSUME NEW disk, RemoteOK(disk), NEW p \in DOMAIN Initial, Parent(p) \in DOMAIN disk \union {RootPath}
  PROVE  RemoteOK(Put(disk, p, Initial[p]))
BY DEF RemoteOK, Put

\* What plugin.Delete leaves in the cache is exact but for what was deleted.
LEMMA CacheWithoutOK ==
  ASSUME NEW path \in Paths, path # RootPath, NEW snaps, NEW dels, path \in dels,
         CachedOK(cached, snaps, dels), \A i \in 1..Len(snaps) : SnapOK(snaps[i])
  PROVE  /\ CachedOK(CacheWithout(path), snaps, dels)
         /\ DOMAIN CacheWithout(path) \subseteq DOMAIN cached
         /\ \A q \in DOMAIN CacheWithout(path) :
               /\ CacheWithout(path)[q].of = cached[q].of
               /\ DOMAIN CacheWithout(path)[q].children \subseteq DOMAIN cached[q].children
               /\ q = Parent(path) => Last(path) \notin DOMAIN CacheWithout(path)[q].children
<1> DEFINE N == CacheWithout(path)
<1>1. /\ DOMAIN N \subseteq DOMAIN cached
      /\ \A q \in DOMAIN N : N[q] = IF q = Parent(path) THEN [cached[q] EXCEPT !.children = Without(@, {Last(path)})]
                                    ELSE cached[q]
  BY DEF CacheWithout
<1> HIDE DEF N
<1>2. ASSUME NEW q \in DOMAIN N
      PROVE  /\ q \in Paths /\ DOMAIN N[q] = {"of", "children"}
             /\ N[q].of = cached[q].of
             /\ q # Parent(path) => N[q].children = cached[q].children
             /\ q = Parent(path) => N[q].children = Without(cached[q].children, {Last(path)})
             /\ cached[q].of \in 1..Len(snaps) /\ snaps[cached[q].of].start = q
             /\ ShownOK(cached[q].children, cached[q].of, q, snaps, dels)
  BY <1>1 DEF CachedOK
<1>3. ASSUME NEW q \in DOMAIN N
      PROVE  ShownOK(N[q].children, N[q].of, q, snaps, dels) /\ DOMAIN N[q].children \subseteq DOMAIN cached[q].children
             /\ (q = Parent(path) => Last(path) \notin DOMAIN N[q].children)
  <2>1. CASE q # Parent(path) BY <1>2, <2>1
  <2>2. CASE q = Parent(path)
    <3> DEFINE old == cached[q].children
               new == N[q].children
               i == cached[q].of
    <3>0. new = Without(old, {Last(path)}) BY <1>2, <2>2
    <3>1. DOMAIN new = DOMAIN old \ {Last(path)} /\ \A n \in DOMAIN new : new[n] = old[n]
      <4> HIDE DEF new, old
      <4> QED BY <3>0 DEF Without
    <3>2. ShownOK(old, i, q, snaps, dels) BY <1>2
    <3>3. N[q].of = i BY <1>2
    <3> HIDE DEF old, new, i
    <3>4. ASSUME NEW p \in snaps[i].nodes, Parent(p) = q, ~Lost(p, dels) PROVE Last(p) \in DOMAIN new
      <4>1. Last(p) \in DOMAIN old BY <3>2, <3>4 DEF ShownOK
      <4>2. old[Last(p)].path = Append(q, Last(p)) /\ Append(q, Last(p)) \in snaps[i].nodes /\ Last(p) \in STRING
        BY <3>2, <4>1 DEF ShownOK
      <4>3. Last(p) # Last(path)
        <5>1. SUFFICES ASSUME Last(p) = Last(path) PROVE FALSE OBVIOUS
        <5>2. p # path BY <3>4 DEF Lost, AtOrBelow
        <5>3. path = Append(q, Last(p)) BY <2>2, <5>1, ParentLast
        <5>4. p = Append(q, Last(p))
          <6>1. i \in 1..Len(snaps) BY <1>2 DEF i
          <6>2. p \in DOMAIN Initial BY <6>1 DEF SnapOK
          <6>3. p \in Paths /\ p # RootPath BY <6>2, NodeFacts
          <6> QED BY <3>4, <6>3, ParentLast
        <5> QED BY <5>2, <5>3, <5>4
      <4> QED BY <3>1, <4>1, <4>3
    <3>5. ShownOK(new, i, q, snaps, dels)
      BY <3>1, <3>2, <3>4 DEF ShownOK
    <3> QED BY <3>1, <3>3, <3>5 DEF new, old
  <2> QED BY <2>1, <2>2
<1>4. CachedOK(N, snaps, dels)
  BY <1>2, <1>3 DEF CachedOK
<1> QED BY <1>1, <1>2, <1>3, <1>4 DEF N

-----------------------------------------------------------------------------
(* The invariant *)

LEMMA RootOK == \A snaps : EntryOK(Root, snaps)
<1>1. Root.path = RootPath /\ Root.kind = "dir" /\ Root.dirmap = 0 BY DEF Root
<1>2. Root \in [path : Paths, kind : {"dir", "file"}, dirmap : Nat] BY RootFacts DEF Root
<1> QED BY <1>1, <1>2, RootFacts, AlignedZero DEF EntryOK

LEMMA IdleFacts ==
  /\ DOMAIN Idle = ClientFields /\ Idle.pc = "idle" /\ Idle.entry = Root /\ Idle.overlap = FALSE
  /\ Idle.stream = NoStream /\ Idle.result = {}
BY DEF Idle, ClientFields

\* A client that neither lists nor deletes
LEMMA QuietOK ==
  ASSUME NEW cl, NEW snaps, NEW dels, NEW dirmaps, DOMAIN cl = ClientFields, EntryOK(cl.entry, snaps),
         cl.overlap \in BOOLEAN, cl.pc \in {"idle", "streaming", "streamed", "panicked"}
  PROVE  ClientOK(cl, snaps, dels, dirmaps)
BY DEF ClientOK

LEMMA IdleOK == \A snaps, dels, dirmaps : ClientOK(Idle, snaps, dels, dirmaps)
BY IdleFacts, RootOK, QuietOK

LEMMA SeqAppend ==
  ASSUME NEW q, q \in Seq(Range(q)), NEW x
  PROVE  /\ Append(q, x) \in Seq(Range(Append(q, x)))
         /\ Len(q) \in Nat /\ Len(Append(q, x)) = Len(q) + 1
         /\ Append(q, x)[Len(q) + 1] = x
         /\ \A i \in 1..Len(q) : Append(q, x)[i] = q[i]
<1> DEFINE a == Append(q, x)
           S == Range(q) \union {x}
<1>1. q \in Seq(S) /\ x \in S
  <2>1. Len(q) \in Nat /\ q \in [1..Len(q) -> Range(q)] BY LenProperties
  <2>2. q \in [1..Len(q) -> S] /\ x \in S BY <2>1
  <2> HIDE DEF S
  <2> QED BY <2>1, <2>2
<1> HIDE DEF S
<1>2. /\ a \in Seq(S) /\ Len(q) \in Nat /\ Len(a) = Len(q) + 1 /\ DOMAIN a = 1..Len(a)
      /\ a[Len(q) + 1] = x
      /\ \A i \in 1..Len(q) : a[i] = q[i]
  BY <1>1, AppendProperties, LenProperties
<1> HIDE DEF a
<1>3. a \in [1..Len(a) -> Range(a)]
  BY <1>2 DEF Range
<1>4. a \in Seq(Range(a)) BY <1>2, <1>3
<1> QED BY <1>2, <1>4 DEF a

LEMMA SeqOfFunction ==
  ASSUME NEW n \in Nat, NEW S, NEW r \in [1..n -> S]
  PROVE  r \in Seq(Range(r)) /\ Len(r) = n
<1>1. r \in [1..n -> Range(r)] /\ DOMAIN r = 1..n BY DEF Range
<1>2. r \in Seq(Range(r)) BY <1>1
<1>3. DOMAIN r = 1..Len(r) /\ Len(r) \in Nat BY <1>2, LenProperties
<1> QED BY <1>1, <1>2, <1>3

LEMMA VolumeInit == Init => VolumeInv
<1> SUFFICES ASSUME Init PROVE VolumeInv OBVIOUS
<1>1. RemoteOK(remote)
  BY NodeFacts DEF Init, RemoteOK
<1>2. MapsInv
  <2>1. maps = <<>> /\ snapshot = <<>> BY DEF Init
  <2>2. <<>> \in Seq(Range(<<>>)) /\ Len(<<>>) = 0 OBVIOUS
  <2> QED BY <2>1, <2>2, DepthAssumption DEF MapsInv
<1>3. DOMAIN cached = {} BY DEF Init, Empty
<1>4. DOMAIN client = Clients /\ \A c \in Clients : client[c] = Idle BY DEF Init
<1>5. \A c \in Clients : ClientOK(client[c], snapshot, deletions, maps) BY <1>4, IdleOK
<1> QED BY <1>1, <1>2, <1>3, <1>4, <1>5 DEF VolumeInv, CachedOK, Init

\* A step that only changes what one client does
LEMMA ClientStep ==
  ASSUME VolumeInv, fs = "accessible", NEW c \in Clients, NEW cl,
         client' = [client EXCEPT ![c] = cl], ClientOK(cl, snapshot, deletions, maps),
         UNCHANGED <<remote, fs, maps, cached, snapshot, deletions>>
  PROVE  VolumeInv'
<1>1. DOMAIN client = Clients /\ \A d \in Clients : ClientOK(client[d], snapshot, deletions, maps)
  BY DEF VolumeInv
<1>2. DOMAIN client' = Clients /\ \A d \in Clients : client'[d] = IF d = c THEN cl ELSE client[d]
  BY <1>1
<1>3. \A d \in Clients : ClientOK(client'[d], snapshot, deletions, maps)
  BY <1>1, <1>2
<1>4. MapsInv' BY DEF VolumeInv, MapsInv
<1> QED BY <1>2, <1>3, <1>4 DEF VolumeInv

\* What the invariant says of the client that steps
LEMMA ClientFacts ==
  ASSUME VolumeInv, NEW c \in Clients
  PROVE  /\ ClientOK(client[c], snapshot, deletions, maps)
         /\ EntryOK(Entry(c), snapshot) /\ DOMAIN client[c] = ClientFields
         /\ Entry(c).path \in Paths /\ Entry(c).dirmap \in Nat /\ client[c].overlap \in BOOLEAN
         /\ c \in DOMAIN client
<1>1. ClientOK(client[c], snapshot, deletions, maps) /\ c \in DOMAIN client BY DEF VolumeInv
<1>2. EntryOK(Entry(c), snapshot) /\ DOMAIN client[c] = ClientFields /\ client[c].overlap \in BOOLEAN
  BY <1>1 DEF ClientOK, Entry
<1> QED BY <1>1, <1>2 DEF EntryOK

LEMMA SnapFacts ==
  ASSUME VolumeInv, NEW i \in 1..Len(snapshot)
  PROVE  /\ SnapOK(snapshot[i]) /\ MapOK(maps[i], snapshot[i].start, snapshot[i].nodes, deletions)
         /\ snapshot[i].start \in Paths /\ snapshot[i].nodes \subseteq DOMAIN Initial
         /\ i \in Nat \ {0} /\ i \in 1..Len(maps)
         /\ \A p \in snapshot[i].nodes : IsBelow(p, snapshot[i].start)
<1>1. Len(maps) = Len(snapshot) /\ SnapOK(snapshot[i]) /\ Len(snapshot) \in Nat
  BY LenProperties DEF VolumeInv, MapsInv
<1>2. MapOK(maps[i], snapshot[i].start, snapshot[i].nodes, deletions) BY <1>1 DEF VolumeInv, MapsInv
<1> QED BY <1>1, <1>2 DEF SnapOK

LEMMA ListPrefetchedOK ==
  ASSUME VolumeInv, NEW c \in Clients, ListPrefetched(c)
  PROVE  VolumeInv'
<1> DEFINE i == Entry(c).dirmap
           G == GenerateChildren(maps[i], i, Entry(c).path)
           cl == [client[c] EXCEPT !.pc = "listed", !.of = i, !.shown = G]
<1>1. fs = "accessible" /\ Entry(c).kind = "dir" /\ i # 0 BY DEF ListPrefetched, Lists, At
<1>2. /\ i \in 1..Len(snapshot) /\ IsBelow(Entry(c).path, snapshot[i].start)
      /\ Len(Entry(c).path) <= Len(snapshot[i].start) + MaxDepth
      /\ Len(Entry(c).path) # Len(snapshot[i].start) + MaxDepth
      /\ Entry(c).path \in Paths
  BY <1>1, ClientFacts DEF EntryOK
<1>3. ShownOK(G, i, Entry(c).path, snapshot, deletions)
  <2>1. Len(snapshot) \in Nat BY LenProperties DEF VolumeInv, MapsInv
  <2>2. /\ SnapOK(snapshot[i]) /\ MapOK(maps[i], snapshot[i].start, snapshot[i].nodes, deletions)
        /\ snapshot[i].start \in Paths
    BY <1>2, SnapFacts
  <2>3. AtOrBelow(Entry(c).path, snapshot[i].start) BY <1>2 DEF AtOrBelow
  <2>4. Len(Entry(c).path) \in Nat /\ Len(snapshot[i].start) \in Nat BY <1>2, <2>2 DEF Paths
  <2>5. Len(Entry(c).path) < Len(snapshot[i].start) + MaxDepth BY <1>2, <2>4, DepthAssumption
  <2> HIDE DEF i
  <2> QED BY <1>2, <2>1, <2>2, <2>3, <2>5, GenerateOK
<1> HIDE DEF i, G
<1>4. /\ DOMAIN cl = ClientFields /\ cl.pc = "listed" /\ cl.of = i /\ cl.shown = G
      /\ cl.entry = Entry(c) /\ cl.overlap = client[c].overlap
  BY ClientFacts DEF ClientFields, Entry
<1>5. client' = [client EXCEPT ![c] = cl] /\ UNCHANGED <<remote, fs, maps, cached, snapshot, deletions>>
  BY DEF ListPrefetched, history, i, G
<1> HIDE DEF cl
<1>6. ClientOK(cl, snapshot, deletions, maps)
  BY <1>2, <1>3, <1>4, ClientFacts DEF ClientOK
<1> QED BY <1>1, <1>5, <1>6, ClientStep

LEMMA ListCachedOK ==
  ASSUME VolumeInv, NEW c \in Clients, ListCached(c)
  PROVE  VolumeInv'
<1> DEFINE r == cached[Entry(c).path]
           cl == [client[c] EXCEPT !.pc = "listed", !.of = r.of, !.shown = r.children]
<1>1. fs = "accessible" /\ Entry(c).path \in DOMAIN cached BY DEF ListCached, Lists, At
<1>2. r.of \in 1..Len(snapshot) /\ ShownOK(r.children, r.of, Entry(c).path, snapshot, deletions)
  BY <1>1 DEF VolumeInv, CachedOK
<1> HIDE DEF r
<1>3. /\ DOMAIN cl = ClientFields /\ cl.pc = "listed" /\ cl.of = r.of /\ cl.shown = r.children
      /\ cl.entry = Entry(c) /\ cl.overlap = client[c].overlap
  BY ClientFacts DEF ClientFields, Entry
<1>4. client' = [client EXCEPT ![c] = cl] /\ UNCHANGED <<remote, fs, maps, cached, snapshot, deletions>>
  BY DEF ListCached, history, r
<1> HIDE DEF cl
<1>5. ClientOK(cl, snapshot, deletions, maps)
  BY <1>2, <1>3, ClientFacts DEF ClientOK
<1> QED BY <1>1, <1>4, <1>5, ClientStep

LEMMA ListRunsOK ==
  ASSUME VolumeInv, NEW c \in Clients, ListRuns(c)
  PROVE  VolumeInv'
<1> DEFINE q == Entry(c).path
<1>1. fs = "accessible" /\ Entry(c).dirmap = 0 BY DEF ListRuns, Lists, At
<1>2. q \in Paths /\ Aligned(Len(q)) BY <1>1, ClientFacts DEF EntryOK
<1>3. RemoteOK(remote) BY DEF VolumeInv
<1>4. PICK command \in Commands(q) :
        client' = [client EXCEPT ![c] =
                     [@ EXCEPT !.pc = "listing",
                               !.result = {[dirmap |-> dirmap, nodes |-> command.visible] :
                                              dirmap \in VolumeList(command, q)}]]
  BY DEF ListRuns
<1> DEFINE R == {[dirmap |-> dirmap, nodes |-> command.visible] : dirmap \in VolumeList(command, q)}
           cl == [client[c] EXCEPT !.pc = "listing", !.result = R]
<1>5. /\ command.visible \subseteq DOMAIN Initial
      /\ \A p \in command.visible : IsBelow(p, q)
      /\ \A dm \in VolumeList(command, q) : MapOK(dm, q, command.visible, {})
  <2> HIDE DEF q
  <2> QED BY <1>2, <1>3, CommandFacts DEF RemoteOK
<1>6. ASSUME NEW r \in R PROVE SnapOK([start |-> q, nodes |-> r.nodes]) /\ MapOK(r.dirmap, q, r.nodes, {})
  <2>1. PICK dm \in VolumeList(command, q) : r = [dirmap |-> dm, nodes |-> command.visible] OBVIOUS
  <2>2. r.dirmap = dm /\ r.nodes = command.visible BY <2>1
  <2> HIDE DEF q, R
  <2>3. SnapOK([start |-> q, nodes |-> r.nodes]) BY <1>2, <1>5, <2>2 DEF SnapOK
  <2> QED BY <1>5, <2>2, <2>3
<1> HIDE DEF R
<1>7. /\ DOMAIN cl = ClientFields /\ cl.pc = "listing" /\ cl.result = R
      /\ cl.entry = Entry(c) /\ cl.overlap = client[c].overlap
  BY ClientFacts DEF ClientFields, Entry
<1>8. client' = [client EXCEPT ![c] = cl] /\ UNCHANGED <<remote, fs, maps, cached, snapshot, deletions>>
  BY <1>4 DEF ListRuns, history, R
<1> HIDE DEF cl
<1>9. ClientOK(cl, snapshot, deletions, maps)
  BY <1>1, <1>6, <1>7, ClientFacts DEF ClientOK
<1> QED BY <1>1, <1>8, <1>9, ClientStep

LEMMA ChooseOK ==
  ASSUME VolumeInv, NEW c \in Clients, Choose(c)
  PROVE  VolumeInv'
<1>1. fs = "accessible" /\ client[c].pc = "listed" BY DEF Choose, At
<1>2. UNCHANGED <<remote, fs, maps, cached, snapshot, deletions>> BY DEF Choose, history
<1>3. CASE client' = [client EXCEPT ![c] = Idle] BY <1>1, <1>2, <1>3, IdleOK, ClientStep
<1>4. ASSUME NEW name \in DOMAIN client[c].shown,
             client' = [client EXCEPT ![c] = [Idle EXCEPT !.entry = client[c].shown[name],
                                                          !.overlap = client[c].overlap]]
      PROVE  VolumeInv'
  <2> DEFINE e == client[c].shown[name]
             cl == [Idle EXCEPT !.entry = e, !.overlap = client[c].overlap]
  <2>1. EntryOK(e, snapshot) BY <1>1, ClientFacts DEF ClientOK, ShownOK
  <2> HIDE DEF e
  <2>2. DOMAIN cl = ClientFields /\ cl.pc = "idle" /\ cl.entry = e /\ cl.overlap = client[c].overlap
    BY IdleFacts DEF ClientFields
  <2>3. client' = [client EXCEPT ![c] = cl] BY <1>4 DEF e
  <2> HIDE DEF cl
  <2>4. ClientOK(cl, snapshot, deletions, maps) BY <2>1, <2>2, ClientFacts, QuietOK
  <2> QED BY <1>1, <1>2, <2>3, <2>4, ClientStep
<1> QED BY <1>3, <1>4 DEF Choose

LEMMA StreamStepsOK ==
  ASSUME VolumeInv, NEW c \in Clients,
         VolumeStream(c) \/ StreamChunk(c) \/ ReaderReads(c) \/ WriteFails(c) \/ StreamEnds(c)
         \/ CloseReader(c) \/ Leave(c)
  PROVE  VolumeInv'
<1>1. fs = "accessible" /\ UNCHANGED <<remote, fs, maps, cached, snapshot, deletions>>
  BY DEF VolumeStream, StreamChunk, ReaderReads, WriteFails, StreamEnds, CloseReader, Leave, At, history
<1>2. CASE client' = [client EXCEPT ![c] = Idle] BY <1>1, <1>2, IdleOK, ClientStep
<1>3. ASSUME NEW out \in Outputs,
             client' = [client EXCEPT ![c] = [Idle EXCEPT !.pc = "streaming",
                          !.stream = [NoStream EXCEPT !.output = out, !.out = out, !.reader = "open"]]]
      PROVE  VolumeInv'
  <2> DEFINE st == [NoStream EXCEPT !.output = out, !.out = out, !.reader = "open"]
             cl == [Idle EXCEPT !.pc = "streaming", !.stream = st]
  <2> HIDE DEF st
  <2>1. DOMAIN cl = ClientFields /\ cl.pc = "streaming" /\ cl.entry = Root /\ cl.overlap = FALSE
    BY IdleFacts DEF ClientFields
  <2>2. client' = [client EXCEPT ![c] = cl] BY <1>3 DEF st
  <2> HIDE DEF cl
  <2>3. ClientOK(cl, snapshot, deletions, maps) BY <2>1, RootOK, QuietOK
  <2> QED BY <1>1, <2>2, <2>3, ClientStep
<1>4. CASE VolumeStream(c) BY <1>2, <1>3, <1>4 DEF VolumeStream
<1>5. CASE Leave(c) BY <1>2, <1>5 DEF Leave
<1>6. ASSUME client[c].pc = "streaming", NEW st, NEW pc \in {"streaming", "streamed"},
             client' = [client EXCEPT ![c] = [client[c] EXCEPT !.pc = pc, !.stream = st]]
      PROVE  VolumeInv'
  <2> DEFINE cl == [client[c] EXCEPT !.pc = pc, !.stream = st]
  <2>1. DOMAIN cl = ClientFields /\ cl.pc = pc /\ cl.entry = Entry(c) /\ cl.overlap = client[c].overlap
    BY ClientFacts DEF ClientFields, Entry
  <2> HIDE DEF cl
  <2>2. ClientOK(cl, snapshot, deletions, maps) BY <2>1, ClientFacts, QuietOK
  <2> QED BY <1>1, <1>6, <2>2, ClientStep DEF cl
<1>7. c \in DOMAIN client /\ DOMAIN client[c] = ClientFields BY ClientFacts
<1>8. ASSUME NEW st, client[c].pc = "streaming", client' = [client EXCEPT ![c].stream = st] PROVE VolumeInv'
  <2>1. [client[c] EXCEPT !.stream = st] = [client[c] EXCEPT !.pc = "streaming", !.stream = st]
    BY <1>7, <1>8 DEF ClientFields
  <2>2. client' = [client EXCEPT ![c] = [client[c] EXCEPT !.pc = "streaming", !.stream = st]]
    BY <1>8, <2>1
  <2> QED BY <1>6, <1>8, <2>2
<1>9. CASE StreamChunk(c)
  BY <1>8, <1>9 DEF StreamChunk, At
<1>10. CASE CloseReader(c)
  <2> DEFINE st == [client[c].stream EXCEPT !.reader = "closed"]
  <2>1. client' = [client EXCEPT ![c].stream = st] BY <1>10 DEF CloseReader
  <2> QED BY <1>8, <1>10, <2>1 DEF CloseReader, At
<1>11. CASE StreamEnds(c)
  <2> DEFINE e == IF client[c].stream.errs THEN "error" ELSE "eof"
             st == [client[c].stream EXCEPT !.ended = e]
  <2>1. client' = [client EXCEPT ![c].pc = "streamed", ![c].stream.ended = e] BY <1>11 DEF StreamEnds
  <2> HIDE DEF e
  <2>2. client' = [client EXCEPT ![c] = [client[c] EXCEPT !.pc = "streamed", !.stream = st]]
    BY <1>7, <2>1 DEF ClientFields
  <2> QED BY <1>6, <1>11, <2>2 DEF StreamEnds, At
<1>12. CASE ReaderReads(c)
  <2> DEFINE g == Append(client[c].stream.got, Head(client[c].stream.writing))
  <2>1. client' = [client EXCEPT ![c].stream.got = g, ![c].stream.writing = <<>>] BY <1>12 DEF ReaderReads
  <2> HIDE DEF g
  <2>2. client' = [client EXCEPT ![c].stream = [client[c].stream EXCEPT !.got = g, !.writing = <<>>]]
    BY <1>7, <2>1 DEF ClientFields
  <2> QED BY <1>8, <1>12, <2>2 DEF ReaderReads, At
<1>13. CASE WriteFails(c)
  <2>1. client' = [client EXCEPT ![c].stream.errs = TRUE, ![c].stream.writing = <<>>] BY <1>13 DEF WriteFails
  <2>2. client' = [client EXCEPT ![c].stream = [client[c].stream EXCEPT !.errs = TRUE, !.writing = <<>>]]
    BY <1>7, <2>1 DEF ClientFields
  <2> QED BY <1>8, <1>13, <2>2 DEF WriteFails, At
<1> QED BY <1>4, <1>5, <1>9, <1>10, <1>11, <1>12, <1>13

\* A dirmap that is made joins the others.
LEMMA MadeOK ==
  ASSUME VolumeInv, NEW dm, NEW s, NEW V, Made(dm, s, V), UNCHANGED deletions,
         SnapOK([start |-> s, nodes |-> V]), MapOK(dm, s, V, {}), Len(maps) # MaxLists
  PROVE  /\ MapsInv' /\ Grows(snapshot, snapshot') /\ Shrinks(maps, maps', Len(snapshot))
         /\ Len(maps) \in Nat /\ Len(snapshot') = Len(maps) + 1 /\ Len(snapshot) = Len(maps)
         /\ snapshot'[Len(maps) + 1] = [start |-> s, nodes |-> V] /\ maps'[Len(maps) + 1] = dm
         /\ \A i \in 1..Len(maps) : maps'[i] = maps[i]
         /\ MapOK(dm, s, V, deletions)
<1> DEFINE x == [start |-> s, nodes |-> V]
           n == Len(maps)
<1>1. /\ maps \in Seq(Range(maps)) /\ snapshot \in Seq(Range(snapshot))
      /\ n = Len(snapshot) /\ n <= MaxLists
      /\ \A i \in 1..n : SnapOK(snapshot[i])
      /\ \A i \in 1..n : MapOK(maps[i], snapshot[i].start, snapshot[i].nodes, deletions)
  BY DEF VolumeInv, MapsInv
<1>2. maps' = Append(maps, dm) /\ snapshot' = Append(snapshot, x) BY DEF Made
<1>3. x.start = s /\ x.nodes = V OBVIOUS
<1> HIDE DEF x
<1>4. /\ maps' \in Seq(Range(maps')) /\ n \in Nat /\ Len(maps') = n + 1 /\ maps'[n + 1] = dm
      /\ \A i \in 1..n : maps'[i] = maps[i]
  BY <1>1, <1>2, SeqAppend
<1>5. /\ snapshot' \in Seq(Range(snapshot')) /\ Len(snapshot') = n + 1 /\ snapshot'[n + 1] = x
      /\ \A i \in 1..n : snapshot'[i] = snapshot[i]
  BY <1>1, <1>2, SeqAppend
<1> HIDE DEF n
<1>6. n + 1 <= MaxLists BY <1>1, <1>4, DepthAssumption DEF n
<1>7. MapOK(dm, s, V, deletions)
  <2>1. {} \subseteq deletions OBVIOUS
  <2> QED BY <2>1, MapGrows
<1>8. \A i \in 1..n + 1 : i \in 1..n \/ i = n + 1 BY <1>4
<1>9. \A i \in 1..n + 1 : SnapOK(snapshot'[i]) BY <1>1, <1>5, <1>8 DEF x
<1>10. \A i \in 1..n + 1 : MapOK(maps'[i], snapshot'[i].start, snapshot'[i].nodes, deletions)
  BY <1>1, <1>3, <1>4, <1>5, <1>7, <1>8
<1>11. MapsInv' BY <1>4, <1>5, <1>6, <1>9, <1>10 DEF MapsInv
<1>12. Grows(snapshot, snapshot') BY <1>1, <1>4, <1>5 DEF Grows
<1>13. Shrinks(maps, maps', Len(snapshot)) BY <1>1, <1>4 DEF Shrinks
<1> QED BY <1>1, <1>4, <1>5, <1>7, <1>11, <1>12, <1>13 DEF x, n

LEMMA CachedPut ==
  ASSUME NEW lists, NEW snaps, NEW dels, CachedOK(lists, snaps, dels), NEW i \in 1..Len(snaps),
         NEW q \in Paths, snaps[i].start = q, NEW shown, ShownOK(shown, i, q, snaps, dels)
  PROVE  CachedOK(Put(lists, q, [of |-> i, children |-> shown]), snaps, dels)
<1> DEFINE r == [of |-> i, children |-> shown]
<1>1. DOMAIN r = {"of", "children"} /\ r.of = i /\ r.children = shown OBVIOUS
<1> HIDE DEF r
<1>2. /\ DOMAIN Put(lists, q, r) = DOMAIN lists \union {q}
      /\ \A x \in DOMAIN Put(lists, q, r) : Put(lists, q, r)[x] = IF x = q THEN r ELSE lists[x]
  BY DEF Put
<1>3. CachedOK(Put(lists, q, r), snaps, dels) BY <1>1, <1>2 DEF CachedOK
<1> QED BY <1>3 DEF r

LEMMA CachedLess ==
  ASSUME NEW lists, NEW S, NEW snaps, NEW dels, CachedOK(lists, snaps, dels)
  PROVE  CachedOK(Without(lists, S), snaps, dels)
BY DEF CachedOK, Without

LEMMA OverlapOK ==
  ASSUME NEW cl, NEW snaps, NEW dels, NEW dirmaps, ClientOK(cl, snaps, dels, dirmaps)
  PROVE  ClientOK([cl EXCEPT !.overlap = TRUE], snaps, dels, dirmaps)
<1> DEFINE o == [cl EXCEPT !.overlap = TRUE]
<1>1. /\ DOMAIN o = ClientFields /\ o.overlap = TRUE
      /\ \A x \in ClientFields \ {"overlap"} : o[x] = cl[x]
  BY DEF ClientOK, ClientFields
<1> HIDE DEF o
<1>2. /\ o.pc = cl.pc /\ o.entry = cl.entry /\ o.of = cl.of /\ o.shown = cl.shown /\ o.result = cl.result
  BY <1>1 DEF ClientFields
<1> QED BY <1>1, <1>2 DEF ClientOK, o

\* What a new dirmap says of where it starts
LEMMA NewListOK ==
  ASSUME VolumeInv, NEW dm, NEW s \in Paths, NEW V, Made(dm, s, V), UNCHANGED deletions,
         SnapOK([start |-> s, nodes |-> V]), MapOK(dm, s, V, {}), Len(maps) # MaxLists
  PROVE  /\ Len(maps) + 1 \in 1..Len(snapshot')
         /\ snapshot'[Len(maps) + 1].start = s
         /\ ShownOK(GenerateChildren(dm, Len(maps) + 1, s), Len(maps) + 1, s, snapshot', deletions)
<1> DEFINE id == Len(maps) + 1
           snaps == snapshot'
<1>1. /\ Len(maps) \in Nat /\ Len(snaps) = id /\ snaps[id] = [start |-> s, nodes |-> V]
      /\ MapOK(dm, s, V, deletions)
  BY MadeOK
<1>2. id \in 1..Len(snaps) /\ Len(snaps) \in Nat BY <1>1
<1>3. snaps[id].start = s /\ snaps[id].nodes = V /\ SnapOK(snaps[id]) BY <1>1
<1>4. AtOrBelow(s, s) /\ Len(s) \in Nat BY DEF AtOrBelow, Paths
<1>5. Len(s) < Len(s) + MaxDepth BY <1>4, DepthAssumption
<1> HIDE DEF id, snaps
<1>6. ShownOK(GenerateChildren(dm, id, s), id, s, snaps, deletions)
  BY <1>1, <1>2, <1>3, <1>4, <1>5, GenerateOK
<1> QED BY <1>2, <1>3, <1>6 DEF id, snaps

LEMMA ListEndsOK ==
  ASSUME VolumeInv, NEW c \in Clients, ListEnds(c)
  PROVE  VolumeInv'
<1>1. fs = "accessible" /\ client[c].pc = "listing" /\ UNCHANGED <<remote, fs, deletions>>
  BY DEF ListEnds, At
<1>2. CASE client[c].result = {} \/ Len(maps) = MaxLists
  <2>1. client' = [client EXCEPT ![c] = Idle] /\ UNCHANGED <<maps, cached, snapshot>>
    BY <1>2 DEF ListEnds
  <2> QED BY <1>1, <2>1, IdleOK, ClientStep
<1>3. CASE ~(client[c].result = {} \/ Len(maps) = MaxLists)
  <2> DEFINE q == Entry(c).path
             id == Len(maps) + 1
  <2>1. PICK r \in client[c].result :
          /\ Made(r.dirmap, q, r.nodes)
          /\ cached' = Put(cached, q, [of |-> id, children |-> GenerateChildren(r.dirmap, id, q)])
          /\ client' = Overlapped([client EXCEPT ![c] = [@ EXCEPT !.pc = "listed", !.of = id,
                            !.shown = GenerateChildren(r.dirmap, id, q), !.result = {}]], c)
    BY <1>3 DEF ListEnds
  <2> DEFINE G == GenerateChildren(r.dirmap, id, q)
             cl == [client[c] EXCEPT !.pc = "listed", !.of = id, !.shown = G, !.result = {}]
             cls == [client EXCEPT ![c] = cl]
  <2>2. SnapOK([start |-> q, nodes |-> r.nodes]) /\ MapOK(r.dirmap, q, r.nodes, {}) /\ q \in Paths
    BY <1>1, ClientFacts DEF ClientOK, Entry
  <2>3. Len(maps) # MaxLists BY <1>3
  <2>4. MapsInv' /\ Grows(snapshot, snapshot') /\ Shrinks(maps, maps', Len(snapshot))
    <3> HIDE DEF q
    <3> QED BY <1>1, <2>1, <2>2, <2>3, MadeOK
  <2>5. id \in 1..Len(snapshot') /\ snapshot'[id].start = q /\ ShownOK(G, id, q, snapshot', deletions)
    <3> HIDE DEF q
    <3> QED BY <1>1, <2>1, <2>2, <2>3, NewListOK
  <2> HIDE DEF G, id
  <2>6. CachedOK(cached, snapshot', deletions)
    BY <2>4, CachedGrows DEF VolumeInv
  <2>7. CachedOK(cached', snapshot', deletions)
    <3> HIDE DEF q
    <3>1. cached' = Put(cached, q, [of |-> id, children |-> G]) BY <2>1 DEF G
    <3> DEFINE snaps == snapshot'
    <3>2. CachedOK(cached, snaps, deletions) /\ id \in 1..Len(snaps) /\ snaps[id].start = q
          /\ ShownOK(G, id, q, snaps, deletions)
      BY <2>5, <2>6
    <3> HIDE DEF snaps
    <3>3. CachedOK(Put(cached, q, [of |-> id, children |-> G]), snaps, deletions)
      BY <2>2, <3>2, CachedPut
    <3> QED BY <3>1, <3>3 DEF snaps
  <2>8. /\ DOMAIN cl = ClientFields /\ cl.pc = "listed" /\ cl.of = id /\ cl.shown = G
        /\ cl.entry = Entry(c) /\ cl.overlap = client[c].overlap
    BY ClientFacts DEF ClientFields, Entry
  <2>9. client' = Overlapped(cls, c) BY <2>1 DEF G
  <2> HIDE DEF cl
  <2>10. DOMAIN cls = Clients /\ cls[c] = cl /\ \A d \in Clients : d # c => cls[d] = client[d]
    BY DEF VolumeInv
  <2>11. ClientOK(cl, snapshot', deletions, maps')
    <3>1. EntryOK(cl.entry, snapshot') BY <2>4, <2>8, ClientFacts, EntryGrows
    <3> QED BY <2>5, <2>8, <3>1, ClientFacts DEF ClientOK
  <2>12. \A d \in Clients : ClientOK(cls[d], snapshot', deletions, maps')
    <3>1. SUFFICES ASSUME NEW d \in Clients, d # c PROVE ClientOK(cls[d], snapshot', deletions, maps')
      BY <2>10, <2>11
    <3>2. ClientOK(client[d], snapshot, deletions, maps) BY ClientFacts
    <3> QED BY <2>4, <2>10, <3>1, <3>2, ClientGrows
  <2> HIDE DEF cls
  <2>13. DOMAIN client' = Clients /\ \A d \in Clients : client'[d] = cls[d] \/ client'[d] = [cls[d] EXCEPT !.overlap = TRUE]
    BY <2>9 DEF Overlapped
  <2>14. \A d \in Clients : ClientOK(client'[d], snapshot', deletions, maps')
    <3>1. SUFFICES ASSUME NEW d \in Clients PROVE ClientOK(client'[d], snapshot', deletions, maps') OBVIOUS
    <3>2. ClientOK(cls[d], snapshot', deletions, maps') BY <2>12
    <3>3. ClientOK([cls[d] EXCEPT !.overlap = TRUE], snapshot', deletions, maps') BY <3>2, OverlapOK
    <3> QED BY <2>13, <3>2, <3>3
  <2> QED BY <1>1, <2>4, <2>7, <2>13, <2>14 DEF VolumeInv
<1> QED BY <1>2, <1>3

LEMMA NewFSOK ==
  ASSUME VolumeInv, NewFS
  PROVE  VolumeInv'
<1>1. /\ fs # "accessible" /\ UNCHANGED <<remote, client, deletions, gone>>
      /\ maps = <<>> /\ snapshot = <<>> /\ DOMAIN cached = {} /\ gone = {}
      /\ \A c \in Clients : client[c] = Idle
  BY DEF NewFS, VolumeInv
<1>2. PICK command \in Commands(RootPath) :
        IF VolumeList(command, RootPath) = {}
        THEN fs' = "inaccessible" /\ UNCHANGED <<maps, cached, snapshot>>
        ELSE \E dirmap \in VolumeList(command, RootPath) :
                /\ fs' = "accessible"
                /\ Made(dirmap, RootPath, command.visible)
                /\ cached' = Put(Empty, RootPath, [of |-> 1, children |-> GenerateChildren(dirmap, 1, RootPath)])
  BY DEF NewFS
<1>3. CASE VolumeList(command, RootPath) = {}
  <2>1. fs' = "inaccessible" /\ UNCHANGED <<maps, cached, snapshot>> BY <1>2, <1>3
  <2>2. MapsInv' BY <1>1, <2>1 DEF VolumeInv, MapsInv
  <2> QED BY <1>1, <2>1, <2>2 DEF VolumeInv
<1>4. CASE VolumeList(command, RootPath) # {}
  <2>1. PICK dm \in VolumeList(command, RootPath) :
          /\ fs' = "accessible"
          /\ Made(dm, RootPath, command.visible)
          /\ cached' = Put(Empty, RootPath, [of |-> 1, children |-> GenerateChildren(dm, 1, RootPath)])
    BY <1>2, <1>4
  <2>2. RemoteOK(remote) /\ RootPath \in Paths BY RootFacts DEF VolumeInv
  <2>3. /\ command.visible \subseteq DOMAIN Initial /\ \A p \in command.visible : IsBelow(p, RootPath)
        /\ MapOK(dm, RootPath, command.visible, {})
    BY <2>2, CommandFacts DEF RemoteOK
  <2>4. SnapOK([start |-> RootPath, nodes |-> command.visible])
    BY <2>3, RootFacts, AlignedZero DEF SnapOK
  <2>5. Len(maps) # MaxLists /\ Len(maps) = 0
    <3>1. Len(maps) = 0 BY <1>1
    <3> QED BY <3>1, DepthAssumption
  <2>6. MapsInv' BY <1>1, <2>1, <2>3, <2>4, <2>5, MadeOK
  <2> DEFINE snaps == snapshot'
             G == GenerateChildren(dm, 1, RootPath)
  <2>7. 1 \in 1..Len(snaps) /\ snaps[1].start = RootPath /\ ShownOK(G, 1, RootPath, snaps, deletions)
    <3>1. Len(maps) + 1 = 1 BY <2>5
    <3>2. /\ Len(maps) + 1 \in 1..Len(snapshot') /\ snapshot'[Len(maps) + 1].start = RootPath
          /\ ShownOK(GenerateChildren(dm, Len(maps) + 1, RootPath), Len(maps) + 1, RootPath, snapshot', deletions)
      BY <1>1, <2>1, <2>2, <2>3, <2>4, <2>5, NewListOK
    <3> QED BY <3>1, <3>2
  <2>8. cached' = Put(Empty, RootPath, [of |-> 1, children |-> G]) BY <2>1
  <2> HIDE DEF snaps, G
  <2>9. CachedOK(Empty, snaps, deletions) BY DEF CachedOK, Empty
  <2>10. CachedOK(Put(Empty, RootPath, [of |-> 1, children |-> G]), snaps, deletions)
    BY <2>2, <2>7, <2>9, CachedPut
  <2>11. CachedOK(cached', snapshot', deletions) BY <2>8, <2>10 DEF snaps
  <2>12. \A c \in Clients : ClientOK(client[c], snapshot', deletions, maps') BY <1>1, IdleOK
  <2> QED BY <1>1, <2>1, <2>6, <2>11, <2>12 DEF VolumeInv
<1> QED BY <1>3, <1>4

\* No client deletes the root.
LEMMA NotRoot ==
  ASSUME VolumeInv, NEW c \in Clients, Entry(c) # Root
  PROVE  Entry(c).path # RootPath
<1> DEFINE e == Entry(c)
<1>1. e \in [path : Paths, kind : {"dir", "file"}, dirmap : Nat] /\ EntryOK(e, snapshot)
  BY ClientFacts DEF EntryOK
<1>2. CASE e.dirmap = 0
  <2>1. e.kind = "dir" BY <1>1, <1>2 DEF EntryOK
  <2>2. SUFFICES ASSUME e.path = RootPath PROVE FALSE OBVIOUS
  <2> HIDE DEF e
  <2>3. e = [path |-> RootPath, kind |-> "dir", dirmap |-> 0] BY <1>1, <1>2, <2>1, <2>2
  <2> QED BY <2>3 DEF Root, e
<1>3. CASE e.dirmap # 0
  <2>1. e.dirmap \in 1..Len(snapshot) /\ IsBelow(e.path, snapshot[e.dirmap].start) BY <1>1, <1>3 DEF EntryOK
  <2>2. snapshot[e.dirmap].start \in Paths BY <2>1, SnapFacts
  <2> QED BY <1>1, <2>1, <2>2, RootFacts
<1> QED BY <1>2, <1>3

LEMMA VolumeDeleteOK ==
  ASSUME VolumeInv, NEW c \in Clients, VolumeDelete(c)
  PROVE  VolumeInv'
<1>1. fs = "accessible" /\ Entry(c) # Root /\ UNCHANGED <<fs, maps, cached, snapshot>>
  BY DEF VolumeDelete, At
<1>2. CASE client' = [client EXCEPT ![c] = Idle] /\ UNCHANGED <<remote, deletions>>
  BY <1>1, <1>2, IdleOK, ClientStep
<1>3. CASE /\ remote' = Without(remote, {p \in DOMAIN remote : p = Entry(c).path \/ IsBelow(p, Entry(c).path)})
           /\ deletions' = deletions \union {Entry(c).path}
           /\ client' = [client EXCEPT ![c].pc = "deleting"]
  <2> DEFINE dels == deletions \union {Entry(c).path}
             cl == [client[c] EXCEPT !.pc = "deleting"]
  <2>1. RemoteOK(remote') BY <1>3, ClientFacts, RemoveOK DEF VolumeInv
  <2>2. deletions' = dels /\ deletions \subseteq dels BY <1>3
  <2>3. Grows(snapshot, snapshot) /\ Shrinks(maps, maps, Len(snapshot))
    BY LenProperties DEF Grows, Shrinks, VolumeInv, MapsInv
  <2> HIDE DEF dels
  <2>4. CachedOK(cached, snapshot, dels) BY <2>2, <2>3, CachedGrows DEF VolumeInv
  <2>5. MapsInv'
    <3>1. \A i \in 1..Len(maps) : MapOK(maps[i], snapshot[i].start, snapshot[i].nodes, dels)
      BY <2>2, MapGrows DEF VolumeInv, MapsInv
    <3> QED BY <1>1, <2>2, <3>1 DEF VolumeInv, MapsInv
  <2>6. \A d \in Clients : ClientOK(client[d], snapshot, dels, maps)
    BY <2>2, <2>3, ClientFacts, ClientGrows
  <2>7. DOMAIN cl = ClientFields /\ cl.pc = "deleting" /\ cl.entry = Entry(c) /\ cl.overlap = client[c].overlap
    BY ClientFacts DEF ClientFields, Entry
  <2>8. client' = [client EXCEPT ![c] = cl] BY <1>3
  <2> HIDE DEF cl
  <2>9. ClientOK(cl, snapshot, dels, maps)
    <3>1. Entry(c).path # RootPath BY <1>1, NotRoot
    <3>2. Entry(c).path \in dels BY DEF dels
    <3> QED BY <2>7, <3>1, <3>2, ClientFacts DEF ClientOK
  <2>10. DOMAIN client' = Clients /\ \A d \in Clients : client'[d] = IF d = c THEN cl ELSE client[d]
    BY <2>8 DEF VolumeInv
  <2>11. \A d \in Clients : ClientOK(client'[d], snapshot, dels, maps) BY <2>6, <2>9, <2>10
  <2> QED BY <1>1, <2>1, <2>2, <2>4, <2>5, <2>10, <2>11 DEF VolumeInv
<1> QED BY <1>2, <1>3 DEF VolumeDelete

\* What DeleteNode does to the dirmap of its entry
LEMMA DeleteNodeMaps ==
  ASSUME VolumeInv, NEW c \in Clients, At(c, "deleting"), Entry(c).dirmap # 0,
         maps' = [maps EXCEPT ![Entry(c).dirmap] = WithoutNode(@, Entry(c).path)],
         UNCHANGED <<snapshot, deletions>>
  PROVE  /\ MapsInv' /\ Shrinks(maps, maps', Len(snapshot))
         /\ ~Holds(maps'[Entry(c).dirmap], Entry(c).path)
<1> DEFINE i == Entry(c).dirmap
           p == Entry(c).path
           N == WithoutNode(maps[i], p)
           s == snapshot[i].start
           V == snapshot[i].nodes
<1>1. i \in 1..Len(snapshot) /\ p \in Paths BY ClientFacts DEF EntryOK
<1>2. /\ MapOK(maps[i], s, V, deletions) /\ s \in Paths /\ V \subseteq DOMAIN Initial
      /\ \A x \in V : IsBelow(x, s) /\ i \in 1..Len(maps)
  BY <1>1, SnapFacts
<1>3. p \in deletions /\ p # RootPath BY ClientFacts DEF ClientOK, At, Entry
<1>4. /\ maps \in Seq(Range(maps)) /\ snapshot \in Seq(Range(snapshot))
      /\ Len(maps) = Len(snapshot) /\ Len(maps) <= MaxLists
      /\ \A j \in 1..Len(snapshot) : SnapOK(snapshot[j])
      /\ \A j \in 1..Len(maps) : MapOK(maps[j], snapshot[j].start, snapshot[j].nodes, deletions)
  BY DEF VolumeInv, MapsInv
<1>5. i \in 1..Len(maps) BY <1>1, <1>4
<1>6. maps' = [maps EXCEPT ![i] = N] OBVIOUS
<1> HIDE DEF i, p, s, V
<1>7. MapOK(N, s, V, deletions) /\ ~Holds(N, p) /\ \A x \in Paths \ {RootPath} : Holds(N, x) => Holds(maps[i], x)
  BY <1>1, <1>2, <1>3, WithoutOK
<1> HIDE DEF N
<1>8. /\ maps' \in Seq(Range(maps')) /\ Len(maps') = Len(maps) /\ maps'[i] = N
      /\ \A j \in 1..Len(maps) : j # i => maps'[j] = maps[j]
  <2>1. DOMAIN maps = 1..Len(maps) BY <1>4, LenProperties
  <2>2. maps' = [j \in 1..Len(maps) |-> IF j = i THEN N ELSE maps[j]] BY <1>6, <2>1
  <2>3. maps \in Seq(Range(maps)) BY <1>4
  <2>4. Len(maps) \in Nat /\ maps \in [1..Len(maps) -> Range(maps)] BY <2>3, LenProperties
  <2> DEFINE T == Range(maps) \union {N}
  <2>5. maps' \in [1..Len(maps) -> T]
    <3>1. \A j \in 1..Len(maps) : (IF j = i THEN N ELSE maps[j]) \in T BY <2>4
    <3> HIDE DEF T
    <3> QED BY <2>2, <3>1
  <2> HIDE DEF T
  <2>6. maps' \in Seq(Range(maps')) /\ Len(maps') = Len(maps)
    <3> DEFINE m == maps'
               n == Len(maps)
    <3>1. m \in [1..n -> T] /\ n \in Nat BY <2>4, <2>5
    <3> HIDE DEF m, n
    <3>2. m \in Seq(Range(m)) /\ Len(m) = n BY <3>1, SeqOfFunction
    <3> QED BY <3>2 DEF m, n
  <2> QED BY <1>5, <2>2, <2>6
<1>9. \A j \in 1..Len(maps) : MapOK(maps'[j], snapshot[j].start, snapshot[j].nodes, deletions)
  BY <1>4, <1>7, <1>8 DEF s, V
<1>10. MapsInv' BY <1>4, <1>8, <1>9 DEF MapsInv
<1>11. Shrinks(maps, maps', Len(snapshot)) BY <1>4, <1>7, <1>8 DEF Shrinks
<1> QED BY <1>7, <1>8, <1>10, <1>11 DEF i, p

LEMMA DeleteNodeOK ==
  ASSUME VolumeInv, NEW c \in Clients, DeleteNode(c)
  PROVE  VolumeInv'
<1>1. At(c, "deleting") /\ fs = "accessible" /\ UNCHANGED <<remote, fs, cached, snapshot, deletions>>
  BY DEF DeleteNode, At, history
<1>2. client[c].pc = "deleting" BY <1>1 DEF At
<1>3. CASE Entry(c).dirmap = 0
  <2> DEFINE cl == [client[c] EXCEPT !.pc = "panicked"]
  <2>1. client' = [client EXCEPT ![c] = cl] /\ UNCHANGED maps BY <1>3 DEF DeleteNode
  <2>2. DOMAIN cl = ClientFields /\ cl.pc = "panicked" /\ cl.entry = Entry(c) /\ cl.overlap = client[c].overlap
    BY ClientFacts DEF ClientFields, Entry
  <2> HIDE DEF cl
  <2>3. ClientOK(cl, snapshot, deletions, maps) BY <2>2, ClientFacts, QuietOK
  <2> QED BY <1>1, <2>1, <2>3, ClientStep
<1>4. CASE Entry(c).dirmap # 0
  <2> DEFINE cl == [client[c] EXCEPT !.pc = "deleted"]
  <2>1. /\ client' = [client EXCEPT ![c] = cl]
        /\ maps' = [maps EXCEPT ![Entry(c).dirmap] = WithoutNode(@, Entry(c).path)]
    BY <1>4 DEF DeleteNode
  <2>2. MapsInv' /\ Shrinks(maps, maps', Len(snapshot)) /\ ~Holds(maps'[Entry(c).dirmap], Entry(c).path)
    BY <1>1, <1>4, <2>1, DeleteNodeMaps
  <2>3. Grows(snapshot, snapshot) BY LenProperties DEF Grows, VolumeInv, MapsInv
  <2>4. \A d \in Clients : ClientOK(client[d], snapshot, deletions, maps')
    BY <2>2, <2>3, ClientFacts, ClientGrows
  <2>5. DOMAIN cl = ClientFields /\ cl.pc = "deleted" /\ cl.entry = Entry(c) /\ cl.overlap = client[c].overlap
    BY ClientFacts DEF ClientFields, Entry
  <2> HIDE DEF cl
  <2>6. Entry(c).path \in deletions /\ Entry(c).path # RootPath BY <1>2, ClientFacts DEF ClientOK, Entry
  <2>7. ClientOK(cl, snapshot, deletions, maps') BY <1>4, <2>2, <2>5, <2>6, ClientFacts DEF ClientOK
  <2>8. DOMAIN client' = Clients /\ \A d \in Clients : client'[d] = IF d = c THEN cl ELSE client[d]
    BY <2>1 DEF VolumeInv
  <2>9. \A d \in Clients : ClientOK(client'[d], snapshot, deletions, maps') BY <2>4, <2>7, <2>8
  <2> QED BY <1>1, <2>2, <2>8, <2>9 DEF VolumeInv
<1> QED BY <1>3, <1>4

LEMMA DeleteReturnsOK ==
  ASSUME VolumeInv, NEW c \in Clients, DeleteReturns(c)
  PROVE  VolumeInv'
<1>1. /\ fs = "accessible" /\ client[c].pc = "deleted" /\ UNCHANGED <<remote, fs, maps, snapshot, deletions>>
      /\ cached' = CacheWithout(Entry(c).path) /\ client' = [client EXCEPT ![c] = Idle]
  BY DEF DeleteReturns, At
<1>2. Entry(c).path \in deletions /\ Entry(c).path # RootPath /\ Entry(c).path \in Paths
  BY <1>1, ClientFacts DEF ClientOK, Entry
<1>3. CachedOK(cached', snapshot, deletions)
  BY <1>1, <1>2, CacheWithoutOK DEF VolumeInv, MapsInv
<1>4. DOMAIN client' = Clients /\ \A d \in Clients : client'[d] = IF d = c THEN Idle ELSE client[d]
  BY <1>1 DEF VolumeInv
<1>5. \A d \in Clients : ClientOK(client'[d], snapshot, deletions, maps) BY <1>4, ClientFacts, IdleOK
<1>6. MapsInv' BY <1>1 DEF VolumeInv, MapsInv
<1> QED BY <1>1, <1>3, <1>4, <1>5, <1>6 DEF VolumeInv

LEMMA ExpireOK ==
  ASSUME VolumeInv, Expire
  PROVE  VolumeInv'
<1>1. PICK path \in DOMAIN cached : cached' = Without(cached, {path}) BY DEF Expire
<1>2. UNCHANGED <<remote, fs, maps, client, snapshot, deletions, gone>> BY DEF Expire, history
<1>3. fs = "accessible" BY <1>1 DEF VolumeInv
<1>4. CachedOK(cached', snapshot, deletions) BY <1>1, CachedLess DEF VolumeInv
<1>5. MapsInv' BY <1>2 DEF VolumeInv, MapsInv
<1> QED BY <1>2, <1>3, <1>4, <1>5 DEF VolumeInv

LEMMA ChangeOK ==
  ASSUME VolumeInv, Change
  PROVE  VolumeInv'
<1>1. PICK path \in Volatile :
        \/ /\ path \in DOMAIN remote
           /\ remote' = Without(remote, {p \in DOMAIN remote : p = path \/ IsBelow(p, path)})
           /\ UNCHANGED gone
        \/ /\ path \notin DOMAIN remote
           /\ Parent(path) \in DOMAIN remote \union {RootPath}
           /\ remote' = Put(remote, path, Initial[path])
           /\ gone' = gone \ {path}
  BY DEF Change
<1>2. UNCHANGED <<fs, maps, cached, client, snapshot, deletions>> BY DEF Change
<1>3. path \in DOMAIN Initial /\ path \in Paths BY TreeAssumption, NodeFacts
<1>4. RemoteOK(remote') BY <1>1, <1>3, RemoveOK, AddOK DEF VolumeInv
<1>5. gone = {} => gone' = {} BY <1>1
<1>6. MapsInv' BY <1>2 DEF VolumeInv, MapsInv
<1> QED BY <1>2, <1>4, <1>5, <1>6 DEF VolumeInv

\* One case per action
LEMMA VolumeStep == VolumeInv /\ [Next]_vars => VolumeInv'
<1> SUFFICES ASSUME VolumeInv, [Next]_vars PROVE VolumeInv' OBVIOUS
<1>1. CASE UNCHANGED vars
  <2>1. UNCHANGED <<remote, fs, maps, cached, client, snapshot, deletions, gone>> BY <1>1 DEF vars
  <2>2. MapsInv' BY <2>1 DEF VolumeInv, MapsInv
  <2> QED BY <2>1, <2>2 DEF VolumeInv
<1>2. CASE NewFS BY <1>2, NewFSOK
<1>3. CASE Expire BY <1>3, ExpireOK
<1>4. CASE Change BY <1>4, ChangeOK
<1>5. ASSUME NEW c \in Clients, ListPrefetched(c) PROVE VolumeInv' BY <1>5, ListPrefetchedOK
<1>6. ASSUME NEW c \in Clients, ListCached(c) PROVE VolumeInv' BY <1>6, ListCachedOK
<1>7. ASSUME NEW c \in Clients, ListRuns(c) PROVE VolumeInv' BY <1>7, ListRunsOK
<1>8. ASSUME NEW c \in Clients, ListEnds(c) PROVE VolumeInv' BY <1>8, ListEndsOK
<1>9. ASSUME NEW c \in Clients, Choose(c) PROVE VolumeInv' BY <1>9, ChooseOK
<1>10. ASSUME NEW c \in Clients, VolumeDelete(c) PROVE VolumeInv' BY <1>10, VolumeDeleteOK
<1>11. ASSUME NEW c \in Clients, DeleteNode(c) PROVE VolumeInv' BY <1>11, DeleteNodeOK
<1>12. ASSUME NEW c \in Clients, DeleteReturns(c) PROVE VolumeInv' BY <1>12, DeleteReturnsOK
<1>13. ASSUME NEW c \in Clients, VolumeStream(c) \/ StreamChunk(c) \/ ReaderReads(c) \/ WriteFails(c) \/ StreamEnds(c)
         \/ CloseReader(c) \/ Leave(c)
       PROVE  VolumeInv'
  BY <1>13, StreamStepsOK
<1> QED
  BY <1>1, <1>2, <1>3, <1>4, <1>5, <1>6, <1>7, <1>8, <1>9, <1>10, <1>11, <1>12, <1>13 DEF Next

LEMMA VolumeInvariant == Spec => []VolumeInv
<1>1. Init => VolumeInv BY VolumeInit
<1>2. VolumeInv /\ [Next]_vars => VolumeInv' BY VolumeStep
<1> QED BY <1>1, <1>2, PTL DEF Spec

LEMMA TypeFollows == VolumeInv => TypeOK
<1> SUFFICES ASSUME VolumeInv PROVE TypeOK OBVIOUS
<1>1. /\ fs \in {"new", "accessible", "inaccessible"} /\ DOMAIN remote \subseteq DOMAIN Initial
      /\ Len(maps) = Len(snapshot) /\ Len(maps) <= MaxLists
  BY DEF VolumeInv, RemoteOK, MapsInv
<1>2. DOMAIN maps = 1..Len(maps) /\ Len(maps) \in Nat BY LenProperties DEF VolumeInv, MapsInv
<1>3. ASSUME NEW i \in DOMAIN maps, NEW p \in DOMAIN maps[i], maps[i][p] # Nil, NEW n \in DOMAIN maps[i][p]
      PROVE  maps[i][p][n] \in {"dir", "file"}
  <2> DEFINE dm == maps[i]
             s == snapshot[i].start
  <2>1. MapOK(dm, s, snapshot[i].nodes, deletions) /\ snapshot[i].nodes \subseteq DOMAIN Initial
    BY <1>1, <1>2, SnapFacts
  <2> HIDE DEF s
  <2>2. CASE AtOrBelow(p, s)
    <3>1. Append(p, n) \in DOMAIN Initial /\ dm[p][n] = Initial[Append(p, n)] BY <1>3, <2>1, <2>2 DEF MapOK
    <3> QED BY <3>1, NodeFacts
  <2>3. CASE ~AtOrBelow(p, s)
    <3>1. dm[p][n] = "dir" BY <2>1, <2>3 DEF MapOK, LeadsOK
    <3> QED BY <3>1
  <2> QED BY <2>2, <2>3
<1>4. \A p \in DOMAIN cached : cached[p].of \in DOMAIN maps BY <1>1, <1>2 DEF VolumeInv, CachedOK
<1>5. ASSUME NEW c \in Clients
      PROVE  /\ client[c].entry.dirmap \in 0..Len(maps)
             /\ client[c].entry.kind = "file" => client[c].entry.dirmap # 0
  <2>1. EntryOK(client[c].entry, snapshot) BY ClientFacts DEF Entry
  <2> QED BY <1>1, <1>2, <2>1 DEF EntryOK
<1> QED BY <1>1, <1>3, <1>4, <1>5 DEF TypeOK

\* The type invariant: entries refer to dirmaps that were made (dir.go:14).
THEOREM TypeCorrect == Spec => []TypeOK
<1>1. VolumeInv => TypeOK BY TypeFollows
<1> QED BY <1>1, VolumeInvariant, PTL

LEMMA ListedFollows == VolumeInv => ListedExact
<1> SUFFICES ASSUME VolumeInv, NEW c \in Clients, client[c].pc = "listed"
             PROVE  LET path == client[c].entry.path
                        shown == {client[c].shown[n].path : n \in DOMAIN client[c].shown}
                        there == ChildrenAmong(snapshot[client[c].of].nodes, path)
                    IN  /\ shown \subseteq there
                        /\ \A p \in there \ shown : \E d \in deletions : p = d \/ IsBelow(p, d)
  BY DEF ListedExact
<1> DEFINE path == client[c].entry.path
           i == client[c].of
           S == client[c].shown
           shown == {S[n].path : n \in DOMAIN S}
           there == ChildrenAmong(snapshot[i].nodes, path)
<1>1. i \in 1..Len(snapshot) /\ ShownOK(S, i, path, snapshot, deletions) /\ path \in Paths
  BY ClientFacts DEF ClientOK, Entry
<1>2. \A n \in DOMAIN S : n \in STRING /\ S[n].path = Append(path, n) /\ Append(path, n) \in snapshot[i].nodes
  BY <1>1 DEF ShownOK
<1> HIDE DEF i, S, path
<1>3. shown \subseteq there
  <2>1. SUFFICES ASSUME NEW n \in DOMAIN S PROVE Append(path, n) \in there BY <1>2
  <2>2. Append(path, n) # RootPath /\ Parent(Append(path, n)) = path BY <1>1, <1>2, AppendFacts
  <2> QED BY <1>2, <2>2 DEF ChildrenAmong
<1>4. ASSUME NEW p \in there \ shown PROVE \E d \in deletions : p = d \/ IsBelow(p, d)
  <2>1. p \in snapshot[i].nodes /\ p # RootPath /\ Parent(p) = path BY <1>4 DEF ChildrenAmong
  <2>2. p \in Paths BY <1>1, <2>1, SnapFacts, NodeFacts
  <2>3. Lost(p, deletions) \/ Last(p) \in DOMAIN S BY <1>1, <2>1 DEF ShownOK
  <2>4. p = Append(path, Last(p)) BY <2>1, <2>2, ParentLast
  <2>5. Last(p) \notin DOMAIN S BY <1>2, <1>4, <2>4
  <2> QED BY <2>3, <2>5 DEF Lost, AtOrBelow
<1> QED BY <1>3, <1>4 DEF path, i, S

\* stat.go:12, dir.go:38: a listing shows exactly the children that the command saw, whichever
\* level of a shared dirmap it comes from, except what was deleted through Wash since.  For any
\* tree and depth, any order of the lines, and whatever commands fail or are denied.
THEOREM ListedExactCorrect == Spec => []ListedExact
<1>1. VolumeInv => ListedExact BY ListedFollows
<1> QED BY <1>1, VolumeInvariant, PTL

-----------------------------------------------------------------------------
(* Streams *)

LEMMA StreamKept ==
  ASSUME NEW cl, NEW cl2, StreamOK(cl), cl2.stream = cl.stream,
         cl2.pc \notin {"streaming", "streamed"} \/ cl2.pc = cl.pc
  PROVE  StreamOK(cl2)
BY DEF StreamOK

LEMMA StartOK ==
  ASSUME NEW st, NEW out \in Seq(STRING), DOMAIN st = StreamFields,
         st.output = out, st.out = out, st.writing = <<>>, st.got = <<>>, st.errs = FALSE
  PROVE  Copying(st)
<1>1. <<>> \in Seq(STRING) /\ Len(<<>>) = 0 OBVIOUS
<1>2. Len(out) \in Nat OBVIOUS
<1>3. Len(st.output) - Len(st.out) = 0 /\ Len(st.got) = 0 BY <1>1, <1>2
<1>4. \A i \in 1..Len(st.out) : st.out[i] = st.output[0 + i] BY <1>2
<1>5. st.errs \in BOOLEAN /\ ~st.errs OBVIOUS
<1>6. 0 \in Nat /\ 0 <= 0 /\ 1..0 = {} OBVIOUS
<1> QED BY <1>1, <1>3, <1>4, <1>5, <1>6 DEF Copying

LEMMA NoStreamOK ==
  ASSUME NEW cl, cl.stream = NoStream, cl.pc \notin {"streaming", "streamed"}
  PROVE  StreamOK(cl)
<1>1. /\ DOMAIN NoStream = StreamFields /\ NoStream.output = <<>> /\ NoStream.out = <<>>
      /\ NoStream.writing = <<>> /\ NoStream.got = <<>> /\ NoStream.errs = FALSE
  BY DEF NoStream, StreamFields
<1>2. <<>> \in Seq(STRING) OBVIOUS
<1>3. Copying(NoStream) BY <1>1, <1>2, StartOK
<1> QED BY <1>3 DEF StreamOK

LEMMA NewStreamOK ==
  ASSUME NEW cl, NEW out \in Outputs, cl.pc = "streaming",
         cl.stream = [NoStream EXCEPT !.output = out, !.out = out, !.reader = "open"]
  PROVE  StreamOK(cl)
<1> DEFINE st == [NoStream EXCEPT !.output = out, !.out = out, !.reader = "open"]
<1>1. /\ DOMAIN st = StreamFields /\ st.output = out /\ st.out = out /\ st.got = <<>>
      /\ st.writing = <<>> /\ st.errs = FALSE /\ st.ended = "no"
  BY DEF NoStream, StreamFields
<1>2. out \in Seq(STRING) BY OutputAssumption
<1>3. cl.stream = st OBVIOUS
<1> HIDE DEF st
<1>4. Copying(st) BY <1>1, <1>2, StartOK
<1> QED BY <1>1, <1>3, <1>4 DEF StreamOK

\* What Received does to each field
LEMMA ReceivedFacts ==
  ASSUME NEW st, DOMAIN st = StreamFields, st.errs \in BOOLEAN
  PROVE  LET R == Received(st)
             h == Head(st.out)
         IN  /\ DOMAIN R = StreamFields /\ R.output = st.output /\ R.out = Tail(st.out) /\ R.got = st.got
             /\ R.reader = st.reader /\ R.ended = st.ended /\ R.errs \in BOOLEAN
             /\ st.errs \/ h = "error" => R.errs /\ R.writing = <<>>
             /\ ~(st.errs \/ h = "error") => ~R.errs /\ R.writing = <<h>>
<1> DEFINE h == Head(st.out)
           t == Tail(st.out)
           e == st.errs \/ h = "error"
           w == IF e THEN <<>> ELSE <<h>>
           R == [st EXCEPT !.out = t, !.errs = e, !.writing = w]
<1>1. Received(st) = R BY DEF Received
<1>2. e \in BOOLEAN OBVIOUS
<1>3. (e => w = <<>>) /\ (~e => w = <<h>>) OBVIOUS
<1>4. e <=> st.errs \/ h = "error" OBVIOUS
<1> HIDE DEF h, t, e, w
<1>5. /\ DOMAIN R = StreamFields /\ R.output = st.output /\ R.out = t /\ R.got = st.got
      /\ R.reader = st.reader /\ R.ended = st.ended /\ R.errs = e /\ R.writing = w
  BY DEF StreamFields
<1> HIDE DEF R
<1>6. R.errs \in BOOLEAN /\ (R.errs <=> e) BY <1>2, <1>5
<1>7. (e => R.errs /\ R.writing = <<>>) /\ (~e => ~R.errs /\ R.writing = <<h>>)
  BY <1>3, <1>5, <1>6
<1> QED BY <1>1, <1>4, <1>5, <1>6, <1>7 DEF h, t

\* What is received is either written, or follows an error.
LEMMA ReceivedOK ==
  ASSUME NEW st, Copying(st), st.out # <<>>, st.writing = <<>>
  PROVE  Copying(Received(st)) /\ Received(st).ended = st.ended
<1> DEFINE S == STRING
           out == st.out
           output == st.output
           got == st.got
           n == Len(output) - Len(out)
           m == Len(got)
           h == Head(out)
           R == Received(st)
<1>1. /\ DOMAIN st = StreamFields /\ output \in Seq(S) /\ out \in Seq(S) /\ got \in Seq(S) /\ st.errs \in BOOLEAN
      /\ n \in Nat
      /\ \A i \in 1..Len(out) : out[i] = output[n + i]
      /\ \A i \in 1..m : got[i] = output[i] /\ output[i] # "error"
      /\ ~st.errs => m = n
      /\ st.errs => m < n /\ (st.reader = "open" => output[m + 1] = "error")
  BY DEF Copying
<1>2. /\ Len(out) \in Nat \ {0} /\ Len(output) \in Nat /\ m \in Nat
      /\ h \in S /\ h = out[1] /\ Tail(out) \in Seq(S) /\ Len(Tail(out)) = Len(out) - 1
      /\ \A i \in 1..Len(out) - 1 : Tail(out)[i] = out[i + 1]
  <2>1. out # <<>> /\ out \in Seq(S) /\ output \in Seq(S) /\ got \in Seq(S) BY <1>1
  <2> HIDE DEF out, output, got, S
  <2>2. Len(out) \in Nat /\ Len(output) \in Nat /\ m \in Nat BY <2>1, LenProperties
  <2>3. Len(out) # 0 BY <2>1
  <2>4. /\ h \in S /\ Tail(out) \in Seq(S) /\ Len(Tail(out)) = Len(out) - 1
        /\ \A i \in 1..Len(Tail(out)) : Tail(out)[i] = out[i + 1]
    BY <2>1, HeadTailProperties
  <2>5. h = out[1] BY <2>1
  <2> QED BY <2>2, <2>3, <2>4, <2>5
<1>3. h = output[n + 1]
  <2>1. 1 \in 1..Len(out) BY <1>2
  <2>2. out[1] = output[n + 1] BY <1>1, <2>1
  <2> QED BY <1>2, <2>2
<1>4. /\ DOMAIN R = StreamFields /\ R.output = output /\ R.out = Tail(out) /\ R.got = got
      /\ R.reader = st.reader /\ R.ended = st.ended /\ R.errs \in BOOLEAN
      /\ st.errs \/ h = "error" => R.errs /\ R.writing = <<>>
      /\ ~(st.errs \/ h = "error") => ~R.errs /\ R.writing = <<h>>
  BY <1>1, ReceivedFacts
<1> HIDE DEF out, output, got, h, R, S
<1>5. Len(output) - Len(Tail(out)) = n + 1 BY <1>2
<1>6. \A i \in 1..Len(Tail(out)) : Tail(out)[i] = output[n + 1 + i]
  <2>1. SUFFICES ASSUME NEW i \in 1..Len(Tail(out)) PROVE Tail(out)[i] = output[n + 1 + i] OBVIOUS
  <2>2. i \in 1..Len(out) - 1 /\ i + 1 \in 1..Len(out) /\ n + (i + 1) = n + 1 + i
    <3> DEFINE l == Len(out)
    <3>1. l \in Nat \ {0} /\ n \in Nat /\ i \in 1..(l - 1) BY <1>1, <1>2, <2>1
    <3> HIDE DEF l, n
    <3>2. i \in 1..l - 1 /\ i + 1 \in 1..l /\ n + (i + 1) = n + 1 + i BY <3>1
    <3> QED BY <3>2 DEF l
  <2> HIDE DEF n
  <2>3. out[i + 1] = output[n + (i + 1)] BY <1>1, <2>2
  <2> QED BY <1>2, <2>2, <2>3
<1> HIDE DEF n, m
<1>7. R.writing # <<>> =>
        ~R.errs /\ n + 1 = m + 1 /\ Head(R.writing) = output[n + 1] /\ output[n + 1] # "error"
  <2>1. SUFFICES ASSUME R.writing # <<>>
                 PROVE  ~R.errs /\ n + 1 = m + 1 /\ Head(R.writing) = output[n + 1] /\ output[n + 1] # "error"
    OBVIOUS
  <2>2. ~st.errs /\ h # "error" BY <1>4, <2>1
  <2>3. ~R.errs /\ R.writing = <<h>> BY <1>4, <2>2
  <2>4. Head(<<h>>) = h OBVIOUS
  <2> QED BY <1>1, <1>3, <2>2, <2>3, <2>4
<1>8. R.writing = <<>> => R.errs
  <2>1. <<h>> # <<>> OBVIOUS
  <2> QED BY <1>4, <2>1
<1>9. R.errs => m < n + 1 /\ (st.reader = "open" => output[m + 1] = "error")
  <2>1. CASE st.errs BY <1>1, <1>2, <2>1
  <2>2. CASE ~st.errs BY <1>1, <1>2, <1>3, <1>4, <2>2
  <2> QED BY <1>1, <2>1, <2>2
<1>10. n + 1 \in Nat BY <1>1
<1>11. Len(R.output) - Len(R.out) = n + 1 /\ Len(R.got) = m BY <1>4, <1>5 DEF m
<1>12. Copying(R)
  <2>1. R.output \in Seq(S) /\ R.out \in Seq(S) /\ R.got \in Seq(S) BY <1>1, <1>2, <1>4
  <2>2. \A i \in 1..Len(R.out) : R.out[i] = R.output[n + 1 + i] BY <1>4, <1>6
  <2>3. \A i \in 1..m : R.got[i] = R.output[i] /\ R.output[i] # "error" BY <1>1, <1>4
  <2>4. R.writing # <<>> =>
          ~R.errs /\ n + 1 = m + 1 /\ Head(R.writing) = R.output[n + 1] /\ R.output[n + 1] # "error"
    BY <1>4, <1>7
  <2>5. R.writing = <<>> /\ ~R.errs => m = n + 1 BY <1>8
  <2>6. R.errs => m < n + 1 /\ (R.reader = "open" => R.output[m + 1] = "error") BY <1>4, <1>9
  <2> QED BY <1>4, <1>10, <1>11, <2>1, <2>2, <2>3, <2>4, <2>5, <2>6 DEF Copying, S
<1> QED BY <1>4, <1>12 DEF R

\* The reader takes what is being written, and has all that was received.
LEMMA TakenOK ==
  ASSUME NEW st, Copying(st), st.writing # <<>>, NEW st2, DOMAIN st2 = StreamFields,
         st2.output = st.output, st2.out = st.out, st2.errs = st.errs, st2.reader = st.reader,
         st2.got = Append(st.got, Head(st.writing)), st2.writing = <<>>
  PROVE  Copying(st2)
<1> DEFINE S == STRING
           output == st.output
           got == st.got
           n == Len(output) - Len(st.out)
           m == Len(got)
           h == Head(st.writing)
           g == st2.got
<1>1. /\ output \in Seq(S) /\ st.out \in Seq(S) /\ got \in Seq(S) /\ st.errs \in BOOLEAN /\ ~st.errs
      /\ n \in Nat /\ n = m + 1 /\ h = output[n] /\ output[n] # "error"
      /\ \A i \in 1..Len(st.out) : st.out[i] = output[n + i]
      /\ \A i \in 1..m : got[i] = output[i] /\ output[i] # "error"
  BY DEF Copying
<1>2. g = Append(got, h) OBVIOUS
<1>3. m \in Nat /\ Len(output) \in Nat /\ Len(st.out) \in Nat
  <2> HIDE DEF output, got, S
  <2> QED BY <1>1, LenProperties
<1>4. h \in S
  <2> DEFINE a == Len(output)
             b == Len(st.out)
  <2>1. a \in Nat /\ b \in Nat /\ m \in Nat /\ a - b = m + 1 BY <1>1, <1>3
  <2> HIDE DEF a, b, m
  <2>2. m + 1 \in 1..a BY <2>1
  <2> HIDE DEF n, output, h
  <2> QED BY <1>1, <2>2, ElementOfSeq DEF a
<1> HIDE DEF output, got, h, g, S
<1>5. g \in Seq(S) /\ Len(g) = m + 1 /\ g[m + 1] = h /\ \A i \in 1..m : g[i] = got[i]
  <2>1. got \in Seq(S) /\ h \in S BY <1>1, <1>4
  <2>2. /\ Append(got, h) \in Seq(S) /\ Len(Append(got, h)) = Len(got) + 1
        /\ \A i \in 1..Len(got) : Append(got, h)[i] = got[i]
        /\ Append(got, h)[Len(got) + 1] = h
    BY <2>1, AppendProperties
  <2> QED BY <1>2, <2>2
<1> HIDE DEF n, m
<1>6. \A i \in 1..Len(g) : i \in 1..m \/ i = m + 1 BY <1>3, <1>5
<1>7. \A i \in 1..Len(g) : g[i] = output[i] /\ output[i] # "error" BY <1>1, <1>5, <1>6
<1>8. Len(g) = n BY <1>1, <1>5
<1>9. Len(st2.output) - Len(st2.out) = n /\ ~st2.errs /\ st2.errs \in BOOLEAN BY <1>1 DEF n, output
<1>10. \A i \in 1..Len(st2.out) : st2.out[i] = st2.output[n + i] BY <1>1 DEF output
<1>11. \A i \in 1..Len(st2.got) : st2.got[i] = st2.output[i] /\ st2.output[i] # "error" BY <1>7 DEF g, output
<1>12. st2.output \in Seq(STRING) /\ st2.out \in Seq(STRING) /\ st2.got \in Seq(STRING)
  BY <1>1, <1>5 DEF output, g, S
<1>13. Len(st2.got) = n BY <1>8 DEF g
<1> QED BY <1>1, <1>9, <1>10, <1>11, <1>12, <1>13 DEF Copying

\* The reader has gone; what was being written is lost, and what follows.
LEMMA LostOK ==
  ASSUME NEW st, Copying(st), st.writing # <<>>, st.reader = "closed", NEW st2, DOMAIN st2 = StreamFields,
         st2.output = st.output, st2.out = st.out, st2.got = st.got, st2.reader = st.reader,
         st2.errs = TRUE, st2.writing = <<>>
  PROVE  Copying(st2)
<1> DEFINE n == Len(st.output) - Len(st.out)
           m == Len(st.got)
<1>1. st2.errs \in BOOLEAN /\ st2.errs /\ st2.reader # "open" OBVIOUS
<1>2. n \in Nat /\ n = m + 1 /\ m \in Nat
  <2>1. st.got \in Seq(STRING) BY DEF Copying
  <2>2. Len(st.got) \in Nat BY <2>1, LenProperties
  <2> QED BY <2>2 DEF Copying
<1>3. m < n
  <2> HIDE DEF n, m
  <2> QED BY <1>2
<1>4. Len(st2.output) - Len(st2.out) = n /\ Len(st2.got) = m OBVIOUS
<1>5. /\ st.output \in Seq(STRING) /\ st.out \in Seq(STRING) /\ st.got \in Seq(STRING)
      /\ \A i \in 1..Len(st.out) : st.out[i] = st.output[n + i]
      /\ \A i \in 1..m : st.got[i] = st.output[i] /\ st.output[i] # "error"
  BY DEF Copying
<1> HIDE DEF n, m
<1>6. /\ st2.output \in Seq(STRING) /\ st2.out \in Seq(STRING) /\ st2.got \in Seq(STRING)
      /\ \A i \in 1..Len(st2.out) : st2.out[i] = st2.output[n + i]
      /\ \A i \in 1..m : st2.got[i] = st2.output[i] /\ st2.output[i] # "error"
  BY <1>5
<1> QED BY <1>1, <1>2, <1>3, <1>4, <1>6 DEF Copying

LEMMA StreamClient ==
  ASSUME VolumeInv, StreamInv, NEW c \in Clients, NEW cl, client' = [client EXCEPT ![c] = cl], StreamOK(cl)
  PROVE  StreamInv'
<1>1. \A d \in Clients : client'[d] = IF d = c THEN cl ELSE client[d] BY DEF VolumeInv
<1> QED BY <1>1 DEF StreamInv

\* One case per action; only those of the stream change it.
LEMMA StreamStep == VolumeInv /\ StreamInv /\ [Next]_vars => StreamInv'
<1> SUFFICES ASSUME VolumeInv, StreamInv, [Next]_vars PROVE StreamInv' OBVIOUS
<1>0. \A c \in Clients : StreamOK(client[c]) BY DEF StreamInv
<1>1. CASE UNCHANGED client BY <1>1 DEF StreamInv
<1>2. ASSUME NEW c \in Clients, client' = [client EXCEPT ![c] = Idle] PROVE StreamInv'
  <2>1. StreamOK(Idle) BY IdleFacts, NoStreamOK
  <2> QED BY <1>2, <2>1, StreamClient
<1>3. ASSUME NEW c \in Clients, NEW cl, client' = [client EXCEPT ![c] = cl],
             cl.stream = client[c].stream, cl.pc \notin {"streaming", "streamed"}
      PROVE  StreamInv'
  <2>1. StreamOK(cl) BY <1>0, <1>3, StreamKept
  <2> QED BY <1>3, <2>1, StreamClient
<1>4. CASE NewFS \/ Expire \/ Change \/ UNCHANGED vars BY <1>1, <1>4 DEF NewFS, Expire, Change, vars
<1>5. ASSUME NEW c \in Clients, ListPrefetched(c) PROVE StreamInv'
  <2> DEFINE G == GenerateChildren(maps[Entry(c).dirmap], Entry(c).dirmap, Entry(c).path)
             cl == [client[c] EXCEPT !.pc = "listed", !.of = Entry(c).dirmap, !.shown = G]
  <2>1. client' = [client EXCEPT ![c] = cl] BY <1>5 DEF ListPrefetched
  <2> HIDE DEF G
  <2>2. cl.stream = client[c].stream /\ cl.pc = "listed" BY ClientFacts DEF ClientFields
  <2> HIDE DEF cl
  <2> QED BY <1>3, <2>1, <2>2
<1>6. ASSUME NEW c \in Clients, ListCached(c) PROVE StreamInv'
  <2> DEFINE r == cached[Entry(c).path]
             cl == [client[c] EXCEPT !.pc = "listed", !.of = r.of, !.shown = r.children]
  <2>1. client' = [client EXCEPT ![c] = cl] BY <1>6 DEF ListCached
  <2> HIDE DEF r
  <2>2. cl.stream = client[c].stream /\ cl.pc = "listed" BY ClientFacts DEF ClientFields
  <2> HIDE DEF cl
  <2> QED BY <1>3, <2>1, <2>2
<1>7. ASSUME NEW c \in Clients, ListRuns(c) PROVE StreamInv'
  <2>1. PICK R : client' = [client EXCEPT ![c] = [@ EXCEPT !.pc = "listing", !.result = R]]
    BY <1>7 DEF ListRuns
  <2> DEFINE cl == [client[c] EXCEPT !.pc = "listing", !.result = R]
  <2>2. client' = [client EXCEPT ![c] = cl] BY <2>1
  <2>3. cl.stream = client[c].stream /\ cl.pc = "listing" BY ClientFacts DEF ClientFields
  <2> HIDE DEF cl
  <2> QED BY <1>3, <2>2, <2>3
<1>8. ASSUME NEW c \in Clients, ListEnds(c) PROVE StreamInv'
  <2>1. CASE client' = [client EXCEPT ![c] = Idle] BY <1>2, <2>1
  <2>2. ASSUME NEW id, NEW G,
               client' = Overlapped([client EXCEPT ![c] = [@ EXCEPT !.pc = "listed", !.of = id,
                                                                  !.shown = G, !.result = {}]], c)
        PROVE  StreamInv'
    <3> DEFINE cl == [client[c] EXCEPT !.pc = "listed", !.of = id, !.shown = G, !.result = {}]
               cls == [client EXCEPT ![c] = cl]
    <3>1. client' = Overlapped(cls, c) BY <2>2
    <3>2. cl.stream = client[c].stream /\ cl.pc = "listed" BY ClientFacts DEF ClientFields
    <3> HIDE DEF cl
    <3>3. cls[c] = cl /\ \A d \in Clients : d # c => cls[d] = client[d] BY DEF VolumeInv
    <3> HIDE DEF cls
    <3>4. ASSUME NEW d \in Clients PROVE StreamOK(client'[d])
      <4>1. CASE d = c
        <5>1. client'[d] = cl BY <3>1, <3>3, <4>1 DEF Overlapped
        <5> QED BY <1>0, <3>2, <4>1, <5>1, StreamKept
      <4>2. CASE d # c
        <5>1. client'[d] = client[d] \/ client'[d] = [client[d] EXCEPT !.overlap = TRUE]
          BY <3>1, <3>3, <4>2 DEF Overlapped
        <5>2. client'[d].stream = client[d].stream /\ client'[d].pc = client[d].pc
          BY <5>1, ClientFacts DEF ClientFields
        <5> QED BY <1>0, <5>2, StreamKept
      <4> QED BY <4>1, <4>2
    <3> QED BY <3>4 DEF StreamInv
  <2> QED BY <1>8, <2>1, <2>2 DEF ListEnds
<1>9. ASSUME NEW c \in Clients, Choose(c) PROVE StreamInv'
  <2>1. CASE client' = [client EXCEPT ![c] = Idle] BY <1>2, <2>1
  <2>2. ASSUME NEW e, client' = [client EXCEPT ![c] = [Idle EXCEPT !.entry = e, !.overlap = client[c].overlap]]
        PROVE  StreamInv'
    <3> DEFINE cl == [Idle EXCEPT !.entry = e, !.overlap = client[c].overlap]
    <3>1. cl.stream = NoStream /\ cl.pc = "idle" BY IdleFacts DEF ClientFields
    <3> HIDE DEF cl
    <3>2. StreamOK(cl) BY <3>1, NoStreamOK
    <3> QED BY <2>2, <3>2, StreamClient DEF cl
  <2> QED BY <1>9, <2>1, <2>2 DEF Choose
<1>10. ASSUME NEW c \in Clients, VolumeDelete(c) PROVE StreamInv'
  <2>1. CASE client' = [client EXCEPT ![c] = Idle] BY <1>2, <2>1
  <2>2. CASE client' = [client EXCEPT ![c].pc = "deleting"]
    <3> DEFINE cl == [client[c] EXCEPT !.pc = "deleting"]
    <3>1. cl.stream = client[c].stream /\ cl.pc = "deleting" BY ClientFacts DEF ClientFields
    <3>2. client' = [client EXCEPT ![c] = cl] BY <2>2
    <3> HIDE DEF cl
    <3> QED BY <1>3, <3>1, <3>2
  <2> QED BY <1>10, <2>1, <2>2 DEF VolumeDelete
<1>11. ASSUME NEW c \in Clients, DeleteNode(c) PROVE StreamInv'
  <2>1. PICK pc \in {"panicked", "deleted"} : client' = [client EXCEPT ![c].pc = pc] BY <1>11 DEF DeleteNode
  <2> DEFINE cl == [client[c] EXCEPT !.pc = pc]
  <2>2. cl.stream = client[c].stream /\ cl.pc = pc BY ClientFacts DEF ClientFields
  <2>3. client' = [client EXCEPT ![c] = cl] BY <2>1
  <2> HIDE DEF cl
  <2> QED BY <1>3, <2>2, <2>3
<1>12. ASSUME NEW c \in Clients, DeleteReturns(c) \/ Leave(c) PROVE StreamInv'
  BY <1>2, <1>12 DEF DeleteReturns, Leave
<1>13. ASSUME NEW c \in Clients, VolumeStream(c) PROVE StreamInv'
  <2>1. CASE client' = [client EXCEPT ![c] = Idle] BY <1>2, <2>1
  <2>2. ASSUME NEW out \in Outputs,
               client' = [client EXCEPT ![c] = [Idle EXCEPT !.pc = "streaming",
                            !.stream = [NoStream EXCEPT !.output = out, !.out = out, !.reader = "open"]]]
        PROVE  StreamInv'
    <3> DEFINE st == [NoStream EXCEPT !.output = out, !.out = out, !.reader = "open"]
               cl == [Idle EXCEPT !.pc = "streaming", !.stream = st]
    <3> HIDE DEF st
    <3>1. cl.pc = "streaming" /\ cl.stream = st BY IdleFacts DEF ClientFields
    <3>2. client' = [client EXCEPT ![c] = cl] BY <2>2 DEF st
    <3> HIDE DEF cl
    <3>3. StreamOK(cl) BY <3>1, NewStreamOK DEF st
    <3> QED BY <3>2, <3>3, StreamClient
  <2> QED BY <1>13, <2>1, <2>2 DEF VolumeStream
<1>14. ASSUME NEW c \in Clients, StreamChunk(c) PROVE StreamInv'
  <2> DEFINE st == client[c].stream
             st2 == Received(st)
             cl == [client[c] EXCEPT !.stream = st2]
  <2>1. /\ client[c].pc = "streaming" /\ st.out # <<>> /\ st.writing = <<>>
        /\ client' = [client EXCEPT ![c] = cl]
    BY <1>14 DEF StreamChunk, At
  <2>2. Copying(st) /\ st.ended = "no" BY <1>0, <2>1 DEF StreamOK
  <2>3. Copying(st2) /\ st2.ended = "no"
    <3> HIDE DEF st
    <3> QED BY <2>1, <2>2, ReceivedOK
  <2> HIDE DEF st2
  <2>4. cl.stream = st2 /\ cl.pc = "streaming" BY <2>1, ClientFacts DEF ClientFields
  <2> HIDE DEF cl
  <2>5. StreamOK(cl) BY <2>3, <2>4 DEF StreamOK
  <2> QED BY <2>1, <2>5, StreamClient
<1>15. ASSUME NEW c \in Clients, NEW st, Copying(client[c].stream), DOMAIN st = StreamFields,
              \A x \in StreamFields \ {"ended", "reader"} : st[x] = client[c].stream[x],
              st.reader = client[c].stream.reader \/ st.reader = "closed"
       PROVE  Copying(st)
  <2> DEFINE old == client[c].stream
  <2>1. /\ st.output = old.output /\ st.out = old.out /\ st.got = old.got /\ st.errs = old.errs
        /\ st.writing = old.writing
        /\ st.reader = "open" => old.reader = "open"
    BY <1>15 DEF StreamFields
  <2>2. Copying(old) BY <1>15
  <2> HIDE DEF old
  <2> QED BY <1>15, <2>1, <2>2 DEF Copying
<1>16. ASSUME NEW c \in Clients, CloseReader(c) PROVE StreamInv'
  <2> DEFINE st == [client[c].stream EXCEPT !.reader = "closed"]
             cl == [client[c] EXCEPT !.stream = st]
  <2>1. client[c].pc = "streaming" /\ client' = [client EXCEPT ![c] = cl] BY <1>16 DEF CloseReader, At
  <2>2. Copying(client[c].stream) /\ client[c].stream.ended = "no" BY <1>0, <2>1 DEF StreamOK
  <2>3. /\ DOMAIN st = StreamFields /\ st.reader = "closed" /\ st.ended = "no"
        /\ \A x \in StreamFields \ {"ended", "reader"} : st[x] = client[c].stream[x]
    BY <2>2 DEF Copying, StreamFields
  <2> HIDE DEF st
  <2>4. Copying(st) BY <1>15, <2>2, <2>3
  <2>5. cl.stream = st /\ cl.pc = "streaming" BY <2>1, ClientFacts DEF ClientFields
  <2> HIDE DEF cl
  <2>6. StreamOK(cl) BY <2>3, <2>4, <2>5 DEF StreamOK
  <2> QED BY <2>1, <2>6, StreamClient
<1>17. ASSUME NEW c \in Clients, StreamEnds(c) PROVE StreamInv'
  <2> DEFINE e == IF client[c].stream.errs THEN "error" ELSE "eof"
             st == [client[c].stream EXCEPT !.ended = e]
             cl == [client[c] EXCEPT !.pc = "streamed", !.stream = st]
  <2>1. /\ client[c].pc = "streaming" /\ client[c].stream.out = <<>> /\ client[c].stream.writing = <<>>
        /\ client' = [client EXCEPT ![c].pc = "streamed", ![c].stream.ended = e]
    BY <1>17 DEF StreamEnds, At
  <2>2. Copying(client[c].stream) BY <1>0 DEF StreamOK
  <2> HIDE DEF e
  <2>3. client' = [client EXCEPT ![c] = cl] BY <2>1, ClientFacts DEF ClientFields
  <2>4. /\ DOMAIN st = StreamFields /\ st.reader = client[c].stream.reader /\ st.ended = e
        /\ \A x \in StreamFields \ {"ended", "reader"} : st[x] = client[c].stream[x]
    BY <2>2 DEF Copying, StreamFields
  <2> HIDE DEF st
  <2>5. Copying(st) BY <1>15, <2>2, <2>4
  <2>6. cl.stream = st /\ cl.pc = "streamed" BY ClientFacts DEF ClientFields
  <2>7. st.out = <<>> /\ st.writing = <<>> /\ st.errs = client[c].stream.errs BY <2>1, <2>4 DEF StreamFields
  <2> HIDE DEF cl
  <2>8. st.ended = IF st.errs THEN "error" ELSE "eof" BY <2>4, <2>7 DEF e
  <2>9. StreamOK(cl) BY <2>5, <2>6, <2>7, <2>8 DEF StreamOK
  <2> QED BY <2>3, <2>9, StreamClient
<1>18. ASSUME NEW c \in Clients, ReaderReads(c) PROVE StreamInv'
  <2> DEFINE old == client[c].stream
             g == Append(old.got, Head(old.writing))
             st == [old EXCEPT !.got = g, !.writing = <<>>]
             cl == [client[c] EXCEPT !.stream = st]
  <2>1. /\ client[c].pc = "streaming" /\ old.writing # <<>>
        /\ client' = [client EXCEPT ![c].stream.got = g, ![c].stream.writing = <<>>]
    BY <1>18 DEF ReaderReads, At
  <2>2. Copying(old) /\ old.ended = "no" BY <1>0, <2>1 DEF StreamOK
  <2> HIDE DEF g
  <2>3. client' = [client EXCEPT ![c] = cl] BY <2>1, ClientFacts DEF ClientFields
  <2>4. /\ DOMAIN st = StreamFields /\ st.reader = old.reader /\ st.ended = "no" /\ st.output = old.output
        /\ st.out = old.out /\ st.errs = old.errs /\ st.got = g /\ st.writing = <<>>
    BY <2>2 DEF Copying, StreamFields
  <2> HIDE DEF st, old
  <2>5. Copying(st) BY <2>1, <2>2, <2>4, TakenOK DEF g
  <2>6. cl.stream = st /\ cl.pc = "streaming" BY <2>1, ClientFacts DEF ClientFields
  <2> HIDE DEF cl
  <2>7. StreamOK(cl) BY <2>4, <2>5, <2>6 DEF StreamOK
  <2> QED BY <2>3, <2>7, StreamClient
<1>19. ASSUME NEW c \in Clients, WriteFails(c) PROVE StreamInv'
  <2> DEFINE old == client[c].stream
             st == [old EXCEPT !.errs = TRUE, !.writing = <<>>]
             cl == [client[c] EXCEPT !.stream = st]
  <2>1. /\ client[c].pc = "streaming" /\ old.writing # <<>> /\ old.reader = "closed"
        /\ client' = [client EXCEPT ![c].stream.errs = TRUE, ![c].stream.writing = <<>>]
    BY <1>19 DEF WriteFails, At
  <2>2. Copying(old) /\ old.ended = "no" BY <1>0, <2>1 DEF StreamOK
  <2>3. client' = [client EXCEPT ![c] = cl] BY <2>1, ClientFacts DEF ClientFields
  <2>4. /\ DOMAIN st = StreamFields /\ st.reader = old.reader /\ st.ended = "no" /\ st.output = old.output
        /\ st.out = old.out /\ st.errs = TRUE /\ st.got = old.got /\ st.writing = <<>>
    BY <2>2 DEF Copying, StreamFields
  <2> HIDE DEF st, old
  <2>5. Copying(st) BY <2>1, <2>2, <2>4, LostOK
  <2>6. cl.stream = st /\ cl.pc = "streaming" BY <2>1, ClientFacts DEF ClientFields
  <2> HIDE DEF cl
  <2>7. StreamOK(cl) BY <2>4, <2>5, <2>6 DEF StreamOK
  <2> QED BY <2>3, <2>7, StreamClient
<1> QED
  BY <1>4, <1>5, <1>6, <1>7, <1>8, <1>9, <1>10, <1>11, <1>12, <1>13, <1>14, <1>16, <1>17, <1>18, <1>19 DEF Next

LEMMA StreamFollows == StreamInv => StreamExact
<1> SUFFICES ASSUME StreamInv, NEW c \in Clients, client[c].pc = "streamed"
             PROVE  LET stream == client[c].stream
                        out == stream.output
                        got == stream.got
                    IN  /\ Len(got) <= Len(out)
                        /\ \A i \in DOMAIN got : got[i] = out[i] /\ out[i] # "error"
                        /\ stream.reader = "open" => got = out \/ out[Len(got) + 1] = "error"
                        /\ stream.ended = "eof" <=> got = out
  BY DEF StreamExact
<1> DEFINE st == client[c].stream
           S == STRING
           out == st.output
           got == st.got
<1>1. Copying(st) /\ st.out = <<>> /\ st.writing = <<>> /\ st.ended = IF st.errs THEN "error" ELSE "eof"
  BY DEF StreamInv, StreamOK
<1>2. out \in Seq(S) /\ got \in Seq(S) BY <1>1 DEF Copying
<1>3. Len(st.output) - Len(st.out) = Len(out)
  <2>1. Len(<<>>) = 0 /\ Len(out) \in Nat BY <1>2
  <2> HIDE DEF st
  <2> QED BY <1>1, <2>1
<1>4. /\ \A i \in 1..Len(got) : got[i] = out[i] /\ out[i] # "error"
      /\ ~st.errs => Len(got) = Len(out)
      /\ st.errs => Len(got) < Len(out) /\ (st.reader = "open" => out[Len(got) + 1] = "error")
  BY <1>1, <1>3 DEF Copying
<1>13. st.errs \in BOOLEAN BY <1>1 DEF Copying
<1> HIDE DEF S, out, got
<1>5. DOMAIN got = 1..Len(got) /\ Len(got) \in Nat /\ Len(out) \in Nat BY <1>2, LenProperties
<1>6. Len(got) = Len(out) => got = out BY <1>2, <1>4, SeqEqual
<1>7. ~st.errs => got = out BY <1>4, <1>6
<1>8. st.errs => got # out BY <1>4, <1>5
<1>9. st.ended = "eof" <=> ~st.errs BY <1>1
<1>10. st.reader = "open" => got = out \/ out[Len(got) + 1] = "error" BY <1>4, <1>7
<1>11. \A i \in DOMAIN got : got[i] = out[i] /\ out[i] # "error" BY <1>4, <1>5
<1>12. st.ended = "eof" <=> got = out BY <1>7, <1>8, <1>9
<1>14. Len(got) <= Len(out) BY <1>4, <1>5, <1>13
<1> QED BY <1>10, <1>11, <1>12, <1>14 DEF out, got

\* fs.go:175: the reader of a stream gets what the command wrote before its first error, in order
\* and without gaps, and end of file only if it got all; for outputs of any length.
THEOREM StreamExactCorrect == Spec => []StreamExact
<1>1. Init => StreamInv
  <2>1. SUFFICES ASSUME Init, NEW c \in Clients PROVE StreamOK(client[c]) BY DEF StreamInv
  <2>2. client[c] = Idle BY <2>1 DEF Init
  <2> QED BY <2>2, IdleFacts, NoStreamOK
<1>2. VolumeInv /\ StreamInv /\ [Next]_vars => StreamInv' BY StreamStep
<1>3. StreamInv => StreamExact BY StreamFollows
<1> QED BY <1>1, <1>2, <1>3, VolumeInvariant, PTL DEF Spec

-----------------------------------------------------------------------------
(* Deletions *)

\* What is missing stays missing for a client when dirmaps shrink, others are made, and no cached
\* list is replaced.
LEMMA ClientGoneKept ==
  ASSUME NEW cl, NEW snaps, NEW snaps2, NEW dels, NEW dirmaps, NEW dirmaps2, NEW lists, NEW lists2,
         NEW missing, NEW missing2,
         ClientOK(cl, snaps, dels, dirmaps), ClientGone(cl, snaps, dirmaps, lists, missing),
         Grows(snaps, snaps2), Shrinks(dirmaps, dirmaps2, Len(snaps)),
         missing2 \subseteq missing, missing \subseteq Paths \ {RootPath},
         cl.overlap \/ \A q \in DOMAIN lists2 : q \in DOMAIN lists /\ lists2[q].of = lists[q].of
  PROVE  ClientGone(cl, snaps2, dirmaps2, lists2, missing2)
<1>1. ASSUME NEW i \in 1..Len(snaps), NEW p \in missing2, Free(snaps, dirmaps, i, p)
      PROVE  Free(snaps2, dirmaps2, i, p)
  BY <1>1 DEF Free, Grows, Shrinks
<1>2. ASSUME NEW i \in 1..Len(snaps), Current(snaps, lists, i), ~cl.overlap PROVE Current(snaps2, lists2, i)
  BY <1>2 DEF Current, Grows
<1>3. cl.entry.dirmap # 0 => cl.entry.dirmap \in 1..Len(snaps) BY DEF ClientOK, EntryOK
<1>4. cl.pc = "listed" => cl.of \in 1..Len(snaps) BY DEF ClientOK
<1>5. cl.entry.dirmap # 0 => \A p \in missing2 : Free(snaps2, dirmaps2, cl.entry.dirmap, p)
  BY <1>1, <1>3 DEF ClientGone
<1>6. cl.pc = "listed" => \A p \in missing2 : Free(snaps2, dirmaps2, cl.of, p)
  BY <1>1, <1>4 DEF ClientGone
<1>7. cl.pc = "listing" => \A r \in cl.result : \A p \in missing2 : p \notin r.nodes
  BY DEF ClientGone
<1>8. ASSUME ~cl.overlap
      PROVE  /\ cl.entry.dirmap # 0 => Current(snaps2, lists2, cl.entry.dirmap)
             /\ cl.pc = "listed" => Current(snaps2, lists2, cl.of)
  BY <1>2, <1>3, <1>4, <1>8 DEF ClientGone
<1> QED BY <1>5, <1>6, <1>7, <1>8 DEF ClientGone

LEMMA CachedGoneKept ==
  ASSUME NEW lists, NEW lists2, NEW snaps, NEW snaps2, NEW dels, NEW dirmaps, NEW dirmaps2,
         NEW missing, NEW missing2,
         CachedOK(lists, snaps, dels), CachedGone(lists, snaps, dirmaps, missing),
         Grows(snaps, snaps2), Shrinks(dirmaps, dirmaps2, Len(snaps)),
         missing2 \subseteq missing, missing \subseteq Paths \ {RootPath},
         \A q \in DOMAIN lists2 : /\ q \in DOMAIN lists /\ lists2[q].of = lists[q].of
                                  /\ DOMAIN lists2[q].children \subseteq DOMAIN lists[q].children
  PROVE  CachedGone(lists2, snaps2, dirmaps2, missing2)
<1> SUFFICES ASSUME NEW q \in DOMAIN lists2, NEW p \in missing2
             PROVE  /\ q = Parent(p) => Last(p) \notin DOMAIN lists2[q].children
                    /\ Free(snaps2, dirmaps2, lists2[q].of, p)
  BY DEF CachedGone
<1>1. /\ q = Parent(p) => Last(p) \notin DOMAIN lists[q].children
      /\ Free(snaps, dirmaps, lists[q].of, p)
  BY DEF CachedGone
<1>2. lists[q].of \in 1..Len(snaps) /\ lists2[q].of = lists[q].of BY DEF CachedOK
<1>3. Free(snaps2, dirmaps2, lists[q].of, p)
  BY <1>1, <1>2 DEF Free, Grows, Shrinks
<1> QED BY <1>1, <1>2, <1>3

LEMMA IdleGone == \A snaps, dirmaps, lists, missing : ClientGone(Idle, snaps, dirmaps, lists, missing)
<1>1. Idle.entry.dirmap = 0 BY IdleFacts DEF Root
<1> QED BY <1>1, IdleFacts DEF ClientGone

LEMMA NotBusyGone ==
  ASSUME NEW cl, ~Busy(cl), NEW snaps, NEW dirmaps, NEW lists, NEW missing
  PROVE  ClientGone(cl, snaps, dirmaps, lists, missing)
<1>1. cl.pc \in {"idle", "streaming", "streamed"} /\ cl.entry.dirmap = 0 BY DEF Busy, Root
<1> QED BY <1>1 DEF ClientGone

LEMMA SameFacts ==
  ASSUME VolumeInv
  PROVE  Grows(snapshot, snapshot) /\ Shrinks(maps, maps, Len(snapshot))
BY LenProperties DEF Grows, Shrinks, VolumeInv, MapsInv

\* A step that only changes what one client does
LEMMA GoneClient ==
  ASSUME VolumeInv, GoneInv, NEW c \in Clients, NEW cl, client' = [client EXCEPT ![c] = cl],
         ClientGone(cl, snapshot, maps, cached, gone), UNCHANGED <<remote, maps, cached, snapshot, gone>>
  PROVE  GoneInv'
<1>1. \A d \in Clients : client'[d] = IF d = c THEN cl ELSE client[d] BY DEF VolumeInv
<1>2. \A d \in Clients : ClientGone(client'[d], snapshot, maps, cached, gone) BY <1>1 DEF GoneInv
<1> QED BY <1>2 DEF GoneInv

\* A client that shows nothing new
LEMMA QuietGone ==
  ASSUME NEW cl, NEW cl2, NEW snaps, NEW dirmaps, NEW lists, NEW missing,
         ClientGone(cl, snaps, dirmaps, lists, missing),
         cl2.entry.dirmap = 0 \/ (cl2.entry = cl.entry /\ cl2.overlap = cl.overlap),
         cl2.pc \notin {"listed", "listing"}
  PROVE  ClientGone(cl2, snaps, dirmaps, lists, missing)
BY DEF ClientGone

\* A dirmap shows no node that its command did not see.
LEMMA UnseenFree ==
  ASSUME NEW dm, NEW s \in Paths, NEW V, NEW dels, MapOK(dm, s, V, dels),
         NEW p \in Paths \ {RootPath}, p \notin V, IsBelow(p, s)
  PROVE  ~Holds(dm, p)
<1>1. SUFFICES ASSUME Holds(dm, p) PROVE FALSE OBVIOUS
<1>2. Parent(p) \in DOMAIN dm /\ dm[Parent(p)] # Nil /\ Last(p) \in DOMAIN dm[Parent(p)] BY <1>1 DEF Holds
<1>3. AtOrBelow(Parent(p), s) BY BelowParent
<1>4. Append(Parent(p), Last(p)) \in V BY <1>2, <1>3 DEF MapOK
<1> QED BY <1>4, ParentLast

\* What a dirmap shows is within its depth.
LEMMA HeldDepth ==
  ASSUME NEW dm, NEW s \in Paths, NEW V, NEW dels, MapOK(dm, s, V, dels),
         NEW p \in Paths \ {RootPath}, IsBelow(p, s), Holds(dm, p)
  PROVE  Len(s) < Len(p) /\ Len(p) <= Len(s) + MaxDepth
<1>1. Parent(p) \in DOMAIN dm /\ dm[Parent(p)] # Nil BY DEF Holds
<1>2. AtOrBelow(Parent(p), s) BY BelowParent
<1>3. Len(Parent(p)) <= Len(s) + MaxDepth /\ Len(Parent(p)) # Len(s) + MaxDepth BY <1>1, <1>2 DEF MapOK
<1>4. Len(Parent(p)) = Len(p) - 1 /\ Len(p) \in Nat BY ParentFacts
<1>5. Len(s) \in Nat /\ Len(s) < Len(p) BY BelowLen DEF AtOrBelow
<1> QED BY <1>3, <1>4, <1>5, DepthAssumption

\* The listings that only change what one client does
LEMMA GoneLists ==
  ASSUME VolumeInv, GoneInv, NEW c \in Clients, ListPrefetched(c) \/ ListCached(c) \/ ListRuns(c) \/ Choose(c)
  PROVE  GoneInv'
<1>0. ClientGone(client[c], snapshot, maps, cached, gone) BY DEF GoneInv
<1>1. CASE ListPrefetched(c)
  <2> DEFINE i == Entry(c).dirmap
             G == GenerateChildren(maps[i], i, Entry(c).path)
             cl == [client[c] EXCEPT !.pc = "listed", !.of = i, !.shown = G]
  <2>1. /\ client' = [client EXCEPT ![c] = cl] /\ i # 0
        /\ UNCHANGED <<remote, maps, cached, snapshot, gone>>
    BY <1>1 DEF ListPrefetched, history
  <2> HIDE DEF G
  <2>2. cl.pc = "listed" /\ cl.of = i /\ cl.entry = client[c].entry /\ cl.overlap = client[c].overlap
    BY ClientFacts DEF ClientFields
  <2> HIDE DEF cl
  <2>3. i = client[c].entry.dirmap BY DEF Entry
  <2> HIDE DEF i
  <2>4. ClientGone(cl, snapshot, maps, cached, gone) BY <1>0, <2>1, <2>2, <2>3 DEF ClientGone
  <2> QED BY <2>1, <2>4, GoneClient
<1>2. CASE ListCached(c)
  <2> DEFINE q == Entry(c).path
             r == cached[q]
             cl == [client[c] EXCEPT !.pc = "listed", !.of = r.of, !.shown = r.children]
  <2>1. /\ client' = [client EXCEPT ![c] = cl] /\ Entry(c).dirmap = 0 /\ q \in DOMAIN cached
        /\ UNCHANGED <<remote, maps, cached, snapshot, gone>>
    BY <1>2 DEF ListCached, history
  <2> HIDE DEF r
  <2>2. cl.pc = "listed" /\ cl.of = r.of /\ cl.entry = client[c].entry /\ cl.overlap = client[c].overlap
    BY ClientFacts DEF ClientFields
  <2> HIDE DEF cl
  <2>3. snapshot[r.of].start = q BY <2>1 DEF VolumeInv, CachedOK, r
  <2>4. Current(snapshot, cached, r.of) BY <2>3 DEF Current, r
  <2>5. \A p \in gone : Free(snapshot, maps, r.of, p) BY <2>1 DEF GoneInv, CachedGone, r
  <2>6. cl.entry.dirmap = 0 BY <2>1, <2>2 DEF Entry
  <2>7. ClientGone(cl, snapshot, maps, cached, gone) BY <2>2, <2>4, <2>5, <2>6 DEF ClientGone
  <2> QED BY <2>1, <2>7, GoneClient
<1>3. CASE ListRuns(c)
  <2> DEFINE q == Entry(c).path
  <2>1. PICK command \in Commands(q) :
          client' = [client EXCEPT ![c] =
                       [@ EXCEPT !.pc = "listing",
                                 !.result = {[dirmap |-> dirmap, nodes |-> command.visible] :
                                                dirmap \in VolumeList(command, q)}]]
    BY <1>3 DEF ListRuns
  <2> DEFINE R == {[dirmap |-> dirmap, nodes |-> command.visible] : dirmap \in VolumeList(command, q)}
             cl == [client[c] EXCEPT !.pc = "listing", !.result = R]
  <2>2. /\ client' = [client EXCEPT ![c] = cl] /\ Entry(c).dirmap = 0
        /\ UNCHANGED <<remote, maps, cached, snapshot, gone>>
    BY <1>3, <2>1 DEF ListRuns, history
  <2>3. q \in Paths /\ RemoteOK(remote) BY ClientFacts DEF VolumeInv
  <2>4. command.visible \subseteq DOMAIN remote
    <3> HIDE DEF q
    <3> QED BY <2>3, CommandFacts
  <2>5. \A r \in R : r.nodes = command.visible OBVIOUS
  <2>6. \A r \in R : \A p \in gone : p \notin r.nodes BY <2>4, <2>5 DEF GoneInv
  <2> HIDE DEF R
  <2>7. cl.pc = "listing" /\ cl.result = R /\ cl.entry = client[c].entry
    BY ClientFacts DEF ClientFields
  <2> HIDE DEF cl
  <2>8. cl.entry.dirmap = 0 BY <2>2, <2>7 DEF Entry
  <2>9. ClientGone(cl, snapshot, maps, cached, gone) BY <2>6, <2>7, <2>8 DEF ClientGone
  <2> QED BY <2>2, <2>9, GoneClient
<1>4. CASE Choose(c)
  <2>1. client[c].pc = "listed" /\ UNCHANGED <<remote, maps, cached, snapshot, gone>>
    BY <1>4 DEF Choose, At, history
  <2>2. CASE client' = [client EXCEPT ![c] = Idle] BY <2>1, <2>2, IdleGone, GoneClient
  <2>3. ASSUME NEW name \in DOMAIN client[c].shown,
               client' = [client EXCEPT ![c] = [Idle EXCEPT !.entry = client[c].shown[name],
                                                            !.overlap = client[c].overlap]]
        PROVE  GoneInv'
    <3> DEFINE e == client[c].shown[name]
               cl == [Idle EXCEPT !.entry = e, !.overlap = client[c].overlap]
    <3>1. e.dirmap \in {0, client[c].of} BY <2>1, ClientFacts DEF ClientOK, ShownOK
    <3>2. client' = [client EXCEPT ![c] = cl] BY <2>3
    <3> HIDE DEF e
    <3>3. cl.pc = "idle" /\ cl.entry = e /\ cl.overlap = client[c].overlap BY IdleFacts DEF ClientFields
    <3> HIDE DEF cl
    <3>4. ClientGone(cl, snapshot, maps, cached, gone) BY <1>0, <2>1, <3>1, <3>3 DEF ClientGone
    <3> QED BY <2>1, <3>2, <3>4, GoneClient
  <2> QED BY <1>4, <2>2, <2>3 DEF Choose
<1> QED BY <1>1, <1>2, <1>3, <1>4

\* A new listing cannot bring back what is missing: its command did not see it.  It replaces the
\* cached list, and every client on its way is marked as overlapped.
LEMMA GoneListEnds ==
  ASSUME VolumeInv, GoneInv, NEW c \in Clients, ListEnds(c)
  PROVE  GoneInv'
<1>0. ClientGone(client[c], snapshot, maps, cached, gone) BY DEF GoneInv
<1>1. client[c].pc = "listing" /\ UNCHANGED <<remote, deletions, gone>> BY DEF ListEnds, At
<1>2. CASE client[c].result = {} \/ Len(maps) = MaxLists
  <2>1. client' = [client EXCEPT ![c] = Idle] /\ UNCHANGED <<maps, cached, snapshot>> BY <1>2 DEF ListEnds
  <2> QED BY <1>1, <2>1, IdleGone, GoneClient
<1>3. CASE ~(client[c].result = {} \/ Len(maps) = MaxLists)
  <2> DEFINE q == Entry(c).path
             id == Len(maps) + 1
             snaps == snapshot'
             dirmaps == maps'
             lists == cached'
  <2>1. PICK r \in client[c].result :
          /\ Made(r.dirmap, q, r.nodes)
          /\ cached' = Put(cached, q, [of |-> id, children |-> GenerateChildren(r.dirmap, id, q)])
          /\ client' = Overlapped([client EXCEPT ![c] = [@ EXCEPT !.pc = "listed", !.of = id,
                            !.shown = GenerateChildren(r.dirmap, id, q), !.result = {}]], c)
    BY <1>3 DEF ListEnds
  <2> DEFINE G == GenerateChildren(r.dirmap, id, q)
             cl == [client[c] EXCEPT !.pc = "listed", !.of = id, !.shown = G, !.result = {}]
             cls == [client EXCEPT ![c] = cl]
  <2>2. /\ SnapOK([start |-> q, nodes |-> r.nodes]) /\ MapOK(r.dirmap, q, r.nodes, {}) /\ q \in Paths
        /\ Entry(c).dirmap = 0 /\ \A p \in gone : p \notin r.nodes
    BY <1>0, <1>1, ClientFacts DEF ClientOK, Entry, ClientGone
  <2>3. Len(maps) # MaxLists BY <1>3
  <2>4. /\ Grows(snapshot, snaps) /\ Shrinks(maps, dirmaps, Len(snapshot))
        /\ snaps[id] = [start |-> q, nodes |-> r.nodes] /\ dirmaps[id] = r.dirmap
    <3> HIDE DEF q
    <3> QED BY <1>1, <2>1, <2>2, <2>3, MadeOK
  <2>5. id \in 1..Len(snaps) /\ snaps[id].start = q /\ ShownOK(G, id, q, snaps, deletions) /\ snaps[id].nodes = r.nodes
    <3>1. id \in 1..Len(snaps) /\ snaps[id].start = q /\ ShownOK(G, id, q, snaps, deletions)
      <4> HIDE DEF q
      <4> QED BY <1>1, <2>1, <2>2, <2>3, NewListOK
    <3> QED BY <2>4, <3>1
  <2>6. lists = Put(cached, q, [of |-> id, children |-> G]) /\ client' = Overlapped(cls, c) BY <2>1
  <2>7. gone \subseteq Paths \ {RootPath} BY DEF GoneInv
  <2> HIDE DEF q, id, snaps, dirmaps, G
  <2>8. /\ DOMAIN lists = DOMAIN cached \union {q} /\ lists[q].of = id /\ lists[q].children = G
        /\ \A x \in DOMAIN cached : x # q => lists[x] = cached[x]
    BY <2>6 DEF Put
  <2> HIDE DEF lists
  <2>9. ASSUME NEW p \in gone PROVE Free(snaps, dirmaps, id, p)
    <3>1. ASSUME IsBelow(p, q) PROVE ~Holds(r.dirmap, p) BY <2>2, <2>7, <3>1, UnseenFree
    <3> QED BY <2>4, <2>5, <3>1 DEF Free
  <2>10. ASSUME NEW p \in gone, Parent(p) = q PROVE Last(p) \notin DOMAIN G
    <3>1. SUFFICES ASSUME Last(p) \in DOMAIN G PROVE FALSE OBVIOUS
    <3>2. Append(q, Last(p)) \in r.nodes BY <2>5, <3>1 DEF ShownOK
    <3>3. p = Append(q, Last(p)) BY <2>7, <2>10, ParentLast
    <3> QED BY <2>2, <3>2, <3>3
  <2>11. CachedGone(lists, snaps, dirmaps, gone)
    <3> SUFFICES ASSUME NEW x \in DOMAIN lists, NEW p \in gone
                 PROVE  /\ x = Parent(p) => Last(p) \notin DOMAIN lists[x].children
                        /\ Free(snaps, dirmaps, lists[x].of, p)
      BY DEF CachedGone
    <3>1. CASE x = q BY <2>8, <2>9, <2>10, <3>1
    <3>2. CASE x # q
      <4>1. x \in DOMAIN cached /\ lists[x] = cached[x] BY <2>8, <3>2
      <4>2. /\ x = Parent(p) => Last(p) \notin DOMAIN cached[x].children
            /\ Free(snapshot, maps, cached[x].of, p)
        BY <4>1 DEF GoneInv, CachedGone
      <4>3. cached[x].of \in 1..Len(snapshot) BY <4>1 DEF VolumeInv, CachedOK
      <4>4. Free(snaps, dirmaps, cached[x].of, p) BY <2>4, <2>7, <4>2, <4>3 DEF Free, Grows, Shrinks
      <4> QED BY <4>1, <4>2, <4>4
    <3> QED BY <3>1, <3>2
  <2>12. /\ cl.pc = "listed" /\ cl.of = id /\ cl.entry = Entry(c) /\ DOMAIN cl = ClientFields
    BY ClientFacts DEF ClientFields, Entry
  <2> HIDE DEF cl
  <2>13. DOMAIN cls = Clients /\ cls[c] = cl /\ \A d \in Clients : d # c => cls[d] = client[d] BY DEF VolumeInv
  <2> HIDE DEF cls
  <2>14. ASSUME NEW d \in Clients PROVE ClientGone(client'[d], snaps, dirmaps, lists, gone)
    <3>1. CASE d = c
      <4>1. client'[d] = cl BY <2>6, <2>13, <3>1 DEF Overlapped
      <4>2. Current(snaps, lists, id) BY <2>5, <2>8 DEF Current
      <4>3. ClientGone(cl, snaps, dirmaps, lists, gone) BY <2>2, <2>9, <2>12, <4>2 DEF ClientGone
      <4> QED BY <4>1, <4>3
    <3>2. CASE d # c /\ ~Busy(client[d])
      <4>1. client'[d] = client[d] BY <2>6, <2>13, <3>2 DEF Overlapped
      <4> QED BY <3>2, <4>1, NotBusyGone
    <3>3. CASE d # c /\ Busy(client[d])
      <4> DEFINE o == [client[d] EXCEPT !.overlap = TRUE]
      <4>1. client'[d] = o BY <2>6, <2>13, <3>3 DEF Overlapped
      <4>2. /\ o.overlap = TRUE /\ o.pc = client[d].pc /\ o.entry = client[d].entry /\ o.of = client[d].of
            /\ o.result = client[d].result
        BY ClientFacts DEF ClientFields
      <4>3. ClientOK(o, snapshot, deletions, maps) BY ClientFacts, OverlapOK
      <4> HIDE DEF o
      <4>4. ClientGone(o, snapshot, maps, cached, gone)
        <5>1. ClientGone(client[d], snapshot, maps, cached, gone) BY DEF GoneInv
        <5> QED BY <4>2, <5>1 DEF ClientGone
      <4>5. ClientGone(o, snaps, dirmaps, lists, gone)
        BY <2>4, <2>7, <4>2, <4>3, <4>4, ClientGoneKept
      <4> QED BY <4>1, <4>5
    <3> QED BY <3>1, <3>2, <3>3
  <2> QED BY <1>1, <2>11, <2>14 DEF GoneInv, snaps, dirmaps, lists
<1> QED BY <1>2, <1>3

LEMMA GoneDeletes ==
  ASSUME VolumeInv, GoneInv, NEW c \in Clients, VolumeDelete(c)
  PROVE  GoneInv'
<1>0. ClientGone(client[c], snapshot, maps, cached, gone) BY DEF GoneInv
<1>1. UNCHANGED <<maps, cached, snapshot, gone>> BY DEF VolumeDelete
<1>2. CASE client' = [client EXCEPT ![c] = Idle] /\ UNCHANGED remote BY <1>1, <1>2, IdleGone, GoneClient
<1>3. CASE /\ remote' = Without(remote, {p \in DOMAIN remote : p = Entry(c).path \/ IsBelow(p, Entry(c).path)})
           /\ client' = [client EXCEPT ![c].pc = "deleting"]
  <2> DEFINE cl == [client[c] EXCEPT !.pc = "deleting"]
  <2>1. cl.pc = "deleting" /\ cl.entry = client[c].entry /\ cl.overlap = client[c].overlap
    BY ClientFacts DEF ClientFields
  <2>2. client' = [client EXCEPT ![c] = cl] BY <1>3
  <2> HIDE DEF cl
  <2>3. ClientGone(cl, snapshot, maps, cached, gone) BY <1>0, <2>1, QuietGone
  <2>4. \A d \in Clients : client'[d] = IF d = c THEN cl ELSE client[d] BY <2>2 DEF VolumeInv
  <2>5. \A d \in Clients : ClientGone(client'[d], snapshot, maps, cached, gone) BY <2>3, <2>4 DEF GoneInv
  <2>6. DOMAIN remote' \subseteq DOMAIN remote BY <1>3 DEF Without
  <2>7. gone \cap DOMAIN remote' = {} BY <2>6 DEF GoneInv
  <2> QED BY <1>1, <2>5, <2>7 DEF GoneInv
<1> QED BY <1>2, <1>3 DEF VolumeDelete

\* DeleteNode only takes nodes out of a dirmap.
LEMMA GoneNode ==
  ASSUME VolumeInv, GoneInv, NEW c \in Clients, DeleteNode(c)
  PROVE  GoneInv'
<1>1. At(c, "deleting") /\ UNCHANGED <<remote, cached, snapshot, deletions, gone>>
  BY DEF DeleteNode, history
<1>2. PICK pc \in {"panicked", "deleted"} : client' = [client EXCEPT ![c].pc = pc] BY DEF DeleteNode
<1>3. Shrinks(maps, maps', Len(snapshot))
  <2>1. CASE Entry(c).dirmap = 0
    <3>1. maps' = maps BY <2>1 DEF DeleteNode
    <3> QED BY <3>1 DEF Shrinks
  <2>2. CASE Entry(c).dirmap # 0
    <3>1. maps' = [maps EXCEPT ![Entry(c).dirmap] = WithoutNode(@, Entry(c).path)] BY <2>2 DEF DeleteNode
    <3> QED BY <1>1, <2>2, <3>1, DeleteNodeMaps
  <2> QED BY <2>1, <2>2
<1>4. Grows(snapshot, snapshot) BY SameFacts
<1>5. gone \subseteq Paths \ {RootPath} BY DEF GoneInv
<1>6. \A d \in Clients : ClientGone(client[d], snapshot, maps', cached, gone)
  BY <1>3, <1>4, <1>5, ClientFacts, ClientGoneKept DEF GoneInv
<1>7. CachedGone(cached, snapshot, maps', gone)
  BY <1>3, <1>4, <1>5, CachedGoneKept DEF GoneInv, VolumeInv
<1> DEFINE cl == [client[c] EXCEPT !.pc = pc]
<1>8. cl.pc = pc /\ cl.entry = client[c].entry /\ cl.overlap = client[c].overlap BY ClientFacts DEF ClientFields
<1>9. client' = [client EXCEPT ![c] = cl] BY <1>2
<1> HIDE DEF cl
<1>10. ClientGone(cl, snapshot, maps', cached, gone)
  <2>1. ClientGone(client[c], snapshot, maps', cached, gone) BY <1>6
  <2> QED BY <1>8, <2>1, QuietGone
<1>11. \A d \in Clients : client'[d] = IF d = c THEN cl ELSE client[d] BY <1>9 DEF VolumeInv
<1>12. \A d \in Clients : ClientGone(client'[d], snapshot, maps', cached, gone) BY <1>6, <1>10, <1>11
<1> QED BY <1>1, <1>7, <1>12 DEF GoneInv

\* A node that was deleted with nothing else under way is not shown by any dirmap that a cached
\* list comes from: the only such dirmap that could show it is the one it was deleted from.
LEMMA DeletedFree ==
  ASSUME VolumeInv, GoneInv, NEW c \in Clients, client[c].pc = "deleted", ~client[c].overlap,
         NEW q \in DOMAIN cached
  PROVE  Free(snapshot, maps, cached[q].of, Entry(c).path)
<1> DEFINE p == Entry(c).path
           i == Entry(c).dirmap
           j == cached[q].of
           s == snapshot[i].start
<1>1. p \in Paths /\ p # RootPath /\ i # 0 /\ ~Holds(maps[i], p)
  BY ClientFacts DEF ClientOK, Entry
<1>2. i \in 1..Len(snapshot) /\ IsBelow(p, s) /\ Len(p) <= Len(s) + MaxDepth
  BY <1>1, ClientFacts DEF EntryOK
<1>3. q \in Paths /\ j \in 1..Len(snapshot) /\ snapshot[j].start = q BY DEF VolumeInv, CachedOK
<1>4. s \in Paths /\ Aligned(Len(s)) BY <1>2, SnapFacts DEF SnapOK
<1>5. Aligned(Len(q)) /\ MapOK(maps[j], q, snapshot[j].nodes, deletions) BY <1>3, SnapFacts DEF SnapOK
<1>6. Current(snapshot, cached, i) BY <1>1 DEF GoneInv, ClientGone, Entry
<1> HIDE DEF p, i, j, s
<1>7. SUFFICES ASSUME IsBelow(p, q), Holds(maps[j], p) PROVE FALSE BY <1>3 DEF Free, p, j
<1>8. Len(q) < Len(p) /\ Len(p) <= Len(q) + MaxDepth BY <1>1, <1>3, <1>5, <1>7, HeldDepth
<1>9. Len(s) < Len(p) /\ Len(p) \in Nat /\ Len(s) \in Nat /\ Len(q) \in Nat
  BY <1>1, <1>2, <1>3, <1>4, BelowLen DEF AtOrBelow, Paths
<1>10. Len(s) = Len(q) BY <1>2, <1>4, <1>5, <1>8, <1>9, AlignedEqual
<1>11. s = q BY <1>1, <1>2, <1>3, <1>4, <1>7, <1>10, SamePrefix
<1>12. j = i BY <1>6, <1>11 DEF Current, s, j
<1> QED BY <1>1, <1>7, <1>12

LEMMA GoneReturns ==
  ASSUME VolumeInv, GoneInv, NEW c \in Clients, DeleteReturns(c)
  PROVE  GoneInv'
<1> DEFINE p == Entry(c).path
           lists == CacheWithout(p)
<1>1. /\ client[c].pc = "deleted" /\ UNCHANGED <<remote, maps, snapshot, deletions>>
      /\ cached' = lists /\ client' = [client EXCEPT ![c] = Idle]
  BY DEF DeleteReturns, At
<1>2. p \in deletions /\ p # RootPath /\ p \in Paths
  BY <1>1, ClientFacts DEF ClientOK, Entry
<1>3. /\ DOMAIN lists \subseteq DOMAIN cached
      /\ \A q \in DOMAIN lists : /\ lists[q].of = cached[q].of
                                 /\ DOMAIN lists[q].children \subseteq DOMAIN cached[q].children
                                 /\ q = Parent(p) => Last(p) \notin DOMAIN lists[q].children
  <2> HIDE DEF p
  <2> QED BY <1>2, CacheWithoutOK DEF VolumeInv, MapsInv
<1> HIDE DEF lists
<1>4. Grows(snapshot, snapshot) /\ Shrinks(maps, maps, Len(snapshot)) BY SameFacts
<1>5. gone \subseteq Paths \ {RootPath} /\ gone \cap DOMAIN remote = {} BY DEF GoneInv
<1>6. CachedGone(lists, snapshot, maps, gone)
  BY <1>3, <1>4, <1>5, CachedGoneKept DEF GoneInv, VolumeInv
<1>7. \A d \in Clients : ClientGone(client[d], snapshot, maps, lists, gone)
  BY <1>3, <1>4, <1>5, ClientFacts, ClientGoneKept DEF GoneInv
<1>8. \A d \in Clients : client'[d] = IF d = c THEN Idle ELSE client[d] BY <1>1 DEF VolumeInv
<1>9. CASE gone' = gone
  <2>1. \A d \in Clients : ClientGone(client'[d], snapshot, maps, lists, gone) BY <1>7, <1>8, IdleGone
  <2> QED BY <1>1, <1>5, <1>6, <1>9, <2>1 DEF GoneInv
<1>10. CASE gone' # gone
  <2>1. /\ ~client[c].overlap /\ \A d \in Clients \ {c} : ~Busy(client[d])
        /\ p \notin DOMAIN remote /\ gone' = gone \union {p}
    BY <1>10 DEF DeleteReturns
  <2>2. \A d \in Clients : ClientGone(client'[d], snapshot, maps, lists, gone')
    BY <1>8, <2>1, IdleGone, NotBusyGone
  <2>3. \A q \in DOMAIN lists : Free(snapshot, maps, lists[q].of, p)
    BY <1>1, <1>3, <2>1, DeletedFree
  <2>4. CachedGone(lists, snapshot, maps, gone')
    BY <1>3, <1>6, <2>1, <2>3 DEF CachedGone
  <2>5. gone' \subseteq Paths \ {RootPath} /\ gone' \cap DOMAIN remote = {} BY <1>2, <1>5, <2>1
  <2> QED BY <1>1, <2>2, <2>4, <2>5 DEF GoneInv
<1> QED BY <1>9, <1>10

LEMMA GoneStreams ==
  ASSUME VolumeInv, GoneInv, NEW c \in Clients,
         VolumeStream(c) \/ StreamChunk(c) \/ ReaderReads(c) \/ WriteFails(c) \/ StreamEnds(c)
         \/ CloseReader(c) \/ Leave(c)
  PROVE  GoneInv'
<1>0. ClientGone(client[c], snapshot, maps, cached, gone) BY DEF GoneInv
<1>1. UNCHANGED <<remote, maps, cached, snapshot, gone>>
  BY DEF VolumeStream, StreamChunk, ReaderReads, WriteFails, StreamEnds, CloseReader, Leave, history
<1>2. CASE client' = [client EXCEPT ![c] = Idle] BY <1>1, <1>2, IdleGone, GoneClient
<1>3. CASE Leave(c) BY <1>2, <1>3 DEF Leave
<1>4. ASSUME NEW out \in Outputs,
             client' = [client EXCEPT ![c] = [Idle EXCEPT !.pc = "streaming",
                          !.stream = [NoStream EXCEPT !.output = out, !.out = out, !.reader = "open"]]]
      PROVE  GoneInv'
  <2> DEFINE st == [NoStream EXCEPT !.output = out, !.out = out, !.reader = "open"]
             cl == [Idle EXCEPT !.pc = "streaming", !.stream = st]
  <2> HIDE DEF st
  <2>1. cl.pc = "streaming" /\ cl.entry = Root BY IdleFacts DEF ClientFields
  <2>2. client' = [client EXCEPT ![c] = cl] BY <1>4 DEF st
  <2> HIDE DEF cl
  <2>3. cl.entry.dirmap = 0 BY <2>1 DEF Root
  <2>4. ClientGone(cl, snapshot, maps, cached, gone) BY <1>0, <2>1, <2>3, QuietGone
  <2> QED BY <1>1, <2>2, <2>4, GoneClient
<1>5. CASE VolumeStream(c) BY <1>2, <1>4, <1>5 DEF VolumeStream
<1>6. ASSUME NEW st, NEW pc \in {"streaming", "streamed"},
             client' = [client EXCEPT ![c] = [client[c] EXCEPT !.pc = pc, !.stream = st]]
      PROVE  GoneInv'
  <2> DEFINE cl == [client[c] EXCEPT !.pc = pc, !.stream = st]
  <2>1. cl.pc = pc /\ cl.entry = client[c].entry /\ cl.overlap = client[c].overlap
    BY ClientFacts DEF ClientFields
  <2> HIDE DEF cl
  <2>2. ClientGone(cl, snapshot, maps, cached, gone) BY <1>0, <2>1, QuietGone
  <2> QED BY <1>1, <1>6, <2>2, GoneClient DEF cl
<1>7. c \in DOMAIN client /\ DOMAIN client[c] = ClientFields BY ClientFacts
<1>8. ASSUME NEW st, client[c].pc = "streaming", client' = [client EXCEPT ![c].stream = st] PROVE GoneInv'
  <2>1. [client[c] EXCEPT !.stream = st] = [client[c] EXCEPT !.pc = "streaming", !.stream = st]
    BY <1>7, <1>8 DEF ClientFields
  <2>2. client' = [client EXCEPT ![c] = [client[c] EXCEPT !.pc = "streaming", !.stream = st]]
    BY <1>8, <2>1
  <2> QED BY <1>6, <2>2
<1>9. CASE StreamChunk(c) BY <1>8, <1>9 DEF StreamChunk, At
<1>10. CASE CloseReader(c)
  <2> DEFINE st == [client[c].stream EXCEPT !.reader = "closed"]
  <2>1. client' = [client EXCEPT ![c].stream = st] BY <1>10 DEF CloseReader
  <2> QED BY <1>8, <1>10, <2>1 DEF CloseReader, At
<1>11. CASE StreamEnds(c)
  <2> DEFINE e == IF client[c].stream.errs THEN "error" ELSE "eof"
             st == [client[c].stream EXCEPT !.ended = e]
  <2>1. client' = [client EXCEPT ![c].pc = "streamed", ![c].stream.ended = e] BY <1>11 DEF StreamEnds
  <2> HIDE DEF e
  <2>2. client' = [client EXCEPT ![c] = [client[c] EXCEPT !.pc = "streamed", !.stream = st]]
    BY <1>7, <2>1 DEF ClientFields
  <2> QED BY <1>6, <2>2
<1>12. CASE ReaderReads(c)
  <2> DEFINE g == Append(client[c].stream.got, Head(client[c].stream.writing))
  <2>1. client' = [client EXCEPT ![c].stream.got = g, ![c].stream.writing = <<>>] BY <1>12 DEF ReaderReads
  <2> HIDE DEF g
  <2>2. client' = [client EXCEPT ![c].stream = [client[c].stream EXCEPT !.got = g, !.writing = <<>>]]
    BY <1>7, <2>1 DEF ClientFields
  <2> QED BY <1>8, <1>12, <2>2 DEF ReaderReads, At
<1>13. CASE WriteFails(c)
  <2>1. client' = [client EXCEPT ![c].stream.errs = TRUE, ![c].stream.writing = <<>>] BY <1>13 DEF WriteFails
  <2>2. client' = [client EXCEPT ![c].stream = [client[c].stream EXCEPT !.errs = TRUE, !.writing = <<>>]]
    BY <1>7, <2>1 DEF ClientFields
  <2> QED BY <1>8, <1>13, <2>2 DEF WriteFails, At
<1> QED BY <1>3, <1>5, <1>9, <1>10, <1>11, <1>12, <1>13

LEMMA GoneEnvironment ==
  ASSUME VolumeInv, GoneInv, NewFS \/ Expire \/ Change
  PROVE  GoneInv'
<1>1. CASE NewFS
  <2>1. gone' = {} /\ \A c \in Clients : client'[c] = Idle BY <1>1 DEF NewFS, VolumeInv
  <2>2. \A c \in Clients : ClientGone(client'[c], snapshot', maps', cached', gone') BY <2>1, IdleGone
  <2>3. CachedGone(cached', snapshot', maps', gone') BY <2>1 DEF CachedGone
  <2> QED BY <2>1, <2>2, <2>3 DEF GoneInv
<1>2. CASE Expire
  <2>1. PICK path \in DOMAIN cached : cached' = Without(cached, {path}) BY <1>2 DEF Expire
  <2>2. UNCHANGED <<remote, maps, client, snapshot, gone>> BY <1>2 DEF Expire, history
  <2>3. \A q \in DOMAIN cached' : q \in DOMAIN cached /\ cached'[q] = cached[q] BY <2>1 DEF Without
  <2>4. Grows(snapshot, snapshot) /\ Shrinks(maps, maps, Len(snapshot)) BY SameFacts
  <2>5. gone \subseteq Paths \ {RootPath} BY DEF GoneInv
  <2> DEFINE lists == cached'
  <2>6. \A q \in DOMAIN lists : /\ q \in DOMAIN cached /\ lists[q].of = cached[q].of
                                /\ DOMAIN lists[q].children \subseteq DOMAIN cached[q].children
    BY <2>3
  <2> HIDE DEF lists
  <2>7. CachedGone(lists, snapshot, maps, gone)
    BY <2>4, <2>5, <2>6, CachedGoneKept DEF GoneInv, VolumeInv
  <2>8. \A d \in Clients : ClientGone(client[d], snapshot, maps, lists, gone)
    BY <2>4, <2>5, <2>6, ClientFacts, ClientGoneKept DEF GoneInv
  <2> QED BY <2>2, <2>7, <2>8 DEF GoneInv, lists
<1>3. CASE Change
  <2>1. UNCHANGED <<maps, cached, client, snapshot>> BY <1>3 DEF Change
  <2>2. gone' \subseteq gone /\ gone' \cap DOMAIN remote' = {}
    <3>1. PICK path \in Volatile :
            \/ /\ remote' = Without(remote, {p \in DOMAIN remote : p = path \/ IsBelow(p, path)})
               /\ UNCHANGED gone
            \/ /\ remote' = Put(remote, path, Initial[path])
               /\ gone' = gone \ {path}
      BY <1>3 DEF Change
    <3>2. gone \cap DOMAIN remote = {} BY DEF GoneInv
    <3> QED BY <3>1, <3>2 DEF Without, Put
  <2>3. Grows(snapshot, snapshot) /\ Shrinks(maps, maps, Len(snapshot)) BY SameFacts
  <2>4. gone \subseteq Paths \ {RootPath} BY DEF GoneInv
  <2>5. CachedGone(cached, snapshot, maps, gone') BY <2>2 DEF GoneInv, CachedGone
  <2>6. \A d \in Clients : ClientGone(client[d], snapshot, maps, cached, gone')
    BY <2>2, <2>3, <2>4, ClientFacts, ClientGoneKept DEF GoneInv
  <2> QED BY <2>1, <2>2, <2>4, <2>5, <2>6 DEF GoneInv
<1> QED BY <1>1, <1>2, <1>3

\* One lemma per group of actions
LEMMA GoneStep == VolumeInv /\ GoneInv /\ [Next]_vars => GoneInv'
<1> SUFFICES ASSUME VolumeInv, GoneInv, [Next]_vars PROVE GoneInv' OBVIOUS
<1>1. CASE UNCHANGED vars BY <1>1 DEF vars, GoneInv
<1>2. CASE NewFS \/ Expire \/ Change BY <1>2, GoneEnvironment
<1>3. ASSUME NEW c \in Clients, ListPrefetched(c) \/ ListCached(c) \/ ListRuns(c) \/ Choose(c) PROVE GoneInv'
  BY <1>3, GoneLists
<1>4. ASSUME NEW c \in Clients, ListEnds(c) PROVE GoneInv' BY <1>4, GoneListEnds
<1>5. ASSUME NEW c \in Clients, VolumeDelete(c) PROVE GoneInv' BY <1>5, GoneDeletes
<1>6. ASSUME NEW c \in Clients, DeleteNode(c) PROVE GoneInv' BY <1>6, GoneNode
<1>7. ASSUME NEW c \in Clients, DeleteReturns(c) PROVE GoneInv' BY <1>7, GoneReturns
<1>8. ASSUME NEW c \in Clients, VolumeStream(c) \/ StreamChunk(c) \/ ReaderReads(c) \/ WriteFails(c) \/ StreamEnds(c)
         \/ CloseReader(c) \/ Leave(c)
      PROVE  GoneInv'
  BY <1>8, GoneStreams
<1> QED BY <1>1, <1>2, <1>3, <1>4, <1>5, <1>6, <1>7, <1>8 DEF Next

\* Only the three ways to end a List show a listing.
LEMMA ListedBy ==
  ASSUME VolumeInv, Next, NEW c \in Clients, client[c].pc # "listed", client'[c].pc = "listed"
  PROVE  ListPrefetched(c) \/ ListCached(c) \/ ListEnds(c)
<1>0. client'[c] # client[c] OBVIOUS
<1>1. CASE NewFS \/ Expire \/ Change BY <1>0, <1>1 DEF NewFS, Expire, Change
<1>2. ASSUME NEW d \in Clients, NEW cl, client' = [client EXCEPT ![d] = cl], cl.pc # "listed" \/ d # c PROVE FALSE
  BY <1>0, <1>2 DEF VolumeInv
<1>3. Idle.pc = "idle" BY IdleFacts
<1>4. ASSUME NEW d \in Clients, ListPrefetched(d) \/ ListCached(d) PROVE d = c
  <2>1. PICK cl : client' = [client EXCEPT ![d] = cl] BY <1>4 DEF ListPrefetched, ListCached
  <2> QED BY <1>2, <2>1
<1>5. ASSUME NEW d \in Clients, ListRuns(d) PROVE FALSE
  <2>1. PICK R : client' = [client EXCEPT ![d] = [client[d] EXCEPT !.pc = "listing", !.result = R]]
    BY <1>5 DEF ListRuns
  <2> DEFINE cl == [client[d] EXCEPT !.pc = "listing", !.result = R]
  <2>2. cl.pc = "listing" BY ClientFacts DEF ClientFields
  <2> HIDE DEF cl
  <2> QED BY <1>2, <2>1, <2>2 DEF cl
<1>6. ASSUME NEW d \in Clients, ListEnds(d) PROVE d = c
  <2>1. CASE client' = [client EXCEPT ![d] = Idle] BY <1>2, <1>3, <2>1
  <2>2. ASSUME NEW cl, client' = Overlapped([client EXCEPT ![d] = cl], d), d # c PROVE FALSE
    <3>1. client'[c] = client[c] \/ client'[c] = [client[c] EXCEPT !.overlap = TRUE]
      BY <2>2 DEF Overlapped, VolumeInv
    <3>2. [client[c] EXCEPT !.overlap = TRUE].pc = client[c].pc BY ClientFacts DEF ClientFields
    <3> QED BY <3>1, <3>2
  <2> QED BY <1>6, <2>1, <2>2 DEF ListEnds
<1>7. ASSUME NEW d \in Clients, Choose(d) PROVE FALSE
  <2>1. CASE client' = [client EXCEPT ![d] = Idle] BY <1>2, <1>3, <2>1
  <2>2. ASSUME NEW e, client' = [client EXCEPT ![d] = [Idle EXCEPT !.entry = e, !.overlap = client[d].overlap]]
        PROVE  FALSE
    <3> DEFINE cl == [Idle EXCEPT !.entry = e, !.overlap = client[d].overlap]
    <3>1. cl.pc = "idle" BY IdleFacts DEF ClientFields
    <3> HIDE DEF cl
    <3> QED BY <1>2, <2>2, <3>1 DEF cl
  <2> QED BY <1>7, <2>1, <2>2 DEF Choose
<1>8. ASSUME NEW d \in Clients, NEW pc, pc # "listed", client' = [client EXCEPT ![d].pc = pc] PROVE FALSE
  <2> DEFINE cl == [client[d] EXCEPT !.pc = pc]
  <2>1. cl.pc = pc BY ClientFacts DEF ClientFields
  <2>2. client' = [client EXCEPT ![d] = cl] BY <1>8
  <2> HIDE DEF cl
  <2> QED BY <1>2, <1>8, <2>1, <2>2
<1>9. ASSUME NEW d \in Clients, VolumeDelete(d) PROVE FALSE BY <1>2, <1>3, <1>8, <1>9 DEF VolumeDelete
<1>10. ASSUME NEW d \in Clients, DeleteNode(d) PROVE FALSE BY <1>8, <1>10 DEF DeleteNode
<1>11. ASSUME NEW d \in Clients, DeleteReturns(d) \/ Leave(d) PROVE FALSE BY <1>2, <1>3, <1>11 DEF DeleteReturns, Leave
<1>12. ASSUME NEW d \in Clients, VolumeStream(d) PROVE FALSE
  <2>1. CASE client' = [client EXCEPT ![d] = Idle] BY <1>2, <1>3, <2>1
  <2>2. ASSUME NEW st, client' = [client EXCEPT ![d] = [Idle EXCEPT !.pc = "streaming", !.stream = st]] PROVE FALSE
    <3> DEFINE cl == [Idle EXCEPT !.pc = "streaming", !.stream = st]
    <3>1. cl.pc = "streaming" BY IdleFacts DEF ClientFields
    <3> HIDE DEF cl
    <3> QED BY <1>2, <2>2, <3>1 DEF cl
  <2> QED BY <1>12, <2>1, <2>2 DEF VolumeStream
<1>13. ASSUME NEW d \in Clients, NEW st, client[d].pc = "streaming", client' = [client EXCEPT ![d].stream = st] PROVE FALSE
  <2> DEFINE cl == [client[d] EXCEPT !.stream = st]
  <2>1. cl.pc = "streaming" BY <1>13, ClientFacts DEF ClientFields
  <2>2. client' = [client EXCEPT ![d] = cl] BY <1>13
  <2> HIDE DEF cl
  <2> QED BY <1>2, <2>1, <2>2
<1>14. ASSUME NEW d \in Clients, StreamChunk(d) PROVE FALSE BY <1>13, <1>14 DEF StreamChunk, At
<1>15. ASSUME NEW d \in Clients, CloseReader(d) PROVE FALSE
  <2>1. client' = [client EXCEPT ![d].stream = [client[d].stream EXCEPT !.reader = "closed"]]
    BY <1>15 DEF CloseReader
  <2> QED BY <1>13, <1>15, <2>1 DEF CloseReader, At
<1>16. ASSUME NEW d \in Clients, StreamEnds(d) PROVE FALSE
  <2> DEFINE e == IF client[d].stream.errs THEN "error" ELSE "eof"
             cl == [client[d] EXCEPT !.pc = "streamed", !.stream = [client[d].stream EXCEPT !.ended = e]]
  <2>1. client' = [client EXCEPT ![d].pc = "streamed", ![d].stream.ended = e] BY <1>16 DEF StreamEnds
  <2> HIDE DEF e
  <2>2. client' = [client EXCEPT ![d] = cl] BY <2>1, ClientFacts DEF ClientFields
  <2>3. cl.pc = "streamed" BY ClientFacts DEF ClientFields
  <2> HIDE DEF cl
  <2> QED BY <1>2, <2>2, <2>3
<1>17. ASSUME NEW d \in Clients, ReaderReads(d) PROVE FALSE
  <2> DEFINE g == Append(client[d].stream.got, Head(client[d].stream.writing))
  <2>1. client' = [client EXCEPT ![d].stream.got = g, ![d].stream.writing = <<>>] BY <1>17 DEF ReaderReads
  <2> HIDE DEF g
  <2>2. client' = [client EXCEPT ![d].stream = [client[d].stream EXCEPT !.got = g, !.writing = <<>>]]
    BY <2>1, ClientFacts DEF ClientFields
  <2> QED BY <1>13, <1>17, <2>2 DEF ReaderReads, At
<1>18. ASSUME NEW d \in Clients, WriteFails(d) PROVE FALSE
  <2>1. client' = [client EXCEPT ![d].stream.errs = TRUE, ![d].stream.writing = <<>>] BY <1>18 DEF WriteFails
  <2>2. client' = [client EXCEPT ![d].stream = [client[d].stream EXCEPT !.errs = TRUE, !.writing = <<>>]]
    BY <2>1, ClientFacts DEF ClientFields
  <2> QED BY <1>13, <1>18, <2>2 DEF WriteFails, At
<1> QED
  BY <1>1, <1>4, <1>5, <1>6, <1>7, <1>9, <1>10, <1>11, <1>12, <1>14, <1>15, <1>16, <1>17, <1>18 DEF Next

\* Each of the three shows nothing that is missing.
LEMMA DeletedStep ==
  ASSUME VolumeInv, GoneInv, [Next]_vars, NEW c \in Clients, client[c].pc # "listed", client'[c].pc = "listed",
         NEW n \in DOMAIN client'[c].shown
  PROVE  client'[c].shown[n].path \notin gone
<1> DEFINE q == Entry(c).path
           p == Append(q, n)
<1>0. ListPrefetched(c) \/ ListCached(c) \/ ListEnds(c)
  <2>1. ~UNCHANGED vars BY DEF vars
  <2> QED BY <2>1, ListedBy
<1>1. q \in Paths /\ c \in DOMAIN client BY ClientFacts
<1>2. CASE ListPrefetched(c)
  <2> DEFINE i == Entry(c).dirmap
             dm == maps[i]
             s == snapshot[i].start
             G == GenerateChildren(dm, i, q)
             cl == [client[c] EXCEPT !.pc = "listed", !.of = i, !.shown = G]
  <2>1. client' = [client EXCEPT ![c] = cl] /\ i # 0 /\ Entry(c).kind = "dir" BY <1>2 DEF ListPrefetched, Lists
  <2>2. i \in 1..Len(snapshot) /\ IsBelow(q, s) /\ Len(q) # Len(s) + MaxDepth
    BY <2>1, ClientFacts DEF EntryOK
  <2>3. MapOK(dm, s, snapshot[i].nodes, deletions) /\ s \in Paths BY <2>2, SnapFacts
  <2>4. client'[c].shown = G
    <3> HIDE DEF G, i
    <3>1. cl.shown = G BY ClientFacts DEF ClientFields
    <3> HIDE DEF cl
    <3> QED BY <1>1, <2>1, <3>1
  <2>5. q \in DOMAIN dm /\ n \in DOMAIN dm[q] /\ G[n].path = p
    <3>1. n \in DOMAIN G BY <2>4
    <3> HIDE DEF dm, i, q
    <3> QED BY <3>1 DEF GenerateChildren, Empty
  <2> HIDE DEF dm, s, G
  <2>6. AtOrBelow(q, s) BY <2>2 DEF AtOrBelow
  <2>7. dm[q] # Nil /\ n \in STRING BY <2>2, <2>3, <2>5, <2>6 DEF MapOK
  <2>8. p \in Paths /\ p # RootPath /\ Parent(p) = q /\ Last(p) = n BY <1>1, <2>7, AppendFacts
  <2>9. Holds(dm, p) /\ IsBelow(p, s) BY <2>3, <2>5, <2>6, <2>7, <2>8, BelowParent DEF Holds
  <2>10. \A x \in gone : Free(snapshot, maps, i, x) BY <2>1 DEF GoneInv, ClientGone, Entry
  <2> QED BY <2>4, <2>5, <2>9, <2>10 DEF Free, dm, s
<1>3. CASE ListCached(c)
  <2> DEFINE r == cached[q]
             cl == [client[c] EXCEPT !.pc = "listed", !.of = r.of, !.shown = r.children]
  <2>1. client' = [client EXCEPT ![c] = cl] /\ q \in DOMAIN cached BY <1>3 DEF ListCached
  <2> HIDE DEF r
  <2>2. cl.shown = r.children BY ClientFacts DEF ClientFields
  <2> HIDE DEF cl
  <2>3. client'[c].shown = r.children BY <1>1, <2>1, <2>2
  <2>4. ShownOK(r.children, r.of, q, snapshot, deletions) BY <2>1 DEF VolumeInv, CachedOK, r
  <2>5. n \in DOMAIN r.children BY <2>3
  <2>6. n \in STRING /\ r.children[n].path = p BY <2>4, <2>5 DEF ShownOK
  <2>7. Parent(p) = q /\ Last(p) = n BY <1>1, <2>6, AppendFacts
  <2>8. p \notin gone BY <2>1, <2>5, <2>7 DEF GoneInv, CachedGone, r
  <2> QED BY <2>3, <2>6, <2>8
<1>4. CASE ListEnds(c)
  <2>0. client[c].pc = "listing" /\ UNCHANGED deletions BY <1>4 DEF ListEnds, At
  <2>1. ~(client[c].result = {} \/ Len(maps) = MaxLists)
    <3>1. SUFFICES ASSUME client[c].result = {} \/ Len(maps) = MaxLists PROVE FALSE OBVIOUS
    <3>2. client' = [client EXCEPT ![c] = Idle] BY <1>4, <3>1 DEF ListEnds
    <3>3. client'[c].pc = "idle" BY <1>1, <3>2, IdleFacts
    <3> QED BY <3>3
  <2> DEFINE id == Len(maps) + 1
  <2>2. PICK r \in client[c].result :
          /\ Made(r.dirmap, q, r.nodes)
          /\ client' = Overlapped([client EXCEPT ![c] = [@ EXCEPT !.pc = "listed", !.of = id,
                            !.shown = GenerateChildren(r.dirmap, id, q), !.result = {}]], c)
    BY <1>4, <2>1 DEF ListEnds
  <2> DEFINE G == GenerateChildren(r.dirmap, id, q)
             cl == [client[c] EXCEPT !.pc = "listed", !.of = id, !.shown = G, !.result = {}]
  <2>3. /\ SnapOK([start |-> q, nodes |-> r.nodes]) /\ MapOK(r.dirmap, q, r.nodes, {})
        /\ \A x \in gone : x \notin r.nodes
    BY <2>0, ClientFacts DEF ClientOK, Entry, GoneInv, ClientGone
  <2>4. snapshot'[id] = [start |-> q, nodes |-> r.nodes] /\ ShownOK(G, id, q, snapshot', deletions)
    <3> HIDE DEF q
    <3> QED BY <1>1, <2>0, <2>1, <2>2, <2>3, MadeOK, NewListOK
  <2>5. snapshot'[id].nodes = r.nodes BY <2>4
  <2> HIDE DEF G, id
  <2>6. cl.shown = G BY ClientFacts DEF ClientFields
  <2>7. client' = Overlapped([client EXCEPT ![c] = cl], c) BY <2>2 DEF G
  <2> HIDE DEF cl
  <2>8. client'[c] = cl BY <1>1, <2>7 DEF Overlapped
  <2>9. G[n].path = p /\ p \in r.nodes BY <2>4, <2>5, <2>6, <2>8 DEF ShownOK
  <2> QED BY <2>3, <2>6, <2>8, <2>9
<1> QED BY <1>0, <1>2, <1>3, <1>4

\* core.go:78, methodWrappers.go:265: what was deleted through Wash with nothing else under way is
\* not shown by any later listing, from the cache, from any dirmap or from a new command, until
\* someone makes it again.
THEOREM DeletedGoneCorrect == Spec => DeletedGone
<1>1. Init => GoneInv
  <2> SUFFICES ASSUME Init PROVE GoneInv OBVIOUS
  <2>1. gone = {} /\ \A c \in Clients : client[c] = Idle BY DEF Init
  <2>2. CachedGone(cached, snapshot, maps, gone) BY <2>1 DEF CachedGone
  <2> QED BY <2>1, <2>2, IdleGone DEF GoneInv
<1>2. VolumeInv /\ GoneInv /\ [Next]_vars => GoneInv' BY GoneStep
<1>3. VolumeInv /\ GoneInv /\ [Next]_vars =>
        [\A c \in Clients : client[c].pc # "listed" /\ client'[c].pc = "listed" =>
            \A n \in DOMAIN client'[c].shown : client'[c].shown[n].path \notin gone]_vars
  BY DeletedStep
<1> QED BY <1>1, <1>2, <1>3, VolumeInvariant, PTL DEF Spec, DeletedGone
=============================================================================
